--------------------------- MODULE ExperimentProofs ---------------------------
(***************************************************************************)
(* Proofs about the batch runner, for every set of command lines and any   *)
(* number of tests.                                                        *)
(***************************************************************************)
EXTENDS Experiment, FiniteSetTheorems, TLAPS

(* The statistics are a record of numbers.                                 *)
LEMMA StatsFacts ==
  ASSUME TypeOK
  PROVE  /\ stats.total_tests \in Nat /\ stats.gen_fail \in Nat
         /\ stats.compile_fail \in Nat /\ stats.timeout_tests \in Nat
         /\ stats.fail_tests \in Nat /\ stats.zero_codes \in Nat
         /\ stats.other_codes \in Nat /\ test_count \in Nat
BY DEF TypeOK, Stats

(* Counting a failed execution leaves a record of numbers.                 *)
LEMMA CountedFailure ==
  ASSUME NEW s \in Stats
  PROVE  /\ [s EXCEPT !.other_codes = @ + 1, !.timeout_tests = @ + 1] \in Stats
         /\ [s EXCEPT !.other_codes = @ + 1, !.fail_tests = @ + 1] \in Stats
<1>1. s.other_codes + 1 \in Nat /\ s.timeout_tests + 1 \in Nat /\ s.fail_tests + 1 \in Nat
  BY DEF Stats
<1> QED
  BY <1>1 DEF Stats

(* The runner starts with nothing counted and nothing kept.                *)
LEMMA InitRunnerInv == Init => RunnerInv
<1> SUFFICES ASSUME Init PROVE RunnerInv
  OBVIOUS
<1> USE DEF Init
<1>1. NoFile \in Text
  BY DEF NoFile, Text
<1>2. TypeOK
  BY <1>1, RunnerAssumption DEF TypeOK, Stats
<1>3. Accounting /\ KeptUnderOwnTest
  BY DEF Accounting, KeptUnderOwnTest, UnderWay
<1>4. WithinLimit
  BY RunnerAssumption DEF WithinLimit, CommandLine
<1> QED
  BY <1>2, <1>3, <1>4 DEF RunnerInv

(* What a step adds to the kept files.                                     *)
LEMMA CopiesFacts ==
  ASSUME NEW name \in {"generate", "compile", "execute"}, NEW outcome, NEW log_test,
         NEW text \in Text, test_count \in Nat,
         NEW f \in Copies(name, outcome, log_test, text)
  PROVE  /\ f.name = name /\ f.test = test_count /\ f.text = text
         /\ f \in KeptFile
BY DEF Copies, Suffix, KeptFile

(* The steps that run no child process.                                    *)
LEMMA ScriptStepInv ==
  ASSUME RunnerInv,
         \/ CreateLogger \/ Setup \/ LoopTest \/ StopAtLimit \/ StopAfterGenerate
         \/ NothingToExecute \/ Report \/ Signal \/ SignalTooEarly \/ TimePasses
         \/ UNCHANGED vars
  PROVE  RunnerInv'
<1> USE DEF RunnerInv, CreateLogger, Setup, LoopTest, StopAtLimit, StopAfterGenerate,
            NothingToExecute, Report, Signal, SignalTooEarly, TimePasses, vars
<1>1. TypeOK'
  BY DEF TypeOK, Running, Ended
<1>2. Accounting'
  BY DEF Accounting, UnderWay
<1>3. WithinLimit'
  BY DEF WithinLimit
<1>4. KeptUnderOwnTest'
  BY DEF KeptUnderOwnTest
<1>5. (pc \in {"compile", "execute"} => source = ThisTest)'
  BY DEF ThisTest
<1>6. (args.stop_on_fail /\ stats.fail_tests > 0 => pc \in {"report", "finished"})'
  BY DEF Running
<1> QED
  BY <1>1, <1>2, <1>3, <1>4, <1>5, <1>6

(* A test is started only below the limit.                                 *)
LEMMA StartTestInv ==
  ASSUME RunnerInv, StartTest
  PROVE  RunnerInv'
<1> USE DEF RunnerInv, StartTest
<1>1. TypeOK'
  BY StatsFacts DEF TypeOK, Stats, Running
<1>2. Accounting'
  BY StatsFacts DEF Accounting, UnderWay, TypeOK, Stats
<1>3. WithinLimit'
  BY StatsFacts DEF WithinLimit, LimitHit, GeneratedOnce, TypeOK, Stats, CommandLine
<1>4. KeptUnderOwnTest'
  BY DEF KeptUnderOwnTest
<1>5. (args.stop_on_fail /\ stats.fail_tests > 0 => pc \in {"report", "finished"})'
  BY DEF TypeOK, Stats
<1> QED
  BY <1>1, <1>2, <1>3, <1>4, <1>5

(* A generation that succeeds leaves the source of this test.              *)
LEMMA GenerateInv ==
  ASSUME RunnerInv, Generate
  PROVE  RunnerInv'
<1> USE DEF RunnerInv
<1>1. PICK outcome \in Outcome :
        /\ source' \in Written(outcome)
        /\ saved' = saved \cup Copies("generate", outcome, FALSE, source')
        /\ \/ /\ ReturnsZero(outcome)
              /\ pc' = IF args.mode = "generate" THEN "exited" ELSE "compile"
              /\ UNCHANGED stats
           \/ /\ ~ReturnsZero(outcome)
              /\ pc' = "loop"
              /\ stats' = [stats EXCEPT !.gen_fail = @ + 1]
  BY DEF Generate
<1>2. /\ pc = "generate"
      /\ UNCHANGED <<args, received, terminate, elapsed, test_count, binary>>
  BY DEF Generate
<1>3. source' \in Text
  <2>1. source' \in Written(outcome)
    BY <1>1
  <2>2. source \in Text /\ test_count \in Nat
    BY DEF TypeOK
  <2>3. Whole(test_count) \in Text /\ Part(test_count) \in Text
    BY <2>2 DEF Text, Whole, Part
  <2> QED
    BY <2>1, <2>2, <2>3 DEF Written, MayLeave
<1>4. ReturnsZero(outcome) => source' = ThisTest
  <2>1. source' \in Written(outcome)
    BY <1>1
  <2> QED
    BY <2>1 DEF Written, MayLeave, ThisTest
<1>5. \A f \in saved' \ saved :
        /\ f.name = "generate"
        /\ f \in KeptFile
  <2> SUFFICES ASSUME NEW f \in Copies("generate", outcome, FALSE, source')
               PROVE  f.name = "generate" /\ f \in KeptFile
    BY <1>1
  <2>1. test_count \in Nat
    BY DEF TypeOK
  <2> QED
    BY <2>1, <1>3, CopiesFacts
<1>6. TypeOK'
  <2>1. stats' \in Stats
    BY <1>1, StatsFacts DEF TypeOK, Stats
  <2>2. saved' \subseteq KeptFile
    BY <1>5 DEF TypeOK
  <2>3. pc' \in Running \cup Ended
    BY <1>1 DEF Running, Ended
  <2> QED
    BY <2>1, <2>2, <2>3, <1>2, <1>3 DEF TypeOK
<1>7. Accounting'
  BY <1>1, <1>2, StatsFacts DEF Accounting, UnderWay, TypeOK, Stats
<1>8. WithinLimit' /\ KeptUnderOwnTest'
  BY <1>2, <1>5 DEF WithinLimit, KeptUnderOwnTest
<1>9. (pc \in {"compile", "execute"} => source = ThisTest)'
  BY <1>1, <1>2, <1>4 DEF ThisTest
<1>10. (args.stop_on_fail /\ stats.fail_tests > 0 => pc \in {"report", "finished"})'
  BY <1>1, <1>2 DEF TypeOK, Stats
<1> QED
  BY <1>6, <1>7, <1>8, <1>9, <1>10

(* What compile keeps is the source of this test.                          *)
LEMMA CompileInv ==
  ASSUME RunnerInv, Compile
  PROVE  RunnerInv'
<1> USE DEF RunnerInv
<1>1. PICK built \in BOOLEAN, outcome \in {"ok", "fail"} :
        /\ binary' = IF built THEN source ELSE binary
        /\ saved' = saved \cup Copies("compile", outcome, FALSE, source)
        /\ pc' = IF ReturnsZero(outcome) THEN "execute" ELSE "loop"
        /\ CompileCount(outcome)
  BY DEF Compile
<1>2. /\ pc = "compile" /\ source = ThisTest
      /\ UNCHANGED <<args, received, terminate, elapsed, test_count, source>>
  BY DEF Compile
<1>3. \A f \in saved' \ saved :
        /\ f.test = test_count /\ f.text = ThisTest
        /\ f \in KeptFile
  <2> SUFFICES ASSUME NEW f \in Copies("compile", outcome, FALSE, source)
               PROVE  f.test = test_count /\ f.text = ThisTest /\ f \in KeptFile
    BY <1>1
  <2>1. source \in Text /\ test_count \in Nat
    BY DEF TypeOK
  <2>2. f.test = test_count /\ f.text = source /\ f \in KeptFile
    BY <2>1 DEF Copies, Suffix, KeptFile
  <2> QED
    BY <2>2, <1>2
<1>4. TypeOK'
  <2>1. stats' \in Stats
    BY <1>1, StatsFacts DEF TypeOK, Stats, CompileCount
  <2>2. saved' \subseteq KeptFile
    BY <1>3 DEF TypeOK
  <2>3. pc' \in Running /\ binary' \in Text
    BY <1>1, <1>2 DEF Running, TypeOK
  <2> QED
    BY <2>1, <2>2, <2>3, <1>2 DEF TypeOK
<1>5. Accounting'
  BY <1>1, <1>2, StatsFacts DEF Accounting, UnderWay, TypeOK, Stats, CompileCount
<1>6. WithinLimit'
  BY <1>2 DEF WithinLimit
<1>7. KeptUnderOwnTest'
  BY <1>2, <1>3 DEF KeptUnderOwnTest, ThisTest
<1>8. (pc \in {"compile", "execute"} => source = ThisTest)'
  BY <1>1, <1>2 DEF ThisTest
<1>9. (args.stop_on_fail /\ stats.fail_tests > 0 => pc \in {"report", "finished"})'
  BY <1>1, <1>2 DEF TypeOK, Stats, CompileCount
<1> QED
  BY <1>4, <1>5, <1>6, <1>7, <1>8, <1>9

(* An execution is counted once, and a failure stops the experiment if it  *)
(* is told to.                                                             *)
LEMMA ExecuteInv ==
  ASSUME RunnerInv, Execute
  PROVE  RunnerInv'
<1> USE DEF RunnerInv
<1>1. PICK outcome \in Outcome :
        /\ saved' = saved \cup Copies("execute", outcome, args.log_all_tests, source)
        /\ stats' = IF ReturnsZero(outcome)
                    THEN [stats EXCEPT !.zero_codes = @ + 1]
                    ELSE IF TimesOut(outcome)
                    THEN [stats EXCEPT !.other_codes = @ + 1, !.timeout_tests = @ + 1]
                    ELSE [stats EXCEPT !.other_codes = @ + 1, !.fail_tests = @ + 1]
        /\ pc' = IF StopsAfter(outcome) THEN "report" ELSE "loop"
  BY DEF Execute
<1>2. /\ pc = "execute" /\ source = ThisTest
      /\ UNCHANGED <<args, received, terminate, elapsed, test_count, source, binary>>
  BY DEF Execute
<1>3. \A f \in saved' \ saved :
        /\ f.test = test_count /\ f.text = ThisTest
        /\ f \in KeptFile
  <2> SUFFICES ASSUME NEW f \in Copies("execute", outcome, args.log_all_tests, source)
               PROVE  f.test = test_count /\ f.text = ThisTest /\ f \in KeptFile
    BY <1>1
  <2>1. source \in Text /\ test_count \in Nat
    BY DEF TypeOK
  <2> QED
    BY <2>1, <1>2, CopiesFacts
<1>4. TypeOK'
  <2>1. stats' \in Stats
    <3>1. stats \in Stats
      BY DEF TypeOK
    <3>2. CASE ReturnsZero(outcome)
      BY <3>1, <3>2, <1>1 DEF Stats
    <3>3. CASE ~ReturnsZero(outcome) /\ TimesOut(outcome)
      BY <3>1, <3>3, <1>1, CountedFailure
    <3>4. CASE ~ReturnsZero(outcome) /\ ~TimesOut(outcome)
      BY <3>1, <3>4, <1>1, CountedFailure
    <3> QED
      BY <3>2, <3>3, <3>4
  <2>2. saved' \subseteq KeptFile
    BY <1>3 DEF TypeOK
  <2>3. pc' \in Running
    BY <1>1 DEF Running
  <2> QED
    BY <2>1, <2>2, <2>3, <1>2 DEF TypeOK
<1>5. Accounting'
  <2>1. stats \in Stats
    BY DEF TypeOK
  <2>2. pc' \in {"report", "loop"}
    BY <1>1
  <2>3. CASE ReturnsZero(outcome)
    BY <2>1, <2>2, <2>3, <1>1, <1>2 DEF Accounting, UnderWay, Stats
  <2>4. CASE ~ReturnsZero(outcome) /\ TimesOut(outcome)
    BY <2>1, <2>2, <2>4, <1>1, <1>2 DEF Accounting, UnderWay, Stats
  <2>5. CASE ~ReturnsZero(outcome) /\ ~TimesOut(outcome)
    BY <2>1, <2>2, <2>5, <1>1, <1>2 DEF Accounting, UnderWay, Stats
  <2> QED
    BY <2>3, <2>4, <2>5
<1>6. WithinLimit'
  BY <1>2 DEF WithinLimit
<1>7. KeptUnderOwnTest'
  BY <1>2, <1>3 DEF KeptUnderOwnTest, ThisTest
<1>8. (pc \in {"compile", "execute"} => source = ThisTest)'
  BY <1>1
<1>9. (args.stop_on_fail /\ stats.fail_tests > 0 => pc \in {"report", "finished"})'
  BY <1>1, <1>2 DEF StopsAfter, Outcome, ReturnsZero, TimesOut, TypeOK, Stats
<1> QED
  BY <1>4, <1>5, <1>6, <1>7, <1>8, <1>9

(* Every step keeps the invariant.                                         *)
LEMMA NextRunnerInv == RunnerInv /\ [Next]_vars => RunnerInv'
BY ScriptStepInv, StartTestInv, GenerateInv, CompileInv, ExecuteInv DEF Next, Step

-----------------------------------------------------------------------------
(***************************************************************************)
(* The theorems.                                                           *)
(***************************************************************************)

(* The runner keeps its inductive invariant.                               *)
THEOREM RunnerInvariant == Spec => []RunnerInv
BY InitRunnerInv, NextRunnerInv, PTL DEF Spec

(* The totals the report prints add up, at every step of every experiment. *)
THEOREM TotalsAddUp == Spec => []Accounting
<1>1. RunnerInv => Accounting
  BY DEF RunnerInv
<1> QED
  BY <1>1, RunnerInvariant, PTL

(* What is kept for a compilation or an execution is the whole source of   *)
(* the test it is kept for.                                                *)
THEOREM KeptTextsAreOwn == Spec => []KeptUnderOwnTest
<1>1. RunnerInv => KeptUnderOwnTest
  BY DEF RunnerInv
<1> QED
  BY <1>1, RunnerInvariant, PTL

(* Every variable of the runner keeps to its type.                         *)
THEOREM RunnerTypeCorrect == Spec => []TypeOK
<1>1. RunnerInv => TypeOK
  BY DEF RunnerInv
<1> QED
  BY <1>1, RunnerInvariant, PTL

(* The limit of count mode is never exceeded, and generate mode makes one  *)
(* attempt, for every limit and whichever tests fail (LimitHit).           *)
THEOREM LimitKept == Spec => []WithinLimit
<1>1. RunnerInv => WithinLimit
  BY DEF RunnerInv
<1> QED
  BY <1>1, RunnerInvariant, PTL

(* With --stop-on-fail, no step after a counted failure starts a test.     *)
THEOREM NoTestAfterFailure == Spec => StopsOnFirstFail
<1>1. RunnerInv /\ [Next]_vars =>
        [args.stop_on_fail /\ stats.fail_tests > 0 => test_count' = test_count]_vars
  <2> SUFFICES ASSUME RunnerInv, Next, args.stop_on_fail, stats.fail_tests > 0
               PROVE  test_count' = test_count
    BY DEF vars
  <2>1. ~StartTest
    BY DEF RunnerInv, StartTest
  <2> QED
    BY <2>1 DEF Next, Step, CreateLogger, Setup, LoopTest, StopAtLimit, StopAfterGenerate,
                Generate, Compile, NothingToExecute, Execute, Report, Signal,
                SignalTooEarly, TimePasses
<1> QED
  BY <1>1, RunnerInvariant, PTL DEF Spec, StopsOnFirstFail
-----------------------------------------------------------------------------
(***************************************************************************)
(* What is counted is kept.                                                *)
(***************************************************************************)

Outcomes == {"fail", "timeout", "pass"}

(* The kept files are told apart by the test they are kept for: there is   *)
(* none for the execution of a test that has not been executed.            *)
KeptInv ==
  /\ FailuresKept
  /\ IsFiniteSet(Executions({"fail"})) /\ IsFiniteSet(Executions(Outcomes))
  /\ \A f \in Executions(Outcomes) : f.test <= test_count
  /\ pc \in {"generate", "compile", "execute"} =>
       \A f \in Executions(Outcomes) : f.test < test_count

(* A step that keeps no execution, and counts none, changes nothing.       *)
LEMMA NoExecutionKept ==
  ASSUME TypeOK, TypeOK', KeptInv,
         \A f \in saved' \ saved : f.name # "execute", saved \subseteq saved',
         UNCHANGED args,
         stats'.fail_tests = stats.fail_tests,
         stats'.zero_codes = stats.zero_codes, stats'.other_codes = stats.other_codes,
         \/ test_count' = test_count /\ (pc' \in {"generate", "compile", "execute"}
                                           => pc \in {"generate", "compile", "execute"})
         \/ test_count' = test_count + 1
  PROVE  KeptInv'
<1>1. /\ Executions({"fail"})' = Executions({"fail"})
      /\ Executions(Outcomes)' = Executions(Outcomes)
  BY DEF Executions
<1>2. FailuresKept'
  BY <1>1 DEF KeptInv, FailuresKept, Outcomes
<1>3. \A f \in Executions(Outcomes) : f.test \in Nat
  BY DEF Executions, TypeOK, KeptFile
<1>4. test_count \in Nat
  BY DEF TypeOK
<1>5. /\ \A f \in Executions(Outcomes) : f.test <= test_count'
      /\ pc' \in {"generate", "compile", "execute"} =>
           \A f \in Executions(Outcomes) : f.test < test_count'
  BY <1>3, <1>4 DEF KeptInv
<1> QED
  BY <1>1, <1>2, <1>5 DEF KeptInv

(* An execution keeps at most one file, and it is new.                     *)
LEMMA ExecuteKeptInv ==
  ASSUME RunnerInv, KeptInv, Execute
  PROVE  KeptInv'
<1>1. PICK outcome \in Outcome :
        /\ saved' = saved \cup Copies("execute", outcome, args.log_all_tests, source)
        /\ stats' = IF ReturnsZero(outcome)
                    THEN [stats EXCEPT !.zero_codes = @ + 1]
                    ELSE IF TimesOut(outcome)
                    THEN [stats EXCEPT !.other_codes = @ + 1, !.timeout_tests = @ + 1]
                    ELSE [stats EXCEPT !.other_codes = @ + 1, !.fail_tests = @ + 1]
        /\ pc' \in {"report", "loop"}
  BY DEF Execute
<1>2. /\ TypeOK /\ pc = "execute" /\ source = ThisTest /\ test_count \in Nat
      /\ stats \in Stats /\ args \in CommandLine /\ UNCHANGED <<args, test_count>>
  BY DEF Execute, RunnerInv, TypeOK
<1>3. source # NoFile
  BY <1>2 DEF ThisTest, Whole, NoFile
<1> DEFINE file(s) == [test |-> test_count, name |-> "execute", suffix |-> s, text |-> source]
<1>4. saved' = saved \cup {file(s) : s \in Suffix(outcome, args.log_all_tests)}
  BY <1>1, <1>3 DEF Copies
<1>5. \A S \in {{"fail"}, Outcomes} :
        /\ IsFiniteSet(Executions(S)) /\ Cardinality(Executions(S)) \in Nat
        /\ \A s : file(s) \notin Executions(S)
  <2>1. \A s : file(s) \notin Executions(Outcomes)
    BY <1>2 DEF KeptInv
  <2>2. Executions({"fail"}) \subseteq Executions(Outcomes)
    BY DEF Executions, Outcomes
  <2> QED
    BY <2>1, <2>2, FS_CardinalityType DEF KeptInv
<1>6. ASSUME NEW S \in {{"fail"}, Outcomes}, NEW s,
             Suffix(outcome, args.log_all_tests) = {s}
      PROVE  IF s \in S
             THEN /\ IsFiniteSet(Executions(S)')
                  /\ Cardinality(Executions(S)') = Cardinality(Executions(S)) + 1
                  /\ Executions(S)' = Executions(S) \cup {file(s)}
             ELSE Executions(S)' = Executions(S)
  <2>1. saved' = saved \cup {file(s)}
    BY <1>4, <1>6
  <2>2. s \in S => Executions(S)' = Executions(S) \cup {file(s)}
    BY <2>1 DEF Executions
  <2>3. s \notin S => Executions(S)' = Executions(S)
    BY <2>1 DEF Executions
  <2>4. IsFiniteSet(Executions(S)) /\ file(s) \notin Executions(S)
    BY <1>5
  <2> HIDE DEF file
  <2>5. /\ IsFiniteSet(Executions(S) \cup {file(s)})
        /\ Cardinality(Executions(S) \cup {file(s)}) = Cardinality(Executions(S)) + 1
    BY <2>4, FS_AddElement
  <2> QED
    BY <2>2, <2>3, <2>5
<1>7. ASSUME NEW S, Suffix(outcome, args.log_all_tests) = {}
      PROVE  Executions(S)' = Executions(S)
  BY <1>4, <1>7 DEF Executions
<1> HIDE DEF file
<1>8. /\ FailuresKept' /\ IsFiniteSet(Executions({"fail"})') /\ IsFiniteSet(Executions(Outcomes)')
      /\ \A f \in Executions(Outcomes)' : f \in Executions(Outcomes) \/ f.test = test_count
  <2>1. /\ stats.fail_tests \in Nat /\ stats.zero_codes \in Nat /\ stats.other_codes \in Nat
        /\ args.log_all_tests \in BOOLEAN
    BY <1>2, StatsFacts DEF CommandLine
  <2>2. /\ Cardinality(Executions({"fail"})) = stats.fail_tests
        /\ Cardinality(Executions(Outcomes)) =
             IF args.log_all_tests THEN stats.zero_codes + stats.other_codes
             ELSE stats.fail_tests
    BY DEF KeptInv, FailuresKept, Outcomes
  <2>3. SUFFICES
          /\ Cardinality(Executions({"fail"})') = stats'.fail_tests
          /\ Cardinality(Executions(Outcomes)') =
               IF args.log_all_tests THEN stats'.zero_codes + stats'.other_codes
               ELSE stats'.fail_tests
          /\ IsFiniteSet(Executions({"fail"})') /\ IsFiniteSet(Executions(Outcomes)')
          /\ \A f \in Executions(Outcomes)' : f \in Executions(Outcomes) \/ f.test = test_count
    BY <1>2 DEF FailuresKept, Outcomes
  <2>4. CASE outcome = "fail"
    <3>1. /\ stats'.fail_tests = stats.fail_tests + 1 /\ stats'.zero_codes = stats.zero_codes
          /\ stats'.other_codes = stats.other_codes + 1
      BY <2>4, <1>1, <1>2 DEF ReturnsZero, TimesOut, Stats
    <3>2. Suffix(outcome, args.log_all_tests) = {"fail"}
      BY <2>4 DEF Suffix, TimesOut, ReturnsZero
    <3>3. \A S \in {{"fail"}, Outcomes} :
            /\ IsFiniteSet(Executions(S)')
            /\ Cardinality(Executions(S)') = Cardinality(Executions(S)) + 1
            /\ Executions(S)' = Executions(S) \cup {file("fail")}
      <4>1. \A S \in {{"fail"}, Outcomes} : "fail" \in S
        BY DEF Outcomes
      <4> QED
        BY <4>1, <3>2, <1>6
    <3>4. file("fail").test = test_count
      BY DEF file
    <3> QED
      BY <2>1, <2>2, <3>1, <3>3, <3>4
  <2>5. CASE outcome # "fail" /\ args.log_all_tests
    <3>1. /\ stats'.fail_tests = stats.fail_tests
          /\ \/ /\ stats'.zero_codes = stats.zero_codes + 1
                /\ stats'.other_codes = stats.other_codes
             \/ /\ stats'.zero_codes = stats.zero_codes
                /\ stats'.other_codes = stats.other_codes + 1
      BY <2>5, <1>1, <1>2 DEF Outcome, ReturnsZero, TimesOut, Stats
    <3>2. PICK s \in {"timeout", "pass"} : Suffix(outcome, args.log_all_tests) = {s}
      BY <2>5 DEF Suffix, Outcome, TimesOut, ReturnsZero
    <3>3. /\ Executions({"fail"})' = Executions({"fail"})
          /\ IsFiniteSet(Executions(Outcomes)')
          /\ Cardinality(Executions(Outcomes)') = Cardinality(Executions(Outcomes)) + 1
          /\ Executions(Outcomes)' = Executions(Outcomes) \cup {file(s)}
      <4>1. s \notin {"fail"} /\ s \in Outcomes
        BY DEF Outcomes
      <4> QED
        BY <4>1, <3>2, <1>6
    <3>4. file(s).test = test_count
      BY DEF file
    <3> QED
      BY <2>1, <2>2, <2>5, <3>1, <3>3, <3>4, <1>5
  <2>6. CASE outcome # "fail" /\ ~args.log_all_tests
    <3>1. stats'.fail_tests = stats.fail_tests
      BY <2>6, <1>1, <1>2 DEF Outcome, ReturnsZero, TimesOut, Stats
    <3>2. Suffix(outcome, args.log_all_tests) = {}
      BY <2>6 DEF Suffix, Outcome, TimesOut, ReturnsZero
    <3>3. /\ Executions({"fail"})' = Executions({"fail"})
          /\ Executions(Outcomes)' = Executions(Outcomes)
      BY <3>2, <1>7
    <3> QED
      BY <2>1, <2>2, <2>6, <3>1, <3>3, <1>5
  <2> QED
    BY <2>1, <2>4, <2>5, <2>6
<1> QED
  BY <1>1, <1>2, <1>8 DEF KeptInv

(* A copy says what it was kept for.                                       *)
LEMMA NamedCopies ==
  ASSUME NEW name, NEW outcome, NEW log_test, NEW text,
         NEW f \in Copies(name, outcome, log_test, text)
  PROVE  f.name = name
<1>1. PICK s : f = [test |-> test_count, name |-> name, suffix |-> s, text |-> text]
  BY Zenon DEF Copies
<1> QED
  BY <1>1

(* No other step touches what is kept for an execution.                    *)
LEMMA NextKeptInv == RunnerInv /\ RunnerInv' /\ KeptInv /\ [Next]_vars => KeptInv'
<1> SUFFICES ASSUME RunnerInv, RunnerInv', KeptInv, [Next]_vars PROVE KeptInv'
  OBVIOUS
<1>1. TypeOK /\ TypeOK' /\ stats \in Stats
  BY DEF RunnerInv, TypeOK
<1>2. CASE Execute
  BY <1>2, ExecuteKeptInv
<1>3. CASE Generate
  <2>1. PICK outcome \in Outcome :
          /\ saved' = saved \cup Copies("generate", outcome, FALSE, source')
          /\ stats' = stats \/ stats' = [stats EXCEPT !.gen_fail = @ + 1]
    BY <1>3 DEF Generate
  <2>2. /\ pc = "generate" /\ UNCHANGED <<args, test_count>>
        /\ \A f \in saved' \ saved : f.name # "execute"
    <3>1. \A f \in Copies("generate", outcome, FALSE, source') : f.name # "execute"
      BY NamedCopies
    <3> QED
      BY <1>3, <2>1, <3>1 DEF Generate
  <2> QED
    BY <1>1, <2>1, <2>2, NoExecutionKept DEF Stats
<1>4. CASE Compile
  <2>1. PICK outcome \in {"ok", "fail"} :
          /\ saved' = saved \cup Copies("compile", outcome, FALSE, source)
          /\ stats' = stats \/ stats' = [stats EXCEPT !.compile_fail = @ + 1]
    BY <1>4 DEF Compile, CompileCount
  <2>2. /\ pc = "compile" /\ UNCHANGED <<args, test_count>>
        /\ \A f \in saved' \ saved : f.name # "execute"
    <3>1. \A f \in Copies("compile", outcome, FALSE, source) : f.name # "execute"
      BY NamedCopies
    <3> QED
      BY <1>4, <2>1, <3>1 DEF Compile
  <2> QED
    BY <1>1, <2>1, <2>2, NoExecutionKept DEF Stats
<1>5. CASE StartTest
  <2>1. /\ stats' = [stats EXCEPT !.total_tests = @ + 1] /\ test_count' = test_count + 1
        /\ UNCHANGED <<args, saved>>
    BY <1>5 DEF StartTest
  <2> QED
    BY <1>1, <2>1, NoExecutionKept DEF Stats
<1>6. CASE \/ CreateLogger \/ Setup \/ LoopTest \/ StopAtLimit \/ StopAfterGenerate
           \/ NothingToExecute \/ Report \/ Signal \/ SignalTooEarly \/ TimePasses
           \/ UNCHANGED vars
  <2>1. /\ UNCHANGED <<args, saved, stats, test_count>>
        /\ pc' \in {"generate", "compile", "execute"} => pc' = pc
    BY <1>6 DEF CreateLogger, Setup, LoopTest, StopAtLimit, StopAfterGenerate,
                NothingToExecute, Report, Signal, SignalTooEarly, TimePasses, vars
  <2> QED
    BY <1>1, <2>1, NoExecutionKept
<1> QED
  BY <1>2, <1>3, <1>4, <1>5, <1>6 DEF Next, Step

(* Every execution failure that is counted has its own source kept, and    *)
(* with --log-all-tests every execution has one (exec_cmd): no file is     *)
(* kept twice, missed or overwritten.                                      *)
THEOREM CountedIsKept == Spec => []FailuresKept
<1>1. Init => KeptInv
  <2> SUFFICES ASSUME Init PROVE KeptInv
    OBVIOUS
  <2>1. /\ Executions({"fail"}) = {} /\ Executions({"fail", "timeout", "pass"}) = {}
        /\ Executions(Outcomes) = {}
    BY DEF Init, Executions
  <2>2. FailuresKept
    BY <2>1, FS_EmptySet DEF Init, FailuresKept
  <2> QED
    BY <2>1, <2>2, FS_EmptySet DEF KeptInv
<1>2. KeptInv => FailuresKept
  BY DEF KeptInv
<1> QED
  BY <1>1, <1>2, NextKeptInv, RunnerInvariant, PTL DEF Spec
=============================================================================
