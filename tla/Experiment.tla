------------------------------ MODULE Experiment ------------------------------
(***************************************************************************)
(* The batch runner, src/scripts/run_experiments.py, with the compile      *)
(* script it calls, src/scripts/compile.sh.                                *)
(*                                                                         *)
(* Every test is generated, compiled and executed by a child process.  The *)
(* three share two files, which are never removed between tests: the       *)
(* generated source and the program built from it.  SIGTERM asks the       *)
(* script to finish after the current test.                                *)
(*                                                                         *)
(* A file is abstracted to the test that wrote it and whether it is whole. *)
(***************************************************************************)
EXTENDS TestFile, FiniteSets

CONSTANTS
  CommandLines,   \* the command lines considered
  MaxTests        \* bound on the number of tests, for runs without a limit

(* --mode-val -1 is no limit.                                              *)
CommandLine ==
  [mode : {"count", "time", "generate"}, mode_val : Nat \cup {-1},
   stop_on_fail : BOOLEAN, log_all_tests : BOOLEAN]

ASSUME RunnerAssumption ==
  /\ CommandLines \subseteq CommandLine
  /\ MaxTests \in Nat

VARIABLES
  args,        \* the command line of this run
  pc,          \* where the script is
  received,    \* whether the handler has announced that the script finishes
  terminate,   \* the flag the handler sets
  elapsed,     \* whether --mode-val seconds have passed
  test_count,
  stats,
  source,      \* the content of full_output_file_name
  binary,      \* the source the program beside it was built from
  saved        \* the files in save_test_folder

vars == <<args, pc, received, terminate, elapsed, test_count, stats, source, binary, saved>>

ThisTest == Whole(test_count)

Ended == {"finished", "exited", "crashed"}
Running == {"loop", "start", "generate", "compile", "execute", "report"}

(***************************************************************************)
(* exec_cmd: how a child ends, and which copy of the source that leaves.   *)
(*   "ok", "fail"  it ends in time, with status zero or another            *)
(*   "timeout"     it is killed                                            *)
(*   "late"        the time is up, but it ends with zero before the kill   *)
(***************************************************************************)
Outcome == {"ok", "fail", "timeout", "late"}
ReturnsZero(outcome) == outcome \in {"ok", "late"}
TimesOut(outcome) == outcome \in {"timeout", "late"}

SuffixUnfiltered(outcome, log_test) == IF TimesOut(outcome) THEN {"timeout"} ELSE {}

Suffix(outcome, log_test) ==
  IF TimesOut(outcome) THEN IF log_test THEN {"timeout"} ELSE {}
  ELSE IF ~ReturnsZero(outcome) THEN {"fail"}
  ELSE IF log_test THEN {"pass"} ELSE {}

(* A source that does not exist cannot be copied, which is ignored.        *)
Copies(name, outcome, log_test, text) ==
  {[test |-> test_count, name |-> name, suffix |-> s, text |-> text] :
     s \in IF text = NoFile THEN {} ELSE Suffix(outcome, log_test)}

-----------------------------------------------------------------------------

Init ==
  /\ args \in CommandLines
  /\ pc = "boot"
  /\ received = FALSE /\ terminate = FALSE /\ elapsed = FALSE
  /\ test_count = 0
  /\ stats = [total_tests |-> 0, gen_fail |-> 0, compile_fail |-> 0,
              timeout_tests |-> 0, fail_tests |-> 0, zero_codes |-> 0, other_codes |-> 0]
  /\ source = NoFile /\ binary = NoFile
  /\ saved = {}

(* The handler is installed before its logger exists.                      *)
CreateLogger ==
  /\ pc = "boot"
  /\ pc' = "setup"
  /\ UNCHANGED <<args, received, terminate, elapsed, test_count, stats, source, binary, saved>>

(* The output folder is recreated empty, the counters and the flag reset.  *)
Setup ==
  /\ pc = "setup"
  /\ terminate' = FALSE
  /\ pc' = "loop"
  /\ UNCHANGED <<args, received, elapsed, test_count, stats, source, binary, saved>>

(* terminate_handler, run between two steps of the script.                 *)
Signal ==
  /\ pc \in Running \cup {"setup"}
  /\ ~received
  /\ received' = TRUE
  /\ terminate' = TRUE
  /\ UNCHANGED <<args, pc, elapsed, test_count, stats, source, binary, saved>>

(* Its log_console is not defined yet: the exception ends the script.      *)
SignalTooEarly ==
  /\ pc = "boot"
  /\ pc' = "crashed"
  /\ UNCHANGED <<args, received, terminate, elapsed, test_count, stats, source, binary, saved>>

TimePasses ==
  /\ pc \in Running
  /\ args.mode = "time" /\ ~elapsed
  /\ elapsed' = TRUE
  /\ UNCHANGED <<args, pc, received, terminate, test_count, stats, source, binary, saved>>

LimitHitLate ==
  /\ args.mode_val # -1
  /\ \/ args.mode = "count" /\ args.mode_val < test_count
     \/ args.mode = "time" /\ elapsed

LimitHitTimeOnly == args.mode_val # -1 /\ args.mode = "time" /\ elapsed

LimitHit ==
  /\ args.mode_val # -1
  /\ \/ args.mode = "count" /\ args.mode_val <= test_count
     \/ args.mode = "time" /\ elapsed

GeneratedOnce == args.mode_val # -1 /\ args.mode = "generate" /\ test_count # 0

LoopTestDeaf ==
  /\ pc = "loop"
  /\ LimitHit \/ GeneratedOnce \/ test_count < MaxTests
  /\ pc' = "start"
  /\ UNCHANGED <<args, received, terminate, elapsed, test_count, stats, source, binary, saved>>

(* `while not terminate`.  A run without a limit is not followed past      *)
(* MaxTests tests.                                                         *)
LoopTest ==
  /\ pc = "loop"
  /\ terminate \/ LimitHit \/ GeneratedOnce \/ test_count < MaxTests
  /\ pc' = IF terminate THEN "report" ELSE "start"
  /\ UNCHANGED <<args, received, terminate, elapsed, test_count, stats, source, binary, saved>>

StopAtLimit ==
  /\ pc = "start"
  /\ LimitHit
  /\ pc' = "report"
  /\ UNCHANGED <<args, received, terminate, elapsed, test_count, stats, source, binary, saved>>

StopAfterGenerate ==
  /\ pc = "start"
  /\ GeneratedOnce
  /\ pc' = "exited"
  /\ UNCHANGED <<args, received, terminate, elapsed, test_count, stats, source, binary, saved>>

StartTest ==
  /\ pc = "start"
  /\ ~LimitHit /\ ~GeneratedOnce
  /\ test_count' = test_count + 1
  /\ stats' = [stats EXCEPT !.total_tests = @ + 1]
  /\ pc' = "generate"
  /\ UNCHANGED <<args, received, terminate, elapsed, source, binary, saved>>

WrittenOrNot(outcome) == {source, ThisTest}

(* What the runner relies on, and FuzzTool shows to be so.                 *)
Written(outcome) == MayLeave(ReturnsZero(outcome), source, test_count)

Generate ==
  /\ pc = "generate"
  /\ \E outcome \in Outcome :
       /\ source' \in Written(outcome)
       /\ saved' = saved \cup Copies("generate", outcome, FALSE, source')
       /\ \/ /\ ReturnsZero(outcome)
             /\ pc' = IF args.mode = "generate" THEN "exited" ELSE "compile"
             /\ UNCHANGED stats
          \/ /\ ~ReturnsZero(outcome)
             /\ pc' = "loop"
             /\ stats' = [stats EXCEPT !.gen_fail = @ + 1]
  /\ UNCHANGED <<args, received, terminate, elapsed, test_count, binary>>

CompileCountDown(outcome) ==
  stats' = IF ReturnsZero(outcome) THEN stats ELSE [stats EXCEPT !.compile_fail = @ - 1]

CompileUncounted(outcome) == stats' = stats

CompileCount(outcome) ==
  stats' = IF ReturnsZero(outcome) THEN stats ELSE [stats EXCEPT !.compile_fail = @ + 1]

(* compile.sh reports whether it removed its build directory, not whether  *)
(* cmake and ninja built the program that it moves beside the source.      *)
Compile ==
  /\ pc = "compile"
  /\ \E built \in BOOLEAN, outcome \in {"ok", "fail"} :
       /\ binary' = IF built THEN source ELSE binary
       /\ saved' = saved \cup Copies("compile", outcome, FALSE, source)
       /\ pc' = IF ReturnsZero(outcome) THEN "execute" ELSE "loop"
       /\ CompileCount(outcome)
  /\ UNCHANGED <<args, received, terminate, elapsed, test_count, source>>

(* No program has ever been built: Popen raises FileNotFoundError.         *)
NothingToExecute ==
  /\ pc = "execute"
  /\ binary = NoFile
  /\ pc' = "crashed"
  /\ UNCHANGED <<args, received, terminate, elapsed, test_count, stats, source, binary, saved>>

StopsAfterNever(outcome) == FALSE
StopsAfter(outcome) == args.stop_on_fail /\ outcome = "fail"

Execute ==
  /\ pc = "execute"
  /\ binary # NoFile
  /\ \E outcome \in Outcome :
       /\ saved' = saved \cup Copies("execute", outcome, args.log_all_tests, source)
       /\ stats' = IF ReturnsZero(outcome)
                   THEN [stats EXCEPT !.zero_codes = @ + 1]
                   ELSE IF TimesOut(outcome)
                   THEN [stats EXCEPT !.other_codes = @ + 1, !.timeout_tests = @ + 1]
                   ELSE [stats EXCEPT !.other_codes = @ + 1, !.fail_tests = @ + 1]
       /\ pc' = IF StopsAfter(outcome) THEN "report" ELSE "loop"
  /\ UNCHANGED <<args, received, terminate, elapsed, test_count, source, binary>>

(* The statistics are written, and the script ends.                        *)
Report ==
  /\ pc = "report"
  /\ pc' = "finished"
  /\ UNCHANGED <<args, received, terminate, elapsed, test_count, stats, source, binary, saved>>

Step ==
  \/ CreateLogger
  \/ Setup
  \/ LoopTest
  \/ StopAtLimit
  \/ StopAfterGenerate
  \/ StartTest
  \/ Generate
  \/ Compile
  \/ NothingToExecute
  \/ Execute
  \/ Report

Next == Step \/ Signal \/ SignalTooEarly \/ TimePasses

Spec == Init /\ [][Next]_vars

(* The script never waits but for its children.  generate and execute are  *)
(* killed when their time is up; compile has no timeout, and is assumed to *)
(* end.  The clock advances.                                               *)
FairSpec == Spec /\ WF_vars(Step) /\ WF_vars(TimePasses)

-----------------------------------------------------------------------------
(***************************************************************************)
(* What the runner promises.                                               *)
(***************************************************************************)

Stats == [total_tests : Nat, gen_fail : Nat, compile_fail : Nat, timeout_tests : Nat,
          fail_tests : Nat, zero_codes : Nat, other_codes : Nat]

KeptFile == [test : Nat, name : {"generate", "compile", "execute"},
             suffix : {"fail", "timeout", "pass"}, text : Text]

(* Every variable keeps to its type.                                       *)
TypeOK ==
  /\ args \in CommandLine
  /\ pc \in Running \cup Ended \cup {"boot", "setup"}
  /\ received \in BOOLEAN /\ terminate \in BOOLEAN /\ elapsed \in BOOLEAN
  /\ test_count \in Nat
  /\ stats \in Stats
  /\ source \in Text /\ binary \in Text
  /\ saved \subseteq KeptFile

(* The totals of the report add up at every step: each test started is     *)
(* still under way or was counted exactly once, as a generation failure, a *)
(* compilation failure or a return code, and the return codes other than   *)
(* zero are the failures and the timeouts.                                 *)
UnderWay == IF pc \in {"generate", "compile", "execute"} THEN 1 ELSE 0

Accounting ==
  pc \notin {"exited", "crashed"} =>
    /\ stats.total_tests = test_count
    /\ stats.total_tests = stats.gen_fail + stats.compile_fail + stats.zero_codes
                             + stats.other_codes + UnderWay
    /\ stats.other_codes = stats.timeout_tests + stats.fail_tests

Executions(suffixes) == {f \in saved : f.name = "execute" /\ f.suffix \in suffixes}

(* The failures that are counted and the sources that are kept correspond: *)
(* one file per execution failure and, with --log-all-tests, one per       *)
(* execution, whatever its outcome; without it no other execution leaves   *)
(* one.                                                                    *)
FailuresKept ==
  /\ Cardinality(Executions({"fail"})) = stats.fail_tests
  /\ Cardinality(Executions({"fail", "timeout", "pass"})) =
       IF args.log_all_tests THEN stats.zero_codes + stats.other_codes ELSE stats.fail_tests

(* A file kept for the compilation or the execution of a test is the whole *)
(* source of that test, although failed generations write to the same path *)
(* and nothing ever removes what they leave there.                         *)
KeptUnderOwnTest ==
  \A f \in saved : f.name # "generate" => f.text = Whole(f.test)

(* With --stop-on-fail no test is started after an execution failure.      *)
StopsOnFirstFail ==
  [][args.stop_on_fail /\ stats.fail_tests > 0 => test_count' = test_count]_vars

(* "count" mode runs no more tests than it is told to, whichever of them   *)
(* fail on the way, and "generate" mode makes a single attempt.            *)
WithinLimit ==
  args.mode_val # -1 =>
    /\ args.mode = "count" => test_count <= args.mode_val
    /\ args.mode = "generate" => test_count <= 1

(* A script that is asked to terminate ends, and so does one with a limit. *)
TerminateHonoured == (terminate /\ pc \in Running) ~> (pc \in Ended)
LimitReached == (args.mode_val # -1) => <>(pc \in Ended)

(* "Received terminate signal, finishing..." (src/scripts/                 *)
(* run_experiments.py:131): what the handler announces stays decided.      *)
AnnouncedStaysDecided == received => terminate

(* "if set, all tests are logged, instead of only the failing ones"        *)
(* (src/README.md:74): the source kept for an execution failure is the     *)
(* source of the program that failed.                                      *)
KeptSourceIsTheCulprit ==
  [][\A f \in saved' \ saved :
       f.name = "execute" /\ f.suffix = "fail" => f.text = binary]_vars

-----------------------------------------------------------------------------
(***************************************************************************)
(* The inductive invariant behind the safety properties.                   *)
(***************************************************************************)

(* The source is this test's while it is compiled and executed, and a      *)
(* failure that stops the experiment has stopped it.                       *)
RunnerInv ==
  /\ TypeOK
  /\ Accounting
  /\ WithinLimit
  /\ KeptUnderOwnTest
  /\ pc \in {"compile", "execute"} => source = ThisTest
  /\ args.stop_on_fail /\ stats.fail_tests > 0 => pc \in {"report", "finished"}
=============================================================================
