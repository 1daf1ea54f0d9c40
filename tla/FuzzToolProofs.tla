---------------------------- MODULE FuzzToolProofs ----------------------------
(***************************************************************************)
(* Theorems about FuzzTool, for any set of names and any number of runs:   *)
(* its invariants, that no run touches what another left, and that it      *)
(* implements Generation.                                                  *)
(***************************************************************************)
EXTENDS FuzzTool, TLAPS

(* Where the run is.                                                       *)
ControlInv ==
  /\ status = "running" <=> pc # "ended"
  /\ pc # "ended" => test > 0
  /\ pc = "write" => step \in FirstRewriting .. LastPass - 1
  /\ pc \in {"output", "written", "clean"} => step = LastPass

(* The file that the pass reads or writes has been through all passes up   *)
(* to it.                                                                  *)
Current(passes, whole) == [test |-> test, passes |-> passes, whole |-> whole]

FilesInv ==
  /\ pc = "pass" /\ step > FirstRewriting =>
       /\ rewritten_input_file \in Names
       /\ tmp[rewritten_input_file] = Current(FirstRewriting .. step - 1, TRUE)
  /\ pc = "write" =>
       /\ rewritten_input_file \in Names
       /\ tmp[rewritten_input_file] = Current(FirstRewriting .. step, FALSE)
  /\ pc = "output" => output = Current(Rewriting, FALSE)
  /\ pc \in {"written", "clean"} \/ status = "zero" => output = Current(Rewriting, TRUE)
  /\ status = "running" => output = before \/ output.test = test

(* Each temporary file of this run is listed, or about to be; no other is. *)
ToBeListed == IF pc = "write" THEN {rewritten_input_file} ELSE {}

CleanInv ==
  /\ \A n \in Names : tmp[n].test <= test
  /\ status = "running" =>
       /\ \A n \in Names : tmp[n].test = test => n \in files_to_clean \cup ToBeListed
       /\ \A n \in files_to_clean : tmp[n] = Absent \/ tmp[n].test = test
  /\ CleanedOnSuccess

ToolInv == TypeOK /\ ControlInv /\ FilesInv /\ CleanInv

-----------------------------------------------------------------------------
(***************************************************************************)
(* What a pass writes.                                                     *)
(***************************************************************************)

(* A record of a file is a content.                                        *)
LEMMA CurrentContent ==
  ASSUME test \in Nat, NEW p \in SUBSET Passes, NEW w \in BOOLEAN
  PROVE  /\ Current(p, w) \in Content
         /\ Current(p, w).test = test
         /\ Current(p, w).whole = w
BY DEF Current, Content

(* Closing a file makes it whole.                                          *)
LEMMA CompleteCurrent ==
  ASSUME test \in Nat, NEW p \in SUBSET Passes,
         NEW f, f = Current(p, FALSE), NEW g, g = [f EXCEPT !.whole = TRUE]
  PROVE  g = Current(p, TRUE)
<1>1. f \in Content /\ f.test = test /\ f.passes = p
  BY DEF Current, Content
<1>2. g \in Content /\ g.test = f.test /\ g.passes = f.passes /\ g.whole = TRUE
  BY <1>1 DEF Content
<1>3. g = [test |-> g.test, passes |-> g.passes, whole |-> g.whole]
  BY <1>2 DEF Content
<1> QED
  BY <1>1, <1>2, <1>3 DEF Current

(* No file is that of a run.                                               *)
LEMMA AbsentContent == Absent \in Content /\ Absent.test = 0
BY DEF Absent, Content

(* A pass adds itself to the passes of its input.                          *)
LEMMA RewrittenFact ==
  ASSUME TypeOK, FilesInv, pc = "pass", step \in Rewriting
  PROVE  /\ Rewritten = Current(FirstRewriting .. step, FALSE)
         /\ FirstRewriting .. step \in SUBSET Passes
<1>1. step \in 3 .. 7
  BY DEF Rewriting, FirstRewriting, LastPass
<1>2. CASE step = FirstRewriting
  <2>1. Input.passes = {}
    BY <1>2 DEF Input, FirstRewriting
  <2>2. FirstRewriting .. step = {step}
    BY <1>1, <1>2 DEF FirstRewriting
  <2>3. Input.passes \cup {step} = FirstRewriting .. step
    BY <2>1, <2>2
  <2>4. FirstRewriting .. step \in SUBSET Passes
    BY <1>1 DEF FirstRewriting, Passes, LastPass
  <2> QED
    BY <2>3, <2>4 DEF Rewritten, Current
<1>3. CASE step # FirstRewriting
  <2>1. step > FirstRewriting
    BY <1>1, <1>3 DEF FirstRewriting
  <2>2. Input = Current(FirstRewriting .. step - 1, TRUE)
    <3>1. ~(step <= FirstRewriting)
      BY <1>1, <2>1 DEF FirstRewriting
    <3> QED
      BY <2>1, <3>1 DEF FilesInv, Input
  <2>3. Input.passes = FirstRewriting .. step - 1
    BY <2>2 DEF Current
  <2>4. (FirstRewriting .. step - 1) \cup {step} = FirstRewriting .. step
    BY <1>1 DEF FirstRewriting
  <2>5. FirstRewriting .. step \in SUBSET Passes
    BY <1>1 DEF FirstRewriting, Passes, LastPass
  <2> QED
    BY <2>3, <2>4, <2>5 DEF Rewritten, Current
<1> QED
  BY <1>2, <1>3

-----------------------------------------------------------------------------
(***************************************************************************)
(* The invariant.                                                          *)
(***************************************************************************)

(* It holds before the first run.                                          *)
LEMMA InitToolInv ==
  ASSUME Init
  PROVE  ToolInv
<1>1. TypeOK
  BY AbsentContent DEF Init, TypeOK, Passes, LastPass
<1>2. ControlInv /\ FilesInv
  BY DEF Init, ControlInv, FilesInv
<1>3. CleanInv
  BY AbsentContent DEF Init, CleanInv, CleanedOnSuccess
<1> QED
  BY <1>1, <1>2, <1>3 DEF ToolInv

(* A new run finds no file of its own.                                     *)
LEMMA StartInv ==
  ASSUME ToolInv, Start
  PROVE  ToolInv'
<1> USE DEF ToolInv
<1>1. test' = test + 1 /\ test \in Nat
  BY DEF Start, TypeOK
<1>2. TypeOK'
  BY DEF Start, TypeOK, Passes, LastPass
<1>3. ControlInv'
  BY <1>1 DEF Start, ControlInv
<1>4. FilesInv'
  BY DEF Start, FilesInv, FirstRewriting
<1>5. CleanInv'
  <2>1. \A n \in Names : tmp[n].test \in Nat
    BY DEF TypeOK, Content
  <2>2. \A n \in Names : tmp'[n].test <= test
    BY DEF Start, CleanInv
  <2>3. \A n \in Names : tmp'[n].test <= test' /\ tmp'[n].test # test'
    BY <1>1, <2>1, <2>2 DEF Start
  <2>4. status' = "running" /\ files_to_clean' = {}
    BY DEF Start
  <2> QED
    BY <2>3, <2>4 DEF CleanInv, CleanedOnSuccess
<1> QED
  BY <1>2, <1>3, <1>4, <1>5

(* The passes before the first that writes.                                *)
LEMMA ReadOnlyInv ==
  ASSUME ToolInv, ReadOnly
  PROVE  ToolInv'
<1> USE DEF ToolInv
<1>1. step \in 1 .. 2 /\ step' = step + 1
  BY DEF ReadOnly, TypeOK, Passes, LastPass, FirstRewriting
<1>2. TypeOK'
  BY <1>1 DEF ReadOnly, TypeOK, Passes, LastPass
<1>3. ControlInv'
  BY DEF ReadOnly, ControlInv
<1>4. FilesInv'
  BY <1>1 DEF ReadOnly, FilesInv, FirstRewriting, Current
<1>5. CleanInv'
  BY DEF ReadOnly, CleanInv, CleanedOnSuccess, ToBeListed
<1> QED
  BY <1>2, <1>3, <1>4, <1>5

(* The new file is of this run, and will be listed.                        *)
LEMMA CreateTempInv ==
  ASSUME ToolInv, CreateTemp
  PROVE  ToolInv'
<1> USE DEF ToolInv
<1>1. PICK n \in Names : /\ tmp[n] = Absent
                         /\ tmp' = [tmp EXCEPT ![n] = Rewritten]
                         /\ rewritten_input_file' = n
  BY DEF CreateTemp, NewName
<1>2. /\ pc = "pass" /\ step \in FirstRewriting .. LastPass - 1
      /\ pc' = "write"
      /\ UNCHANGED <<test, status, step, files_to_clean, output, before>>
  BY DEF CreateTemp
<1>3. step \in Rewriting
  BY <1>2 DEF Rewriting, FirstRewriting, LastPass
<1>4. /\ Rewritten = Current(FirstRewriting .. step, FALSE)
      /\ FirstRewriting .. step \in SUBSET Passes
  BY <1>2, <1>3, RewrittenFact
<1>5. Rewritten \in Content /\ Rewritten.test = test
  BY <1>4, CurrentContent DEF TypeOK
<1>6. /\ tmp'[n] = Rewritten
      /\ \A m \in Names \ {n} : tmp'[m] = tmp[m]
      /\ tmp' \in [Names -> Content]
  BY <1>1, <1>5 DEF TypeOK
<1>7. TypeOK'
  BY <1>1, <1>2, <1>6 DEF TypeOK
<1>8. ControlInv'
  BY <1>2 DEF ControlInv
<1>9. FilesInv'
  BY <1>1, <1>2, <1>4, <1>6 DEF FilesInv, Current, ControlInv
<1>10. CleanInv'
  <2>1. \A m \in Names : tmp'[m].test <= test'
    BY <1>2, <1>5, <1>6 DEF CleanInv, TypeOK
  <2>2. \A m \in Names : tmp'[m].test = test' => m \in files_to_clean' \cup ToBeListed'
    BY <1>1, <1>2, <1>6 DEF CleanInv, ToBeListed, ControlInv
  <2>3. \A m \in files_to_clean' : tmp'[m] = Absent \/ tmp'[m].test = test'
    BY <1>2, <1>5, <1>6 DEF CleanInv, TypeOK, ControlInv
  <2>4. status' = "running"
    BY <1>2 DEF ControlInv
  <2> QED
    BY <2>1, <2>2, <2>3, <2>4 DEF CleanInv, CleanedOnSuccess
<1> QED
  BY <1>7, <1>8, <1>9, <1>10

(* The file written is the input of the next pass.                         *)
LEMMA WriteTempInv ==
  ASSUME ToolInv, WriteTemp
  PROVE  ToolInv'
<1> USE DEF ToolInv
<1> DEFINE r == rewritten_input_file
<1>1. /\ pc = "write" /\ pc' = "pass" /\ step' = step + 1
      /\ tmp' = [tmp EXCEPT ![r].whole = TRUE]
      /\ files_to_clean' = files_to_clean \cup {r}
      /\ UNCHANGED <<test, status, r, output, before>>
  BY DEF WriteTemp, ToClean
<1>2. step \in 3 .. 6
  BY <1>1 DEF ControlInv, FirstRewriting, LastPass
<1>3. r \in Names /\ tmp[r] = Current(FirstRewriting .. step, FALSE)
  BY <1>1 DEF FilesInv
<1>4. FirstRewriting .. step \in SUBSET Passes
  BY <1>2 DEF FirstRewriting, Passes, LastPass
<1>5. /\ tmp'[r] = Current(FirstRewriting .. step, TRUE)
      /\ \A m \in Names \ {r} : tmp'[m] = tmp[m]
  <2>1. tmp'[r] = [tmp[r] EXCEPT !.whole = TRUE]
    BY <1>1, <1>3 DEF TypeOK
  <2>2. \A m \in Names \ {r} : tmp'[m] = tmp[m]
    BY <1>1 DEF TypeOK
  <2> QED
    BY <1>3, <1>4, <2>1, <2>2, CompleteCurrent DEF TypeOK
<1>6. tmp'[r] \in Content /\ tmp'[r].test = test
  BY <1>4, <1>5, CurrentContent DEF TypeOK
<1>7. tmp' \in [Names -> Content]
  BY <1>1, <1>3, <1>5, <1>6 DEF TypeOK
<1>8. TypeOK'
  BY <1>1, <1>2, <1>3, <1>7 DEF TypeOK, Passes, LastPass
<1>9. ControlInv'
  BY <1>1, <1>2 DEF ControlInv
<1>10. FilesInv'
  <2>1. FirstRewriting .. step = FirstRewriting .. step' - 1
    BY <1>1, <1>2
  <2> QED
    BY <1>1, <1>3, <1>5, <2>1 DEF FilesInv, Current, ControlInv
<1>11. CleanInv'
  <2>1. \A m \in Names : tmp'[m].test <= test'
    BY <1>1, <1>5, <1>6 DEF CleanInv, TypeOK
  <2>2. \A m \in Names : tmp'[m].test = test' => m \in files_to_clean' \cup ToBeListed'
    BY <1>1, <1>5 DEF CleanInv, ToBeListed, ControlInv
  <2>3. \A m \in files_to_clean' : tmp'[m] = Absent \/ tmp'[m].test = test'
    BY <1>1, <1>5, <1>6 DEF CleanInv, TypeOK, ControlInv
  <2>4. status' = "running"
    BY <1>1 DEF ControlInv
  <2> QED
    BY <2>1, <2>2, <2>3, <2>4 DEF CleanInv, CleanedOnSuccess
<1> QED
  BY <1>8, <1>9, <1>10, <1>11

(* The last pass.                                                          *)
LEMMA OutputInv ==
  ASSUME ToolInv, OpenOutput \/ WriteOutput \/ AllPassed
  PROVE  ToolInv'
<1> USE DEF ToolInv
<1>1. /\ pc \in {"pass", "output", "written"} /\ pc' \in {"output", "written", "clean"}
      /\ UNCHANGED <<test, status, memory, tmp, before>>
  BY DEF OpenOutput, WriteOutput, AllPassed
<1>2. status = "running"
  BY <1>1 DEF ControlInv
<1>3. Rewriting \in SUBSET Passes
  BY DEF Rewriting, Passes, FirstRewriting, LastPass
<1>4. step = LastPass
  BY DEF OpenOutput, WriteOutput, AllPassed, ControlInv
<1>5. output' = Current(Rewriting, pc' # "output")
  <2>1. CASE OpenOutput
    <3>1. step \in Rewriting
      BY <1>4 DEF Rewriting, FirstRewriting, LastPass
    <3> QED
      BY <2>1, <1>4, <3>1, RewrittenFact DEF OpenOutput, Rewriting
  <2>2. CASE WriteOutput
    <3>1. output = Current(Rewriting, FALSE) /\ output' = [output EXCEPT !.whole = TRUE]
      BY <2>2 DEF WriteOutput, FilesInv
    <3> QED
      BY <2>2, <3>1, <1>3, CompleteCurrent DEF WriteOutput, TypeOK
  <2>3. CASE AllPassed
    BY <2>3 DEF AllPassed, FilesInv
  <2> QED
    BY <2>1, <2>2, <2>3
<1>6. output' \in Content /\ output'.test = test
  BY <1>3, <1>5, CurrentContent DEF TypeOK
<1>7. TypeOK'
  BY <1>1, <1>6 DEF TypeOK, memory
<1>8. ControlInv'
  BY <1>1, <1>4 DEF ControlInv, memory
<1>9. FilesInv'
  BY <1>1, <1>2, <1>5, <1>6 DEF FilesInv, Current, memory
<1>10. CleanInv'
  BY <1>1, <1>2 DEF CleanInv, CleanedOnSuccess, ToBeListed, memory
<1> QED
  BY <1>7, <1>8, <1>9, <1>10

(* Only files of this run are removed.                                     *)
LEMMA RemoveOneInv ==
  ASSUME ToolInv, RemoveOne
  PROVE  ToolInv'
<1> USE DEF ToolInv
<1>1. PICK n \in files_to_clean : tmp' = [tmp EXCEPT ![n] = Absent]
  BY DEF RemoveOne, Removable
<1>2. /\ pc = "clean"
      /\ UNCHANGED <<test, status, pc, memory, output, before>>
  BY DEF RemoveOne
<1>3. n \in Names
  BY DEF TypeOK
<1>4. /\ tmp'[n] = Absent
      /\ \A m \in Names \ {n} : tmp'[m] = tmp[m]
      /\ tmp' \in [Names -> Content]
  BY <1>1, <1>3, AbsentContent DEF TypeOK
<1>5. TypeOK'
  BY <1>2, <1>4 DEF TypeOK, memory
<1>6. ControlInv'
  BY <1>2 DEF ControlInv, memory
<1>7. FilesInv'
  BY <1>2 DEF FilesInv, Current, memory
<1>8. CleanInv'
  <2>1. status = "running" /\ test \in Nat /\ test > 0
    BY <1>2 DEF ControlInv, TypeOK
  <2>2. \A m \in Names : tmp'[m].test <= test
    BY <1>4, <2>1, AbsentContent DEF CleanInv
  <2>3. \A m \in Names : tmp'[m].test = test => m \in files_to_clean
    BY <1>2, <1>4, <2>1, AbsentContent DEF CleanInv, ToBeListed
  <2>4. \A m \in files_to_clean : tmp'[m] = Absent \/ tmp'[m].test = test
    BY <1>4, <2>1 DEF CleanInv, TypeOK
  <2> QED
    BY <1>2, <2>1, <2>2, <2>3, <2>4 DEF CleanInv, CleanedOnSuccess, memory
<1> QED
  BY <1>5, <1>6, <1>7, <1>8

(* After a complete run, none of its files is left.                        *)
LEMMA ExitInv ==
  ASSUME ToolInv, Exit
  PROVE  ToolInv'
<1> USE DEF ToolInv
<1>1. /\ pc = "clean" /\ pc' = "ended" /\ status' = "zero"
      /\ UNCHANGED <<test, memory, tmp, output, before>>
      /\ \A n \in files_to_clean : tmp[n] = Absent
  BY DEF Exit, Removable
<1>2. status = "running" /\ test > 0 /\ test \in Nat
  BY <1>1 DEF ControlInv, TypeOK
<1>3. TypeOK'
  BY <1>1 DEF TypeOK, memory
<1>4. ControlInv'
  BY <1>1, <1>2 DEF ControlInv, memory
<1>5. FilesInv'
  BY <1>1, <1>2 DEF FilesInv, Current, memory
<1>6. CleanInv'
  <2>1. \A n \in Names : tmp[n].test = test => n \in files_to_clean
    BY <1>1, <1>2 DEF CleanInv, ToBeListed
  <2>2. \A n \in Names : tmp[n].test # test
    BY <1>1, <1>2, <2>1, AbsentContent
  <2> QED
    BY <1>1, <2>2 DEF CleanInv, CleanedOnSuccess, memory
<1> QED
  BY <1>3, <1>4, <1>5, <1>6

(* A run that ends early leaves what it has made.                          *)
LEMMA DieInv ==
  ASSUME ToolInv, Die
  PROVE  ToolInv'
<1> USE DEF ToolInv
<1>1. /\ pc # "ended" /\ pc' = "ended" /\ status' = "nonzero"
      /\ UNCHANGED <<test, memory, tmp, output, before>>
  BY DEF Die
<1>2. TypeOK'
  BY <1>1 DEF TypeOK, memory
<1>3. ControlInv' /\ FilesInv'
  BY <1>1 DEF ControlInv, FilesInv, memory
<1>4. CleanInv'
  BY <1>1 DEF CleanInv, CleanedOnSuccess, memory
<1> QED
  BY <1>2, <1>3, <1>4

(* Nothing changes.                                                        *)
LEMMA StutterInv ==
  ASSUME ToolInv, UNCHANGED vars
  PROVE  ToolInv'
BY DEF ToolInv, TypeOK, ControlInv, FilesInv, Current, CleanInv, CleanedOnSuccess,
       ToBeListed, vars, memory

(* Every step keeps the invariant.                                         *)
LEMMA NextToolInv == ToolInv /\ [Next]_vars => ToolInv'
BY StartInv, ReadOnlyInv, CreateTempInv, WriteTempInv, OutputInv, RemoveOneInv, ExitInv,
   DieInv, StutterInv DEF Next

-----------------------------------------------------------------------------
(***************************************************************************)
(* The theorems.                                                           *)
(***************************************************************************)

(* The tool keeps its inductive invariant.                                 *)
THEOREM ToolInvariant == Spec => []ToolInv
BY InitToolInv, NextToolInv, PTL DEF Spec

(* Every variable of the driver keeps to its type.                         *)
THEOREM ToolTypeCorrect == Spec => []TypeOK
<1>1. ToolInv => TypeOK
  BY DEF ToolInv
<1> QED
  BY <1>1, ToolInvariant, PTL

(* A pass parses what the previous pass of the same run wrote, whatever    *)
(* earlier runs left behind (rewritten_input_file).                        *)
THEOREM PassesChained == Spec => []InputOfPreviousPass
<1>1. ToolInv => InputOfPreviousPass
  <2> SUFFICES ASSUME ToolInv, pc = "pass", step > FirstRewriting
               PROVE  /\ rewritten_input_file \in Names
                      /\ Input = Current(FirstRewriting .. step - 1, TRUE)
    BY DEF InputOfPreviousPass, Current
  <2>1. ~(step <= FirstRewriting)
    BY DEF ToolInv, TypeOK, Passes, FirstRewriting, LastPass
  <2> QED
    BY <2>1 DEF ToolInv, FilesInv, Input
<1> QED
  BY <1>1, ToolInvariant, PTL

(* After a run that ends with status zero, the output is whole, its own,   *)
(* and has been through every pass (main).                                 *)
THEOREM OutputIsComplete == Spec => []OutputComplete
<1>1. ToolInv => OutputComplete
  BY DEF ToolInv, FilesInv, OutputComplete, Current
<1> QED
  BY <1>1, ToolInvariant, PTL

(* After a run that ends with status zero, none of its temporary files is  *)
(* left (files_to_clean).                                                  *)
THEOREM CleanAfterSuccess == Spec => []CleanedOnSuccess
<1>1. ToolInv => CleanedOnSuccess
  BY DEF ToolInv, CleanInv
<1> QED
  BY <1>1, ToolInvariant, PTL

(* A run never removes or overwrites a temporary file of another.          *)
THEOREM OthersKept == Spec => OthersUntouched
<1>1. ToolInv /\ [Next]_vars =>
        [\A n \in Names : tmp[n] # Absent /\ tmp[n].test # test => tmp'[n] = tmp[n]]_vars
  <2> SUFFICES ASSUME ToolInv, Next, NEW n \in Names,
                      tmp[n] # Absent, tmp[n].test # test
               PROVE  tmp'[n] = tmp[n]
    OBVIOUS
  <2>1. tmp \in [Names -> Content]
    BY DEF ToolInv, TypeOK
  <2>2. CASE CreateTemp
    BY <2>1, <2>2 DEF CreateTemp
  <2>3. CASE WriteTemp
    <3>1. tmp[rewritten_input_file].test = test
      BY <2>3 DEF WriteTemp, ToolInv, FilesInv, Current
    <3> QED
      BY <2>1, <2>3, <3>1 DEF WriteTemp
  <2>4. CASE RemoveOne
    <3>1. PICK m \in files_to_clean :
            tmp[m] # Absent /\ tmp' = [tmp EXCEPT ![m] = Absent]
      BY <2>4 DEF RemoveOne, Removable
    <3>2. tmp[m].test = test
      BY <2>4, <3>1 DEF RemoveOne, ToolInv, ControlInv, CleanInv
    <3> QED
      BY <2>1, <3>1, <3>2
  <2>5. CASE Start \/ ReadOnly \/ OpenOutput \/ WriteOutput \/ AllPassed \/ Exit \/ Die
    BY <2>5 DEF Start, ReadOnly, OpenOutput, WriteOutput, AllPassed, Exit, Die
  <2> QED
    BY <2>2, <2>3, <2>4, <2>5 DEF Next
<1> QED
  BY <1>1, ToolInvariant, PTL DEF Spec, OthersUntouched

(* The file that an observer sees: during a run, what it was before.        *)
SeenFile == FileOf(IF status = "running" THEN before ELSE output)

(* Before the first run there is no output.                                *)
LEMMA InitSimulation == Init => Contract!Init
<1> SUFFICES ASSUME Init
             PROVE  Contract!Init
  OBVIOUS
<1>1. test = 0 /\ status = "none" /\ output = Absent
  BY DEF Init
<1>2. FileOf(Absent) = NoFile
  BY DEF FileOf, Absent, NoFile
<1>3. FileOf(IF status = "running" THEN before ELSE output) = NoFile
  BY <1>1, <1>2
<1> QED
  BY <1>1, <1>3 DEF Contract!Init, Contract!NoFile, NoFile

(* A run that begins does not change what is seen.                         *)
LEMMA StartSimulation ==
  ASSUME ToolInv, Start
  PROVE  Contract!Begin
<1>1. status # "running" /\ status' = "running" /\ before' = output /\ output' = output
  BY DEF Start, ToolInv, ControlInv
<1>2. SeenFile' = SeenFile
  BY <1>1 DEF SeenFile, FileOf
<1> QED
  BY <1>1, <1>2 DEF Start, Contract!Begin, SeenFile

(* Nor does a step within a run.                                           *)
LEMMA InnerSimulation ==
  ASSUME ToolInv, ReadOnly \/ CreateTemp \/ WriteTemp \/ OpenOutput \/ WriteOutput
                    \/ AllPassed \/ RemoveOne
  PROVE  UNCHANGED Contract!vars
<1>1. status = "running"
  BY DEF ToolInv, ControlInv, ReadOnly, CreateTemp, WriteTemp, OpenOutput, WriteOutput,
         AllPassed, RemoveOne
<1>2. UNCHANGED <<test, status, before>>
  BY DEF ReadOnly, CreateTemp, WriteTemp, OpenOutput, WriteOutput, AllPassed, RemoveOne
<1>3. SeenFile' = SeenFile
  BY <1>1, <1>2 DEF SeenFile, FileOf
<1> QED
  BY <1>2, <1>3 DEF Contract!vars, SeenFile

(* A run that ends leaves what it may leave.                               *)
LEMMA EndSimulation ==
  ASSUME ToolInv, Exit \/ Die
  PROVE  Contract!End
<1>1. /\ status = "running" /\ status' \in {"zero", "nonzero"}
      /\ UNCHANGED <<test, output, before>>
  BY DEF Exit, Die, ToolInv, ControlInv
<1>2. SeenFile = FileOf(before) /\ SeenFile' = FileOf(output)
  BY <1>1 DEF SeenFile, FileOf
<1>3. output \in Content
  BY DEF ToolInv, TypeOK
<1>4. FileOf(output) \in MayLeave(status' = "zero", FileOf(before), test)
  <2>1. CASE status' = "zero"
    <3>1. Exit
      BY <2>1 DEF Die
    <3>2. output = Current(Rewriting, TRUE)
      BY <3>1 DEF Exit, ToolInv, FilesInv
    <3>3. FileOf(output) = Whole(test)
      BY <3>2 DEF FileOf, Whole, Current
    <3> QED
      BY <2>1, <3>3 DEF MayLeave
  <2>2. CASE status' # "zero"
    <3>1. output = before \/ output.test = test
      BY <1>1 DEF ToolInv, FilesInv
    <3>2. CASE output = before
      BY <2>2, <3>2 DEF MayLeave
    <3>3. CASE output.test = test
      <4>1. output.whole \in BOOLEAN
        BY <1>3 DEF Content
      <4>2. FileOf(output) = Whole(test) \/ FileOf(output) = Part(test)
        BY <3>3, <4>1 DEF FileOf, Whole, Part
      <4> QED
        BY <2>2, <4>2 DEF MayLeave
    <3> QED
      BY <3>1, <3>2, <3>3
  <2> QED
    BY <2>1, <2>2
<1>5. SeenFile' \in MayLeave(status' = "zero", SeenFile, test)
  <2>1. CASE status' = "zero"
    BY <1>2, <1>4
  <2>2. CASE status' # "zero"
    BY <1>2, <1>4
  <2> QED
    BY <2>1, <2>2
<1>6. status = "running" /\ status' \in {"zero", "nonzero"} /\ test' = test
  BY <1>1
<1>7. \A zero, old, t : Contract!MayLeave(zero, old, t) = MayLeave(zero, old, t)
  BY DEF Contract!MayLeave, MayLeave, Contract!Whole, Whole, Contract!Part, Part
<1> QED
  BY <1>5, <1>6, <1>7 DEF Contract!End, SeenFile

(* The tool, seen from outside, does nothing but what Generation allows.   *)
THEOREM ToolImplementsGeneration == Spec => ImplementsGeneration
<1>1. ToolInv /\ [Next]_vars => [Contract!Next]_Contract!vars
  <2> SUFFICES ASSUME ToolInv, [Next]_vars
               PROVE  [Contract!Next]_Contract!vars
    OBVIOUS
  <2>1. CASE UNCHANGED vars
    BY <2>1 DEF vars, Contract!vars, FileOf
  <2>2. CASE Next
    BY <2>2, StartSimulation, InnerSimulation, EndSimulation DEF Next, Contract!Next
  <2> QED
    BY <2>1, <2>2
<1> QED
  BY <1>1, InitSimulation, ToolInvariant, PTL DEF Spec, ImplementsGeneration, Contract!Spec
=============================================================================
