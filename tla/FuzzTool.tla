------------------------------ MODULE FuzzTool ------------------------------
(***************************************************************************)
(* The driver of mtFuzzer (src/src/fuzzMetaTest.cpp) and what its passes   *)
(* do at the end of the file (END_PASS_WRITE_TEMP, and the action of the   *)
(* last one).  Passes 1 to 3 parse the user's file, each later one the     *)
(* temporary file that rewritten_input_file names.  Pass 7 writes the      *)
(* output.                                                                 *)
(*                                                                         *)
(* The tool is run again and again with the same output.  A run can end at *)
(* any point: a failed assertion, a file that does not parse, an error of  *)
(* the disk, or a kill.  What it has not removed then stays.               *)
(***************************************************************************)
EXTENDS TestFile

CONSTANTS
  Names,       \* names of temporary files
  MaxTests     \* bound on the number of runs

FirstRewriting == 3
LastPass == 7
Passes == 1 .. LastPass
Rewriting == FirstRewriting .. LastPass

NoName == "none"
Absent == [test |-> 0, passes |-> {}, whole |-> FALSE]
Content == [test : Nat, passes : SUBSET Passes, whole : BOOLEAN]

ASSUME ToolAssumption == NoName \notin Names /\ MaxTests \in Nat

VARIABLES
  test,                   \* the number of this run
  status,
  pc,
  step,                   \* the pass
  rewritten_input_file,
  files_to_clean,
  tmp,                    \* the temporary files
  output,                 \* the file output_file
  before                  \* what it was when this run started (history)

memory == <<step, rewritten_input_file, files_to_clean>>
vars == <<test, status, pc, memory, tmp, output, before>>

Init ==
  /\ test = 0
  /\ status = "none"
  /\ pc = "ended"
  /\ step = 1
  /\ rewritten_input_file = NoName
  /\ files_to_clean = {}
  /\ tmp = [n \in Names |-> Absent]
  /\ output = Absent
  /\ before = Absent

-----------------------------------------------------------------------------

Start ==
  /\ pc = "ended"
  /\ test < MaxTests
  /\ test' = test + 1
  /\ status' = "running" /\ pc' = "pass" /\ step' = 1
  /\ rewritten_input_file' = NoName /\ files_to_clean' = {}
  /\ before' = output
  /\ UNCHANGED <<tmp, output>>

(* What the pass parses.                                                   *)
Input ==
  IF step <= FirstRewriting THEN [test |-> test, passes |-> {}, whole |-> TRUE]
  ELSE tmp[rewritten_input_file]

Rewritten == [test |-> test, passes |-> Input.passes \cup {step}, whole |-> FALSE]

(* Passes 1 and 2 only read.                                               *)
ReadOnly ==
  /\ pc = "pass"
  /\ step < FirstRewriting
  /\ step' = step + 1
  /\ UNCHANGED <<test, status, pc, rewritten_input_file, files_to_clean, tmp, output, before>>

NewNameKept(n) == rewritten_input_file
NewNameFirst(n) == IF rewritten_input_file = NoName THEN n ELSE rewritten_input_file
NewName(n) == n

(* createTemporaryFile makes a file with a name that is not in use.        *)
CreateTemp ==
  /\ pc = "pass"
  /\ step \in FirstRewriting .. LastPass - 1
  /\ \E n \in Names :
       /\ tmp[n] = Absent
       /\ tmp' = [tmp EXCEPT ![n] = Rewritten]
       /\ rewritten_input_file' = NewName(n)
  /\ pc' = "write"
  /\ UNCHANGED <<test, status, step, files_to_clean, output, before>>

ToCleanLast == {rewritten_input_file}
ToClean == files_to_clean \cup {rewritten_input_file}

(* The file is whole when its stream is closed, at the end of the pass.    *)
WriteTemp ==
  /\ pc = "write"
  /\ tmp' = [tmp EXCEPT ![rewritten_input_file].whole = TRUE]
  /\ files_to_clean' = ToClean
  /\ step' = step + 1
  /\ pc' = "pass"
  /\ UNCHANGED <<test, status, rewritten_input_file, output, before>>

(* The last pass empties the output file when it opens it.                 *)
OpenOutput ==
  /\ pc = "pass"
  /\ step = LastPass
  /\ output' = Rewritten
  /\ pc' = "output"
  /\ UNCHANGED <<test, status, memory, tmp, before>>

WriteOutput ==
  /\ pc = "output"
  /\ output' = [output EXCEPT !.whole = TRUE]
  /\ pc' = "written"
  /\ UNCHANGED <<test, status, memory, tmp, before>>

(* run() returned zero for the last pass.                                  *)
AllPassed ==
  /\ pc = "written"
  /\ pc' = "clean"
  /\ UNCHANGED <<test, status, memory, tmp, output, before>>

RemovableAll == Names
Removable == files_to_clean

(* The status of fs::remove is ignored by the code, and here it succeeds:  *)
(* nobody else holds a temporary file.                                     *)
RemoveOne ==
  /\ pc = "clean"
  /\ \E n \in Removable :
       /\ tmp[n] # Absent
       /\ tmp' = [tmp EXCEPT ![n] = Absent]
  /\ UNCHANGED <<test, status, pc, memory, output, before>>

Exit ==
  /\ pc = "clean"
  /\ \A n \in Removable : tmp[n] = Absent
  /\ status' = "zero"
  /\ pc' = "ended"
  /\ UNCHANGED <<test, memory, tmp, output, before>>

DieWithZero ==
  /\ pc # "ended"
  /\ status' = "zero"
  /\ pc' = "ended"
  /\ UNCHANGED <<test, memory, tmp, output, before>>

(* The run ends here: exit(1), a failed assertion, a fatal error, a kill.  *)
(* A pass that reports errors has written its file all the same.           *)
Die ==
  /\ pc # "ended"
  /\ status' = "nonzero"
  /\ pc' = "ended"
  /\ UNCHANGED <<test, memory, tmp, output, before>>

Next ==
  \/ Start
  \/ ReadOnly
  \/ CreateTemp
  \/ WriteTemp
  \/ OpenOutput
  \/ WriteOutput
  \/ AllPassed
  \/ RemoveOne
  \/ Exit
  \/ Die

Spec == Init /\ [][Next]_vars

-----------------------------------------------------------------------------

TypeOK ==
  /\ test \in Nat
  /\ status \in {"none", "running", "zero", "nonzero"}
  /\ pc \in {"pass", "write", "output", "written", "clean", "ended"}
  /\ step \in Passes
  /\ rewritten_input_file \in Names \cup {NoName}
  /\ files_to_clean \subseteq Names
  /\ tmp \in [Names -> Content]
  /\ output \in Content
  /\ before \in Content

(* Each pass from the fourth on parses the file that this run's previous   *)
(* pass wrote, whole: never one that another run left, nor an older one    *)
(* (rewritten_input_file).                                                 *)
InputOfPreviousPass ==
  pc = "pass" /\ step > FirstRewriting =>
    /\ rewritten_input_file \in Names
    /\ Input = [test |-> test, passes |-> FirstRewriting .. step - 1, whole |-> TRUE]

(* Status zero means that the output is whole, belongs to this run and has *)
(* been through every pass (main).                                         *)
OutputComplete ==
  status = "zero" => output = [test |-> test, passes |-> Rewriting, whole |-> TRUE]

(* A run that ends with status zero leaves none of its temporary files     *)
(* behind (the loop over files_to_clean).                                  *)
CleanedOnSuccess == status = "zero" => \A n \in Names : tmp[n].test # test

(* A run never removes or overwrites what another run left.                *)
OthersUntouched ==
  [][\A n \in Names : tmp[n] # Absent /\ tmp[n].test # test => tmp'[n] = tmp[n]]_vars

(* Seen from outside, the tool does what the batch runner relies on: the   *)
(* output counts when a run has ended.                                     *)
FileOf(content) == [test |-> content.test, whole |-> content.whole]

Contract == INSTANCE Generation
              WITH file <- FileOf(IF status = "running" THEN before ELSE output)

ImplementsGeneration == Contract!Spec
=============================================================================
