----------------------------- MODULE Generation -----------------------------
(***************************************************************************)
(* What the batch runner relies on when it runs the tool: generations come *)
(* one after the other, and each leaves the output file as MayLeave says.  *)
(* FuzzTool implements this.  Experiment assumes it.                       *)
(***************************************************************************)
EXTENDS TestFile

VARIABLES
  test,      \* the number of generations started
  status,    \* "none", "running", or how the last one ended
  file

vars == <<test, status, file>>

Init ==
  /\ test = 0
  /\ status = "none"
  /\ file = NoFile

Begin ==
  /\ status # "running"
  /\ test' = test + 1
  /\ status' = "running"
  /\ UNCHANGED file

End ==
  /\ status = "running"
  /\ status' \in {"zero", "nonzero"}
  /\ file' \in MayLeave(status' = "zero", file, test)
  /\ UNCHANGED test

Next == Begin \/ End

Spec == Init /\ [][Next]_vars
=============================================================================
