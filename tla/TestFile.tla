------------------------------ MODULE TestFile ------------------------------
(***************************************************************************)
(* The output file of the tool, as the batch runner knows it: the test it  *)
(* was generated for and whether it is whole.                              *)
(***************************************************************************)
EXTENDS Integers

NoFile == [test |-> 0, whole |-> FALSE]
Text == [test : Nat, whole : BOOLEAN]
Whole(test) == [test |-> test, whole |-> TRUE]
Part(test) == [test |-> test, whole |-> FALSE]

(* What a generation may leave in the place of `before`.  The file is      *)
(* written by the last pass, whether or not the pass then reports an       *)
(* error; a killed tool, or one that cannot write, leaves a part of it.    *)
MayLeave(returns_zero, before, test) ==
  IF returns_zero THEN {Whole(test)} ELSE {before, Whole(test), Part(test)}
=============================================================================
