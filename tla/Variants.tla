------------------------------- MODULE Variants -------------------------------
(***************************************************************************)
(* What one fuzz::meta_test() call promises: a family of variants, all of  *)
(* which apply relations of the same families, in the same order, to the   *)
(* same arguments.                                                         *)
(*                                                                         *)
(* Nothing is said of how a relation is chosen in its family, of how its   *)
(* placeholders are filled, or of how the arguments are remembered: see    *)
(* MetaTests for that.                                                     *)
(***************************************************************************)
EXTENDS Integers, Sequences

CONSTANTS
  Families,   \* the families relations belong to
  Length,     \* how many relations a variant applies
  Count,      \* how many variants there are
  Arguments   \* the argument lists a relation can be applied to

VARIABLES
  chain,      \* the family of each relation of a variant
  variants    \* the variants, the unfinished one last: a family and an
              \* argument list per relation

vars == <<chain, variants>>

AllComplete == \A t \in 1..Len(variants) : Len(variants[t]) = Length

Init ==
  /\ chain = <<>>
  /\ variants = <<>>

(* A family starts when the one before it, if any, has all its variants.   *)
FixChain ==
  /\ AllComplete
  /\ chain = <<>> \/ Len(variants) = Count
  /\ chain' \in [1..Length -> Families]
  /\ variants' = <<>>

Begin ==
  /\ chain # <<>>
  /\ AllComplete
  /\ Len(variants) < Count
  /\ variants' = Append(variants, <<>>)
  /\ UNCHANGED chain

(* Two argument lists agree if neither contradicts the other.              *)
Agree(a, b) == \A k \in (1..Len(a)) \cap (1..Len(b)) : a[k] = b[k]

(* The unfinished variant applies its next relation, to the arguments the  *)
(* variants before it used there.                                          *)
Apply ==
  /\ variants # <<>>
  /\ LET last == Len(variants)
         n    == Len(variants[last]) + 1
     IN /\ n <= Length
        /\ \E args \in Arguments :
             /\ \A t \in 1..(last - 1) : Agree(args, variants[t][n].args)
             /\ variants' = [variants EXCEPT ![last] =
                               Append(@, [family |-> chain[n], args |-> args])]
  /\ UNCHANGED chain

Next == FixChain \/ Begin \/ Apply

Spec == Init /\ [][Next]_vars
=============================================================================
