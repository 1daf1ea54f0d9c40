----------------------------- MODULE MCMetaTests -----------------------------
(***************************************************************************)
(* Metamorphic specifications for model-checking MetaTests.                *)
(***************************************************************************)
EXTENDS MetaTests

CONSTANT v1

call(t, f) == [type |-> t, family |-> f]

decl(t, f, n, ps, calls, fuzz) ==
  [type |-> t, family |-> f, name |-> n, params |-> ps,
   recursive_calls |-> calls, has_fuzz_call |-> fuzz]

R == "relations"
G == "generators"

-----------------------------------------------------------------------------
(* Families whose relations take parameters of the same types.  Each has a *)
(* base relation; A has one with a placeholder for B, B one with two       *)
(* placeholders, the second for a generator that is copied because it      *)
(* fuzzes.  Two relations of different families share their name.          *)
MCUniform == [
  A_id   |-> decl(R, "A", "id",   <<"meta">>,          <<>>, FALSE),
  A_step |-> decl(R, "A", "step", <<"meta">>,          <<call(R, "B")>>, FALSE),
  B_add  |-> decl(R, "B", "add",  <<"meta", "meta">>,  <<>>, TRUE),
  B_step |-> decl(R, "B", "step", <<"meta", "meta">>,
                  <<call(R, "A"), call(G, "B")>>, FALSE),
  B_gen  |-> decl(G, "B", "gen",  <<"other">>,         <<>>, TRUE)]

MCUniformRelations == DOMAIN MCUniform

MCCheck == <<[name |-> "eq", params |-> <<"meta", "meta">>]>>

MCTwoChecks == <<[name |-> "eq",   params |-> <<"meta", "meta">>],
                 [name |-> "size", params |-> <<"other", "meta">>]>>

-----------------------------------------------------------------------------
(* A family whose relations take one or two metamorphic variables or a     *)
(* literal, with a placeholder for a generator that is copied, and one     *)
(* whose placeholders recurse for as long as they may: C has no base, so   *)
(* that nothing can end a recursion there.                                 *)
MCMixed == [
  A_one |-> decl(R, "A", "one", <<"meta">>,          <<call(G, "A")>>, TRUE),
  A_two |-> decl(R, "A", "two", <<"meta", "meta">>,  <<>>, FALSE),
  A_lit |-> decl(R, "A", "lit", <<"meta", "other">>, <<>>, FALSE),
  A_rec |-> decl(R, "A", "rec", <<"meta">>,          <<call(G, "A"), call(G, "C")>>, FALSE),
  A_gen |-> decl(G, "A", "gen", <<"other">>,         <<>>, TRUE),
  C_gen |-> decl(G, "C", "gen", <<"other">>,         <<call(G, "C")>>, FALSE)]

MCMixedRelations == DOMAIN MCMixed
=============================================================================
