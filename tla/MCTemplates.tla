---------------------------- MODULE MCTemplates ----------------------------
(***************************************************************************)
(* Bodies of main for model-checking FuzzNew: every sequence of at most    *)
(* MaxStatements statements that compiles, by the number of its blocks.    *)
(***************************************************************************)
EXTENDS FuzzNew

CONSTANT MaxStatements

stmt(kind, decl, uses, out, gets, news) ==
  [kind |-> kind, decl |-> decl, uses |-> uses, output_var |-> out, gets |-> gets,
   news |-> news]

BlockStart == stmt("start", {}, {}, FALSE, {}, 0)
BlockEnd == stmt("end", {}, {}, FALSE, {}, 0)
Declare == stmt("plain", {"x"}, {}, FALSE, {}, 0)
(* y is named in the expression that initialises it                        *)
DeclareNew == stmt("plain", {"y"}, {"y"}, FALSE, {}, 1)
UseNew == stmt("plain", {}, {"x"}, FALSE, {}, 1)
Build == stmt("plain", {}, {}, TRUE, {}, 1)
Get == stmt("plain", {}, {}, FALSE, {0}, 0)

Bodies(statements) == UNION {[1 .. n -> statements] : n \in 0 .. MaxStatements}

Places(m, kind) == {s \in DOMAIN m : m[s].kind = kind}

(* Names are declared once, and not after they are used, and               *)
(* fuzz::output_var_get comes after a block in which fuzz::output_var is   *)
(* built.                                                                  *)
Compiles(m) ==
  /\ \A a, b \in DOMAIN m : a # b => m[a].decl \cap m[b].decl = {}
  /\ \A s \in DOMAIN m :
       /\ \A v \in m[s].uses : \E d \in 1 .. s : v \in m[d].decl
       /\ m[s].gets # {} =>
            /\ \E d \in 1 .. s - 1 : m[d].output_var
            /\ Places(m, "end") \cap (1 .. s - 1) # {}
            /\ ~InBlockOf(m, s)

SecondBlock(m) == \E e \in Places(m, "end"), s \in Places(m, "start") : e < s

MCOneBlock ==
  {m \in Bodies({BlockStart, BlockEnd, Declare, DeclareNew, UseNew, Build, Get}) :
     Compiles(m) /\ ~SecondBlock(m)}

(* Blocks that are closed before the next one is opened.                   *)
Balanced(m) ==
  /\ \A s \in Places(m, "start") : ~(s > 1 /\ InBlockOf(m, s - 1) /\ m[s - 1].kind # "end")
  /\ \A e \in Places(m, "end") : InBlockOf(m, e)
  /\ \A s \in Places(m, "start") : \E e \in Places(m, "end") : s < e

MCTwoBlocks ==
  {m \in Bodies({BlockStart, BlockEnd, Declare, UseNew, Build, Get}) :
     Compiles(m) /\ Balanced(m) /\ SecondBlock(m)}

MCVars == {"x", "y"}

MCRelations ==
  <<[params |-> {"x"}, news |-> 2], [params |-> {}, news |-> 0],
    [params |-> {"y"}, news |-> 1]>>
=============================================================================
