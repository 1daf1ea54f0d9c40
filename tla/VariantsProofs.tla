---------------------------- MODULE VariantsProofs ----------------------------
(***************************************************************************)
(* Proofs about the families of variants the metamorphic test generator    *)
(* writes: how many there are, how the relations of a variant are chained, *)
(* and that the generator implements Variants.                             *)
(***************************************************************************)
EXTENDS MetaTestsProofs, SequenceProofs

-----------------------------------------------------------------------------
(***************************************************************************)
(* How many variants there are.                                            *)
(***************************************************************************)

(* A family never has more variants than were asked for, and has them all  *)
(* when the next call is looked for; each finished one applies every       *)
(* relation of the chain.                                                  *)
CountInv ==
  /\ Len(meta_tests) <= meta_test_count
  /\ InTest => Len(meta_tests) < meta_test_count
  /\ \A t \in 1..Len(meta_tests) : Len(meta_tests[t]) >= meta_test_rel_count
  /\ pc \in {"expand", "done"} =>
       meta_family_chain = <<>> \/ Len(meta_tests) = meta_test_count
  /\ meta_family_chain = <<>> => pc \in {"expand", "done"} /\ meta_tests = <<>>
  /\ meta_family_chain # <<>> => Len(meta_family_chain) = meta_test_rel_count
  /\ meta_call = 0 <=> meta_family_chain = <<>>

LEMMA NextCountInv == IInv /\ CountInv /\ [Next]_vars => CountInv'
<1> SUFFICES ASSUME IInv, CountInv, [Next]_vars PROVE CountInv'
  OBVIOUS
<1> USE DEF CountInv
<1>1. /\ TypeOK /\ Len(meta_tests) \in Nat /\ meta_test_count \in Nat
      /\ meta_test_rel_count \in Nat \ {0} /\ meta_call \in Nat
  BY StateFacts, OptionAssumption DEF IInv, TypeOK
<1>2. CASE GenerateMetaTests
  <2>1. /\ Len(meta_family_chain') = meta_test_rel_count
        /\ meta_family_chain' # <<>>
    <3>1. meta_family_chain' \in [1..meta_test_rel_count -> meta_families]
      BY <1>2 DEF GenerateMetaTests
    <3>2. Len(meta_family_chain') = meta_test_rel_count /\ Len(<<>>) = 0
      BY <3>1, <1>1, FunctionIsSeq
    <3> QED
      BY <3>2, <1>1
  <2>2. /\ meta_tests' = <<>> /\ pc' = "next_test" /\ meta_call' = meta_call + 1
        /\ Len(meta_tests') = 0
    BY <1>2 DEF GenerateMetaTests
  <2> QED
    BY <1>1, <2>1, <2>2 DEF InTest
<1>3. CASE AllExpanded \/ StartTest \/ FamilyComplete \/ TooFewStored \/ NoMatchingDecl
  BY <1>1, <1>3 DEF AllExpanded, StartTest, FamilyComplete, TooFewStored, NoMatchingDecl, InTest
<1>4. CASE ConcretizeMetaRelation \/ ExpandPlaceholder \/ ReturnNested \/ ReturnToChain
           \/ ConcretizeCheck
  <2>1. /\ pc \in {"relation", "recursion", "check"} /\ pc' \in {"relation", "recursion", "check"}
        /\ UNCHANGED <<meta_call, meta_family_chain, meta_tests>>
    BY <1>4 DEF ConcretizeMetaRelation, ExpandPlaceholder, ReturnNested, ReturnToChain,
                ConcretizeCheck
  <2> QED
    BY <2>1 DEF InTest
<1>5. CASE FinishTest
  <2>1. /\ pc = "check" /\ pc' = "next_test"
        /\ UNCHANGED <<meta_call, meta_family_chain>>
        /\ Len(mt_body) >= meta_test_rel_count
        /\ Len(meta_tests) < meta_test_count
    BY <1>5 DEF FinishTest, IInv, ControlInv, InTest
  <2>2. /\ Len(meta_tests') = Len(meta_tests) + 1
        /\ \A t \in 1..Len(meta_tests) : meta_tests'[t] = meta_tests[t]
        /\ meta_tests'[Len(meta_tests) + 1] = mt_body
    BY <1>1, <1>5, FinishStep
  <2>3. \A t \in 1..Len(meta_tests') : Len(meta_tests'[t]) >= meta_test_rel_count
    BY <1>1, <2>1, <2>2
  <2> QED
    BY <1>1, <2>1, <2>2, <2>3 DEF InTest
<1>6. CASE UNCHANGED vars
  BY <1>6 DEF vars, InTest
<1> QED
  BY <1>2, <1>3, <1>4, <1>5, <1>6 DEF Next

(* The generator never writes more variants than --tests, and each one it  *)
(* finishes applies a relation at every position of the chain.             *)
LEMMA Counted == Spec => [](IInv /\ CountInv)
<1>1. Init => CountInv
  BY OptionAssumption DEF Init, CountInv, InTest
<1> QED
  BY <1>1, NextCountInv, InductiveInvariant, PTL DEF Spec

-----------------------------------------------------------------------------
(***************************************************************************)
(* Variants are chained.                                                   *)
(***************************************************************************)

(* Relations of one family are interchangeable: they have the same         *)
(* parameters.                                                             *)
SameParams ==
  \A a, b \in MRs :
    /\ MRInfo[a].type = "relations" /\ MRInfo[b].type = "relations"
    /\ MRInfo[a].family = MRInfo[b].family
    => MRInfo[a].params = MRInfo[b].params

(* args fit params at position p: own where the variable of the test       *)
(* belongs, and nothing that could be taken for it anywhere else.          *)
Linked(args, params, p, own) ==
  /\ Len(args) = Len(params)
  /\ \A k \in 1..Len(params) :
       IF TakesOwn(params, k, p) THEN args[k] = own ELSE args[k] \in InputNames \cup Literals

LinkedTest(test, id) ==
  \A n \in Reached(test) :
    /\ test[n].decl = (n = 1)
    /\ Linked(test[n].args, test[n].params, n - 1, getMetaVarName(id))

(* What is stored at a position was drawn for a relation of its family.    *)
ChainInv ==
  /\ \A p \in Positions :
       mr_input_vars[p] # <<>> =>
         /\ meta_call # 0
         /\ \A mr \in meta_rel_decls("relations", meta_family_chain[p + 1]) :
              Linked(mr_input_vars[p], MRInfo[mr].params, p, Own)
  /\ \A t \in 1..Len(meta_tests) : LinkedTest(meta_tests[t], t - 1)
  /\ InTest => LinkedTest(mt_body, mgi.test_idx)
  /\ pc = "relation" => mgi.first_decl = (mgi.family_idx = 0)
  /\ pc = "recursion" => ~mgi.first_decl

(* The arguments drawn, or read back, for a relation of the family.        *)
LEMMA ArgsLinked ==
  ASSUME TypeOK, mgi.family_idx \in Positions, NEW mr \in MRs,
         mr_input_vars[mgi.family_idx] # <<>> =>
           Linked(mr_input_vars[mgi.family_idx], MRInfo[mr].params, mgi.family_idx, Own),
         NEW args \in RelationArgs(MRInfo[mr].params, mr_input_vars[mgi.family_idx])
  PROVE  /\ Linked(args, MRInfo[mr].params, mgi.family_idx, curr_mr_var_name)
         /\ Linked(StoredAfter(MRInfo[mr].params, args), MRInfo[mr].params, mgi.family_idx, Own)
<1> DEFINE params == MRInfo[mr].params
           p == mgi.family_idx
           stored == mr_input_vars[p]
<1>1. /\ params \in Seq(ParamKind) /\ Len(params) \in Nat
      /\ stored \in Seq(StoredArgument) /\ p \in Int
  BY DeclFacts, MgiFacts DEF TypeOK
<1>2. \A a \in InputNames \cup Literals : a # curr_mr_var_name /\ a # Own
  BY DEF InputNames, Literals, curr_mr_var_name, getMetaVarName, getMetaInputVarName, Own
<1> HIDE DEF params, p
<1>3. CASE stored = <<>>
  <2>1. args \in FreshArgs(params, p, InputNames)
    BY <1>3 DEF RelationArgs, params, p
  <2>2. Len(args) = Len(params)
    BY <1>1, <2>1, FreshArgsFacts
  <2>3. \A k \in 1..Len(params) : args[k] \in ArgChoices(params, k, p, InputNames)
    BY <2>1 DEF FreshArgs
  <2>4. \A k \in 1..Len(params) :
          IF TakesOwn(params, k, p) THEN args[k] = curr_mr_var_name
          ELSE args[k] \in InputNames \cup Literals
    BY <2>3 DEF ArgChoices
  <2>5. Linked(args, params, p, curr_mr_var_name)
    BY <2>2, <2>4 DEF Linked
  <2>6. StoredAfter(params, args) = [k \in 1..Len(params) |-> ToStored(args[k])]
    BY <1>3 DEF StoredAfter, p
  <2>7. Len(StoredAfter(params, args)) = Len(params)
    BY <1>1, <2>6
  <2>8. \A k \in 1..Len(params) :
          IF TakesOwn(params, k, p) THEN StoredAfter(params, args)[k] = Own
          ELSE StoredAfter(params, args)[k] \in InputNames \cup Literals
    BY <2>4, <2>6, <1>2 DEF ToStored
  <2> QED
    BY <2>5, <2>7, <2>8 DEF Linked, params, p
<1>4. CASE stored # <<>>
  <2>1. Linked(stored, params, p, Own)
    BY <1>4 DEF params, p
  <2>2. /\ args = [k \in 1..Len(params) |-> FromStored(stored[k])]
        /\ StoredAfter(params, args) = stored
    BY <1>4 DEF RelationArgs, StoredAfter, params, p
  <2>3. Len(args) = Len(params)
    BY <1>1, <2>2
  <2>4. \A k \in 1..Len(params) :
          IF TakesOwn(params, k, p) THEN args[k] = curr_mr_var_name
          ELSE args[k] \in InputNames \cup Literals
    BY <2>1, <2>2, <1>2 DEF Linked, FromStored
  <2> QED
    BY <2>1, <2>2, <2>3, <2>4 DEF Linked, params, p
<1> QED
  BY <1>3, <1>4

LEMMA RelationChainInv ==
  ASSUME IInv, CountInv, ChainInv, SameParams, ConcretizeMetaRelation
  PROVE  ChainInv'
<1>1. PICK mr \in meta_rel_choices :
        \E args \in RelationArgs(MRInfo[mr].params, mr_input_vars[mgi.family_idx]) :
          /\ mr \in MRs
          /\ mgi.family_idx \in Positions /\ Len(mt_body) = mgi.family_idx
          /\ Len(mt_body') = Len(mt_body) + 1
          /\ \A n \in 1..Len(mt_body) : mt_body'[n] = mt_body[n]
          /\ mt_body'[Len(mt_body) + 1] =
               [family |-> MRInfo[mr].family, params |-> MRInfo[mr].params,
                callee |-> makeUniqueFuncCallName(mr, mgi.recursive_idx),
                decl |-> mgi.first_decl, args |-> args]
          /\ mr_input_vars' =
               [mr_input_vars EXCEPT ![mgi.family_idx] = StoredAfter(MRInfo[mr].params, args)]
  BY RelationStep
<1>2. PICK args \in RelationArgs(MRInfo[mr].params, mr_input_vars[mgi.family_idx]) :
          /\ mr \in MRs
          /\ mgi.family_idx \in Positions /\ Len(mt_body) = mgi.family_idx
          /\ Len(mt_body') = Len(mt_body) + 1
          /\ \A n \in 1..Len(mt_body) : mt_body'[n] = mt_body[n]
          /\ mt_body'[Len(mt_body) + 1] =
               [family |-> MRInfo[mr].family, params |-> MRInfo[mr].params,
                callee |-> makeUniqueFuncCallName(mr, mgi.recursive_idx),
                decl |-> mgi.first_decl, args |-> args]
          /\ mr_input_vars' =
               [mr_input_vars EXCEPT ![mgi.family_idx] = StoredAfter(MRInfo[mr].params, args)]
  BY <1>1
<1> DEFINE p == mgi.family_idx
           params == MRInfo[mr].params
           after == StoredAfter(params, args)
<1>3. /\ TypeOK /\ pc = "relation" /\ pc' = "recursion" /\ InTest /\ InTest'
      /\ mgi' = [mgi EXCEPT !.first_decl = FALSE]
      /\ UNCHANGED <<meta_call, meta_family_chain, meta_tests>>
      /\ p \in Positions /\ p \in Nat /\ mr \in MRs
      /\ mr_input_vars \in Stores /\ Len(mt_body) \in Nat
      /\ mr \in meta_rel_decls("relations", meta_family_chain[p + 1])
  BY <1>2, StateFacts DEF IInv, TypeOK, Stores, ConcretizeMetaRelation, InTest, Positions,
                          meta_rel_choices
<1>4. mgi'.test_idx = mgi.test_idx /\ mgi'.first_decl = FALSE
  BY <1>3 DEF TypeOK, mrGenInfo
<1>5. /\ Linked(args, params, p, curr_mr_var_name)
      /\ Linked(after, params, p, Own)
  <2>1. mr_input_vars[p] # <<>> => Linked(mr_input_vars[p], params, p, Own)
    BY <1>3 DEF ChainInv
  <2> QED
    BY <2>1, <1>2, <1>3, ArgsLinked
<1>6. \A q \in Positions : mr_input_vars'[q] = IF q = p THEN after ELSE mr_input_vars[q]
  BY <1>2, <1>3 DEF Stores
<1> HIDE DEF after, params
<1>7. meta_call # 0
  BY <1>3 DEF CountInv, IInv, ControlInv
<1>8. \A m \in meta_rel_decls("relations", meta_family_chain[p + 1]) : MRInfo[m].params = params
  BY <1>3 DEF meta_rel_decls, SameParams, params
<1>9. ASSUME NEW q \in Positions, mr_input_vars'[q] # <<>>
      PROVE  \A m \in meta_rel_decls("relations", meta_family_chain[q + 1]) :
               Linked(mr_input_vars'[q], MRInfo[m].params, q, Own)
  <2>1. CASE q = p
    BY <2>1, <1>5, <1>6, <1>8
  <2>2. CASE q # p
    BY <2>2, <1>6, <1>9 DEF ChainInv
  <2> QED
    BY <2>1, <2>2
<1>10. ASSUME NEW n \in Reached(mt_body')
       PROVE  /\ mt_body'[n].decl = (n = 1)
              /\ Linked(mt_body'[n].args, mt_body'[n].params, n - 1, getMetaVarName(mgi.test_idx))
  <2>1. CASE n = Len(mt_body) + 1
    <3>1. /\ mt_body'[n].decl = mgi.first_decl /\ mt_body'[n].args = args
          /\ mt_body'[n].params = params /\ n - 1 = p
      BY <2>1, <1>2, <1>3 DEF params
    <3>2. mt_body'[n].decl = (n = 1)
      <4>1. mgi.first_decl = (p = 0)
        BY <1>3 DEF ChainInv
      <4>2. (p = 0) <=> (n = 1)
        BY <2>1, <1>2, <1>3
      <4> QED
        BY <3>1, <4>1, <4>2
    <3>3. Linked(args, params, p, getMetaVarName(mgi.test_idx))
      BY <1>5 DEF curr_mr_var_name
    <3> HIDE DEF p
    <3> QED
      BY <3>1, <3>2, <3>3
  <2>2. CASE n # Len(mt_body) + 1
    <3>1. n \in Reached(mt_body) /\ mt_body'[n] = mt_body[n]
      BY <2>2, <1>2, <1>3 DEF Reached
    <3> QED
      BY <3>1, <1>3 DEF ChainInv, LinkedTest
  <2> QED
    BY <2>1, <2>2
<1>11. LinkedTest(mt_body', mgi'.test_idx)
  BY <1>4, <1>10 DEF LinkedTest
<1> QED
  BY <1>3, <1>4, <1>7, <1>9, <1>11 DEF ChainInv

(* A check comes after the last position of the chain.                     *)
LEMMA CheckChainInv ==
  ASSUME IInv, ChainInv, ConcretizeCheck
  PROVE  ChainInv'
<1>1. /\ TypeOK /\ pc = "check" /\ InTest /\ InTest' /\ Len(mt_body) \in Nat
      /\ mgi' = [mgi EXCEPT !.family_idx = -1] /\ Len(mt_body) >= meta_test_rel_count
      /\ UNCHANGED <<pc, meta_call, meta_family_chain, meta_tests, mr_input_vars>>
  BY StateFacts DEF IInv, ControlInv, ConcretizeCheck, InTest
<1>2. /\ Len(mt_body') = Len(mt_body) + 1
      /\ \A n \in 1..Len(mt_body) : mt_body'[n] = mt_body[n]
  BY CheckStep
<1>3. mgi'.test_idx = mgi.test_idx
  BY <1>1 DEF TypeOK, mrGenInfo
<1>4. \A n \in Reached(mt_body') : n \in Reached(mt_body) /\ mt_body'[n] = mt_body[n]
  BY <1>1, <1>2, OptionAssumption DEF Reached
<1>5. LinkedTest(mt_body', mgi'.test_idx)
  BY <1>1, <1>3, <1>4 DEF ChainInv, LinkedTest
<1> QED
  BY <1>1, <1>5 DEF ChainInv

LEMMA NextChainInv ==
  ASSUME MetaCalls <= 1, SameParams, IInv, CountInv, ChainInv, [Next]_vars
  PROVE  ChainInv'
<1>1. /\ TypeOK /\ Len(meta_tests) \in Nat /\ meta_call \in Nat /\ Len(mt_body) \in Nat
  BY StateFacts, OptionAssumption DEF IInv, TypeOK
<1>2. CASE GenerateMetaTests
  <2>1. /\ meta_call = 0 /\ meta_call' = 1 /\ meta_tests' = <<>> /\ pc' = "next_test"
        /\ UNCHANGED mr_input_vars
    BY <1>1, <1>2, OptionAssumption DEF GenerateMetaTests
  <2>2. \A q \in Positions : mr_input_vars'[q] = <<>>
    BY <2>1 DEF ChainInv
  <2> QED
    BY <2>1, <2>2 DEF ChainInv, InTest
<1>3. CASE StartTest
  <2>1. /\ mt_body' = <<>> /\ mgi' = NewMGI(Len(meta_tests)) /\ pc' = "relation"
        /\ UNCHANGED <<meta_call, meta_family_chain, meta_tests, mr_input_vars>>
    BY <1>3 DEF StartTest
  <2>2. LinkedTest(mt_body', mgi'.test_idx)
    BY <2>1 DEF LinkedTest, Reached
  <2> QED
    BY <2>1, <2>2 DEF ChainInv, NewMGI
<1>4. CASE ReturnToChain
  <2>1. /\ pc = "recursion" /\ pc' \in {"relation", "check"} /\ mgi.family_idx \in Positions
        /\ mgi' = [mgi EXCEPT !.recursive_idx = @ + 1, !.family_idx = @ + 1]
        /\ UNCHANGED <<meta_call, meta_family_chain, meta_tests, mr_input_vars, mt_body>>
    BY <1>4 DEF ReturnToChain, IInv, ControlInv
  <2>2. /\ mgi'.test_idx = mgi.test_idx /\ mgi'.first_decl = mgi.first_decl
        /\ mgi'.family_idx # 0
    BY <1>1, <2>1 DEF TypeOK, mrGenInfo, Positions
  <2>3. mgi'.first_decl = (mgi'.family_idx = 0) /\ pc' # "recursion"
    <3>1. mgi'.first_decl = FALSE
      BY <1>1, <2>1, <2>2, MgiFacts DEF ChainInv
    <3> QED
      BY <3>1, <2>1, <2>2
  <2>4. LinkedTest(mt_body', mgi'.test_idx)
    BY <2>1, <2>2 DEF ChainInv, InTest
  <2>5. \A t \in 1..Len(meta_tests') : LinkedTest(meta_tests'[t], t - 1)
    BY <2>1 DEF ChainInv
  <2> QED
    BY <2>1, <2>3, <2>4, <2>5 DEF ChainInv
<1>5. CASE FinishTest
  <2>1. /\ LinkedTest(mt_body, mgi.test_idx) /\ mgi.test_idx = Len(meta_tests)
        /\ pc' = "next_test"
        /\ UNCHANGED <<meta_call, meta_family_chain, mr_input_vars>>
    BY <1>5 DEF FinishTest, ChainInv, IInv, ControlInv, InTest
  <2>2. /\ Len(meta_tests') = Len(meta_tests) + 1
        /\ \A t \in 1..Len(meta_tests) : meta_tests'[t] = meta_tests[t]
        /\ meta_tests'[Len(meta_tests) + 1] = mt_body
    BY <1>1, <1>5, FinishStep
  <2>3. ASSUME NEW t \in 1..Len(meta_tests') PROVE LinkedTest(meta_tests'[t], t - 1)
    <3>1. CASE t \in 1..Len(meta_tests)
      BY <3>1, <2>2 DEF ChainInv
    <3>2. CASE t = Len(meta_tests) + 1
      <4>1. meta_tests'[t] = mt_body /\ t - 1 = mgi.test_idx
        BY <3>2, <2>1, <2>2, <1>1
      <4> QED
        BY <4>1, <2>1
    <3> QED
      BY <3>1, <3>2, <2>2, <1>1
  <2> QED
    BY <2>1, <2>3 DEF ChainInv, InTest
<1>6. CASE ExpandPlaceholder \/ ReturnNested
  <2>1. /\ pc = "recursion" /\ mgi'.test_idx = mgi.test_idx /\ mgi'.first_decl = mgi.first_decl
        /\ UNCHANGED <<pc, meta_call, meta_family_chain, meta_tests, mr_input_vars, mt_body>>
    BY <1>1, <1>6 DEF ExpandPlaceholder, ReturnNested, TypeOK, mrGenInfo
  <2> QED
    BY <2>1 DEF ChainInv, InTest
<1>7. CASE AllExpanded \/ FamilyComplete \/ TooFewStored \/ NoMatchingDecl
  <2>1. /\ UNCHANGED <<meta_call, meta_family_chain, meta_tests, mr_input_vars, mt_body, mgi>>
        /\ pc' \notin {"relation", "recursion"} /\ (InTest' => InTest)
    BY <1>7 DEF AllExpanded, FamilyComplete, TooFewStored, NoMatchingDecl, InTest
  <2> QED
    BY <2>1 DEF ChainInv
<1>8. CASE UNCHANGED vars
  BY <1>8 DEF vars, ChainInv, InTest
<1> QED
  BY <1>2, <1>3, <1>4, <1>5, <1>6, <1>7, <1>8, RelationChainInv, CheckChainInv DEF Next

(* A statement whose arguments are linked names the variable of its own    *)
(* test, if it has a parameter for it, and no other.                       *)
LEMMA LinkedReads ==
  ASSUME NEW params \in Seq(ParamKind), NEW args, NEW n \in Nat \ {0}, NEW id \in Nat,
         id <= meta_test_count,
         Linked(args, params, n - 1, getMetaVarName(id))
  PROVE  /\ MetaVariablesOf(args) \subseteq (IF n = 1 THEN {} ELSE {id})
         /\ n > 1 /\ (\E k \in 1..Len(params) : params[k] = "meta")
              => MetaVariablesOf(args) = {id}
<1>1. \A a \in InputNames \cup Literals, i \in Nat : a # getMetaVarName(i)
  BY DEF InputNames, Literals, getMetaVarName, getMetaInputVarName
<1>2. \A i \in Nat : getMetaVarName(i) = getMetaVarName(id) => i = id
  BY DEF getMetaVarName
<1>3. Len(args) = Len(params) /\ Len(params) \in Nat
  BY DEF Linked
<1>4. ASSUME NEW i \in MetaVariablesOf(args) PROVE n # 1 /\ i = id
  <2>1. PICK k \in 1..Len(args) : args[k] = getMetaVarName(i)
    BY DEF MetaVariablesOf
  <2>2. i \in Nat
    BY OptionAssumption DEF MetaVariablesOf
  <2>3. TakesOwn(params, k, n - 1) /\ args[k] = getMetaVarName(id)
    BY <1>1, <1>3, <2>1, <2>2 DEF Linked
  <2>4. n # 1
    BY <2>3 DEF TakesOwn
  <2> QED
    BY <1>2, <2>1, <2>2, <2>3, <2>4
<1>5. ASSUME n > 1, NEW m \in 1..Len(params), params[m] = "meta"
      PROVE  id \in MetaVariablesOf(args)
  <2> DEFINE metas == {k \in 1..Len(params) : params[k] = "meta"}
  <2>1. PICK k \in metas : \A j \in metas : k <= j
    <3>1. metas \subseteq Nat /\ m \in metas
      BY <1>3, <1>5
    <3> HIDE DEF metas
    <3> QED
      BY <3>1, SmallestMember
  <2>2. TakesOwn(params, k, n - 1)
    BY <2>1, <1>3, <1>5 DEF TakesOwn
  <2>3. k \in 1..Len(args) /\ args[k] = getMetaVarName(id)
    BY <2>1, <2>2, <1>3 DEF Linked
  <2> QED
    BY <2>3, OptionAssumption DEF MetaVariablesOf
<1> QED
  BY <1>4, <1>5

(* In a template with one fuzz::meta_test() call, and a specification      *)
(* whose families have interchangeable relations, every variant is one     *)
(* chain through its own variable: each relation but the first continues   *)
(* from the result before it, and no relation reads the variable of        *)
(* another variant (makeMRFuncCall, first_decl).  With a second call the   *)
(* arguments stored for a relation of another family are read back.        *)
THEOREM VariantsChained ==
  ASSUME MetaCalls <= 1, SameParams
  PROVE  Spec => []ChainedThroughOwnVariable
<1>1. Init => ChainInv
  BY DEF Init, ChainInv, InTest
<1>2. IInv /\ CountInv /\ ChainInv => ChainedThroughOwnVariable
  <2> SUFFICES ASSUME IInv, CountInv, ChainInv,
                      NEW t \in 1..Len(Tests), NEW n \in Reached(Tests[t])
               PROVE  LET s == Tests[t][n]
                      IN /\ s.decl = (n = 1)
                         /\ MetaVariablesOf(s.args) \subseteq (IF n = 1 THEN {} ELSE {t - 1})
                         /\ n > 1 /\ (\E k \in 1..Len(s.params) : s.params[k] = "meta")
                              => MetaVariablesOf(s.args) = {t - 1}
    BY DEF ChainedThroughOwnVariable
  <2>1. /\ TypeOK /\ Len(meta_tests) \in Nat
    BY StateFacts DEF IInv
  <2>2. /\ Tests[t] \in Seq(Statement) /\ t - 1 \in Nat /\ t - 1 <= meta_test_count
        /\ LinkedTest(Tests[t], t - 1)
    <3>1. CASE InTest
      <4>1. /\ Len(Tests) = Len(meta_tests) + 1
            /\ \A i \in 1..Len(meta_tests) : Tests[i] = meta_tests[i]
            /\ Tests[Len(meta_tests) + 1] = mt_body
            /\ mgi.test_idx = Len(meta_tests) /\ LinkedTest(mt_body, mgi.test_idx)
            /\ mt_body \in Seq(Statement) /\ meta_tests \in Seq(Seq(Statement))
        BY <2>1, <3>1, StateFacts, AppendFacts DEF Tests, IInv, ControlInv, ChainInv
      <4>2. CASE t \in 1..Len(meta_tests)
        <5>1. Tests[t] = meta_tests[t] /\ t - 1 \in Nat
          BY <4>1, <4>2
        <5>2. meta_tests[t] \in Seq(Statement) /\ LinkedTest(meta_tests[t], t - 1)
          BY <4>1, <4>2 DEF ChainInv
        <5>3. t - 1 <= meta_test_count
          BY <4>2, <2>1, OptionAssumption DEF CountInv
        <5> QED
          BY <5>1, <5>2, <5>3
      <4>3. CASE t = Len(meta_tests) + 1
        <5>1. t - 1 = Len(meta_tests)
          BY <4>3, <2>1
        <5> QED
          BY <5>1, <4>1, <4>3, <2>1 DEF CountInv
      <4> QED
        BY <4>1, <4>2, <4>3, <2>1
    <3>2. CASE ~InTest
      BY <3>2, <2>1, StateFacts, OptionAssumption DEF Tests, CountInv, ChainInv
    <3> QED
      BY <3>1, <3>2
  <2>3. /\ n \in Nat \ {0} /\ Tests[t][n] \in Statement
        /\ Tests[t][n].decl = (n = 1)
        /\ Linked(Tests[t][n].args, Tests[t][n].params, n - 1, getMetaVarName(t - 1))
    BY <2>2 DEF Reached, LinkedTest
  <2>4. Tests[t][n].params \in Seq(ParamKind)
    BY <2>3 DEF Statement
  <2> QED
    BY <2>2, <2>3, <2>4, LinkedReads
<1> QED
  BY <1>1, <1>2, NextChainInv, Counted, PTL DEF Spec

(* Under the same hypotheses the arguments stored for a position are       *)
(* enough for every relation that can be drawn there, so that the          *)
(* assertion in makeMRFuncCall never fails.  The run two_calls_inputs      *)
(* shows it fail at the second fuzz::meta_test() call.                     *)
THEOREM StoredArgumentsAlwaysSuffice ==
  ASSUME MetaCalls <= 1, SameParams
  PROVE  Spec => []StoredArgumentsSuffice
<1>1. Init => ChainInv /\ StoredArgumentsSuffice
  BY DEF Init, ChainInv, InTest, StoredArgumentsSuffice
<1>2. ASSUME IInv, ChainInv PROVE ~TooFewStored
  <2>1. SUFFICES ASSUME pc = "relation", mr_input_vars[mgi.family_idx] # <<>>,
                        NEW mr \in meta_rel_choices
                 PROVE  ~(Len(MRInfo[mr].params) > Len(mr_input_vars[mgi.family_idx]))
    BY DEF TooFewStored
  <2>2. mgi.family_idx \in Positions /\ mr \in MRs
    BY <1>2, <2>1 DEF IInv, ControlInv, meta_rel_choices, meta_rel_decls
  <2>3. Len(mr_input_vars[mgi.family_idx]) = Len(MRInfo[mr].params)
    BY <1>2, <2>1, <2>2 DEF ChainInv, Linked, meta_rel_choices
  <2>4. Len(MRInfo[mr].params) \in Nat
    BY <2>2, DeclFacts
  <2> QED
    BY <2>3, <2>4
<1>3. IInv /\ ChainInv /\ StoredArgumentsSuffice /\ [Next]_vars => StoredArgumentsSuffice'
  <2> SUFFICES ASSUME IInv, ChainInv, pc # "abort", [Next]_vars PROVE pc' # "abort"
    BY DEF StoredArgumentsSuffice
  <2>1. ~TooFewStored
    BY <1>2
  <2>2. CASE Next
    BY <2>1, <2>2 DEF Next, GenerateMetaTests, AllExpanded, StartTest, FamilyComplete,
         ConcretizeMetaRelation, ExpandPlaceholder, NoMatchingDecl, ReturnNested,
         ReturnToChain, ConcretizeCheck, FinishTest
  <2>3. CASE UNCHANGED vars
    BY <2>3 DEF vars
  <2> QED
    BY <2>2, <2>3
<1> QED
  BY <1>1, <1>3, NextChainInv, Counted, PTL DEF Spec

-----------------------------------------------------------------------------
(***************************************************************************)
(* The generator implements Variants.                                      *)
(***************************************************************************)

(* The variant that a test stands for, and all of them.                    *)
Variant(test, id) ==
  [n \in Reached(test) |->
     [family |-> test[n].family, args |-> Abstracted(test[n].args, id)]]

FamilyVariants == [t \in 1..Len(Tests) |-> Variant(Tests[t], t - 1)]

(* How long a variant is, and what its relations are.                      *)
LEMMA VariantFacts ==
  ASSUME NEW test, Len(test) \in Nat, NEW id
  PROVE  /\ Len(test) >= meta_test_rel_count => Len(Variant(test, id)) = meta_test_rel_count
         /\ Len(test) <= meta_test_rel_count => Len(Variant(test, id)) = Len(test)
         /\ \A n \in Reached(test) :
              Variant(test, id)[n] =
                [family |-> test[n].family, args |-> Abstracted(test[n].args, id)]
<1>1. meta_test_rel_count \in Nat
  BY OptionAssumption
<1>2. ASSUME NEW m \in Nat, Reached(test) = 1..m
      PROVE  Len(Variant(test, id)) = m
  <2> DEFINE f == Variant(test, id)
  <2>1. f \in [1..m -> {f[n] : n \in 1..m}]
    BY <1>2 DEF Variant
  <2> QED
    BY <2>1, FunctionIsSeq
<1>3. Len(test) >= meta_test_rel_count => Reached(test) = 1..meta_test_rel_count
  BY <1>1 DEF Reached
<1>4. Len(test) <= meta_test_rel_count => Reached(test) = 1..Len(test)
  BY <1>1 DEF Reached
<1> QED
  BY <1>1, <1>2, <1>3, <1>4 DEF Variant

(* The tests, one by one.                                                  *)
LEMMA TestsFacts ==
  ASSUME TypeOK
  PROVE  /\ Len(Tests) \in Nat
         /\ Len(FamilyVariants) = Len(Tests)
         /\ \A t \in 1..Len(Tests) :
              FamilyVariants[t] = Variant(Tests[t], t - 1) /\ Len(Tests[t]) \in Nat
         /\ \A t \in 1..Len(meta_tests) : Tests[t] = meta_tests[t]
         /\ InTest => /\ Tests = Append(meta_tests, mt_body)
                      /\ Len(Tests) = Len(meta_tests) + 1
                      /\ Tests[Len(meta_tests) + 1] = mt_body
         /\ ~InTest => Tests = meta_tests
<1>1. /\ meta_tests \in Seq(Seq(Statement)) /\ mt_body \in Seq(Statement)
      /\ Len(meta_tests) \in Nat
  BY StateFacts
<1>2. /\ InTest => /\ Tests = Append(meta_tests, mt_body)
                   /\ Len(Tests) = Len(meta_tests) + 1
                   /\ Tests[Len(meta_tests) + 1] = mt_body
      /\ ~InTest => Tests = meta_tests
      /\ \A t \in 1..Len(meta_tests) : Tests[t] = meta_tests[t]
      /\ Tests \in Seq(Seq(Statement))
  BY <1>1, AppendFacts DEF Tests
<1>3. Len(Tests) \in Nat /\ \A t \in 1..Len(Tests) : Len(Tests[t]) \in Nat
  <2>1. \A t \in 1..Len(Tests) : Tests[t] \in Seq(Statement)
    BY <1>2
  <2> QED
    BY <1>2, <2>1
<1>4. FamilyVariants \in [1..Len(Tests) -> {FamilyVariants[t] : t \in 1..Len(Tests)}]
  BY DEF FamilyVariants
<1>5. Len(FamilyVariants) = Len(Tests)
  BY <1>3, <1>4, FunctionIsSeq
<1> QED
  BY <1>2, <1>3, <1>5 DEF FamilyVariants

(* A step that leaves the chain, and what each test stands for, is none of *)
(* the family's.                                                           *)
LEMMA SameTestsStutter ==
  ASSUME Tests' = Tests, UNCHANGED meta_family_chain
  PROVE  UNCHANGED Family!vars
BY DEF Family!vars

LEMMA StutterSimulation ==
  ASSUME IInv, \/ AllExpanded \/ FamilyComplete \/ TooFewStored \/ NoMatchingDecl
               \/ ExpandPlaceholder \/ ReturnNested \/ ReturnToChain \/ FinishTest
               \/ UNCHANGED vars
  PROVE  UNCHANGED Family!vars
<1>1. CASE \/ AllExpanded \/ FamilyComplete \/ TooFewStored \/ NoMatchingDecl
           \/ ExpandPlaceholder \/ ReturnNested \/ ReturnToChain \/ UNCHANGED vars
  <2>1. /\ UNCHANGED <<meta_family_chain, meta_tests, mt_body>>
        /\ InTest' = InTest
    BY <1>1 DEF AllExpanded, FamilyComplete, TooFewStored, NoMatchingDecl, ExpandPlaceholder,
                ReturnNested, ReturnToChain, vars, InTest
  <2>2. Tests' = Tests
    BY <2>1 DEF Tests
  <2> QED
    BY <2>1, <2>2, SameTestsStutter
<1>2. CASE FinishTest
  <2>1. /\ InTest /\ ~InTest' /\ meta_tests' = Append(meta_tests, mt_body)
        /\ UNCHANGED meta_family_chain
    BY <1>2 DEF FinishTest, InTest
  <2>2. Tests' = Tests
    BY <2>1 DEF Tests
  <2> QED
    BY <2>1, <2>2, SameTestsStutter
<1> QED
  BY <1>1, <1>2

(* The checks of a test are no part of its variant.                        *)
LEMMA CheckSimulation ==
  ASSUME IInv, ConcretizeCheck
  PROVE  UNCHANGED Family!vars
<1>1. /\ TypeOK /\ InTest /\ InTest' /\ TypeOK'
      /\ Len(mt_body) \in Nat /\ Len(mt_body) >= meta_test_rel_count
      /\ UNCHANGED <<meta_family_chain, meta_tests>> /\ Len(meta_tests) \in Nat
  BY StateFacts, NextIInv DEF IInv, ControlInv, ConcretizeCheck, InTest, Next
<1>2. /\ Len(mt_body') = Len(mt_body) + 1
      /\ \A n \in 1..Len(mt_body) : mt_body'[n] = mt_body[n]
  BY CheckStep
<1>3. /\ Reached(mt_body') = Reached(mt_body)
      /\ \A n \in Reached(mt_body) : mt_body'[n] = mt_body[n]
  BY <1>1, <1>2, OptionAssumption DEF Reached
<1>4. \A id : Variant(mt_body', id) = Variant(mt_body, id)
  BY <1>3 DEF Variant
<1>5. /\ Len(Tests) = Len(meta_tests) + 1 /\ Len(Tests') = Len(meta_tests) + 1
      /\ Tests[Len(meta_tests) + 1] = mt_body /\ Tests'[Len(meta_tests) + 1] = mt_body'
      /\ \A t \in 1..Len(meta_tests) : Tests[t] = meta_tests[t] /\ Tests'[t] = meta_tests[t]
  BY <1>1, StateFacts, AppendFacts DEF Tests, TypeOK
<1>6. \A t \in 1..Len(Tests) : Variant(Tests'[t], t - 1) = Variant(Tests[t], t - 1)
  BY <1>1, <1>4, <1>5
<1>7. FamilyVariants' = FamilyVariants
  BY <1>5, <1>6 DEF FamilyVariants
<1> QED
  BY <1>1, <1>7 DEF Family!vars, FamilyVariants, Variant

(* Every test is complete when it is not the unfinished one.               *)
LEMMA CompleteBetweenTests ==
  ASSUME IInv, CountInv, ~InTest
  PROVE  Family!AllComplete
<1>1. /\ TypeOK /\ Tests = meta_tests /\ Len(meta_tests) \in Nat
      /\ Len(FamilyVariants) = Len(meta_tests)
      /\ \A t \in 1..Len(meta_tests) :
           FamilyVariants[t] = Variant(meta_tests[t], t - 1) /\ Len(meta_tests[t]) \in Nat
  BY TestsFacts, StateFacts DEF IInv
<1>2. \A t \in 1..Len(FamilyVariants) : Len(FamilyVariants[t]) = meta_test_rel_count
  BY <1>1, VariantFacts DEF CountInv
<1> QED
  BY <1>2 DEF Family!AllComplete, FamilyVariants, Variant

LEMMA GenerateSimulation ==
  ASSUME IInv, CountInv, GenerateMetaTests
  PROVE  Family!FixChain
<1>1. /\ TypeOK /\ ~InTest /\ ~InTest' /\ meta_tests' = <<>>
      /\ meta_family_chain' \in [1..meta_test_rel_count -> meta_families]
      /\ meta_family_chain = <<>> \/ Len(meta_tests) = meta_test_count
  BY DEF GenerateMetaTests, InTest, CountInv, IInv
<1>2. Family!AllComplete
  BY <1>1, CompleteBetweenTests
<1>3. Len(FamilyVariants) = Len(meta_tests)
  BY <1>1, TestsFacts
<1>4. FamilyVariants' = <<>>
  <2>1. Tests' = <<>>
    BY <1>1 DEF Tests
  <2> QED
    BY <2>1 DEF FamilyVariants
<1> QED
  BY <1>1, <1>2, <1>3, <1>4 DEF Family!FixChain, FamilyVariants, Variant

LEMMA StartSimulation ==
  ASSUME IInv, CountInv, StartTest
  PROVE  Family!Begin
<1>1. /\ TypeOK /\ ~InTest /\ InTest' /\ mt_body' = <<>> /\ TypeOK'
      /\ UNCHANGED <<meta_family_chain, meta_tests>> /\ meta_family_chain # <<>>
      /\ Len(meta_tests) < meta_test_count /\ Len(meta_tests) \in Nat
  BY StateFacts, NextIInv DEF StartTest, InTest, CountInv, IInv, Next
<1>2. Family!AllComplete
  BY <1>1, CompleteBetweenTests
<1>3. /\ Len(FamilyVariants) = Len(meta_tests) /\ Tests = meta_tests
      /\ Tests' = Append(meta_tests, <<>>)
  BY <1>1, TestsFacts DEF Tests
<1>4. FamilyVariants' = Append(FamilyVariants, <<>>)
  <2>1. /\ Len(Tests') = Len(meta_tests) + 1 /\ Tests'[Len(meta_tests) + 1] = <<>>
        /\ \A t \in 1..Len(meta_tests) : Tests'[t] = Tests[t]
    BY <1>1, <1>3, StateFacts
  <2>2. \A id : Variant(<<>>, id) = <<>>
    BY OptionAssumption DEF Variant, Reached
  <2>3. FamilyVariants' = [t \in 1..(Len(meta_tests) + 1) |-> Variant(Tests'[t], t - 1)]
    BY <2>1 DEF FamilyVariants
  <2>4. /\ FamilyVariants = [t \in 1..Len(meta_tests) |-> Variant(Tests[t], t - 1)]
        /\ FamilyVariants = [t \in 1..Len(meta_tests) |-> FamilyVariants[t]]
    BY <1>3 DEF FamilyVariants
  <2>5. Append(FamilyVariants, <<>>) =
          [t \in 1..(Len(meta_tests) + 1) |->
             IF t = Len(meta_tests) + 1 THEN <<>> ELSE FamilyVariants[t]]
    BY <1>1, <2>4, AppendToFunction
  <2>6. ASSUME NEW t \in 1..(Len(meta_tests) + 1)
        PROVE  Variant(Tests'[t], t - 1) =
                 (IF t = Len(meta_tests) + 1 THEN <<>> ELSE FamilyVariants[t])
    BY <1>1, <2>1, <2>2, <2>4
  <2> QED
    BY <2>3, <2>5, <2>6
<1> QED
  BY <1>1, <1>2, <1>3, <1>4 DEF Family!Begin, FamilyVariants, Variant

(* What a relation is applied to is an argument list that can be stored.   *)
LEMMA StoredForRelation ==
  ASSUME TypeOK, mgi.family_idx \in Positions, NEW mr \in MRs,
         NEW args \in RelationArgs(MRInfo[mr].params, mr_input_vars[mgi.family_idx])
  PROVE  Abstracted(args, mgi.test_idx) \in StoredArguments
<1> DEFINE params == MRInfo[mr].params
           after == StoredAfter(params, args)
<1>1. params \in Seq(ParamKind) /\ Len(params) \in Nat
  BY DeclFacts
<1>2. /\ args \in Seq(Argument) /\ after \in Seq(StoredArgument)
      /\ Len(args) <= Len(after)
      /\ \A k \in 1..Len(args) : Abstracted(args, mgi.test_idx)[k] = after[k]
  BY <1>1, RelationArgsFacts
<1>3. Len(args) = Len(params)
  <2>1. CASE mr_input_vars[mgi.family_idx] = <<>>
    <3>1. args \in FreshArgs(params, mgi.family_idx, InputNames)
      BY <2>1 DEF RelationArgs
    <3> QED
      BY <3>1, <1>1, MgiFacts, FreshArgsFacts
  <2>2. CASE mr_input_vars[mgi.family_idx] # <<>>
    <3>1. args = [k \in 1..Len(params) |-> FromStored(mr_input_vars[mgi.family_idx][k])]
      BY <2>2 DEF RelationArgs
    <3> QED
      BY <3>1, <1>1
  <2> QED
    BY <2>1, <2>2
<1> HIDE DEF after
<1>4. \A k \in 1..Len(params) : Abstracted(args, mgi.test_idx)[k] \in StoredArgument
  <2>1. Len(after) \in Nat /\ \A k \in 1..Len(after) : after[k] \in StoredArgument
    BY <1>2
  <2>2. \A k \in 1..Len(params) : k \in 1..Len(after)
    BY <1>1, <1>2, <1>3, <2>1
  <2> QED
    BY <1>2, <1>3, <2>1, <2>2
<1>5. Abstracted(args, mgi.test_idx) \in [1..Len(params) -> StoredArgument]
  BY <1>3, <1>4 DEF Abstracted
<1> QED
  BY <1>5 DEF StoredArguments

(* The unfinished variant grows by the statement that is written.          *)
LEMMA VariantGrows ==
  ASSUME NEW test, NEW longer, Len(test) \in Nat, Len(test) < meta_test_rel_count,
         Len(longer) = Len(test) + 1,
         \A n \in 1..Len(test) : longer[n] = test[n],
         NEW id
  PROVE  Variant(longer, id) =
           Append(Variant(test, id),
                  [family |-> longer[Len(test) + 1].family,
                   args |-> Abstracted(longer[Len(test) + 1].args, id)])
<1> DEFINE n == Len(test)
           new == [family |-> longer[n + 1].family, args |-> Abstracted(longer[n + 1].args, id)]
<1>1. Reached(test) = 1..n /\ Reached(longer) = 1..(n + 1)
  BY OptionAssumption DEF Reached
<1>2. /\ Variant(test, id) = [i \in 1..n |-> Variant(test, id)[i]]
      /\ \A i \in 1..n : Variant(test, id)[i] =
           [family |-> longer[i].family, args |-> Abstracted(longer[i].args, id)]
  BY <1>1 DEF Variant
<1>3. Variant(longer, id) =
        [i \in 1..(n + 1) |->
           [family |-> longer[i].family, args |-> Abstracted(longer[i].args, id)]]
  BY <1>1 DEF Variant
<1> HIDE DEF new
<1>4. Append(Variant(test, id), new) =
        [i \in 1..(n + 1) |-> IF i = n + 1 THEN new ELSE Variant(test, id)[i]]
  BY <1>2, AppendToFunction
<1>5. ASSUME NEW i \in 1..(n + 1)
      PROVE  [family |-> longer[i].family, args |-> Abstracted(longer[i].args, id)] =
               (IF i = n + 1 THEN new ELSE Variant(test, id)[i])
  <2>1. CASE i = n + 1
    BY <2>1 DEF new
  <2>2. CASE i # n + 1
    <3>1. i \in 1..n
      BY <2>2
    <3> QED
      BY <3>1, <2>2, <1>2
  <2> QED
    BY <2>1, <2>2
<1>6. Variant(longer, id) = Append(Variant(test, id), new)
  BY <1>3, <1>4, <1>5
<1> QED
  BY <1>6 DEF new

LEMMA RelationSimulation ==
  ASSUME IInv, CountInv, ConcretizeMetaRelation
  PROVE  Family!Apply
<1>1. PICK mr \in meta_rel_choices :
        \E args \in RelationArgs(MRInfo[mr].params, mr_input_vars[mgi.family_idx]) :
          /\ mr \in MRs
          /\ mgi.family_idx \in Positions /\ Len(mt_body) = mgi.family_idx
          /\ Len(mt_body') = Len(mt_body) + 1
          /\ \A n \in 1..Len(mt_body) : mt_body'[n] = mt_body[n]
          /\ mt_body'[Len(mt_body) + 1] =
               [family |-> MRInfo[mr].family, params |-> MRInfo[mr].params,
                callee |-> makeUniqueFuncCallName(mr, mgi.recursive_idx),
                decl |-> mgi.first_decl, args |-> args]
  BY RelationStep
<1>2. PICK args \in RelationArgs(MRInfo[mr].params, mr_input_vars[mgi.family_idx]) :
          /\ mr \in MRs
          /\ mgi.family_idx \in Positions /\ Len(mt_body) = mgi.family_idx
          /\ Len(mt_body') = Len(mt_body) + 1
          /\ \A n \in 1..Len(mt_body) : mt_body'[n] = mt_body[n]
          /\ mt_body'[Len(mt_body) + 1] =
               [family |-> MRInfo[mr].family, params |-> MRInfo[mr].params,
                callee |-> makeUniqueFuncCallName(mr, mgi.recursive_idx),
                decl |-> mgi.first_decl, args |-> args]
  BY <1>1
<1> DEFINE n == Len(mt_body) + 1
           last == Len(meta_tests) + 1
           id == mgi.test_idx
           passed == Abstracted(args, id)
           new == [family |-> meta_family_chain[n], args |-> passed]
<1>3. /\ TypeOK /\ TypeOK' /\ IInv' /\ InTest /\ InTest'
      /\ UNCHANGED <<meta_family_chain, meta_tests>>
      /\ Len(mt_body) \in Nat /\ Len(mt_body) < meta_test_rel_count
      /\ Len(meta_tests) \in Nat /\ id = Len(meta_tests) /\ id' = id
  <2>1. Len(mt_body) \in Nat /\ Len(mt_body) < meta_test_rel_count
    BY <1>2, OptionAssumption DEF Positions
  <2>2. IInv' /\ TypeOK' /\ TypeOK
    BY NextIInv DEF Next, IInv
  <2>3. /\ InTest /\ InTest' /\ UNCHANGED <<meta_family_chain, meta_tests>>
        /\ mgi' = [mgi EXCEPT !.first_decl = FALSE]
    BY DEF ConcretizeMetaRelation, InTest
  <2> QED
    BY <2>1, <2>2, <2>3, StateFacts DEF IInv, ControlInv, TypeOK, mrGenInfo
<1>4. /\ Len(FamilyVariants) = last
      /\ FamilyVariants = [t \in 1..last |-> Variant(Tests[t], t - 1)]
      /\ FamilyVariants' = [t \in 1..last |-> Variant(Tests'[t], t - 1)]
      /\ \A t \in 1..Len(meta_tests) : Tests[t] = meta_tests[t] /\ Tests'[t] = meta_tests[t]
      /\ Tests[last] = mt_body /\ Tests'[last] = mt_body'
  <2>1. /\ Len(Tests) = last /\ Len(Tests') = last
        /\ Tests[last] = mt_body /\ Tests'[last] = mt_body'
        /\ \A t \in 1..Len(meta_tests) : Tests[t] = meta_tests[t] /\ Tests'[t] = meta_tests[t]
    BY <1>3, StateFacts, AppendFacts DEF Tests, TypeOK
  <2> QED
    BY <2>1, <1>3, TestsFacts DEF FamilyVariants
<1>5. Len(FamilyVariants[last]) + 1 = n /\ FamilyVariants[last] = Variant(mt_body, id)
  <2>1. last \in 1..last /\ last - 1 = id
    BY <1>3
  <2>2. FamilyVariants[last] = Variant(mt_body, id)
    BY <2>1, <1>4
  <2>3. Len(Variant(mt_body, id)) = Len(mt_body)
    BY <1>3, VariantFacts, OptionAssumption
  <2> QED
    BY <2>2, <2>3
<1>6. MRInfo[mr].family = meta_family_chain[n]
  BY <1>2 DEF meta_rel_choices, meta_rel_decls
<1>7. Variant(mt_body', id) = Append(Variant(mt_body, id), new)
  <2>1. /\ mt_body'[n].family = meta_family_chain[n]
        /\ mt_body'[n].args = args
    BY <1>2, <1>6
  <2>2. Variant(mt_body', id) =
          Append(Variant(mt_body, id),
                 [family |-> mt_body'[n].family, args |-> Abstracted(mt_body'[n].args, id)])
    BY <1>2, <1>3, VariantGrows
  <2> QED
    BY <2>1, <2>2
<1>8. passed \in StoredArguments
  BY <1>2, <1>3, StoredForRelation
<1>9. ASSUME NEW t \in 1..(last - 1)
      PROVE  Family!Agree(passed, FamilyVariants[t][n].args)
  <2>1. n \in Reached(meta_tests[t]) /\ t \in 1..Len(meta_tests)
    BY <1>3, OptionAssumption DEF CountInv, Reached
  <2>2. FamilyVariants[t][n].args = Abstracted(meta_tests[t][n].args, t - 1)
    BY <2>1, <1>4 DEF Variant
  <2>3. /\ Fits(mr_input_vars', meta_tests[t], t - 1)
        /\ Fits(mr_input_vars', mt_body', id)
    BY <2>1, <1>3 DEF IInv, StoredInv
  <2>4. n \in Reached(mt_body') /\ mt_body'[n].args = args
    <3>1. n \in 1..Len(mt_body') /\ n <= meta_test_rel_count
      BY <1>2, <1>3, OptionAssumption
    <3> QED
      BY <3>1, <1>2 DEF Reached
  <2>5. /\ \A k \in 1..Len(args) : passed[k] = mr_input_vars'[n - 1][k]
        /\ \A k \in 1..Len(meta_tests[t][n].args) :
             Abstracted(meta_tests[t][n].args, t - 1)[k] = mr_input_vars'[n - 1][k]
    BY <2>1, <2>3, <2>4 DEF Fits
  <2>6. /\ Len(args) \in Nat /\ Len(passed) = Len(args)
    BY <1>2, <1>3, DeclFacts, RelationArgsFacts DEF Abstracted
  <2>7. /\ Len(meta_tests[t][n].args) \in Nat
        /\ Len(Abstracted(meta_tests[t][n].args, t - 1)) = Len(meta_tests[t][n].args)
    <3>1. meta_tests[t] \in Seq(Statement) /\ n \in 1..Len(meta_tests[t])
      BY <2>1, <1>3, StateFacts DEF Reached
    <3>2. meta_tests[t][n] \in Statement
      BY <3>1
    <3>3. meta_tests[t][n].args \in Seq(Argument)
      BY <3>2 DEF Statement
    <3> QED
      BY <3>3 DEF Abstracted
  <2> HIDE DEF passed
  <2> QED
    BY <2>2, <2>5, <2>6, <2>7 DEF Family!Agree
<1> HIDE DEF passed, new
<1>10. FamilyVariants' = [FamilyVariants EXCEPT ![last] = Append(@, new)]
  <2>1. [FamilyVariants EXCEPT ![last] = Append(@, new)] =
          [t \in 1..last |-> IF t = last THEN Append(FamilyVariants[last], new)
                             ELSE FamilyVariants[t]]
    BY <1>3, <1>4
  <2>2. ASSUME NEW t \in 1..last
        PROVE  Variant(Tests'[t], t - 1) =
                 (IF t = last THEN Append(FamilyVariants[last], new) ELSE FamilyVariants[t])
    <3>1. CASE t = last
      BY <3>1, <1>3, <1>4, <1>5, <1>7
    <3>2. CASE t # last
      <4>1. t \in 1..Len(meta_tests)
        BY <3>2, <1>3
      <4> QED
        BY <4>1, <3>2, <1>4
    <3> QED
      BY <3>1, <3>2
  <2> QED
    BY <2>1, <2>2, <1>4
<1>11. FamilyVariants # <<>>
  <2>1. Len(<<>>) = 0
    OBVIOUS
  <2> QED
    BY <2>1, <1>3, <1>4
<1> HIDE DEF FamilyVariants, n, last
<1>12. /\ FamilyVariants # <<>>
       /\ n <= meta_test_rel_count
       /\ \E a \in StoredArguments :
            /\ \A t \in 1..(Len(FamilyVariants) - 1) : Family!Agree(a, FamilyVariants[t][n].args)
            /\ FamilyVariants' = [FamilyVariants EXCEPT ![Len(FamilyVariants)] =
                 Append(@, [family |-> meta_family_chain[n], args |-> a])]
  <2>1. n <= meta_test_rel_count
    BY <1>3, OptionAssumption DEF n
  <2> QED
    BY <2>1, <1>4, <1>8, <1>9, <1>10, <1>11 DEF new
<1>13. n = Len(FamilyVariants[Len(FamilyVariants)]) + 1
  BY <1>4, <1>5
<1> QED
  BY <1>3, <1>12, <1>13 DEF Family!Apply, FamilyVariants, Variant

(* The generator, seen through the variants it writes, does nothing but    *)
(* what Variants allows: whatever relations it picks, however it fills     *)
(* their placeholders and remembers their arguments, and however many      *)
(* fuzz::meta_test() calls there are.                                      *)
THEOREM GeneratorImplementsVariants == Spec => ImplementsVariants
<1>1. Init => Family!Init
  <2> SUFFICES ASSUME Init PROVE Family!Init
    OBVIOUS
  <2>1. meta_family_chain = <<>> /\ Tests = <<>>
    BY DEF Init, Tests, InTest
  <2> QED
    BY <2>1 DEF Family!Init
<1>2. IInv /\ CountInv /\ [Next]_vars => [Family!Next]_Family!vars
  <2> SUFFICES ASSUME IInv, CountInv, [Next]_vars PROVE [Family!Next]_Family!vars
    OBVIOUS
  <2>1. CASE GenerateMetaTests
    BY <2>1, GenerateSimulation DEF Family!Next
  <2>2. CASE StartTest
    BY <2>2, StartSimulation DEF Family!Next
  <2>3. CASE ConcretizeMetaRelation
    BY <2>3, RelationSimulation DEF Family!Next
  <2>4. CASE ConcretizeCheck
    BY <2>4, CheckSimulation
  <2>5. CASE \/ AllExpanded \/ FamilyComplete \/ TooFewStored \/ NoMatchingDecl
             \/ ExpandPlaceholder \/ ReturnNested \/ ReturnToChain \/ FinishTest
             \/ UNCHANGED vars
    BY <2>5, StutterSimulation
  <2> QED
    BY <2>1, <2>2, <2>3, <2>4, <2>5 DEF Next
<1> QED
  BY <1>1, <1>2, Counted, PTL DEF Spec, ImplementsVariants, Family!Spec
=============================================================================
