--------------------------- MODULE MetaTestsProofs ---------------------------
(***************************************************************************)
(* Proofs about the metamorphic test generator, for every specification,   *)
(* every number of tests and relations, and every depth.                   *)
(***************************************************************************)
EXTENDS MetaTests, SequenceTheorems, TLAPS

-----------------------------------------------------------------------------
(***************************************************************************)
(* Sequences.                                                              *)
(***************************************************************************)

(* A function on 1..n is a sequence of length n.                           *)
LEMMA FunctionIsSeq ==
  ASSUME NEW S, NEW n \in Nat, NEW f \in [1..n -> S]
  PROVE  f \in Seq(S) /\ Len(f) = n
OBVIOUS

(* What Append does to length and elements.                                *)
LEMMA AppendFacts ==
  ASSUME NEW S, NEW s \in Seq(S), NEW e \in S
  PROVE  /\ Append(s, e) \in Seq(S)
         /\ Len(Append(s, e)) = Len(s) + 1
         /\ \A i \in 1..Len(s) : Append(s, e)[i] = s[i]
         /\ Append(s, e)[Len(s) + 1] = e
         /\ Append(s, e) # <<>>
OBVIOUS

-----------------------------------------------------------------------------
(***************************************************************************)
(* The constants and the argument lists makeMRFuncCall builds.             *)
(***************************************************************************)

(* What is known of a logged relation.                                     *)
LEMMA DeclFacts ==
  ASSUME NEW mr \in MRs
  PROVE  /\ MRInfo[mr] \in MRDecl
         /\ MRInfo[mr].params \in Seq(ParamKind)
         /\ MRInfo[mr].recursive_calls \in Seq(Placeholder)
         /\ MRInfo[mr].family \in STRING
         /\ MRInfo[mr].name \in STRING
         /\ mr \in STRING
BY SpecAssumption DEF MRDecl

(* The fields of mgi.                                                      *)
LEMMA MgiFacts ==
  ASSUME TypeOK
  PROVE  /\ mgi.test_idx \in Nat
         /\ mgi.family_idx \in Int
         /\ mgi.recursive_idx \in Nat
         /\ mgi.depth \in Nat
         /\ mgi.first_decl \in BOOLEAN
BY DEF TypeOK, mrGenInfo

(* A fresh argument list has one argument per parameter.                   *)
LEMMA FreshArgsFacts ==
  ASSUME NEW params \in Seq(ParamKind), NEW family_idx \in Int,
         NEW names, NEW args \in FreshArgs(params, family_idx, names)
  PROVE  /\ args \in Seq(names \cup Literals \cup {curr_mr_var_name})
         /\ Len(args) = Len(params)
<1> DEFINE S == names \cup Literals \cup {curr_mr_var_name}
<1>1. Len(params) \in Nat
  OBVIOUS
<1>2. \A k \in 1..Len(params) : ArgChoices(params, k, family_idx, names) \subseteq S
  BY DEF ArgChoices
<1>3. args \in [1..Len(params) -> S]
  BY <1>2 DEF FreshArgs
<1> QED
  BY <1>1, <1>3, FunctionIsSeq

(* The markers and names that arguments are made of cannot be confused.    *)
LEMMA NamesDiffer ==
  ASSUME NEW id \in Nat
  PROVE  /\ Own # getMetaVarName(id)
         /\ getMetaVarName(id) \notin StoredArgument
         /\ getMetaVarName(id) \in Argument
         /\ Own \in StoredArgument
         /\ StoredArgument \subseteq Argument
BY DEF Own, getMetaVarName, StoredArgument, Argument, InputNames, Literals, getMetaInputVarName

(* What position family_idx holds after a relation is called with args.    *)
StoredAfter(params, args) ==
  IF mr_input_vars[mgi.family_idx] = <<>>
  THEN [k \in 1..Len(params) |-> ToStored(args[k])]
  ELSE mr_input_vars[mgi.family_idx]

(* The arguments of a relation are well-typed, and they are the first of   *)
(* those stored for its position: they were stored just now, or read back. *)
LEMMA RelationArgsFacts ==
  ASSUME TypeOK, mgi.family_idx \in Positions,
         NEW params \in Seq(ParamKind),
         NEW args \in RelationArgs(params, mr_input_vars[mgi.family_idx])
  PROVE  /\ args \in Seq(Argument)
         /\ StoredAfter(params, args) \in Seq(StoredArgument)
         /\ Len(args) <= Len(StoredAfter(params, args))
         /\ \A k \in 1..Len(args) :
              Abstracted(args, mgi.test_idx)[k] = StoredAfter(params, args)[k]
<1> DEFINE stored == mr_input_vars[mgi.family_idx]
<1>1. /\ stored \in Seq(StoredArgument)
      /\ mgi.family_idx \in Int
      /\ mgi.test_idx \in Nat
  BY MgiFacts DEF TypeOK
<1>2. /\ curr_mr_var_name = getMetaVarName(mgi.test_idx)
      /\ Own # curr_mr_var_name
      /\ curr_mr_var_name \notin StoredArgument
      /\ curr_mr_var_name \in Argument
      /\ Own \in StoredArgument
      /\ StoredArgument \subseteq Argument
  BY <1>1, NamesDiffer DEF curr_mr_var_name
<1>3. Len(params) \in Nat
  OBVIOUS
<1>4. CASE stored = <<>>
  <2>1. args \in FreshArgs(params, mgi.family_idx, InputNames)
    BY <1>4 DEF RelationArgs
  <2>2. /\ args \in Seq(InputNames \cup Literals \cup {curr_mr_var_name})
        /\ Len(args) = Len(params)
    BY <2>1, <1>1, FreshArgsFacts
  <2>3. \A k \in 1..Len(args) :
          args[k] \in Argument /\ ToStored(args[k]) \in StoredArgument
    BY <2>2, <1>2 DEF ToStored, StoredArgument
  <2>4. StoredAfter(params, args) = [k \in 1..Len(params) |-> ToStored(args[k])]
    BY <1>4 DEF StoredAfter
  <2>5. StoredAfter(params, args) \in [1..Len(params) -> StoredArgument]
    BY <2>2, <2>3, <2>4
  <2>6. /\ StoredAfter(params, args) \in Seq(StoredArgument)
        /\ Len(StoredAfter(params, args)) = Len(params)
    BY <2>5, <1>3, FunctionIsSeq
  <2>7. args \in [1..Len(params) -> Argument]
    BY <2>2, <2>3
  <2>8. args \in Seq(Argument)
    BY <2>7, <1>3, FunctionIsSeq
  <2>9. \A k \in 1..Len(args) :
          Abstracted(args, mgi.test_idx)[k] = StoredAfter(params, args)[k]
    BY <2>2, <2>4, <1>2 DEF Abstracted, ToStored
  <2> QED
    BY <2>2, <2>6, <2>8, <2>9, <1>3
<1>5. CASE stored # <<>>
  <2>1. /\ Len(params) <= Len(stored)
        /\ args = [k \in 1..Len(params) |-> FromStored(stored[k])]
    BY <1>5 DEF RelationArgs
  <2>2. \A k \in 1..Len(params) : stored[k] \in StoredArgument
    BY <2>1, <1>1, <1>3
  <2>3. args \in [1..Len(params) -> Argument]
    BY <2>1, <2>2, <1>2 DEF FromStored
  <2>4. args \in Seq(Argument) /\ Len(args) = Len(params)
    BY <2>3, <1>3, FunctionIsSeq
  <2>5. StoredAfter(params, args) = stored
    BY <1>5 DEF StoredAfter
  <2>6. \A k \in 1..Len(args) :
          Abstracted(args, mgi.test_idx)[k] = StoredAfter(params, args)[k]
    BY <2>1, <2>2, <2>4, <2>5, <1>2 DEF Abstracted, FromStored
  <2> QED
    BY <2>1, <2>4, <2>5, <2>6, <1>1
<1> QED
  BY <1>4, <1>5

(* The arguments of a check are well-typed.                                *)
LEMMA CheckArgsFacts ==
  ASSUME TypeOK, NEW params \in Seq(ParamKind),
         NEW args \in FreshArgs(params, -1, {getMetaVarName(0)})
  PROVE  args \in Seq(Argument)
<1>1. args \in Seq({getMetaVarName(0)} \cup Literals \cup {curr_mr_var_name})
  BY FreshArgsFacts
<1>2. /\ getMetaVarName(0) \in Argument
      /\ curr_mr_var_name \in Argument
      /\ Literals \subseteq Argument
  BY NamesDiffer, MgiFacts DEF curr_mr_var_name, StoredArgument, Argument
<1> QED
  BY <1>1, <1>2, SeqMonotonic

(* The names calls are written with.                                       *)
LEMMA CallNameFacts ==
  ASSUME TypeOK, NEW mr \in MRs, NEW idx \in Nat
  PROVE  makeUniqueFuncCallName(mr, idx) \in FuncName
BY DeclFacts, MgiFacts DEF makeUniqueFuncCallName, Qualified, FuncName

-----------------------------------------------------------------------------
(***************************************************************************)
(* The inductive invariant.                                                *)
(***************************************************************************)

Stores == [Positions -> Seq(StoredArgument)]

(* A test that fits what is stored still does when a position that was     *)
(* empty is filled.                                                        *)
LEMMA FitsMonotonic ==
  ASSUME NEW before \in Stores, NEW after \in Stores,
         \A p \in Positions : before[p] # <<>> => after[p] = before[p],
         NEW test \in Seq(Statement), NEW id \in Nat, Fits(before, test, id)
  PROVE  Fits(after, test, id)
<1> SUFFICES ASSUME NEW n \in Reached(test)
             PROVE  /\ Len(test[n].args) <= Len(after[n - 1])
                    /\ \A k \in 1..Len(test[n].args) :
                         Abstracted(test[n].args, id)[k] = after[n - 1][k]
  BY DEF Fits
<1>1. n - 1 \in Positions
  BY OptionAssumption DEF Reached, Positions
<1>2. /\ before[n - 1] \in Seq(StoredArgument)
      /\ after[n - 1] \in Seq(StoredArgument)
  BY <1>1 DEF Stores
<1>3. /\ Len(test[n].args) <= Len(before[n - 1])
      /\ \A k \in 1..Len(test[n].args) :
           Abstracted(test[n].args, id)[k] = before[n - 1][k]
  BY DEF Fits
<1>4. test[n].args \in Seq(Argument)
  <2>1. n \in 1..Len(test)
    BY DEF Reached
  <2>2. test[n] \in Statement
    BY <2>1
  <2> QED
    BY <2>2 DEF Statement
<1>5. CASE before[n - 1] = <<>>
  BY <1>2, <1>3, <1>4, <1>5
<1>6. CASE before[n - 1] # <<>>
  BY <1>1, <1>3, <1>6
<1> QED
  BY <1>5, <1>6

(* The invariant holds before the first fuzz::meta_test() call.            *)
LEMMA InitIInv == Init => IInv
<1> SUFFICES ASSUME Init PROVE IInv
  OBVIOUS
<1>1. TypeOK
  BY OptionAssumption DEF Init, TypeOK, NewMGI, mrGenInfo
<1>2. ControlInv
  BY DEF Init, ControlInv, InTest
<1>3. DepthInv
  BY DEF Init, DepthInv, NewMGI
<1>4. StoredInv
  BY DEF Init, StoredInv, InTest
<1> QED
  BY <1>1, <1>2, <1>3, <1>4 DEF IInv

(* A new call, and a new test, start with nothing to compare.              *)
LEMMA GenerateMetaTestsIInv == IInv /\ GenerateMetaTests => IInv'
<1> SUFFICES ASSUME IInv, GenerateMetaTests PROVE IInv'
  OBVIOUS
<1> USE DEF IInv, GenerateMetaTests
<1>1. /\ meta_family_chain' \in Seq(meta_families)
      /\ Len(meta_family_chain') = meta_test_rel_count
  BY OptionAssumption, FunctionIsSeq
<1>2. TypeOK'
  BY <1>1, OptionAssumption DEF TypeOK
<1>3. ControlInv'
  BY <1>1 DEF ControlInv, InTest
<1>4. DepthInv'
  BY DEF DepthInv
<1>5. StoredInv'
  BY DEF StoredInv, InTest
<1> QED
  BY <1>2, <1>3, <1>4, <1>5

LEMMA StartTestIInv == IInv /\ StartTest => IInv'
<1> SUFFICES ASSUME IInv, StartTest PROVE IInv'
  OBVIOUS
<1> USE DEF IInv, StartTest
<1>1. Len(meta_tests) \in Nat
  BY DEF TypeOK
<1>2. TypeOK'
  BY <1>1 DEF TypeOK, NewMGI, mrGenInfo
<1>3. ControlInv'
  BY OptionAssumption DEF ControlInv, InTest, NewMGI, Positions
<1>4. DepthInv'
  BY DEF DepthInv, ControlInv, NewMGI
<1>5. StoredInv'
  <2>1. Fits(mr_input_vars', mt_body', mgi'.test_idx)
    BY DEF Fits, Reached
  <2>2. \A t \in 1..Len(meta_tests') : Fits(mr_input_vars', meta_tests'[t], t - 1)
    BY DEF StoredInv
  <2> QED
    BY <2>1, <2>2 DEF StoredInv
<1> QED
  BY <1>2, <1>3, <1>4, <1>5

(* A finished test joins the others as it stands.                          *)
LEMMA FinishTestIInv == IInv /\ FinishTest => IInv'
<1> SUFFICES ASSUME IInv, FinishTest PROVE IInv'
  OBVIOUS
<1> USE DEF IInv, FinishTest
<1>1. /\ meta_tests \in Seq(Seq(Statement))
      /\ mt_body \in Seq(Statement)
  BY DEF TypeOK
<1>2. /\ meta_tests' \in Seq(Seq(Statement))
      /\ Len(meta_tests') = Len(meta_tests) + 1
      /\ \A t \in 1..Len(meta_tests) : meta_tests'[t] = meta_tests[t]
      /\ meta_tests'[Len(meta_tests) + 1] = mt_body
  BY <1>1, AppendFacts
<1>3. TypeOK'
  BY <1>2 DEF TypeOK
<1>4. ControlInv'
  BY DEF ControlInv, InTest
<1>5. DepthInv'
  BY DEF DepthInv
<1>6. StoredInv'
  <2>1. /\ mgi.test_idx = Len(meta_tests)
        /\ Fits(mr_input_vars, mt_body, mgi.test_idx)
        /\ \A t \in 1..Len(meta_tests) : Fits(mr_input_vars, meta_tests[t], t - 1)
    BY DEF ControlInv, StoredInv, InTest
  <2>2. ASSUME NEW t \in 1..Len(meta_tests')
        PROVE  Fits(mr_input_vars', meta_tests'[t], t - 1)
    BY <2>1, <1>1, <1>2
  <2>3. ~InTest'
    BY DEF InTest
  <2> QED
    BY <2>2, <2>3 DEF StoredInv
<1> QED
  BY <1>3, <1>4, <1>5, <1>6

(* The steps that only move on, or stop the tool, keep it.                 *)
LEMMA ControlStepIInv ==
  IInv /\ (AllExpanded \/ FamilyComplete \/ TooFewStored \/ NoMatchingDecl) => IInv'
<1> SUFFICES ASSUME IInv, AllExpanded \/ FamilyComplete \/ TooFewStored \/ NoMatchingDecl
             PROVE  IInv'
  OBVIOUS
<1> USE DEF IInv, AllExpanded, FamilyComplete, TooFewStored, NoMatchingDecl
<1>1. TypeOK'
  BY DEF TypeOK
<1>2. ControlInv'
  BY DEF ControlInv, InTest
<1>3. DepthInv'
  BY DEF DepthInv
<1>4. StoredInv'
  BY DEF StoredInv, InTest
<1> QED
  BY <1>1, <1>2, <1>3, <1>4

(* The step that stores arguments: the tests already there still fit, and  *)
(* the statement it adds uses what is stored now.                          *)
LEMMA ConcretizeMetaRelationIInv == IInv /\ ConcretizeMetaRelation => IInv'
<1> SUFFICES ASSUME IInv, ConcretizeMetaRelation PROVE IInv'
  OBVIOUS
<1> USE DEF IInv
<1>1. /\ pc = "relation" /\ pc' = "recursion"
      /\ mgi' = [mgi EXCEPT !.first_decl = FALSE]
      /\ UNCHANGED <<prune_option, meta_call, meta_family_chain, meta_tests, funcs>>
  BY DEF ConcretizeMetaRelation
<1>2. /\ TypeOK /\ ControlInv /\ DepthInv /\ StoredInv
      /\ mgi.family_idx \in Positions
      /\ mgi.family_idx \in Nat
      /\ Len(mt_body) = mgi.family_idx
      /\ mgi.test_idx = Len(meta_tests)
      /\ stack = <<>>
  BY <1>1 DEF ControlInv, InTest, Positions
<1> DEFINE params(mr) == MRInfo[mr].params
           name(mr) == makeUniqueFuncCallName(mr, mgi.recursive_idx)
           statement(mr, args) ==
             [family |-> MRInfo[mr].family, params |-> params(mr), callee |-> name(mr),
              decl |-> mgi.first_decl, args |-> args]
           Step(mr, args) ==
             /\ mt_body' = Append(mt_body, statement(mr, args))
             /\ mr_input_vars' =
                  IF mr_input_vars[mgi.family_idx] = <<>>
                  THEN [mr_input_vars EXCEPT ![mgi.family_idx] =
                          [k \in 1..Len(params(mr)) |-> ToStored(args[k])]]
                  ELSE mr_input_vars
             /\ stack' = <<Frame(mr, name(mr))>>
<1>pick. PICK mr \in MRs :
        \E args \in RelationArgs(MRInfo[mr].params, mr_input_vars[mgi.family_idx]) : Step(mr, args)
  BY DEF ConcretizeMetaRelation, meta_rel_choices, meta_rel_decls
<1>3. PICK args \in RelationArgs(MRInfo[mr].params, mr_input_vars[mgi.family_idx]) : Step(mr, args)
  BY <1>pick
<1>4. /\ params(mr) \in Seq(ParamKind)
      /\ MRInfo[mr].family \in STRING
  BY DeclFacts
<1> DEFINE after == StoredAfter(params(mr), args)
<1>5. /\ args \in Seq(Argument)
      /\ after \in Seq(StoredArgument)
      /\ Len(args) <= Len(after)
      /\ \A k \in 1..Len(args) : Abstracted(args, mgi.test_idx)[k] = after[k]
  BY <1>2, <1>4, RelationArgsFacts
<1>6. name(mr) \in FuncName
  BY <1>2, CallNameFacts, MgiFacts
<1>7. statement(mr, args) \in Statement
  BY <1>2, <1>4, <1>5, <1>6, MgiFacts DEF Statement
<1>8. mr_input_vars \in Stores
  BY <1>2 DEF TypeOK, Stores
<1>9. mr_input_vars' = [mr_input_vars EXCEPT ![mgi.family_idx] = after]
  BY <1>2, <1>3, <1>8 DEF StoredAfter, Stores
<1> HIDE DEF params, name, statement, after
<1>10. /\ mr_input_vars' \in Stores
       /\ mr_input_vars'[mgi.family_idx] = after
       /\ \A p \in Positions : mr_input_vars[p] # <<>> => mr_input_vars'[p] = mr_input_vars[p]
  <2>1. mr_input_vars[mgi.family_idx] # <<>> => after = mr_input_vars[mgi.family_idx]
    BY DEF after, StoredAfter
  <2> QED
    BY <1>2, <1>5, <1>8, <1>9, <2>1 DEF Stores
<1>11. /\ mt_body \in Seq(Statement)
       /\ mt_body' \in Seq(Statement)
       /\ Len(mt_body') = Len(mt_body) + 1
       /\ \A n \in 1..Len(mt_body) : mt_body'[n] = mt_body[n]
       /\ mt_body'[Len(mt_body) + 1] = statement(mr, args)
  BY <1>2, <1>3, <1>7, AppendFacts DEF TypeOK
<1>12. /\ stack' \in Seq(StackedFrame)
       /\ Len(stack') = 1
       /\ stack' # <<>>
  <2>1. Frame(mr, name(mr)) \in StackedFrame
    BY <1>6 DEF Frame, StackedFrame
  <2> QED
    BY <1>3, <2>1
<1>13. TypeOK'
  <2>1. mgi' \in mrGenInfo
    BY <1>1, <1>2 DEF TypeOK, mrGenInfo
  <2> QED
    BY <2>1, <1>1, <1>2, <1>10, <1>11, <1>12 DEF TypeOK, Stores
<1>14. ControlInv'
  BY <1>1, <1>2, <1>11, <1>12 DEF ControlInv, InTest, TypeOK
<1>15. DepthInv'
  BY <1>1, <1>2, <1>12, OptionAssumption DEF DepthInv, TypeOK
<1>16. StoredInv'
  <2>1. ASSUME NEW t \in 1..Len(meta_tests')
        PROVE  Fits(mr_input_vars', meta_tests'[t], t - 1)
    <3>1. /\ t \in 1..Len(meta_tests) /\ t - 1 \in Nat
          /\ meta_tests'[t] = meta_tests[t]
          /\ meta_tests[t] \in Seq(Statement)
      BY <1>1, <1>2 DEF TypeOK
    <3>2. Fits(mr_input_vars, meta_tests[t], t - 1)
      BY <1>2, <3>1 DEF StoredInv
    <3> QED
      BY <3>1, <3>2, <1>8, <1>10, FitsMonotonic
  <2>2. mgi.test_idx \in Nat /\ mgi'.test_idx = mgi.test_idx
    BY <1>1, <1>2 DEF TypeOK
  <2>3. Fits(mr_input_vars', mt_body, mgi.test_idx)
    <3>1. Fits(mr_input_vars, mt_body, mgi.test_idx)
      BY <1>1, <1>2 DEF StoredInv, InTest
    <3> QED
      BY <3>1, <2>2, <1>8, <1>10, <1>11, FitsMonotonic
  <2>4. ASSUME NEW n \in Reached(mt_body')
        PROVE  /\ Len(mt_body'[n].args) <= Len(mr_input_vars'[n - 1])
               /\ \A k \in 1..Len(mt_body'[n].args) :
                    Abstracted(mt_body'[n].args, mgi.test_idx)[k] = mr_input_vars'[n - 1][k]
    <3>1. CASE n = Len(mt_body) + 1
      <4>1. mt_body'[n].args = args /\ n - 1 = mgi.family_idx
        BY <3>1, <1>2, <1>11 DEF statement
      <4> QED
        BY <4>1, <1>5, <1>10
    <3>2. CASE n # Len(mt_body) + 1
      <4>1. n \in Reached(mt_body) /\ mt_body'[n] = mt_body[n]
        BY <3>2, <1>11 DEF Reached
      <4> QED
        BY <4>1, <2>3 DEF Fits
    <3> QED
      BY <3>1, <3>2
  <2>5. Fits(mr_input_vars', mt_body', mgi'.test_idx)
    BY <2>2, <2>4 DEF Fits
  <2> QED
    BY <2>1, <2>5 DEF StoredInv
<1> QED
  BY <1>13, <1>14, <1>15, <1>16

(* A callee goes on the stack one level deeper.  It can have placeholders  *)
(* only if base_chance was false at the caller's depth.                    *)
LEMMA DeepestRecursive ==
  ASSUME NEW d \in Nat, BaseChance(FALSE, d)
  PROVE  d <= meta_test_depth
BY OptionAssumption DEF BaseChance

LEMMA ExpandPlaceholderIInv == IInv /\ ExpandPlaceholder => IInv'
<1> SUFFICES ASSUME IInv, ExpandPlaceholder PROVE IInv'
  OBVIOUS
<1> USE DEF IInv
<1>1. /\ pc = "recursion"
      /\ mgi' = [mgi EXCEPT !.recursive_idx = NextIdx, !.depth = @ + 1]
      /\ UNCHANGED <<prune_option, pc, meta_call, meta_family_chain, mr_input_vars,
                     mt_body, meta_tests, funcs>>
  BY DEF ExpandPlaceholder
<1>2. /\ TypeOK /\ ControlInv /\ DepthInv /\ StoredInv
      /\ stack \in Seq(StackedFrame)
      /\ stack # <<>>
      /\ Len(stack) \in Nat \ {0}
      /\ mgi.depth = Len(stack) - 1
      /\ NextIdx \in Nat
  <2>1. TypeOK /\ ControlInv /\ DepthInv /\ StoredInv
    OBVIOUS
  <2>2. stack \in Seq(StackedFrame) /\ stack # <<>>
    BY <2>1, <1>1 DEF ControlInv, TypeOK
  <2>3. Len(stack) \in Nat \ {0}
    BY <2>2
  <2>4. mgi.depth = Len(stack) - 1
    BY <2>1, <2>2 DEF DepthInv
  <2>5. NextIdx \in Nat
    BY <2>1, MgiFacts DEF NextIdx
  <2> QED
    BY <2>1, <2>2, <2>3, <2>4, <2>5
<1> DEFINE call == Pending[Top.next]
           name(mr) == makeUniqueFuncCallName(mr, NextIdx)
           caller(mr) == [stack EXCEPT ![Len(stack)].next = @ + 1,
                                       ![Len(stack)].callees = Append(@, name(mr))]
<1>3. PICK base \in BOOLEAN :
        /\ BaseChance(base, mgi.depth)
        /\ \E mr \in retrieveRandMrDecl(call.type, call.family, base) :
             stack' = Append(caller(mr), Frame(mr, name(mr)))
  BY DEF ExpandPlaceholder
<1>4. PICK mr \in retrieveRandMrDecl(call.type, call.family, base) :
        stack' = Append(caller(mr), Frame(mr, name(mr)))
  BY <1>3
<1>5. mr \in MRs /\ (base => is_base_func(mr))
  BY DEF retrieveRandMrDecl, meta_rel_decls
<1>6. name(mr) \in FuncName
  BY <1>2, <1>5, CallNameFacts
<1> HIDE DEF name
<1>7. /\ caller(mr) \in Seq(StackedFrame)
      /\ Len(caller(mr)) = Len(stack)
      /\ \A i \in 1..Len(stack) : caller(mr)[i].mr = stack[i].mr
  <2> DEFINE top == stack[Len(stack)]
             newTop == [top EXCEPT !.next = @ + 1, !.callees = Append(@, name(mr))]
  <2>1. top \in StackedFrame
    BY <1>2
  <2>2. newTop \in StackedFrame /\ newTop.mr = top.mr
    <3>1. /\ top.next + 1 \in Nat \ {0}
          /\ Append(top.callees, name(mr)) \in Seq(FuncName)
      BY <2>1, <1>6 DEF StackedFrame
    <3> QED
      BY <2>1, <3>1 DEF StackedFrame
  <2>3. caller(mr) = [stack EXCEPT ![Len(stack)] = newTop]
    BY <1>2, <2>1 DEF StackedFrame
  <2> QED
    BY <1>2, <2>2, <2>3
<1> HIDE DEF caller
<1>8. Frame(mr, name(mr)) \in StackedFrame /\ Frame(mr, name(mr)).mr = mr
  BY <1>5, <1>6 DEF Frame, StackedFrame
<1>9. /\ stack' \in Seq(StackedFrame)
      /\ Len(stack') = Len(stack) + 1
      /\ \A i \in 1..Len(stack) : stack'[i].mr = stack[i].mr
      /\ stack'[Len(stack) + 1].mr = mr
      /\ stack' # <<>>
  BY <1>4, <1>7, <1>8, AppendFacts
<1>10. /\ mgi' \in mrGenInfo
       /\ mgi'.depth = mgi.depth + 1
       /\ mgi'.test_idx = mgi.test_idx
       /\ mgi'.family_idx = mgi.family_idx
  <2>1. mgi \in mrGenInfo
    BY <1>2 DEF TypeOK
  <2>2. mgi.depth + 1 \in Nat /\ NextIdx \in Nat
    BY <1>2, MgiFacts
  <2> QED
    BY <2>1, <2>2, <1>1 DEF mrGenInfo
<1>11. TypeOK'
  BY <1>1, <1>2, <1>9, <1>10 DEF TypeOK
<1>12. ControlInv'
  BY <1>1, <1>2, <1>9, <1>10 DEF ControlInv, InTest
<1>13. DepthInv'
  <2>1. mgi'.depth = Len(stack') - 1
    BY <1>2, <1>9, <1>10
  <2>2. ASSUME NEW i \in 1..Len(stack'), ~is_base_func(stack'[i].mr)
        PROVE  i <= meta_test_depth + 2
    <3>1. CASE i \in 1..Len(stack)
      BY <3>1, <2>2, <1>2, <1>9 DEF DepthInv
    <3>2. CASE i = Len(stack) + 1
      <4>1. base = FALSE
        BY <3>2, <2>2, <1>5, <1>9
      <4>2. mgi.depth <= meta_test_depth
        <5>1. mgi.depth \in Nat
          BY <1>2
        <5> QED
          BY <4>1, <5>1, <1>3, DeepestRecursive
      <4> QED
        BY <3>2, <4>2, <1>2, OptionAssumption
    <3> QED
      BY <3>1, <3>2, <1>9, <1>2
  <2>3. ASSUME NEW i \in 1..(Len(stack') - 1)
        PROVE  ~is_base_func(stack'[i].mr)
    <3>1. i \in 1..Len(stack) /\ stack'[i].mr = stack[i].mr
      BY <1>2, <1>9
    <3>2. CASE i < Len(stack)
      BY <3>1, <3>2, <1>2 DEF DepthInv
    <3>3. CASE i = Len(stack)
      <4>1. Top \in StackedFrame /\ Top = stack[i]
        BY <3>3, <1>2 DEF Top
      <4>2. Top.next \in Nat \ {0} /\ Top.mr \in MRs
        BY <4>1 DEF StackedFrame
      <4>3. Top.next <= Len(Pending) /\ Pending \in Seq(Placeholder)
        BY <4>2, DeclFacts DEF ExpandPlaceholder, Pending
      <4>4. Pending # <<>>
        BY <4>2, <4>3
      <4> QED
        BY <3>1, <4>1, <4>4 DEF Pending, is_base_func
    <3> QED
      BY <3>1, <3>2, <3>3, <1>2
  <2> QED
    BY <2>1, <2>2, <2>3, <1>9 DEF DepthInv
<1>14. StoredInv'
  BY <1>1, <1>2, <1>10 DEF StoredInv, InTest
<1> QED
  BY <1>11, <1>12, <1>13, <1>14

(* What a finished activation writes.                                      *)
LEMMA EmitFacts ==
  ASSUME TypeOK, NEW frame \in StackedFrame
  PROVE  Emit(frame) \in Seq(Definition)
<1>1. [name |-> frame.name, callees |-> frame.callees] \in Definition
  BY DEF StackedFrame, Definition
<1> QED
  BY <1>1 DEF TypeOK, Emit

LEMMA ReturnNestedIInv == IInv /\ ReturnNested => IInv'
<1> SUFFICES ASSUME IInv, ReturnNested PROVE IInv'
  OBVIOUS
<1> USE DEF IInv
<1>1. /\ pc = "recursion"
      /\ Len(stack) > 1
      /\ funcs' = Emit(Top)
      /\ stack' = SubSeq(stack, 1, Len(stack) - 1)
      /\ mgi' = [mgi EXCEPT !.depth = @ - 1]
      /\ UNCHANGED <<prune_option, pc, meta_call, meta_family_chain, mr_input_vars,
                     mt_body, meta_tests>>
  BY DEF ReturnNested
<1>2. /\ TypeOK /\ ControlInv /\ DepthInv /\ StoredInv
      /\ stack \in Seq(StackedFrame)
      /\ Len(stack) \in Nat
      /\ mgi.depth = Len(stack) - 1
  BY <1>1 DEF ControlInv, DepthInv, TypeOK
<1>3. funcs' \in Seq(Definition)
  <2>1. Top \in StackedFrame
    BY <1>1, <1>2 DEF Top
  <2> QED
    BY <2>1, <1>1, <1>2, EmitFacts
<1>4. /\ stack' \in Seq(StackedFrame)
      /\ Len(stack') = Len(stack) - 1
      /\ stack' # <<>>
      /\ \A i \in 1..Len(stack') : stack'[i] = stack[i]
  <2>1. \A i \in 1..(Len(stack) - 1) : stack[i] \in StackedFrame
    BY <1>2
  <2>2. /\ stack' \in Seq(StackedFrame)
        /\ Len(stack') = IF 1 <= Len(stack) - 1 THEN Len(stack) - 1 - 1 + 1 ELSE 0
        /\ \A i \in 1..(Len(stack) - 1 - 1 + 1) : stack'[i] = stack[1 + i - 1]
    BY <2>1, <1>1, <1>2, SubSeqProperties
  <2> QED
    <3>1. Len(stack') = Len(stack) - 1
      BY <2>2, <1>1, <1>2
    <3>2. \A i \in 1..(Len(stack) - 1) : stack'[i] = stack[i]
      BY <2>2, <1>2
    <3>3. stack' # <<>>
      <4>1. Len(stack') >= 1
        BY <3>1, <1>1, <1>2
      <4>2. Len(<<>>) = 0
        OBVIOUS
      <4> QED
        BY <4>1, <4>2
    <3> QED
      BY <2>2, <3>1, <3>2, <3>3
<1>5. /\ mgi' \in mrGenInfo
      /\ mgi'.depth = mgi.depth - 1
      /\ mgi'.test_idx = mgi.test_idx
      /\ mgi'.family_idx = mgi.family_idx
  <2>1. mgi \in mrGenInfo
    BY <1>2 DEF TypeOK
  <2>2. mgi.depth - 1 \in Nat
    BY <1>1, <1>2
  <2> QED
    BY <2>1, <2>2, <1>1 DEF mrGenInfo
<1>6. TypeOK'
  BY <1>1, <1>2, <1>3, <1>4, <1>5 DEF TypeOK
<1>7. ControlInv'
  BY <1>1, <1>2, <1>4, <1>5 DEF ControlInv, InTest
<1>8. DepthInv'
  BY <1>1, <1>2, <1>4, <1>5 DEF DepthInv
<1>9. StoredInv'
  BY <1>1, <1>2, <1>5 DEF StoredInv, InTest
<1> QED
  BY <1>6, <1>7, <1>8, <1>9

LEMMA ReturnToChainIInv == IInv /\ ReturnToChain => IInv'
<1> SUFFICES ASSUME IInv, ReturnToChain PROVE IInv'
  OBVIOUS
<1> USE DEF IInv
<1>1. /\ pc = "recursion"
      /\ Len(stack) = 1
      /\ funcs' = Emit(Top)
      /\ stack' = <<>>
      /\ mgi' = [mgi EXCEPT !.recursive_idx = @ + 1, !.family_idx = @ + 1]
      /\ pc' = IF mgi.family_idx + 1 < meta_test_rel_count THEN "relation" ELSE "check"
      /\ UNCHANGED <<prune_option, meta_call, meta_family_chain, mr_input_vars,
                     mt_body, meta_tests>>
  BY DEF ReturnToChain
<1>2. /\ TypeOK /\ ControlInv /\ DepthInv /\ StoredInv
      /\ mgi.depth = 0
      /\ mgi.family_idx \in Positions
      /\ Len(mt_body) = mgi.family_idx + 1
  BY <1>1 DEF ControlInv, DepthInv
<1>3. funcs' \in Seq(Definition)
  <2>1. Top \in StackedFrame
    <3>1. stack \in Seq(StackedFrame)
      BY <1>2 DEF TypeOK
    <3>2. Len(stack) = 1
      BY <1>1
    <3>3. stack[1] \in StackedFrame
      BY <3>1, <3>2
    <3> QED
      BY <3>2, <3>3 DEF Top
  <2> QED
    BY <2>1, <1>1, <1>2, EmitFacts
<1>4. /\ mgi' \in mrGenInfo
      /\ mgi'.depth = 0
      /\ mgi'.test_idx = mgi.test_idx
      /\ mgi'.family_idx = mgi.family_idx + 1
  <2>1. mgi \in mrGenInfo
    BY <1>2 DEF TypeOK
  <2>2. mgi.recursive_idx + 1 \in Nat /\ mgi.family_idx + 1 \in Int
    BY <1>2, MgiFacts
  <2> QED
    BY <2>1, <2>2, <1>1, <1>2 DEF mrGenInfo
<1>5. TypeOK'
  BY <1>1, <1>2, <1>3, <1>4 DEF TypeOK
<1>6. ControlInv'
  BY <1>1, <1>2, <1>4, OptionAssumption DEF ControlInv, InTest, Positions
<1>7. DepthInv'
  BY <1>1, <1>4 DEF DepthInv
<1>8. StoredInv'
  BY <1>1, <1>2, <1>4 DEF StoredInv, InTest
<1> QED
  BY <1>5, <1>6, <1>7, <1>8

(* A check is past the positions of the chain: it stores nothing.          *)
LEMMA ConcretizeCheckIInv == IInv /\ ConcretizeCheck => IInv'
<1> SUFFICES ASSUME IInv, ConcretizeCheck PROVE IInv'
  OBVIOUS
<1> USE DEF IInv
<1> DEFINE check == Checks[checks_done + 1]
           statement(args) ==
             [family |-> NoFamily, params |-> check.params, callee |-> Qualified(check.name),
              decl |-> FALSE, args |-> args]
<1>1. /\ pc = "check"
      /\ checks_done < Len(Checks)
      /\ mgi' = [mgi EXCEPT !.family_idx = -1]
      /\ UNCHANGED <<prune_option, pc, meta_call, meta_family_chain, mr_input_vars,
                     stack, meta_tests, funcs>>
  BY DEF ConcretizeCheck
<1>2. PICK args \in FreshArgs(check.params, -1, {getMetaVarName(0)}) :
        mt_body' = Append(mt_body, statement(args))
  BY DEF ConcretizeCheck
<1>3. /\ TypeOK /\ ControlInv /\ DepthInv /\ StoredInv
      /\ mt_body \in Seq(Statement)
      /\ Len(mt_body) >= meta_test_rel_count
      /\ stack = <<>>
  BY <1>1 DEF ControlInv, TypeOK
<1>4. check \in CheckDecl
  <2>1. checks_done \in Nat
    BY <1>3, OptionAssumption DEF checks_done
  <2> QED
    <3>1. checks_done + 1 \in 1..Len(Checks)
      BY <2>1, <1>1, SpecAssumption
    <3>2. Checks \in Seq(CheckDecl)
      BY SpecAssumption
    <3> QED
      BY <3>1, <3>2
<1>5. statement(args) \in Statement
  <2>1. args \in Seq(Argument)
    BY <1>3, <1>4, CheckArgsFacts DEF CheckDecl
  <2>2. Qualified(check.name) \in FuncName
    BY <1>4 DEF Qualified, FuncName, CheckDecl
  <2> QED
    <3>1. check.params \in Seq(ParamKind)
      BY <1>4 DEF CheckDecl
    <3> QED
      BY <2>1, <2>2, <3>1 DEF Statement
<1> HIDE DEF statement
<1>6. /\ mt_body' \in Seq(Statement)
      /\ Len(mt_body') = Len(mt_body) + 1
      /\ \A n \in 1..Len(mt_body) : mt_body'[n] = mt_body[n]
  BY <1>2, <1>3, <1>5, AppendFacts
<1>7. /\ mgi' \in mrGenInfo
      /\ mgi'.depth = mgi.depth
      /\ mgi'.test_idx = mgi.test_idx
  <2>1. mgi \in mrGenInfo
    BY <1>3 DEF TypeOK
  <2> QED
    BY <2>1, <1>1 DEF mrGenInfo
<1>8. TypeOK'
  BY <1>1, <1>3, <1>6, <1>7 DEF TypeOK
<1>9. ControlInv'
  BY <1>1, <1>3, <1>6, <1>7, OptionAssumption DEF ControlInv, InTest
<1>10. DepthInv'
  BY <1>1, <1>3, <1>7 DEF DepthInv
<1>11. StoredInv'
  <2>1. Reached(mt_body') = Reached(mt_body)
    BY <1>3, <1>6, OptionAssumption DEF Reached
  <2>2. \A n \in Reached(mt_body') : mt_body'[n] = mt_body[n]
    BY <2>1, <1>6 DEF Reached
  <2>3. Fits(mr_input_vars, mt_body, mgi.test_idx)
    BY <1>1, <1>3 DEF StoredInv, InTest
  <2>4. Fits(mr_input_vars, mt_body', mgi.test_idx)
    BY <2>1, <2>2, <2>3 DEF Fits
  <2> QED
    BY <2>4, <1>1, <1>3, <1>7 DEF StoredInv
<1> QED
  BY <1>8, <1>9, <1>10, <1>11

(* A step that changes nothing keeps it.                                   *)
LEMMA StutterIInv == IInv /\ UNCHANGED vars => IInv'
<1> SUFFICES ASSUME IInv, UNCHANGED vars PROVE IInv'
  OBVIOUS
<1> USE DEF vars, IInv
<1>1. TypeOK'
  BY DEF TypeOK
<1>2. ControlInv'
  BY DEF ControlInv, InTest
<1>3. DepthInv'
  BY DEF DepthInv
<1>4. StoredInv'
  BY DEF StoredInv, InTest
<1> QED
  BY <1>1, <1>2, <1>3, <1>4

(* Every step of the generator keeps the invariant.                        *)
LEMMA NextIInv == IInv /\ [Next]_vars => IInv'
BY GenerateMetaTestsIInv, StartTestIInv, FinishTestIInv, ControlStepIInv,
   ConcretizeMetaRelationIInv, ExpandPlaceholderIInv, ReturnNestedIInv,
   ReturnToChainIInv, ConcretizeCheckIInv, StutterIInv
   DEF Next

-----------------------------------------------------------------------------
(***************************************************************************)
(* The theorems.                                                           *)
(***************************************************************************)

(* The generator keeps its inductive invariant: where each step is, how    *)
(* deep the stack can be, and that what the tests pass is what is stored.  *)
THEOREM InductiveInvariant == Spec => []IInv
BY InitIInv, NextIInv, PTL DEF Spec

(* Every variable of the generator keeps to its type.                      *)
THEOREM TypeCorrect == Spec => []TypeOK
<1>1. IInv => TypeOK
  BY DEF IInv
<1> QED
  BY <1>1, InductiveInvariant, PTL

(* The recursion counter never exceeds --test-depth by more than two,      *)
(* whichever --prune-depth is used (makeRecursiveFunctionCalls): the       *)
(* activation that looks for a callee has a placeholder, so it is at most  *)
(* at stack height meta_test_depth + 2, and the callee is one above.       *)
THEOREM DepthBounded == Spec => []DepthBound
<1>1. IInv => DepthBound
  <2> SUFFICES ASSUME IInv PROVE DepthBound
    OBVIOUS
  <2>1. DepthInv /\ Len(stack) \in Nat
    BY DEF IInv, TypeOK
  <2>2. CASE Len(stack) < 2
    BY <2>1, <2>2, OptionAssumption DEF DepthBound, DepthInv
  <2>3. CASE Len(stack) >= 2
    <3>1. ~is_base_func(stack[Len(stack) - 1].mr)
      BY <2>1, <2>3 DEF DepthInv
    <3>2. Len(stack) - 1 <= meta_test_depth + 2
      BY <2>1, <2>3, <3>1 DEF DepthInv
    <3>3. mgi.depth = Len(stack) - 1
      BY <2>1, <2>3 DEF DepthInv
    <3> QED
      BY <3>2, <3>3 DEF DepthBound
  <2> QED
    BY <2>1, <2>2, <2>3
<1> QED
  BY <1>1, InductiveInvariant, PTL

(* Tests of one family pass the same inputs, however many tests, relations *)
(* and fuzz::meta_test() calls there are: both argument lists are the      *)
(* first arguments of the one list stored for that position.               *)
THEOREM InputsShared == Spec => []SameInputs
<1>1. IInv => SameInputs
  <2> SUFFICES ASSUME IInv PROVE SameInputs
    OBVIOUS
  <2>1. /\ meta_tests \in Seq(Seq(Statement))
        /\ mt_body \in Seq(Statement)
        /\ InTest => mgi.test_idx = Len(meta_tests)
    BY DEF IInv, TypeOK, ControlInv
  <2>2. ASSUME NEW t \in 1..Len(Tests)
        PROVE  Fits(mr_input_vars, Tests[t], t - 1)
    <3>1. CASE InTest
      <4>1. /\ Tests = Append(meta_tests, mt_body)
            /\ Len(Tests) = Len(meta_tests) + 1
            /\ \A i \in 1..Len(meta_tests) : Tests[i] = meta_tests[i]
            /\ Tests[Len(meta_tests) + 1] = mt_body
        BY <3>1, <2>1, AppendFacts DEF Tests
      <4>2. CASE t \in 1..Len(meta_tests)
        BY <4>1, <4>2 DEF IInv, StoredInv
      <4>3. CASE t = Len(meta_tests) + 1
        <5>1. Tests[t] = mt_body /\ t - 1 = mgi.test_idx
          BY <3>1, <4>1, <4>3, <2>1
        <5> QED
          BY <5>1, <3>1 DEF IInv, StoredInv
      <4> QED
        BY <4>1, <4>2, <4>3, <2>1
    <3>2. CASE ~InTest
      BY <3>2 DEF Tests, IInv, StoredInv
    <3> QED
      BY <3>1, <3>2
  <2>3. SUFFICES ASSUME NEW t \in 1..Len(Tests), NEW u \in 1..Len(Tests),
                        NEW n \in Reached(Tests[t]) \cap Reached(Tests[u])
                 PROVE  LET a == Abstracted(Tests[t][n].args, t - 1)
                            b == Abstracted(Tests[u][n].args, u - 1)
                        IN \A k \in (1..Len(a)) \cap (1..Len(b)) : a[k] = b[k]
    BY DEF SameInputs
  <2> DEFINE aargs == Tests[t][n].args
             bargs == Tests[u][n].args
  <2>4. /\ \A k \in 1..Len(aargs) : Abstracted(aargs, t - 1)[k] = mr_input_vars[n - 1][k]
        /\ \A k \in 1..Len(bargs) : Abstracted(bargs, u - 1)[k] = mr_input_vars[n - 1][k]
    BY <2>2 DEF Fits
  <2>5. Len(aargs) \in Nat /\ Len(bargs) \in Nat
    <3>1. ASSUME NEW i \in 1..Len(Tests), NEW m \in Reached(Tests[i])
          PROVE  Len(Tests[i][m].args) \in Nat
      <4>1. Tests \in Seq(Seq(Statement))
        BY <2>1 DEF Tests
      <4>2. Tests[i] \in Seq(Statement) /\ m \in 1..Len(Tests[i])
        BY <4>1 DEF Reached
      <4>3. Tests[i][m] \in Statement
        BY <4>2
      <4>4. Tests[i][m].args \in Seq(Argument)
        BY <4>3 DEF Statement
      <4> QED
        BY <4>4
    <3> QED
      BY <3>1
  <2>6. /\ Len(Abstracted(aargs, t - 1)) = Len(aargs)
        /\ Len(Abstracted(bargs, u - 1)) = Len(bargs)
    BY <2>5 DEF Abstracted
  <2> QED
    BY <2>4, <2>6
<1> QED
  BY <1>1, InductiveInvariant, PTL

-----------------------------------------------------------------------------
(***************************************************************************)
(* Calls resolve.                                                          *)
(***************************************************************************)

DefinedIn(fs, name) == \E j \in 1..Len(fs) : fs[j].name = name

(* A copy that is called is defined, or it is that of the activation       *)
(* above, which will define it before its caller is written.               *)
CallsInv ==
  /\ \A i \in 1..Len(funcs) : \A c \in 1..Len(funcs[i].callees) :
       funcs[i].callees[c].generated =>
         \E j \in 1..(i - 1) : funcs[j].name = funcs[i].callees[c]
  /\ \A i \in 1..Len(stack) :
       /\ stack[i].name.generated => IsCopied(stack[i].mr)
       /\ \A c \in 1..Len(stack[i].callees) :
            stack[i].callees[c].generated =>
              \/ DefinedIn(funcs, stack[i].callees[c])
              \/ i < Len(stack) /\ stack[i].callees[c] = stack[i + 1].name
  /\ \A t \in 1..Len(meta_tests) : \A n \in 1..Len(meta_tests[t]) :
       meta_tests[t][n].callee.generated => DefinedIn(funcs, meta_tests[t][n].callee)
  /\ \A n \in 1..Len(mt_body) :
       mt_body[n].callee.generated =>
         \/ DefinedIn(funcs, mt_body[n].callee)
         \/ stack # <<>> /\ mt_body[n].callee = stack[1].name

(* The sequences that the generator's state is made of.                    *)
LEMMA StateFacts ==
  ASSUME TypeOK
  PROVE  /\ funcs \in Seq(Definition) /\ Len(funcs) \in Nat
         /\ stack \in Seq(StackedFrame) /\ Len(stack) \in Nat
         /\ mt_body \in Seq(Statement) /\ Len(mt_body) \in Nat
         /\ meta_tests \in Seq(Seq(Statement)) /\ Len(meta_tests) \in Nat
         /\ \A i \in 1..Len(stack) : stack[i].callees \in Seq(FuncName) /\ stack[i].mr \in MRs
<1>1. /\ funcs \in Seq(Definition) /\ stack \in Seq(StackedFrame)
      /\ mt_body \in Seq(Statement) /\ meta_tests \in Seq(Seq(Statement))
  BY DEF TypeOK
<1>2. \A i \in 1..Len(stack) : stack[i] \in StackedFrame
  BY <1>1
<1> QED
  BY <1>1, <1>2 DEF StackedFrame

(* Emitting a frame defines its name if it is a copy, and forgets nothing. *)
LEMMA EmitDefines ==
  ASSUME TypeOK, NEW frame \in StackedFrame, funcs' = Emit(frame)
  PROVE  /\ \A name : DefinedIn(funcs, name) => DefinedIn(funcs', name)
         /\ IsCopied(frame.mr) => DefinedIn(funcs', frame.name)
         /\ Len(funcs') \in Nat
         /\ Len(funcs) <= Len(funcs') /\ Len(funcs') <= Len(funcs) + 1
         /\ \A i \in 1..Len(funcs) : funcs'[i] = funcs[i]
         /\ Len(funcs') = Len(funcs) + 1 =>
              /\ IsCopied(frame.mr)
              /\ funcs'[Len(funcs) + 1] = [name |-> frame.name, callees |-> frame.callees]
<1> DEFINE new == [name |-> frame.name, callees |-> frame.callees]
<1>1. /\ new \in Definition
      /\ funcs \in Seq(Definition) /\ Len(funcs) \in Nat
  BY StateFacts DEF StackedFrame, Definition
<1>2. CASE IsCopied(frame.mr)
  <2>1. funcs' = Append(funcs, new)
    BY <1>2 DEF Emit
  <2> HIDE DEF new
  <2>2. /\ Len(funcs') = Len(funcs) + 1
        /\ \A i \in 1..Len(funcs) : funcs'[i] = funcs[i]
        /\ funcs'[Len(funcs) + 1] = new
    BY <2>1, <1>1, AppendFacts
  <2>3. DefinedIn(funcs', frame.name)
    <3>1. Len(funcs) + 1 \in 1..Len(funcs')
      BY <2>2, <1>1
    <3>2. new.name = frame.name
      BY DEF new
    <3> QED
      BY <3>1, <3>2, <2>2 DEF DefinedIn
  <2>4. ASSUME NEW name, DefinedIn(funcs, name) PROVE DefinedIn(funcs', name)
    <3>1. PICK j \in 1..Len(funcs) : funcs[j].name = name
      BY <2>4 DEF DefinedIn
    <3>2. j \in 1..Len(funcs') /\ funcs'[j].name = name
      BY <3>1, <2>2, <1>1
    <3> QED
      BY <3>2 DEF DefinedIn
  <2> QED
    BY <1>1, <1>2, <2>2, <2>3, <2>4 DEF new
<1>3. CASE ~IsCopied(frame.mr)
  BY <1>1, <1>3 DEF Emit, DefinedIn
<1> QED
  BY <1>2, <1>3

(* A finished activation: its callees are all defined, so that what it     *)
(* writes resolves, and its caller has its last callee defined.            *)
LEMMA EmitResolves ==
  ASSUME TypeOK, CallsInv, stack # <<>>, funcs' = Emit(Top)
  PROVE  /\ \A i \in 1..Len(funcs') : \A c \in 1..Len(funcs'[i].callees) :
              funcs'[i].callees[c].generated =>
                \E j \in 1..(i - 1) : funcs'[j].name = funcs'[i].callees[c]
         /\ \A name : DefinedIn(funcs, name) => DefinedIn(funcs', name)
         /\ Top.name.generated => DefinedIn(funcs', Top.name)
<1>1. /\ Top = stack[Len(stack)] /\ Len(stack) \in 1..Len(stack)
      /\ Top \in StackedFrame
  BY StateFacts DEF Top
<1>2. /\ \A name : DefinedIn(funcs, name) => DefinedIn(funcs', name)
      /\ IsCopied(Top.mr) => DefinedIn(funcs', Top.name)
      /\ Len(funcs') \in Nat /\ Len(funcs) \in Nat
      /\ Len(funcs) <= Len(funcs') /\ Len(funcs') <= Len(funcs) + 1
      /\ \A i \in 1..Len(funcs) : funcs'[i] = funcs[i]
      /\ Len(funcs') = Len(funcs) + 1 =>
           funcs'[Len(funcs) + 1] = [name |-> Top.name, callees |-> Top.callees]
  BY <1>1, EmitDefines, StateFacts
<1>3. Top.name.generated => DefinedIn(funcs', Top.name)
  BY <1>1, <1>2 DEF CallsInv
<1>4. ASSUME NEW i \in 1..Len(funcs'), NEW c \in 1..Len(funcs'[i].callees),
             funcs'[i].callees[c].generated
      PROVE  \E j \in 1..(i - 1) : funcs'[j].name = funcs'[i].callees[c]
  <2>1. CASE i \in 1..Len(funcs)
    <3>1. \E j \in 1..(i - 1) : funcs[j].name = funcs[i].callees[c]
      BY <1>2, <1>4, <2>1 DEF CallsInv
    <3> QED
      BY <3>1, <1>2, <2>1
  <2>2. CASE i = Len(funcs) + 1
    <3>1. funcs'[i].callees = Top.callees
      BY <1>2, <2>2
    <3>2. DefinedIn(funcs, Top.callees[c])
      BY <3>1, <1>1, <1>4, <2>2 DEF CallsInv
    <3> QED
      BY <3>1, <3>2, <1>2, <2>2 DEF DefinedIn
  <2> QED
    BY <2>1, <2>2, <1>2
<1> QED
  BY <1>2, <1>3, <1>4

LEMMA ReturnCallsInv ==
  ASSUME IInv, CallsInv, ReturnNested \/ ReturnToChain
  PROVE  CallsInv'
<1>1. /\ funcs' = Emit(Top) /\ stack # <<>>
      /\ UNCHANGED <<mt_body, meta_tests>>
      /\ \/ stack' = <<>> /\ Len(stack) = 1
         \/ Len(stack) > 1 /\ stack' = SubSeq(stack, 1, Len(stack) - 1)
  BY StateFacts DEF IInv, ReturnNested, ReturnToChain, ControlInv
<1>2. TypeOK /\ CallsInv
  BY DEF IInv
<1>3. /\ \A i \in 1..Len(funcs') : \A c \in 1..Len(funcs'[i].callees) :
           funcs'[i].callees[c].generated =>
                \E j \in 1..(i - 1) : funcs'[j].name = funcs'[i].callees[c]
      /\ \A name : DefinedIn(funcs, name) => DefinedIn(funcs', name)
      /\ Top.name.generated => DefinedIn(funcs', Top.name)
  BY <1>1, <1>2, EmitResolves
<1>4. /\ Len(stack) \in Nat /\ Top = stack[Len(stack)]
      /\ Len(stack') = Len(stack) - 1
      /\ \A i \in 1..Len(stack') : stack'[i] = stack[i]
  BY <1>1, <1>2, StateFacts DEF Top
<1>5. ASSUME NEW i \in 1..Len(stack')
      PROVE  /\ stack'[i].name.generated => IsCopied(stack'[i].mr)
             /\ \A c \in 1..Len(stack'[i].callees) :
                  stack'[i].callees[c].generated =>
                    \/ DefinedIn(funcs', stack'[i].callees[c])
                    \/ i < Len(stack') /\ stack'[i].callees[c] = stack'[i + 1].name
  <2>1. i \in 1..Len(stack) /\ stack'[i] = stack[i]
    BY <1>4
  <2>2. stack[i].name.generated => IsCopied(stack[i].mr)
    BY <2>1 DEF CallsInv
  <2>3. ASSUME NEW c \in 1..Len(stack[i].callees), stack[i].callees[c].generated
        PROVE  \/ DefinedIn(funcs', stack[i].callees[c])
               \/ i < Len(stack') /\ stack[i].callees[c] = stack'[i + 1].name
    <3>1. CASE DefinedIn(funcs, stack[i].callees[c])
      BY <3>1, <1>3
    <3>2. CASE i < Len(stack) /\ stack[i].callees[c] = stack[i + 1].name
      <4>1. CASE i + 1 = Len(stack)
        BY <4>1, <3>2, <2>3, <1>3, <1>4
      <4>2. CASE i + 1 < Len(stack)
        BY <4>2, <3>2, <1>4
      <4> QED
        BY <4>1, <4>2, <3>2, <1>4
    <3> QED
      BY <3>1, <3>2, <2>1, <2>3 DEF CallsInv
  <2> QED
    BY <2>1, <2>2, <2>3
<1>6. ASSUME NEW n \in 1..Len(mt_body), mt_body[n].callee.generated
      PROVE  \/ DefinedIn(funcs', mt_body[n].callee)
             \/ stack' # <<>> /\ mt_body[n].callee = stack'[1].name
  <2>1. CASE DefinedIn(funcs, mt_body[n].callee)
    BY <2>1, <1>3
  <2>2. CASE mt_body[n].callee = stack[1].name
    <3>1. CASE Len(stack) = 1
      BY <3>1, <2>2, <1>6, <1>3, <1>4
    <3>2. CASE Len(stack) > 1
      BY <3>2, <2>2, <1>4
    <3> QED
      BY <3>1, <3>2, <1>1, <1>4
  <2> QED
    BY <2>1, <2>2, <1>6 DEF CallsInv
<1> QED
  BY <1>1, <1>3, <1>5, <1>6 DEF CallsInv

LEMMA ExpandCallsInv ==
  ASSUME IInv, CallsInv, ExpandPlaceholder
  PROVE  CallsInv'
<1>1. /\ TypeOK /\ stack # <<>>
      /\ UNCHANGED <<mt_body, meta_tests, funcs>>
  BY DEF IInv, ExpandPlaceholder, ControlInv
<1>2. /\ stack \in Seq(StackedFrame) /\ Len(stack) \in Nat
      /\ Len(stack) \in 1..Len(stack)
      /\ \A i \in 1..Len(stack) : stack[i] \in StackedFrame /\ stack[i].callees \in Seq(FuncName)
  BY <1>1, StateFacts
<1>3. PICK mr \in MRs :
        LET name == makeUniqueFuncCallName(mr, NextIdx)
        IN  stack' = Append([stack EXCEPT ![Len(stack)].next = @ + 1,
                                          ![Len(stack)].callees = Append(@, name)],
                            Frame(mr, name))
  BY DEF ExpandPlaceholder, retrieveRandMrDecl, meta_rel_decls
<1> DEFINE name == makeUniqueFuncCallName(mr, NextIdx)
           last == Len(stack)
           caller == [stack EXCEPT ![last].next = @ + 1, ![last].callees = Append(@, name)]
<1>4. /\ name \in FuncName
      /\ name.generated => IsCopied(mr)
  <2>1. NextIdx \in Nat
    BY <1>1, MgiFacts DEF NextIdx
  <2> QED
    BY <2>1, <1>1, CallNameFacts DEF makeUniqueFuncCallName, Qualified
<1>5. stack' = Append(caller, Frame(mr, name))
  BY <1>3
<1> HIDE DEF name
<1>6. /\ Len(caller) = Len(stack) /\ caller \in Seq(StackedFrame)
      /\ \A i \in 1..Len(stack) : caller[i].mr = stack[i].mr /\ caller[i].name = stack[i].name
      /\ \A i \in 1..Len(stack) : i # last => caller[i].callees = stack[i].callees
      /\ caller[last].callees = Append(stack[last].callees, name)
  <2> DEFINE newTop == [stack[last] EXCEPT !.next = @ + 1, !.callees = Append(@, name)]
  <2>1. stack[last] \in StackedFrame
    BY <1>2
  <2>2. /\ stack[last].next + 1 \in Nat \ {0}
        /\ Append(stack[last].callees, name) \in Seq(FuncName)
    BY <2>1, <1>4 DEF StackedFrame
  <2>3. /\ newTop \in StackedFrame
        /\ newTop.mr = stack[last].mr /\ newTop.name = stack[last].name
        /\ newTop.callees = Append(stack[last].callees, name)
    BY <2>1, <2>2 DEF StackedFrame
  <2>4. caller = [stack EXCEPT ![last] = newTop]
    BY <1>2, <2>1 DEF StackedFrame
  <2> HIDE DEF newTop, caller
  <2> QED
    BY <1>2, <2>3, <2>4
<1> HIDE DEF caller
<1>7. Frame(mr, name) \in StackedFrame
  BY <1>4 DEF Frame, StackedFrame
<1>8. /\ Len(stack') = last + 1
      /\ \A i \in 1..last : stack'[i] = caller[i]
      /\ stack'[last + 1] = Frame(mr, name)
      /\ stack' # <<>>
  BY <1>5, <1>6, <1>7, AppendFacts
<1>9. ASSUME NEW i \in 1..Len(stack')
      PROVE  /\ stack'[i].name.generated => IsCopied(stack'[i].mr)
             /\ \A c \in 1..Len(stack'[i].callees) :
                  stack'[i].callees[c].generated =>
                    \/ DefinedIn(funcs', stack'[i].callees[c])
                    \/ i < Len(stack') /\ stack'[i].callees[c] = stack'[i + 1].name
  <2>1. CASE i = last + 1
    BY <2>1, <1>4, <1>8 DEF Frame
  <2>2. CASE i \in 1..last /\ i # last
    <3>1. i + 1 \in 1..last
      BY <2>2, <1>2
    <3>2. /\ stack'[i + 1].name = stack[i + 1].name
          /\ stack'[i].mr = stack[i].mr /\ stack'[i].name = stack[i].name
          /\ stack'[i].callees = stack[i].callees
      BY <2>2, <3>1, <1>6, <1>8
    <3> QED
      BY <3>1, <3>2, <2>2, <1>1, <1>8 DEF CallsInv
  <2>3. CASE i = last
    <3>1. /\ stack'[i].mr = stack[i].mr /\ stack'[i].name = stack[i].name
          /\ stack'[i].callees = Append(stack[i].callees, name)
          /\ stack'[i + 1].name = name
      BY <2>3, <1>2, <1>6, <1>8 DEF Frame
    <3>2. ASSUME NEW c \in 1..Len(stack'[i].callees), stack'[i].callees[c].generated
          PROVE  DefinedIn(funcs', stack'[i].callees[c]) \/ stack'[i].callees[c] = name
      <4>1. stack[i].callees \in Seq(FuncName)
        BY <2>3, <1>2
      <4>2. CASE c = Len(stack[i].callees) + 1
        BY <4>1, <4>2, <3>1, <1>4
      <4>3. CASE c \in 1..Len(stack[i].callees)
        <5>1. stack'[i].callees[c] = stack[i].callees[c]
          BY <4>1, <4>3, <3>1, <1>4
        <5>2. DefinedIn(funcs, stack[i].callees[c])
          BY <5>1, <4>3, <3>2, <2>3, <1>2 DEF CallsInv
        <5> QED
          BY <5>1, <5>2, <1>1 DEF DefinedIn
      <4> QED
        BY <4>1, <4>2, <4>3, <3>1, <1>4
    <3> QED
      BY <3>1, <3>2, <2>3, <1>2, <1>8 DEF CallsInv
  <2> QED
    BY <2>1, <2>2, <2>3, <1>2, <1>8
<1>10. stack'[1].name = stack[1].name
  BY <1>2, <1>6, <1>8
<1> QED
  BY <1>1, <1>9, <1>10, <1>8 DEF CallsInv, DefinedIn

(* What the two steps that add a statement do to the test.                 *)
LEMMA RelationStep ==
  ASSUME IInv, ConcretizeMetaRelation
  PROVE  \E mr \in meta_rel_choices :
         \E args \in RelationArgs(MRInfo[mr].params, mr_input_vars[mgi.family_idx]) :
           /\ mr \in MRs
           /\ mgi.family_idx \in Positions /\ Len(mt_body) = mgi.family_idx
           /\ args \in Seq(Argument)
           /\ Len(mt_body') = Len(mt_body) + 1
           /\ \A n \in 1..Len(mt_body) : mt_body'[n] = mt_body[n]
           /\ mt_body'[Len(mt_body) + 1] =
                [family |-> MRInfo[mr].family, params |-> MRInfo[mr].params,
                 callee |-> makeUniqueFuncCallName(mr, mgi.recursive_idx),
                 decl |-> mgi.first_decl, args |-> args]
           /\ mr_input_vars' =
                [mr_input_vars EXCEPT ![mgi.family_idx] = StoredAfter(MRInfo[mr].params, args)]
           /\ stack' = <<Frame(mr, makeUniqueFuncCallName(mr, mgi.recursive_idx))>>
<1> DEFINE params(mr) == MRInfo[mr].params
           name(mr) == makeUniqueFuncCallName(mr, mgi.recursive_idx)
           statement(mr, args) ==
             [family |-> MRInfo[mr].family, params |-> params(mr), callee |-> name(mr),
              decl |-> mgi.first_decl, args |-> args]
<1>1. PICK mr \in meta_rel_choices :
        \E args \in RelationArgs(params(mr), mr_input_vars[mgi.family_idx]) :
          /\ mt_body' = Append(mt_body, statement(mr, args))
          /\ mr_input_vars' =
               IF mr_input_vars[mgi.family_idx] = <<>>
               THEN [mr_input_vars EXCEPT ![mgi.family_idx] =
                       [k \in 1..Len(params(mr)) |-> ToStored(args[k])]]
               ELSE mr_input_vars
          /\ stack' = <<Frame(mr, name(mr))>>
  BY DEF ConcretizeMetaRelation
<1>2. PICK args \in RelationArgs(params(mr), mr_input_vars[mgi.family_idx]) :
        /\ mt_body' = Append(mt_body, statement(mr, args))
        /\ mr_input_vars' =
             IF mr_input_vars[mgi.family_idx] = <<>>
             THEN [mr_input_vars EXCEPT ![mgi.family_idx] =
                     [k \in 1..Len(params(mr)) |-> ToStored(args[k])]]
             ELSE mr_input_vars
        /\ stack' = <<Frame(mr, name(mr))>>
  BY <1>1
<1>3. /\ TypeOK /\ mgi.family_idx \in Positions /\ Len(mt_body) = mgi.family_idx
      /\ mr \in MRs
  BY DEF IInv, ControlInv, ConcretizeMetaRelation, meta_rel_choices, meta_rel_decls
<1>4. args \in Seq(Argument)
  BY <1>3, DeclFacts, RelationArgsFacts
<1>5. statement(mr, args) \in Statement
  <2>1. name(mr) \in FuncName
    BY <1>3, CallNameFacts, MgiFacts
  <2> HIDE DEF name
  <2> QED
    BY <2>1, <1>3, <1>4, DeclFacts, MgiFacts DEF Statement
<1> HIDE DEF statement
<1>6. /\ Len(mt_body') = Len(mt_body) + 1
      /\ \A n \in 1..Len(mt_body) : mt_body'[n] = mt_body[n]
      /\ mt_body'[Len(mt_body) + 1] = statement(mr, args)
  BY <1>2, <1>3, <1>5, StateFacts, AppendFacts
<1>7. mr_input_vars' =
        [mr_input_vars EXCEPT ![mgi.family_idx] = StoredAfter(params(mr), args)]
  <2>1. mr_input_vars \in Stores
    BY <1>3 DEF TypeOK, Stores
  <2> QED
    BY <2>1, <1>2, <1>3 DEF StoredAfter, Stores
<1> QED
  BY <1>2, <1>3, <1>4, <1>6, <1>7 DEF statement

LEMMA CheckStep ==
  ASSUME IInv, ConcretizeCheck
  PROVE  /\ checks_done \in Nat /\ checks_done + 1 \in 1..Len(Checks)
         /\ Checks[checks_done + 1] \in CheckDecl
         /\ Len(mt_body') = Len(mt_body) + 1
         /\ \A n \in 1..Len(mt_body) : mt_body'[n] = mt_body[n]
         /\ stack = <<>>
         /\ \E args \in FreshArgs(Checks[checks_done + 1].params, -1, {getMetaVarName(0)}) :
              mt_body'[Len(mt_body) + 1] =
                [family |-> NoFamily, params |-> Checks[checks_done + 1].params,
                 callee |-> Qualified(Checks[checks_done + 1].name),
                 decl |-> FALSE, args |-> args]
<1> DEFINE check == Checks[checks_done + 1]
           statement(args) ==
             [family |-> NoFamily, params |-> check.params, callee |-> Qualified(check.name),
              decl |-> FALSE, args |-> args]
<1>1. PICK args \in FreshArgs(check.params, -1, {getMetaVarName(0)}) :
        mt_body' = Append(mt_body, statement(args))
  BY DEF ConcretizeCheck
<1>2. /\ TypeOK /\ mt_body \in Seq(Statement) /\ Len(mt_body) \in Nat
      /\ Len(mt_body) >= meta_test_rel_count
      /\ stack = <<>>
  BY StateFacts DEF IInv, ControlInv, ConcretizeCheck
<1>3. checks_done \in Nat /\ checks_done + 1 \in 1..Len(Checks)
  BY <1>2, OptionAssumption, SpecAssumption DEF checks_done, ConcretizeCheck
<1>4. check \in CheckDecl
  <2>1. Checks \in Seq(CheckDecl)
    BY SpecAssumption
  <2> QED
    BY <2>1, <1>3
<1>5. statement(args) \in Statement
  <2>1. args \in Seq(Argument)
    BY <1>2, <1>4, CheckArgsFacts DEF CheckDecl
  <2>2. Qualified(check.name) \in FuncName /\ check.params \in Seq(ParamKind)
    BY <1>4 DEF Qualified, FuncName, CheckDecl
  <2> QED
    BY <2>1, <2>2 DEF Statement
<1> HIDE DEF statement
<1>6. /\ Len(mt_body') = Len(mt_body) + 1
      /\ \A n \in 1..Len(mt_body) : mt_body'[n] = mt_body[n]
      /\ mt_body'[Len(mt_body) + 1] = statement(args)
  BY <1>1, <1>2, <1>5, AppendFacts
<1> QED
  BY <1>2, <1>3, <1>4, <1>6 DEF statement

(* A finished test joins the others as it stands.                          *)
LEMMA FinishStep ==
  ASSUME TypeOK, FinishTest
  PROVE  /\ Len(meta_tests') = Len(meta_tests) + 1
         /\ \A t \in 1..Len(meta_tests) : meta_tests'[t] = meta_tests[t]
         /\ meta_tests'[Len(meta_tests) + 1] = mt_body
<1>1. meta_tests' = Append(meta_tests, mt_body)
  BY DEF FinishTest
<1> QED
  BY <1>1, StateFacts, AppendFacts

LEMMA StatementCallsInv ==
  ASSUME IInv, CallsInv, ConcretizeMetaRelation \/ ConcretizeCheck \/ FinishTest
  PROVE  CallsInv'
<1>1. CASE ConcretizeMetaRelation
  <2>1. PICK mr \in MRs :
          /\ Len(mt_body') = Len(mt_body) + 1
          /\ \A n \in 1..Len(mt_body) : mt_body'[n] = mt_body[n]
          /\ mt_body'[Len(mt_body) + 1].callee = makeUniqueFuncCallName(mr, mgi.recursive_idx)
          /\ stack' = <<Frame(mr, makeUniqueFuncCallName(mr, mgi.recursive_idx))>>
    <3>1. PICK mr \in meta_rel_choices :
            \E args \in RelationArgs(MRInfo[mr].params, mr_input_vars[mgi.family_idx]) :
              /\ mr \in MRs
              /\ Len(mt_body') = Len(mt_body) + 1
              /\ \A n \in 1..Len(mt_body) : mt_body'[n] = mt_body[n]
              /\ mt_body'[Len(mt_body) + 1] =
                   [family |-> MRInfo[mr].family, params |-> MRInfo[mr].params,
                    callee |-> makeUniqueFuncCallName(mr, mgi.recursive_idx),
                    decl |-> mgi.first_decl, args |-> args]
              /\ stack' = <<Frame(mr, makeUniqueFuncCallName(mr, mgi.recursive_idx))>>
      BY <1>1, RelationStep
    <3> HIDE DEF makeUniqueFuncCallName
    <3> QED
      BY <3>1
  <2>2. /\ stack = <<>> /\ UNCHANGED <<funcs, meta_tests>> /\ Len(mt_body) \in Nat
    BY <1>1, StateFacts DEF IInv, ControlInv, ConcretizeMetaRelation
  <2>3. /\ stack' # <<>> /\ Len(stack') = 1
        /\ stack'[1].mr = mr /\ stack'[1].callees = <<>>
        /\ stack'[1].name = makeUniqueFuncCallName(mr, mgi.recursive_idx)
    BY <2>1 DEF Frame
  <2>4. stack'[1].name.generated => IsCopied(mr)
    BY <2>3 DEF makeUniqueFuncCallName, Qualified
  <2> QED
    BY <2>1, <2>2, <2>3, <2>4 DEF CallsInv
<1>2. CASE ConcretizeCheck
  <2>1. /\ Len(mt_body') = Len(mt_body) + 1 /\ Len(mt_body) \in Nat
        /\ \A n \in 1..Len(mt_body) : mt_body'[n] = mt_body[n]
        /\ ~mt_body'[Len(mt_body) + 1].callee.generated
    <3>1. \A name : ~Qualified(name).generated
      BY DEF Qualified
    <3>2. /\ Len(mt_body') = Len(mt_body) + 1
          /\ \A n \in 1..Len(mt_body) : mt_body'[n] = mt_body[n]
          /\ \E args : mt_body'[Len(mt_body) + 1] =
               [family |-> NoFamily, params |-> Checks[checks_done + 1].params,
                callee |-> Qualified(Checks[checks_done + 1].name),
                decl |-> FALSE, args |-> args]
      BY <1>2, CheckStep
    <3> QED
      BY <3>1, <3>2, StateFacts DEF IInv
  <2>2. UNCHANGED <<funcs, stack, meta_tests>>
    BY <1>2 DEF ConcretizeCheck
  <2> QED
    BY <2>1, <2>2 DEF CallsInv
<1>3. CASE FinishTest
  <2>1. /\ Len(meta_tests') = Len(meta_tests) + 1 /\ Len(meta_tests) \in Nat
        /\ \A t \in 1..Len(meta_tests) : meta_tests'[t] = meta_tests[t]
        /\ meta_tests'[Len(meta_tests) + 1] = mt_body
    BY <1>3, FinishStep, StateFacts DEF IInv
  <2>2. stack = <<>> /\ UNCHANGED <<funcs, stack, mt_body>>
    BY <1>3 DEF FinishTest, IInv, ControlInv
  <2> QED
    BY <2>1, <2>2 DEF CallsInv
<1> QED
  BY <1>1, <1>2, <1>3

LEMMA NextCallsInv == IInv /\ CallsInv /\ [Next]_vars => CallsInv'
<1> SUFFICES ASSUME IInv, CallsInv, [Next]_vars PROVE CallsInv'
  OBVIOUS
<1>1. CASE ConcretizeMetaRelation \/ ConcretizeCheck \/ FinishTest
  BY <1>1, StatementCallsInv
<1>2. CASE ExpandPlaceholder
  BY <1>2, ExpandCallsInv
<1>3. CASE ReturnNested \/ ReturnToChain
  BY <1>3, ReturnCallsInv
<1>4. CASE GenerateMetaTests
  <2>1. meta_tests' = <<>> /\ UNCHANGED <<funcs, stack, mt_body>>
    BY <1>4 DEF GenerateMetaTests
  <2> QED
    BY <2>1 DEF CallsInv
<1>5. CASE StartTest
  <2>1. mt_body' = <<>> /\ UNCHANGED <<funcs, stack, meta_tests>>
    BY <1>5 DEF StartTest
  <2> QED
    BY <2>1 DEF CallsInv
<1>6. CASE AllExpanded \/ FamilyComplete \/ TooFewStored \/ NoMatchingDecl \/ UNCHANGED vars
  <2>1. UNCHANGED <<funcs, stack, meta_tests, mt_body>>
    BY <1>6 DEF AllExpanded, FamilyComplete, TooFewStored, NoMatchingDecl, vars
  <2> QED
    BY <2>1 DEF CallsInv
<1> QED
  BY <1>1, <1>2, <1>3, <1>4, <1>5, <1>6 DEF Next

(* Every copy that is called is defined, and before its callers: generated *)
(* code compiles in the order it is written, however many relations,       *)
(* placeholders and fuzz::meta_test() calls there are                      *)
(* (makeRecursiveFunctionCalls inserts what it wrote on its way back).     *)
THEOREM EveryCallResolves == Spec => []CallsResolve
<1>1. Init => CallsInv
  BY DEF Init, CallsInv
<1>2. IInv /\ CallsInv => CallsResolve
  <2> SUFFICES ASSUME IInv, CallsInv PROVE CallsResolve
    OBVIOUS
  <2>1. \A i \in 1..Len(funcs) : \A c \in 1..Len(funcs[i].callees) :
          funcs[i].callees[c].generated => DefinedBefore(funcs[i].callees[c], i)
    BY DEF CallsInv, DefinedBefore
  <2>2. ASSUME stack = <<>>, NEW t \in 1..Len(Tests), NEW n \in 1..Len(Tests[t]),
               Tests[t][n].callee.generated
        PROVE  DefinedBefore(Tests[t][n].callee, Len(funcs) + 1)
    <3>1. /\ Len(funcs) \in Nat /\ Len(meta_tests) \in Nat
          /\ meta_tests \in Seq(Seq(Statement)) /\ mt_body \in Seq(Statement)
      BY StateFacts DEF IInv
    <3>2. \/ t \in 1..Len(meta_tests) /\ Tests[t] = meta_tests[t]
          \/ Tests[t] = mt_body
      BY <3>1, AppendFacts DEF Tests
    <3>3. DefinedIn(funcs, Tests[t][n].callee)
      BY <2>2, <3>2 DEF CallsInv
    <3> QED
      BY <3>1, <3>3 DEF DefinedIn, DefinedBefore
  <2> QED
    BY <2>1, <2>2 DEF CallsResolve
<1> QED
  BY <1>1, <1>2, NextCallsInv, InductiveInvariant, PTL DEF Spec

-----------------------------------------------------------------------------
(***************************************************************************)
(* Functions are defined once.                                             *)
(***************************************************************************)

(* A name has the test and the number it was made with; numbers rise       *)
(* within a test, along the stack too, and never come back.                *)
NamesInv ==
  /\ meta_call = 0 => funcs = <<>> /\ pc \in {"expand", "done"}
  /\ \A i \in 1..Len(funcs) : funcs[i].name.generated
  /\ pc \notin {"expand", "done"} =>
       \A i \in 1..Len(funcs) :
         \/ funcs[i].name.test < Len(meta_tests)
         \/ /\ InTest /\ funcs[i].name.test = mgi.test_idx
            /\ funcs[i].name.idx <= mgi.recursive_idx
            /\ stack = <<>> => funcs[i].name.idx < mgi.recursive_idx
  /\ \A i \in 1..Len(stack) :
       /\ stack[i].name.generated = IsCopied(stack[i].mr)
       /\ IsCopied(stack[i].mr) =>
            /\ stack[i].name.test = mgi.test_idx
            /\ stack[i].name.idx <= mgi.recursive_idx
            /\ \A j \in 1..Len(funcs) : funcs[j].name # stack[i].name
            /\ \A j \in 1..(i - 1) :
                 IsCopied(stack[j].mr) => stack[j].name.idx < stack[i].name.idx
  /\ DefinedOnce

(* A name made now has the number it is given, and belongs to this test.   *)
LEMMA NewName ==
  ASSUME TypeOK, NEW mr \in MRs, NEW idx \in Nat
  PROVE  LET name == makeUniqueFuncCallName(mr, idx)
         IN  /\ name.generated = IsCopied(mr)
             /\ IsCopied(mr) => name.test = mgi.test_idx /\ name.idx = idx
<1>1. IsCopied(mr) \in BOOLEAN
  <2>1. MRInfo[mr].has_fuzz_call \in BOOLEAN
    BY DeclFacts DEF MRDecl
  <2> QED
    BY <2>1 DEF IsCopied, is_base_func
<1> QED
  BY <1>1 DEF makeUniqueFuncCallName, Qualified

LEMMA RelationNamesInv ==
  ASSUME IInv, NamesInv, ConcretizeMetaRelation
  PROVE  NamesInv'
<1>1. /\ TypeOK /\ stack = <<>>
      /\ pc = "relation" /\ pc' = "recursion"
      /\ mgi' = [mgi EXCEPT !.first_decl = FALSE]
      /\ UNCHANGED <<meta_call, meta_tests, funcs>>
      /\ mgi.test_idx = Len(meta_tests)
  BY DEF IInv, ControlInv, InTest, ConcretizeMetaRelation
<1>2. mgi'.test_idx = mgi.test_idx /\ mgi'.recursive_idx = mgi.recursive_idx
  BY <1>1 DEF TypeOK, mrGenInfo
<1>3. PICK mr \in MRs :
        stack' = <<Frame(mr, makeUniqueFuncCallName(mr, mgi.recursive_idx))>>
  <2> HIDE DEF makeUniqueFuncCallName
  <2> QED
    BY RelationStep
<1> DEFINE name == makeUniqueFuncCallName(mr, mgi.recursive_idx)
<1>4. /\ name.generated = IsCopied(mr)
      /\ IsCopied(mr) => name.test = mgi.test_idx /\ name.idx = mgi.recursive_idx
      /\ mgi.recursive_idx \in Nat
  BY <1>1, NewName, MgiFacts
<1>5. Len(stack') = 1 /\ stack'[1].name = name /\ stack'[1].mr = mr
  BY <1>3 DEF Frame
<1> HIDE DEF name
<1>6. InTest /\ InTest'
  BY <1>1 DEF InTest
<1>7. /\ \A i \in 1..Len(funcs) : funcs[i].name.generated
      /\ \A i \in 1..Len(funcs) :
           \/ funcs[i].name.test < Len(meta_tests)
           \/ funcs[i].name.test = mgi.test_idx /\ funcs[i].name.idx < mgi.recursive_idx
  BY <1>1 DEF NamesInv
<1>8. IsCopied(mr) => \A j \in 1..Len(funcs) : funcs[j].name # name
  BY <1>1, <1>4, <1>7, StateFacts
<1>9. DefinedOnce'
  BY <1>1 DEF NamesInv, DefinedOnce
<1>10. \A i \in 1..Len(stack') : i = 1
  BY <1>5
<1> QED
  BY <1>1, <1>2, <1>4, <1>5, <1>6, <1>7, <1>8, <1>9, <1>10 DEF NamesInv

(* How a step that calls one more relation changes the stack.              *)
LEMMA ExpandStep ==
  ASSUME IInv, ExpandPlaceholder
  PROVE  /\ stack # <<>> /\ Len(stack') = Len(stack) + 1 /\ stack' # <<>>
         /\ \A i \in 1..Len(stack) :
              stack'[i].mr = stack[i].mr /\ stack'[i].name = stack[i].name
         /\ stack'[Len(stack) + 1].mr \in MRs
         /\ stack'[Len(stack) + 1].name =
              makeUniqueFuncCallName(stack'[Len(stack) + 1].mr, NextIdx)
         /\ mgi'.test_idx = mgi.test_idx /\ mgi'.recursive_idx = NextIdx /\ NextIdx \in Nat
<1>1. /\ TypeOK /\ stack # <<>>
      /\ mgi' = [mgi EXCEPT !.recursive_idx = NextIdx, !.depth = @ + 1]
  BY DEF IInv, ExpandPlaceholder, ControlInv
<1>2. /\ stack \in Seq(StackedFrame) /\ Len(stack) \in Nat
      /\ Len(stack) \in 1..Len(stack)
      /\ \A i \in 1..Len(stack) : stack[i] \in StackedFrame
  BY <1>1, StateFacts
<1>3. PICK mr \in MRs :
        LET name == makeUniqueFuncCallName(mr, NextIdx)
        IN  stack' = Append([stack EXCEPT ![Len(stack)].next = @ + 1,
                                          ![Len(stack)].callees = Append(@, name)],
                            Frame(mr, name))
  BY DEF ExpandPlaceholder, retrieveRandMrDecl, meta_rel_decls
<1> DEFINE name == makeUniqueFuncCallName(mr, NextIdx)
           last == Len(stack)
           newTop == [stack[last] EXCEPT !.next = @ + 1, !.callees = Append(@, name)]
           caller == [stack EXCEPT ![last].next = @ + 1, ![last].callees = Append(@, name)]
<1>4. NextIdx \in Nat
  BY <1>1, MgiFacts DEF NextIdx
<1>5. name \in FuncName
  BY <1>1, <1>4, CallNameFacts
<1>6. stack' = Append(caller, Frame(mr, name))
  BY <1>3
<1> HIDE DEF name
<1>7. /\ newTop \in StackedFrame
      /\ newTop.mr = stack[last].mr /\ newTop.name = stack[last].name
  <2>1. stack[last] \in StackedFrame
    BY <1>2
  <2>2. /\ stack[last].next + 1 \in Nat \ {0}
        /\ Append(stack[last].callees, name) \in Seq(FuncName)
    BY <2>1, <1>5 DEF StackedFrame
  <2> QED
    BY <2>1, <2>2 DEF StackedFrame
<1>8. caller = [stack EXCEPT ![last] = newTop]
  BY <1>2 DEF StackedFrame
<1>9. Frame(mr, name) \in StackedFrame /\ Frame(mr, name).mr = mr /\ Frame(mr, name).name = name
  BY <1>5 DEF Frame, StackedFrame
<1> HIDE DEF newTop, caller
<1>10. /\ Len(caller) = Len(stack) /\ caller \in Seq(StackedFrame)
       /\ \A i \in 1..Len(stack) : caller[i].mr = stack[i].mr /\ caller[i].name = stack[i].name
  BY <1>2, <1>7, <1>8
<1>11. /\ Len(stack') = last + 1
       /\ \A i \in 1..last : stack'[i] = caller[i]
       /\ stack'[last + 1] = Frame(mr, name)
       /\ stack' # <<>>
  BY <1>6, <1>9, <1>10, AppendFacts
<1>12. mgi'.test_idx = mgi.test_idx /\ mgi'.recursive_idx = NextIdx
  BY <1>1 DEF TypeOK, mrGenInfo
<1> QED
  BY <1>1, <1>4, <1>9, <1>10, <1>11, <1>12 DEF name

LEMMA ExpandNamesInv ==
  ASSUME IInv, NamesInv, ExpandPlaceholder
  PROVE  NamesInv'
<1>1. /\ TypeOK /\ pc = "recursion"
      /\ UNCHANGED <<pc, meta_call, meta_tests, funcs>>
      /\ mgi.test_idx = Len(meta_tests)
  BY DEF IInv, ControlInv, InTest, ExpandPlaceholder
<1> DEFINE last == Len(stack)
           new == stack'[last + 1]
<1>2. /\ stack # <<>> /\ Len(stack') = last + 1 /\ stack' # <<>> /\ last \in Nat
      /\ \A i \in 1..last : stack'[i].mr = stack[i].mr /\ stack'[i].name = stack[i].name
      /\ mgi'.test_idx = mgi.test_idx
      /\ mgi.recursive_idx \in Nat /\ mgi'.recursive_idx = mgi.recursive_idx + 1
  BY <1>1, ExpandStep, StateFacts, MgiFacts DEF NextIdx
<1>3. /\ new.name.generated = IsCopied(new.mr)
      /\ IsCopied(new.mr) =>
           new.name.test = mgi.test_idx /\ new.name.idx = mgi.recursive_idx + 1
  BY <1>1, ExpandStep, NewName DEF NextIdx
<1> HIDE DEF new
<1>4. InTest /\ InTest'
  BY <1>1 DEF InTest
<1>5. /\ \A i \in 1..Len(funcs) : funcs[i].name.generated
      /\ \A i \in 1..Len(funcs) :
           \/ funcs[i].name.test < Len(meta_tests)
           \/ funcs[i].name.test = mgi.test_idx /\ funcs[i].name.idx <= mgi.recursive_idx
  BY <1>1 DEF NamesInv
<1>6. \A i \in 1..Len(funcs) : funcs[i].name.idx \in Nat /\ funcs[i].name.test \in Nat
  <2>1. \A i \in 1..Len(funcs) : funcs[i] \in Definition
    BY <1>1, StateFacts
  <2> QED
    BY <2>1 DEF Definition, FuncName
<1>7. IsCopied(new.mr) => \A j \in 1..Len(funcs) : funcs[j].name # new.name
  BY <1>1, <1>2, <1>3, <1>5, <1>6
<1>8. ASSUME NEW i \in 1..Len(stack')
      PROVE  /\ stack'[i].name.generated = IsCopied(stack'[i].mr)
             /\ IsCopied(stack'[i].mr) =>
                  /\ stack'[i].name.test = mgi'.test_idx
                  /\ stack'[i].name.idx <= mgi'.recursive_idx
                  /\ \A j \in 1..Len(funcs') : funcs'[j].name # stack'[i].name
                  /\ \A j \in 1..(i - 1) :
                       IsCopied(stack'[j].mr) => stack'[j].name.idx < stack'[i].name.idx
  <2>1. \A j \in 1..last :
          /\ stack[j].name.idx \in Nat
          /\ stack[j].name.generated = IsCopied(stack[j].mr)
          /\ IsCopied(stack[j].mr) =>
               /\ stack[j].name.test = mgi.test_idx
               /\ stack[j].name.idx <= mgi.recursive_idx
               /\ \A k \in 1..Len(funcs) : funcs[k].name # stack[j].name
               /\ \A k \in 1..(j - 1) :
                    IsCopied(stack[k].mr) => stack[k].name.idx < stack[j].name.idx
    <3>1. \A j \in 1..last : stack[j] \in StackedFrame
      BY <1>1, StateFacts
    <3> QED
      BY <3>1 DEF NamesInv, StackedFrame, FuncName
  <2>2. CASE i \in 1..last
    <3>1. \A j \in 1..(i - 1) : j \in 1..last
      BY <2>2, <1>2
    <3>2. /\ stack'[i].mr = stack[i].mr /\ stack'[i].name = stack[i].name
          /\ \A j \in 1..(i - 1) :
               stack'[j].mr = stack[j].mr /\ stack'[j].name = stack[j].name
      BY <3>1, <2>2, <1>2
    <3>3. stack[i].name.idx <= mgi.recursive_idx =>
            stack[i].name.idx <= mgi'.recursive_idx
      BY <2>1, <2>2, <1>2
    <3> QED
      BY <3>2, <3>3, <2>1, <2>2, <1>1, <1>2
  <2>3. CASE i = last + 1
    <3>1. stack'[i] = new
      BY <2>3 DEF new
    <3>2. \A j \in 1..(i - 1) : j \in 1..last
      BY <2>3, <1>2
    <3>3. IsCopied(new.mr) => \A j \in 1..last :
            IsCopied(stack'[j].mr) => stack'[j].name.idx < new.name.idx
      BY <2>1, <1>2, <1>3
    <3> QED
      BY <3>1, <3>2, <3>3, <2>3, <1>1, <1>2, <1>3, <1>7
  <2> QED
    BY <2>2, <2>3, <1>2
<1>9. DefinedOnce'
  BY <1>1 DEF NamesInv, DefinedOnce
<1>10. \A i \in 1..Len(funcs) :
          \/ funcs[i].name.test < Len(meta_tests)
          \/ funcs[i].name.test = mgi'.test_idx /\ funcs[i].name.idx <= mgi'.recursive_idx
  BY <1>2, <1>5, <1>6
<1>11. meta_call' = 0 => funcs' = <<>> /\ pc' \in {"expand", "done"}
  BY <1>1 DEF NamesInv
<1> QED
  BY <1>1, <1>2, <1>4, <1>5, <1>8, <1>9, <1>10, <1>11 DEF NamesInv

(* What an activation writes on its way back has a name of its own.        *)
LEMMA EmitNames ==
  ASSUME TypeOK, NamesInv, stack # <<>>, funcs' = Emit(Top)
  PROVE  /\ DefinedOnce'
         /\ \A i \in 1..Len(funcs') :
              \/ i \in 1..Len(funcs) /\ funcs'[i] = funcs[i]
              \/ /\ IsCopied(Top.mr)
                 /\ funcs'[i].name = stack[Len(stack)].name
<1>1. /\ Top = stack[Len(stack)] /\ Len(stack) \in 1..Len(stack)
      /\ Top \in StackedFrame
  BY StateFacts DEF Top
<1>2. /\ Len(funcs') \in Nat /\ Len(funcs) \in Nat
      /\ Len(funcs) <= Len(funcs') /\ Len(funcs') <= Len(funcs) + 1
      /\ \A i \in 1..Len(funcs) : funcs'[i] = funcs[i]
      /\ Len(funcs') = Len(funcs) + 1 =>
           /\ IsCopied(Top.mr)
           /\ funcs'[Len(funcs) + 1].name = Top.name
  <2>1. /\ Len(funcs') \in Nat
        /\ Len(funcs) <= Len(funcs') /\ Len(funcs') <= Len(funcs) + 1
        /\ \A i \in 1..Len(funcs) : funcs'[i] = funcs[i]
        /\ Len(funcs') = Len(funcs) + 1 =>
             /\ IsCopied(Top.mr)
             /\ funcs'[Len(funcs) + 1] = [name |-> Top.name, callees |-> Top.callees]
    BY <1>1, EmitDefines
  <2> QED
    BY <2>1, StateFacts
<1>3. ASSUME NEW i \in 1..Len(funcs')
      PROVE  \/ i \in 1..Len(funcs) /\ funcs'[i] = funcs[i]
             \/ /\ i = Len(funcs) + 1 /\ IsCopied(Top.mr)
                /\ funcs'[i].name = Top.name
  BY <1>2
<1>4. IsCopied(Top.mr) => \A j \in 1..Len(funcs) : funcs[j].name # Top.name
  BY <1>1 DEF NamesInv
<1>5. DefinedOnce
  BY DEF NamesInv
<1>6. DefinedOnce'
  BY <1>2, <1>3, <1>4, <1>5 DEF DefinedOnce
<1> QED
  BY <1>1, <1>3, <1>6

LEMMA ReturnNestedNamesInv ==
  ASSUME IInv, NamesInv, ReturnNested
  PROVE  NamesInv'
<1>1. /\ TypeOK /\ pc = "recursion" /\ Len(stack) > 1
      /\ funcs' = Emit(Top)
      /\ stack' = SubSeq(stack, 1, Len(stack) - 1)
      /\ mgi' = [mgi EXCEPT !.depth = @ - 1]
      /\ UNCHANGED <<pc, meta_call, meta_tests>>
      /\ mgi.test_idx = Len(meta_tests)
  BY DEF IInv, ControlInv, InTest, ReturnNested
<1> DEFINE last == Len(stack)
<1>2. /\ stack # <<>> /\ last \in Nat /\ last \in 1..last
      /\ Len(stack') = last - 1 /\ stack' # <<>>
      /\ \A i \in 1..(last - 1) : stack'[i] = stack[i]
  <2>1. stack \in Seq(StackedFrame) /\ last \in Nat
    BY <1>1, StateFacts
  <2>2. Len(stack') = last - 1 /\ \A i \in 1..(last - 1) : stack'[i] = stack[i]
    BY <2>1, <1>1
  <2>3. Len(<<>>) = 0
    OBVIOUS
  <2>4. stack # <<>> /\ stack' # <<>>
    BY <2>1, <2>2, <2>3, <1>1
  <2> QED
    BY <2>1, <2>2, <2>4, <1>1
<1>3. mgi'.test_idx = mgi.test_idx /\ mgi'.recursive_idx = mgi.recursive_idx
  BY <1>1 DEF TypeOK, mrGenInfo
<1>4. InTest /\ InTest'
  BY <1>1 DEF InTest
<1>5. /\ DefinedOnce'
      /\ \A i \in 1..Len(funcs') :
           \/ i \in 1..Len(funcs) /\ funcs'[i] = funcs[i]
           \/ /\ IsCopied(Top.mr)
              /\ funcs'[i].name = stack[last].name
  BY <1>1, <1>2, EmitNames
<1>6. \A i \in 1..last :
        /\ stack[i].name.idx \in Nat
        /\ stack[i].name.generated = IsCopied(stack[i].mr)
        /\ IsCopied(stack[i].mr) =>
             /\ stack[i].name.test = mgi.test_idx
             /\ stack[i].name.idx <= mgi.recursive_idx
             /\ \A j \in 1..Len(funcs) : funcs[j].name # stack[i].name
             /\ \A j \in 1..(i - 1) :
                  IsCopied(stack[j].mr) => stack[j].name.idx < stack[i].name.idx
  <2>1. \A i \in 1..last : stack[i] \in StackedFrame
    BY <1>1, StateFacts
  <2> QED
    BY <2>1 DEF NamesInv, StackedFrame, FuncName
<1>7. Top = stack[last]
  BY DEF Top
<1>8. ASSUME NEW i \in 1..Len(funcs')
      PROVE  /\ funcs'[i].name.generated
             /\ \/ funcs'[i].name.test < Len(meta_tests)
                \/ /\ funcs'[i].name.test = mgi.test_idx
                   /\ funcs'[i].name.idx <= mgi.recursive_idx
  <2>1. CASE i \in 1..Len(funcs) /\ funcs'[i] = funcs[i]
    BY <2>1, <1>1 DEF NamesInv
  <2>2. CASE IsCopied(Top.mr) /\ funcs'[i].name = stack[last].name
    BY <2>2, <1>2, <1>6, <1>7
  <2> QED
    BY <2>1, <2>2, <1>5
<1>9. ASSUME NEW i \in 1..Len(stack'), IsCopied(stack'[i].mr), NEW j \in 1..Len(funcs')
      PROVE  funcs'[j].name # stack'[i].name
  <2>1. i \in 1..last /\ i \in 1..(last - 1) /\ stack'[i] = stack[i]
    BY <1>2
  <2>2. CASE j \in 1..Len(funcs) /\ funcs'[j] = funcs[j]
    BY <2>1, <2>2, <1>6, <1>9
  <2>3. CASE IsCopied(Top.mr) /\ funcs'[j].name = stack[last].name
    <3>1. stack[i].name.idx < stack[last].name.idx
      BY <2>1, <2>3, <1>2, <1>6, <1>7, <1>9
    <3>2. stack[i].name.idx \in Nat /\ stack[last].name.idx \in Nat
      BY <2>1, <1>2, <1>6
    <3>3. stack[i].name.idx # stack[last].name.idx
      BY <3>1, <3>2
    <3> QED
      BY <3>3, <2>1, <2>3
  <2> QED
    BY <2>2, <2>3, <1>5
<1>10. ASSUME NEW i \in 1..Len(stack')
       PROVE  /\ stack'[i].name.generated = IsCopied(stack'[i].mr)
              /\ IsCopied(stack'[i].mr) =>
                   /\ stack'[i].name.test = mgi'.test_idx
                   /\ stack'[i].name.idx <= mgi'.recursive_idx
                   /\ \A j \in 1..Len(funcs') : funcs'[j].name # stack'[i].name
                   /\ \A j \in 1..(i - 1) :
                        IsCopied(stack'[j].mr) => stack'[j].name.idx < stack'[i].name.idx
  <2>1. /\ i \in 1..last /\ stack'[i] = stack[i]
        /\ \A j \in 1..(i - 1) : stack'[j] = stack[j]
    BY <1>2
  <2> QED
    BY <2>1, <1>3, <1>6, <1>9
<1>11. meta_call' = 0 => funcs' = <<>> /\ pc' \in {"expand", "done"}
  BY <1>1 DEF NamesInv
<1> QED
  BY <1>1, <1>2, <1>3, <1>4, <1>5, <1>8, <1>10, <1>11 DEF NamesInv

LEMMA ReturnToChainNamesInv ==
  ASSUME IInv, NamesInv, ReturnToChain
  PROVE  NamesInv'
<1>1. /\ TypeOK /\ pc = "recursion" /\ Len(stack) = 1
      /\ funcs' = Emit(Top)
      /\ stack' = <<>>
      /\ mgi' = [mgi EXCEPT !.recursive_idx = @ + 1, !.family_idx = @ + 1]
      /\ pc' \in {"relation", "check"}
      /\ UNCHANGED <<meta_call, meta_tests>>
      /\ mgi.test_idx = Len(meta_tests)
  BY DEF IInv, ControlInv, InTest, ReturnToChain
<1>2. mgi'.test_idx = mgi.test_idx /\ mgi'.recursive_idx = mgi.recursive_idx + 1
  BY <1>1 DEF TypeOK, mrGenInfo
<1>3. InTest /\ InTest'
  BY <1>1 DEF InTest
<1>4. stack # <<>> /\ Top = stack[1]
  <2>1. Len(<<>>) = 0
    OBVIOUS
  <2> QED
    BY <2>1, <1>1 DEF Top
<1>5. /\ DefinedOnce'
      /\ \A i \in 1..Len(funcs') :
           \/ i \in 1..Len(funcs) /\ funcs'[i] = funcs[i]
           \/ IsCopied(stack[1].mr) /\ funcs'[i].name = stack[1].name
  BY <1>1, <1>4, EmitNames
<1>6. /\ stack[1].name.generated = IsCopied(stack[1].mr)
      /\ IsCopied(stack[1].mr) =>
           stack[1].name.test = mgi.test_idx /\ stack[1].name.idx <= mgi.recursive_idx
  BY <1>1 DEF NamesInv
<1>7. \A i \in 1..Len(funcs') : funcs'[i].name.idx \in Nat
  <2>1. TypeOK'
    BY NextIInv DEF Next, IInv
  <2>2. funcs' \in Seq(Definition)
    BY <2>1 DEF TypeOK
  <2>3. \A i \in 1..Len(funcs') : funcs'[i] \in Definition
    BY <2>2
  <2> QED
    BY <2>3 DEF Definition, FuncName
<1>8. ASSUME NEW i \in 1..Len(funcs')
      PROVE  /\ funcs'[i].name.generated
             /\ \/ funcs'[i].name.test < Len(meta_tests)
                \/ /\ funcs'[i].name.test = mgi.test_idx
                   /\ funcs'[i].name.idx <= mgi.recursive_idx
  <2>1. CASE i \in 1..Len(funcs) /\ funcs'[i] = funcs[i]
    BY <2>1, <1>1 DEF NamesInv
  <2>2. CASE IsCopied(stack[1].mr) /\ funcs'[i].name = stack[1].name
    BY <2>2, <1>6
  <2> QED
    BY <2>1, <2>2, <1>5
<1>9. \A i \in 1..Len(funcs') :
        \/ funcs'[i].name.test < Len(meta_tests)
        \/ funcs'[i].name.test = mgi'.test_idx /\ funcs'[i].name.idx < mgi'.recursive_idx
  BY <1>1, <1>2, <1>7, <1>8, MgiFacts
<1>10. meta_call' = 0 => funcs' = <<>> /\ pc' \in {"expand", "done"}
  BY <1>1 DEF NamesInv
<1> QED
  BY <1>1, <1>2, <1>3, <1>5, <1>7, <1>8, <1>9, <1>10, MgiFacts DEF NamesInv

(* The other steps make no name.                                           *)
LEMMA OtherNamesInv ==
  ASSUME IInv, NamesInv, MetaCalls <= 1,
         \/ GenerateMetaTests \/ StartTest \/ FinishTest \/ ConcretizeCheck
         \/ AllExpanded \/ FamilyComplete \/ TooFewStored \/ NoMatchingDecl
         \/ UNCHANGED vars
  PROVE  NamesInv'
<1>1. UNCHANGED <<funcs, stack>>
  BY DEF GenerateMetaTests, StartTest, FinishTest, ConcretizeCheck, AllExpanded,
         FamilyComplete, TooFewStored, NoMatchingDecl, vars
<1>2. /\ TypeOK /\ ControlInv
      /\ Len(meta_tests) \in Nat /\ meta_call \in Nat
      /\ DefinedOnce'
  <2>1. TypeOK /\ ControlInv /\ DefinedOnce
    BY DEF IInv, NamesInv
  <2>2. meta_tests \in Seq(Seq(Statement)) /\ meta_call \in 0..MetaCalls
    BY <2>1 DEF TypeOK
  <2>3. Len(meta_tests) \in Nat /\ meta_call \in Nat
    BY <2>2, OptionAssumption
  <2>4. DefinedOnce'
    BY <2>1, <1>1 DEF DefinedOnce
  <2> QED
    BY <2>1, <2>3, <2>4
<1>3. \A i \in 1..Len(funcs) : funcs[i].name.idx \in Nat /\ funcs[i].name.test \in Nat
  <2>1. \A i \in 1..Len(funcs) : funcs[i] \in Definition
    BY <1>2, StateFacts
  <2> QED
    BY <2>1 DEF Definition, FuncName
<1> DEFINE Names(fs, tests, in, id, idx, st) ==
             \A i \in 1..Len(fs) :
               \/ fs[i].name.test < Len(tests)
               \/ /\ in /\ fs[i].name.test = id
                  /\ fs[i].name.idx <= idx
                  /\ st = <<>> => fs[i].name.idx < idx
           StackNames(fs, id, idx, st) ==
             \A i \in 1..Len(st) :
               /\ st[i].name.generated = IsCopied(st[i].mr)
               /\ IsCopied(st[i].mr) =>
                    /\ st[i].name.test = id
                    /\ st[i].name.idx <= idx
                    /\ \A j \in 1..Len(fs) : fs[j].name # st[i].name
                    /\ \A j \in 1..(i - 1) :
                         IsCopied(st[j].mr) => st[j].name.idx < st[i].name.idx
<1>4. /\ pc \notin {"expand", "done"} =>
           Names(funcs, meta_tests, InTest, mgi.test_idx, mgi.recursive_idx, stack)
      /\ StackNames(funcs, mgi.test_idx, mgi.recursive_idx, stack)
      /\ meta_call = 0 => funcs = <<>> /\ pc \in {"expand", "done"}
      /\ \A i \in 1..Len(funcs) : funcs[i].name.generated
  BY DEF NamesInv
<1>5. SUFFICES /\ pc' \notin {"expand", "done"} =>
                    Names(funcs, meta_tests', InTest', mgi'.test_idx, mgi'.recursive_idx, stack)
               /\ StackNames(funcs, mgi'.test_idx, mgi'.recursive_idx, stack)
               /\ meta_call' = 0 => funcs = <<>> /\ pc' \in {"expand", "done"}
  BY <1>1, <1>2, <1>4 DEF NamesInv
<1>6. CASE GenerateMetaTests
  <2>1. meta_call = 0 /\ meta_call' = 1 /\ funcs = <<>> /\ UNCHANGED mgi
    BY <1>2, <1>4, <1>6, OptionAssumption DEF GenerateMetaTests
  <2> QED
    BY <2>1, <1>4
<1>7. CASE StartTest
  <2>1. /\ pc = "next_test" /\ stack = <<>> /\ ~InTest
        /\ UNCHANGED <<meta_call, meta_tests>>
    BY <1>2, <1>7 DEF StartTest, ControlInv, InTest
  <2>2. Names(funcs, meta_tests', InTest', mgi'.test_idx, mgi'.recursive_idx, stack)
    BY <2>1, <1>4
  <2>3. StackNames(funcs, mgi'.test_idx, mgi'.recursive_idx, stack)
    BY <2>1
  <2> QED
    BY <2>1, <2>2, <2>3, <1>4
<1>8. CASE FinishTest
  <2>1. /\ pc = "check" /\ InTest /\ mgi.test_idx = Len(meta_tests)
        /\ UNCHANGED <<meta_call, mgi>>
        /\ Len(meta_tests') = Len(meta_tests) + 1
    BY <1>2, <1>8, FinishStep DEF FinishTest, ControlInv, InTest
  <2>2. Names(funcs, meta_tests', InTest', mgi'.test_idx, mgi'.recursive_idx, stack)
    BY <2>1, <1>2, <1>3, <1>4
  <2> QED
    BY <2>1, <2>2, <1>4
<1>9. CASE ConcretizeCheck
  <2>1. /\ pc = "check" /\ InTest /\ InTest' /\ UNCHANGED <<pc, meta_call, meta_tests>>
        /\ mgi' = [mgi EXCEPT !.family_idx = -1]
    BY <1>9 DEF ConcretizeCheck, InTest
  <2>2. mgi'.test_idx = mgi.test_idx /\ mgi'.recursive_idx = mgi.recursive_idx
    BY <2>1, <1>2 DEF TypeOK, mrGenInfo
  <2> QED
    BY <2>1, <2>2, <1>4
<1>10. CASE AllExpanded \/ FamilyComplete
  BY <1>4, <1>10 DEF AllExpanded, FamilyComplete
<1>11. CASE TooFewStored \/ NoMatchingDecl
  <2>1. /\ pc \in {"relation", "recursion"} /\ pc' \in {"abort", "exit"}
        /\ UNCHANGED <<meta_call, meta_tests, mgi>>
    BY <1>11 DEF TooFewStored, NoMatchingDecl
  <2>2. InTest /\ InTest'
    BY <2>1 DEF InTest
  <2> QED
    BY <2>1, <2>2, <1>4
<1>12. CASE UNCHANGED vars
  <2>1. UNCHANGED <<pc, meta_call, meta_tests, mgi>>
    BY <1>12 DEF vars
  <2>2. InTest' = InTest
    BY <2>1 DEF InTest
  <2> QED
    BY <2>1, <2>2, <1>4
<1> QED
  BY <1>6, <1>7, <1>8, <1>9, <1>10, <1>11, <1>12

(* With one fuzz::meta_test() call in the template no function is defined  *)
(* twice, however many tests, relations and placeholders there are         *)
(* (makeUniqueFuncCallName, recursive_idx).  The run two_calls_names shows *)
(* why the hypothesis is needed.                                           *)
THEOREM EachDefinedOnce ==
  ASSUME MetaCalls <= 1
  PROVE  Spec => []DefinedOnce
<1>1. Init => NamesInv
  BY DEF Init, NamesInv, DefinedOnce
<1>2. IInv /\ NamesInv /\ [Next]_vars => NamesInv'
  BY RelationNamesInv, ExpandNamesInv, ReturnNestedNamesInv, ReturnToChainNamesInv,
     OtherNamesInv DEF Next
<1>3. NamesInv => DefinedOnce
  BY DEF NamesInv
<1> QED
  BY <1>1, <1>2, <1>3, InductiveInvariant, PTL DEF Spec

-----------------------------------------------------------------------------
(***************************************************************************)
(* Variants are checked.                                                   *)
(***************************************************************************)

(* Statement s applies check c to the variable of test id, and to r_0.     *)
Compares(s, c, id) ==
  LET metas == {k \in 1..Len(s.params) : s.params[k] = "meta"}
  IN  /\ s.callee.fn = Checks[c].name
      /\ \A k \in metas :
           s.args[k] = getMetaVarName(IF \A j \in metas : k <= j THEN id ELSE 0)

(* The checks of the unfinished test are the first ones, in order.         *)
CheckedInv ==
  /\ EveryVariantChecked
  /\ pc = "check" =>
       /\ checks_done <= Len(Checks)
       /\ \A c \in 1..checks_done :
            Compares(mt_body[meta_test_rel_count + c], c, mgi.test_idx)

(* What makeMRFuncCall writes for a check: its own variable where the      *)
(* first metamorphic parameter is, and r_0 elsewhere.                      *)
LEMMA CheckCompares ==
  ASSUME NEW c \in 1..Len(Checks), Checks[c] \in CheckDecl,
         NEW args \in FreshArgs(Checks[c].params, -1, {getMetaVarName(0)}),
         NEW s, s = [family |-> NoFamily, params |-> Checks[c].params,
                     callee |-> Qualified(Checks[c].name), decl |-> FALSE, args |-> args]
  PROVE  Compares(s, c, mgi.test_idx)
<1> DEFINE params == Checks[c].params
           metas == {k \in 1..Len(params) : params[k] = "meta"}
<1>1. params \in Seq(ParamKind) /\ Len(params) \in Nat
  BY DEF CheckDecl
<1>2. s.params = params /\ s.args = args /\ s.callee.fn = Checks[c].name
  BY DEF Qualified
<1>3. \A k \in 1..Len(params) :
        args[k] \in ArgChoices(params, k, -1, {getMetaVarName(0)})
  BY DEF FreshArgs
<1> HIDE DEF params
<1>4. ASSUME NEW k \in metas
      PROVE  args[k] = getMetaVarName(IF \A j \in metas : k <= j THEN mgi.test_idx ELSE 0)
  <2>1. k \in 1..Len(params) /\ params[k] = "meta"
    OBVIOUS
  <2>2. CASE \A j \in metas : k <= j
    <3>1. \A j \in 1..(k - 1) : params[j] # "meta"
      BY <2>1, <2>2, <1>1
    <3>2. TakesOwn(params, k, -1)
      BY <2>1, <3>1 DEF TakesOwn
    <3> QED
      BY <2>1, <2>2, <3>2, <1>3 DEF ArgChoices, curr_mr_var_name
  <2>3. CASE ~(\A j \in metas : k <= j)
    <3>1. PICK j \in metas : ~(k <= j)
      BY <2>3
    <3>2. j \in 1..(k - 1) /\ params[j] = "meta"
      BY <2>1, <3>1, <1>1
    <3>3. ~TakesOwn(params, k, -1)
      BY <3>2 DEF TakesOwn
    <3> QED
      BY <2>1, <2>3, <3>3, <1>3 DEF ArgChoices
  <2> QED
    BY <2>2, <2>3
<1> QED
  BY <1>2, <1>4 DEF Compares

(* EveryVariantChecked of some other tests than those written so far.      *)
ChecksApplied(tests) ==
  \A t \in 1..Len(tests) :
    t > 1 \/ trivial_check =>
      /\ Len(tests[t]) = meta_test_rel_count + Len(Checks)
      /\ \A c \in 1..Len(Checks) :
           LET s == tests[t][meta_test_rel_count + c]
               metas == {k \in 1..Len(s.params) : s.params[k] = "meta"}
           IN /\ s.callee.fn = Checks[c].name
              /\ \A k \in metas :
                   s.args[k] = getMetaVarName(IF \A j \in metas : k <= j THEN t - 1 ELSE 0)

LEMMA SameTests ==
  ASSUME EveryVariantChecked, UNCHANGED meta_tests
  PROVE  EveryVariantChecked'
<1>1. ChecksApplied(meta_tests)
  BY Zenon DEF EveryVariantChecked, ChecksApplied
<1>2. ChecksApplied(meta_tests')
  BY <1>1
<1>3. ChecksApplied(meta_tests') => EveryVariantChecked'
  BY Zenon DEF EveryVariantChecked, ChecksApplied
<1> QED
  BY <1>2, <1>3

LEMMA CheckCheckedInv ==
  ASSUME IInv, CheckedInv, ConcretizeCheck
  PROVE  CheckedInv'
<1>1. /\ checks_done \in Nat /\ checks_done + 1 \in 1..Len(Checks)
      /\ Checks[checks_done + 1] \in CheckDecl
      /\ Len(mt_body') = Len(mt_body) + 1
      /\ \A n \in 1..Len(mt_body) : mt_body'[n] = mt_body[n]
  BY CheckStep
<1>2. PICK args \in FreshArgs(Checks[checks_done + 1].params, -1, {getMetaVarName(0)}) :
        mt_body'[Len(mt_body) + 1] =
          [family |-> NoFamily, params |-> Checks[checks_done + 1].params,
           callee |-> Qualified(Checks[checks_done + 1].name),
           decl |-> FALSE, args |-> args]
  BY CheckStep
<1>3. /\ TypeOK /\ Len(mt_body) \in Nat /\ Len(mt_body) >= meta_test_rel_count
      /\ pc = "check" /\ mgi' = [mgi EXCEPT !.family_idx = -1]
      /\ UNCHANGED <<pc, meta_tests>>
      /\ Len(Checks) \in Nat /\ meta_test_rel_count \in Nat
  BY StateFacts, SpecAssumption, OptionAssumption DEF IInv, ControlInv, ConcretizeCheck
<1>4. mgi'.test_idx = mgi.test_idx
  BY <1>3 DEF TypeOK, mrGenInfo
<1>5. checks_done' = checks_done + 1 /\ Len(mt_body) = meta_test_rel_count + checks_done
  BY <1>1, <1>3 DEF checks_done
<1>6. Compares(mt_body'[meta_test_rel_count + (checks_done + 1)], checks_done + 1, mgi.test_idx)
  <2>1. Compares(mt_body'[Len(mt_body) + 1], checks_done + 1, mgi.test_idx)
    BY <1>1, <1>2, CheckCompares
  <2>2. meta_test_rel_count + (checks_done + 1) = Len(mt_body) + 1
    BY <1>1, <1>3, <1>5
  <2> QED
    BY <2>1, <2>2
<1>7. \A c \in 1..checks_done :
        Compares(mt_body'[meta_test_rel_count + c], c, mgi.test_idx)
  <2> SUFFICES ASSUME NEW c \in 1..checks_done
               PROVE  Compares(mt_body'[meta_test_rel_count + c], c, mgi.test_idx)
    OBVIOUS
  <2>1. Compares(mt_body[meta_test_rel_count + c], c, mgi.test_idx)
    BY <1>3 DEF CheckedInv
  <2>2. meta_test_rel_count + c \in 1..Len(mt_body)
    BY <1>1, <1>3, <1>5
  <2> QED
    BY <2>1, <2>2, <1>1
<1>8. \A c \in 1..checks_done' :
        Compares(mt_body'[meta_test_rel_count + c], c, mgi'.test_idx)
  <2>1. \A c \in 1..checks_done' : c \in 1..checks_done \/ c = checks_done + 1
    BY <1>1, <1>5
  <2> QED
    BY <2>1, <1>4, <1>6, <1>7
<1>9. EveryVariantChecked'
  BY <1>3, SameTests DEF CheckedInv
<1> QED
  BY <1>1, <1>3, <1>5, <1>8, <1>9 DEF CheckedInv

LEMMA FinishCheckedInv ==
  ASSUME IInv, CheckedInv, FinishTest
  PROVE  CheckedInv'
<1>1. /\ TypeOK /\ pc = "check" /\ pc' = "next_test"
      /\ ~IsChecked(mgi.test_idx) \/ checks_done = Len(Checks)
      /\ mgi.test_idx = Len(meta_tests) /\ Len(meta_tests) \in Nat /\ Len(mt_body) \in Nat
      /\ Len(Checks) \in Nat /\ meta_test_rel_count \in Nat
  BY StateFacts, SpecAssumption, OptionAssumption DEF FinishTest, IInv, ControlInv, InTest
<1>2. /\ Len(meta_tests') = Len(meta_tests) + 1
      /\ \A t \in 1..Len(meta_tests) : meta_tests'[t] = meta_tests[t]
      /\ meta_tests'[Len(meta_tests) + 1] = mt_body
  BY <1>1, FinishStep
<1> DEFINE Done(test, id) ==
             /\ Len(test) = meta_test_rel_count + Len(Checks)
             /\ \A c \in 1..Len(Checks) : Compares(test[meta_test_rel_count + c], c, id)
<1>3. EveryVariantChecked <=>
        \A t \in 1..Len(meta_tests) : t > 1 \/ trivial_check => Done(meta_tests[t], t - 1)
  BY DEF EveryVariantChecked, Compares
<1>4. EveryVariantChecked' <=>
        \A t \in 1..Len(meta_tests') : t > 1 \/ trivial_check => Done(meta_tests'[t], t - 1)
  BY DEF EveryVariantChecked, Compares
<1>5. ASSUME Len(meta_tests) + 1 > 1 \/ trivial_check
      PROVE  Done(mt_body, mgi.test_idx)
  <2>1. checks_done = Len(Checks)
    BY <1>1, <1>5 DEF IsChecked
  <2> QED
    BY <2>1, <1>1 DEF CheckedInv, checks_done
<1> HIDE DEF Done
<1>6. ASSUME NEW t \in 1..Len(meta_tests'), t > 1 \/ trivial_check
      PROVE  Done(meta_tests'[t], t - 1)
  <2>1. CASE t \in 1..Len(meta_tests)
    BY <2>1, <1>2, <1>3, <1>6 DEF CheckedInv
  <2>2. CASE t = Len(meta_tests) + 1
    <3>1. t - 1 = mgi.test_idx
      BY <2>2, <1>1
    <3> QED
      BY <3>1, <2>2, <1>2, <1>5, <1>6
  <2> QED
    BY <2>1, <2>2, <1>1, <1>2
<1> QED
  BY <1>1, <1>4, <1>6 DEF CheckedInv

LEMMA NextCheckedInv == IInv /\ CheckedInv /\ [Next]_vars => CheckedInv'
<1> SUFFICES ASSUME IInv, CheckedInv, [Next]_vars PROVE CheckedInv'
  OBVIOUS
<1>1. CASE ConcretizeCheck
  BY <1>1, CheckCheckedInv
<1>2. CASE FinishTest
  BY <1>2, FinishCheckedInv
<1>3. CASE GenerateMetaTests
  BY <1>3 DEF GenerateMetaTests, CheckedInv, EveryVariantChecked
<1>4. CASE ReturnToChain
  <2>1. /\ mgi.family_idx \in Positions /\ Len(mt_body) = mgi.family_idx + 1
        /\ UNCHANGED <<mt_body, meta_tests>>
        /\ pc' = IF mgi.family_idx + 1 < meta_test_rel_count THEN "relation" ELSE "check"
    BY <1>4 DEF ReturnToChain, IInv, ControlInv
  <2>2. pc' = "check" => checks_done' = 0
    BY <2>1, OptionAssumption DEF checks_done, Positions
  <2>3. Len(Checks) \in Nat
    BY SpecAssumption
  <2>4. EveryVariantChecked'
    BY <2>1, SameTests DEF CheckedInv
  <2> QED
    BY <2>2, <2>3, <2>4 DEF CheckedInv
<1>5. CASE \/ AllExpanded \/ StartTest \/ FamilyComplete \/ ConcretizeMetaRelation
           \/ TooFewStored \/ ExpandPlaceholder \/ NoMatchingDecl \/ ReturnNested
  <2>1. pc' # "check" /\ UNCHANGED meta_tests
    BY <1>5 DEF AllExpanded, StartTest, FamilyComplete, ConcretizeMetaRelation, TooFewStored,
                ExpandPlaceholder, NoMatchingDecl, ReturnNested
  <2> QED
    BY <2>1, SameTests DEF CheckedInv
<1>6. CASE UNCHANGED vars
  BY <1>6 DEF vars, CheckedInv, EveryVariantChecked, checks_done
<1> QED
  BY <1>1, <1>2, <1>3, <1>4, <1>5, <1>6 DEF Next

(* No variant but the first is finished without every check being applied  *)
(* to its own result and to r_0, whatever parameters the checks have       *)
(* (generateSingleMetaTest, makeMRFuncCall with family_idx -1).            *)
THEOREM VariantsChecked == Spec => []EveryVariantChecked
<1>1. Init => CheckedInv
  BY DEF Init, CheckedInv, EveryVariantChecked
<1>2. CheckedInv => EveryVariantChecked
  BY DEF CheckedInv
<1> QED
  BY <1>1, <1>2, NextCheckedInv, InductiveInvariant, PTL DEF Spec
=============================================================================
