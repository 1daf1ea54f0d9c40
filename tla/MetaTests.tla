------------------------------ MODULE MetaTests ------------------------------
(***************************************************************************)
(* The metamorphic test generator: metaGenerator::expandMetaTests and the  *)
(* functions below it (src/src/generateMetaTests.cpp).                     *)
(*                                                                         *)
(* Each fuzz::meta_test() call of the template is replaced by a family of  *)
(* tests.  All tests of a family apply relations of the same families, in  *)
(* the same order, to the same inputs, so that their results r_0, r_1, ... *)
(* must be equivalent; the checks compare r_i with r_0.  A relation whose  *)
(* body has `placeholder` calls is copied under a fresh name, and each     *)
(* placeholder is replaced by a call to a random relation or generator,    *)
(* recursively.                                                            *)
(*                                                                         *)
(* C++ text is abstracted to what the properties tell apart: a statement   *)
(* is a record of what it declares, calls and passes, a variable name is   *)
(* its prefix and its number, and the text of an argument to a recursive   *)
(* call is left out.                                                       *)
(***************************************************************************)
EXTENDS Integers, Sequences

CONSTANTS
  MRs,        \* the names of the relations and generators in meta_rel_decls
  MRInfo,     \* what MRTraverser and the mrInfo constructor find in each
  Checks,     \* meta_check_decls, in order: a name and a parameter list each
  Inputs,     \* the numbers of the input variables output_var_0, ...
  Values,     \* main variables and literals for the other parameter types
  MetaCalls,  \* how many fuzz::meta_test() calls the template has
  meta_test_count,      \* --tests
  meta_test_rel_count,  \* --test-size
  meta_test_depth,      \* --test-depth
  trivial_check,        \* --trivial-check
  PruneOptions          \* the values of --prune-depth a run is started with

REL_TYPE == {"generators", "relations"}

(* A parameter has the type of the metamorphic variable, or another one.   *)
ParamKind == {"meta", "other"}

is_base_func(mr) == MRInfo[mr].recursive_calls = <<>>

(* meta_rel_decls.at({type, family}); a pair never logged has no members.  *)
meta_rel_decls(type, family) ==
  {mr \in MRs : MRInfo[mr].type = type /\ MRInfo[mr].family = family}

meta_families == {MRInfo[mr].family : mr \in {m \in MRs : MRInfo[m].type = "relations"}}

Placeholder == [type : REL_TYPE, family : STRING]

MRDecl ==
  [type : REL_TYPE, family : STRING, name : STRING, params : Seq(ParamKind),
   recursive_calls : Seq(Placeholder), has_fuzz_call : BOOLEAN]

CheckDecl == [name : STRING, params : Seq(ParamKind)]

ASSUME SpecAssumption ==
  /\ MRs \subseteq STRING
  /\ MRInfo \in [MRs -> MRDecl]
  /\ meta_families # {}
  /\ Checks \in Seq(CheckDecl)
  /\ Inputs \subseteq Nat /\ Inputs # {}
  /\ Values # {}

ASSUME OptionAssumption ==
  /\ MetaCalls \in Nat
  /\ meta_test_count \in Nat
  /\ meta_test_rel_count \in Nat \ {0}
  /\ meta_test_depth \in Nat
  /\ trivial_check \in BOOLEAN
  /\ PruneOptions \subseteq {"noprune", "linear", "logarithm"}
  /\ "linear" \in PruneOptions => meta_test_depth > 0

VARIABLES
  prune_option,   \* --prune-depth, which main sets before any pass
  pc,             \* where generation is
  meta_call,      \* how many fuzz::meta_test() calls have been started
  meta_family_chain,
  mr_input_vars,  \* static: the arguments of each chain position, once drawn
  mgi,            \* the mrGenInfo of the test being generated
  stack,          \* the live activations of makeRecursiveFunctionCalls
  mt_body,        \* the statements of the test being generated
  meta_tests,     \* the finished tests of this fuzz::meta_test() call
  funcs           \* the function definitions inserted before main, in order

vars == <<prune_option, pc, meta_call, meta_family_chain, mr_input_vars, mgi, stack,
          mt_body, meta_tests, funcs>>

-----------------------------------------------------------------------------
(***************************************************************************)
(* Names and arguments.                                                    *)
(***************************************************************************)

getMetaVarName(id) == <<"r", id>>
getMetaInputVarName(id) == <<"output_var", id>>
Own == <<"<>", 0>>       \* how mr_input_vars stores "the variable of this test"

curr_mr_var_name == getMetaVarName(mgi.test_idx)

InputNames == {getMetaInputVarName(i) : i \in Inputs}
Literals == {<<"value", v>> : v \in Values}

(* The text stored for an argument, and the argument read back from it.    *)
ToStoredVerbatim(arg) == arg
ToStored(arg)   == IF arg = curr_mr_var_name THEN Own ELSE arg
FromStored(arg) == IF arg = Own THEN curr_mr_var_name ELSE arg

Positions == 0..(meta_test_rel_count - 1)

(* The name under which relation mr is called when the counter is idx: a   *)
(* copied relation gets a generated name, any other its qualified one.     *)
IsCopied(mr) == ~is_base_func(mr) \/ MRInfo[mr].has_fuzz_call

Qualified(fn) == [generated |-> FALSE, fn |-> fn, test |-> 0, idx |-> 0]

makeUniqueFuncCallName(mr, idx) ==
  IF IsCopied(mr)
  THEN [generated |-> TRUE, fn |-> MRInfo[mr].name, test |-> mgi.test_idx, idx |-> idx]
  ELSE Qualified(mr)

TakesOwnEverywhere(params, k, family_idx) ==
  /\ params[k] = "meta"
  /\ \A j \in 1..(k - 1) : params[j] # "meta"

(* The parameter that takes the variable of the test itself: the first of  *)
(* metamorphic type, except in the first relation of a test, where that    *)
(* variable does not exist yet.                                            *)
TakesOwn(params, k, family_idx) ==
  /\ family_idx # 0
  /\ params[k] = "meta"
  /\ \A j \in 1..(k - 1) : params[j] # "meta"

(* What makeMRFuncCall can choose for parameter k when nothing is stored;  *)
(* input_var_names are the variables that fill the other metamorphic ones. *)
ArgChoices(params, k, family_idx, input_var_names) ==
  IF TakesOwn(params, k, family_idx) THEN {curr_mr_var_name}
  ELSE IF params[k] = "meta" THEN input_var_names
  ELSE Literals

FreshArgs(params, family_idx, input_var_names) ==
  {args \in [1..Len(params) ->
               UNION {ArgChoices(params, k, family_idx, input_var_names) : k \in 1..Len(params)}] :
     \A k \in 1..Len(params) : args[k] \in ArgChoices(params, k, family_idx, input_var_names)}

RelationArgsFresh(params, base_params) == FreshArgs(params, mgi.family_idx, InputNames)

(* The argument lists makeMRFuncCall can produce for a relation of the     *)
(* chain.  Stored arguments are reused; none fits if there are too few.    *)
RelationArgs(params, base_params) ==
  IF base_params = <<>> THEN FreshArgs(params, mgi.family_idx, InputNames)
  ELSE IF Len(params) <= Len(base_params)
       THEN {[k \in 1..Len(params) |-> FromStored(base_params[k])]}
  ELSE {}

(* What can be stored for a relation.                                      *)
StoredArgument == InputNames \cup Literals \cup {Own}
StoredArguments ==
  UNION {[1..Len(MRInfo[mr].params) -> StoredArgument] : mr \in MRs}

(* Every argument, callee and statement that can be written.               *)
Argument == StoredArgument \cup ({"r"} \X Nat)
NoFamily == "no family"          \* what a check belongs to
FuncName == [generated : BOOLEAN, fn : STRING, test : Nat, idx : Nat]
Statement == [family : STRING \cup {NoFamily}, params : Seq(ParamKind), callee : FuncName,
              decl : BOOLEAN, args : Seq(Argument)]

-----------------------------------------------------------------------------
(***************************************************************************)
(* Choosing the target of a placeholder.                                   *)
(***************************************************************************)

BaseChanceLate(base, d) == base = (meta_test_depth + 1 < d)

(* The values `base` the flag base_chance can get at recursion depth d.    *)
(* generateRand draws from a closed interval.                              *)
BaseChance(base, d) ==
  \/ /\ prune_option = "noprune"
     /\ base = (meta_test_depth < d)
  \/ /\ prune_option = "linear"
     /\ \E r \in 1..meta_test_depth : base = (r < d)
  \/ /\ prune_option = "logarithm"
     /\ d = 0 => ~base
     /\ d > meta_test_depth => base

retrieveRandMrDecl(type, family, base) ==
  {mr \in meta_rel_decls(type, family) : base => is_base_func(mr)}

-----------------------------------------------------------------------------

NewMGI(test_idx) ==
  [test_idx |-> test_idx, family_idx |-> 0, recursive_idx |-> 0, depth |-> 0,
   first_decl |-> TRUE]

Frame0(mr, name) == [mr |-> mr, name |-> name, next |-> 0, callees |-> <<>>]
Frame(mr, name) == [mr |-> mr, name |-> name, next |-> 1, callees |-> <<>>]

Top == stack[Len(stack)]
Pending == MRInfo[Top.mr].recursive_calls

Init ==
  /\ prune_option \in PruneOptions
  /\ pc = "expand"
  /\ meta_call = 0
  /\ meta_family_chain = <<>>
  /\ mr_input_vars = [p \in Positions |-> <<>>]
  /\ mgi = NewMGI(0)
  /\ stack = <<>>
  /\ mt_body = <<>>
  /\ meta_tests = <<>>
  /\ funcs = <<>>

(* The next fuzz::meta_test() call draws a new chain of families.          *)
(* mr_input_vars.emplace leaves an entry that is already there alone.      *)
GenerateMetaTests ==
  /\ pc = "expand"
  /\ meta_call < MetaCalls
  /\ meta_call' = meta_call + 1
  /\ meta_family_chain' \in [1..meta_test_rel_count -> meta_families]
  /\ meta_tests' = <<>>
  /\ pc' = "next_test"
  /\ UNCHANGED <<prune_option, mr_input_vars, mgi, stack, mt_body, funcs>>

(* No call is left: the pass ends.                                         *)
AllExpanded ==
  /\ pc = "expand"
  /\ meta_call = MetaCalls
  /\ pc' = "done"
  /\ UNCHANGED <<prune_option, meta_call, meta_family_chain, mr_input_vars, mgi, stack,
                 mt_body, meta_tests, funcs>>

StartTest ==
  /\ pc = "next_test"
  /\ Len(meta_tests) < meta_test_count
  /\ mgi' = NewMGI(Len(meta_tests))
  /\ mt_body' = <<>>
  /\ pc' = "relation"
  /\ UNCHANGED <<prune_option, meta_call, meta_family_chain, mr_input_vars, stack,
                 meta_tests, funcs>>

FamilyComplete ==
  /\ pc = "next_test"
  /\ Len(meta_tests) = meta_test_count
  /\ pc' = "expand"
  /\ UNCHANGED <<prune_option, meta_call, meta_family_chain, mr_input_vars, mgi, stack,
                 mt_body, meta_tests, funcs>>

(* The relations a test may pick at the current position of the chain.     *)
meta_rel_choices ==
  meta_rel_decls("relations", meta_family_chain[mgi.family_idx + 1])

(* concretizeMetaRelation: one statement, assigned to the test's variable, *)
(* which the first one also declares; its arguments are stored the first   *)
(* time this position is reached.                                          *)
ConcretizeMetaRelation ==
  /\ pc = "relation"
  /\ \E mr \in meta_rel_choices :
       LET params == MRInfo[mr].params
           stored == mr_input_vars[mgi.family_idx]
           name   == makeUniqueFuncCallName(mr, mgi.recursive_idx)
       IN \E args \in RelationArgs(params, stored) :
            /\ mt_body' = Append(mt_body,
                 [family |-> MRInfo[mr].family, params |-> params, callee |-> name,
                  decl |-> mgi.first_decl, args |-> args])
            /\ mr_input_vars' =
                 IF stored = <<>>
                 THEN [mr_input_vars EXCEPT ![mgi.family_idx] =
                         [k \in 1..Len(params) |-> ToStored(args[k])]]
                 ELSE mr_input_vars
            /\ stack' = <<Frame(mr, name)>>
  /\ mgi' = [mgi EXCEPT !.first_decl = FALSE]
  /\ pc' = "recursion"
  /\ UNCHANGED <<prune_option, meta_call, meta_family_chain, meta_tests, funcs>>

(* The assertion on base_params in makeMRFuncCall: a relation with more    *)
(* parameters than were stored for its position stops the tool.            *)
TooFewStored ==
  /\ pc = "relation"
  /\ mr_input_vars[mgi.family_idx] # <<>>
  /\ \E mr \in meta_rel_choices :
       Len(MRInfo[mr].params) > Len(mr_input_vars[mgi.family_idx])
  /\ pc' = "abort"
  /\ UNCHANGED <<prune_option, meta_call, meta_family_chain, mr_input_vars, mgi, stack,
                 mt_body, meta_tests, funcs>>

(* One turn of the loop in makeRecursiveFunctionCalls: the next            *)
(* placeholder of the innermost copy becomes a call, and the callee is     *)
(* expanded in turn.                                                       *)
NextIdxStuck == mgi.recursive_idx
NextIdx == mgi.recursive_idx + 1

ExpandPlaceholder ==
  /\ pc = "recursion"
  /\ Top.next <= Len(Pending)
  /\ \E base \in BOOLEAN :
       /\ BaseChance(base, mgi.depth)
       /\ \E mr \in retrieveRandMrDecl(Pending[Top.next].type, Pending[Top.next].family, base) :
            LET name == makeUniqueFuncCallName(mr, NextIdx)
            IN stack' = Append([stack EXCEPT ![Len(stack)].next = @ + 1,
                                             ![Len(stack)].callees = Append(@, name)],
                               Frame(mr, name))
  /\ mgi' = [mgi EXCEPT !.recursive_idx = NextIdx, !.depth = @ + 1]
  /\ UNCHANGED <<prune_option, pc, meta_call, meta_family_chain, mr_input_vars, mt_body,
                 meta_tests, funcs>>

UnfillableUnfiltered(call, base) == meta_rel_decls(call.type, call.family) = {}
Unfillable(call, base) == retrieveRandMrDecl(call.type, call.family, base) = {}

(* CHECK_CONDITION in retrieveRandMrDecl: nothing can fill the placeholder *)
(* and the tool exits.                                                     *)
NoMatchingDecl ==
  /\ pc = "recursion"
  /\ Top.next <= Len(Pending)
  /\ \E base \in BOOLEAN :
       /\ BaseChance(base, mgi.depth)
       /\ Unfillable(Pending[Top.next], base)
  /\ pc' = "exit"
  /\ UNCHANGED <<prune_option, meta_call, meta_family_chain, mr_input_vars, mgi, stack,
                 mt_body, meta_tests, funcs>>

EmitFirst(frame) ==
  IF IsCopied(frame.mr)
  THEN <<[name |-> frame.name, callees |-> frame.callees]>> \o funcs
  ELSE funcs

(* The text of a finished copy goes after the text of the copies it calls. *)
Emit(frame) ==
  IF IsCopied(frame.mr)
  THEN Append(funcs, [name |-> frame.name, callees |-> frame.callees])
  ELSE funcs

(* A nested activation returns to its caller.                              *)
ReturnNested ==
  /\ pc = "recursion"
  /\ Top.next > Len(Pending)
  /\ Len(stack) > 1
  /\ funcs' = Emit(Top)
  /\ stack' = SubSeq(stack, 1, Len(stack) - 1)
  /\ mgi' = [mgi EXCEPT !.depth = @ - 1]
  /\ UNCHANGED <<prune_option, pc, meta_call, meta_family_chain, mr_input_vars, mt_body,
                 meta_tests>>

(* The outermost one returns to the loop over the chain.                   *)
ReturnToChain ==
  /\ pc = "recursion"
  /\ Top.next > Len(Pending)
  /\ Len(stack) = 1
  /\ funcs' = Emit(Top)
  /\ stack' = <<>>
  /\ mgi' = [mgi EXCEPT !.recursive_idx = @ + 1, !.family_idx = @ + 1]
  /\ pc' = IF mgi.family_idx + 1 < meta_test_rel_count THEN "relation" ELSE "check"
  /\ UNCHANGED <<prune_option, meta_call, meta_family_chain, mr_input_vars, mt_body,
                 meta_tests>>

(* Whether the test being generated is compared with r_0 at all.           *)
IsChecked(test_idx) == test_idx # 0 \/ trivial_check

checks_doneOne == Len(mt_body) - meta_test_rel_count + 1
checks_done == Len(mt_body) - meta_test_rel_count

(* concretizeMetaRelation on the next check, with family_idx = -1 and r_0  *)
(* as the only input variable.                                             *)
ConcretizeCheck ==
  /\ pc = "check"
  /\ IsChecked(mgi.test_idx)
  /\ checks_done < Len(Checks)
  /\ LET check == Checks[checks_done + 1]
     IN \E args \in FreshArgs(check.params, -1, {getMetaVarName(0)}) :
          mt_body' = Append(mt_body,
            [family |-> NoFamily, params |-> check.params, callee |-> Qualified(check.name),
             decl |-> FALSE, args |-> args])
  /\ mgi' = [mgi EXCEPT !.family_idx = -1]
  /\ UNCHANGED <<prune_option, pc, meta_call, meta_family_chain, mr_input_vars, stack,
                 meta_tests, funcs>>

FinishTest ==
  /\ pc = "check"
  /\ ~IsChecked(mgi.test_idx) \/ checks_done = Len(Checks)
  /\ meta_tests' = Append(meta_tests, mt_body)
  /\ pc' = "next_test"
  /\ UNCHANGED <<prune_option, meta_call, meta_family_chain, mr_input_vars, mgi, stack,
                 mt_body, funcs>>

Next ==
  \/ GenerateMetaTests
  \/ AllExpanded
  \/ StartTest
  \/ FamilyComplete
  \/ ConcretizeMetaRelation
  \/ TooFewStored
  \/ ExpandPlaceholder
  \/ NoMatchingDecl
  \/ ReturnNested
  \/ ReturnToChain
  \/ ConcretizeCheck
  \/ FinishTest

Spec == Init /\ [][Next]_vars

(* Generation is one thread of straight-line C++: it does not stop between *)
(* two steps.                                                              *)
FairSpec == Spec /\ WF_vars(Next)
-----------------------------------------------------------------------------
(***************************************************************************)
(* What the generator promises.                                            *)
(***************************************************************************)

mrGenInfo ==
  [test_idx : Nat, family_idx : Int, recursive_idx : Nat, depth : Nat, first_decl : BOOLEAN]

Definition == [name : FuncName, callees : Seq(FuncName)]

StackedFrame ==
  [mr : MRs, name : FuncName, next : Nat \ {0}, callees : Seq(FuncName)]

(* Every variable keeps to its type; a test is at a position of the chain  *)
(* exactly while it is in pc "relation", with one statement per relation   *)
(* already done.                                                           *)
TypeOK ==
  /\ prune_option \in PruneOptions
  /\ pc \in {"expand", "next_test", "relation", "recursion", "check", "done", "exit", "abort"}
  /\ meta_call \in 0..MetaCalls
  /\ meta_family_chain \in Seq(meta_families)
  /\ mr_input_vars \in [Positions -> Seq(StoredArgument)]
  /\ mgi \in mrGenInfo
  /\ stack \in Seq(StackedFrame)
  /\ mt_body \in Seq(Statement)
  /\ meta_tests \in Seq(Seq(Statement))
  /\ funcs \in Seq(Definition)

(* The tests of the current fuzz::meta_test() call, the unfinished one last. *)
InTest == pc \in {"relation", "recursion", "check", "exit", "abort"}
Tests == IF InTest THEN Append(meta_tests, mt_body) ELSE meta_tests

(* The positions of the chain a test has reached, and an argument list     *)
(* with the variable of test id as a placeholder.                          *)
Reached(test) == {n \in 1..Len(test) : n <= meta_test_rel_count}

Abstracted(args, id) ==
  [k \in 1..Len(args) |-> IF args[k] = getMetaVarName(id) THEN Own ELSE args[k]]

(* Two tests of a family never pass different inputs at the same position  *)
(* of the chain: whatever relations they picked there, the arguments agree *)
(* as far as both lists go, up to the variable of the test itself.  This   *)
(* is what makes r_i comparable with r_0 (mr_input_vars).                  *)
SameInputs ==
  \A t, u \in 1..Len(Tests) :
    \A n \in Reached(Tests[t]) \cap Reached(Tests[u]) :
      LET a == Abstracted(Tests[t][n].args, t - 1)
          b == Abstracted(Tests[u][n].args, u - 1)
      IN \A k \in (1..Len(a)) \cap (1..Len(b)) : a[k] = b[k]

MetaVariablesOf(args) == {id \in 0..meta_test_count :
                            \E k \in 1..Len(args) : args[k] = getMetaVarName(id)}

(* The relations of a test form one chain: only the first declares r_t and *)
(* it reads no metamorphic variable; a later one reads r_t if it has a     *)
(* metamorphic parameter, and none reads the variable of another test      *)
(* (makeMRFuncCall, with arguments that may have been stored by another    *)
(* relation for another test).                                             *)
ChainedThroughOwnVariable ==
  \A t \in 1..Len(Tests) : \A n \in Reached(Tests[t]) :
    LET s == Tests[t][n]
    IN /\ s.decl = (n = 1)
       /\ MetaVariablesOf(s.args) \subseteq (IF n = 1 THEN {} ELSE {t - 1})
       /\ n > 1 /\ (\E k \in 1..Len(s.params) : s.params[k] = "meta")
            => MetaVariablesOf(s.args) = {t - 1}

(* No test but the first (which --trivial-check adds) is finished without  *)
(* every check of the specification being applied to its own result, and   *)
(* with r_0 in every other metamorphic parameter.                          *)
EveryVariantChecked ==
  \A t \in 1..Len(meta_tests) :
    t > 1 \/ trivial_check =>
      /\ Len(meta_tests[t]) = meta_test_rel_count + Len(Checks)
      /\ \A c \in 1..Len(Checks) :
           LET s == meta_tests[t][meta_test_rel_count + c]
               metas == {k \in 1..Len(s.params) : s.params[k] = "meta"}
           IN /\ s.callee.fn = Checks[c].name
              /\ \A k \in metas :
                   s.args[k] = getMetaVarName(IF \A j \in metas : k <= j THEN t - 1 ELSE 0)

(* No function is defined twice in the generated file: the names made from *)
(* test_idx and recursive_idx are unique for as long as the file has one   *)
(* fuzz::meta_test() call.                                                 *)
DefinedOnce ==
  \A i, j \in 1..Len(funcs) : funcs[i].name = funcs[j].name => i = j

DefinedBefore(name, i) == \E j \in 1..(i - 1) : funcs[j].name = name

(* The generated file compiles in the order it is written: a copy is       *)
(* defined after every copy it calls, and once the copies of a relation    *)
(* are out, every call in the tests has its definition.                    *)
CallsResolve ==
  /\ \A i \in 1..Len(funcs) : \A c \in 1..Len(funcs[i].callees) :
       funcs[i].callees[c].generated => DefinedBefore(funcs[i].callees[c], i)
  /\ stack = <<>> =>
       \A t \in 1..Len(Tests) : \A n \in 1..Len(Tests[t]) :
         Tests[t][n].callee.generated =>
           DefinedBefore(Tests[t][n].callee, Len(funcs) + 1)

(* How far placeholders nest: the base relations that end the recursion    *)
(* are drawn only once meta_test_depth is exceeded, and the drawn one      *)
(* counts too.                                                             *)
DepthBound == mgi.depth <= meta_test_depth + 2

(* --test-depth is the "Number of maximum recursive calls in a metamorphic *)
(* test" (src/src/fuzzMetaTest.cpp:60).                                    *)
DepthAsDocumented == mgi.depth <= meta_test_depth

(* The assertion that the arguments stored for a position are enough for   *)
(* every relation drawn there never fails.                                 *)
StoredArgumentsSuffice == pc # "abort"

(* Generation ends: every fuzz::meta_test() call is expanded, or the tool  *)
(* stops with an error.                                                    *)
Terminates == <>(pc \in {"done", "exit", "abort"})

(* The generator implements the abstract family of variants.               *)
Family == INSTANCE Variants WITH
  Families  <- meta_families,
  Length    <- meta_test_rel_count,
  Count     <- meta_test_count,
  Arguments <- StoredArguments,
  chain     <- meta_family_chain,
  variants  <- [t \in 1..Len(Tests) |->
                  [n \in Reached(Tests[t]) |->
                     [family |-> Tests[t][n].family,
                      args   |-> Abstracted(Tests[t][n].args, t - 1)]]]

ImplementsVariants == Family!Spec

-----------------------------------------------------------------------------
(***************************************************************************)
(* The inductive invariant behind TypeOK, SameInputs and DepthBound.       *)
(***************************************************************************)

(* Where each step finds the chain, the test and the stack.                *)
ControlInv ==
  /\ pc \in {"next_test", "relation", "recursion", "check"}
       => Len(meta_family_chain) = meta_test_rel_count
  /\ pc = "relation"  => mgi.family_idx \in Positions /\ Len(mt_body) = mgi.family_idx
  /\ pc = "recursion" => mgi.family_idx \in Positions /\ Len(mt_body) = mgi.family_idx + 1
  /\ pc = "check"     => Len(mt_body) >= meta_test_rel_count
  /\ pc = "recursion" => stack # <<>>
  /\ stack # <<>>     => pc \in {"recursion", "exit"}
  /\ InTest           => mgi.test_idx = Len(meta_tests)

(* The depth counter is the number of activations below the first; those   *)
(* that wait for a callee have a placeholder, and a relation with one was  *)
(* drawn with base_chance false.                                           *)
DepthInv ==
  /\ mgi.depth = IF stack = <<>> THEN 0 ELSE Len(stack) - 1
  /\ \A i \in 1..(Len(stack) - 1) : ~is_base_func(stack[i].mr)
  /\ \A i \in 1..Len(stack) : ~is_base_func(stack[i].mr) => i <= meta_test_depth + 2

(* The arguments a test passes are the first of those that are stored.     *)
Fits(stored, test, id) ==
  \A n \in Reached(test) :
    /\ Len(test[n].args) <= Len(stored[n - 1])
    /\ \A k \in 1..Len(test[n].args) :
         Abstracted(test[n].args, id)[k] = stored[n - 1][k]

StoredInv ==
  /\ \A t \in 1..Len(meta_tests) : Fits(mr_input_vars, meta_tests[t], t - 1)
  /\ InTest => Fits(mr_input_vars, mt_body, mgi.test_idx)

(* What every step of the generator preserves: the stored arguments are    *)
(* the common prefix all tests of the family use, and the counter of       *)
(* nested placeholders is the height of the stack of live activations.     *)
IInv == TypeOK /\ ControlInv /\ DepthInv /\ StoredInv
=============================================================================
