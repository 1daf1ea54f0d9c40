---------------------------- MODULE HelperStitch ----------------------------
(***************************************************************************)
(* Pass 6, fuzzHelperFuncStitch (src/src/helperFuncStitch.cpp): each call  *)
(* of a function of namespace fuzz::lib_helper_funcs is replaced by what   *)
(* that function returns, and the rest of its body is inserted before the  *)
(* statement of the enclosing function's body that contains the call.      *)
(*                                                                         *)
(* An expression is the sequence of its tokens in the order of the AST,    *)
(* operators before operands.  Calls that are arguments of a helper call   *)
(* are not followed, nor are recursive helpers; a helper is defined before *)
(* it is called.                                                           *)
(***************************************************************************)
EXTENDS Integers, FiniteSets, SequencesExt

CONSTANT Programs   \* [helpers, functions, globals]

Unsuffixed == -1

Plain ==
  [kind : {"op", "lit", "local", "global", "param", "fn"}, name : STRING,
   copy : {Unsuffixed}, args : {<<>>}]
Arg == {a \in Seq(Plain) : \E p \in DOMAIN a : a[p].kind # "op"}
Token ==
  Plain \cup [kind : {"call"}, name : STRING, copy : {Unsuffixed}, args : Seq(Arg)]
Name == [name : STRING, copy : {Unsuffixed}]

Helper ==
  [name : STRING, params : Seq(STRING), returns : Seq(Seq(Token)),
   body : Seq([decl : SUBSET STRING, toks : Seq(Token)])]
Function == Seq([decl : SUBSET Name, inner : SUBSET Name, toks : Seq(Token)])

Elements(seqs) == UNION {{seqs[k][j] : j \in DOMAIN seqs[k]} : k \in DOMAIN seqs}
Tokens(stmts) == Elements([s \in DOMAIN stmts |-> stmts[s].toks])

(* A call of a helper has an argument for each parameter.                  *)
Resolves(t, hs) ==
  t.kind = "call" =>
    \E h \in DOMAIN hs : hs[h].name = t.name /\ Len(hs[h].params) = Len(t.args)

(* What the compiler makes sure of; names stand for declarations.          *)
ProgramsAssumption ==
  \A p \in Programs :
    /\ p \in [helpers : Seq(Helper), functions : Seq(Function), globals : SUBSET STRING]
    /\ \A g, h \in DOMAIN p.helpers : p.helpers[g].name = p.helpers[h].name => g = h
    /\ \A h \in DOMAIN p.helpers :
         /\ IsInjective(p.helpers[h].params)
         /\ \A t \in Tokens(p.helpers[h].body) \cup Elements(p.helpers[h].returns) :
              /\ Resolves(t, p.helpers)
              /\ t.kind = "param" => t.name \in Range(p.helpers[h].params)
    /\ \A f \in DOMAIN p.functions : \A t \in Tokens(p.functions[f]) : Resolves(t, p.helpers)

VARIABLES
  program,
  pc,
  next,                  \* the helper, the call or the replacement handled next
  helper_funcs_splits,   \* the helpers with a body_instrs and a return_body
  stitch_exprs,
  replace_index,
  stitched               \* what makeReplace wrote for each of stitch_exprs

vars == <<program, pc, next, helper_funcs_splits, stitch_exprs, replace_index, stitched>>

helpers == program.helpers

(* All tokens of a helper's body, its top-level return statements included.*)
BodyTokens(h) == Tokens(helpers[h].body) \cup Elements(helpers[h].returns)

Start ==
  /\ pc = "locate" /\ next = 1
  /\ helper_funcs_splits = {}
  /\ stitch_exprs = <<>>
  /\ replace_index = 0
  /\ stitched = <<>>

Init == program \in Programs /\ Start

-----------------------------------------------------------------------------

(* A helper is seen through the matches of its variables, parameters       *)
(* included, and of references to variables and functions.                 *)
IsSeenInBody(h) ==
  \/ \E s \in DOMAIN helpers[h].body : helpers[h].body[s].decl # {}
  \/ \E t \in BodyTokens(h) : t.kind \notin {"op", "lit"}

IsSeen(h) ==
  \/ Len(helpers[h].params) > 0
  \/ \E s \in DOMAIN helpers[h].body : helpers[h].body[s].decl # {}
  \/ \E t \in BodyTokens(h) : t.kind \notin {"op", "lit"}

(* addNewSplit, of the next helper that is seen.                           *)
LocateHelper ==
  /\ pc = "locate"
  /\ next \in DOMAIN helpers
  /\ IsSeen(next) => Len(helpers[next].returns) <= 1
  /\ helper_funcs_splits' = helper_funcs_splits \cup (IF IsSeen(next) THEN {next} ELSE {})
  /\ next' = next + 1
  /\ UNCHANGED <<program, pc, stitch_exprs, replace_index, stitched>>

AllLocated ==
  /\ pc = "locate"
  /\ next = Len(helpers) + 1
  /\ pc' = "log" /\ next' = 1
  /\ UNCHANGED <<program, helper_funcs_splits, stitch_exprs, replace_index, stitched>>

(* The calls in the order of the AST, with the child of the function's     *)
(* body they are in (getBaseParent); function 0 stands for the helpers.    *)
CallsInFirst(f, stmts) ==
  FlattenSeq([s \in DOMAIN stmts |->
    LET calls == SelectInSeq(stmts[s].toks, LAMBDA t : t.kind = "call")
    IN  IF calls = 0 THEN <<>>
        ELSE <<[fn |-> f, base_stmt |-> s, at |-> calls, tok |-> stmts[s].toks[calls]]>>])

CallsIn(f, stmts) ==
  FlattenSeq([s \in DOMAIN stmts |->
    FlattenSeq([p \in DOMAIN stmts[s].toks |->
      IF stmts[s].toks[p].kind = "call"
      THEN <<[fn |-> f, base_stmt |-> s, at |-> p, tok |-> stmts[s].toks[p]]>>
      ELSE <<>>])])

AllCalls ==
  FlattenSeq([h \in DOMAIN helpers |->
    CallsIn(0, helpers[h].body \o [r \in DOMAIN helpers[h].returns |->
                                     [decl |-> {}, toks |-> helpers[h].returns[r]]])])
  \o FlattenSeq([f \in DOMAIN program.functions |-> CallsIn(f, program.functions[f])])

Callee(c) == CHOOSE h \in DOMAIN helpers : helpers[h].name = c.tok.name

(* parseConcreteVar: the first name or literal of an argument.             *)
parseConcreteVar(arg) == arg[Min({p \in DOMAIN arg : arg[p].kind # "op"})]

(* helperFnReplaceInfo: parameters and arguments are paired by position.   *)
NextIndex == replace_index + 1

LogCall ==
  /\ pc = "log"
  /\ next \in DOMAIN AllCalls
  /\ Callee(AllCalls[next]) \in helper_funcs_splits
  /\ stitch_exprs' = Append(stitch_exprs,
       [call |-> AllCalls[next], index |-> replace_index,
        concrete_params |->
          [k \in DOMAIN AllCalls[next].tok.args |->
             <<helpers[Callee(AllCalls[next])].params[k], AllCalls[next].tok.args[k]>>]])
  /\ replace_index' = NextIndex
  /\ next' = next + 1
  /\ UNCHANGED <<program, pc, helper_funcs_splits, stitched>>

AllLogged ==
  /\ pc = "log"
  /\ next = Len(AllCalls) + 1
  /\ pc' = "replace" /\ next' = 1
  /\ UNCHANGED <<program, helper_funcs_splits, stitch_exprs, replace_index, stitched>>

-----------------------------------------------------------------------------

ConcreteArgFirst(info, param) == info.concrete_params[1][2]

ConcreteArg(info, param) ==
  LET k == CHOOSE j \in DOMAIN info.concrete_params : info.concrete_params[j][1] = param
  IN  info.concrete_params[k][2]

(* getSplitWithReplacements on one token of the original text: a parameter *)
(* becomes its argument, any other variable gets the index, be it local to *)
(* the helper or not; names of functions stay.                             *)
Replaced(t, info) ==
  IF t.kind = "param" THEN parseConcreteVar(ConcreteArg(info, t.name))
  ELSE IF t.kind \in {"local", "global"} THEN [t EXCEPT !.copy = info.index]
  ELSE t

ReplacedTokens(toks, info) == [p \in DOMAIN toks |-> Replaced(toks[p], info)]

(* The rewritten text of a return that is one name lacks what was inserted *)
(* after the name (the TODO of getSplitWithReplacements).                  *)
ReplacedReturn(toks, info) ==
  IF Len(toks) = 1 /\ toks[1].kind \in {"local", "global"}
  THEN toks ELSE ReplacedTokens(toks, info)

DeclaredBare(decl, info) == {[name |-> v, copy |-> Unsuffixed] : v \in decl}
Declared(decl, info) == {[name |-> v, copy |-> info.index] : v \in decl}

getSplitWithReplacements(h, info) ==
  [body |-> [s \in DOMAIN helpers[h].body |->
               [decl |-> Declared(helpers[h].body[s].decl, info),
                toks |-> ReplacedTokens(helpers[h].body[s].toks, info)]],
   return |-> ReplacedReturn(helpers[h].returns[1], info)]

(* return_body is dereferenced, whether there is one or not.               *)
MakeReplace ==
  /\ pc = "replace"
  /\ next \in DOMAIN stitch_exprs
  /\ LET h == Callee(stitch_exprs[next].call)
     IN  /\ helpers[h].returns # <<>>
         /\ stitched' = Append(stitched, getSplitWithReplacements(h, stitch_exprs[next]))
  /\ next' = next + 1
  /\ UNCHANGED <<program, pc, helper_funcs_splits, stitch_exprs, replace_index>>

Finish ==
  /\ pc = "replace"
  /\ next = Len(stitch_exprs) + 1
  /\ pc' = "done"
  /\ UNCHANGED <<program, next, helper_funcs_splits, stitch_exprs, replace_index, stitched>>

(* The assertion at 80, std::map::at at 180, and the null return_body.     *)
Abort ==
  /\ \/ /\ pc = "locate" /\ next \in DOMAIN helpers
        /\ IsSeen(next) /\ Len(helpers[next].returns) > 1
     \/ /\ pc = "log" /\ next \in DOMAIN AllCalls
        /\ Callee(AllCalls[next]) \notin helper_funcs_splits
     \/ /\ pc = "replace" /\ next \in DOMAIN stitch_exprs
        /\ helpers[Callee(stitch_exprs[next].call)].returns = <<>>
  /\ pc' = "aborted"
  /\ UNCHANGED <<program, next, helper_funcs_splits, stitch_exprs, replace_index, stitched>>

Next ==
  \/ LocateHelper
  \/ AllLocated
  \/ LogCall
  \/ AllLogged
  \/ MakeReplace
  \/ Finish
  \/ Abort

Spec == Init /\ [][Next]_vars

-----------------------------------------------------------------------------

(* The rewritten function f: before each statement the bodies of its       *)
(* calls, and in the place of a call what it returns.                      *)
StitchedAt(f, s) ==
  FlattenSeq([k \in DOMAIN stitched |->
    IF stitch_exprs[k].call.fn = f /\ stitch_exprs[k].call.base_stmt = s
    THEN <<k>> ELSE <<>>])

Inserted(at) ==
  FlattenSeq([i \in DOMAIN at |-> [b \in DOMAIN stitched[at[i]].body |->
    [decl |-> stitched[at[i]].body[b].decl, inner |-> {},
     toks |-> stitched[at[i]].body[b].toks]]])

CallAt(at, p) == {i \in DOMAIN at : stitch_exprs[at[i]].call.at = p}

Rewritten(toks, at) ==
  FlattenSeq([p \in DOMAIN toks |->
    IF CallAt(at, p) = {} THEN <<toks[p]>>
    ELSE stitched[at[CHOOSE i \in CallAt(at, p) : TRUE]].return])

ResultAt(st, at) ==
  Inserted(at)
    \o <<[decl |-> st.decl, inner |-> st.inner, toks |-> Rewritten(st.toks, at)]>>

Result(f) ==
  FlattenSeq([s \in DOMAIN program.functions[f] |->
    ResultAt(program.functions[f][s], StitchedAt(f, s))])

TypeOK ==
  /\ pc \in {"locate", "log", "replace", "done", "aborted"}
  /\ helper_funcs_splits \subseteq DOMAIN helpers
  /\ replace_index = Len(stitch_exprs)
  /\ Len(stitched) <= Len(stitch_exprs)

(* What replaces a call is the body of its helper and nothing else: with   *)
(* the whole argument for each parameter and a fresh name for each local   *)
(* variable ("we replace helper function calls with the respective body"). *)
Substituted(toks, info) ==
  FlattenSeq([p \in DOMAIN toks |->
    IF toks[p].kind = "param"
    THEN LET params == helpers[Callee(info.call)].params
         IN  info.call.tok.args[CHOOSE k \in DOMAIN params : params[k] = toks[p].name]
    ELSE IF toks[p].kind = "local" THEN <<[toks[p] EXCEPT !.copy = info.index]>>
    ELSE <<toks[p]>>])

SameBody ==
  \A k \in DOMAIN stitched :
    LET info == stitch_exprs[k]
        h == Callee(info.call)
    IN  /\ stitched[k].return = Substituted(helpers[h].returns[1], info)
        /\ Len(stitched[k].body) = Len(helpers[h].body)
        /\ \A b \in DOMAIN stitched[k].body :
             stitched[k].body[b].toks = Substituted(helpers[h].body[b].toks, info)

(* In the rewritten functions every variable named is declared before, or  *)
(* within the statement that names it, and no name is declared twice,      *)
(* whatever calls of whatever helpers a function contains.                 *)
NamesResolve ==
  pc = "done" =>
    \A f \in DOMAIN program.functions :
      LET res == Result(f)
          before(k) == UNION {res[d].decl : d \in 1 .. k - 1}
          global == {[name |-> g, copy |-> Unsuffixed] : g \in program.globals}
      IN  \A k \in DOMAIN res :
            /\ res[k].decl \cap before(k) = {}
            /\ \A t \in Elements(<<res[k].toks>>) :
                 t.kind \in {"local", "global"} =>
                   [name |-> t.name, copy |-> t.copy] \in before(k) \cup res[k].inner \cup global

(* No call of a helper is left in the rewritten functions ("Replaces       *)
(* helper function calls in test body with the function body").            *)
NoCallLeft ==
  pc = "done" =>
    \A f \in DOMAIN program.functions : \A t \in Tokens(Result(f)) : t.kind # "call"

(* The pass gives up only for a helper with two return statements, as its  *)
(* assertion about helpers says, or for a called helper that has none.     *)
ProperHelpersAccepted ==
  LET called == {Callee(c) : c \in Elements(<<AllCalls>>)}
      improper == {h \in DOMAIN helpers : \/ Len(helpers[h].returns) > 1
                                          \/ h \in called /\ helpers[h].returns = <<>>}
  IN  /\ pc = "aborted" => improper # {}
      /\ pc = "done" => improper = {}
=============================================================================
