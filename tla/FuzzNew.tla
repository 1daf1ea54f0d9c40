------------------------------- MODULE FuzzNew -------------------------------
(***************************************************************************)
(* Pass 5, parseFuzzConstructs (src/src/parseFuzzSpec.cpp), on the program *)
(* that pass 3 wrote: every fuzz::fuzz_new<T>() is replaced by generated   *)
(* instructions that may use the objects offered to the generator with     *)
(* resetApiObjs.  In main those are the variables declared before, within  *)
(* a template only the current input's; in a relation, its parameters.     *)
(*                                                                         *)
(* What pass 4 puts in the place of fuzz::meta_test() declares nothing     *)
(* before a fuzz::fuzz_new of the user's, and is left out.  One variable   *)
(* declared by a statement is logged, whichever the matcher finds first.   *)
(***************************************************************************)
EXTENDS TemplateDup

CONSTANT MRs            \* the relations' functions: their fuzz_new calls

ASSUME FuzzNewAssumption ==
  /\ MRs \in Seq([params : SUBSET Vars, news : Nat])
  /\ "none" \notin Vars

VARIABLES
  in_template,          \* of templateVarLogger, then of expandLoggedNewVars
  spec_vars,
  fuzz_new_vars,
  call,                 \* the entry of fuzz_new_vars or mr_fuzz_calls expanded next
  tfv,
  curr_input_count,     \* size_t: -1 is the largest value, whose successor is 0
  mr_vars,
  offered               \* what resetApiObjs was given, and for which statement

new_vars == <<in_template, spec_vars, fuzz_new_vars, call, tfv, curr_input_count,
              mr_vars, offered>>
template_vars == <<dup_vars, new_vars>>

NoVar == Name("none", Unsuffixed)     \* the statement declares nothing

TemplateInit ==
  /\ DupInit
  /\ in_template = FALSE
  /\ spec_vars = <<>> /\ fuzz_new_vars = <<>>
  /\ call = 1 /\ tfv = 1
  /\ curr_input_count = -1
  /\ mr_vars = {}
  /\ offered = <<>>

-----------------------------------------------------------------------------

NewCallsUndeclared(k) ==
  IF Output[k].kind # "plain" \/ (Output[k].news > 0 /\ Output[k].decl = {})
  THEN <<[tag |-> Output[k].kind, base_stmt |-> k]>>
  ELSE <<>>

(* hasDescendant binds one fuzz_new call of a statement, if there is any.  *)
NewCalls(k) ==
  IF Output[k].kind # "plain" \/ Output[k].news > 0
  THEN <<[tag |-> Output[k].kind, base_stmt |-> k]>>
  ELSE <<>>

(* templateVarLogger::run: first the match of the statement, then that of  *)
(* the fuzz::start or fuzz::end it may be.                                 *)
LogMatch ==
  /\ pc = "duplicated"
  /\ Len(spec_vars) < Len(Output)
  /\ LET k == Len(spec_vars) + 1
         declared == IF Output[k].decl = {} THEN {NoVar} ELSE Output[k].decl
     IN  /\ \E vd \in declared :
              spec_vars' = Append(spec_vars, [base_stmt |-> k, vd |-> vd,
                                              in_template |-> in_template])
         /\ fuzz_new_vars' = fuzz_new_vars \o NewCalls(k)
         /\ in_template' = CASE Output[k].kind = "start" -> TRUE
                             [] Output[k].kind = "end" -> FALSE
                             [] OTHER -> in_template
  /\ UNCHANGED <<dup_vars, call, tfv, curr_input_count, mr_vars, offered>>

AllMatched ==
  /\ pc = "duplicated"
  /\ Len(spec_vars) = Len(Output)
  /\ pc' = "expand" /\ in_template' = FALSE
  /\ UNCHANGED <<main, meta_input_fuzz_count, locals, text, spec_vars, fuzz_new_vars,
                 call, tfv, curr_input_count, mr_vars, offered>>

(* In a template, only the variables of the current input's templates.     *)
getDuplicateDeclVarsAll(logged, output_var_count, filter_template) ==
  {logged[k].vd : k \in DOMAIN logged} \ {NoVar}

getDuplicateDeclVars(logged, output_var_count, filter_template) ==
  {logged[k].vd : k \in {j \in DOMAIN logged :
      ~(filter_template /\ logged[j].in_template /\ logged[j].vd.copy # Unsuffixed
        /\ logged[j].vd.copy # output_var_count)}} \ {NoVar}

Expanding(tag) ==
  /\ pc = "expand"
  /\ call \in DOMAIN fuzz_new_vars
  /\ fuzz_new_vars[call].tag = tag
  /\ call' = call + 1
  /\ UNCHANGED <<dup_vars, spec_vars, fuzz_new_vars, mr_vars>>

ExpandStart ==
  /\ Expanding("start")
  /\ curr_input_count' = curr_input_count + 1
  /\ in_template' = TRUE
  /\ UNCHANGED <<tfv, offered>>

ResetCountAt(count) == IF count = meta_input_fuzz_count THEN -1 ELSE count

ExpandEnd ==
  /\ Expanding("end")
  /\ tfv' = 1
  /\ in_template' = FALSE
  /\ curr_input_count' = ResetCountAt(curr_input_count)
  /\ UNCHANGED offered

(* The statement is looked up from where the last search stopped.          *)
ExpandNew ==
  /\ Expanding("plain")
  /\ \E k \in tfv .. Len(spec_vars) :
       /\ spec_vars[k].base_stmt = fuzz_new_vars[call].base_stmt
       /\ tfv' = k
       /\ offered' = Append(offered,
            [stmt |-> k, objs |-> getDuplicateDeclVars(SubSeq(spec_vars, 1, k - 1),
                                                       curr_input_count, in_template)])
  /\ UNCHANGED <<in_template, curr_input_count>>

AllExpanded ==
  /\ pc = "expand"
  /\ call = Len(fuzz_new_vars) + 1
  /\ pc' = "relations" /\ call' = 1
  /\ UNCHANGED <<main, meta_input_fuzz_count, locals, text, in_template, spec_vars,
                 fuzz_new_vars, tfv, curr_input_count, mr_vars, offered>>

(* mrNewVariableFuzzerLogger: every call in a function at the top level    *)
(* other than main, as pass 4's copies of relations are, in order.         *)
mr_fuzz_calls ==
  FlattenSeq([m \in DOMAIN MRs |-> [c \in 1 .. MRs[m].news |-> m]])

Objects(m) == MRs[m].params

ExpandMR ==
  /\ pc = "relations"
  /\ call \in DOMAIN mr_fuzz_calls
  /\ LET m == mr_fuzz_calls[call]
     IN  /\ mr_vars' = Objects(m)
         /\ offered' = Append(offered, [mr |-> m, objs |-> Objects(m)])
  /\ call' = call + 1
  /\ UNCHANGED <<dup_vars, in_template, spec_vars, fuzz_new_vars, tfv, curr_input_count>>

Finish ==
  /\ pc = "relations"
  /\ call = Len(mr_fuzz_calls) + 1
  /\ pc' = "expanded"
  /\ UNCHANGED <<main, meta_input_fuzz_count, locals, text, new_vars>>

Duplicate == DupNext /\ UNCHANGED new_vars

TemplateNext ==
  \/ Duplicate
  \/ LogMatch
  \/ AllMatched
  \/ ExpandStart
  \/ ExpandEnd
  \/ ExpandNew
  \/ AllExpanded
  \/ ExpandMR
  \/ Finish

TemplateSpec == TemplateInit /\ [][TemplateNext]_template_vars

-----------------------------------------------------------------------------

TemplateTypeOK ==
  /\ pc \in {"match", "log", "visit", "copy", "gets", "duplicated", "aborted",
             "expand", "relations", "expanded"}
  /\ in_fuzz_template \in BOOLEAN /\ in_template \in BOOLEAN
  /\ fuzz_template_bounds \in [first : 0 .. Len(main), second : 0 .. Len(main)]
  /\ Logged \subseteq DOMAIN main
  /\ input_template_var_decls \subseteq Vars
  /\ DOMAIN input_template_copies = InputIds
  /\ tfv \in 1 .. Len(Output) + 1
  /\ curr_input_count \in -1 .. Len(Output)
  /\ mr_vars \subseteq Vars

InMain == {k \in DOMAIN offered : "stmt" \in DOMAIN offered[k]}

(* Code generated for a fuzz_new in main may use every variable declared   *)
(* before it outside the templates and in this input's own templates, and  *)
(* outside a template those of all inputs, but never one that is not yet   *)
(* declared or, in a template, that belongs to another input               *)
(* (expandLoggedNewVars and getDuplicateDeclVars).  In a relation it may   *)
(* use the parameters, never a variable of main or of a relation expanded  *)
(* before (expandLoggedNewMRVars).                                         *)
OfferedOwn ==
  /\ \A k \in InMain :
       LET at == offered[k].stmt
           mine(d) == Output[at].copy = Unsuffixed
                      \/ Output[d].copy \in {Unsuffixed, Output[at].copy}
       IN  offered[k].objs = UNION {Output[d].decl : d \in {j \in 1 .. at - 1 : mine(j)}}
  /\ \A k \in DOMAIN offered \ InMain : offered[k].objs = MRs[offered[k].mr].params

(* When the pass is done no fuzz_new call is left, in main or a relation   *)
(* ("fuzz::fuzz_new<T> should generate a new object of type T").           *)
EachNewExpanded ==
  pc = "expanded" =>
    /\ \A at \in DOMAIN Output :
         Cardinality({k \in InMain : offered[k].stmt = at}) = Output[at].news
    /\ \A m \in DOMAIN MRs :
         Cardinality({k \in DOMAIN offered \ InMain : offered[k].mr = m}) = MRs[m].news
=============================================================================
