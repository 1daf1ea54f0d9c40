----------------------------- MODULE TemplateDup -----------------------------
(***************************************************************************)
(* Pass 3, templateDuplicator (src/src/parseFuzzSpec.cpp): the statements  *)
(* of main between fuzz::start() and fuzz::end() are removed, and one copy *)
(* per input variable is inserted before the fuzz::end() found last.  In   *)
(* copy i the variables declared in a template get the suffix _i, and the  *)
(* first fuzz::output_var of the program becomes the declaration of        *)
(* output_var_i.                                                           *)
(*                                                                         *)
(* A statement is the variable it declares, those it uses, and what fuzz   *)
(* constructs it contains.  Failed assertions abort the tool.              *)
(***************************************************************************)
EXTENDS Integers, FiniteSets, SequencesExt

CONSTANTS
  Mains,          \* bodies of main
  Vars,           \* names of variables
  InputCounts     \* values of --inputs, meta_input_fuzz_count

Unsuffixed == -1

(* What the AST shows of one child of main's body.  A bare call of         *)
(* fuzz::start() or fuzz::end() has nothing else in it.                    *)
MainStmt ==
  [kind : {"start", "end", "plain"}, decl : SUBSET Vars, uses : SUBSET Vars,
   output_var : BOOLEAN, gets : SUBSET Nat, news : Nat]

(* The statements from a fuzz::start() to the fuzz::end() that closes it.  *)
InBlockOf(m, s) ==
  \E a \in 1 .. s : m[a].kind = "start" /\ \A b \in a .. s - 1 : m[b].kind # "end"

(* A name of the rewritten program: a prefix and a suffix.                 *)
Name(v, i) == [var |-> v, copy |-> i]
getMetaInputVarName(i) == Name("output_var", i)

ASSUME TemplateAssumption ==
  /\ Mains \subseteq Seq(MainStmt)
  /\ \A m \in Mains : \A s \in DOMAIN m :
       /\ m[s].kind # "plain" => m[s].decl = {} /\ ~m[s].output_var /\ m[s].news = 0
       /\ m[s].gets # {} => ~InBlockOf(m, s)
  /\ "output_var" \notin Vars
  /\ InputCounts \subseteq Nat

VARIABLES
  main,                      \* the children of main_child
  meta_input_fuzz_count,
  pc,
  next,                      \* the child or the logged statement looked at next
  in_fuzz_template,
  fuzz_template_bounds,      \* the last fuzz::start and the last fuzz::end
  stmt_rewrite_map,          \* the statements to copy, with what is renamed
  input_template_var_decls,
  first_output_var,
  input_template_copies,     \* the text of each copy
  text                       \* what stands in the place of each child of main

locals == <<next, in_fuzz_template, fuzz_template_bounds, stmt_rewrite_map,
            input_template_var_decls, first_output_var, input_template_copies>>
dup_vars == <<main, meta_input_fuzz_count, pc, locals, text>>

InputIds == 0 .. meta_input_fuzz_count - 1
Logged == {stmt_rewrite_map[k].base_stmt : k \in DOMAIN stmt_rewrite_map}

(* A statement of the rewritten main: child `of` of the original.          *)
Rewritten(s, i, decls, uses) ==
  [of |-> s, copy |-> i, kind |-> main[s].kind, decl |-> decls, uses |-> uses,
   gets |-> main[s].gets, news |-> main[s].news]

Verbatim(s) ==
  Rewritten(s, Unsuffixed, {Name(v, Unsuffixed) : v \in main[s].decl},
            {Name(v, Unsuffixed) : v \in main[s].uses})

Output == FlattenSeq(text)

-----------------------------------------------------------------------------

DupInit ==
  /\ main \in Mains
  /\ meta_input_fuzz_count \in InputCounts
  /\ pc = "match" /\ next = 1
  /\ in_fuzz_template = FALSE
  /\ fuzz_template_bounds = [first |-> 0, second |-> 0]
  /\ stmt_rewrite_map = <<>>
  /\ input_template_var_decls = {}
  /\ first_output_var = TRUE
  /\ input_template_copies = [i \in InputIds |-> <<>>]
  /\ text = [s \in DOMAIN main |-> <<Verbatim(s)>>]

LastOfPast(kind) ==
  LET at == {s \in DOMAIN main : main[s].kind = kind}
  IN  IF at = {} THEN 0 ELSE Max(at) + 1

LastOf(kind) ==
  LET at == {s \in DOMAIN main : main[s].kind = kind}
  IN  IF at = {} THEN 0 ELSE Max(at)

(* templateLocLogger: every match overwrites the bounds logged before.     *)
MatchLocations ==
  /\ pc = "match"
  /\ fuzz_template_bounds' = [first |-> LastOf("start"), second |-> LastOf("end")]
  /\ pc' = "log"
  /\ UNCHANGED <<main, meta_input_fuzz_count, next, in_fuzz_template, stmt_rewrite_map,
                 input_template_var_decls, first_output_var, input_template_copies, text>>

stmtRedeclTemplateVars(s) ==
  [base_stmt |-> s, renames_decl |-> {}, renames_uses |-> {}, output_var |-> "none"]

(* fuzz::end is looked at before the flag is cleared, so it is logged.     *)
IsLoggedOpen(s) == main[s].kind # "end" /\ (in_fuzz_template \/ main[s].kind = "start")
IsLogged(s) == in_fuzz_template \/ main[s].kind = "start"

UnbalancedStart(s) == main[s].kind = "start" /\ in_fuzz_template

Unbalanced(s) ==
  \/ main[s].kind = "start" /\ in_fuzz_template
  \/ main[s].kind = "end" /\ ~in_fuzz_template

Flag(s) ==
  CASE main[s].kind = "start" -> TRUE
    [] main[s].kind = "end" -> FALSE
    [] OTHER -> in_fuzz_template

LogChild ==
  /\ pc = "log"
  /\ next \in DOMAIN main
  /\ ~Unbalanced(next)
  /\ stmt_rewrite_map' = IF IsLogged(next)
                         THEN Append(stmt_rewrite_map, stmtRedeclTemplateVars(next))
                         ELSE stmt_rewrite_map
  /\ in_fuzz_template' = Flag(next)
  /\ next' = next + 1
  /\ UNCHANGED <<main, meta_input_fuzz_count, pc, fuzz_template_bounds,
                 input_template_var_decls, first_output_var, input_template_copies, text>>

(* The visitor has an in_fuzz_template of its own.                         *)
AllLogged ==
  /\ pc = "log"
  /\ next = Len(main) + 1
  /\ pc' = "visit" /\ next' = 1 /\ in_fuzz_template' = FALSE
  /\ UNCHANGED <<main, meta_input_fuzz_count, fuzz_template_bounds, stmt_rewrite_map,
                 input_template_var_decls, first_output_var, input_template_copies, text>>

(* A statement that names a variable of a template has to be logged.       *)
RefersToTemplate(s) ==
  main[s].output_var \/ main[s].uses \cap input_template_var_decls # {}

(* A declaration is visited before the expression that initialises it.     *)
DeclsWith(s) ==
  input_template_var_decls \cup (IF in_fuzz_template THEN main[s].decl ELSE {})

(* parseFuzzConstructsVisitor over one child of main.                      *)
VisitChild ==
  /\ pc = "visit"
  /\ next \in DOMAIN main
  /\ in_fuzz_template' = Flag(next)
  /\ input_template_var_decls' = DeclsWith(next)
  /\ next \in Logged \/ ~RefersToTemplate(next)
  /\ stmt_rewrite_map' =
       [k \in DOMAIN stmt_rewrite_map |->
          IF stmt_rewrite_map[k].base_stmt # next THEN stmt_rewrite_map[k]
          ELSE [base_stmt |-> next,
                renames_decl |-> IF in_fuzz_template THEN main[next].decl ELSE {},
                renames_uses |-> main[next].uses \cap DeclsWith(next),
                output_var |-> IF ~main[next].output_var THEN "none"
                               ELSE IF first_output_var THEN "decl" ELSE "use"]]
  /\ first_output_var' = (first_output_var /\ ~main[next].output_var)
  /\ next' = next + 1
  /\ UNCHANGED <<main, meta_input_fuzz_count, pc, fuzz_template_bounds,
                 input_template_copies, text>>

AllVisited ==
  /\ pc = "visit"
  /\ next = Len(main) + 1
  /\ pc' = "copy" /\ next' = 1
  /\ UNCHANGED <<main, meta_input_fuzz_count, in_fuzz_template, fuzz_template_bounds,
                 stmt_rewrite_map, input_template_var_decls, first_output_var,
                 input_template_copies, text>>

(* The names in the text of copy i: suffixes at the logged locations only. *)
Suffixed(names, renamed, i) ==
  {Name(v, IF v \in renamed THEN i ELSE Unsuffixed) : v \in names}

RenamedUsesOfOwn(srtv) == srtv.renames_uses \cap main[srtv.base_stmt].decl
RenamedUses(srtv) == srtv.renames_uses

CopyOf(srtv, i) ==
  Rewritten(srtv.base_stmt, i,
    Suffixed(main[srtv.base_stmt].decl, srtv.renames_decl, i)
      \cup IF srtv.output_var = "decl" THEN {getMetaInputVarName(i)} ELSE {},
    Suffixed(main[srtv.base_stmt].uses, RenamedUses(srtv), i)
      \cup IF srtv.output_var = "use" THEN {getMetaInputVarName(i)} ELSE {})

(* One logged statement is added to every copy and removed from its place. *)
DuplicateStmt ==
  /\ pc = "copy"
  /\ next \in DOMAIN stmt_rewrite_map
  /\ LET srtv == stmt_rewrite_map[next]
     IN  /\ input_template_copies' =
              [i \in InputIds |-> Append(input_template_copies[i], CopyOf(srtv, i))]
         /\ text' = [text EXCEPT ![srtv.base_stmt] = <<>>]
  /\ next' = next + 1
  /\ UNCHANGED <<main, meta_input_fuzz_count, pc, in_fuzz_template, fuzz_template_bounds,
                 stmt_rewrite_map, input_template_var_decls, first_output_var>>

(* All copies are inserted where the last fuzz::end stood, input by input. *)
AllCopies == FlattenSeq([k \in 1 .. meta_input_fuzz_count |-> input_template_copies[k - 1]])

InsertionPoint == fuzz_template_bounds.second

InsertCopies ==
  /\ pc = "copy"
  /\ next = Len(stmt_rewrite_map) + 1
  /\ fuzz_template_bounds.first # 0 => fuzz_template_bounds.second # 0
  /\ text' = IF fuzz_template_bounds.first = 0 THEN text
             ELSE [text EXCEPT ![InsertionPoint] = @ \o AllCopies]
  /\ pc' = "gets"
  /\ UNCHANGED <<main, meta_input_fuzz_count, locals>>

(* fuzz::output_var_get(k) becomes output_var_k, for whatever literal k.   *)
(* A call in a block is left out of the model: its copies, made of the     *)
(* original text, keep it, and the text put in its place is next to text   *)
(* that was removed.                                                       *)
WithGets(st) ==
  IF st.copy # Unsuffixed THEN st
  ELSE [st EXCEPT !.uses = @ \cup {getMetaInputVarName(id) : id \in st.gets}, !.gets = {}]

ReplaceGets ==
  /\ pc = "gets"
  /\ text' = [s \in DOMAIN text |-> [k \in DOMAIN text[s] |-> WithGets(text[s][k])]]
  /\ pc' = "duplicated"
  /\ UNCHANGED <<main, meta_input_fuzz_count, locals>>

(* The assertions at 714, 722, 189, 217 and 770.                           *)
DupAbort ==
  /\ \/ pc = "log" /\ next \in DOMAIN main /\ Unbalanced(next)
     \/ pc = "visit" /\ next \in DOMAIN main /\ next \notin Logged /\ RefersToTemplate(next)
     \/ /\ pc = "copy" /\ next = Len(stmt_rewrite_map) + 1
        /\ fuzz_template_bounds.first # 0 /\ fuzz_template_bounds.second = 0
  /\ pc' = "aborted"
  /\ UNCHANGED <<main, meta_input_fuzz_count, locals, text>>

DupNext ==
  \/ MatchLocations
  \/ LogChild
  \/ AllLogged
  \/ VisitChild
  \/ AllVisited
  \/ DuplicateStmt
  \/ InsertCopies
  \/ ReplaceGets
  \/ DupAbort

DupSpec == DupInit /\ [][DupNext]_dup_vars

-----------------------------------------------------------------------------

InBlock(s) == InBlockOf(main, s)

PlacesOf(s, i) == {k \in DOMAIN Output : Output[k].of = s /\ Output[k].copy = i}

(* The order in which what is copied, and what is left alone, must stand.  *)
Precedes(st, later) ==
  IF Unsuffixed \in {st.copy, later.copy} \/ st.copy = later.copy THEN st.of < later.of
  ELSE st.copy < later.copy

(* Every input gets each statement of the blocks once and nothing else, in *)
(* their order, with its own output variable; the inputs follow one        *)
(* another, and what preceded or followed a block precedes or follows all  *)
(* of its copies ("Every code block between two fuzz::start() and          *)
(* fuzz::end() calls are duplicated").                                     *)
CopiesFaithful ==
  pc = "duplicated" =>
    /\ \A s \in DOMAIN main, i \in InputIds \cup {Unsuffixed} :
         Cardinality(PlacesOf(s, i)) = IF InBlock(s) <=> i # Unsuffixed THEN 1 ELSE 0
    /\ \A k \in DOMAIN Output :
         Output[k].of \in DOMAIN main /\ Output[k].copy \in InputIds \cup {Unsuffixed}
    /\ \A i \in InputIds :
         (\E s \in DOMAIN main : InBlock(s) /\ main[s].output_var) =>
           \E k \in DOMAIN Output :
             Output[k].copy = i /\ getMetaInputVarName(i) \in Output[k].decl
    /\ \A a, b \in DOMAIN Output : a < b => Precedes(Output[a], Output[b])

(* The rewritten main declares every name once, and not after it is used:  *)
(* a rename that misses one occurrence, be it in the declaration itself,   *)
(* or a copy in the wrong place, gives a program that does not compile, or *)
(* that mixes two inputs.  Calls of fuzz::output_var_get have to name an   *)
(* input there is.                                                         *)
CopiesResolve ==
  pc = "duplicated" /\ (\A s \in DOMAIN main : main[s].gets \subseteq InputIds) =>
    \A k \in DOMAIN Output :
      /\ \A n \in Output[k].uses : \E d \in 1 .. k : n \in Output[d].decl
      /\ \A n \in Output[k].uses :
           n.copy = Output[k].copy \/ n.copy = Unsuffixed \/ Output[k].copy = Unsuffixed
      /\ \A n \in Output[k].decl : \A d \in 1 .. k - 1 : n \notin Output[d].decl

(* The tool gives up exactly when blocks are nested, unopened or unclosed, *)
(* or when something of a block is named outside every block (assertions   *)
(* in HandleTranslationUnit and the visitor).                              *)
Malformed ==
  \/ \E s \in DOMAIN main :
       \/ main[s].kind = "start" /\ s > 1 /\ InBlock(s - 1) /\ main[s - 1].kind # "end"
       \/ main[s].kind = "end" /\ ~InBlock(s)
  \/ \E s \in DOMAIN main :
       main[s].kind = "start" /\ \A e \in s .. Len(main) : main[e].kind # "end"
  \/ \E s \in DOMAIN main :
       /\ ~InBlock(s)
       /\ \/ main[s].output_var
          \/ \E t \in 1 .. s - 1 : InBlock(t) /\ main[t].decl \cap main[s].uses # {}

AbortsJustified ==
  /\ pc = "aborted" => Malformed
  /\ pc = "duplicated" => ~Malformed
=============================================================================
