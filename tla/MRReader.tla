------------------------------ MODULE MRReader ------------------------------
(***************************************************************************)
(* What pass 4 reads before it generates (src/src/generateMetaTests.cpp):  *)
(* the functions of namespace metalib are sorted into meta_rel_decls, by   *)
(* kind and family, and meta_check_decls.  MetaTests starts from these.    *)
(*                                                                         *)
(* A declaration is the qualified name of its function, with the types of  *)
(* the parameters understood, its return type as written, what the body of *)
(* the function has, and whether it is the definition: a function may be   *)
(* declared first.  Declarations come in the order of the source.  The     *)
(* namespace metalib is in no other (one that is ends in an assertion).    *)
(***************************************************************************)
EXTENDS Integers, FiniteSets, SequencesExt

CONSTANTS Specifications, Types

NoType == "none"
NoFamily == ""

Declarations ==
  [qualified : Seq(STRING), ret : Types, placeholders : Nat, defines : BOOLEAN, fuzzes : BOOLEAN]

ReaderAssumption ==
  /\ NoType \notin Types
  /\ Specifications \subseteq Seq(Declarations)
  /\ \A s \in Specifications : \A k \in DOMAIN s :
       Len(s[k].qualified) >= 2 /\ s[k].qualified[1] = "metalib"

VARIABLES
  matched_fds,
  next,                  \* the declaration read next
  pc,
  meta_input_var_type,
  meta_rel_decls,        \* {type, family} to the relations or generators there
  meta_check_decls

vars == <<matched_fds, next, pc, meta_input_var_type, meta_rel_decls, meta_check_decls>>

REL_TYPE == {"generators", "relations", "checks"}

Start ==
  /\ next = 1
  /\ pc = "log"
  /\ meta_input_var_type = NoType
  /\ meta_rel_decls = <<>>
  /\ meta_check_decls = <<>>

Init == matched_fds \in Specifications /\ Start

fd == matched_fds[next]

-----------------------------------------------------------------------------

(* getBody finds the body wherever the function is defined.                *)
HasBody(d) ==
  \E k \in DOMAIN matched_fds : matched_fds[k].qualified = d.qualified /\ matched_fds[k].defines

FamilyShifted(qualified) == IF Len(qualified) = 3 THEN NoFamily ELSE qualified[2]
FamilyOf(qualified) == IF Len(qualified) = 3 THEN NoFamily ELSE qualified[3]

NameOf(qualified) == IF Len(qualified) = 3 THEN qualified[3] ELSE qualified[4]

(* MRTraverser, of the declaration at hand: only a definition has calls.   *)
Placeholders(d) == IF d.defines THEN d.placeholders ELSE 0

mrInfo(d) ==
  LET traversed == d.qualified[2] # "checks"
  IN  [base_func |-> d.qualified,
       mr_type |-> d.qualified[2],
       mr_family |-> FamilyOf(d.qualified),
       mr_name |-> NameOf(d.qualified),
       recursive_calls |-> IF traversed THEN Placeholders(d) ELSE 0,
       is_base_func |-> ~traversed \/ Placeholders(d) = 0,
       has_fuzz_call |-> traversed /\ d.defines /\ d.fuzzes]

(* The first relation read sets the type of the metamorphic variable.      *)
SettledAnew(d) == IF d.qualified[2] = "relations" THEN d.ret ELSE meta_input_var_type

Settled(d) ==
  IF meta_input_var_type = NoType /\ d.qualified[2] = "relations"
  THEN d.ret ELSE meta_input_var_type

(* What the mrInfo constructor asserts, throws on or dereferences.         *)
IsWellFormed(d) ==
  /\ Len(d.qualified) >= 3
  /\ d.qualified[1] = "metalib"
  /\ d.qualified[2] \in REL_TYPE
  /\ d.qualified[2] = "relations" => Settled(d) = d.ret
  /\ HasBody(d)

IsPlaceholder(d) == Last(d.qualified) = "placeholder"

SkipPlaceholder ==
  /\ pc = "log" /\ next \in DOMAIN matched_fds
  /\ IsPlaceholder(fd)
  /\ next' = next + 1
  /\ UNCHANGED <<matched_fds, pc, meta_input_var_type, meta_rel_decls, meta_check_decls>>

Category(mri) == <<mri.mr_type, mri.mr_family>>

LoggedInAnew(decls, category) == <<>>
LoggedIn(decls, category) == IF category \in DOMAIN decls THEN decls[category] ELSE <<>>

(* What has no family is a check, whatever its kind.                       *)
logMetaRelDecl ==
  /\ pc = "log" /\ next \in DOMAIN matched_fds
  /\ ~IsPlaceholder(fd)
  /\ IsWellFormed(fd)
  /\ meta_input_var_type' = Settled(fd)
  /\ LET mri == mrInfo(fd)
     IN  IF mri.mr_family = NoFamily
         THEN /\ meta_check_decls' = Append(meta_check_decls, mri)
              /\ UNCHANGED meta_rel_decls
         ELSE /\ meta_rel_decls' =
                   [category \in DOMAIN meta_rel_decls \cup {Category(mri)} |->
                      IF category = Category(mri)
                      THEN Append(LoggedIn(meta_rel_decls, category), mri)
                      ELSE meta_rel_decls[category]]
              /\ UNCHANGED meta_check_decls
  /\ next' = next + 1
  /\ UNCHANGED <<matched_fds, pc>>

(* expandMetaTests goes on only with a relation's type.                    *)
Finish ==
  /\ pc = "log" /\ next = Len(matched_fds) + 1
  /\ meta_input_var_type # NoType
  /\ pc' = "read"
  /\ UNCHANGED <<matched_fds, next, meta_input_var_type, meta_rel_decls, meta_check_decls>>

Abort ==
  /\ pc = "log"
  /\ \/ next \in DOMAIN matched_fds /\ ~IsPlaceholder(fd) /\ ~IsWellFormed(fd)
     \/ next = Len(matched_fds) + 1 /\ meta_input_var_type = NoType
  /\ pc' = "aborted"
  /\ UNCHANGED <<matched_fds, next, meta_input_var_type, meta_rel_decls, meta_check_decls>>

Next ==
  \/ SkipPlaceholder
  \/ logMetaRelDecl
  \/ Finish
  \/ Abort

Spec == Init /\ [][Next]_vars

-----------------------------------------------------------------------------

MetaFunctions == {matched_fds[k] : k \in {j \in DOMAIN matched_fds : ~IsPlaceholder(matched_fds[j])}}
MetaNames == {d.qualified : d \in MetaFunctions}

Occurrences(name, decls) == Cardinality({k \in DOMAIN decls : decls[k].base_func = name})
TimesDeclared(name) == Cardinality({k \in DOMAIN matched_fds : matched_fds[k].qualified = name})

TypeOK ==
  /\ next \in 1 .. Len(matched_fds) + 1
  /\ pc \in {"log", "read", "aborted"}
  /\ meta_input_var_type \in Types \cup {NoType}
  /\ \A category \in DOMAIN meta_rel_decls :
       /\ category[1] \in REL_TYPE
       /\ category[2] \in {name[3] : name \in {n \in MetaNames : n[2] = category[1]}}

(* Generation chooses among what is listed under a kind and family, and    *)
(* runs on the results what is listed as a check.  A function of a family  *)
(* is listed under its own kind and family as often as it is declared, and *)
(* in no other place, and one without a family as often among the checks,  *)
(* and nothing else is (logMetaRelDecl).                                   *)
EachWhereItBelongs ==
  pc = "read" =>
    /\ \A name \in MetaNames :
         LET own == <<name[2], FamilyOf(name)>>
             listed(category) == Occurrences(name, LoggedIn(meta_rel_decls, category))
         IN  IF FamilyOf(name) = NoFamily
             THEN /\ Occurrences(name, meta_check_decls) = TimesDeclared(name)
                  /\ \A category \in DOMAIN meta_rel_decls : listed(category) = 0
             ELSE /\ Occurrences(name, meta_check_decls) = 0
                  /\ listed(own) = TimesDeclared(name)
                  /\ \A category \in DOMAIN meta_rel_decls \ {own} : listed(category) = 0
    /\ \A decls \in {meta_check_decls} \cup Range(meta_rel_decls) :
         \A k \in DOMAIN decls : decls[k].base_func \in MetaNames

(* A relation offered as a base to end a recursion has no placeholder in   *)
(* its body: it is called by its own name, and the placeholder by that of  *)
(* a function that is declared and not defined.  A test file "can then be  *)
(* compiled and executed" (TESTING.md), but a relation declared before it  *)
(* is defined is listed twice, and at the declaration no call is found.    *)
BasesHaveNoPlaceholder ==
  pc = "read" => \A category \in DOMAIN meta_rel_decls :
    \A k \in DOMAIN meta_rel_decls[category] :
      LET mri == meta_rel_decls[category][k]
      IN  mri.is_base_func =>
            \A d \in MetaFunctions : d.qualified = mri.base_func => d.placeholders = 0

RelationTypes == {d.ret : d \in {f \in MetaFunctions : f.qualified[2] = "relations"}}

(* Whether a specification is accepted does not depend on the order of its *)
(* declarations: there has to be a relation, all relations return one      *)
(* type, and all functions are of a kind and defined.                      *)
Malformed ==
  \/ \E d \in MetaFunctions : Len(d.qualified) < 3 \/ d.qualified[2] \notin REL_TYPE \/ ~HasBody(d)
  \/ Cardinality(RelationTypes) # 1

AcceptedInAnyOrder ==
  /\ pc = "aborted" => Malformed
  /\ pc = "read" => ~Malformed
=============================================================================
