---------------------------- MODULE ExposedFuncs ----------------------------
(***************************************************************************)
(* Passes 1 and 2 (src/src/libSpecReader.cpp): declarations annotated with *)
(* expose or expose_special, then the helper functions and the types of    *)
(* namespace fuzz, are collected and handed over to the fuzzer library.    *)
(* Functions go through a std::set ordered by ExposedFuncDecl::compare, so *)
(* that a redeclaration is handed over once.                               *)
(*                                                                         *)
(* Names and types are numbers, whose order stands for that of the strings.*)
(* The matchers report declarations in the order of the AST, which may be  *)
(* any.                                                                    *)
(***************************************************************************)
EXTENDS Integers, FiniteSets, SequencesExt

CONSTANT Libraries      \* [headers, helpers]: sets of declarations

NoClass == [ns |-> 0, name |-> 0]

Declarations ==
  [id : Nat, kind : {"ctor", "method", "function", "type", "enum_val"}, ns : Nat,
   class : [ns : Nat, name : Nat], name : Nat, ret : Nat, params : Seq(Nat),
   attr : STRING, static : BOOLEAN, named_ctor : BOOLEAN]

(* A constructor has the name of its class, and only helpers are made      *)
(* constructors by their name.                                             *)
LibraryAssumption ==
  \A lib \in Libraries :
    /\ lib.headers \subseteq Declarations /\ IsFiniteSet(lib.headers)
    /\ lib.helpers \subseteq Declarations /\ IsFiniteSet(lib.helpers)
    /\ \A d, e \in lib.headers \cup lib.helpers : d.id = e.id => d = e
    /\ \A d \in lib.headers \cup lib.helpers :
         /\ d.kind \in {"ctor", "method"} => d.class # NoClass
         /\ d.kind = "ctor" => d.name = d.class.name
    /\ \A d \in lib.headers : ~d.named_ctor
    /\ \A d \in lib.helpers : d.kind \notin {"ctor", "method"}

VARIABLES
  library,
  pc,
  unmatched,       \* what the matcher of the current pass will still report
  exposed_funcs,
  lib_funcs,       \* calls of addLibFunc
  lib_types        \* calls of addLibType, addLibEnumType, addLibEnumVal, ...

vars == <<library, pc, unmatched, exposed_funcs, lib_funcs, lib_types>>

Start ==
  /\ pc = "libSpecReader"
  /\ unmatched = library.headers
  /\ exposed_funcs = {}
  /\ lib_funcs = <<>> /\ lib_types = <<>>

Init == library \in Libraries /\ Start

-----------------------------------------------------------------------------

IsFunction(d) == d.kind \in {"ctor", "method", "function"}

(* The entry that a pass makes of a declaration, with the parameters of    *)
(* that declaration; a constructor is called by its class.  A free function*)
(* has its qualified name, a method its own name only.  No helper is       *)
(* special.                                                                *)
Entry(pass, d) ==
  [decl |-> d.id,
   name |-> IF d.kind = "method" THEN <<d.name>>
            ELSE IF d.kind = "ctor" THEN <<d.class.ns, d.class.name>>
            ELSE IF d.ns = 0 THEN <<d.name>> ELSE <<d.ns, d.name>>,
   class |-> IF d.kind = "function" THEN NoClass ELSE d.class,
   ret |-> d.ret, params |-> d.params, statik |-> d.static,
   ctor |-> d.kind = "ctor" \/ (pass = "fuzzHelperLogger" /\ d.named_ctor),
   special |-> pass # "fuzzHelperLogger" /\ d.attr = "expose_special"]

EntryOf(d) == Entry(pc, d)

LexLess(s, t) ==
  \/ \E k \in DOMAIN s \cap DOMAIN t :
       s[k] < t[k] /\ \A j \in 1 .. k - 1 : s[j] = t[j]
  \/ Len(s) < Len(t) /\ \A j \in DOMAIN s : s[j] = t[j]

(* ExposedFuncDecl::compare: names, then return types, then parameters.    *)
Differ(l, r) ==
  IF l.name # r.name THEN LexLess(l.name, r.name)
  ELSE IF l.ret # r.ret THEN l.ret < r.ret
  ELSE IF Len(l.params) # Len(r.params) THEN Len(l.params) < Len(r.params)
  ELSE LexLess(l.params, r.params)

compareNames(l, r) == LexLess(l.name, r.name)

(* Classes count only if both have one, and by their unqualified names.    *)
compare(l, r) ==
  IF NoClass \notin {l.class, r.class} /\ l.class.name # r.class.name
  THEN l.class.name < r.class.name
  ELSE Differ(l, r)

Equivalent(l, r) == ~compare(l, r) /\ ~compare(r, l)

IsStrictWeakOrder(S) ==
  \A e, f, g \in S : /\ compare(e, f) /\ compare(f, g) => compare(e, g)
                     /\ Equivalent(e, f) /\ Equivalent(f, g) => Equivalent(e, g)

(* std::set::emplace: refused only by an equivalent element.  When the     *)
(* order is not a strict weak one, the search may or may not come by it.   *)
Emplaced(e) ==
  IF \A f \in exposed_funcs : ~Equivalent(e, f) THEN {exposed_funcs \cup {e}}
  ELSE IF IsStrictWeakOrder(exposed_funcs \cup {e}) THEN {exposed_funcs}
  ELSE {exposed_funcs, exposed_funcs \cup {e}}

IsExposing(d) ==
  \/ d.attr = "expose"
  \/ d.attr = "expose_special" /\ IsFunction(d)

(* exposedFuncDeclMatcher::run and fuzzHelperFuncLogger::run.              *)
LogFunction ==
  /\ pc \in {"libSpecReader", "fuzzHelperLogger"}
  /\ \E d \in unmatched :
       /\ IsFunction(d)
       /\ pc = "libSpecReader" => IsExposing(d)
       /\ exposed_funcs' \in Emplaced(EntryOf(d))
       /\ unmatched' = unmatched \ {d}
  /\ UNCHANGED <<library, pc, lib_funcs, lib_types>>

(* The value of an enumeration is known by its own name only.              *)
TypeName(d) == IF d.kind = "enum_val" THEN <<d.name>> ELSE <<d.ns, d.name>>

LogType ==
  /\ pc \in {"libSpecReader", "fuzzHelperLogger"}
  /\ \E d \in unmatched :
       /\ ~IsFunction(d)
       /\ pc = "libSpecReader" => IsExposing(d)
       /\ lib_types' = Append(lib_types, TypeName(d))
       /\ unmatched' = unmatched \ {d}
  /\ UNCHANGED <<library, pc, exposed_funcs, lib_funcs>>

(* Another annotation, or expose_special on what is not a function.        *)
Abort ==
  /\ pc = "libSpecReader"
  /\ \E d \in unmatched : ~IsExposing(d)
  /\ pc' = "aborted"
  /\ UNCHANGED <<library, unmatched, exposed_funcs, lib_funcs, lib_types>>

Cleared == {}

(* addExposedFuncs, when a pass ends.  The classes are qualified again.    *)
AddExposedFuncs ==
  /\ pc \in {"libSpecReader", "fuzzHelperLogger"}
  /\ unmatched = {}
  /\ lib_funcs' = lib_funcs \o SetToSeq(exposed_funcs)
  /\ exposed_funcs' = Cleared
  /\ IF pc = "libSpecReader"
     THEN pc' = "fuzzHelperLogger" /\ unmatched' = library.helpers
     ELSE pc' = "read" /\ unmatched' = {}
  /\ UNCHANGED <<library, lib_types>>

Next ==
  \/ LogFunction
  \/ LogType
  \/ Abort
  \/ AddExposedFuncs

Spec == Init /\ [][Next]_vars

-----------------------------------------------------------------------------

TypeOK ==
  /\ pc \in {"libSpecReader", "fuzzHelperLogger", "read", "aborted"}
  /\ unmatched \subseteq library.headers \cup library.helpers
  /\ exposed_funcs \subseteq
       {EntryOf(d) : d \in IF pc = "fuzzHelperLogger" THEN library.helpers
                           ELSE library.headers}

(* What tells functions apart for a caller.                                *)
Identity(d) ==
  <<IF d.kind = "function" THEN NoClass ELSE d.class,
    IF d.kind = "function" THEN <<d.ns, d.name>> ELSE <<d.name>>, d.ret, d.params>>

(* Each exposed or helper function is handed over once, in whichever order *)
(* the functions are reported and however often one is declared ("Library  *)
(* functions and types that should be used during the test generation must *)
(* be made known via an expose annotation"): twice would make the fuzzer   *)
(* choose it twice as often.  It is marked as static, as special and as a  *)
(* constructor if it is; only what is exposed can be special.  So is each  *)
(* type handed over.                                                       *)
HandedOver(d) ==
  \E k \in DOMAIN lib_funcs :
    /\ lib_funcs[k].name = EntryOf(d).name
    /\ lib_funcs[k].class = (IF d.kind = "function" THEN NoClass ELSE d.class)
    /\ lib_funcs[k].ret = d.ret /\ lib_funcs[k].params = d.params
    /\ lib_funcs[k].statik = d.static
    /\ lib_funcs[k].special = (d \in library.headers /\ d.attr = "expose_special")
    /\ lib_funcs[k].ctor = (d.kind = "ctor" \/ d.named_ctor)

EachHandedOverOnce ==
  pc = "read" =>
    LET all == library.headers \cup library.helpers
        functions == {d \in all : IsFunction(d)}
    IN  /\ \A d \in functions : HandedOver(d)
        /\ Len(lib_funcs) = Cardinality({Identity(d) : d \in functions})
        /\ \A d \in all \ functions : \E k \in DOMAIN lib_types : lib_types[k] = TypeName(d)
=============================================================================
