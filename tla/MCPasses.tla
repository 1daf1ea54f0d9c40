------------------------------- MODULE MCPasses -------------------------------
(***************************************************************************)
(* Inputs for model-checking Passes.  In each run one of the library, the  *)
(* metamorphic specification, the program and the calls of fuzz_rand is    *)
(* any of its set, and the others are the simplest.                        *)
(***************************************************************************)
EXTENDS Passes

CONSTANT MaxDecls

-----------------------------------------------------------------------------
(* Libraries.  A declaration has an id, so that a function may be declared *)
(* twice.                                                                  *)
decl(id, kind, ns, class, name, ret, params, attr) ==
  [id |-> id, kind |-> kind, ns |-> ns, class |-> class, name |-> name, ret |-> ret,
   params |-> params, attr |-> attr, static |-> FALSE, named_ctor |-> FALSE]
static(d) == [d EXCEPT !.static = TRUE]

NoClass == [ns |-> 0, name |-> 0]
A == [ns |-> 1, name |-> 1]
B == [ns |-> 1, name |-> 2]

method(id, class, name, ret, params) == decl(id, "method", 0, class, name, ret, params, "expose")
function(id, ns, name, params, attr) == decl(id, "function", ns, NoClass, name, 1, params, attr)
type(id, kind, ns, name, attr) == decl(id, kind, ns, NoClass, name, 0, <<>>, attr)

MCHeaders ==
  {method(1, A, 5, 1, <<>>), method(2, A, 5, 2, <<>>), method(3, A, 5, 1, <<1>>),
   method(4, B, 5, 1, <<2>>), method(5, B, 5, 1, <<2>>), static(method(16, B, 2, 1, <<>>)),
   decl(6, "ctor", 0, A, 1, 0, <<1, 2>>, "expose"),
   function(7, 3, 5, <<1>>, "expose"), function(8, 3, 5, <<1, 1>>, "expose_special"),
   type(9, "type", 1, 1, "expose"), type(10, "enum_val", 1, 3, "expose")}

MCRefused == {type(15, "type", 1, 2, "expose_special"), function(11, 3, 6, <<>>, "other")}

MCHelpers ==
  {[function(12, 4, 7, <<1>>, "helper") EXCEPT !.named_ctor = TRUE],
   function(13, 4, 5, <<>>, "expose_special"), type(14, "type", 4, 8, "helper")}

NoLibrary == [headers |-> {}, helpers |-> {}]

MCLibraries ==
  [headers : {H \in SUBSET MCHeaders : Cardinality(H) <= 4}, helpers : {{}, MCHelpers}]
    \cup [headers : {{method(1, A, 5, 1, <<>>), function(8, 3, 5, <<1, 1>>, "expose_special"), d} :
                       d \in MCRefused},
          helpers : {MCHelpers}]

-----------------------------------------------------------------------------
(* Metamorphic specifications: sequences of different declarations.        *)
fn(qualified, ret, placeholders, fuzzes) ==
  [qualified |-> qualified, defines |-> TRUE, ret |-> ret, placeholders |-> placeholders,
   fuzzes |-> fuzzes]
declared(f) == [f EXCEPT !.defines = FALSE]

in(kind, family, name) == <<"metalib", kind, family, name>>

Identity == fn(in("relations", "A", "id"), "T", 0, FALSE)
Step == fn(in("relations", "A", "step"), "T", 1, FALSE)

(* Step may be declared before it is defined; a check may have a family    *)
(* and a relation none.                                                    *)
MCDecls ==
  {Identity, Step, declared(Step),
   fn(in("relations", "B", "fuzzing"), "T", 2, TRUE),
   fn(in("generators", "A", "id"), "U", 0, TRUE),
   fn(<<"metalib", "checks", "eq">>, "U", 0, FALSE),
   fn(in("checks", "A", "eq"), "U", 0, FALSE),
   fn(<<"metalib", "relations", "id">>, "T", 0, FALSE),
   fn(in("relations", "B", "other"), "U", 0, FALSE),
   declared(fn(in("relations", "A", "placeholder"), "T", 0, FALSE)),
   declared(fn(in("relations", "A", "undefined"), "T", 0, FALSE)),
   fn(<<"metalib", "free">>, "T", 0, FALSE), fn(in("other", "A", "id"), "T", 0, FALSE)}

MCSpecifications ==
  {s \in UNION {[1 .. n -> MCDecls] : n \in 0 .. MaxDecls} : IsInjective(s)}

MCTypes == {"T", "U"}

-----------------------------------------------------------------------------
(* Programs with helpers and calls of them.                                *)
NoSuffix == -1          \* Unsuffixed of HelperStitch
tok(kind, name) == [kind |-> kind, name |-> name, copy |-> NoSuffix, args |-> <<>>]
Op == tok("op", "+")
Lit(n) == tok("lit", n)
Local(v) == tok("local", v)
Global(v) == tok("global", v)
Param(v) == tok("param", v)
Fn(f) == tok("fn", f)
Call(h, args) == [tok("call", h) EXCEPT !.args = args]

bodyStmt(var, toks) == [decl |-> var, toks |-> toks]
helper(name, params, body, returns) ==
  [name |-> name, params |-> params, body |-> body, returns |-> returns]
use(toks) == [decl |-> {}, inner |-> {}, toks |-> toks]
DeclareX ==
  [use(<<Lit("1")>>) EXCEPT !.decl = {[name |-> "x", copy |-> NoSuffix]}]

(* t = a + b; u = f(t); return a + f(u)                                    *)
Sum == helper("sum", <<"a", "b">>,
  <<bodyStmt({"t"}, <<Op, Param("a"), Param("b")>>), bodyStmt({"u"}, <<Fn("f"), Local("t")>>)>>,
  <<<<Op, Param("a"), Fn("f"), Local("u")>>>>)
(* u = f(7); return f(u)                                                   *)
Seven == helper("seven", <<>>, <<bodyStmt({"u"}, <<Fn("f"), Lit("7")>>)>>,
                <<<<Fn("f"), Local("u")>>>>)
TwoReturns == helper("two", <<"a">>, <<>>, <<<<Lit("1")>>, <<Op, Param("a")>>>>)
NoReturn == helper("none", <<"a">>, <<bodyStmt({}, <<Fn("f"), Param("a")>>)>>, <<>>)
(* return 4                                                                *)
Four == helper("four", <<"a">>, <<>>, <<<<Lit("4")>>>>)

Args == {<<Local("x")>>, <<Global("g")>>}
CallSet ==
  {Call("sum", <<a, b>>) : a, b \in Args}
    \cup {Call("seven", <<>>), Call("four", <<<<Lit("3")>>>>), Call("none", <<<<Lit("3")>>>>)}

Expressions ==
  {<<c>> : c \in CallSet} \cup {<<Op, c, d>> : c, d \in CallSet}
    \cup {<<Op, Local("x"), Lit("1")>>}

NoHelpers == [helpers |-> <<>>, globals |-> {}, functions |-> <<<<DeclareX>>>>]

MCPrograms ==
  {NoHelpers} \cup {[helpers |-> <<Sum, Seven, Four, NoReturn>> \o more, globals |-> {"g"},
    functions |-> <<<<DeclareX, use(e)>>,
                    <<DeclareX, use(<<c>>), use(<<Call("seven", <<>>)>>)>>>>] :
     e \in Expressions, c \in CallSet, more \in {<<>>, <<TwoReturns>>}}

-----------------------------------------------------------------------------
(* Calls of fuzz_rand, with values below, at and beyond what an integer    *)
(* and a byte hold.                                                        *)
rand(t, args) == [callee |-> "fuzz_rand", type |-> t, args |-> args]
Other == [callee |-> "fuzz_new", type |-> "int", args |-> <<>>]

arg(outer, node, val) == [outer |-> outer, node |-> node, val |-> val]
One == arg("none", "int", 1)

MCArgs ==
  {arg(outer, node, val) : outer \in {"none", "minus", "cast", "castminus"},
                           node \in {"int", "binary", "fp"}, val \in {0, 1, 2, 3, 4, 5, 8}}
    \cup {arg("none", "name", 0)}

MCRandTypes == {"int", "unsigned int", "double", "basic_string", "float"}

MCCalls ==
  {<<>>}
    \cup {<<Other, rand(t, <<>>)>> : t \in MCRandTypes}
    \cup {<<rand(t, <<a, b>>)>> : t \in MCRandTypes, a, b \in MCArgs}
    \cup {<<rand("int", <<One, One>>), rand(t, <<>>)>> : t \in MCRandTypes}
    \cup {<<rand(t, args)>> : t \in MCRandTypes, args \in {<<One>>, <<One, One, One>>}}

-----------------------------------------------------------------------------

SimplestLibrary == library = NoLibrary
SimplestSpecification == matched_fds = <<Identity>>
SimplestProgram == program = NoHelpers
SimplestCalls == fuzzer_calls = <<>>

SimplestInputs ==
  SimplestLibrary /\ SimplestSpecification /\ SimplestProgram /\ SimplestCalls

MCInit ==
  /\ \/ library \in Libraries /\ SimplestSpecification /\ SimplestProgram /\ SimplestCalls
     \/ SimplestLibrary /\ matched_fds \in Specifications /\ SimplestProgram /\ SimplestCalls
     \/ SimplestLibrary /\ SimplestSpecification /\ program \in Programs /\ SimplestCalls
     \/ SimplestLibrary /\ SimplestSpecification /\ SimplestProgram /\ fuzzer_calls \in CallLists
  /\ Start

MCSpec == MCInit /\ [][Next]_vars
=============================================================================
