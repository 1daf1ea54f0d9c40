--------------------------- MODULE TemplateProofs ---------------------------
(***************************************************************************)
(* The template duplicator refuses what it says it refuses: proofs about   *)
(* TemplateDup, as FuzzNew composes it with the pass that follows.         *)
(***************************************************************************)
EXTENDS FuzzNew, SequenceProofs, FiniteSetTheorems, TLAPS

(* Some block is open after n statements of the body m.                    *)
OpenAfter(m, n) ==
  \E a \in 1..n : m[a].kind = "start" /\ \A b \in a..n : m[b].kind # "end"

Inside(m, s) == m[s].kind = "start" \/ OpenAfter(m, s - 1)

BalancedAt(m, s) ==
  /\ m[s].kind = "start" => ~OpenAfter(m, s - 1)
  /\ m[s].kind = "end" => OpenAfter(m, s - 1)

(* What the first n statements declare in blocks.                          *)
DeclaredInside(m, n) == UNION {m[t].decl : t \in {u \in 1..n : OpenAfter(m, u - 1)}}

PlacedAt(m, s) ==
  Inside(m, s) \/ (~m[s].output_var /\ m[s].uses \cap DeclaredInside(m, s - 1) = {})

BoundsOf == [first |-> LastOf("start"), second |-> LastOf("end")]

Locations == [base_stmt : Nat, renames_decl : {{}}, renames_uses : {{}}, output_var : {"none"}]

BodyPart ==
  /\ main \in Mains
  /\ pc \in {"match", "log", "visit", "copy", "gets", "duplicated", "aborted",
             "expand", "relations", "expanded"}

MatchPart ==
  pc = "match" =>
    next = 1 /\ in_fuzz_template = FALSE /\ stmt_rewrite_map = <<>>
    /\ input_template_var_decls = {}

(* What the loop over main, and later the visitor, know at statement next. *)
LogPart ==
  pc = "log" =>
    /\ next \in 1..Len(main) + 1
    /\ in_fuzz_template \in BOOLEAN /\ (in_fuzz_template <=> OpenAfter(main, next - 1))
    /\ \A s \in 1..next - 1 : BalancedAt(main, s)
    /\ stmt_rewrite_map \in Seq(Locations)
    /\ Logged = {s \in 1..next - 1 : Inside(main, s)}
    /\ input_template_var_decls = {}

VisitPart ==
  pc = "visit" =>
    /\ next \in 1..Len(main) + 1
    /\ in_fuzz_template \in BOOLEAN /\ (in_fuzz_template <=> OpenAfter(main, next - 1))
    /\ Logged = {s \in 1..Len(main) : Inside(main, s)}
    /\ input_template_var_decls = DeclaredInside(main, next - 1)
    /\ \A s \in 1..next - 1 : PlacedAt(main, s)

BalancedPart ==
  pc \in {"visit", "copy", "gets", "duplicated", "expand", "relations", "expanded"} =>
    \A s \in 1..Len(main) : BalancedAt(main, s)

PlacedPart ==
  pc \in {"copy", "gets", "duplicated", "expand", "relations", "expanded"} =>
    \A s \in 1..Len(main) : PlacedAt(main, s)

BoundsPart ==
  /\ pc \notin {"match", "aborted"} => fuzz_template_bounds = BoundsOf
  /\ pc \in {"gets", "duplicated", "expand", "relations", "expanded"} =>
       (fuzz_template_bounds.first # 0 => fuzz_template_bounds.second # 0)

AbortPart == pc = "aborted" => Malformed

(* The inductive invariant: how far the two loops over main are, and what  *)
(* they have found out about the statements behind them.                   *)
DupInv ==
  /\ BodyPart
  /\ MatchPart
  /\ LogPart
  /\ VisitPart
  /\ BalancedPart
  /\ PlacedPart
  /\ BoundsPart
  /\ AbortPart

(* Every block begun after the end of another is closed.                   *)
NoneLeftOpen ==
  \A m \in Mains : \A e, s \in DOMAIN m :
    m[e].kind = "end" /\ m[s].kind = "start" /\ e < s =>
      \E f \in s..Len(m) : m[f].kind = "end"
-----------------------------------------------------------------------------

(* What is in a block, said with the flag of the loops.                    *)
LEMMA InBlockInside ==
  ASSUME main \in Mains, NEW s \in 1..Len(main)
  PROVE  InBlock(s) <=> Inside(main, s)
<1>1. ASSUME InBlock(s) PROVE Inside(main, s)
  <2>1. PICK a \in 1..s : main[a].kind = "start" /\ \A b \in a..s - 1 : main[b].kind # "end"
    BY <1>1 DEF InBlock, InBlockOf
  <2>2. CASE a = s
    BY <2>1, <2>2 DEF Inside
  <2>3. CASE a # s
    <3>1. a \in 1..s - 1
      BY <2>3
    <3> QED
      BY <3>1, <2>1 DEF Inside, OpenAfter
  <2> QED
    BY <2>2, <2>3
<1>2. ASSUME Inside(main, s) PROVE InBlock(s)
  <2>1. CASE main[s].kind = "start"
    <3>1. s \in 1..s /\ s..s - 1 = {}
      OBVIOUS
    <3> QED
      BY <2>1, <3>1 DEF InBlock, InBlockOf
  <2>2. CASE OpenAfter(main, s - 1)
    <3>1. PICK a \in 1..s - 1 : main[a].kind = "start" /\ \A b \in a..s - 1 : main[b].kind # "end"
      BY <2>2 DEF OpenAfter
    <3>2. a \in 1..s
      OBVIOUS
    <3> QED
      BY <3>1, <3>2 DEF InBlock, InBlockOf
  <2> QED
    BY <1>2, <2>1, <2>2 DEF Inside
<1> QED
  BY <1>1, <1>2

(* How one statement changes whether a block is open.                      *)
LEMMA OpenStep ==
  ASSUME NEW m, NEW n \in Nat \ {0}
  PROVE  /\ m[n].kind = "start" => OpenAfter(m, n)
         /\ m[n].kind = "end" => ~OpenAfter(m, n)
         /\ m[n].kind \notin {"start", "end"} => (OpenAfter(m, n) <=> OpenAfter(m, n - 1))
<1>1. ASSUME m[n].kind = "start" PROVE OpenAfter(m, n)
  <2>1. n \in 1..n /\ \A b \in n..n : b = n
    OBVIOUS
  <2>2. \A b \in n..n : m[b].kind # "end"
    BY <2>1, <1>1
  <2> QED
    BY <2>1, <2>2, <1>1 DEF OpenAfter
<1>2. ASSUME m[n].kind = "end" PROVE ~OpenAfter(m, n)
  <2>1. \A a \in 1..n : n \in a..n
    OBVIOUS
  <2> QED
    BY <2>1, <1>2 DEF OpenAfter
<1>3. ASSUME m[n].kind \notin {"start", "end"} PROVE OpenAfter(m, n) <=> OpenAfter(m, n - 1)
  <2>1. ASSUME OpenAfter(m, n) PROVE OpenAfter(m, n - 1)
    <3>1. PICK a \in 1..n : m[a].kind = "start" /\ \A b \in a..n : m[b].kind # "end"
      BY <2>1 DEF OpenAfter
    <3>2. a # n
      BY <3>1, <1>3
    <3>3. a \in 1..n - 1 /\ \A b \in a..n - 1 : b \in a..n
      BY <3>2
    <3> QED
      BY <3>1, <3>3 DEF OpenAfter
  <2>2. ASSUME OpenAfter(m, n - 1) PROVE OpenAfter(m, n)
    <3>1. PICK a \in 1..n - 1 : m[a].kind = "start" /\ \A b \in a..n - 1 : m[b].kind # "end"
      BY <2>2 DEF OpenAfter
    <3>2. a \in 1..n /\ \A b \in a..n : b \in a..n - 1 \/ b = n
      OBVIOUS
    <3>3. \A b \in a..n : m[b].kind # "end"
      BY <3>1, <3>2, <1>3
    <3> QED
      BY <3>1, <3>2, <3>3 DEF OpenAfter
  <2> QED
    BY <2>1, <2>2
<1> QED
  BY <1>1, <1>2, <1>3

LEMMA NothingOpenAtFirst ==
  ASSUME NEW m
  PROVE  ~OpenAfter(m, 0) /\ DeclaredInside(m, 0) = {}
<1>1. 1..0 = {}
  OBVIOUS
<1> QED
  BY <1>1 DEF OpenAfter, DeclaredInside

LEMMA BodiesOfMain ==
  ASSUME NEW m \in Mains
  PROVE  /\ m \in Seq(MainStmt)
         /\ Len(m) \in Nat /\ DOMAIN m = 1..Len(m)
         /\ \A s \in DOMAIN m : m[s] \in MainStmt
         /\ \A s \in DOMAIN m :
              m[s].kind # "plain" => m[s].decl = {} /\ ~m[s].output_var /\ m[s].news = 0
<1>1. m \in Seq(MainStmt)
  BY TemplateAssumption
<1> QED
  BY <1>1, TemplateAssumption

(* The variables declared in blocks grow with each statement visited.      *)
LEMMA DeclaredStep ==
  ASSUME NEW m \in Mains, NEW n \in 1..Len(m)
  PROVE  DeclaredInside(m, n) =
           DeclaredInside(m, n - 1) \cup (IF OpenAfter(m, n - 1) THEN m[n].decl ELSE {})
<1>0. Len(m) \in Nat
  BY BodiesOfMain
<1>1. 1..n = (1..n - 1) \cup {n}
  BY <1>0
<1>2. {u \in 1..n : OpenAfter(m, u - 1)} =
        {u \in 1..n - 1 : OpenAfter(m, u - 1)}
          \cup (IF OpenAfter(m, n - 1) THEN {n} ELSE {})
  BY <1>1
<1> QED
  BY <1>2 DEF DeclaredInside

(* The last statement of a kind, or 0.                                     *)
LEMMA LastOfKind ==
  ASSUME main \in Mains, NEW kind
  PROVE  /\ LastOf(kind) \in 0..Len(main)
         /\ LastOf(kind) = 0 => \A s \in 1..Len(main) : main[s].kind # kind
         /\ LastOf(kind) # 0 => main[LastOf(kind)].kind = kind
         /\ \A s \in 1..Len(main) : main[s].kind = kind => s <= LastOf(kind)
<1> DEFINE at == {s \in DOMAIN main : main[s].kind = kind}
<1>0. Len(main) \in Nat /\ DOMAIN main = 1..Len(main)
  BY BodiesOfMain
<1>1. CASE at = {}
  <2>1. LastOf(kind) = 0
    BY <1>1 DEF LastOf
  <2> QED
    BY <2>1, <1>0, <1>1
<1>2. CASE at # {}
  <2> DEFINE left == {Len(main) - s : s \in at}
  <2>1. left \subseteq Nat /\ left # {}
    BY <1>0, <1>2
  <2>2. PICK y \in left : \A z \in left : y <= z
    <3> HIDE DEF left
    <3> QED
      BY <2>1, SmallestMember
  <2>3. PICK x \in at : y = Len(main) - x
    BY <2>2
  <2>4. \A s \in at : x >= s
    <3> TAKE s \in at
    <3>1. y <= Len(main) - s
      BY <2>2
    <3> QED
      BY <3>1, <2>3, <1>0
  <2>5. LastOf(kind) = Max(at)
    BY <1>2 DEF LastOf
  <2>6. Max(at) \in at /\ \A s \in at : Max(at) >= s
    <3> HIDE DEF at
    <3> QED
      BY <2>3, <2>4 DEF Max
  <2> QED
    BY <2>5, <2>6, <1>0
<1> QED
  BY <1>1, <1>2

-----------------------------------------------------------------------------

(* What the passes that follow leave alone.                                *)
LEMMA MalformedKept ==
  ASSUME main' = main
  PROVE  Malformed' <=> Malformed
BY DEF Malformed, InBlock, InBlockOf

LEMMA LoggedKept ==
  ASSUME stmt_rewrite_map' = stmt_rewrite_map
  PROVE  Logged' = Logged
BY DEF Logged

LEMMA BoundsKept ==
  ASSUME main' = main
  PROVE  BoundsOf' = BoundsOf
BY DEF BoundsOf, LastOf

LEMMA DupInit_DupInv ==
  DupInit => DupInv
BY DEF DupInit, DupInv, BodyPart, MatchPart, LogPart, VisitPart, BalancedPart, PlacedPart,
       BoundsPart, AbortPart

LEMMA MatchStep ==
  ASSUME DupInv, MatchLocations
  PROVE  DupInv'
<1>1. main' = main /\ pc = "match" /\ pc' = "log" /\ main \in Mains
  BY DEF DupInv, BodyPart, MatchLocations
<1>2. /\ next' = 1 /\ in_fuzz_template' = FALSE /\ stmt_rewrite_map' = <<>>
      /\ input_template_var_decls' = {}
  BY <1>1 DEF DupInv, MatchPart, MatchLocations
<1>3. BodyPart' /\ MatchPart' /\ VisitPart' /\ BalancedPart' /\ PlacedPart' /\ AbortPart'
  BY <1>1 DEF BodyPart, MatchPart, VisitPart, BalancedPart, PlacedPart, AbortPart
<1>4. LogPart'
  <2>1. Len(main) \in Nat /\ ~OpenAfter(main, 0) /\ 1..0 = {} /\ 1 - 1 = 0
    BY <1>1, BodiesOfMain, NothingOpenAtFirst
  <2>2. Logged' = {}
    BY <1>2 DEF Logged
  <2>3. stmt_rewrite_map' \in Seq(Locations)
    BY <1>2
  <2>4. next' - 1 = 0 /\ 1..next' - 1 = {} /\ next' \in 1..Len(main') + 1
    BY <1>1, <1>2, <2>1
  <2>5. in_fuzz_template' <=> OpenAfter(main', next' - 1)
    BY <1>1, <1>2, <2>1, <2>4
  <2>6. Logged' = {s \in 1..next' - 1 : Inside(main', s)}
    BY <2>2, <2>4
  <2> QED
    BY <1>2, <2>3, <2>4, <2>5, <2>6 DEF LogPart
<1>5. BoundsPart'
  BY <1>1, BoundsKept DEF BoundsPart, BoundsOf, MatchLocations
<1> QED
  BY <1>3, <1>4, <1>5 DEF DupInv

LEMMA LogStep ==
  ASSUME DupInv, LogChild
  PROVE  DupInv'
<1>1. /\ main' = main /\ pc = "log" /\ pc' = "log" /\ main \in Mains
      /\ input_template_var_decls' = input_template_var_decls
      /\ fuzz_template_bounds' = fuzz_template_bounds
  BY DEF DupInv, BodyPart, LogChild
<1>2. Len(main) \in Nat /\ DOMAIN main = 1..Len(main) /\ next \in 1..Len(main)
      /\ main[next].kind \in {"start", "end", "plain"}
  BY <1>1, BodiesOfMain DEF LogChild, MainStmt
<1>3. BodyPart' /\ MatchPart' /\ VisitPart' /\ BalancedPart' /\ PlacedPart' /\ AbortPart'
  BY <1>1 DEF BodyPart, MatchPart, VisitPart, BalancedPart, PlacedPart, AbortPart, DupInv
<1>4. BoundsPart'
  BY <1>1, BoundsKept DEF BoundsPart, DupInv
<1>5. LogPart'
  <2>1. /\ next' = next + 1 /\ next' - 1 = next /\ next' \in 1..Len(main) + 1
        /\ 1..next' - 1 = (1..next - 1) \cup {next}
    BY <1>2 DEF LogChild
  <2>2. /\ in_fuzz_template \in BOOLEAN /\ (in_fuzz_template <=> OpenAfter(main, next - 1))
        /\ \A s \in 1..next - 1 : BalancedAt(main, s)
        /\ stmt_rewrite_map \in Seq(Locations)
        /\ Logged = {s \in 1..next - 1 : Inside(main, s)}
        /\ input_template_var_decls = {}
    BY <1>1 DEF DupInv, LogPart
  <2>3. in_fuzz_template' \in BOOLEAN /\ (in_fuzz_template' <=> OpenAfter(main, next))
    <3>1. next \in Nat \ {0}
      BY <1>1, <1>2
    <3> QED
      BY <1>1, <1>2, <2>2, <3>1, OpenStep DEF LogChild, Flag
  <2>4. BalancedAt(main, next)
    BY <2>2 DEF LogChild, Unbalanced, BalancedAt
  <2>5. IsLogged(next) <=> Inside(main, next)
    BY <2>2 DEF IsLogged, Inside
  <2>6. stmt_rewrite_map' \in Seq(Locations)
        /\ Logged' = Logged \cup (IF Inside(main, next) THEN {next} ELSE {})
    <3>1. CASE IsLogged(next)
      <4> DEFINE srtv == stmtRedeclTemplateVars(next)
      <4>1. srtv \in Locations /\ srtv.base_stmt = next
        BY <1>2 DEF stmtRedeclTemplateVars, Locations
      <4>2. stmt_rewrite_map' = Append(stmt_rewrite_map, srtv)
        BY <3>1 DEF LogChild
      <4> HIDE DEF srtv
      <4>3. /\ stmt_rewrite_map' \in Seq(Locations)
            /\ DOMAIN stmt_rewrite_map' = DOMAIN stmt_rewrite_map \cup {Len(stmt_rewrite_map) + 1}
            /\ \A k \in DOMAIN stmt_rewrite_map : stmt_rewrite_map'[k] = stmt_rewrite_map[k]
            /\ stmt_rewrite_map'[Len(stmt_rewrite_map) + 1] = srtv
        BY <4>1, <4>2, <2>2
      <4> QED
        BY <4>1, <4>3, <3>1, <2>5 DEF Logged
    <3>2. CASE ~IsLogged(next)
      BY <3>2, <2>5, <2>2 DEF LogChild, Logged
    <3> QED
      BY <3>1, <3>2
  <2>7. Logged' = {s \in 1..next : Inside(main, s)}
    BY <2>6, <2>2, <2>1
  <2>8. \A s \in 1..next' - 1 : BalancedAt(main', s)
    BY <1>1, <2>1, <2>2, <2>4
  <2>9. Logged' = {s \in 1..next' - 1 : Inside(main', s)}
    BY <1>1, <2>1, <2>7
  <2>10. in_fuzz_template' <=> OpenAfter(main', next' - 1)
    BY <1>1, <2>1, <2>3
  <2>11. input_template_var_decls' = {} /\ next' \in 1..Len(main') + 1
    BY <1>1, <2>1, <2>2
  <2> QED
    BY <2>3, <2>6, <2>8, <2>9, <2>10, <2>11 DEF LogPart
<1> QED
  BY <1>3, <1>4, <1>5 DEF DupInv

LEMMA AllLoggedStep ==
  ASSUME DupInv, AllLogged
  PROVE  DupInv'
<1>1. /\ main' = main /\ pc = "log" /\ pc' = "visit" /\ main \in Mains
      /\ input_template_var_decls' = input_template_var_decls
      /\ fuzz_template_bounds' = fuzz_template_bounds
      /\ next = Len(main) + 1 /\ next' = 1 /\ in_fuzz_template' = FALSE
  BY DEF DupInv, BodyPart, AllLogged
<1>2. Len(main) \in Nat /\ next - 1 = Len(main) /\ 1..next' - 1 = {}
  BY <1>1, BodiesOfMain
<1>3. /\ \A s \in 1..Len(main) : BalancedAt(main, s)
      /\ Logged = {s \in 1..Len(main) : Inside(main, s)}
      /\ input_template_var_decls = {}
  BY <1>1, <1>2 DEF DupInv, LogPart
<1>4. BodyPart' /\ MatchPart' /\ LogPart' /\ PlacedPart' /\ AbortPart'
  BY <1>1 DEF BodyPart, MatchPart, LogPart, PlacedPart, AbortPart, DupInv
<1>5. BoundsPart'
  BY <1>1, BoundsKept DEF BoundsPart, DupInv
<1>6. BalancedPart'
  BY <1>1, <1>3 DEF BalancedPart
<1>7. VisitPart'
  <2>1. Logged' = Logged
    BY LoggedKept DEF AllLogged
  <2>2. next' \in 1..Len(main) + 1 /\ next' - 1 = 0
    BY <1>1, <1>2
  <2> QED
    BY <1>1, <1>2, <1>3, <2>1, <2>2, NothingOpenAtFirst DEF VisitPart
<1> QED
  BY <1>4, <1>5, <1>6, <1>7 DEF DupInv

LEMMA VisitStep ==
  ASSUME DupInv, VisitChild
  PROVE  DupInv'
<1>1. /\ main' = main /\ pc = "visit" /\ pc' = "visit" /\ main \in Mains
      /\ fuzz_template_bounds' = fuzz_template_bounds
  BY DEF DupInv, BodyPart, VisitChild
<1>2. Len(main) \in Nat /\ DOMAIN main = 1..Len(main) /\ next \in 1..Len(main)
      /\ main[next].kind \in {"start", "end", "plain"} /\ main[next].output_var \in BOOLEAN
  BY <1>1, BodiesOfMain DEF VisitChild, MainStmt
<1>3. BodyPart' /\ MatchPart' /\ LogPart' /\ PlacedPart' /\ AbortPart'
  BY <1>1 DEF BodyPart, MatchPart, LogPart, PlacedPart, AbortPart, DupInv
<1>4. BoundsPart'
  BY <1>1, BoundsKept DEF BoundsPart, DupInv
<1>5. BalancedPart'
  BY <1>1 DEF BalancedPart, DupInv
<1>6. VisitPart'
  <2>1. /\ next' = next + 1 /\ next' - 1 = next /\ next' \in 1..Len(main) + 1
        /\ 1..next' - 1 = (1..next - 1) \cup {next}
    BY <1>2 DEF VisitChild
  <2>2. /\ in_fuzz_template \in BOOLEAN /\ (in_fuzz_template <=> OpenAfter(main, next - 1))
        /\ Logged = {s \in 1..Len(main) : Inside(main, s)}
        /\ input_template_var_decls = DeclaredInside(main, next - 1)
        /\ \A s \in 1..next - 1 : PlacedAt(main, s)
    BY <1>1 DEF DupInv, VisitPart
  <2>3. in_fuzz_template' \in BOOLEAN /\ (in_fuzz_template' <=> OpenAfter(main, next))
    <3>1. next \in Nat \ {0}
      BY <1>1, <1>2
    <3> QED
      BY <1>1, <1>2, <2>2, <3>1, OpenStep DEF VisitChild, Flag
  <2>4. input_template_var_decls' = DeclaredInside(main, next)
    BY <1>1, <1>2, <2>2, DeclaredStep DEF VisitChild, DeclsWith
  <2>5. PlacedAt(main, next)
    BY <1>2, <2>2 DEF VisitChild, RefersToTemplate, PlacedAt
  <2>6. Logged' = Logged
    <3>1. DOMAIN stmt_rewrite_map' = DOMAIN stmt_rewrite_map
          /\ \A k \in DOMAIN stmt_rewrite_map :
               stmt_rewrite_map'[k].base_stmt = stmt_rewrite_map[k].base_stmt
      BY DEF VisitChild
    <3> QED
      BY <3>1 DEF Logged
  <2>7. \A s \in 1..next' - 1 : PlacedAt(main', s)
    BY <1>1, <2>1, <2>2, <2>5
  <2>8. in_fuzz_template' <=> OpenAfter(main', next' - 1)
    BY <1>1, <2>1, <2>3
  <2>9. input_template_var_decls' = DeclaredInside(main', next' - 1)
    BY <1>1, <2>1, <2>4
  <2>10. Logged' = {s \in 1..Len(main') : Inside(main', s)} /\ next' \in 1..Len(main') + 1
    BY <1>1, <2>1, <2>2, <2>6
  <2> QED
    BY <2>3, <2>7, <2>8, <2>9, <2>10 DEF VisitPart
<1> QED
  BY <1>3, <1>4, <1>5, <1>6 DEF DupInv

LEMMA AllVisitedStep ==
  ASSUME DupInv, AllVisited
  PROVE  DupInv'
<1>1. /\ main' = main /\ pc = "visit" /\ pc' = "copy" /\ main \in Mains
      /\ fuzz_template_bounds' = fuzz_template_bounds /\ next = Len(main) + 1
  BY DEF DupInv, BodyPart, AllVisited
<1>2. next - 1 = Len(main)
  BY <1>1, BodiesOfMain
<1>3. \A s \in 1..Len(main) : PlacedAt(main, s)
  BY <1>1, <1>2 DEF DupInv, VisitPart
<1>4. BoundsPart'
  BY <1>1, BoundsKept DEF BoundsPart, DupInv
<1> QED
  BY <1>1, <1>3, <1>4 DEF DupInv, BodyPart, MatchPart, LogPart, VisitPart, BalancedPart,
                          PlacedPart, AbortPart

LEMMA CopyStep ==
  ASSUME DupInv, DuplicateStmt \/ InsertCopies \/ ReplaceGets
  PROVE  DupInv'
<1>1. /\ main' = main /\ main \in Mains /\ fuzz_template_bounds' = fuzz_template_bounds
      /\ pc \in {"copy", "gets"} /\ pc' \in {"copy", "gets", "duplicated"}
      /\ pc' # "copy" =>
           (fuzz_template_bounds.first # 0 => fuzz_template_bounds.second # 0)
  BY DEF DupInv, BodyPart, BoundsPart, DuplicateStmt, InsertCopies, ReplaceGets, locals
<1>2. BoundsPart'
  BY <1>1, BoundsKept DEF BoundsPart, DupInv
<1> QED
  BY <1>1, <1>2 DEF DupInv, BodyPart, MatchPart, LogPart, VisitPart, BalancedPart,
                    PlacedPart, AbortPart

(* Each of the assertions speaks of a program that is malformed.           *)
LEMMA AbortStep ==
  ASSUME DupInv, DupAbort
  PROVE  DupInv'
<1>1. main' = main /\ pc' = "aborted" /\ main \in Mains
  BY DEF DupInv, BodyPart, DupAbort
<1>2. Len(main) \in Nat /\ DOMAIN main = 1..Len(main)
  BY <1>1, BodiesOfMain
<1>3. Malformed
  <2>1. CASE pc = "log" /\ next \in DOMAIN main /\ Unbalanced(next)
    <3>1. in_fuzz_template <=> OpenAfter(main, next - 1)
      BY <2>1 DEF DupInv, LogPart
    <3>2. CASE main[next].kind = "start" /\ in_fuzz_template
      <4>1. PICK a \in 1..next - 1 : main[a].kind = "start"
                                     /\ \A b \in a..next - 1 : main[b].kind # "end"
        BY <3>1, <3>2 DEF OpenAfter
      <4>2. /\ next > 1 /\ next - 1 \in a..next - 1
            /\ \A b \in a..(next - 1) - 1 : b \in a..next - 1
        BY <1>2, <2>1
      <4>3. InBlock(next - 1)
        BY <4>1, <4>2 DEF InBlock, InBlockOf
      <4> QED
        BY <2>1, <3>2, <4>1, <4>2, <4>3 DEF Malformed
    <3>3. CASE main[next].kind = "end" /\ ~in_fuzz_template
      <4>1. ~InBlock(next)
        BY <1>1, <1>2, <2>1, <3>1, <3>3, InBlockInside DEF Inside
      <4> QED
        BY <2>1, <3>3, <4>1 DEF Malformed
    <3> QED
      BY <2>1, <3>2, <3>3 DEF Unbalanced
  <2>2. CASE pc = "visit" /\ next \in DOMAIN main /\ next \notin Logged /\ RefersToTemplate(next)
    <3>1. /\ Logged = {s \in 1..Len(main) : Inside(main, s)}
          /\ input_template_var_decls = DeclaredInside(main, next - 1)
      BY <2>2 DEF DupInv, VisitPart
    <3>2. ~InBlock(next)
      BY <1>1, <1>2, <2>2, <3>1, InBlockInside
    <3>3. ASSUME main[next].uses \cap DeclaredInside(main, next - 1) # {}
          PROVE  \E t \in 1..next - 1 : InBlock(t) /\ main[t].decl \cap main[next].uses # {}
      <4>1. PICK t \in 1..next - 1 : OpenAfter(main, t - 1)
                                     /\ main[t].decl \cap main[next].uses # {}
        BY <3>3 DEF DeclaredInside
      <4>2. t \in 1..Len(main)
        BY <1>2, <2>2
      <4>3. InBlock(t)
        BY <1>1, <4>1, <4>2, InBlockInside DEF Inside
      <4> QED
        BY <4>1, <4>3
    <3> QED
      BY <2>2, <3>1, <3>2, <3>3 DEF RefersToTemplate, Malformed
  <2>3. CASE /\ pc = "copy"
             /\ fuzz_template_bounds.first # 0 /\ fuzz_template_bounds.second = 0
    <3>1. LastOf("start") # 0 /\ LastOf("end") = 0
      BY <2>3 DEF DupInv, BoundsPart, BoundsOf
    <3>2. LastOf("start") \in 1..Len(main) /\ main[LastOf("start")].kind = "start"
      BY <1>1, <1>2, <3>1, LastOfKind
    <3>3. \A s \in 1..Len(main) : main[s].kind # "end"
      BY <1>1, <3>1, LastOfKind
    <3>4. \A e \in LastOf("start")..Len(main) : main[e].kind # "end"
      BY <1>2, <3>2, <3>3
    <3> QED
      BY <1>2, <3>2, <3>4 DEF Malformed
  <2> QED
    BY <2>1, <2>2, <2>3 DEF DupAbort
<1>4. AbortPart'
  BY <1>1, <1>3, MalformedKept DEF AbortPart
<1> QED
  BY <1>1, <1>4 DEF DupInv, BodyPart, MatchPart, LogPart, VisitPart, BalancedPart,
                    PlacedPart, BoundsPart

(* The passes that follow are not begun before the copies are made, and    *)
(* touch nothing of them.                                                  *)
LEMMA LaterStep ==
  ASSUME DupInv, main' = main, pc \in {"duplicated", "expand", "relations", "expanded"},
         pc' = pc \/ pc' \in {"expand", "relations", "expanded"},
         fuzz_template_bounds' = fuzz_template_bounds
  PROVE  DupInv'
<1>1. BoundsPart'
  BY BoundsKept DEF BoundsPart, DupInv
<1> QED
  BY <1>1 DEF DupInv, BodyPart, MatchPart, LogPart, VisitPart, BalancedPart, PlacedPart, AbortPart

LEMMA DupInvInductive ==
  TemplateSpec => []DupInv
<1>1. TemplateInit => DupInv
  BY DupInit_DupInv DEF TemplateInit
<1>2. DupInv /\ [TemplateNext]_template_vars => DupInv'
  <2> SUFFICES ASSUME DupInv, [TemplateNext]_template_vars PROVE DupInv'
    OBVIOUS
  <2>1. CASE Duplicate
    BY <2>1, MatchStep, LogStep, AllLoggedStep, VisitStep, AllVisitedStep, CopyStep, AbortStep
       DEF Duplicate, DupNext
  <2>2. CASE LogMatch
    BY <2>2, LaterStep DEF LogMatch, dup_vars, locals
  <2>3. CASE AllMatched
    BY <2>3, LaterStep DEF AllMatched, locals
  <2>4. CASE ExpandStart
    BY <2>4, LaterStep DEF ExpandStart, Expanding, dup_vars, locals
  <2>5. CASE ExpandEnd
    BY <2>5, LaterStep DEF ExpandEnd, Expanding, dup_vars, locals
  <2>6. CASE ExpandNew
    BY <2>6, LaterStep DEF ExpandNew, Expanding, dup_vars, locals
  <2>7. CASE AllExpanded
    BY <2>7, LaterStep DEF AllExpanded, locals
  <2>8. CASE ExpandMR
    BY <2>8, LaterStep DEF ExpandMR, dup_vars, locals
  <2>9. CASE Finish
    BY <2>9, LaterStep DEF Finish, locals
  <2>10. CASE UNCHANGED template_vars
    <3>1. Logged' = Logged /\ BoundsOf' = BoundsOf /\ (Malformed' <=> Malformed)
      BY <2>10, LoggedKept, BoundsKept, MalformedKept DEF template_vars, dup_vars, locals
    <3> QED
      BY <2>10, <3>1 DEF DupInv, BodyPart, MatchPart, LogPart, VisitPart, BalancedPart,
                         PlacedPart, BoundsPart, AbortPart, template_vars, dup_vars, locals
  <2> QED
    BY <2>1, <2>2, <2>3, <2>4, <2>5, <2>6, <2>7, <2>8, <2>9, <2>10 DEF TemplateNext
<1> QED
  BY <1>1, <1>2, PTL DEF TemplateSpec

(* The duplicator gives up only on a program whose blocks are nested,      *)
(* unopened or unclosed, or that names something of a block outside every  *)
(* block, and goes through with no such program (HandleTranslationUnit and *)
(* the visitor).  Only the last fuzz::end() is looked at to see that       *)
(* blocks are closed, so an unclosed block is refused when none was closed *)
(* before it.                                                              *)
THEOREM RefusesTheMalformed ==
  ASSUME NoneLeftOpen
  PROVE  TemplateSpec => []AbortsJustified
<1>1. DupInv => AbortsJustified
  <2> SUFFICES ASSUME DupInv, pc = "duplicated", Malformed PROVE FALSE
    BY DEF DupInv, AbortPart, AbortsJustified
  <2>1. main \in Mains /\ Len(main) \in Nat /\ DOMAIN main = 1..Len(main)
    BY BodiesOfMain DEF DupInv, BodyPart
  <2>2. /\ \A s \in 1..Len(main) : BalancedAt(main, s)
        /\ \A s \in 1..Len(main) : PlacedAt(main, s)
        /\ fuzz_template_bounds = BoundsOf
        /\ fuzz_template_bounds.first # 0 => fuzz_template_bounds.second # 0
    BY DEF DupInv, BalancedPart, PlacedPart, BoundsPart
  <2>3. ASSUME NEW s \in DOMAIN main, main[s].kind = "start", s > 1, InBlock(s - 1),
               main[s - 1].kind # "end"
        PROVE  FALSE
    <3>1. PICK a \in 1..s - 1 : main[a].kind = "start"
                                /\ \A b \in a..(s - 1) - 1 : main[b].kind # "end"
      BY <2>3 DEF InBlock, InBlockOf
    <3>2. \A b \in a..s - 1 : b \in a..(s - 1) - 1 \/ b = s - 1
      BY <2>1
    <3>3. OpenAfter(main, s - 1)
      BY <2>3, <3>1, <3>2 DEF OpenAfter
    <3> QED
      BY <2>1, <2>2, <2>3, <3>3 DEF BalancedAt
  <2>4. ASSUME NEW s \in DOMAIN main, main[s].kind = "end", ~InBlock(s)
        PROVE  FALSE
    BY <2>1, <2>2, <2>4, InBlockInside DEF BalancedAt, Inside
  <2>5. ASSUME NEW s \in DOMAIN main, main[s].kind = "start",
               \A e \in s..Len(main) : main[e].kind # "end"
        PROVE  FALSE
    <3>1. LastOf("start") # 0
      BY <2>1, <2>5, LastOfKind
    <3>2. LastOf("end") # 0
      BY <2>2, <3>1 DEF BoundsOf
    <3>3. LastOf("end") \in DOMAIN main /\ main[LastOf("end")].kind = "end"
      BY <2>1, <3>2, LastOfKind
    <3>4. LastOf("end") < s
      BY <2>1, <2>5, <3>3
    <3> QED
      BY <2>1, <2>5, <3>3, <3>4, NoneLeftOpen DEF NoneLeftOpen
  <2>6. ASSUME NEW s \in DOMAIN main, ~InBlock(s),
               \/ main[s].output_var
               \/ \E t \in 1..s - 1 : InBlock(t) /\ main[t].decl \cap main[s].uses # {}
        PROVE  FALSE
    <3>1. ~main[s].output_var /\ main[s].uses \cap DeclaredInside(main, s - 1) = {}
      BY <2>1, <2>2, <2>6, InBlockInside DEF PlacedAt
    <3>2. PICK t \in 1..s - 1 : InBlock(t) /\ main[t].decl \cap main[s].uses # {}
      BY <2>6, <3>1
    <3>3. t \in 1..Len(main) /\ main[t].kind = "plain"
      <4>1. t \in DOMAIN main
        BY <2>1
      <4> QED
        BY <2>1, <3>2, <4>1, BodiesOfMain
    <3>4. OpenAfter(main, t - 1)
      BY <2>1, <3>2, <3>3, InBlockInside DEF Inside
    <3>5. main[t].decl \subseteq DeclaredInside(main, s - 1)
      BY <3>4 DEF DeclaredInside
    <3> QED
      BY <3>1, <3>2, <3>5
  <2> QED
    BY <2>3, <2>4, <2>5, <2>6 DEF Malformed
<1> QED
  BY <1>1, DupInvInductive, PTL

-----------------------------------------------------------------------------
(***************************************************************************)
(* What is written in the place of each statement of main.                 *)
(***************************************************************************)

(* What the visitor makes of a logged statement, said without its flags.   *)
Visited(m, s) ==
  [base_stmt |-> s,
   renames_decl |-> IF OpenAfter(m, s - 1) THEN m[s].decl ELSE {},
   renames_uses |-> m[s].uses \cap DeclaredInside(m, s),
   output_var |-> IF ~m[s].output_var THEN "none"
                  ELSE IF \A t \in 1..s - 1 : ~m[t].output_var THEN "decl" ELSE "use"]

Spots == DOMAIN stmt_rewrite_map
BaseOf(k) == stmt_rewrite_map[k].base_stmt

SpotsPart ==
  /\ stmt_rewrite_map = [k \in 1..Len(stmt_rewrite_map) |-> stmt_rewrite_map[k]]
  /\ Len(stmt_rewrite_map) \in Nat
  /\ \A j, k \in Spots : j < k => BaseOf(j) < BaseOf(k)
  /\ pc \in {"visit", "copy", "gets", "duplicated", "expand", "relations", "expanded"} =>
       Logged = {s \in 1..Len(main) : Inside(main, s)}
  /\ meta_input_fuzz_count \in Nat

ContentPart ==
  /\ pc \in {"match", "log"} => first_output_var = TRUE
  /\ pc = "log" => \A k \in Spots : stmt_rewrite_map[k] = stmtRedeclTemplateVars(BaseOf(k))
  /\ pc = "visit" =>
       /\ first_output_var \in BOOLEAN
       /\ first_output_var <=> \A t \in 1..next - 1 : ~main[t].output_var
       /\ \A k \in Spots :
            stmt_rewrite_map[k] = IF BaseOf(k) < next THEN Visited(main, BaseOf(k))
                                  ELSE stmtRedeclTemplateVars(BaseOf(k))
  /\ pc \in {"copy", "gets", "duplicated", "expand", "relations", "expanded"} =>
       \A k \in Spots : stmt_rewrite_map[k] = Visited(main, BaseOf(k))

(* The copies of all inputs, made of all logged statements.                *)
CopiesOf(i, n) == [k \in 1..n |-> CopyOf(stmt_rewrite_map[k], i)]
AllOfThem ==
  FlattenSeq([k \in 1..meta_input_fuzz_count |-> CopiesOf(k - 1, Len(stmt_rewrite_map))])

TextWhen(s) ==
  IF ~Inside(main, s) THEN <<Verbatim(s)>>
  ELSE IF s = fuzz_template_bounds.second THEN AllOfThem ELSE <<>>

FinalText(s) ==
  IF ~Inside(main, s) THEN <<WithGets(Verbatim(s))>>
  ELSE IF s = fuzz_template_bounds.second THEN AllOfThem ELSE <<>>

TextPart ==
  /\ pc \in {"match", "log", "visit"} =>
       /\ text = [s \in 1..Len(main) |-> <<Verbatim(s)>>]
       /\ input_template_copies = [i \in InputIds |-> <<>>]
  /\ pc = "copy" =>
       /\ next \in 1..Len(stmt_rewrite_map) + 1
       /\ input_template_copies = [i \in InputIds |-> CopiesOf(i, next - 1)]
       /\ text = [s \in 1..Len(main) |->
                    IF \E k \in 1..next - 1 : BaseOf(k) = s THEN <<>> ELSE <<Verbatim(s)>>]
  /\ pc = "gets" => text = [s \in 1..Len(main) |-> TextWhen(s)]
  /\ pc \in {"duplicated", "expand", "relations", "expanded"} =>
       text = [s \in 1..Len(main) |-> FinalText(s)]

(* The inductive invariant that says what the copies are.                  *)
CopyInv ==
  /\ SpotsPart
  /\ ContentPart
  /\ TextPart

(* All that the definitions above speak of, but not the text.              *)
Ground == <<main, meta_input_fuzz_count, fuzz_template_bounds, stmt_rewrite_map>>

LEMMA GroundKept ==
  ASSUME UNCHANGED Ground
  PROVE  /\ \A k : BaseOf(k)' = BaseOf(k)
         /\ Spots' = Spots /\ InputIds' = InputIds
         /\ \A s : Verbatim(s)' = Verbatim(s)
         /\ \A srtv, i : CopyOf(srtv, i)' = CopyOf(srtv, i)
         /\ \A i, n : CopiesOf(i, n)' = CopiesOf(i, n)
         /\ AllOfThem' = AllOfThem
         /\ \A s : TextWhen(s)' = TextWhen(s) /\ FinalText(s)' = FinalText(s)
<1>1. UNCHANGED <<main, meta_input_fuzz_count, fuzz_template_bounds, stmt_rewrite_map>>
  BY DEF Ground
<1>2. /\ \A k : BaseOf(k)' = BaseOf(k)
      /\ Spots' = Spots /\ InputIds' = InputIds
  BY <1>1 DEF BaseOf, Spots, InputIds
<1>3. \A s : Verbatim(s)' = Verbatim(s)
  BY <1>1 DEF Verbatim, Rewritten
<1>4. \A srtv, i : CopyOf(srtv, i)' = CopyOf(srtv, i)
  BY <1>1 DEF CopyOf, Rewritten, RenamedUses
<1>5. \A i, n : CopiesOf(i, n)' = CopiesOf(i, n)
  BY <1>1, <1>4 DEF CopiesOf
<1>6. AllOfThem' = AllOfThem
  BY <1>1, <1>5 DEF AllOfThem
<1> QED
  BY <1>1, <1>2, <1>3, <1>4, <1>5, <1>6 DEF TextWhen, FinalText

(* A loop that leaves the locations alone keeps what is known of them.     *)
LEMMA SpotsKept ==
  ASSUME SpotsPart, UNCHANGED Ground,
         pc' \in {"visit", "copy", "gets", "duplicated", "expand", "relations", "expanded"} =>
           pc \in {"visit", "copy", "gets", "duplicated", "expand", "relations", "expanded"}
  PROVE  SpotsPart'
<1>1. UNCHANGED <<main, meta_input_fuzz_count, stmt_rewrite_map>> /\ Logged' = Logged
  BY LoggedKept DEF Ground
<1> QED
  BY <1>1, GroundKept DEF SpotsPart

LEMMA DupInit_CopyInv ==
  DupInit => CopyInv
<1> SUFFICES ASSUME DupInit PROVE CopyInv
  OBVIOUS
<1>1. main \in Mains /\ DOMAIN main = 1..Len(main) /\ meta_input_fuzz_count \in Nat
  BY BodiesOfMain, TemplateAssumption DEF DupInit
<1>2. /\ pc = "match" /\ stmt_rewrite_map = <<>> /\ first_output_var = TRUE
      /\ input_template_copies = [i \in InputIds |-> <<>>]
      /\ text = [s \in DOMAIN main |-> <<Verbatim(s)>>]
  BY DEF DupInit
<1>3. SpotsPart
  BY <1>1, <1>2 DEF SpotsPart, Spots
<1> QED
  BY <1>1, <1>2, <1>3 DEF CopyInv, ContentPart, TextPart

LEMMA MatchStepCopies ==
  ASSUME DupInv, CopyInv, MatchLocations
  PROVE  CopyInv'
<1>1. /\ pc = "match" /\ pc' = "log" /\ stmt_rewrite_map = <<>> /\ stmt_rewrite_map' = <<>>
      /\ UNCHANGED <<main, meta_input_fuzz_count, text, input_template_copies, first_output_var>>
  BY DEF MatchLocations, DupInv, MatchPart
<1>2. SpotsPart'
  BY <1>1 DEF SpotsPart, CopyInv, Spots
<1>3. ContentPart'
  BY <1>1 DEF ContentPart, CopyInv, Spots
<1>4. TextPart'
  <2>1. InputIds' = InputIds /\ \A s : Verbatim(s)' = Verbatim(s)
    BY <1>1 DEF InputIds, Verbatim, Rewritten
  <2> QED
    BY <1>1, <2>1 DEF TextPart, CopyInv
<1> QED
  BY <1>2, <1>3, <1>4 DEF CopyInv

LEMMA LogStepCopies ==
  ASSUME DupInv, CopyInv, LogChild
  PROVE  CopyInv'
<1>1. /\ pc = "log" /\ pc' = "log" /\ main \in Mains /\ first_output_var = TRUE
      /\ UNCHANGED <<main, meta_input_fuzz_count, text, input_template_copies, first_output_var>>
  BY DEF LogChild, DupInv, BodyPart, CopyInv, ContentPart
<1>2. /\ next \in 1..Len(main) /\ Len(main) \in Nat
      /\ \A s \in Logged : s \in 1..next - 1
  BY <1>1, BodiesOfMain DEF LogChild, DupInv, LogPart
<1> DEFINE n == Len(stmt_rewrite_map)
<1>3. /\ n \in Nat /\ stmt_rewrite_map = [k \in 1..n |-> stmt_rewrite_map[k]]
      /\ \A j, k \in 1..n : j < k => BaseOf(j) < BaseOf(k)
      /\ \A k \in 1..n : stmt_rewrite_map[k] = stmtRedeclTemplateVars(BaseOf(k))
      /\ \A k \in 1..n : BaseOf(k) \in 1..next - 1
      /\ meta_input_fuzz_count \in Nat
  <2>1. /\ n \in Nat /\ stmt_rewrite_map = [k \in 1..n |-> stmt_rewrite_map[k]]
        /\ \A j, k \in Spots : j < k => BaseOf(j) < BaseOf(k)
        /\ \A k \in Spots : stmt_rewrite_map[k] = stmtRedeclTemplateVars(BaseOf(k))
        /\ meta_input_fuzz_count \in Nat
    BY <1>1 DEF CopyInv, SpotsPart, ContentPart
  <2>2. Spots = 1..n
    BY <2>1 DEF Spots
  <2>3. \A k \in Spots : BaseOf(k) \in Logged
    BY DEF Spots, BaseOf, Logged
  <2> QED
    BY <1>2, <2>1, <2>2, <2>3
<1>4. TextPart'
  <2>1. InputIds' = InputIds /\ \A s : Verbatim(s)' = Verbatim(s)
    BY <1>1 DEF InputIds, Verbatim, Rewritten
  <2> QED
    BY <1>1, <2>1 DEF TextPart, CopyInv
<1>5. CASE ~IsLogged(next)
  <2>1. stmt_rewrite_map' = stmt_rewrite_map
    BY <1>5 DEF LogChild
  <2>2. Spots' = 1..n /\ \A k : BaseOf(k)' = BaseOf(k)
    BY <1>3, <2>1 DEF Spots, BaseOf
  <2>3. SpotsPart'
    BY <1>1, <1>3, <2>1, <2>2 DEF SpotsPart
  <2>4. ContentPart'
    BY <1>1, <1>3, <2>1, <2>2 DEF ContentPart
  <2> QED
    BY <1>4, <2>3, <2>4 DEF CopyInv
<1>6. CASE IsLogged(next)
  <2> DEFINE srtv == stmtRedeclTemplateVars(next)
  <2>1. stmt_rewrite_map' = Append(stmt_rewrite_map, srtv) /\ srtv.base_stmt = next
    BY <1>6 DEF LogChild, stmtRedeclTemplateVars
  <2> HIDE DEF srtv, n
  <2>2. stmt_rewrite_map' = [k \in 1..n + 1 |-> IF k = n + 1 THEN srtv ELSE stmt_rewrite_map[k]]
    BY <1>3, <2>1, AppendToFunction
  <2>3. Len(stmt_rewrite_map') = n + 1 /\ n + 1 \in Nat
    BY <1>3, <2>1, LongerByOne
  <2>4. /\ Spots' = 1..n + 1
        /\ \A k \in 1..n + 1 : BaseOf(k)' = IF k = n + 1 THEN next ELSE BaseOf(k)
        /\ \A k \in 1..n + 1 : stmt_rewrite_map'[k] = IF k = n + 1 THEN srtv ELSE stmt_rewrite_map[k]
    BY <2>1, <2>2 DEF Spots, BaseOf
  <2>5. ASSUME NEW j \in 1..n + 1, NEW k \in 1..n + 1, j < k
        PROVE  BaseOf(j)' < BaseOf(k)'
    <3>1. j \in 1..n /\ BaseOf(j)' = BaseOf(j)
      BY <1>3, <2>4, <2>5
    <3>2. CASE k = n + 1
      <4>1. BaseOf(k)' = next /\ BaseOf(j) \in 1..next - 1
        BY <1>3, <2>4, <3>1, <3>2
      <4> QED
        BY <1>2, <3>1, <4>1
    <3>3. CASE k # n + 1
      <4>1. k \in 1..n /\ BaseOf(k)' = BaseOf(k)
        BY <1>3, <2>4, <3>3
      <4> QED
        BY <1>3, <2>5, <3>1, <4>1
    <3> QED
      BY <3>2, <3>3
  <2>6. \A k \in 1..n + 1 : stmt_rewrite_map'[k] = stmtRedeclTemplateVars(BaseOf(k)')
    <3> TAKE k \in 1..n + 1
    <3>1. CASE k = n + 1
      BY <2>4, <3>1 DEF srtv
    <3>2. CASE k # n + 1
      <4>1. k \in 1..n
        BY <1>3, <3>2
      <4>2. stmt_rewrite_map'[k] = stmt_rewrite_map[k] /\ BaseOf(k)' = BaseOf(k)
        BY <2>4, <3>2
      <4>3. stmt_rewrite_map[k] = stmtRedeclTemplateVars(BaseOf(k))
        BY <1>3, <4>1
      <4> QED
        BY <4>2, <4>3
    <3> QED
      BY <3>1, <3>2
  <2>7. stmt_rewrite_map' = [k \in 1..Len(stmt_rewrite_map') |-> stmt_rewrite_map'[k]]
    BY <2>2, <2>3
  <2>8. SpotsPart'
    BY <1>1, <1>3, <2>3, <2>4, <2>5, <2>7 DEF SpotsPart
  <2>9. ContentPart'
    <3>1. \A r : stmtRedeclTemplateVars(r)' = stmtRedeclTemplateVars(r)
      BY DEF stmtRedeclTemplateVars
    <3> QED
      BY <1>1, <2>4, <2>6, <3>1 DEF ContentPart
  <2> QED
    BY <1>4, <2>8, <2>9 DEF CopyInv
<1> QED
  BY <1>5, <1>6

LEMMA AllLoggedStepCopies ==
  ASSUME DupInv, DupInv', CopyInv, AllLogged
  PROVE  CopyInv'
<1>1. /\ pc = "log" /\ pc' = "visit" /\ first_output_var = TRUE /\ next' = 1
      /\ UNCHANGED Ground
      /\ UNCHANGED <<main, meta_input_fuzz_count, text, input_template_copies, first_output_var,
                     stmt_rewrite_map>>
  BY DEF AllLogged, CopyInv, ContentPart, Ground
<1>2. Logged' = {s \in 1..Len(main') : Inside(main', s)}
  BY <1>1 DEF DupInv, VisitPart
<1>3. SpotsPart'
  BY <1>1, <1>2, GroundKept DEF SpotsPart, CopyInv
<1>4. ContentPart'
  <2>1. \A k \in Spots : BaseOf(k)' \in Logged'
    BY <1>1 DEF Spots, BaseOf, Logged
  <2>2. \A k \in Spots' : ~ (BaseOf(k)' < next')
    <3>1. \A k \in Spots : BaseOf(k)' \in 1..Len(main')
      BY <1>2, <2>1
    <3> QED
      BY <1>1, <3>1, GroundKept
  <2>3. \A k \in Spots : stmt_rewrite_map[k] = stmtRedeclTemplateVars(BaseOf(k))
    BY <1>1 DEF CopyInv, ContentPart
  <2>4. \A r : stmtRedeclTemplateVars(r)' = stmtRedeclTemplateVars(r)
    BY DEF stmtRedeclTemplateVars
  <2>5. \A k \in Spots' : stmt_rewrite_map'[k] = stmtRedeclTemplateVars(BaseOf(k))'
    BY <1>1, <2>3, <2>4, GroundKept
  <2>6. first_output_var' = TRUE /\ 1..next' - 1 = {}
    BY <1>1
  <2> QED
    BY <1>1, <2>2, <2>5, <2>6 DEF ContentPart
<1>5. TextPart'
  BY <1>1, GroundKept DEF TextPart, CopyInv
<1> QED
  BY <1>3, <1>4, <1>5 DEF CopyInv

LEMMA VisitStepCopies ==
  ASSUME DupInv, DupInv', CopyInv, VisitChild
  PROVE  CopyInv'
<1>1. /\ pc = "visit" /\ pc' = "visit" /\ next' = next + 1 /\ main \in Mains
      /\ UNCHANGED <<main, meta_input_fuzz_count, text, input_template_copies, fuzz_template_bounds>>
  BY DEF VisitChild, DupInv, BodyPart
<1>2. /\ next \in 1..Len(main) /\ Len(main) \in Nat /\ main[next].output_var \in BOOLEAN
      /\ 1..next' - 1 = (1..next - 1) \cup {next}
  BY <1>1, BodiesOfMain DEF VisitChild, MainStmt
<1>3. /\ in_fuzz_template <=> OpenAfter(main, next - 1)
      /\ DeclsWith(next) = DeclaredInside(main, next)
  <2>1. /\ in_fuzz_template \in BOOLEAN /\ (in_fuzz_template <=> OpenAfter(main, next - 1))
        /\ input_template_var_decls = DeclaredInside(main, next - 1)
    BY <1>1 DEF DupInv, VisitPart
  <2> QED
    BY <1>1, <1>2, <2>1, DeclaredStep DEF DeclsWith
<1> DEFINE n == Len(stmt_rewrite_map)
<1>4. /\ n \in Nat /\ stmt_rewrite_map = [k \in 1..n |-> stmt_rewrite_map[k]]
      /\ \A j, k \in Spots : j < k => BaseOf(j) < BaseOf(k)
      /\ meta_input_fuzz_count \in Nat
      /\ Logged = {s \in 1..Len(main) : Inside(main, s)}
      /\ first_output_var \in BOOLEAN
      /\ first_output_var <=> \A t \in 1..next - 1 : ~main[t].output_var
      /\ \A k \in Spots :
           stmt_rewrite_map[k] = IF BaseOf(k) < next THEN Visited(main, BaseOf(k))
                                 ELSE stmtRedeclTemplateVars(BaseOf(k))
  BY <1>1 DEF CopyInv, SpotsPart, ContentPart
<1>5. Spots = 1..n
  BY <1>4 DEF Spots
<1> DEFINE new(k) == IF BaseOf(k) # next THEN stmt_rewrite_map[k] ELSE Visited(main, next)
<1>6. stmt_rewrite_map' = [k \in 1..n |-> new(k)]
  <2>1. Visited(main, next) =
          [base_stmt |-> next,
           renames_decl |-> IF in_fuzz_template THEN main[next].decl ELSE {},
           renames_uses |-> main[next].uses \cap DeclsWith(next),
           output_var |-> IF ~main[next].output_var THEN "none"
                          ELSE IF first_output_var THEN "decl" ELSE "use"]
    BY <1>3, <1>4 DEF Visited
  <2> QED
    BY <2>1, <1>5 DEF VisitChild, Spots, BaseOf
<1>7. /\ Len(stmt_rewrite_map') = n /\ Spots' = 1..n
      /\ \A k \in 1..n : stmt_rewrite_map'[k] = new(k) /\ BaseOf(k)' = BaseOf(k)
  BY <1>4, <1>6 DEF Spots, BaseOf, Visited
<1>8. SpotsPart'
  <2>1. stmt_rewrite_map' = [k \in 1..Len(stmt_rewrite_map') |-> stmt_rewrite_map'[k]]
    BY <1>6, <1>7
  <2>2. Logged' = {s \in 1..Len(main') : Inside(main', s)}
    BY <1>1 DEF DupInv, VisitPart
  <2>3. Len(stmt_rewrite_map') \in Nat /\ meta_input_fuzz_count' \in Nat
    BY <1>1, <1>4, <1>7
  <2> QED
    BY <1>4, <1>5, <1>7, <2>1, <2>2, <2>3 DEF SpotsPart
<1>9. ContentPart'
  <2>1. first_output_var' \in BOOLEAN
        /\ (first_output_var' <=> \A t \in 1..next' - 1 : ~main'[t].output_var)
    BY <1>1, <1>2, <1>4 DEF VisitChild
  <2>2. ASSUME NEW k \in 1..n
        PROVE  stmt_rewrite_map'[k] = IF BaseOf(k) < next + 1 THEN Visited(main, BaseOf(k))
                                      ELSE stmtRedeclTemplateVars(BaseOf(k))
    <3>1. BaseOf(k) \in Nat
      <4>1. BaseOf(k) \in Logged
        BY <1>5 DEF Spots, BaseOf, Logged
      <4> QED
        BY <1>4, <4>1
    <3>2. CASE BaseOf(k) = next
      BY <1>2, <1>7, <3>2
    <3>3. CASE BaseOf(k) # next
      <4>1. stmt_rewrite_map'[k] = stmt_rewrite_map[k]
        BY <1>7, <3>3
      <4>2. BaseOf(k) < next + 1 <=> BaseOf(k) < next
        BY <1>2, <3>1, <3>3
      <4> QED
        BY <1>4, <1>5, <4>1, <4>2
    <3> QED
      BY <3>2, <3>3
  <2>3. \A r : stmtRedeclTemplateVars(r)' = stmtRedeclTemplateVars(r)
    BY DEF stmtRedeclTemplateVars
  <2>4. \A k \in Spots' :
          stmt_rewrite_map'[k] = IF BaseOf(k)' < next' THEN Visited(main', BaseOf(k)')
                                 ELSE stmtRedeclTemplateVars(BaseOf(k)')
    BY <1>1, <1>7, <2>2
  <2> QED
    BY <1>1, <2>1, <2>3, <2>4 DEF ContentPart
<1>10. TextPart'
  <2>1. InputIds' = InputIds /\ \A s : Verbatim(s)' = Verbatim(s)
    BY <1>1 DEF InputIds, Verbatim, Rewritten
  <2> QED
    BY <1>1, <2>1 DEF TextPart, CopyInv
<1> QED
  BY <1>8, <1>9, <1>10 DEF CopyInv

LEMMA AllVisitedStepCopies ==
  ASSUME DupInv, CopyInv, AllVisited
  PROVE  CopyInv'
<1>1. /\ pc = "visit" /\ pc' = "copy" /\ next = Len(main) + 1 /\ next' = 1 /\ main \in Mains
      /\ UNCHANGED Ground
      /\ UNCHANGED <<main, meta_input_fuzz_count, text, input_template_copies, stmt_rewrite_map>>
  BY DEF AllVisited, DupInv, BodyPart, Ground
<1>2. Len(main) \in Nat
  BY <1>1, BodiesOfMain
<1>3. SpotsPart'
  BY <1>1, SpotsKept DEF CopyInv
<1>4. ContentPart'
  <2>1. \A k \in Spots : BaseOf(k) < next
    <3>1. \A k \in Spots : BaseOf(k) \in Logged
      BY DEF Spots, BaseOf, Logged
    <3>2. Logged = {s \in 1..Len(main) : Inside(main, s)}
      BY <1>1 DEF CopyInv, SpotsPart
    <3> QED
      BY <1>1, <1>2, <3>1, <3>2
  <2>2. \A k \in Spots : stmt_rewrite_map[k] = Visited(main, BaseOf(k))
    BY <1>1, <2>1 DEF CopyInv, ContentPart
  <2>3. \A k \in Spots' : stmt_rewrite_map'[k] = Visited(main', BaseOf(k)')
    BY <1>1, <2>2, GroundKept
  <2> QED
    BY <1>1, <2>3 DEF ContentPart
<1>5. TextPart'
  <2>1. Len(stmt_rewrite_map) \in Nat /\ 1..next' - 1 = {} /\ next' - 1 = 0
    BY <1>1 DEF CopyInv, SpotsPart
  <2>2. /\ text = [s \in 1..Len(main) |-> <<Verbatim(s)>>]
        /\ input_template_copies = [i \in InputIds |-> <<>>]
    BY <1>1 DEF CopyInv, TextPart
  <2>3. \A i : CopiesOf(i, 0) = <<>>
    <3>1. 1..0 = {}
      OBVIOUS
    <3> QED
      BY <3>1 DEF CopiesOf
  <2>4. input_template_copies' =
          [i \in InputIds' |-> [k \in 1..next' - 1 |-> CopyOf(stmt_rewrite_map[k], i)']]
    BY <1>1, <2>1, <2>2, <2>3, GroundKept DEF CopiesOf
  <2>5. text' = [s \in 1..Len(main') |->
                   IF \E k \in 1..next' - 1 : BaseOf(k)' = s THEN <<>> ELSE <<Verbatim(s)'>>]
    BY <1>1, <2>1, <2>2, GroundKept
  <2>6. next' \in 1..Len(stmt_rewrite_map') + 1
    BY <1>1, <2>1
  <2> QED
    BY <1>1, <2>4, <2>5, <2>6, GroundKept DEF TextPart, CopiesOf
<1> QED
  BY <1>3, <1>4, <1>5 DEF CopyInv

LEMMA DuplicateStepCopies ==
  ASSUME DupInv, CopyInv, DuplicateStmt
  PROVE  CopyInv'
<1>1. /\ pc = "copy" /\ pc' = "copy" /\ next' = next + 1 /\ next \in Spots /\ main \in Mains
      /\ UNCHANGED Ground
      /\ UNCHANGED <<main, meta_input_fuzz_count, stmt_rewrite_map>>
  BY DEF DuplicateStmt, DupInv, BodyPart, Ground, Spots
<1>2. SpotsPart'
  BY <1>1, SpotsKept DEF CopyInv
<1>3. ContentPart'
  <2>1. \A k \in Spots' : stmt_rewrite_map'[k] = Visited(main', BaseOf(k)')
    BY <1>1, GroundKept DEF CopyInv, ContentPart
  <2> QED
    BY <1>1, <2>1 DEF ContentPart
<1>4. TextPart'
  <2> DEFINE n == Len(stmt_rewrite_map)
  <2>1. n \in Nat /\ Spots = 1..n /\ Len(main) \in Nat
    BY <1>1, BodiesOfMain DEF CopyInv, SpotsPart, Spots
  <2>2. next \in 1..n /\ next' \in 1..n + 1 /\ next' - 1 = next /\ 1..next = (1..next - 1) \cup {next}
        /\ (next - 1) + 1 = next /\ next - 1 \in Nat
    BY <1>1, <2>1
  <2>3. BaseOf(next) \in 1..Len(main)
    <3>1. BaseOf(next) \in Logged
      BY <1>1 DEF Spots, BaseOf, Logged
    <3> QED
      BY <1>1, <3>1 DEF CopyInv, SpotsPart
  <2>4. /\ input_template_copies = [i \in InputIds |-> CopiesOf(i, next - 1)]
        /\ text = [s \in 1..Len(main) |->
                     IF \E k \in 1..next - 1 : BaseOf(k) = s THEN <<>> ELSE <<Verbatim(s)>>]
    BY <1>1 DEF CopyInv, TextPart
  <2>5. /\ input_template_copies' =
             [i \in InputIds |-> Append(input_template_copies[i], CopyOf(stmt_rewrite_map[next], i))]
        /\ text' = [text EXCEPT ![BaseOf(next)] = <<>>]
    BY DEF DuplicateStmt, BaseOf
  <2>6. ASSUME NEW i
        PROVE  Append(CopiesOf(i, next - 1), CopyOf(stmt_rewrite_map[next], i)) = CopiesOf(i, next)
    <3> DEFINE f == CopiesOf(i, next - 1)
               e == CopyOf(stmt_rewrite_map[next], i)
               m == next - 1
    <3>1. f = [k \in 1..m |-> f[k]] /\ m \in Nat
      BY <2>2 DEF CopiesOf
    <3>2. \A k \in 1..m : f[k] = CopyOf(stmt_rewrite_map[k], i)
      BY DEF CopiesOf
    <3> HIDE DEF f, m, e
    <3>3. Append(f, e) = [k \in 1..m + 1 |-> IF k = m + 1 THEN e ELSE f[k]]
      BY <3>1, AppendToFunction
    <3>4. \A k \in 1..m + 1 : k # m + 1 => k \in 1..m
      BY <3>1
    <3>5. Append(f, e) = [k \in 1..m + 1 |-> CopyOf(stmt_rewrite_map[k], i)]
      <4>1. \A k \in 1..m + 1 : (IF k = m + 1 THEN e ELSE f[k]) = CopyOf(stmt_rewrite_map[k], i)
        BY <3>2, <3>4, <2>2 DEF e, m
      <4> QED
        BY <3>3, <4>1
    <3> QED
      BY <3>5, <2>2 DEF f, e, m, CopiesOf
  <2>7. input_template_copies' = [i \in InputIds |-> CopiesOf(i, next)]
    BY <2>4, <2>5, <2>6
  <2>8. text' = [s \in 1..Len(main) |->
                   IF \E k \in 1..next : BaseOf(k) = s THEN <<>> ELSE <<Verbatim(s)>>]
    BY <2>2, <2>3, <2>4, <2>5
  <2>9. /\ input_template_copies' =
             [i \in InputIds' |-> [k \in 1..next' - 1 |-> CopyOf(stmt_rewrite_map[k], i)']]
        /\ text' = [s \in 1..Len(main') |->
                      IF \E k \in 1..next' - 1 : BaseOf(k)' = s THEN <<>> ELSE <<Verbatim(s)'>>]
    BY <1>1, <2>2, <2>7, <2>8, GroundKept DEF CopiesOf
  <2>10. next' \in 1..Len(stmt_rewrite_map') + 1
    BY <1>1, <2>2
  <2> QED
    BY <1>1, <2>9, <2>10, GroundKept DEF TextPart, CopiesOf
<1> QED
  BY <1>2, <1>3, <1>4 DEF CopyInv

Copied == {CopyOf(stmt_rewrite_map[l], i) : l \in Spots, i \in InputIds}
CopySeqs == [k \in 1..meta_input_fuzz_count |-> CopiesOf(k - 1, Len(stmt_rewrite_map))]

LEMMA CopiesTyped ==
  ASSUME SpotsPart
  PROVE  /\ CopySeqs \in Seq(Seq(Copied)) /\ Len(CopySeqs) = meta_input_fuzz_count
         /\ AllOfThem = FlattenSeq(CopySeqs)
         /\ AllOfThem \in Seq(Copied)
<1>1. /\ meta_input_fuzz_count \in Nat /\ Len(stmt_rewrite_map) \in Nat
      /\ Spots = 1..Len(stmt_rewrite_map)
  BY DEF SpotsPart, Spots
<1>2. ASSUME NEW k \in 1..meta_input_fuzz_count
      PROVE  CopiesOf(k - 1, Len(stmt_rewrite_map)) \in Seq(Copied)
  <2>1. k - 1 \in InputIds
    BY <1>1 DEF InputIds
  <2>2. \A l \in 1..Len(stmt_rewrite_map) : CopyOf(stmt_rewrite_map[l], k - 1) \in Copied
    BY <1>1, <2>1 DEF Copied
  <2>3. CopiesOf(k - 1, Len(stmt_rewrite_map)) \in [1..Len(stmt_rewrite_map) -> Copied]
    BY <2>2 DEF CopiesOf
  <2> QED
    BY <1>1, <2>3
<1>3. CopySeqs \in [1..meta_input_fuzz_count -> Seq(Copied)]
  BY <1>2 DEF CopySeqs
<1>4. CopySeqs \in Seq(Seq(Copied)) /\ Len(CopySeqs) = meta_input_fuzz_count
  BY <1>1, <1>3
<1>5. AllOfThem = FlattenSeq(CopySeqs)
  BY DEF AllOfThem, CopySeqs
<1> QED
  BY <1>4, <1>5, FlattenSeqLaidOut

LEMMA InsertStepCopies ==
  ASSUME DupInv, CopyInv, InsertCopies
  PROVE  CopyInv'
<1>1. /\ pc = "copy" /\ pc' = "gets" /\ next = Len(stmt_rewrite_map) + 1 /\ main \in Mains
      /\ UNCHANGED Ground
      /\ UNCHANGED <<main, meta_input_fuzz_count, stmt_rewrite_map, fuzz_template_bounds>>
  BY DEF InsertCopies, DupInv, BodyPart, Ground, locals
<1>2. SpotsPart'
  BY <1>1, SpotsKept DEF CopyInv
<1>3. ContentPart'
  <2>1. \A k \in Spots' : stmt_rewrite_map'[k] = Visited(main', BaseOf(k)')
    BY <1>1, GroundKept DEF CopyInv, ContentPart
  <2> QED
    BY <1>1, <2>1 DEF ContentPart
<1>4. TextPart'
  <2> DEFINE n == Len(stmt_rewrite_map)
  <2>1. /\ n \in Nat /\ Spots = 1..n /\ Len(main) \in Nat /\ next - 1 = n
        /\ meta_input_fuzz_count \in Nat
    BY <1>1, BodiesOfMain DEF CopyInv, SpotsPart, Spots
  <2>2. \A s \in 1..Len(main) : (\E k \in 1..n : BaseOf(k) = s) <=> Inside(main, s)
    <3>1. Logged = {s \in 1..Len(main) : Inside(main, s)}
      BY <1>1 DEF CopyInv, SpotsPart
    <3>2. Logged = {BaseOf(k) : k \in 1..n}
      BY <2>1 DEF Spots, BaseOf, Logged
    <3> QED
      BY <3>1, <3>2
  <2>3. /\ input_template_copies = [i \in InputIds |-> CopiesOf(i, n)]
        /\ text = [s \in 1..Len(main) |-> IF Inside(main, s) THEN <<>> ELSE <<Verbatim(s)>>]
    BY <1>1, <2>1, <2>2 DEF CopyInv, TextPart
  <2>4. AllCopies = AllOfThem
    <3>1. \A k \in 1..meta_input_fuzz_count : k - 1 \in InputIds
      BY <2>1 DEF InputIds
    <3>2. \A k \in 1..meta_input_fuzz_count : input_template_copies[k - 1] = CopiesOf(k - 1, n)
      BY <2>3, <3>1
    <3> QED
      BY <3>2 DEF AllCopies, AllOfThem
  <2>5. fuzz_template_bounds = BoundsOf
    BY <1>1 DEF DupInv, BoundsPart
  <2>6. text' = [s \in 1..Len(main) |-> TextWhen(s)]
    <3>1. CASE fuzz_template_bounds.first = 0
      <4>1. \A s \in 1..Len(main) : main[s].kind # "start"
        BY <1>1, <2>5, <3>1, LastOfKind DEF BoundsOf
      <4>2. \A s \in 1..Len(main) : ~Inside(main, s)
        <5> TAKE s \in 1..Len(main)
        <5>1. \A a \in 1..s - 1 : a \in 1..Len(main)
          BY <2>1
        <5> QED
          BY <4>1, <5>1 DEF Inside, OpenAfter
      <4>3. text' = text
        BY <3>1 DEF InsertCopies
      <4> QED
        BY <2>3, <4>2, <4>3 DEF TextWhen
    <3>2. CASE fuzz_template_bounds.first # 0
      <4> DEFINE b == fuzz_template_bounds.second
      <4>1. b # 0 /\ text' = [text EXCEPT ![b] = @ \o AllOfThem]
        BY <2>4, <3>2 DEF InsertCopies, InsertionPoint
      <4>2. b \in 1..Len(main) /\ main[b].kind = "end"
        BY <1>1, <2>1, <2>5, <4>1, LastOfKind DEF BoundsOf
      <4>3. Inside(main, b)
        BY <1>1, <4>2 DEF DupInv, BalancedPart, BalancedAt, Inside
      <4>4. text[b] = <<>> /\ <<>> \o AllOfThem = AllOfThem
        <5>1. AllOfThem \in Seq(Copied)
          BY CopiesTyped DEF CopyInv
        <5> QED
          BY <2>3, <4>2, <4>3, <5>1
      <4>5. text' = [s \in 1..Len(main) |-> IF s = b THEN AllOfThem ELSE text[s]]
        BY <2>3, <4>1, <4>2, <4>4
      <4> QED
        BY <2>3, <4>3, <4>5 DEF TextWhen
    <3> QED
      BY <3>1, <3>2
  <2>7. text' = [s \in 1..Len(main') |-> TextWhen(s)']
    BY <1>1, <2>6, GroundKept
  <2> QED
    BY <1>1, <2>7 DEF TextPart
<1> QED
  BY <1>2, <1>3, <1>4 DEF CopyInv

LEMMA GetsStepCopies ==
  ASSUME DupInv, CopyInv, ReplaceGets
  PROVE  CopyInv'
<1>1. /\ pc = "gets" /\ pc' = "duplicated" /\ main \in Mains
      /\ UNCHANGED Ground
      /\ UNCHANGED <<main, meta_input_fuzz_count, stmt_rewrite_map, fuzz_template_bounds>>
  BY DEF ReplaceGets, DupInv, BodyPart, Ground, locals
<1>2. SpotsPart'
  BY <1>1, SpotsKept DEF CopyInv
<1>3. ContentPart'
  <2>1. \A k \in Spots' : stmt_rewrite_map'[k] = Visited(main', BaseOf(k)')
    BY <1>1, GroundKept DEF CopyInv, ContentPart
  <2> QED
    BY <1>1, <2>1 DEF ContentPart
<1>4. TextPart'
  <2>1. /\ text = [s \in 1..Len(main) |-> TextWhen(s)]
        /\ text' = [s \in 1..Len(main) |-> [k \in DOMAIN text[s] |-> WithGets(text[s][k])]]
    BY <1>1 DEF CopyInv, TextPart, ReplaceGets
  <2>2. ASSUME NEW s \in 1..Len(main)
        PROVE  [k \in DOMAIN text[s] |-> WithGets(text[s][k])] = FinalText(s)
    <3>1. CASE ~Inside(main, s)
      <4>1. text[s] = <<Verbatim(s)>>
        BY <2>1, <3>1 DEF TextWhen
      <4>2. [k \in DOMAIN <<Verbatim(s)>> |-> WithGets(<<Verbatim(s)>>[k])] = <<WithGets(Verbatim(s))>>
        OBVIOUS
      <4> QED
        BY <3>1, <4>1, <4>2 DEF FinalText
    <3>2. CASE Inside(main, s) /\ s = fuzz_template_bounds.second
      <4>1. text[s] = AllOfThem /\ FinalText(s) = AllOfThem
        BY <2>1, <3>2 DEF TextWhen, FinalText
      <4>2. AllOfThem \in Seq(Copied)
        BY CopiesTyped DEF CopyInv
      <4>3. \A st \in Copied : WithGets(st) = st
        <5>1. meta_input_fuzz_count \in Nat
          BY DEF CopyInv, SpotsPart
        <5>2. \A i \in InputIds : i # Unsuffixed
          BY <5>1 DEF InputIds, Unsuffixed
        <5>3. \A srtv, i : CopyOf(srtv, i).copy = i
          BY DEF CopyOf, Rewritten
        <5> QED
          BY <5>2, <5>3 DEF Copied, WithGets
      <4>4. \A k \in DOMAIN AllOfThem : WithGets(AllOfThem[k]) = AllOfThem[k]
        BY <4>2, <4>3
      <4>5. [k \in DOMAIN AllOfThem |-> AllOfThem[k]] = AllOfThem
        BY <4>2
      <4>6. [k \in DOMAIN AllOfThem |-> WithGets(AllOfThem[k])] = [k \in DOMAIN AllOfThem |-> AllOfThem[k]]
        BY <4>4
      <4> QED
        BY <4>1, <4>5, <4>6
    <3>3. CASE Inside(main, s) /\ s # fuzz_template_bounds.second
      <4>1. text[s] = <<>> /\ FinalText(s) = <<>>
        BY <2>1, <3>3 DEF TextWhen, FinalText
      <4>2. [k \in DOMAIN <<>> |-> WithGets(<<>>[k])] = <<>>
        OBVIOUS
      <4> QED
        BY <4>1, <4>2
    <3> QED
      BY <3>1, <3>2, <3>3
  <2>3. text' = [s \in 1..Len(main) |-> FinalText(s)]
    BY <2>1, <2>2
  <2>4. text' = [s \in 1..Len(main') |-> FinalText(s)']
    BY <1>1, <2>3, GroundKept
  <2> QED
    BY <1>1, <2>4 DEF TextPart
<1> QED
  BY <1>2, <1>3, <1>4 DEF CopyInv

LEMMA LaterStepCopies ==
  ASSUME CopyInv, UNCHANGED <<Ground, text>>,
         \/ pc' = "aborted"
         \/ /\ pc \in {"duplicated", "expand", "relations", "expanded"}
            /\ pc' \in {"duplicated", "expand", "relations", "expanded"}
  PROVE  CopyInv'
<1>1. UNCHANGED Ground /\ UNCHANGED <<main, stmt_rewrite_map, text>>
  BY DEF Ground
<1>2. SpotsPart'
  BY <1>1, SpotsKept DEF CopyInv
<1>3. CASE pc' = "aborted"
  BY <1>2, <1>3 DEF CopyInv, ContentPart, TextPart
<1>4. CASE /\ pc \in {"duplicated", "expand", "relations", "expanded"}
           /\ pc' \in {"duplicated", "expand", "relations", "expanded"}
  <2>1. ContentPart'
    <3>1. \A k \in Spots' : stmt_rewrite_map'[k] = Visited(main', BaseOf(k)')
      BY <1>1, <1>4, GroundKept DEF CopyInv, ContentPart
    <3> QED
      BY <1>4, <3>1 DEF ContentPart
  <2>2. TextPart'
    <3>1. text' = [s \in 1..Len(main') |-> FinalText(s)']
      BY <1>1, <1>4, GroundKept DEF CopyInv, TextPart
    <3> QED
      BY <1>4, <3>1 DEF TextPart
  <2> QED
    BY <1>2, <2>1, <2>2 DEF CopyInv
<1> QED
  BY <1>3, <1>4

LEMMA StutterCopies ==
  ASSUME CopyInv, UNCHANGED dup_vars
  PROVE  CopyInv'
<1>1. /\ UNCHANGED <<main, meta_input_fuzz_count, pc, next, in_fuzz_template, fuzz_template_bounds,
                     stmt_rewrite_map, input_template_var_decls, first_output_var,
                     input_template_copies, text>>
      /\ UNCHANGED Ground
  BY DEF dup_vars, locals, Ground
<1>2. SpotsPart'
  BY <1>1, SpotsKept DEF CopyInv
<1>3. ContentPart'
  BY <1>1, GroundKept DEF CopyInv, ContentPart, stmtRedeclTemplateVars
<1>4. TextPart'
  BY <1>1, GroundKept DEF CopyInv, TextPart, CopiesOf
<1> QED
  BY <1>2, <1>3, <1>4 DEF CopyInv

LEMMA CopyInvInductive ==
  TemplateSpec => [](DupInv /\ CopyInv)
<1>1. TemplateInit => CopyInv
  BY DupInit_CopyInv DEF TemplateInit
<1>2. DupInv /\ DupInv' /\ CopyInv /\ [TemplateNext]_template_vars => CopyInv'
  <2> SUFFICES ASSUME DupInv, DupInv', CopyInv, [TemplateNext]_template_vars PROVE CopyInv'
    OBVIOUS
  <2>1. CASE Duplicate
    <3>1. CASE DupAbort
      <4>1. pc' = "aborted" /\ UNCHANGED <<Ground, text>>
        BY <3>1 DEF DupAbort, Ground, locals
      <4> QED
        BY <4>1, LaterStepCopies
    <3> QED
      BY <2>1, <3>1, MatchStepCopies, LogStepCopies, AllLoggedStepCopies, VisitStepCopies,
         AllVisitedStepCopies, DuplicateStepCopies, InsertStepCopies, GetsStepCopies
         DEF Duplicate, DupNext
  <2>2. CASE LogMatch
    BY <2>2, StutterCopies DEF LogMatch
  <2>3. CASE AllMatched
    BY <2>3, LaterStepCopies DEF AllMatched, locals, Ground
  <2>4. CASE ExpandStart
    BY <2>4, StutterCopies DEF ExpandStart, Expanding
  <2>5. CASE ExpandEnd
    BY <2>5, StutterCopies DEF ExpandEnd, Expanding
  <2>6. CASE ExpandNew
    BY <2>6, StutterCopies DEF ExpandNew, Expanding
  <2>7. CASE AllExpanded
    BY <2>7, LaterStepCopies DEF AllExpanded, locals, Ground
  <2>8. CASE ExpandMR
    BY <2>8, StutterCopies DEF ExpandMR
  <2>9. CASE Finish
    BY <2>9, LaterStepCopies DEF Finish, locals, Ground
  <2>10. CASE UNCHANGED template_vars
    BY <2>10, StutterCopies DEF template_vars
  <2> QED
    BY <2>1, <2>2, <2>3, <2>4, <2>5, <2>6, <2>7, <2>8, <2>9, <2>10 DEF TemplateNext
<1> QED
  BY <1>1, <1>2, DupInvInductive, PTL DEF TemplateSpec

-----------------------------------------------------------------------------
(***************************************************************************)
(* What the rewritten main is, statement by statement, in a program with   *)
(* one block at most.                                                      *)
(***************************************************************************)

OneBlock ==
  \A m \in Mains : \A e, s \in DOMAIN m :
    m[e].kind = "end" /\ m[s].kind = "start" => ~ (e < s)

Done == {"duplicated", "expand", "relations", "expanded"}

Kept(s) == WithGets(Verbatim(s))
CopyAt(s, i) == CopyOf(Visited(main, s), i)

LEMMA KeptIs ==
  ASSUME NEW s
  PROVE  Kept(s).of = s /\ Kept(s).copy = Unsuffixed
         /\ Kept(s).decl = {Name(v, Unsuffixed) : v \in main[s].decl}
         /\ Kept(s).uses = {Name(v, Unsuffixed) : v \in main[s].uses}
                             \cup {getMetaInputVarName(id) : id \in main[s].gets}
BY DEF Kept, WithGets, Verbatim, Rewritten

LEMMA CopyIs ==
  ASSUME NEW s, NEW i
  PROVE  CopyAt(s, i).of = s /\ CopyAt(s, i).copy = i
BY DEF CopyAt, CopyOf, Visited, Rewritten

(* The statements of the only block are next to each other.                *)
LEMMA OneInterval ==
  ASSUME OneBlock, main \in Mains, \A s \in 1..Len(main) : BalancedAt(main, s),
         NEW b \in 1..Len(main), main[b].kind = "end",
         NEW s \in 1..Len(main), ~Inside(main, s), NEW u \in 1..Len(main), Inside(main, u)
  PROVE  (s < b => s < u) /\ (b < s => u < s)
<1>0. Len(main) \in Nat /\ DOMAIN main = 1..Len(main) /\ s # u
  BY BodiesOfMain
<1>1. PICK a \in 1..u : main[a].kind = "start" /\ \A e \in a..u - 1 : main[e].kind # "end"
  <2>1. CASE main[u].kind = "start"
    <3>1. u \in 1..u /\ u..u - 1 = {}
      BY <1>0
    <3> QED
      BY <2>1, <3>1
  <2>2. CASE OpenAfter(main, u - 1)
    <3>1. PICK a \in 1..u - 1 : main[a].kind = "start" /\ \A e \in a..u - 1 : main[e].kind # "end"
      BY <2>2 DEF OpenAfter
    <3>2. a \in 1..u
      BY <1>0
    <3> QED
      BY <3>1, <3>2
  <2> QED
    BY <2>1, <2>2 DEF Inside
<1>2. a \in DOMAIN main
  BY <1>0
<1>3. ASSUME s < b, ~ (s < u) PROVE FALSE
  <2>1. u < s /\ a \in 1..s - 1
    BY <1>0, <1>3
  <2>2. PICK e \in a..s - 1 : main[e].kind = "end"
    BY <1>1, <2>1 DEF Inside, OpenAfter
  <2>3. e \in DOMAIN main /\ e < b
    BY <1>0, <1>3
  <2>4. PICK c \in 1..b - 1 : main[c].kind = "start" /\ \A d \in c..b - 1 : main[d].kind # "end"
    BY DEF BalancedAt, OpenAfter
  <2>5. c \in DOMAIN main /\ e < c
    BY <1>0, <2>2, <2>3, <2>4
  <2> QED
    BY <2>2, <2>3, <2>4, <2>5 DEF OneBlock
<1>4. ASSUME b < s, ~ (u < s) PROVE FALSE
  <2>1. s < u
    BY <1>0, <1>4
  <2>2. b < a
    BY <1>0, <1>1, <1>4, <2>1
  <2> QED
    BY <1>0, <1>1, <1>2, <2>2 DEF OneBlock
<1> QED
  BY <1>3, <1>4

Written == Copied \cup {Kept(s) : s \in 1..Len(main)}

LEMMA FinalTextTyped ==
  ASSUME DupInv, CopyInv, pc \in Done
  PROVE  /\ main \in Mains /\ Len(main) \in Nat /\ DOMAIN main = 1..Len(main)
         /\ text \in Seq(Seq(Written)) /\ Len(text) = Len(main)
         /\ \A s \in 1..Len(main) : text[s] = FinalText(s)
         /\ AllOfThem = FlattenSeq(CopySeqs) /\ CopySeqs \in Seq(Seq(Copied))
         /\ Len(CopySeqs) = meta_input_fuzz_count
<1>1. main \in Mains /\ Len(main) \in Nat /\ DOMAIN main = 1..Len(main)
  BY BodiesOfMain DEF DupInv, BodyPart
<1>2. text = [s \in 1..Len(main) |-> FinalText(s)]
  BY DEF CopyInv, TextPart, Done
<1>3. AllOfThem = FlattenSeq(CopySeqs) /\ AllOfThem \in Seq(Copied) /\ CopySeqs \in Seq(Seq(Copied))
      /\ Len(CopySeqs) = meta_input_fuzz_count
  BY CopiesTyped DEF CopyInv
<1>4. ASSUME NEW s \in 1..Len(main) PROVE FinalText(s) \in Seq(Written)
  <2>1. Kept(s) \in Written /\ Copied \subseteq Written
    BY DEF Written
  <2>2. AllOfThem \in Seq(Written)
    BY <1>3, <2>1
  <2>3. <<Kept(s)>> \in Seq(Written) /\ <<>> \in Seq(Written)
    BY <2>1
  <2> QED
    BY <2>2, <2>3 DEF FinalText, Kept
<1>5. text \in [1..Len(main) -> Seq(Written)]
  BY <1>2, <1>4
<1> QED
  BY <1>1, <1>2, <1>3, <1>5

(* A statement of a copy, found by the statement it copies.                *)
LEMMA SpotOf ==
  ASSUME DupInv, CopyInv, pc \in Done
  PROVE  /\ Spots = 1..Len(stmt_rewrite_map) /\ Len(stmt_rewrite_map) \in Nat
         /\ \A l \in Spots : /\ BaseOf(l) \in 1..Len(main) /\ Inside(main, BaseOf(l))
                             /\ \A i : CopyOf(stmt_rewrite_map[l], i) = CopyAt(BaseOf(l), i)
         /\ \A s \in 1..Len(main) : Inside(main, s) => \E l \in Spots : BaseOf(l) = s
         /\ \A j, k \in Spots : j < k => BaseOf(j) < BaseOf(k)
<1>1. /\ Spots = 1..Len(stmt_rewrite_map) /\ Len(stmt_rewrite_map) \in Nat
      /\ \A j, k \in Spots : j < k => BaseOf(j) < BaseOf(k)
  BY DEF CopyInv, SpotsPart, Spots
<1>2. {BaseOf(l) : l \in Spots} = {s \in 1..Len(main) : Inside(main, s)}
  BY DEF CopyInv, SpotsPart, Done, Logged, Spots, BaseOf
<1>3. \A l \in Spots : stmt_rewrite_map[l] = Visited(main, BaseOf(l))
  BY DEF CopyInv, ContentPart, Done
<1> QED
  BY <1>1, <1>2, <1>3 DEF CopyAt

(* Where a position of the rewritten main comes from: statement s kept, or *)
(* copy i of statement s.                                                  *)
From(p, s, i) ==
  /\ s \in 1..Len(main)
  /\ \/ ~Inside(main, s) /\ i = Unsuffixed /\ Output[p] = Kept(s)
     \/ Inside(main, s) /\ i \in InputIds /\ Output[p] = CopyAt(s, i)

(* Positions of the rewritten main, by the two levels at which sequences   *)
(* are put one after another.                                              *)
KeptAt(off, p, s) ==
  /\ s \in 1..Len(main) /\ ~Inside(main, s)
  /\ Len(text[s]) = 1 /\ p = off[s - 1] + 1 /\ Output[p] = Kept(s)

CopiedAt(off, to, p, k, l) ==
  LET b == fuzz_template_bounds.second
  IN  /\ k \in 1..Len(CopySeqs) /\ l \in 1..Len(CopySeqs[k])
      /\ b \in 1..Len(main) /\ text[b] = AllOfThem
      /\ to[k - 1] + l \in 1..Len(text[b])
      /\ p = off[b - 1] + (to[k - 1] + l)
      /\ Output[p] = CopyAt(BaseOf(l), k - 1)

LEMMA CopySeqIs ==
  ASSUME DupInv, CopyInv, pc \in Done, NEW k \in 1..Len(CopySeqs)
  PROVE  /\ Len(CopySeqs[k]) = Len(stmt_rewrite_map) /\ k - 1 \in InputIds
         /\ \A l \in Spots : CopySeqs[k][l] = CopyAt(BaseOf(l), k - 1)
<1>1. Len(CopySeqs) = meta_input_fuzz_count /\ meta_input_fuzz_count \in Nat
  BY CopiesTyped DEF CopyInv, SpotsPart
<1>2. CopySeqs[k] = CopiesOf(k - 1, Len(stmt_rewrite_map)) /\ k - 1 \in InputIds
  BY <1>1 DEF CopySeqs, InputIds
<1>3. Len(stmt_rewrite_map) \in Nat /\ Spots = 1..Len(stmt_rewrite_map)
  BY SpotOf
<1>4. CopySeqs[k] = [l \in 1..Len(stmt_rewrite_map) |-> CopyOf(stmt_rewrite_map[l], k - 1)]
  BY <1>2 DEF CopiesOf
<1>5. \A l \in Spots : CopyOf(stmt_rewrite_map[l], k - 1) = CopyAt(BaseOf(l), k - 1)
  BY SpotOf
<1>6. \A l \in Spots : CopySeqs[k][l] = CopyAt(BaseOf(l), k - 1)
  BY <1>3, <1>4, <1>5
<1>7. Len(CopySeqs[k]) = Len(stmt_rewrite_map)
  BY <1>3, <1>4
<1> QED
  BY <1>2, <1>6, <1>7

LEMMA BoundsInside ==
  ASSUME DupInv, pc \in Done, NEW s \in 1..Len(main), Inside(main, s)
  PROVE  /\ fuzz_template_bounds.second \in 1..Len(main)
         /\ main[fuzz_template_bounds.second].kind = "end"
         /\ Inside(main, fuzz_template_bounds.second)
<1>1. main \in Mains /\ Len(main) \in Nat /\ DOMAIN main = 1..Len(main)
  BY BodiesOfMain DEF DupInv, BodyPart
<1>2. /\ fuzz_template_bounds = BoundsOf
      /\ fuzz_template_bounds.first # 0 => fuzz_template_bounds.second # 0
      /\ \A u \in 1..Len(main) : BalancedAt(main, u)
  BY DEF DupInv, BoundsPart, BalancedPart, Done
<1>3. \E a \in 1..Len(main) : main[a].kind = "start"
  <2>1. CASE main[s].kind = "start"
    BY <2>1
  <2>2. CASE OpenAfter(main, s - 1)
    <3>1. PICK a \in 1..s - 1 : main[a].kind = "start"
      BY <2>2 DEF OpenAfter
    <3>2. a \in 1..Len(main)
      BY <1>1
    <3> QED
      BY <3>1, <3>2
  <2> QED
    BY <2>1, <2>2 DEF Inside
<1>4. fuzz_template_bounds.first # 0
  BY <1>1, <1>2, <1>3, LastOfKind DEF BoundsOf
<1>5. /\ fuzz_template_bounds.second \in 1..Len(main)
      /\ main[fuzz_template_bounds.second].kind = "end"
  BY <1>1, <1>2, <1>4, LastOfKind DEF BoundsOf
<1> QED
  BY <1>2, <1>5 DEF BalancedAt, Inside

LEMMA Positions ==
  ASSUME DupInv, CopyInv, pc \in Done,
         NEW off, LaidOut(Output, text, off, Len(text)),
         NEW to, LaidOut(AllOfThem, CopySeqs, to, Len(CopySeqs))
  PROVE  /\ \A p \in 1..Len(Output) :
              \/ \E s : KeptAt(off, p, s)
              \/ \E k, l : CopiedAt(off, to, p, k, l)
         /\ \A s \in 1..Len(main) : ~Inside(main, s) =>
              \E p \in 1..Len(Output) : KeptAt(off, p, s)
         /\ \A k \in 1..Len(CopySeqs) : \A l \in Spots :
              \E p \in 1..Len(Output) : CopiedAt(off, to, p, k, l)
<1>1. /\ text \in Seq(Seq(Written)) /\ Len(text) = Len(main)
      /\ \A s \in 1..Len(main) : text[s] = FinalText(s)
      /\ CopySeqs \in Seq(Seq(Copied))
  BY FinalTextTyped
<1>2. Spots = 1..Len(stmt_rewrite_map) /\ \A l \in Spots : BaseOf(l) \in 1..Len(main) /\ Inside(main, BaseOf(l))
  BY SpotOf
<1>f. /\ \A p \in 1..Len(Output) : TakenFrom(Output, text, off, p)
      /\ \A i \in 1..Len(text) : \A j \in 1..Len(text[i]) :
           off[i - 1] + j \in 1..Len(Output) /\ Output[off[i - 1] + j] = text[i][j]
  BY <1>1, LaidOutFacts
<1>g. /\ \A p \in 1..Len(AllOfThem) : TakenFrom(AllOfThem, CopySeqs, to, p)
      /\ \A i \in 1..Len(CopySeqs) : \A j \in 1..Len(CopySeqs[i]) :
           to[i - 1] + j \in 1..Len(AllOfThem) /\ AllOfThem[to[i - 1] + j] = CopySeqs[i][j]
  BY <1>1, LaidOutFacts
<1>3. ASSUME NEW s \in 1..Len(main), ~Inside(main, s)
      PROVE  text[s] = <<Kept(s)>> /\ Len(text[s]) = 1 /\ text[s][1] = Kept(s)
  <2>1. text[s] = <<Kept(s)>>
    BY <1>1, <1>3 DEF FinalText, Kept
  <2> HIDE DEF Kept
  <2> QED
    BY <2>1
<1>4. ASSUME NEW p \in 1..Len(Output)
      PROVE  (\E s : KeptAt(off, p, s)) \/ (\E k, l : CopiedAt(off, to, p, k, l))
  <2>1. PICK s \in 1..Len(text) : \E j \in 1..Len(text[s]) :
          p = off[s - 1] + j /\ Output[p] = text[s][j]
    BY <1>f DEF TakenFrom
  <2>2. PICK j \in 1..Len(text[s]) : p = off[s - 1] + j /\ Output[p] = text[s][j]
    BY <2>1
  <2>3. CASE ~Inside(main, s)
    <3>1. j = 1 /\ s \in 1..Len(main)
      BY <1>1, <1>3, <2>2, <2>3
    <3>2. KeptAt(off, p, s)
      BY <1>3, <2>2, <2>3, <3>1 DEF KeptAt
    <3> QED
      BY <3>2
  <2>4. CASE Inside(main, s)
    <3>1. text[s] = IF s = fuzz_template_bounds.second THEN AllOfThem ELSE <<>>
      BY <1>1, <2>4 DEF FinalText
    <3>2. s = fuzz_template_bounds.second /\ text[s] = AllOfThem
      BY <2>2, <3>1
    <3>3. j \in 1..Len(AllOfThem) /\ Output[p] = AllOfThem[j]
      BY <2>2, <3>2
    <3>4. PICK k \in 1..Len(CopySeqs) : \E l \in 1..Len(CopySeqs[k]) :
            j = to[k - 1] + l /\ AllOfThem[j] = CopySeqs[k][l]
      BY <1>g, <3>3 DEF TakenFrom
    <3>5. PICK l \in 1..Len(CopySeqs[k]) : j = to[k - 1] + l /\ AllOfThem[j] = CopySeqs[k][l]
      BY <3>4
    <3>6. CopySeqs[k][l] = CopyAt(BaseOf(l), k - 1)
      BY <1>2, CopySeqIs
    <3>7. CopiedAt(off, to, p, k, l)
      BY <1>1, <2>2, <3>2, <3>3, <3>5, <3>6 DEF CopiedAt
    <3> QED
      BY <3>7
  <2> QED
    BY <2>3, <2>4
<1>5. ASSUME NEW s \in 1..Len(main), ~Inside(main, s)
      PROVE  \E p \in 1..Len(Output) : KeptAt(off, p, s)
  <2>1. 1 \in 1..Len(text[s]) /\ s \in 1..Len(text)
    BY <1>1, <1>3, <1>5
  <2>2. off[s - 1] + 1 \in 1..Len(Output) /\ Output[off[s - 1] + 1] = text[s][1]
    BY <1>f, <2>1
  <2> QED
    BY <1>3, <1>5, <2>2 DEF KeptAt
<1>6. ASSUME NEW k \in 1..Len(CopySeqs), NEW l \in Spots
      PROVE  \E p \in 1..Len(Output) : CopiedAt(off, to, p, k, l)
  <2> DEFINE b == fuzz_template_bounds.second
             j == to[k - 1] + l
  <2>1. b \in 1..Len(main) /\ Inside(main, b)
    BY <1>2, BoundsInside
  <2>2. text[b] = AllOfThem
    BY <1>1, <2>1 DEF FinalText
  <2>3. l \in 1..Len(CopySeqs[k]) /\ CopySeqs[k][l] = CopyAt(BaseOf(l), k - 1)
    BY <1>2, CopySeqIs
  <2>4. j \in 1..Len(AllOfThem) /\ AllOfThem[j] = CopySeqs[k][l]
    BY <1>g, <2>3
  <2> HIDE DEF j
  <2>5. off[b - 1] + j \in 1..Len(Output) /\ Output[off[b - 1] + j] = text[b][j]
    BY <1>1, <1>f, <2>1, <2>2, <2>4
  <2>6. CopiedAt(off, to, off[b - 1] + j, k, l)
    BY <2>1, <2>2, <2>3, <2>4, <2>5 DEF CopiedAt, j
  <2> QED
    BY <2>5, <2>6
<1> QED
  BY <1>4, <1>5, <1>6

LEMMA KeptInOrder ==
  ASSUME DupInv, CopyInv, pc \in Done, OneBlock,
         NEW off, LaidOut(Output, text, off, Len(text)),
         NEW to, LaidOut(AllOfThem, CopySeqs, to, Len(CopySeqs)),
         NEW p \in 1..Len(Output), NEW q \in 1..Len(Output), p < q
  PROVE  Precedes(Output[p], Output[q])
<1>1. /\ main \in Mains /\ Len(main) \in Nat
      /\ text \in Seq(Seq(Written)) /\ Len(text) = Len(main)
      /\ CopySeqs \in Seq(Seq(Copied))
  BY FinalTextTyped
<1>2. /\ Spots = 1..Len(stmt_rewrite_map)
      /\ \A l \in Spots : BaseOf(l) \in 1..Len(main) /\ Inside(main, BaseOf(l))
      /\ \A j, k \in Spots : j < k => BaseOf(j) < BaseOf(k)
  BY SpotOf
<1>3. /\ \A s \in 1..Len(main) : BalancedAt(main, s)
  BY DEF DupInv, BalancedPart, Done
<1> DEFINE b == fuzz_template_bounds.second
<1>4. ASSUME NEW k, NEW l, NEW r, CopiedAt(off, to, r, k, l)
      PROVE  /\ k \in 1..Len(CopySeqs) /\ l \in Spots /\ l \in 1..Len(CopySeqs[k])
             /\ b \in 1..Len(main) /\ main[b].kind = "end" /\ Inside(main, b)
             /\ to[k - 1] + l \in 1..Len(text[b])
             /\ r = off[b - 1] + (to[k - 1] + l)
             /\ Output[r].of = BaseOf(l) /\ Output[r].copy = k - 1 /\ k - 1 # Unsuffixed
  <2>1. /\ k \in 1..Len(CopySeqs) /\ l \in 1..Len(CopySeqs[k])
        /\ to[k - 1] + l \in 1..Len(text[b])
        /\ r = off[b - 1] + (to[k - 1] + l) /\ Output[r] = CopyAt(BaseOf(l), k - 1)
    BY <1>4 DEF CopiedAt
  <2>2. l \in Spots /\ k - 1 \in InputIds
    BY <1>2, <2>1, CopySeqIs
  <2>3. b \in 1..Len(main) /\ main[b].kind = "end" /\ Inside(main, b)
    BY <1>2, <2>2, BoundsInside
  <2>4. k - 1 # Unsuffixed
    BY <2>1, <1>1 DEF Unsuffixed
  <2> QED
    BY <2>1, <2>2, <2>3, <2>4, CopyIs
<1>5. ASSUME NEW s, NEW r, KeptAt(off, r, s)
      PROVE  /\ s \in 1..Len(main) /\ ~Inside(main, s) /\ 1 \in 1..Len(text[s])
             /\ r = off[s - 1] + 1 /\ Output[r].of = s /\ Output[r].copy = Unsuffixed
  BY <1>5, KeptIs DEF KeptAt
<1>f. \A i, k \in 1..Len(text) : \A j \in 1..Len(text[i]), l \in 1..Len(text[k]) :
        off[i - 1] + j < off[k - 1] + l => i < k \/ (i = k /\ j < l)
  BY <1>1, LaidOutFacts
<1>g. \A i, k \in 1..Len(CopySeqs) : \A j \in 1..Len(CopySeqs[i]), l \in 1..Len(CopySeqs[k]) :
        to[i - 1] + j < to[k - 1] + l => i < k \/ (i = k /\ j < l)
  BY <1>1, LaidOutFacts
<1>6. ASSUME NEW s, NEW u, KeptAt(off, p, s), KeptAt(off, q, u)
      PROVE  Precedes(Output[p], Output[q])
  <2>1. /\ s \in 1..Len(main) /\ 1 \in 1..Len(text[s]) /\ p = off[s - 1] + 1
        /\ Output[p].of = s /\ Output[p].copy = Unsuffixed
    BY <1>5, <1>6
  <2>2. /\ u \in 1..Len(main) /\ 1 \in 1..Len(text[u]) /\ q = off[u - 1] + 1
        /\ Output[q].of = u /\ Output[q].copy = Unsuffixed
    BY <1>5, <1>6
  <2>3. off[s - 1] + 1 < off[u - 1] + 1
    BY <2>1, <2>2
  <2>4. s < u \/ (s = u /\ 1 < 1)
    BY <1>1, <1>f, <2>1, <2>2, <2>3
  <2>5. s < u
    BY <2>4
  <2> QED
    BY <2>1, <2>2, <2>5 DEF Precedes
<1>7. ASSUME NEW s, NEW k, NEW l, KeptAt(off, p, s), CopiedAt(off, to, q, k, l)
      PROVE  Precedes(Output[p], Output[q])
  <2>1. /\ s \in 1..Len(main) /\ ~Inside(main, s) /\ 1 \in 1..Len(text[s]) /\ p = off[s - 1] + 1
        /\ Output[p].of = s /\ Output[p].copy = Unsuffixed
    BY <1>5, <1>7
  <2>2. /\ l \in Spots /\ b \in 1..Len(main) /\ main[b].kind = "end" /\ Inside(main, b)
        /\ to[k - 1] + l \in 1..Len(text[b]) /\ q = off[b - 1] + (to[k - 1] + l)
        /\ Output[q].of = BaseOf(l)
    BY <1>4, <1>7
  <2> DEFINE j == to[k - 1] + l
  <2>3. s < b \/ (s = b /\ 1 < j)
    <3>1. j \in 1..Len(text[b]) /\ off[s - 1] + 1 < off[b - 1] + j
      BY <2>1, <2>2
    <3> HIDE DEF j, b
    <3> QED
      BY <1>1, <1>f, <2>1, <2>2, <3>1
  <2>4. s < BaseOf(l)
    BY <1>1, <1>2, <1>3, <2>1, <2>2, <2>3, OneInterval
  <2> QED
    BY <2>1, <2>2, <2>4 DEF Precedes
<1>8. ASSUME NEW s, NEW k, NEW l, CopiedAt(off, to, p, k, l), KeptAt(off, q, s)
      PROVE  Precedes(Output[p], Output[q])
  <2>1. /\ s \in 1..Len(main) /\ ~Inside(main, s) /\ 1 \in 1..Len(text[s]) /\ q = off[s - 1] + 1
        /\ Output[q].of = s /\ Output[q].copy = Unsuffixed
    BY <1>5, <1>8
  <2>2. /\ l \in Spots /\ b \in 1..Len(main) /\ main[b].kind = "end" /\ Inside(main, b)
        /\ to[k - 1] + l \in 1..Len(text[b]) /\ p = off[b - 1] + (to[k - 1] + l)
        /\ Output[p].of = BaseOf(l)
    BY <1>4, <1>8
  <2> DEFINE j == to[k - 1] + l
  <2>3. b < s \/ (b = s /\ j < 1)
    <3>1. j \in 1..Len(text[b]) /\ off[b - 1] + j < off[s - 1] + 1
      BY <2>1, <2>2
    <3> HIDE DEF j, b
    <3> QED
      BY <1>1, <1>f, <2>1, <2>2, <3>1
  <2>4. BaseOf(l) < s
    BY <1>1, <1>2, <1>3, <2>1, <2>2, <2>3, OneInterval
  <2> QED
    BY <2>1, <2>2, <2>4 DEF Precedes
<1>9. ASSUME NEW k, NEW l, NEW m, NEW n, CopiedAt(off, to, p, k, l), CopiedAt(off, to, q, m, n)
      PROVE  Precedes(Output[p], Output[q])
  <2>1. /\ k \in 1..Len(CopySeqs) /\ l \in Spots /\ l \in 1..Len(CopySeqs[k])
        /\ b \in 1..Len(main)
        /\ to[k - 1] + l \in 1..Len(text[b]) /\ p = off[b - 1] + (to[k - 1] + l)
        /\ Output[p].of = BaseOf(l) /\ Output[p].copy = k - 1 /\ k - 1 # Unsuffixed
    BY <1>4, <1>9
  <2>2. /\ m \in 1..Len(CopySeqs) /\ n \in Spots /\ n \in 1..Len(CopySeqs[m])
        /\ to[m - 1] + n \in 1..Len(text[b]) /\ q = off[b - 1] + (to[m - 1] + n)
        /\ Output[q].of = BaseOf(n) /\ Output[q].copy = m - 1 /\ m - 1 # Unsuffixed
    BY <1>4, <1>9
  <2>3. to[k - 1] + l < to[m - 1] + n
    <3> DEFINE j == to[k - 1] + l
               h == to[m - 1] + n
    <3>1. j \in 1..Len(text[b]) /\ h \in 1..Len(text[b]) /\ off[b - 1] + j < off[b - 1] + h
      BY <2>1, <2>2
    <3>2. b \in 1..Len(text)
      BY <1>1, <2>1
    <3> HIDE DEF j, h, b
    <3>3. b < b \/ (b = b /\ j < h)
      BY <1>1, <1>f, <3>1, <3>2
    <3>4. j < h
      BY <3>2, <3>3
    <3> QED
      BY <3>4 DEF j, h
  <2>4. k < m \/ (k = m /\ l < n)
    BY <1>1, <1>g, <2>1, <2>2, <2>3
  <2>5. CASE k < m
    <3>1. k - 1 < m - 1
      BY <2>1, <2>2, <2>5
    <3>2. Output[p].copy < Output[q].copy /\ Output[p].copy # Output[q].copy
      BY <2>1, <2>2, <3>1
    <3>3. Unsuffixed \notin {Output[p].copy, Output[q].copy}
      BY <2>1, <2>2
    <3> QED
      BY <3>2, <3>3 DEF Precedes
  <2>6. CASE k = m /\ l < n
    BY <1>2, <2>1, <2>2, <2>6 DEF Precedes
  <2> QED
    BY <2>4, <2>5, <2>6
<1> QED
  BY <1>6, <1>7, <1>8, <1>9, Positions

(* The rewritten main, place by place.                                     *)
LEMMA OutputShape ==
  ASSUME OneBlock, DupInv, CopyInv, pc \in Done
  PROVE  /\ Len(Output) \in Nat /\ DOMAIN Output = 1..Len(Output)
         /\ \A p \in DOMAIN Output : \E s, i : From(p, s, i)
         /\ \A s \in 1..Len(main) :
              ~Inside(main, s) => \E p \in DOMAIN Output : From(p, s, Unsuffixed)
         /\ \A s \in 1..Len(main), i \in InputIds :
              Inside(main, s) => \E p \in DOMAIN Output : From(p, s, i)
         /\ \A p, q \in DOMAIN Output : p < q => Precedes(Output[p], Output[q])
<1>1. /\ text \in Seq(Seq(Written)) /\ CopySeqs \in Seq(Seq(Copied))
      /\ AllOfThem = FlattenSeq(CopySeqs) /\ Len(CopySeqs) = meta_input_fuzz_count
  BY FinalTextTyped
<1>2. Output \in Seq(Written) /\ \E off : LaidOut(Output, text, off, Len(text))
  BY <1>1, FlattenSeqLaidOut DEF Output
<1>3. PICK off : LaidOut(Output, text, off, Len(text))
  BY <1>2
<1>4. PICK to : LaidOut(AllOfThem, CopySeqs, to, Len(CopySeqs))
  BY <1>1, FlattenSeqLaidOut
<1>5. Len(Output) \in Nat /\ DOMAIN Output = 1..Len(Output)
  BY <1>2
<1>6. /\ \A p \in 1..Len(Output) : (\E s : KeptAt(off, p, s)) \/ \E k, l : CopiedAt(off, to, p, k, l)
      /\ \A s \in 1..Len(main) : ~Inside(main, s) => \E p \in 1..Len(Output) : KeptAt(off, p, s)
      /\ \A k \in 1..Len(CopySeqs) : \A l \in Spots :
           \E p \in 1..Len(Output) : CopiedAt(off, to, p, k, l)
  BY <1>3, <1>4, Positions
<1>7. \A p, s : KeptAt(off, p, s) => From(p, s, Unsuffixed)
  BY DEF KeptAt, From
<1>8. ASSUME NEW p, NEW k, NEW l, CopiedAt(off, to, p, k, l)
      PROVE  From(p, BaseOf(l), k - 1)
  <2>1. k \in 1..Len(CopySeqs) /\ l \in 1..Len(CopySeqs[k]) /\ Output[p] = CopyAt(BaseOf(l), k - 1)
    BY <1>8 DEF CopiedAt
  <2>2. l \in Spots /\ k - 1 \in InputIds
    BY <2>1, CopySeqIs, SpotOf
  <2>3. BaseOf(l) \in 1..Len(main) /\ Inside(main, BaseOf(l))
    BY <2>2, SpotOf
  <2> QED
    BY <2>1, <2>2, <2>3 DEF From
<1>9. ASSUME NEW s \in 1..Len(main), NEW i \in InputIds, Inside(main, s)
      PROVE  \E p \in DOMAIN Output : From(p, s, i)
  <2>1. PICK l \in Spots : BaseOf(l) = s
    BY <1>9, SpotOf
  <2>2. meta_input_fuzz_count \in Nat
    BY DEF CopyInv, SpotsPart
  <2>3. i + 1 \in 1..Len(CopySeqs) /\ (i + 1) - 1 = i
    BY <1>1, <2>2 DEF InputIds
  <2> DEFINE k == i + 1
  <2> HIDE DEF k
  <2>4. k \in 1..Len(CopySeqs) /\ k - 1 = i
    BY <2>3 DEF k
  <2>5. PICK p \in 1..Len(Output) : CopiedAt(off, to, p, k, l)
    BY <1>6, <2>4
  <2> QED
    BY <1>5, <1>8, <2>1, <2>4, <2>5
<1>10. \A p, q \in DOMAIN Output : p < q => Precedes(Output[p], Output[q])
  BY <1>3, <1>4, <1>5, KeptInOrder
<1> QED
  BY <1>5, <1>6, <1>7, <1>8, <1>9, <1>10

LEMMA FromIs ==
  ASSUME CopyInv, NEW p, NEW s, NEW i, From(p, s, i)
  PROVE  /\ s \in 1..Len(main) /\ Output[p].of = s /\ Output[p].copy = i
         /\ i \in InputIds \cup {Unsuffixed} /\ (Inside(main, s) <=> i # Unsuffixed)
<1>1. meta_input_fuzz_count \in Nat
  BY DEF CopyInv, SpotsPart
<1>2. Unsuffixed \notin InputIds
  BY <1>1 DEF InputIds, Unsuffixed
<1> QED
  BY <1>2, KeptIs, CopyIs DEF From

(* No two places hold the same copy of the same statement.                 *)
LEMMA PlacedOnce ==
  ASSUME OneBlock, DupInv, CopyInv, pc \in Done,
         NEW p \in DOMAIN Output, NEW q \in DOMAIN Output,
         Output[p].of = Output[q].of, Output[p].copy = Output[q].copy
  PROVE  p = q
<1>1. Len(Output) \in Nat /\ DOMAIN Output = 1..Len(Output)
      /\ \A a, b \in DOMAIN Output : a < b => Precedes(Output[a], Output[b])
  BY OutputShape
<1>2. PICK s, i : From(p, s, i)
  BY OutputShape
<1>3. Output[p].of \in 1..Len(main) /\ Len(main) \in Nat
  BY <1>2, FromIs, FinalTextTyped
<1>4. ~Precedes(Output[p], Output[q]) /\ ~Precedes(Output[q], Output[p])
  BY <1>3 DEF Precedes
<1> QED
  BY <1>1, <1>4

(* In a program with one block, every input gets each statement of the     *)
(* block once and nothing else, in order, with its own output variable.    *)
THEOREM CopiesAreFaithful ==
  ASSUME OneBlock
  PROVE  TemplateSpec => []CopiesFaithful
<1>1. DupInv /\ CopyInv => CopiesFaithful
  <2> SUFFICES ASSUME DupInv, CopyInv, pc = "duplicated" PROVE CopiesFaithful
    BY DEF CopiesFaithful
  <2>1. pc \in Done /\ main \in Mains /\ Len(main) \in Nat /\ DOMAIN main = 1..Len(main)
    BY BodiesOfMain DEF DupInv, BodyPart, Done
  <2>2. /\ Len(Output) \in Nat /\ DOMAIN Output = 1..Len(Output)
        /\ \A p \in DOMAIN Output : \E s, i : From(p, s, i)
        /\ \A s \in 1..Len(main) :
             ~Inside(main, s) => \E p \in DOMAIN Output : From(p, s, Unsuffixed)
        /\ \A s \in 1..Len(main), i \in InputIds :
             Inside(main, s) => \E p \in DOMAIN Output : From(p, s, i)
        /\ \A p, q \in DOMAIN Output : p < q => Precedes(Output[p], Output[q])
    BY <2>1, OutputShape
  <2>3. ASSUME NEW s \in DOMAIN main, NEW i \in InputIds \cup {Unsuffixed}
        PROVE  Cardinality(PlacesOf(s, i)) = IF InBlock(s) <=> i # Unsuffixed THEN 1 ELSE 0
    <3>1. InBlock(s) <=> Inside(main, s)
      BY <2>1, InBlockInside
    <3>2. \A q \in PlacesOf(s, i) : From(q, s, i)
      <4> TAKE q \in PlacesOf(s, i)
      <4>1. q \in DOMAIN Output /\ Output[q].of = s /\ Output[q].copy = i
        BY DEF PlacesOf
      <4>2. PICK u, j : From(q, u, j)
        BY <2>2, <4>1
      <4> QED
        BY <4>1, <4>2, FromIs
    <3>3. CASE Inside(main, s) <=> i # Unsuffixed
      <4>1. PICK p \in DOMAIN Output : From(p, s, i)
        BY <2>1, <2>2, <3>3
      <4>2. p \in PlacesOf(s, i)
        BY <4>1, FromIs DEF PlacesOf
      <4>3. \A q \in PlacesOf(s, i) : q = p
        BY <2>1, <4>2, PlacedOnce DEF PlacesOf
      <4>4. PlacesOf(s, i) = {p}
        BY <4>2, <4>3
      <4> QED
        BY <3>1, <3>3, <4>4, FS_Singleton
    <3>4. CASE ~(Inside(main, s) <=> i # Unsuffixed)
      <4>1. PlacesOf(s, i) = {}
        BY <3>2, <3>4, FromIs
      <4> QED
        BY <3>1, <3>4, <4>1, FS_EmptySet
    <3> QED
      BY <3>3, <3>4
  <2>4. \A p \in DOMAIN Output :
          Output[p].of \in DOMAIN main /\ Output[p].copy \in InputIds \cup {Unsuffixed}
    BY <2>1, <2>2, FromIs
  <2>5. ASSUME NEW i \in InputIds, NEW s \in DOMAIN main, main[s].output_var
        PROVE  \E p \in DOMAIN Output :
                 Output[p].copy = i /\ getMetaInputVarName(i) \in Output[p].decl
    <3> DEFINE asks == {u \in 1..Len(main) : main[u].output_var}
    <3>1. PICK f \in asks : \A u \in asks : f <= u
      <4>1. asks \subseteq Nat /\ asks # {}
        BY <2>1, <2>5
      <4> HIDE DEF asks
      <4> QED
        BY <4>1, SmallestMember
    <3>2. f \in 1..Len(main) /\ main[f].output_var /\ \A u \in 1..f - 1 : ~main[u].output_var
      BY <2>1, <3>1
    <3>3. Inside(main, f)
      BY <2>1, <3>2 DEF DupInv, PlacedPart, PlacedAt
    <3>4. PICK p \in DOMAIN Output : From(p, f, i)
      BY <2>2, <3>2, <3>3
    <3>5. Output[p] = CopyAt(f, i) /\ Output[p].copy = i
      BY <3>3, <3>4, FromIs DEF From
    <3>6. Visited(main, f).output_var = "decl"
      BY <3>2 DEF Visited
    <3>7. getMetaInputVarName(i) \in CopyAt(f, i).decl
      BY <3>6 DEF CopyAt, CopyOf, Rewritten
    <3> QED
      BY <3>5, <3>7
  <2> QED
    BY <2>2, <2>3, <2>4, <2>5 DEF CopiesFaithful
<1> QED
  BY <1>1, CopyInvInductive, PTL

-----------------------------------------------------------------------------

(* What the compiler has accepted before the tool runs: a name is declared *)
(* once and not after it is used, and fuzz::output_var_get comes after     *)
(* some fuzz::output_var.                                                  *)
WellNamed ==
  \A m \in Mains :
    /\ \A a, b \in DOMAIN m : a # b => m[a].decl \cap m[b].decl = {}
    /\ \A s \in DOMAIN m :
         /\ \A v \in m[s].uses : \E d \in 1..s : v \in m[d].decl
         /\ m[s].gets # {} => \E d \in 1..s - 1 : m[d].output_var

(* The statement that fuzz::output_var declares its variable in.           *)
AsksFirst(s) == main[s].output_var /\ \A t \in 1..s - 1 : ~main[t].output_var

LEMMA NamesDeclared ==
  ASSUME DupInv, CopyInv, pc \in Done, NEW p, NEW s, NEW i, From(p, s, i)
  PROVE  /\ \A v \in main[s].decl : Name(v, i) \in Output[p].decl
         /\ AsksFirst(s) => getMetaInputVarName(i) \in Output[p].decl
         /\ \A n \in Output[p].decl :
              /\ n = Name(n.var, i) /\ n.copy = i
              /\ n.var \in main[s].decl \/ (n.var = "output_var" /\ AsksFirst(s))
<1>1. /\ main \in Mains /\ s \in 1..Len(main) /\ DOMAIN main = 1..Len(main)
      /\ \A u \in 1..Len(main) : PlacedAt(main, u)
  BY BodiesOfMain DEF DupInv, BodyPart, PlacedPart, Done, From
<1>2. CASE ~Inside(main, s)
  <2>1. i = Unsuffixed /\ Output[p].decl = {Name(v, Unsuffixed) : v \in main[s].decl}
    BY <1>2, KeptIs DEF From
  <2>2. ~AsksFirst(s)
    BY <1>1, <1>2 DEF PlacedAt, AsksFirst
  <2> QED
    BY <2>1, <2>2 DEF Name
<1>3. CASE Inside(main, s)
  <2>1. Output[p] = CopyAt(s, i)
    BY <1>3 DEF From
  <2> DEFINE srtv == Visited(main, s)
  <2>2. srtv.base_stmt = s
    BY DEF Visited
  <2>3. srtv.renames_decl = main[s].decl
    <3>1. main[s].kind # "plain" => main[s].decl = {}
      BY <1>1, BodiesOfMain
    <3>2. OpenAfter(main, s - 1) \/ main[s].decl = {}
      BY <1>3, <3>1 DEF Inside
    <3> QED
      BY <3>2 DEF Visited
  <2>4. srtv.output_var = "decl" <=> AsksFirst(s)
    BY DEF Visited, AsksFirst
  <2>5. Output[p].decl = Suffixed(main[s].decl, main[s].decl, i)
                           \cup (IF AsksFirst(s) THEN {getMetaInputVarName(i)} ELSE {})
    <3> HIDE DEF srtv
    <3>1. CopyOf(srtv, i).decl = Suffixed(main[s].decl, main[s].decl, i)
                           \cup (IF AsksFirst(s) THEN {getMetaInputVarName(i)} ELSE {})
      BY <2>2, <2>3, <2>4 DEF CopyOf, Rewritten
    <3> QED
      BY <2>1, <3>1 DEF CopyAt, srtv
  <2>6. Suffixed(main[s].decl, main[s].decl, i) = {Name(v, i) : v \in main[s].decl}
    BY DEF Suffixed
  <2> QED
    BY <2>5, <2>6 DEF Name, getMetaInputVarName
<1> QED
  BY <1>2, <1>3

LEMMA NamesUsed ==
  ASSUME DupInv, CopyInv, pc \in Done, NEW p, NEW s, NEW i, From(p, s, i),
         NEW n \in Output[p].uses
  PROVE  \/ \E v \in main[s].uses : n = Name(v, Unsuffixed) /\ v \notin DeclaredInside(main, s)
         \/ \E v \in main[s].uses : /\ n = Name(v, i) /\ v \in DeclaredInside(main, s)
                                    /\ i \in InputIds
         \/ i = Unsuffixed /\ \E id \in main[s].gets : n = getMetaInputVarName(id)
         \/ /\ i \in InputIds /\ n = getMetaInputVarName(i)
            /\ \E t \in 1..s - 1 : main[t].output_var
<1>1. s \in 1..Len(main) /\ \A u \in 1..Len(main) : PlacedAt(main, u)
  BY DEF DupInv, PlacedPart, Done, From
<1>2. CASE ~Inside(main, s)
  <2>1. i = Unsuffixed /\ n \in {Name(v, Unsuffixed) : v \in main[s].uses}
                                  \cup {getMetaInputVarName(id) : id \in main[s].gets}
    BY <1>2, KeptIs DEF From
  <2>2. main[s].uses \cap DeclaredInside(main, s) = {}
    <3>1. main[s].uses \cap DeclaredInside(main, s - 1) = {}
      BY <1>1, <1>2 DEF PlacedAt
    <3>2. OpenAfter(main, s - 1) => main[s].kind = "end"
      BY <1>2 DEF Inside
    <3>3. main \in Mains /\ (main[s].kind = "end" => main[s].decl = {})
      BY <1>1, BodiesOfMain DEF DupInv, BodyPart
    <3>4. DeclaredInside(main, s) =
            DeclaredInside(main, s - 1) \cup (IF OpenAfter(main, s - 1) THEN main[s].decl ELSE {})
      BY <1>1, <3>3, DeclaredStep
    <3> QED
      BY <3>1, <3>2, <3>3, <3>4
  <2> QED
    BY <2>1, <2>2
<1>3. CASE Inside(main, s)
  <2>1. i \in InputIds /\ Output[p] = CopyAt(s, i)
    BY <1>3 DEF From
  <2> DEFINE srtv == Visited(main, s)
  <2>2. srtv.base_stmt = s /\ srtv.renames_uses = main[s].uses \cap DeclaredInside(main, s)
    BY DEF Visited
  <2>3. srtv.output_var = "use" => \E t \in 1..s - 1 : main[t].output_var
    BY DEF Visited
  <2>4. n \in Suffixed(main[s].uses, main[s].uses \cap DeclaredInside(main, s), i)
                \cup (IF srtv.output_var = "use" THEN {getMetaInputVarName(i)} ELSE {})
    <3> HIDE DEF srtv
    <3>1. CopyOf(srtv, i).uses =
            Suffixed(main[s].uses, main[s].uses \cap DeclaredInside(main, s), i)
              \cup (IF srtv.output_var = "use" THEN {getMetaInputVarName(i)} ELSE {})
      BY <2>2 DEF CopyOf, Rewritten, RenamedUses
    <3> QED
      BY <2>1, <3>1 DEF CopyAt, srtv
  <2> HIDE DEF srtv
  <2>5. CASE n \in Suffixed(main[s].uses, main[s].uses \cap DeclaredInside(main, s), i)
    BY <2>1, <2>5 DEF Suffixed
  <2>6. CASE srtv.output_var = "use" /\ n = getMetaInputVarName(i)
    BY <2>1, <2>3, <2>6
  <2> QED
    BY <2>4, <2>5, <2>6
<1> QED
  BY <1>2, <1>3

(* Places in the order of the statements they are made of.                 *)
LEMMA Earlier ==
  ASSUME OneBlock, DupInv, CopyInv, pc \in Done,
         NEW q \in DOMAIN Output, NEW p \in DOMAIN Output,
         NEW d, NEW s, NEW j, NEW i, From(q, d, j), From(p, s, i),
         d < s, j = i \/ Unsuffixed \in {i, j}
  PROVE  q \in 1..p - 1
<1>1. /\ Len(Output) \in Nat /\ DOMAIN Output = 1..Len(Output)
      /\ \A a, b \in DOMAIN Output : a < b => Precedes(Output[a], Output[b])
  BY OutputShape
<1>2. Output[q].of = d /\ Output[q].copy = j /\ Output[p].of = s /\ Output[p].copy = i
  BY FromIs
<1>3. d \in 1..Len(main) /\ s \in 1..Len(main) /\ Len(main) \in Nat
  BY FinalTextTyped DEF From
<1>4. ~Precedes(Output[p], Output[q])
  BY <1>2, <1>3 DEF Precedes
<1>5. q # p
  BY <1>2, <1>3
<1> QED
  BY <1>1, <1>4, <1>5

(* The declaration that a name of the original program leads to.           *)
LEMMA DeclaredBefore ==
  ASSUME OneBlock, WellNamed, DupInv, CopyInv, pc \in Done,
         NEW p \in DOMAIN Output, NEW s, NEW i, From(p, s, i), NEW v \in main[s].uses,
         NEW j, j = IF v \in DeclaredInside(main, s) THEN i ELSE Unsuffixed,
         v \in DeclaredInside(main, s) => i \in InputIds
  PROVE  \E q \in 1..p : Name(v, j) \in Output[q].decl
<1>1. /\ main \in Mains /\ s \in 1..Len(main) /\ Len(main) \in Nat /\ DOMAIN main = 1..Len(main)
  BY BodiesOfMain DEF DupInv, BodyPart, From
<1>2. PICK d \in 1..s : v \in main[d].decl /\
         IF v \in DeclaredInside(main, s) THEN OpenAfter(main, d - 1) ELSE ~OpenAfter(main, d - 1)
  <2>1. CASE v \in DeclaredInside(main, s)
    BY <2>1 DEF DeclaredInside
  <2>2. CASE v \notin DeclaredInside(main, s)
    <3>1. PICK d \in 1..s : v \in main[d].decl
      BY <1>1 DEF WellNamed
    <3>2. ~OpenAfter(main, d - 1)
      BY <2>2, <3>1 DEF DeclaredInside
    <3> QED
      BY <2>2, <3>1, <3>2
  <2> QED
    BY <2>1, <2>2
<1>3. d \in 1..Len(main) /\ d <= s /\ (Inside(main, d) <=> OpenAfter(main, d - 1))
  <2>1. d \in 1..Len(main) /\ d <= s
    BY <1>1
  <2>2. main[d].kind = "plain"
    BY <1>1, <1>2, <2>1, BodiesOfMain
  <2> QED
    BY <2>1, <2>2 DEF Inside
<1>4. \E q \in DOMAIN Output : From(q, d, j)
  BY <1>2, <1>3, OutputShape
<1>5. PICK q \in DOMAIN Output : From(q, d, j)
  BY <1>4
<1>6. CASE d < s
  <2>1. q \in 1..p - 1 /\ p \in Nat
    BY <1>5, <1>6, Earlier, OutputShape
  <2>2. q \in 1..p
    BY <2>1
  <2> QED
    BY <1>2, <1>5, <2>2, NamesDeclared
<1>7. CASE d = s
  <2>1. i = j
    BY <1>2, <1>3, <1>7 DEF From
  <2>2. Name(v, j) \in Output[p].decl
    BY <1>2, <1>7, <2>1, NamesDeclared
  <2>3. p \in 1..p
    BY OutputShape
  <2> QED
    BY <2>2, <2>3
<1> QED
  BY <1>1, <1>3, <1>6, <1>7

(* The declaration of an output variable, before every statement that      *)
(* comes after a fuzz::output_var.                                         *)
LEMMA OutputVarBefore ==
  ASSUME OneBlock, DupInv, CopyInv, pc \in Done,
         NEW p \in DOMAIN Output, NEW s, NEW i, From(p, s, i), NEW j \in InputIds,
         j = i \/ i = Unsuffixed, \E t \in 1..s - 1 : main[t].output_var
  PROVE  \E q \in 1..p - 1 : getMetaInputVarName(j) \in Output[q].decl
<1>1. /\ s \in 1..Len(main) /\ Len(main) \in Nat
      /\ \A u \in 1..Len(main) : PlacedAt(main, u)
  BY FinalTextTyped DEF From, DupInv, PlacedPart, Done
<1> DEFINE asks == {u \in 1..Len(main) : main[u].output_var}
<1>2. PICK t \in 1..s - 1 : main[t].output_var
  OBVIOUS
<1>3. t \in asks
  BY <1>1, <1>2
<1>4. PICK f \in asks : \A u \in asks : f <= u
  <2>1. asks \subseteq Nat /\ asks # {}
    BY <1>1, <1>3
  <2> HIDE DEF asks
  <2> QED
    BY <2>1, SmallestMember
<1>5. f \in 1..Len(main) /\ f < s /\ AsksFirst(f)
  BY <1>1, <1>3, <1>4 DEF AsksFirst
<1>6. Inside(main, f)
  BY <1>1, <1>5 DEF PlacedAt, AsksFirst
<1>7. PICK q \in DOMAIN Output : From(q, f, j)
  BY <1>5, <1>6, OutputShape
<1>8. q \in 1..p - 1
  BY <1>5, <1>7, Earlier
<1> QED
  BY <1>5, <1>7, <1>8, NamesDeclared

(* In a program with one block that compiled before, the rewritten main    *)
(* declares every name once and before it is used, and no statement of one *)
(* input's copy uses a name of another's.                                  *)
THEOREM RewrittenNamesResolve ==
  ASSUME OneBlock, WellNamed
  PROVE  TemplateSpec => []CopiesResolve
<1>1. DupInv /\ CopyInv => CopiesResolve
  <2> SUFFICES ASSUME DupInv, CopyInv, pc = "duplicated",
                      \A s \in DOMAIN main : main[s].gets \subseteq InputIds
               PROVE  CopiesResolve
    BY DEF CopiesResolve
  <2>1. /\ pc \in Done /\ main \in Mains /\ Len(main) \in Nat /\ DOMAIN main = 1..Len(main)
        /\ meta_input_fuzz_count \in Nat
    BY BodiesOfMain DEF DupInv, BodyPart, Done, CopyInv, SpotsPart
  <2>2. /\ Len(Output) \in Nat /\ DOMAIN Output = 1..Len(Output)
        /\ \A p \in DOMAIN Output : \E s, i : From(p, s, i)
    BY <2>1, OutputShape
  <2>3. ASSUME NEW p \in DOMAIN Output, NEW n \in Output[p].uses
        PROVE  /\ \E d \in 1..p : n \in Output[d].decl
               /\ n.copy = Output[p].copy \/ n.copy = Unsuffixed \/ Output[p].copy = Unsuffixed
    <3>1. PICK s, i : From(p, s, i)
      BY <2>2
    <3>2. s \in DOMAIN main /\ Output[p].copy = i
      BY <2>1, <3>1, FromIs
    <3>7. 1..p - 1 \subseteq 1..p
      BY <2>2
    <3>3. CASE \E v \in main[s].uses : n = Name(v, Unsuffixed) /\ v \notin DeclaredInside(main, s)
      <4>1. PICK v \in main[s].uses : n = Name(v, Unsuffixed) /\ v \notin DeclaredInside(main, s)
        BY <3>3
      <4>2. n.copy = Unsuffixed
        BY <4>1 DEF Name
      <4> QED
        BY <2>1, <3>1, <4>1, <4>2, DeclaredBefore
    <3>4. CASE \E v \in main[s].uses : /\ n = Name(v, i) /\ v \in DeclaredInside(main, s)
                                       /\ i \in InputIds
      <4>1. PICK v \in main[s].uses : /\ n = Name(v, i) /\ v \in DeclaredInside(main, s)
                                      /\ i \in InputIds
        BY <3>4
      <4>2. n.copy = i
        BY <4>1 DEF Name
      <4> QED
        BY <2>1, <3>1, <3>2, <4>1, <4>2, DeclaredBefore
    <3>5. CASE i = Unsuffixed /\ \E id \in main[s].gets : n = getMetaInputVarName(id)
      <4>1. PICK id \in main[s].gets : n = getMetaInputVarName(id)
        BY <3>5
      <4>2. id \in InputIds /\ \E t \in 1..s - 1 : main[t].output_var
        BY <2>1, <3>2, <4>1 DEF WellNamed
      <4> QED
        BY <2>1, <3>1, <3>2, <3>5, <3>7, <4>1, <4>2, OutputVarBefore
    <3>6. CASE /\ i \in InputIds /\ n = getMetaInputVarName(i)
               /\ \E t \in 1..s - 1 : main[t].output_var
      <4>1. n.copy = i
        BY <3>6 DEF getMetaInputVarName, Name
      <4> QED
        BY <2>1, <3>1, <3>2, <3>6, <3>7, <4>1, OutputVarBefore
    <3> QED
      BY <2>1, <3>1, <3>3, <3>4, <3>5, <3>6, NamesUsed
  <2>4. ASSUME NEW p \in DOMAIN Output, NEW n \in Output[p].decl, NEW q \in 1..p - 1,
               n \in Output[q].decl
        PROVE  FALSE
    <3>1. q \in DOMAIN Output /\ q # p
      BY <2>2
    <3>2. PICK s, i : From(p, s, i)
      BY <2>2
    <3>3. PICK u, j : From(q, u, j)
      BY <2>2, <3>1
    <3>4. /\ s \in DOMAIN main /\ Output[p].of = s /\ Output[p].copy = i
          /\ u \in DOMAIN main /\ Output[q].of = u /\ Output[q].copy = j
      BY <2>1, <3>2, <3>3, FromIs
    <3>5. n.copy = i /\ (n.var \in main[s].decl \/ (n.var = "output_var" /\ AsksFirst(s)))
      BY <2>1, <3>2, NamesDeclared
    <3>6. n.copy = j /\ (n.var \in main[u].decl \/ (n.var = "output_var" /\ AsksFirst(u)))
      BY <2>1, <2>4, <3>3, NamesDeclared
    <3>7. "output_var" \notin main[s].decl /\ "output_var" \notin main[u].decl
      <4>1. main[s].decl \subseteq Vars /\ main[u].decl \subseteq Vars
        BY <2>1, <3>4, BodiesOfMain DEF MainStmt
      <4> QED
        BY <4>1, TemplateAssumption
    <3>8. s = u
      <4>1. CASE n.var \in main[s].decl
        BY <2>1, <3>4, <3>5, <3>6, <3>7, <4>1 DEF WellNamed
      <4>2. CASE AsksFirst(s) /\ AsksFirst(u)
        BY <2>1, <3>4, <4>2 DEF AsksFirst
      <4> QED
        BY <3>5, <3>6, <3>7, <4>1, <4>2
    <3> QED
      BY <2>1, <3>1, <3>4, <3>5, <3>6, <3>8, PlacedOnce
  <2> QED
    BY <2>2, <2>3, <2>4 DEF CopiesResolve
<1> QED
  BY <1>1, CopyInvInductive, PTL

-----------------------------------------------------------------------------
(***************************************************************************)
(* The pass that expands what was duplicated: which blocks are open where, *)
(* and what is offered to the generator.                                   *)
(***************************************************************************)

LEMMA KindOf ==
  ASSUME NEW p, NEW s, NEW i, From(p, s, i)
  PROVE  Output[p].kind = main[s].kind /\ Output[p].news = main[s].news
<1>1. Kept(s).kind = main[s].kind /\ Kept(s).news = main[s].news
  <2>1. Verbatim(s).kind = main[s].kind /\ Verbatim(s).news = main[s].news
        /\ Verbatim(s) = [of |-> s, copy |-> Unsuffixed, kind |-> main[s].kind,
                          decl |-> Verbatim(s).decl, uses |-> Verbatim(s).uses,
                          gets |-> main[s].gets, news |-> main[s].news]
    BY DEF Verbatim, Rewritten
  <2> QED
    BY <2>1 DEF Kept, WithGets
<1>2. CopyAt(s, i).kind = main[s].kind /\ CopyAt(s, i).news = main[s].news
  <2> DEFINE srtv == Visited(main, s)
  <2>1. srtv.base_stmt = s
    BY DEF Visited
  <2> HIDE DEF srtv
  <2>2. CopyOf(srtv, i).kind = main[s].kind /\ CopyOf(srtv, i).news = main[s].news
    BY <2>1 DEF CopyOf, Rewritten
  <2> QED
    BY <2>2 DEF CopyAt, srtv
<1> QED
  BY <1>1, <1>2 DEF From

(* Places of different copies.                                             *)
LEMMA EarlierCopy ==
  ASSUME OneBlock, DupInv, CopyInv, pc \in Done,
         NEW q \in DOMAIN Output, NEW p \in DOMAIN Output,
         NEW d, NEW s, NEW j \in InputIds, NEW i \in InputIds, From(q, d, j), From(p, s, i),
         j < i
  PROVE  q < p
<1>1. /\ Len(Output) \in Nat /\ DOMAIN Output = 1..Len(Output)
      /\ \A a, b \in DOMAIN Output : a < b => Precedes(Output[a], Output[b])
      /\ meta_input_fuzz_count \in Nat
  BY OutputShape DEF CopyInv, SpotsPart
<1>2. Output[q].copy = j /\ Output[p].copy = i
  BY FromIs
<1>3. i \in Int /\ j \in Int /\ i # Unsuffixed /\ j # Unsuffixed
  BY <1>1 DEF InputIds, Unsuffixed
<1>4. ~Precedes(Output[p], Output[q])
  BY <1>2, <1>3 DEF Precedes
<1>5. q # p
  BY <1>2, <1>3
<1> QED
  BY <1>1, <1>4, <1>5

(* The only block has one beginning, and its last end ends it.             *)
LEMMA OneStart ==
  ASSUME OneBlock, DupInv, pc \in Done, NEW s \in 1..Len(main), NEW t \in 1..Len(main),
         main[s].kind = "start"
  PROVE  /\ main[t].kind = "start" => s = t
         /\ fuzz_template_bounds.second \in 1..Len(main)
         /\ main[fuzz_template_bounds.second].kind = "end"
         /\ Inside(main, fuzz_template_bounds.second)
         /\ s < fuzz_template_bounds.second
<1>1. /\ main \in Mains /\ Len(main) \in Nat /\ DOMAIN main = 1..Len(main)
      /\ \A u \in 1..Len(main) : BalancedAt(main, u)
  BY BodiesOfMain DEF DupInv, BodyPart, BalancedPart, Done
<1>2. ASSUME NEW u \in 1..Len(main), NEW v \in 1..Len(main), u < v,
             main[u].kind = "start", main[v].kind = "start"
      PROVE  FALSE
  <2>1. u \in 1..v - 1
    BY <1>1, <1>2
  <2>2. ~OpenAfter(main, v - 1)
    BY <1>1, <1>2 DEF BalancedAt
  <2>3. PICK e \in u..v - 1 : main[e].kind = "end"
    BY <1>2, <2>1, <2>2 DEF OpenAfter
  <2>4. e \in 1..Len(main) /\ e < v
    BY <1>1
  <2> QED
    BY <1>1, <1>2, <2>3, <2>4 DEF OneBlock
<1>3. Inside(main, s)
  BY DEF Inside
<1> DEFINE b == fuzz_template_bounds.second
<1>4. b \in 1..Len(main) /\ main[b].kind = "end" /\ Inside(main, b)
  BY <1>3, BoundsInside
<1> HIDE DEF b
<1>5. s < b
  BY <1>1, <1>4 DEF OneBlock
<1>6. main[t].kind = "start" => s = t
  BY <1>1, <1>2
<1> QED
  BY <1>4, <1>5, <1>6 DEF b

(* In the rewritten main a block is open within a copy and nowhere else.   *)
LEMMA OpenInCopy ==
  ASSUME OneBlock, DupInv, CopyInv, pc \in Done,
         NEW p \in DOMAIN Output, NEW s, NEW i, From(p, s, i)
  PROVE  OpenAfter(Output, p - 1) <=> (i # Unsuffixed /\ main[s].kind # "start")
<1>1. /\ Len(Output) \in Nat /\ DOMAIN Output = 1..Len(Output)
      /\ main \in Mains /\ Len(main) \in Nat /\ DOMAIN main = 1..Len(main)
      /\ meta_input_fuzz_count \in Nat
  BY OutputShape, BodiesOfMain DEF DupInv, BodyPart, CopyInv, SpotsPart
<1>2. s \in 1..Len(main) /\ i \in InputIds \cup {Unsuffixed} /\ (Inside(main, s) <=> i # Unsuffixed)
      /\ Output[p].kind = main[s].kind
  BY FromIs, KindOf
<1>3. /\ \A u \in 1..Len(main) : main[u].kind \in {"start", "end"} => Inside(main, u)
      /\ Unsuffixed \notin InputIds /\ InputIds \subseteq Int
  BY <1>1 DEF DupInv, BalancedPart, BalancedAt, Inside, Done, InputIds, Unsuffixed
<1>4. ASSUME i # Unsuffixed, main[s].kind # "start"
      PROVE  OpenAfter(Output, p - 1)
  <2>1. OpenAfter(main, s - 1)
    BY <1>2, <1>4 DEF Inside
  <2>2. PICK a \in 1..s - 1 : main[a].kind = "start" /\ \A e \in a..s - 1 : main[e].kind # "end"
    BY <2>1 DEF OpenAfter
  <2>3. a \in 1..Len(main) /\ a < s
    BY <1>1, <1>2
  <2>4. i \in InputIds
    BY <1>2, <1>4
  <2>5. PICK q \in DOMAIN Output : From(q, a, i)
    BY <1>3, <2>2, <2>3, <2>4, OutputShape
  <2>6. q \in 1..p - 1 /\ Output[q].kind = "start"
    BY <2>2, <2>3, <2>5, Earlier, KindOf
  <2>7. ASSUME NEW r \in q..p - 1, Output[r].kind = "end" PROVE FALSE
    <3>1. r \in DOMAIN Output /\ q < r /\ r < p
      BY <1>1, <2>6, <2>7
    <3>2. PICK u, j : From(r, u, j)
      BY <3>1, OutputShape
    <3>3. u \in 1..Len(main) /\ main[u].kind = "end" /\ j \in InputIds
      BY <1>3, <2>7, <3>2, FromIs, KindOf
    <3>4. ~ (j < i)
      BY <2>4, <2>5, <3>1, <3>2, <3>3, EarlierCopy, <1>1
    <3>5. ~ (i < j)
      BY <1>1, <2>4, <3>1, <3>2, <3>3, EarlierCopy
    <3>6. i = j
      BY <1>3, <2>4, <3>3, <3>4, <3>5
    <3>7. ~ (u < a) /\ ~ (s < u)
      <4>1. u < a => r \in 1..q - 1
        BY <2>5, <3>1, <3>2, <3>6, Earlier
      <4>2. s < u => p \in 1..r - 1
        BY <3>1, <3>2, <3>6, Earlier
      <4> QED
        BY <1>1, <3>1, <4>1, <4>2
    <3>8. u # s
      BY <3>1, <3>2, <3>6, FromIs, PlacedOnce
    <3>9. u \in a..s - 1
      BY <1>1, <1>2, <3>3, <3>7, <3>8
    <3> QED
      BY <2>2, <3>3, <3>9
  <2> QED
    BY <2>6, <2>7 DEF OpenAfter
<1>5. ASSUME OpenAfter(Output, p - 1), i = Unsuffixed \/ main[s].kind = "start"
      PROVE  FALSE
  <2>1. PICK a \in 1..p - 1 : Output[a].kind = "start" /\ \A e \in a..p - 1 : Output[e].kind # "end"
    BY <1>5 DEF OpenAfter
  <2>2. a \in DOMAIN Output /\ a < p
    BY <1>1
  <2>3. PICK t, j : From(a, t, j)
    BY <2>2, OutputShape
  <2>4. t \in 1..Len(main) /\ main[t].kind = "start" /\ j \in InputIds
    BY <1>3, <2>1, <2>3, FromIs, KindOf
  <2> DEFINE b == fuzz_template_bounds.second
  <2>5. b \in 1..Len(main) /\ main[b].kind = "end" /\ Inside(main, b) /\ t < b
    BY <2>4, OneStart
  <2>6. PICK c \in DOMAIN Output : From(c, b, j)
    BY <2>4, <2>5, OutputShape
  <2> HIDE DEF b
  <2>7. a \in 1..c - 1 /\ Output[c].kind = "end"
    BY <2>2, <2>3, <2>5, <2>6, Earlier, KindOf
  <2>8. c < p
    <3>1. CASE i = Unsuffixed
      <4>1. Inside(main, t) /\ ~Inside(main, s)
        BY <1>2, <1>3, <2>4, <3>1
      <4>2. (s < b => s < t) /\ s # b
        <5>1. \A u \in 1..Len(main) : BalancedAt(main, u)
          BY DEF DupInv, BalancedPart, Done
        <5> QED
          BY <1>1, <1>2, <2>4, <2>5, <4>1, <5>1, OneInterval
      <4>3. ~ (s < t)
        <5>1. s < t => p \in 1..a - 1
          BY <2>2, <2>3, <3>1, Earlier
        <5> QED
          BY <1>1, <2>2, <5>1
      <4>4. b < s
        BY <1>1, <1>2, <2>5, <4>2, <4>3
      <4>5. c \in 1..p - 1
        BY <2>6, <3>1, <4>4, Earlier
      <4> QED
        BY <4>5, <1>1
    <3>2. CASE i # Unsuffixed /\ main[s].kind = "start"
      <4>1. s = t /\ i \in InputIds
        BY <1>2, <2>4, <3>2, OneStart
      <4>2. i # j
        BY <2>2, <2>3, <4>1, FromIs, PlacedOnce, <1>1
      <4>3. ~ (i < j)
        BY <1>1, <2>2, <2>3, <2>4, <4>1, EarlierCopy
      <4>4. j < i
        BY <1>3, <2>4, <4>1, <4>2, <4>3
      <4> QED
        BY <2>4, <2>6, <4>1, <4>4, EarlierCopy
    <3> QED
      BY <1>5, <3>1, <3>2
  <2>9. c \in a..p - 1
    BY <1>1, <2>2, <2>7, <2>8
  <2> QED
    BY <2>1, <2>7, <2>9
<1> QED
  BY <1>4, <1>5

(* A fuzz_new in a statement that declares at most one variable.           *)
OneVar ==
  \A m \in Mains : \A s \in DOMAIN m :
    /\ \A v, w \in m[s].decl : v = w
    /\ m[s].output_var => m[s].decl = {}

Asks(st) == st.kind # "plain" \/ st.news > 0
Entry(o, k) == [tag |-> o[k].kind, base_stmt |-> k]
DeclaredBy(st) == IF st.decl = {} THEN {NoVar} ELSE st.decl

(* What the matcher has logged of statement k of o, and of the first n.    *)
LoggedAt(o, k, logged) ==
  /\ logged.base_stmt = k
  /\ logged.vd \in DeclaredBy(o[k])
  /\ logged.in_template \in BOOLEAN
  /\ logged.in_template <=> OpenAfter(o, k - 1)

LogsUpTo(o, sv, n) ==
  /\ n \in Nat /\ sv = [k \in 1..n |-> sv[k]]
  /\ \A k \in 1..n : LoggedAt(o, k, sv[k])

CallsUpTo(o, fnv, n) ==
  /\ n \in Nat
  /\ fnv \in Seq({Entry(o, k) : k \in 1..n})
  /\ \A c \in 1..Len(fnv) : Asks(o[fnv[c].base_stmt])
  /\ \A c, d \in 1..Len(fnv) : c < d => fnv[c].base_stmt < fnv[d].base_stmt
  /\ \A k \in 1..n : Asks(o[k]) => \E c \in 1..Len(fnv) : fnv[c].base_stmt = k

(* The statement expanded last.                                            *)
At(fnv, c) == IF c = 1 THEN 0 ELSE fnv[c - 1].base_stmt

(* The count is the copy whose beginning was passed last.                  *)
Counted(o, at, curr) ==
  /\ curr \in Int
  /\ \A q \in 1..at : o[q].kind = "start" => o[q].copy <= curr
  /\ curr = -1 \/ \E q \in 1..at : o[q].kind = "start" /\ o[q].copy = curr

Mine(o, e, d) == o[e].copy = Unsuffixed \/ o[d].copy \in {Unsuffixed, o[e].copy}
OwnOf(o, e) == UNION {o[d].decl : d \in {j \in 1..e - 1 : Mine(o, e, j)}}

Owned(o, f) ==
  \A k \in DOMAIN f :
    /\ "stmt" \in DOMAIN f[k] => f[k].objs = OwnOf(o, f[k].stmt)
    /\ "stmt" \notin DOMAIN f[k] => f[k].objs = MRs[f[k].mr].params

BeforePart ==
  pc \notin Done =>
    /\ spec_vars = <<>> /\ fuzz_new_vars = <<>> /\ in_template = FALSE
    /\ call = 1 /\ tfv = 1 /\ curr_input_count = -1 /\ offered = <<>>

LoggedPart ==
  pc = "duplicated" =>
    /\ LogsUpTo(Output, spec_vars, Len(spec_vars))
    /\ CallsUpTo(Output, fuzz_new_vars, Len(spec_vars))
    /\ in_template \in BOOLEAN /\ (in_template <=> OpenAfter(Output, Len(spec_vars)))
    /\ call = 1 /\ tfv = 1 /\ curr_input_count = -1 /\ offered = <<>>

EntriesPart ==
  pc = "expand" =>
    /\ LogsUpTo(Output, spec_vars, Len(Output))
    /\ CallsUpTo(Output, fuzz_new_vars, Len(Output))
    /\ call \in 1..Len(fuzz_new_vars) + 1 /\ tfv \in Nat \ {0}

(* What is logged of the statements looked at.                             *)
LoggedInv ==
  /\ BeforePart
  /\ LoggedPart
  /\ EntriesPart

ExpandPart ==
  pc = "expand" =>
    /\ in_template \in BOOLEAN
    /\ in_template <=> OpenAfter(Output, At(fuzz_new_vars, call))
    /\ Counted(Output, At(fuzz_new_vars, call), curr_input_count)

OfferedPart ==
  /\ Len(offered) \in Nat /\ offered = [k \in 1..Len(offered) |-> offered[k]]
  /\ Owned(Output, offered)

(* The inductive invariant of the expansion: where it stands in the        *)
(* blocks, and what it has offered.                                        *)
ExpandInv ==
  /\ ExpandPart
  /\ OfferedPart

(* Nothing is open where nothing begins or ends in between.                *)
LEMMA Stretch ==
  ASSUME NEW o, NEW a \in Nat, NEW e \in Nat, a < e,
         \A k \in a + 1..e - 1 : o[k].kind \notin {"start", "end"}
  PROVE  OpenAfter(o, a) <=> OpenAfter(o, e - 1)
<1>1. ASSUME OpenAfter(o, a) PROVE OpenAfter(o, e - 1)
  <2>1. PICK x \in 1..a : o[x].kind = "start" /\ \A b \in x..a : o[b].kind # "end"
    BY <1>1 DEF OpenAfter
  <2>2. x \in 1..e - 1 /\ \A b \in x..e - 1 : b \in x..a \/ b \in a + 1..e - 1
    OBVIOUS
  <2>3. \A b \in x..e - 1 : o[b].kind # "end"
    BY <2>1, <2>2
  <2> QED
    BY <2>1, <2>2, <2>3 DEF OpenAfter
<1>2. ASSUME OpenAfter(o, e - 1) PROVE OpenAfter(o, a)
  <2>1. PICK x \in 1..e - 1 : o[x].kind = "start" /\ \A b \in x..e - 1 : o[b].kind # "end"
    BY <1>2 DEF OpenAfter
  <2>2. x \in 1..a
    BY <2>1
  <2>3. \A b \in x..a : b \in x..e - 1
    BY <2>2
  <2> QED
    BY <2>1, <2>2, <2>3 DEF OpenAfter
<1> QED
  BY <1>1, <1>2

(* The entry expanded next is the next statement that asks for anything.   *)
LEMMA NextEntry ==
  ASSUME NEW o, NEW fnv, NEW n, CallsUpTo(o, fnv, n), NEW c \in 1..Len(fnv),
         NEW a, a = At(fnv, c), NEW e, e = fnv[c].base_stmt
  PROVE  /\ a \in 0..n /\ e \in 1..n /\ a < e /\ fnv[c].tag = o[e].kind /\ Asks(o[e])
         /\ \A k \in a + 1..e - 1 : ~Asks(o[k])
         /\ At(fnv, c + 1) = e
<1>1. /\ n \in Nat /\ Len(fnv) \in Nat
      /\ \A d \in 1..Len(fnv) : \E k \in 1..n : fnv[d] = Entry(o, k)
      /\ \A d \in 1..Len(fnv) : Asks(o[fnv[d].base_stmt])
      /\ \A b, d \in 1..Len(fnv) : b < d => fnv[b].base_stmt < fnv[d].base_stmt
      /\ \A k \in 1..n : Asks(o[k]) => \E d \in 1..Len(fnv) : fnv[d].base_stmt = k
  BY DEF CallsUpTo
<1>2. \A d \in 1..Len(fnv) : fnv[d].base_stmt \in 1..n /\ fnv[d].tag = o[fnv[d].base_stmt].kind
  <2> TAKE d \in 1..Len(fnv)
  <2>1. PICK k \in 1..n : fnv[d] = Entry(o, k)
    BY <1>1
  <2>2. fnv[d].base_stmt = k /\ fnv[d].tag = o[k].kind
    BY <2>1 DEF Entry
  <2> QED
    BY <2>2
<1>3. e \in 1..n /\ fnv[c].tag = o[e].kind /\ Asks(o[e])
  BY <1>1, <1>2
<1>4. a \in 0..n /\ a < e
  <2>1. CASE c = 1
    BY <1>1, <1>3, <2>1 DEF At
  <2>2. CASE c # 1
    <3>1. c - 1 \in 1..Len(fnv) /\ c - 1 < c
      BY <1>1, <2>2
    <3> QED
      BY <1>1, <1>2, <2>2, <3>1 DEF At
  <2> QED
    BY <2>1, <2>2
<1>5. ASSUME NEW k \in a + 1..e - 1, Asks(o[k]) PROVE FALSE
  <2>1. k \in 1..n /\ a < k /\ k < e
    BY <1>1, <1>3, <1>4
  <2>2. PICK d \in 1..Len(fnv) : fnv[d].base_stmt = k
    BY <1>1, <1>5, <2>1
  <2>3. d < c
    BY <1>1, <1>3, <2>1, <2>2
  <2>4. c # 1 /\ c - 1 \in 1..Len(fnv) /\ d <= c - 1
    BY <1>1, <2>3
  <2>5. a = fnv[c - 1].base_stmt
    BY <2>4 DEF At
  <2>6. CASE d = c - 1
    <3>1. a = k
      BY <2>2, <2>5, <2>6
    <3> QED
      BY <1>1, <1>4, <2>1, <3>1
  <2>7. CASE d < c - 1
    <3>1. k < a
      BY <1>1, <2>2, <2>4, <2>5, <2>7
    <3>2. k \in Nat /\ a \in Nat
      BY <1>4, <2>1
    <3> QED
      BY <2>1, <3>1, <3>2
  <2> QED
    BY <1>1, <2>4, <2>6, <2>7
<1>6. At(fnv, c + 1) = e
  BY <1>1 DEF At
<1> QED
  BY <1>3, <1>4, <1>5, <1>6


(* The matcher goes on by one statement.                                   *)
LEMMA LogsLonger ==
  ASSUME NEW o, NEW sv, NEW n, LogsUpTo(o, sv, n),
         NEW logged, LoggedAt(o, n + 1, logged)
  PROVE  LogsUpTo(o, Append(sv, logged), n + 1) /\ Len(Append(sv, logged)) = n + 1
<1> DEFINE longer == Append(sv, logged)
<1>1. n \in Nat /\ sv = [k \in 1..n |-> sv[k]] /\ n + 1 \in Nat
  BY DEF LogsUpTo
<1>3. longer = [k \in 1..n + 1 |-> IF k = n + 1 THEN logged ELSE sv[k]]
  BY <1>1, AppendToFunction
<1>4. longer = [k \in 1..n + 1 |-> longer[k]] /\ Len(longer) = n + 1
  BY <1>1, <1>3
<1>5. \A k \in 1..n : k \in 1..n + 1 /\ longer[k] = sv[k]
  BY <1>1, <1>3
<1>6. longer[n + 1] = logged /\ \A k \in 1..n + 1 : k \in 1..n \/ k = n + 1
  BY <1>1, <1>3
<1> HIDE DEF longer
<1>7. \A k \in 1..n + 1 : LoggedAt(o, k, longer[k])
  BY <1>5, <1>6 DEF LogsUpTo
<1>8. LogsUpTo(o, longer, n + 1)
  BY <1>1, <1>4, <1>7 DEF LogsUpTo
<1> QED
  BY <1>4, <1>8 DEF longer

LEMMA CallsLonger ==
  ASSUME NEW o, NEW fnv, NEW n, CallsUpTo(o, fnv, n)
  PROVE  CallsUpTo(o, fnv \o (IF Asks(o[n + 1]) THEN <<Entry(o, n + 1)>> ELSE <<>>), n + 1)
<1> DEFINE E == {Entry(o, k) : k \in 1..n}
           F == {Entry(o, k) : k \in 1..n + 1}
<1>1. n \in Nat /\ fnv \in Seq(E) /\ n + 1 \in 1..n + 1 /\ \A k \in 1..n : k \in 1..n + 1
  BY DEF CallsUpTo
<1>2. fnv \in Seq(F) /\ Entry(o, n + 1) \in F
  <2>1. E \subseteq F /\ Entry(o, n + 1) \in F
    BY <1>1
  <2> HIDE DEF E, F
  <2> QED
    BY <1>1, <2>1
<1>3. \A c \in 1..Len(fnv) : fnv[c].base_stmt \in 1..n
  <2> TAKE c \in 1..Len(fnv)
  <2>1. fnv[c] \in E
    BY <1>1
  <2>2. PICK k \in 1..n : fnv[c] = Entry(o, k)
    BY <2>1
  <2> QED
    BY <2>2 DEF Entry
<1>4. /\ \A c \in 1..Len(fnv) : Asks(o[fnv[c].base_stmt])
      /\ \A c, d \in 1..Len(fnv) : c < d => fnv[c].base_stmt < fnv[d].base_stmt
      /\ \A k \in 1..n : Asks(o[k]) => \E c \in 1..Len(fnv) : fnv[c].base_stmt = k
  BY DEF CallsUpTo
<1>5. CASE ~Asks(o[n + 1])
  <2>1. fnv \o <<>> = fnv
    BY <1>2
  <2>2. \A k \in 1..n + 1 : Asks(o[k]) => \E c \in 1..Len(fnv) : fnv[c].base_stmt = k
    <3> TAKE k \in 1..n + 1
    <3>1. k = n + 1 \/ k \in 1..n
      BY <1>1
    <3> QED
      BY <1>4, <1>5, <3>1
  <2>3. CallsUpTo(o, fnv, n + 1)
    BY <1>1, <1>2, <1>4, <2>2 DEF CallsUpTo
  <2> QED
    BY <1>5, <2>1, <2>3
<1>6. CASE Asks(o[n + 1])
  <2> DEFINE ent == Entry(o, n + 1)
             more == fnv \o <<ent>>
             L == Len(fnv)
  <2>1. ent.base_stmt = n + 1 /\ ent \in F
    BY <1>2 DEF Entry
  <2> HIDE DEF ent, F, E
  <2>2. /\ more \in Seq(F) /\ Len(more) = L + 1 /\ L \in Nat /\ more[L + 1] = ent
        /\ \A c \in 1..L : more[c] = fnv[c]
    BY <1>2, <2>1
  <2> HIDE DEF more
  <2>3. \A c \in 1..L + 1 : c \in 1..L \/ c = L + 1
    BY <2>2
  <2>4. \A c \in 1..L + 1 : Asks(o[more[c].base_stmt])
    BY <1>4, <1>6, <2>1, <2>2, <2>3
  <2>5. ASSUME NEW c \in 1..L + 1, NEW d \in 1..L + 1, c < d
        PROVE  more[c].base_stmt < more[d].base_stmt
    <3>1. c \in 1..L
      BY <2>2, <2>5
    <3>2. CASE d \in 1..L
      BY <1>4, <2>2, <2>5, <3>1, <3>2
    <3>3. CASE d = L + 1
      <4>1. more[c].base_stmt \in 1..n /\ more[d].base_stmt = n + 1
        BY <1>3, <2>1, <2>2, <3>1, <3>3
      <4> QED
        BY <1>1, <4>1
    <3> QED
      BY <2>3, <3>2, <3>3
  <2>6. ASSUME NEW k \in 1..n + 1, Asks(o[k])
        PROVE  \E c \in 1..L + 1 : more[c].base_stmt = k
    <3>1. CASE k = n + 1
      <4>1. L + 1 \in 1..L + 1
        BY <2>2
      <4> QED
        BY <2>1, <2>2, <3>1, <4>1
    <3>2. CASE k # n + 1
      <4>1. k \in 1..n
        BY <1>1, <3>2
      <4>2. PICK c \in 1..L : fnv[c].base_stmt = k
        BY <1>4, <2>6, <4>1
      <4>3. c \in 1..L + 1
        BY <2>2
      <4> QED
        BY <2>2, <4>2, <4>3
    <3> QED
      BY <3>1, <3>2
  <2>7. CallsUpTo(o, more, n + 1)
    BY <1>1, <2>2, <2>4, <2>5, <2>6 DEF CallsUpTo, F
  <2> QED
    BY <1>6, <2>7 DEF more, ent
<1> QED
  BY <1>5, <1>6


(* What is known of the place expanded next, and of those passed.          *)
LEMMA PlacesPassed ==
  ASSUME OneBlock, DupInv, CopyInv, pc \in Done,
         NEW a \in 0..Len(Output), NEW e \in 1..Len(Output), a < e,
         \A k \in a + 1..e - 1 : ~Asks(Output[k])
  PROVE  /\ \A k \in 1..Len(Output) : Output[k].kind \in {"start", "end", "plain"}
         /\ OpenAfter(Output, a) <=> OpenAfter(Output, e - 1)
         /\ \A q \in 1..Len(Output) : Output[q].kind = "start" /\ q < e => q \in 1..a
<1>1. /\ Len(Output) \in Nat /\ DOMAIN Output = 1..Len(Output)
      /\ \A p \in DOMAIN Output : \E s, i : From(p, s, i)
  BY OutputShape
<1>2. \A k \in 1..Len(Output) : Output[k].kind \in {"start", "end", "plain"}
  <2> TAKE k \in 1..Len(Output)
  <2>1. PICK s, i : From(k, s, i)
    BY <1>1
  <2>2. main \in Mains /\ s \in DOMAIN main /\ Output[k].kind = main[s].kind
    BY <2>1, FromIs, KindOf, FinalTextTyped
  <2>3. main[s] \in MainStmt
    BY <2>2, BodiesOfMain
  <2> QED
    BY <2>2, <2>3 DEF MainStmt
<1>3. \A k \in a + 1..e - 1 : Output[k].kind \notin {"start", "end"}
  BY DEF Asks
<1>4. OpenAfter(Output, a) <=> OpenAfter(Output, e - 1)
  <2>1. a \in Nat /\ e \in Nat
    BY <1>1
  <2> DEFINE o == Output
  <2> HIDE DEF o
  <2>2. \A k \in a + 1..e - 1 : o[k].kind \notin {"start", "end"}
    BY <1>3 DEF o
  <2>3. OpenAfter(o, a) <=> OpenAfter(o, e - 1)
    BY <2>1, <2>2, Stretch
  <2> QED
    BY <2>3 DEF o
<1>5. ASSUME NEW q \in 1..Len(Output), Output[q].kind = "start", q < e PROVE q \in 1..a
  <2>1. q \notin a + 1..e - 1
    BY <1>3, <1>5
  <2> QED
    BY <1>1, <1>5, <2>1
<1> QED
  BY <1>2, <1>4, <1>5

LEMMA CountStays ==
  ASSUME OneBlock, DupInv, CopyInv, pc \in Done,
         NEW a \in 0..Len(Output), NEW e \in 1..Len(Output), a < e,
         \A k \in a + 1..e - 1 : ~Asks(Output[k]),
         NEW curr, Counted(Output, a, curr), Output[e].kind # "start"
  PROVE  Counted(Output, e, curr) /\ curr # meta_input_fuzz_count
<1>1. Len(Output) \in Nat /\ DOMAIN Output = 1..Len(Output)
  BY OutputShape
<1>2. \A q \in 1..Len(Output) : Output[q].kind = "start" /\ q < e => q \in 1..a
  BY PlacesPassed
<1>3. \A q \in 1..e : Output[q].kind = "start" => q \in 1..a
  <2> SUFFICES ASSUME NEW q \in 1..e, Output[q].kind = "start" PROVE q \in 1..a
    OBVIOUS
  <2>1. q # e /\ q \in 1..Len(Output)
    BY <1>1
  <2> QED
    BY <1>1, <1>2, <2>1
<1>4. \A q \in 1..a : q \in 1..e
  BY <1>1
<1>5. Counted(Output, e, curr)
  BY <1>3, <1>4 DEF Counted
<1>6. meta_input_fuzz_count \in Nat
  BY DEF CopyInv, SpotsPart
<1>7. CASE curr = -1
  BY <1>5, <1>6, <1>7
<1>8. CASE curr # -1
  <2>1. PICK q \in 1..a : Output[q].kind = "start" /\ Output[q].copy = curr
    BY <1>8 DEF Counted
  <2>2. q \in DOMAIN Output
    BY <1>1
  <2>3. PICK s, i : From(q, s, i)
    BY <2>2, OutputShape
  <2>4. s \in 1..Len(main) /\ main[s].kind = "start" /\ i = curr
    BY <2>1, <2>3, FromIs, KindOf
  <2>5. Inside(main, s)
    BY <2>4 DEF Inside
  <2>6. curr \in InputIds
    BY <2>3, <2>4, <2>5 DEF From
  <2>7. curr # meta_input_fuzz_count
    BY <1>6, <2>6 DEF InputIds
  <2> QED
    BY <1>5, <2>7
<1> QED
  BY <1>5, <1>7, <1>8

(* The beginning of copy i is where the count becomes i.                   *)
LEMMA CountGoesOn ==
  ASSUME OneBlock, DupInv, CopyInv, pc \in Done,
         NEW a \in 0..Len(Output), NEW e \in 1..Len(Output), a < e,
         \A k \in a + 1..e - 1 : ~Asks(Output[k]),
         NEW curr, Counted(Output, a, curr), Output[e].kind = "start"
  PROVE  Counted(Output, e, curr + 1)
<1>1. Len(Output) \in Nat /\ DOMAIN Output = 1..Len(Output) /\ e \in DOMAIN Output
  BY OutputShape
<1>2. \A q \in 1..Len(Output) : Output[q].kind = "start" /\ q < e => q \in 1..a
  BY PlacesPassed
<1>3. meta_input_fuzz_count \in Nat /\ InputIds \subseteq Int /\ curr \in Int
  BY DEF CopyInv, SpotsPart, InputIds, Counted
<1>4. PICK s, i : From(e, s, i)
  BY <1>1, OutputShape
<1>5. s \in 1..Len(main) /\ main[s].kind = "start" /\ Output[e].copy = i /\ Output[e].of = s
  BY <1>4, FromIs, KindOf
<1>6. Inside(main, s) /\ i \in InputIds
  <2>1. Inside(main, s)
    BY <1>5 DEF Inside
  <2> QED
    BY <1>4, <2>1 DEF From
<1>7. ASSUME NEW q \in 1..Len(Output), Output[q].kind = "start", q < e
      PROVE  Output[q].copy < i
  <2>1. q \in DOMAIN Output
    BY <1>1
  <2>2. PICK t, j : From(q, t, j)
    BY <2>1, OutputShape
  <2>3. t \in 1..Len(main) /\ main[t].kind = "start" /\ Output[q].copy = j /\ Output[q].of = t
    BY <1>7, <2>2, FromIs, KindOf
  <2>4. t = s
    BY <1>5, <2>3, OneStart
  <2>5. Inside(main, t)
    BY <2>3 DEF Inside
  <2>6. j \in InputIds
    BY <2>2, <2>5 DEF From
  <2>7. i # j
    BY <1>1, <1>5, <1>7, <2>1, <2>3, <2>4, PlacedOnce
  <2>8. ~ (i < j)
    <3>1. i < j => e < q
      BY <1>1, <1>4, <1>6, <2>1, <2>2, <2>6, EarlierCopy
    <3> QED
      BY <1>1, <1>7, <3>1
  <2> QED
    BY <1>3, <1>6, <2>3, <2>6, <2>7, <2>8
<1>8. curr < i
  <2>1. CASE curr = -1
    BY <1>3, <1>6, <2>1 DEF InputIds
  <2>2. CASE curr # -1
    <3>1. PICK q \in 1..a : Output[q].kind = "start" /\ Output[q].copy = curr
      BY <2>2 DEF Counted
    <3>2. q \in 1..Len(Output) /\ q < e
      BY <1>1
    <3> QED
      BY <1>7, <3>1, <3>2
  <2> QED
    BY <2>1, <2>2
<1>9. -1 <= curr
  <2>1. CASE curr # -1
    <3>1. PICK q \in 1..a : Output[q].kind = "start" /\ Output[q].copy = curr
      BY <2>1 DEF Counted
    <3>2. q \in DOMAIN Output
      BY <1>1
    <3>3. PICK t, j : From(q, t, j)
      BY <3>2, OutputShape
    <3>4. curr \in InputIds \cup {Unsuffixed}
      BY <3>1, <3>3, FromIs
    <3> QED
      BY <1>3, <3>4 DEF InputIds, Unsuffixed
  <2> QED
    BY <2>1
<1>10. ~ (curr + 1 < i)
  <2> SUFFICES ASSUME curr + 1 < i PROVE FALSE
    OBVIOUS
  <2> DEFINE j == curr + 1
  <2>1. j \in InputIds /\ j < i /\ curr < j
    BY <1>3, <1>6, <1>9 DEF InputIds
  <2> HIDE DEF j
  <2>2. PICK q \in DOMAIN Output : From(q, s, j)
    BY <1>5, <1>6, <2>1, OutputShape
  <2>3. q < e
    BY <1>1, <1>4, <1>6, <2>1, <2>2, EarlierCopy
  <2>4. Output[q].kind = "start" /\ Output[q].copy = j
    BY <1>5, <2>2, FromIs, KindOf
  <2>5. q \in 1..a
    BY <1>1, <1>2, <2>3, <2>4
  <2>6. j <= curr
    BY <2>4, <2>5 DEF Counted
  <2> QED
    BY <1>3, <2>1, <2>6
<1>11. curr + 1 = i /\ i \in Int
  BY <1>3, <1>6, <1>8, <1>10
<1>12. \A q \in 1..e : Output[q].kind = "start" => Output[q].copy <= i
  <2> SUFFICES ASSUME NEW q \in 1..e, Output[q].kind = "start" PROVE Output[q].copy <= i
    OBVIOUS
  <2>1. CASE q = e
    BY <1>5, <1>11, <2>1
  <2>2. CASE q # e
    <3>1. q \in 1..Len(Output) /\ q < e
      BY <1>1, <2>2
    <3>2. PICK t, j : From(q, t, j)
      BY <1>1, <3>1, OutputShape
    <3>3. Output[q].copy = j /\ j \in InputIds \cup {Unsuffixed}
      BY <3>2, FromIs
    <3>4. Output[q].copy \in Int
      BY <1>3, <3>3 DEF Unsuffixed
    <3> QED
      BY <1>7, <1>11, <3>1, <3>4
  <2> QED
    BY <2>1, <2>2
<1>13. e \in 1..e
  BY <1>1
<1> QED
  BY <1>5, <1>11, <1>12, <1>13 DEF Counted


(* The names that the rewritten main declares at a place.                  *)
LEMMA OneNameAt ==
  ASSUME OneVar, DupInv, CopyInv, pc \in Done, NEW p, NEW s, NEW i, From(p, s, i)
  PROVE  /\ \A m, n \in Output[p].decl : m = n
         /\ NoVar \notin Output[p].decl
         /\ \A n \in Output[p].decl : n.copy = i
         /\ main[s].kind # "plain" => Output[p].decl = {}
<1>1. /\ main \in Mains /\ s \in DOMAIN main /\ main[s].decl \subseteq Vars
      /\ main[s].kind # "plain" => main[s].decl = {} /\ ~main[s].output_var
  <2>1. main \in Mains /\ s \in DOMAIN main
    BY FinalTextTyped DEF From
  <2> QED
    BY <2>1, BodiesOfMain DEF MainStmt
<1>2. \A n \in Output[p].decl :
        /\ n = Name(n.var, i) /\ n.copy = i
        /\ n.var \in main[s].decl \/ (n.var = "output_var" /\ AsksFirst(s))
  BY NamesDeclared
<1>3. \A m, n \in Output[p].decl : m.var = n.var
  BY <1>1, <1>2, OneVar DEF OneVar, AsksFirst
<1>4. \A m, n \in Output[p].decl : m = n
  BY <1>2, <1>3
<1>5. NoVar \notin Output[p].decl
  <2>1. NoVar.var = "none" /\ "none" \notin Vars /\ "none" # "output_var"
    BY FuzzNewAssumption DEF NoVar, Name
  <2> QED
    BY <1>1, <1>2, <2>1
<1>6. main[s].kind # "plain" => Output[p].decl = {}
  BY <1>1, <1>2 DEF AsksFirst
<1> QED
  BY <1>2, <1>4, <1>5, <1>6

(* In a copy, the count is that copy's.                                    *)
LEMMA CountIsOwn ==
  ASSUME OneBlock, DupInv, CopyInv, pc \in Done,
         NEW a \in 0..Len(Output), NEW e \in 1..Len(Output), a < e,
         \A k \in a + 1..e - 1 : ~Asks(Output[k]),
         NEW curr, Counted(Output, a, curr), OpenAfter(Output, a), Output[e].kind = "plain"
  PROVE  curr = Output[e].copy
<1>1. Len(Output) \in Nat /\ DOMAIN Output = 1..Len(Output) /\ e \in DOMAIN Output
      /\ meta_input_fuzz_count \in Nat
  BY OutputShape DEF CopyInv, SpotsPart
<1>2. /\ \A q \in 1..Len(Output) : Output[q].kind = "start" /\ q < e => q \in 1..a
      /\ OpenAfter(Output, e - 1)
  BY PlacesPassed
<1>3. PICK s, i : From(e, s, i)
  BY <1>1, OutputShape
<1>4. s \in 1..Len(main) /\ main[s].kind = "plain" /\ Output[e].copy = i
  BY <1>3, FromIs, KindOf
<1>5. i # Unsuffixed
  BY <1>1, <1>2, <1>3, OpenInCopy
<1>6. i \in InputIds /\ Inside(main, s) /\ InputIds \subseteq Nat
  BY <1>1, <1>3, <1>5, FromIs DEF From, InputIds
<1>7. PICK b \in 1..s - 1 : main[b].kind = "start"
  BY <1>4, <1>6 DEF Inside, OpenAfter
<1>8. b \in 1..Len(main) /\ b < s
  BY <1>4, <1>7, FinalTextTyped
<1>9. Inside(main, b)
  BY <1>7 DEF Inside
<1>10. PICK q \in DOMAIN Output : From(q, b, i)
  BY <1>6, <1>8, <1>9, OutputShape
<1>11. q \in 1..e - 1 /\ Output[q].kind = "start" /\ Output[q].copy = i
  BY <1>1, <1>3, <1>7, <1>8, <1>10, Earlier, FromIs, KindOf
<1>12. i <= curr
  <2>1. q \in 1..a
    BY <1>1, <1>2, <1>11
  <2> QED
    BY <1>11, <2>1 DEF Counted
<1>13. ~ (i < curr)
  <2>1. curr \in Int /\ curr # -1
    BY <1>6, <1>12 DEF Counted
  <2>2. PICK r \in 1..a : Output[r].kind = "start" /\ Output[r].copy = curr
    BY <2>1 DEF Counted
  <2>3. r \in DOMAIN Output /\ r < e
    BY <1>1
  <2>4. PICK t, j : From(r, t, j)
    BY <2>3, OutputShape
  <2>5. j = curr /\ t \in 1..Len(main) /\ main[t].kind = "start"
    BY <2>2, <2>4, FromIs, KindOf
  <2>6. Inside(main, t)
    BY <2>5 DEF Inside
  <2>7. j \in InputIds
    BY <2>4, <2>6 DEF From
  <2>8. i < j => e < r
    BY <1>1, <1>3, <1>6, <2>3, <2>4, <2>7, EarlierCopy
  <2> QED
    BY <1>1, <2>3, <2>5, <2>8
<1>14. curr \in Int
  BY DEF Counted
<1> QED
  BY <1>4, <1>6, <1>12, <1>13, <1>14

(* What is offered at a statement that asks for an object.                 *)
LEMMA OffersOwn ==
  ASSUME OneBlock, OneVar, DupInv, CopyInv, pc \in Done,
         NEW a \in 0..Len(Output), NEW e \in 1..Len(Output), a < e,
         \A k \in a + 1..e - 1 : ~Asks(Output[k]),
         NEW curr, Counted(Output, a, curr), Output[e].kind = "plain",
         NEW sv, LogsUpTo(Output, sv, Len(Output)),
         NEW open \in BOOLEAN, open <=> OpenAfter(Output, a)
  PROVE  getDuplicateDeclVars(SubSeq(sv, 1, e - 1), curr, open) = OwnOf(Output, e)
<1>1. Len(Output) \in Nat /\ DOMAIN Output = 1..Len(Output) /\ e \in DOMAIN Output
      /\ meta_input_fuzz_count \in Nat
  BY OutputShape DEF CopyInv, SpotsPart
<1> DEFINE logged == SubSeq(sv, 1, e - 1)
<1>2. DOMAIN logged = 1..e - 1 /\ \A k \in 1..e - 1 : logged[k] = sv[k]
  <2>1. logged = [k \in 1..e - 1 |-> sv[k]]
    BY <1>1
  <2> QED
    BY <2>1
<1> HIDE DEF logged
<1>3. PICK s, i : From(e, s, i)
  BY <1>1, OutputShape
<1>4. main[s].kind = "plain" /\ Output[e].copy = i
  BY <1>3, FromIs, KindOf
<1>5. OpenAfter(Output, a) <=> i # Unsuffixed
  BY <1>1, <1>3, <1>4, PlacesPassed, OpenInCopy
<1>6. open => curr = i
  BY <1>4, CountIsOwn
<1> DEFINE left(d) == ~(open /\ sv[d].in_template /\ sv[d].vd.copy # Unsuffixed
                        /\ sv[d].vd.copy # curr)
<1>7. ASSUME NEW d \in 1..e - 1
      PROVE  /\ Output[d].decl = IF sv[d].vd = NoVar THEN {} ELSE {sv[d].vd}
             /\ sv[d].vd # NoVar => (left(d) <=> Mine(Output, e, d))
  <2>1. d \in DOMAIN Output /\ d \in 1..Len(Output) /\ d < e
    BY <1>1
  <2>2. PICK t, j : From(d, t, j)
    BY <2>1, OutputShape
  <2>3. /\ \A m, n \in Output[d].decl : m = n
        /\ NoVar \notin Output[d].decl
        /\ \A n \in Output[d].decl : n.copy = j
        /\ main[t].kind # "plain" => Output[d].decl = {}
    BY <2>2, OneNameAt
  <2>4. sv[d].vd \in DeclaredBy(Output[d]) /\ sv[d].in_template \in BOOLEAN
        /\ (sv[d].in_template <=> OpenAfter(Output, d - 1))
    BY <2>1 DEF LogsUpTo, LoggedAt
  <2>5. Output[d].decl = IF sv[d].vd = NoVar THEN {} ELSE {sv[d].vd}
    BY <2>3, <2>4 DEF DeclaredBy
  <2>6. ASSUME sv[d].vd # NoVar
        PROVE  left(d) <=> Mine(Output, e, d)
    <3>1. sv[d].vd \in Output[d].decl
      BY <2>4, <2>6 DEF DeclaredBy
    <3>2. sv[d].vd.copy = j /\ main[t].kind = "plain" /\ Output[d].copy = j
      BY <2>2, <2>3, <3>1, FromIs
    <3>3. sv[d].in_template <=> j # Unsuffixed
      BY <2>1, <2>2, <2>4, <3>2, OpenInCopy
    <3> QED
      BY <1>4, <1>5, <1>6, <3>2, <3>3 DEF Mine
  <2> QED
    BY <2>5, <2>6
<1> HIDE DEF left
<1> DEFINE offers == {logged[k].vd : k \in {j \in DOMAIN logged : left(j)}} \ {NoVar}
<1>8. getDuplicateDeclVars(logged, curr, open) = offers
  BY <1>2 DEF getDuplicateDeclVars, left
<1>9. \A x : x \in offers <=> \E d \in 1..e - 1 : left(d) /\ x = sv[d].vd /\ x # NoVar
  BY <1>2
<1>10. \A x : x \in OwnOf(Output, e) <=> \E d \in 1..e - 1 : Mine(Output, e, d) /\ x \in Output[d].decl
  BY DEF OwnOf
<1> HIDE DEF offers
<1>11. ASSUME NEW x, x \in offers PROVE x \in OwnOf(Output, e)
  <2>1. PICK d \in 1..e - 1 : left(d) /\ x = sv[d].vd /\ x # NoVar
    BY <1>9, <1>11
  <2>2. Mine(Output, e, d) /\ x \in Output[d].decl
    BY <1>7, <2>1
  <2> QED
    BY <1>10, <2>2
<1>12. ASSUME NEW x, x \in OwnOf(Output, e) PROVE x \in offers
  <2>1. PICK d \in 1..e - 1 : Mine(Output, e, d) /\ x \in Output[d].decl
    BY <1>10, <1>12
  <2>2. left(d) /\ x = sv[d].vd /\ x # NoVar
    BY <1>7, <2>1
  <2> QED
    BY <1>9, <2>2
<1> QED
  BY <1>8, <1>11, <1>12 DEF logged


(* What is offered is only added to.                                       *)
LEMMA OwnedLonger ==
  ASSUME NEW o, NEW f, Len(f) \in Nat, f = [k \in 1..Len(f) |-> f[k]], Owned(o, f),
         NEW x, Owned(o, <<x>>)
  PROVE  /\ Len(Append(f, x)) \in Nat
         /\ Append(f, x) = [k \in 1..Len(Append(f, x)) |-> Append(f, x)[k]]
         /\ Owned(o, Append(f, x))
<1> DEFINE g == Append(f, x)
           n == Len(f)
<1>1. n \in Nat /\ f = [k \in 1..n |-> f[k]]
  OBVIOUS
<1> HIDE DEF n
<1>2. g = [k \in 1..n + 1 |-> IF k = n + 1 THEN x ELSE f[k]]
  BY <1>1, AppendToFunction
<1>3. Len(g) = n + 1 /\ g = [k \in 1..n + 1 |-> g[k]] /\ n + 1 \in Nat
  BY <1>1, <1>2
<1>4. \A k \in DOMAIN g : (k \in DOMAIN f /\ g[k] = f[k]) \/ g[k] = x
  BY <1>1, <1>2
<1> HIDE DEF g
<1>5. /\ "stmt" \in DOMAIN x => x.objs = OwnOf(o, x.stmt)
      /\ "stmt" \notin DOMAIN x => x.objs = MRs[x.mr].params
  <2>1. 1 \in DOMAIN <<x>> /\ <<x>>[1] = x
    OBVIOUS
  <2> QED
    BY <2>1 DEF Owned
<1>6. Owned(o, g)
  BY <1>4, <1>5 DEF Owned
<1> QED
  BY <1>3, <1>6 DEF g

(* The passes before this one.                                             *)
LEMMA DuplicateLeaves ==
  ASSUME LoggedInv, Duplicate
  PROVE  /\ pc \notin Done /\ pc' \notin {"expand", "relations", "expanded"}
         /\ spec_vars' = <<>> /\ fuzz_new_vars' = <<>> /\ in_template' = FALSE
         /\ call' = 1 /\ tfv' = 1 /\ curr_input_count' = -1 /\ offered' = <<>>
<1>1. pc \notin Done /\ pc' \notin {"expand", "relations", "expanded"} /\ UNCHANGED new_vars
  BY DEF Duplicate, DupNext, MatchLocations, LogChild, AllLogged, VisitChild, AllVisited,
         DuplicateStmt, InsertCopies, ReplaceGets, DupAbort, Done
<1> QED
  BY <1>1 DEF LoggedInv, BeforePart, new_vars

LEMMA DuplicateStepLogged ==
  ASSUME LoggedInv, Duplicate
  PROVE  LoggedInv'
<1>1. /\ pc' \notin {"expand", "relations", "expanded"}
      /\ spec_vars' = <<>> /\ fuzz_new_vars' = <<>> /\ in_template' = FALSE
      /\ call' = 1 /\ tfv' = 1 /\ curr_input_count' = -1 /\ offered' = <<>>
  BY DuplicateLeaves
<1>2. \A o : LogsUpTo(o, <<>>, 0) /\ CallsUpTo(o, <<>>, 0) /\ ~OpenAfter(o, 0)
  <2> TAKE o
  <2>1. LogsUpTo(o, <<>>, 0)
    BY DEF LogsUpTo
  <2>2. CallsUpTo(o, <<>>, 0)
    BY DEF CallsUpTo
  <2> QED
    BY <2>1, <2>2, NothingOpenAtFirst
<1>3. BeforePart' /\ EntriesPart'
  BY <1>1 DEF BeforePart, EntriesPart, Done
<1>4. LoggedPart'
  <2>1. Len(<<>>) = 0
    OBVIOUS
  <2> QED
    BY <1>1, <1>2, <2>1 DEF LoggedPart
<1> QED
  BY <1>3, <1>4 DEF LoggedInv

LEMMA LogMatchStep ==
  ASSUME LoggedInv, LogMatch
  PROVE  LoggedInv'
<1> DEFINE n == Len(spec_vars)
           o == Output
<1>1. /\ pc = "duplicated" /\ pc' = pc /\ Output' = o /\ offered' = offered
      /\ call' = call /\ tfv' = tfv /\ curr_input_count' = curr_input_count
  BY DEF LogMatch, dup_vars, Output
<1>2. /\ LogsUpTo(o, spec_vars, n) /\ CallsUpTo(o, fuzz_new_vars, n)
      /\ in_template \in BOOLEAN /\ (in_template <=> OpenAfter(o, n))
      /\ call = 1 /\ tfv = 1 /\ curr_input_count = -1 /\ offered = <<>>
      /\ n \in Nat /\ n + 1 \in Nat \ {0}
  BY <1>1 DEF LoggedInv, LoggedPart, LogsUpTo
<1>3. PICK vd \in DeclaredBy(o[n + 1]) :
        spec_vars' = Append(spec_vars, [base_stmt |-> n + 1, vd |-> vd,
                                        in_template |-> in_template])
  BY DEF LogMatch, DeclaredBy
<1>4. fuzz_new_vars' = fuzz_new_vars \o (IF Asks(o[n + 1]) THEN <<Entry(o, n + 1)>> ELSE <<>>)
  BY DEF LogMatch, NewCalls, Asks, Entry
<1>5. in_template' = CASE o[n + 1].kind = "start" -> TRUE
                       [] o[n + 1].kind = "end" -> FALSE
                       [] OTHER -> in_template
  BY DEF LogMatch
<1> HIDE DEF n, o
<1>6. LogsUpTo(o, spec_vars', n + 1) /\ Len(spec_vars') = n + 1
  <2> DEFINE logged == [base_stmt |-> n + 1, vd |-> vd, in_template |-> in_template]
  <2>1. LoggedAt(o, n + 1, logged)
    <3>1. (n + 1) - 1 = n
      BY <1>2
    <3> QED
      BY <1>2, <3>1 DEF LoggedAt
  <2>2. spec_vars' = Append(spec_vars, logged)
    BY <1>3
  <2> HIDE DEF logged
  <2> QED
    BY <1>2, <2>1, <2>2, LogsLonger, Zenon
<1>7. CallsUpTo(o, fuzz_new_vars', n + 1)
  BY <1>2, <1>4, CallsLonger
<1>8. in_template' \in BOOLEAN /\ (in_template' <=> OpenAfter(o, n + 1))
  <2>1. (n + 1) - 1 = n
    BY <1>2
  <2>2. /\ o[n + 1].kind = "start" => OpenAfter(o, n + 1)
        /\ o[n + 1].kind = "end" => ~OpenAfter(o, n + 1)
        /\ o[n + 1].kind \notin {"start", "end"} => (OpenAfter(o, n + 1) <=> OpenAfter(o, n))
    BY <1>2, <2>1, OpenStep
  <2> QED
    BY <1>2, <1>5, <2>2
<1>9. BeforePart' /\ EntriesPart'
  BY <1>1 DEF BeforePart, EntriesPart, Done
<1>10. LoggedPart'
  BY <1>1, <1>2, <1>6, <1>7, <1>8 DEF LoggedPart
<1> QED
  BY <1>9, <1>10 DEF LoggedInv

LEMMA AllMatchedStep ==
  ASSUME LoggedInv, AllMatched
  PROVE  /\ LoggedInv'
         /\ At(fuzz_new_vars', call') = 0 /\ offered' = <<>> /\ curr_input_count' = -1
<1>1. /\ pc = "duplicated" /\ pc' = "expand" /\ Output' = Output /\ in_template' = FALSE
      /\ UNCHANGED <<spec_vars, fuzz_new_vars, call, tfv, curr_input_count, offered>>
      /\ Len(spec_vars) = Len(Output)
  BY DEF AllMatched, Output
<1>2. /\ LogsUpTo(Output, spec_vars, Len(Output)) /\ CallsUpTo(Output, fuzz_new_vars, Len(Output))
      /\ call = 1 /\ tfv = 1 /\ curr_input_count = -1 /\ offered = <<>>
  BY <1>1 DEF LoggedInv, LoggedPart
<1>3. At(fuzz_new_vars, call) = 0
  BY <1>2 DEF At
<1>4. call \in 1..Len(fuzz_new_vars) + 1 /\ tfv \in Nat \ {0}
  <2>1. Len(fuzz_new_vars) \in Nat
    BY <1>2 DEF CallsUpTo
  <2> QED
    BY <1>2, <2>1
<1>5. EntriesPart'
  <2>1. LogsUpTo(Output', spec_vars', Len(Output')) /\ CallsUpTo(Output', fuzz_new_vars', Len(Output'))
    BY <1>1, <1>2
  <2>2. call' \in 1..Len(fuzz_new_vars') + 1 /\ tfv' \in Nat \ {0}
    BY <1>1, <1>4
  <2> QED
    BY <2>1, <2>2 DEF EntriesPart
<1>6. BeforePart' /\ LoggedPart'
  BY <1>1 DEF BeforePart, LoggedPart, Done
<1> QED
  BY <1>1, <1>2, <1>3, <1>5, <1>6 DEF LoggedInv

(* The entry expanded next, as the state has it.                           *)
Entered(a, e) ==
  /\ a = At(fuzz_new_vars, call)
  /\ a \in 0..Len(Output) /\ e \in 1..Len(Output) /\ a < e
  /\ \A k \in a + 1..e - 1 : ~Asks(Output[k])
  /\ fuzz_new_vars[call].base_stmt = e /\ fuzz_new_vars[call].tag = Output[e].kind
  /\ Asks(Output[e])
  /\ At(fuzz_new_vars, call + 1) = e

LEMMA ExpandingEntry ==
  ASSUME LoggedInv, NEW tag, Expanding(tag)
  PROVE  \E a, e : Entered(a, e) /\ Output[e].kind = tag
<1> DEFINE a == At(fuzz_new_vars, call)
           e == fuzz_new_vars[call].base_stmt
<1>1. CallsUpTo(Output, fuzz_new_vars, Len(Output)) /\ call \in 1..Len(fuzz_new_vars)
      /\ fuzz_new_vars[call].tag = tag
  <2>1. /\ CallsUpTo(Output, fuzz_new_vars, Len(Output)) /\ call \in DOMAIN fuzz_new_vars
        /\ fuzz_new_vars[call].tag = tag
    BY DEF Expanding, LoggedInv, EntriesPart
  <2>2. DOMAIN fuzz_new_vars = 1..Len(fuzz_new_vars)
    BY <2>1 DEF CallsUpTo
  <2> QED
    BY <2>1, <2>2
<1>2. /\ a \in 0..Len(Output) /\ e \in 1..Len(Output) /\ a < e
      /\ fuzz_new_vars[call].tag = Output[e].kind /\ Asks(Output[e])
      /\ \A k \in a + 1..e - 1 : ~Asks(Output[k])
      /\ At(fuzz_new_vars, call + 1) = e
  BY <1>1, NextEntry
<1>3. Entered(a, e)
  BY <1>2 DEF Entered
<1> QED
  BY <1>1, <1>2, <1>3

(* The statement looked up is the entry's.                                 *)
LEMMA StatementFound ==
  ASSUME LoggedInv, pc = "expand", NEW a, NEW e, Entered(a, e),
         NEW k \in tfv..Len(spec_vars), spec_vars[k].base_stmt = fuzz_new_vars[call].base_stmt
  PROVE  k = e
<1>1. LogsUpTo(Output, spec_vars, Len(Output)) /\ tfv \in Nat \ {0}
  BY DEF LoggedInv, EntriesPart
<1>2. Len(spec_vars) = Len(Output) /\ Len(Output) \in Nat
  BY <1>1 DEF LogsUpTo
<1>3. k \in 1..Len(Output)
  BY <1>1, <1>2
<1>4. LoggedAt(Output, k, spec_vars[k])
  BY <1>1, <1>3 DEF LogsUpTo
<1> QED
  BY <1>4 DEF LoggedAt, Entered

LEMMA ExpandingLogged ==
  ASSUME LoggedInv, NEW tag, Expanding(tag), tfv' \in Nat \ {0}
  PROVE  LoggedInv'
<1>1. /\ pc = "expand" /\ pc' = "expand" /\ Output' = Output /\ call' = call + 1
      /\ UNCHANGED <<spec_vars, fuzz_new_vars>> /\ call \in DOMAIN fuzz_new_vars
  BY DEF Expanding, dup_vars, Output
<1>2. /\ LogsUpTo(Output, spec_vars, Len(Output))
      /\ CallsUpTo(Output, fuzz_new_vars, Len(Output))
      /\ call \in 1..Len(fuzz_new_vars) + 1
  BY <1>1 DEF LoggedInv, EntriesPart
<1>3. call' \in 1..Len(fuzz_new_vars) + 1
  <2>1. Len(fuzz_new_vars) \in Nat /\ DOMAIN fuzz_new_vars = 1..Len(fuzz_new_vars)
    BY <1>2 DEF CallsUpTo
  <2> QED
    BY <1>1, <2>1
<1>4. EntriesPart'
  BY <1>1, <1>2, <1>3 DEF EntriesPart
<1>5. BeforePart' /\ LoggedPart'
  BY <1>1 DEF BeforePart, LoggedPart, Done
<1> QED
  BY <1>4, <1>5 DEF LoggedInv

LEMMA LoggedInvInductive ==
  TemplateSpec => []LoggedInv
<1>1. TemplateInit => LoggedInv
  BY DEF TemplateInit, DupInit, LoggedInv, BeforePart, LoggedPart, EntriesPart
<1>2. LoggedInv /\ [TemplateNext]_template_vars => LoggedInv'
  <2> SUFFICES ASSUME LoggedInv, [TemplateNext]_template_vars PROVE LoggedInv'
    OBVIOUS
  <2>1. CASE Duplicate
    BY <2>1, DuplicateStepLogged
  <2>2. CASE LogMatch
    BY <2>2, LogMatchStep
  <2>3. CASE AllMatched
    BY <2>3, AllMatchedStep
  <2>4. CASE ExpandStart
    <3>1. Expanding("start") /\ tfv' \in Nat \ {0}
      BY <2>4 DEF ExpandStart, Expanding, LoggedInv, EntriesPart
    <3> QED
      BY <3>1, ExpandingLogged
  <2>5. CASE ExpandEnd
    <3>1. Expanding("end") /\ tfv' \in Nat \ {0}
      BY <2>5 DEF ExpandEnd
    <3> QED
      BY <3>1, ExpandingLogged
  <2>6. CASE ExpandNew
    <3>1. Expanding("plain") /\ pc = "expand"
      BY <2>6 DEF ExpandNew, Expanding
    <3>2. PICK k \in tfv..Len(spec_vars) :
            spec_vars[k].base_stmt = fuzz_new_vars[call].base_stmt /\ tfv' = k
      BY <2>6 DEF ExpandNew
    <3>3. PICK a, e : Entered(a, e)
      BY <3>1, ExpandingEntry
    <3>4. k = e
      BY <3>1, <3>2, <3>3, StatementFound
    <3>5. tfv' \in Nat \ {0}
      BY <3>2, <3>3, <3>4 DEF Entered
    <3> QED
      BY <3>1, <3>5, ExpandingLogged
  <2>7. CASE AllExpanded \/ ExpandMR \/ Finish
    <3>1. pc \in Done /\ pc' \in {"relations", "expanded"}
      BY <2>7 DEF AllExpanded, ExpandMR, Finish, dup_vars, Done
    <3> QED
      BY <3>1 DEF LoggedInv, BeforePart, LoggedPart, EntriesPart, Done
  <2>8. CASE UNCHANGED template_vars
    <3>1. UNCHANGED <<pc, in_template, spec_vars, fuzz_new_vars, call, tfv, curr_input_count,
                      offered>>
          /\ Output' = Output
      BY <2>8 DEF template_vars, dup_vars, new_vars, Output
    <3> QED
      BY <3>1 DEF LoggedInv, BeforePart, LoggedPart, EntriesPart
  <2> QED
    BY <2>1, <2>2, <2>3, <2>4, <2>5, <2>6, <2>7, <2>8 DEF TemplateNext
<1> QED
  BY <1>1, <1>2, PTL DEF TemplateSpec

(* What every step of the expansion leaves as it is.                       *)
LEMMA ExpandedBy ==
  ASSUME NEW tag, Expanding(tag), NEW a, NEW e, Entered(a, e),
         in_template' \in BOOLEAN, in_template' <=> OpenAfter(Output, e),
         Counted(Output, e, curr_input_count'), OfferedPart'
  PROVE  ExpandInv'
<1>1. /\ pc = "expand" /\ pc' = "expand" /\ Output' = Output /\ call' = call + 1
      /\ fuzz_new_vars' = fuzz_new_vars
  BY DEF Expanding, dup_vars, Output
<1>2. At(fuzz_new_vars', call') = e
  BY <1>1 DEF Entered
<1>3. ExpandPart'
  BY <1>1, <1>2 DEF ExpandPart
<1> QED
  BY <1>3 DEF ExpandInv

LEMMA ExpandStartStep ==
  ASSUME OneBlock, DupInv, CopyInv, LoggedInv, ExpandInv, ExpandStart
  PROVE  ExpandInv'
<1>1. Expanding("start") /\ pc \in Done /\ Output' = Output /\ offered' = offered
      /\ curr_input_count' = curr_input_count + 1 /\ in_template' = TRUE
  BY DEF ExpandStart, Expanding, Done, dup_vars, Output
<1>2. PICK a, e : Entered(a, e) /\ Output[e].kind = "start"
  BY <1>1, ExpandingEntry
<1>3. Counted(Output, a, curr_input_count)
  BY <1>1, <1>2 DEF ExpandInv, ExpandPart, Entered, Expanding
<1>4. Counted(Output, e, curr_input_count')
  BY <1>1, <1>2, <1>3, CountGoesOn DEF Entered
<1>5. OpenAfter(Output, e)
  <2>1. e \in Nat \ {0}
    BY <1>2 DEF Entered
  <2> QED
    BY <1>2, <2>1, OpenStep
<1>6. OfferedPart'
  BY <1>1 DEF ExpandInv, OfferedPart
<1> QED
  BY <1>1, <1>2, <1>4, <1>5, <1>6, ExpandedBy

(* The count is never set back: the last input's is one less.              *)
LEMMA ExpandEndStep ==
  ASSUME OneBlock, DupInv, CopyInv, LoggedInv, ExpandInv, ExpandEnd
  PROVE  ExpandInv'
<1>1. Expanding("end") /\ pc \in Done /\ Output' = Output /\ offered' = offered
      /\ curr_input_count' = ResetCountAt(curr_input_count) /\ in_template' = FALSE
  BY DEF ExpandEnd, Expanding, Done, dup_vars, Output
<1>2. PICK a, e : Entered(a, e) /\ Output[e].kind = "end"
  BY <1>1, ExpandingEntry
<1>3. Counted(Output, a, curr_input_count)
  BY <1>1, <1>2 DEF ExpandInv, ExpandPart, Entered, Expanding
<1>4. Counted(Output, e, curr_input_count) /\ curr_input_count # meta_input_fuzz_count
  BY <1>1, <1>2, <1>3, CountStays DEF Entered
<1>5. curr_input_count' = curr_input_count
  BY <1>1, <1>4 DEF ResetCountAt
<1>6. ~OpenAfter(Output, e)
  <2>1. e \in Nat \ {0}
    BY <1>2 DEF Entered
  <2> QED
    BY <1>2, <2>1, OpenStep
<1>7. OfferedPart'
  BY <1>1 DEF ExpandInv, OfferedPart
<1> QED
  BY <1>1, <1>2, <1>4, <1>5, <1>6, <1>7, ExpandedBy

LEMMA ExpandNewStep ==
  ASSUME OneBlock, OneVar, DupInv, CopyInv, LoggedInv, ExpandInv, ExpandNew
  PROVE  ExpandInv'
<1>1. Expanding("plain") /\ pc = "expand" /\ pc \in Done /\ Output' = Output
      /\ curr_input_count' = curr_input_count /\ in_template' = in_template
  BY DEF ExpandNew, Expanding, Done, dup_vars, Output
<1>2. PICK a, e : Entered(a, e) /\ Output[e].kind = "plain"
  BY <1>1, ExpandingEntry
<1>3. /\ a \in 0..Len(Output) /\ e \in 1..Len(Output) /\ a < e
      /\ \A k \in a + 1..e - 1 : ~Asks(Output[k])
  BY <1>2 DEF Entered
<1>4. /\ Counted(Output, a, curr_input_count)
      /\ LogsUpTo(Output, spec_vars, Len(Output))
      /\ in_template \in BOOLEAN /\ (in_template <=> OpenAfter(Output, a))
  BY <1>1, <1>2 DEF ExpandInv, ExpandPart, LoggedInv, EntriesPart, Entered
<1>5. Counted(Output, e, curr_input_count)
  BY <1>1, <1>2, <1>3, <1>4, CountStays
<1>6. OpenAfter(Output, e) <=> OpenAfter(Output, a)
  <2>1. e \in Nat \ {0}
    BY <1>3
  <2>2. OpenAfter(Output, e) <=> OpenAfter(Output, e - 1)
    BY <1>2, <2>1, OpenStep
  <2> QED
    BY <1>1, <1>3, <2>2, PlacesPassed
<1> DEFINE objs(k) == getDuplicateDeclVars(SubSeq(spec_vars, 1, k - 1),
                                           curr_input_count, in_template)
<1>7. objs(e) = OwnOf(Output, e)
  BY <1>1, <1>2, <1>3, <1>4, OffersOwn
<1>8. PICK k \in tfv..Len(spec_vars) :
        /\ spec_vars[k].base_stmt = fuzz_new_vars[call].base_stmt
        /\ offered' = Append(offered, [stmt |-> k, objs |-> objs(k)])
  BY DEF ExpandNew
<1> HIDE DEF objs
<1>9. k = e
  BY <1>1, <1>2, <1>8, StatementFound
<1> DEFINE x == [stmt |-> e, objs |-> objs(e)]
<1>10. Owned(Output, <<x>>)
  <2>1. "stmt" \in DOMAIN x /\ x.objs = OwnOf(Output, x.stmt)
    BY <1>7
  <2> HIDE DEF x
  <2>2. \A j \in DOMAIN <<x>> : <<x>>[j] = x
    OBVIOUS
  <2> QED
    BY <2>1, <2>2 DEF Owned
<1>11. offered' = Append(offered, x)
  BY <1>8, <1>9
<1> HIDE DEF x
<1>12. OfferedPart'
  BY <1>1, <1>10, <1>11, OwnedLonger DEF ExpandInv, OfferedPart
<1> QED
  BY <1>1, <1>2, <1>4, <1>5, <1>6, <1>12, ExpandedBy

LEMMA ExpandMRStep ==
  ASSUME ExpandInv, ExpandMR
  PROVE  ExpandInv'
<1>1. pc = "relations" /\ pc' = "relations" /\ Output' = Output
  BY DEF ExpandMR, dup_vars, Output
<1> DEFINE x == [mr |-> mr_fuzz_calls[call], objs |-> Objects(mr_fuzz_calls[call])]
<1>2. offered' = Append(offered, x)
  BY DEF ExpandMR
<1>3. Owned(Output, <<x>>)
  <2>1. "stmt" \notin DOMAIN x /\ x.objs = MRs[x.mr].params
    BY DEF Objects
  <2> HIDE DEF x
  <2>2. \A k \in DOMAIN <<x>> : <<x>>[k] = x
    OBVIOUS
  <2> QED
    BY <2>1, <2>2 DEF Owned
<1> HIDE DEF x
<1>4. OfferedPart'
  BY <1>1, <1>2, <1>3, OwnedLonger DEF ExpandInv, OfferedPart
<1> QED
  BY <1>1, <1>4 DEF ExpandInv, ExpandPart

LEMMA ExpandInvInductive ==
  ASSUME OneBlock, OneVar
  PROVE  TemplateSpec => []ExpandInv
<1>0. ASSUME NEW f, f = <<>>
      PROVE  Len(f) \in Nat /\ f = [k \in 1..Len(f) |-> f[k]] /\ \A o : Owned(o, f)
  BY <1>0 DEF Owned
<1>1. TemplateInit => ExpandInv
  <2> SUFFICES ASSUME TemplateInit PROVE ExpandInv
    OBVIOUS
  <2>1. pc = "match" /\ offered = <<>>
    BY DEF TemplateInit, DupInit
  <2> QED
    BY <1>0, <2>1 DEF ExpandInv, ExpandPart, OfferedPart
<1>2. DupInv /\ CopyInv /\ LoggedInv /\ ExpandInv /\ [TemplateNext]_template_vars => ExpandInv'
  <2> SUFFICES ASSUME DupInv, CopyInv, LoggedInv, ExpandInv, [TemplateNext]_template_vars PROVE ExpandInv'
    OBVIOUS
  <2>1. CASE Duplicate
    <3>1. pc' \notin {"expand", "relations", "expanded"} /\ offered' = <<>>
      BY <2>1, DuplicateLeaves
    <3> QED
      BY <1>0, <3>1 DEF ExpandInv, ExpandPart, OfferedPart
  <2>2. CASE LogMatch
    <3>1. pc' # "expand" /\ offered' = offered /\ Output' = Output
      BY <2>2 DEF LogMatch, dup_vars, Output
    <3> QED
      BY <3>1 DEF ExpandInv, ExpandPart, OfferedPart
  <2>3. CASE AllMatched
    <3>1. /\ At(fuzz_new_vars', call') = 0 /\ curr_input_count' = -1 /\ in_template' = FALSE
          /\ offered' = offered /\ Output' = Output
      BY <2>3, AllMatchedStep DEF AllMatched, Output
    <3>2. \A o : ~OpenAfter(o, 0) /\ Counted(o, 0, -1)
      <4>1. 1..0 = {} /\ -1 \in Int
        OBVIOUS
      <4> QED
        BY <4>1, NothingOpenAtFirst DEF Counted
    <3> QED
      BY <3>1, <3>2 DEF ExpandInv, ExpandPart, OfferedPart
  <2>4. CASE ExpandStart
    BY <2>4, ExpandStartStep
  <2>5. CASE ExpandEnd
    BY <2>5, ExpandEndStep
  <2>6. CASE ExpandNew
    BY <2>6, ExpandNewStep
  <2>7. CASE AllExpanded
    <3>1. pc' = "relations" /\ Output' = Output /\ offered' = offered
      BY <2>7 DEF AllExpanded, Output
    <3> QED
      BY <3>1 DEF ExpandInv, ExpandPart, OfferedPart
  <2>8. CASE ExpandMR
    BY <2>8, ExpandMRStep
  <2>9. CASE Finish
    <3>1. pc' = "expanded" /\ Output' = Output /\ offered' = offered
      BY <2>9 DEF Finish, Output, new_vars
    <3> QED
      BY <3>1 DEF ExpandInv, ExpandPart, OfferedPart
  <2>10. CASE UNCHANGED template_vars
    <3>1. UNCHANGED <<pc, in_template, fuzz_new_vars, call, curr_input_count, offered>>
          /\ Output' = Output
      BY <2>10 DEF template_vars, dup_vars, new_vars, Output
    <3> QED
      BY <3>1 DEF ExpandInv, ExpandPart, OfferedPart
  <2> QED
    BY <2>1, <2>2, <2>3, <2>4, <2>5, <2>6, <2>7, <2>8, <2>9, <2>10 DEF TemplateNext
<1> QED
  BY <1>1, <1>2, CopyInvInductive, LoggedInvInductive, PTL DEF TemplateSpec

(* In a program with one block, of statements that declare one variable    *)
(* each, the code generated for a fuzz_new may use the objects of its own  *)
(* input and of none, those declared before it, and in a relation the      *)
(* parameters (expandLoggedNewVars, getDuplicateDeclVars and               *)
(* expandLoggedNewMRVars).                                                 *)
THEOREM ObjectsOfOwnInput ==
  ASSUME OneBlock, OneVar
  PROVE  TemplateSpec => []OfferedOwn
<1>1. ExpandInv => OfferedOwn
  <2> SUFFICES ASSUME Owned(Output, offered) PROVE OfferedOwn
    BY DEF ExpandInv, OfferedPart
  <2> QED
    BY DEF Owned, OfferedOwn, OwnOf, Mine, InMain
<1> QED
  BY <1>1, ExpandInvInductive, PTL


-----------------------------------------------------------------------------
(***************************************************************************)
(* The types of the variables, in a program with any number of blocks.     *)
(***************************************************************************)

(* Until the tool gives up, what the loops know types the text.            *)
Shaped ==
  /\ Logged \subseteq DOMAIN main
  /\ Len(Output) \in Nat

ShapedPart == pc # "aborted" => Shaped

DupTypes ==
  /\ in_fuzz_template \in BOOLEAN
  /\ fuzz_template_bounds \in [first : 0..Len(main), second : 0..Len(main)]
  /\ input_template_var_decls \subseteq Vars
  /\ DOMAIN input_template_copies = InputIds
  /\ Shaped

NewTypes ==
  /\ in_template \in BOOLEAN
  /\ mr_vars \subseteq Vars

(* A count goes up at most once for each entry expanded.                   *)
CountTypes ==
  /\ pc \notin Done =>
       spec_vars = <<>> /\ fuzz_new_vars = <<>> /\ call = 1 /\ tfv = 1 /\ curr_input_count = -1
  /\ pc = "duplicated" =>
       /\ call = 1 /\ tfv = 1 /\ curr_input_count = -1
       /\ spec_vars = [k \in 1..Len(spec_vars) |-> spec_vars[k]]
       /\ Len(spec_vars) \in 0..Len(Output)
       /\ \E T : fuzz_new_vars \in Seq(T)
       /\ Len(fuzz_new_vars) <= Len(spec_vars)
  /\ pc = "expand" =>
       /\ Len(spec_vars) = Len(Output)
       /\ Len(fuzz_new_vars) \in 0..Len(Output) /\ DOMAIN fuzz_new_vars = 1..Len(fuzz_new_vars)
       /\ call \in 1..Len(fuzz_new_vars) + 1
       /\ curr_input_count \in -1..call - 2
  /\ pc \in {"expand", "relations", "expanded"} =>
       tfv \in 1..Len(Output) + 1 /\ curr_input_count \in -1..Len(Output)

TypedInv == DupTypes /\ NewTypes /\ CountTypes

LEMMA ShapedUntilAborted ==
  DupInv /\ CopyInv => ShapedPart
<1> SUFFICES ASSUME DupInv, CopyInv, pc # "aborted" PROVE Shaped
  BY DEF ShapedPart
<1>1. main \in Mains /\ Len(main) \in Nat /\ DOMAIN main = 1..Len(main)
  BY BodiesOfMain DEF DupInv, BodyPart
<1>2. Logged \subseteq DOMAIN main
  <2>1. CASE pc = "match"
    BY <2>1 DEF DupInv, MatchPart, Logged
  <2>2. CASE pc = "log"
    BY <1>1, <2>2 DEF DupInv, LogPart
  <2>3. CASE pc \in {"visit", "copy", "gets", "duplicated", "expand", "relations", "expanded"}
    BY <1>1, <2>3 DEF CopyInv, SpotsPart
  <2> QED
    BY <2>1, <2>2, <2>3 DEF DupInv, BodyPart
<1>3. Len(Output) \in Nat
  <2> DEFINE T == {Verbatim(s) : s \in 1..Len(main)} \cup {Kept(s) : s \in 1..Len(main)} \cup Copied
  <2>1. \A s \in 1..Len(main) : Verbatim(s) \in T /\ Kept(s) \in T
    OBVIOUS
  <2>2. AllOfThem \in Seq(T)
    <3>1. AllOfThem \in Seq(Copied) /\ Copied \subseteq T
      BY CopiesTyped DEF CopyInv
    <3> HIDE DEF T
    <3> QED
      BY <3>1
  <2> HIDE DEF T
  <2>3. <<>> \in Seq(T) /\ \A s \in 1..Len(main) : <<Verbatim(s)>> \in Seq(T) /\ <<Kept(s)>> \in Seq(T)
    BY <2>1
  <2>4. text \in Seq(Seq(T))
    <3>1. CASE pc \in {"match", "log", "visit"}
      <4>1. text = [s \in 1..Len(main) |-> <<Verbatim(s)>>]
        BY <3>1 DEF CopyInv, TextPart
      <4> QED
        BY <1>1, <2>3, <4>1
    <3>2. CASE pc = "copy"
      <4>1. text = [s \in 1..Len(main) |->
                      IF \E k \in 1..next - 1 : BaseOf(k) = s THEN <<>> ELSE <<Verbatim(s)>>]
        BY <3>2 DEF CopyInv, TextPart
      <4>2. text \in [1..Len(main) -> Seq(T)]
        BY <2>3, <4>1
      <4> QED
        BY <1>1, <4>2
    <3>3. CASE pc = "gets"
      <4>1. text = [s \in 1..Len(main) |-> TextWhen(s)]
        BY <3>3 DEF CopyInv, TextPart
      <4>2. \A s \in 1..Len(main) : TextWhen(s) \in Seq(T)
        BY <2>2, <2>3 DEF TextWhen
      <4> QED
        BY <1>1, <4>1, <4>2
    <3>4. CASE pc \in Done
      <4>1. text = [s \in 1..Len(main) |-> FinalText(s)]
        BY <3>4 DEF CopyInv, TextPart, Done
      <4>2. \A s \in 1..Len(main) : FinalText(s) \in Seq(T)
        BY <2>2, <2>3 DEF FinalText, Kept
      <4> QED
        BY <1>1, <4>1, <4>2
    <3> QED
      BY <3>1, <3>2, <3>3, <3>4 DEF DupInv, BodyPart, Done
  <2>5. Output \in Seq(T)
    BY <2>4, FlattenSeqLaidOut DEF Output
  <2> QED
    BY <2>5
<1> QED
  BY <1>2, <1>3 DEF Shaped

LEMMA ShapedStays ==
  ASSUME Shaped, UNCHANGED <<main, stmt_rewrite_map, text>>
  PROVE  Shaped'
BY LoggedKept DEF Shaped, Output

LEMMA DupTypesStep ==
  ASSUME DupInv, DupTypes, ShapedPart', DupNext
  PROVE  DupTypes'
<1>1. main \in Mains /\ Len(main) \in Nat /\ DOMAIN main = 1..Len(main) /\ main' = main
      /\ meta_input_fuzz_count' = meta_input_fuzz_count /\ InputIds' = InputIds
  <2>1. main' = main /\ meta_input_fuzz_count' = meta_input_fuzz_count
    BY DEF DupNext, MatchLocations, LogChild, AllLogged, VisitChild, AllVisited,
           DuplicateStmt, InsertCopies, ReplaceGets, DupAbort
  <2> QED
    BY <2>1, BodiesOfMain DEF DupInv, BodyPart, InputIds
<1>2. Shaped'
  <2>1. DupAbort => UNCHANGED <<main, stmt_rewrite_map, text>>
    BY DEF DupAbort, locals
  <2>2. ~DupAbort => pc' # "aborted"
    BY DEF DupInv, BodyPart, DupNext, MatchLocations, LogChild, AllLogged, VisitChild, AllVisited,
           DuplicateStmt, InsertCopies, ReplaceGets
  <2> QED
    BY <2>1, <2>2, ShapedStays DEF DupTypes, ShapedPart
<1>3. ASSUME UNCHANGED <<in_fuzz_template, fuzz_template_bounds, input_template_var_decls,
                         input_template_copies>>
      PROVE  DupTypes'
  BY <1>1, <1>2, <1>3 DEF DupTypes
<1>4. CASE MatchLocations
  <2>1. fuzz_template_bounds' \in [first : 0..Len(main), second : 0..Len(main)]
    BY <1>1, <1>4, LastOfKind DEF MatchLocations
  <2> QED
    BY <1>1, <1>2, <1>4, <2>1 DEF MatchLocations, DupTypes
<1>5. CASE LogChild
  <2>1. in_fuzz_template' \in BOOLEAN
    BY <1>5 DEF LogChild, Flag, DupTypes
  <2> QED
    BY <1>1, <1>2, <1>5, <2>1 DEF LogChild, DupTypes
<1>6. CASE AllLogged
  BY <1>1, <1>2, <1>6 DEF AllLogged, DupTypes
<1>7. CASE VisitChild
  <2>1. in_fuzz_template' \in BOOLEAN
    BY <1>7 DEF VisitChild, Flag, DupTypes
  <2>2. main[next].decl \subseteq Vars
    <3>1. next \in DOMAIN main
      BY <1>7 DEF VisitChild
    <3>2. main[next] \in MainStmt
      BY <1>1, <3>1, BodiesOfMain
    <3> QED
      BY <3>2 DEF MainStmt
  <2>3. input_template_var_decls' \subseteq Vars
    BY <1>7, <2>2 DEF VisitChild, DeclsWith, DupTypes
  <2> QED
    BY <1>1, <1>2, <1>7, <2>1, <2>3 DEF VisitChild, DupTypes
<1>8. CASE DuplicateStmt
  <2>1. DOMAIN input_template_copies' = InputIds
    BY <1>8 DEF DuplicateStmt
  <2> QED
    BY <1>1, <1>2, <1>8, <2>1 DEF DuplicateStmt, DupTypes
<1>9. CASE AllVisited \/ InsertCopies \/ ReplaceGets \/ DupAbort
  BY <1>3, <1>9 DEF AllVisited, InsertCopies, ReplaceGets, DupAbort, locals
<1> QED
  BY <1>4, <1>5, <1>6, <1>7, <1>8, <1>9 DEF DupNext

(* The passes that follow leave what types the duplicator's variables.     *)
LEMMA DupTypesStay ==
  ASSUME DupTypes,
         UNCHANGED <<main, meta_input_fuzz_count, in_fuzz_template, fuzz_template_bounds,
                     stmt_rewrite_map, input_template_var_decls, input_template_copies, text>>
  PROVE  DupTypes'
<1>1. InputIds' = InputIds /\ Shaped'
  BY ShapedStays DEF InputIds, DupTypes
<1> QED
  BY <1>1 DEF DupTypes


(* The calls of relations are each in a relation.                          *)
LEMMA RelationsTyped ==
  /\ DOMAIN MRs = 1..Len(MRs) /\ Len(MRs) \in Nat
  /\ \A m \in DOMAIN MRs : MRs[m].news \in Nat /\ MRs[m].params \subseteq Vars
<1> DEFINE R == [params : SUBSET Vars, news : Nat]
<1>1. MRs \in Seq(R)
  BY FuzzNewAssumption
<1>2. \A r \in R : r.news \in Nat /\ r.params \subseteq Vars
  OBVIOUS
<1> HIDE DEF R
<1> QED
  BY <1>1, <1>2

LEMMA RelationsCalled ==
  \A c \in DOMAIN mr_fuzz_calls : mr_fuzz_calls[c] \in DOMAIN MRs
<1> DEFINE calls == [m \in DOMAIN MRs |-> [c \in 1..MRs[m].news |-> m]]
<1>1. /\ DOMAIN MRs = 1..Len(MRs) /\ Len(MRs) \in Nat
      /\ \A m \in DOMAIN MRs : MRs[m].news \in Nat
  BY RelationsTyped
<1>2. ASSUME NEW m \in DOMAIN MRs PROVE [c \in 1..MRs[m].news |-> m] \in Seq(DOMAIN MRs)
  BY <1>1
<1>3. calls \in Seq(Seq(DOMAIN MRs))
  BY <1>1, <1>2
<1> HIDE DEF calls
<1>4. FlattenSeq(calls) \in Seq(DOMAIN MRs)
  BY <1>3, FlattenSeqLaidOut
<1> QED
  BY <1>4 DEF mr_fuzz_calls, calls

LEMMA NewTypesStep ==
  ASSUME NewTypes, [TemplateNext]_template_vars
  PROVE  NewTypes'
<1>1. CASE Duplicate
  BY <1>1 DEF Duplicate, new_vars, NewTypes
<1>2. CASE LogMatch
  BY <1>2 DEF LogMatch, NewTypes
<1>3. CASE AllMatched
  BY <1>3 DEF AllMatched, NewTypes
<1>4. CASE ExpandStart
  BY <1>4 DEF ExpandStart, Expanding, NewTypes
<1>5. CASE ExpandEnd
  BY <1>5 DEF ExpandEnd, Expanding, NewTypes
<1>6. CASE ExpandNew
  BY <1>6 DEF ExpandNew, Expanding, NewTypes
<1>7. CASE AllExpanded
  BY <1>7 DEF AllExpanded, NewTypes
<1>8. CASE ExpandMR
  <2>1. PICK m \in DOMAIN MRs : mr_vars' = MRs[m].params
    BY <1>8, RelationsCalled DEF ExpandMR, Objects
  <2>2. MRs[m].params \subseteq Vars
    BY RelationsTyped
  <2> QED
    BY <1>8, <2>1, <2>2 DEF ExpandMR, NewTypes
<1>9. CASE Finish
  BY <1>9 DEF Finish, new_vars, NewTypes
<1>10. CASE UNCHANGED template_vars
  BY <1>10 DEF template_vars, new_vars, NewTypes
<1> QED
  BY <1>1, <1>2, <1>3, <1>4, <1>5, <1>6, <1>7, <1>8, <1>9, <1>10 DEF TemplateNext

LEMMA CountTypesStep ==
  ASSUME DupTypes, CountTypes, LogMatch \/ AllMatched \/ ExpandStart \/ ExpandEnd \/ ExpandNew
  PROVE  CountTypes'
<1>1. Output' = Output /\ Len(Output) \in Nat
  BY DEF LogMatch, AllMatched, ExpandStart, ExpandEnd, ExpandNew, Expanding, dup_vars, Output,
         DupTypes, Shaped
<1>2. CASE LogMatch
  <2> DEFINE n == Len(spec_vars)
             new == NewCalls(n + 1)
  <2>1. /\ pc = "duplicated" /\ pc' = pc /\ UNCHANGED <<call, tfv, curr_input_count>>
        /\ n < Len(Output) /\ fuzz_new_vars' = fuzz_new_vars \o new
        /\ \E x : spec_vars' = Append(spec_vars, x)
    BY <1>2 DEF LogMatch, dup_vars
  <2>2. /\ call = 1 /\ tfv = 1 /\ curr_input_count = -1
        /\ spec_vars = [k \in 1..n |-> spec_vars[k]]
        /\ n \in 0..Len(Output)
        /\ \E T : fuzz_new_vars \in Seq(T)
        /\ Len(fuzz_new_vars) <= n
    BY <2>1 DEF CountTypes
  <2> DEFINE y == [tag |-> Output[n + 1].kind, base_stmt |-> n + 1]
  <2>3. new = <<y>> \/ new = <<>>
    BY DEF NewCalls
  <2> HIDE DEF n, new, y
  <2>4. new \in Seq({y}) /\ Len(new) <= 1 /\ Len(new) \in Nat
    <3>1. CASE new = <<y>>
      BY <3>1
    <3>2. CASE new = <<>>
      BY <3>2
    <3> QED
      BY <2>3, <3>1, <3>2
  <2>5. PICK T : fuzz_new_vars \in Seq(T)
    BY <2>2
  <2> DEFINE U == T \cup {y}
  <2>6. fuzz_new_vars \in Seq(U) /\ new \in Seq(U)
    BY <2>4, <2>5
  <2> HIDE DEF U
  <2>7. fuzz_new_vars' \in Seq(U) /\ Len(fuzz_new_vars') = Len(fuzz_new_vars) + Len(new)
        /\ Len(fuzz_new_vars) \in Nat
    BY <2>1, <2>6
  <2>8. PICK x : spec_vars' = Append(spec_vars, x)
    BY <2>1
  <2>9. spec_vars' = [k \in 1..n + 1 |-> spec_vars'[k]] /\ Len(spec_vars') = n + 1
    <3>1. n \in Nat
      BY <1>1, <2>2
    <3> QED
      BY <2>2, <2>8, <3>1, LongerByOne
  <2>10. Len(fuzz_new_vars') <= Len(spec_vars') /\ Len(spec_vars') \in 0..Len(Output)
    BY <1>1, <2>1, <2>2, <2>4, <2>7, <2>9
  <2>11. spec_vars' = [k \in 1..Len(spec_vars') |-> spec_vars'[k]]
    BY <2>9
  <2> QED
    BY <1>1, <2>1, <2>2, <2>7, <2>10, <2>11 DEF CountTypes, Done
<1>3. CASE AllMatched
  <2>1. /\ pc = "duplicated" /\ pc' = "expand" /\ Len(spec_vars) = Len(Output)
        /\ UNCHANGED <<spec_vars, fuzz_new_vars, call, tfv, curr_input_count>>
    BY <1>3 DEF AllMatched
  <2>2. /\ call = 1 /\ tfv = 1 /\ curr_input_count = -1
        /\ \E T : fuzz_new_vars \in Seq(T)
        /\ Len(fuzz_new_vars) <= Len(Output)
    BY <2>1 DEF CountTypes
  <2>3. Len(fuzz_new_vars) \in 0..Len(Output) /\ DOMAIN fuzz_new_vars = 1..Len(fuzz_new_vars)
    BY <1>1, <2>2
  <2>4. /\ call \in 1..Len(fuzz_new_vars) + 1 /\ curr_input_count \in -1..call - 2
        /\ tfv \in 1..Len(Output) + 1 /\ curr_input_count \in -1..Len(Output)
    BY <1>1, <2>2, <2>3
  <2> QED
    BY <1>1, <2>1, <2>3, <2>4 DEF CountTypes, Done
<1>4. CASE ExpandStart \/ ExpandEnd \/ ExpandNew
  <2>1. /\ pc = "expand" /\ pc' = pc /\ call' = call + 1 /\ call \in DOMAIN fuzz_new_vars
        /\ UNCHANGED <<spec_vars, fuzz_new_vars>>
    BY <1>4 DEF ExpandStart, ExpandEnd, ExpandNew, Expanding, dup_vars
  <2>2. /\ Len(spec_vars) = Len(Output)
        /\ Len(fuzz_new_vars) \in 0..Len(Output) /\ DOMAIN fuzz_new_vars = 1..Len(fuzz_new_vars)
        /\ call \in 1..Len(fuzz_new_vars) + 1
        /\ curr_input_count \in -1..call - 2
        /\ tfv \in 1..Len(Output) + 1
    BY <2>1 DEF CountTypes
  <2>3. tfv' = tfv \/ tfv' = 1 \/ tfv' \in tfv..Len(Output)
    BY <1>4, <2>2 DEF ExpandStart, ExpandEnd, ExpandNew
  <2>4. curr_input_count' \in {curr_input_count, curr_input_count + 1, -1}
    BY <1>4 DEF ExpandStart, ExpandEnd, ExpandNew, ResetCountAt
  <2>5. call' \in 1..Len(fuzz_new_vars) + 1 /\ call' - 2 <= Len(Output)
    BY <1>1, <2>1, <2>2
  <2>6. tfv' \in 1..Len(Output) + 1
    BY <1>1, <2>2, <2>3
  <2>7. curr_input_count' \in -1..call' - 2
    BY <2>1, <2>2, <2>4
  <2>8. curr_input_count' \in -1..Len(Output)
    BY <1>1, <2>1, <2>2, <2>5, <2>7
  <2> QED
    BY <1>1, <2>1, <2>2, <2>5, <2>6, <2>7, <2>8 DEF CountTypes, Done
<1> QED
  BY <1>2, <1>3, <1>4

(* The variables of the two passes keep their types, whatever the program  *)
(* is: the count of inputs that expandLoggedNewVars keeps and the place at *)
(* which it searches never exceed what there is of the rewritten main.     *)
THEOREM TemplateTypes ==
  TemplateSpec => []TemplateTypeOK
<1>1. TemplateInit => TypedInv
  <2> SUFFICES ASSUME TemplateInit PROVE TypedInv
    OBVIOUS
  <2>1. /\ main \in Mains /\ Len(main) \in Nat /\ DOMAIN main = 1..Len(main) /\ pc = "match"
        /\ meta_input_fuzz_count \in Nat
    BY BodiesOfMain, TemplateAssumption DEF TemplateInit, DupInit
  <2>2. Shaped
    BY <2>1, DupInit_DupInv, DupInit_CopyInv, ShapedUntilAborted DEF TemplateInit, ShapedPart
  <2>3. fuzz_template_bounds \in [first : 0..Len(main), second : 0..Len(main)]
    BY <2>1 DEF TemplateInit, DupInit
  <2>4. DupTypes
    BY <2>2, <2>3 DEF TemplateInit, DupInit, DupTypes
  <2>5. NewTypes /\ CountTypes
    BY <2>1 DEF TemplateInit, NewTypes, CountTypes
  <2> QED
    BY <2>4, <2>5 DEF TypedInv
<1>2. DupInv /\ ShapedPart' /\ TypedInv /\ [TemplateNext]_template_vars => TypedInv'
  <2> SUFFICES ASSUME DupInv, ShapedPart', TypedInv, [TemplateNext]_template_vars PROVE TypedInv'
    OBVIOUS
  <2>1. DupTypes /\ NewTypes /\ CountTypes /\ NewTypes'
    BY NewTypesStep DEF TypedInv
  <2>2. CASE Duplicate
    <3>1. DupTypes'
      BY <2>1, <2>2, DupTypesStep DEF Duplicate
    <3>2. /\ pc \notin Done /\ pc' \notin {"expand", "relations", "expanded"}
          /\ UNCHANGED <<spec_vars, fuzz_new_vars, call, tfv, curr_input_count>>
      BY <2>2 DEF Duplicate, DupNext, MatchLocations, LogChild, AllLogged, VisitChild, AllVisited,
             DuplicateStmt, InsertCopies, ReplaceGets, DupAbort, Done, new_vars
    <3>3. /\ spec_vars' = <<>> /\ fuzz_new_vars' = <<>> /\ call' = 1 /\ tfv' = 1
          /\ curr_input_count' = -1
      BY <2>1, <3>2 DEF CountTypes
    <3>4. 0 \in 0..Len(Output') /\ <<>> \in Seq({}) /\ Len(<<>>) = 0
          /\ <<>> = [k \in 1..0 |-> <<>>[k]]
      <4>1. Len(Output') \in Nat
        BY <3>1 DEF DupTypes, Shaped
      <4> QED
        BY <4>1
    <3>5. CountTypes'
      BY <3>2, <3>3, <3>4 DEF CountTypes, Done
    <3> QED
      BY <2>1, <3>1, <3>5 DEF TypedInv
  <2>3. CASE LogMatch \/ AllMatched \/ ExpandStart \/ ExpandEnd \/ ExpandNew
    <3>1. DupTypes'
      BY <2>1, <2>3, DupTypesStay DEF LogMatch, AllMatched, ExpandStart, ExpandEnd, ExpandNew,
                                      Expanding, dup_vars, locals
    <3> QED
      BY <2>1, <2>3, <3>1, CountTypesStep DEF TypedInv
  <2>4. CASE AllExpanded \/ ExpandMR \/ Finish
    <3>1. DupTypes'
      BY <2>1, <2>4, DupTypesStay DEF AllExpanded, ExpandMR, Finish, dup_vars, locals
    <3>2. /\ pc \in {"expand", "relations", "expanded"} /\ pc' \in {"relations", "expanded"}
          /\ UNCHANGED <<tfv, curr_input_count>> /\ Output' = Output
      BY <2>4 DEF AllExpanded, ExpandMR, Finish, dup_vars, new_vars, Output
    <3>3. CountTypes'
      BY <2>1, <3>2 DEF CountTypes, Done
    <3> QED
      BY <2>1, <3>1, <3>3 DEF TypedInv
  <2>5. CASE UNCHANGED template_vars
    <3>1. DupTypes'
      BY <2>1, <2>5, DupTypesStay DEF template_vars, dup_vars, locals
    <3>2. UNCHANGED <<pc, spec_vars, fuzz_new_vars, call, tfv, curr_input_count>> /\ Output' = Output
      BY <2>5 DEF template_vars, dup_vars, new_vars, Output
    <3>3. CountTypes'
      BY <2>1, <3>2 DEF CountTypes
    <3> QED
      BY <2>1, <3>1, <3>3 DEF TypedInv
  <2> QED
    BY <2>2, <2>3, <2>4, <2>5 DEF TemplateNext
<1>3. DupInv /\ TypedInv => TemplateTypeOK
  <2> SUFFICES ASSUME DupInv, TypedInv PROVE TemplateTypeOK
    OBVIOUS
  <2>1. Len(Output) \in Nat
    BY DEF TypedInv, DupTypes, Shaped
  <2>2. tfv \in 1..Len(Output) + 1 /\ curr_input_count \in -1..Len(Output)
    <3>1. CASE pc \in {"expand", "relations", "expanded"}
      BY <3>1 DEF TypedInv, CountTypes
    <3>2. CASE pc \notin {"expand", "relations", "expanded"}
      <4>1. tfv = 1 /\ curr_input_count = -1
        BY <3>2 DEF TypedInv, CountTypes, Done
      <4> QED
        BY <2>1, <4>1
    <3> QED
      BY <3>1, <3>2
  <2> QED
    BY <2>2 DEF TypedInv, DupTypes, NewTypes, Shaped, TemplateTypeOK, DupInv, BodyPart
<1> QED
  BY <1>1, <1>2, <1>3, CopyInvInductive, ShapedUntilAborted, PTL DEF TemplateSpec

-----------------------------------------------------------------------------
(***************************************************************************)
(* Every fuzz_new is expanded, in a program with any number of blocks.     *)
(***************************************************************************)

(* No statement asks for two objects: the matcher binds one call of each.  *)
OneNew == \A m \in Mains : \A s \in DOMAIN m : m[s].news <= 1

ForStmt(f, k) == "stmt" \in DOMAIN f[k]
AtStmt(f, p) == {k \in DOMAIN f : ForStmt(f, k) /\ f[k].stmt = p}

(* What has been offered at place p answers its call, if it has one.       *)
Answered(o, f, p) ==
  /\ o[p].news = 0 => AtStmt(f, p) = {}
  /\ o[p].news # 0 => \E k \in DOMAIN f : AtStmt(f, p) = {k}

(* Up to place a everything is answered, and nothing after it yet.         *)
AnsweredUpTo(o, f, a) ==
  /\ \A k \in DOMAIN f : ForStmt(f, k) /\ f[k].stmt \in 1..a
  /\ \A p \in 1..a : Answered(o, f, p)

(* After the first n, each is for a call of a relation, in order.          *)
ForCalls(f, n, c) ==
  /\ n \in Nat /\ Len(f) = n + c
  /\ \A k \in 1..n : ForStmt(f, k)
  /\ \A d \in 1..c : ~ForStmt(f, n + d) /\ f[n + d].mr = mr_fuzz_calls[d]

GrowsPart == Len(offered) \in Nat /\ offered = [k \in 1..Len(offered) |-> offered[k]]

MainPart ==
  pc = "expand" => AnsweredUpTo(Output, offered, At(fuzz_new_vars, call))

RelationsPart ==
  pc \in {"relations", "expanded"} =>
    /\ \A p \in 1..Len(Output) : Answered(Output, offered, p)
    /\ call \in 1..Len(mr_fuzz_calls) + 1
    /\ ForCalls(offered, Len(offered) - (call - 1), call - 1)
    /\ pc = "expanded" => call = Len(mr_fuzz_calls) + 1

(* The inductive invariant: which calls have been answered so far.         *)
AnswerInv ==
  /\ GrowsPart
  /\ MainPart
  /\ RelationsPart

(* A statement is rewritten with the calls and of the kind it had.         *)
LEMMA NewsOfOutput ==
  ASSUME OneNew, DupInv, CopyInv, pc \in Done
  PROVE  /\ Len(Output) \in Nat /\ DOMAIN Output = 1..Len(Output)
         /\ \A p \in 1..Len(Output) :
              /\ Output[p].news \in {0, 1}
              /\ Output[p].kind # "plain" => Output[p].news = 0
<1>1. /\ main \in Mains /\ Len(main) \in Nat /\ DOMAIN main = 1..Len(main)
      /\ text \in Seq(Seq(Written))
  BY FinalTextTyped
<1>2. Output \in Seq(Written)
  BY <1>1, FlattenSeqLaidOut DEF Output
<1>3. ASSUME NEW s \in 1..Len(main)
      PROVE  /\ main[s].news \in {0, 1}
             /\ main[s].kind # "plain" => main[s].news = 0
  <2>1. main[s] \in MainStmt /\ (main[s].kind # "plain" => main[s].news = 0)
    BY <1>1, BodiesOfMain
  <2>2. main[s].news \in Nat /\ main[s].news <= 1
    BY <1>1, <2>1, OneNew DEF OneNew, MainStmt
  <2> QED
    BY <2>1, <2>2
<1>4. ASSUME NEW w \in Written
      PROVE  \E s \in 1..Len(main) : w.news = main[s].news /\ w.kind = main[s].kind
  <2>1. CASE \E s \in 1..Len(main) : w = Kept(s)
    BY <2>1 DEF Kept, WithGets, Verbatim, Rewritten
  <2>2. CASE w \in Copied
    <3>1. PICK l \in Spots, i \in InputIds : w = CopyOf(stmt_rewrite_map[l], i)
      BY <2>2 DEF Copied
    <3>2. BaseOf(l) \in 1..Len(main)
      <4>1. BaseOf(l) \in Logged
        BY DEF Spots, BaseOf, Logged
      <4>2. Logged = {s \in 1..Len(main) : Inside(main, s)}
        BY DEF CopyInv, SpotsPart, Done
      <4> QED
        BY <4>1, <4>2
    <3>3. w.news = main[BaseOf(l)].news /\ w.kind = main[BaseOf(l)].kind
      BY <3>1 DEF CopyOf, Rewritten, BaseOf
    <3> QED
      BY <3>2, <3>3
  <2> QED
    BY <2>1, <2>2 DEF Written
<1>5. ASSUME NEW p \in 1..Len(Output)
      PROVE  Output[p].news \in {0, 1} /\ (Output[p].kind # "plain" => Output[p].news = 0)
  <2>1. Output[p] \in Written
    BY <1>2
  <2> QED
    BY <1>3, <1>4, <2>1
<1> QED
  BY <1>2, <1>5

(* Statements that ask for nothing need no answer.                         *)
LEMMA NothingToAnswer ==
  ASSUME NEW o, NEW f, NEW a \in Nat, NEW e \in Nat, a <= e, AnsweredUpTo(o, f, a),
         \A k \in a + 1..e : o[k].news = 0
  PROVE  AnsweredUpTo(o, f, e)
<1>1. \A k \in DOMAIN f : ForStmt(f, k) /\ f[k].stmt \in 1..a
  BY DEF AnsweredUpTo
<1>2. \A k \in DOMAIN f : ForStmt(f, k) /\ f[k].stmt \in 1..e
  <2>1. \A s \in 1..a : s \in 1..e
    OBVIOUS
  <2> QED
    BY <1>1, <2>1
<1>3. ASSUME NEW p \in 1..e PROVE Answered(o, f, p)
  <2>1. CASE p \in 1..a
    BY <2>1 DEF AnsweredUpTo
  <2>2. CASE p \notin 1..a
    <3>1. p \in a + 1..e
      BY <2>2
    <3>2. o[p].news = 0 /\ AtStmt(f, p) = {}
      BY <1>1, <2>2, <3>1 DEF AtStmt
    <3> QED
      BY <3>2 DEF Answered
  <2> QED
    BY <2>1, <2>2
<1> QED
  BY <1>2, <1>3 DEF AnsweredUpTo

(* One more offer leaves those made before.                                *)
LEMMA OneMoreOffer ==
  ASSUME NEW n \in Nat, NEW f, f = [k \in 1..n |-> f[k]], NEW x, NEW g, g = Append(f, x)
  PROVE  /\ DOMAIN f = 1..n /\ DOMAIN g = 1..n + 1 /\ Len(g) = n + 1 /\ g[n + 1] = x
         /\ \A k \in 1..n : g[k] = f[k]
         /\ g = [k \in 1..n + 1 |-> g[k]]
<1>1. g = [k \in 1..n + 1 |-> IF k = n + 1 THEN x ELSE f[k]]
  BY AppendToFunction
<1>2. /\ Len(g) = n + 1 /\ g = [k \in 1..n + 1 |-> g[k]]
  BY LongerByOne
<1>3. n + 1 \in 1..n + 1 /\ \A k \in 1..n : k \in 1..n + 1 /\ k # n + 1
  OBVIOUS
<1>4. DOMAIN f = 1..n
  OBVIOUS
<1> QED
  BY <1>1, <1>2, <1>3, <1>4

LEMMA LongerByOffer ==
  ASSUME Len(offered) \in Nat, offered = [k \in 1..Len(offered) |-> offered[k]],
         NEW x, offered' = Append(offered, x)
  PROVE  /\ Len(offered') = Len(offered) + 1 /\ offered'[Len(offered) + 1] = x
         /\ \A k \in 1..Len(offered) : offered'[k] = offered[k]
         /\ offered' = [k \in 1..Len(offered) + 1 |-> offered'[k]]
<1> DEFINE n == Len(offered)
           f == offered
           g == offered'
<1>1. n \in Nat /\ f = [k \in 1..n |-> f[k]] /\ g = Append(f, x)
  OBVIOUS
<1> HIDE DEF n, f, g
<1>2. /\ Len(g) = n + 1 /\ g[n + 1] = x
      /\ \A k \in 1..n : g[k] = f[k]
      /\ g = [k \in 1..n + 1 |-> g[k]]
  BY <1>1, OneMoreOffer
<1> QED
  BY <1>2 DEF n, f, g

LEMMA CallAnswered ==
  ASSUME NEW o, NEW n \in Nat, NEW f, f = [k \in 1..n |-> f[k]],
         NEW a \in Nat, NEW e \in Nat, a < e, AnsweredUpTo(o, f, a),
         \A k \in a + 1..e - 1 : o[k].news = 0, o[e].news # 0,
         NEW x, "stmt" \in DOMAIN x, x.stmt = e, NEW g, g = Append(f, x)
  PROVE  AnsweredUpTo(o, g, e)
<1>1. e - 1 \in Nat /\ a <= e - 1
  OBVIOUS
<1>2. AnsweredUpTo(o, f, e - 1)
  BY <1>1, NothingToAnswer
<1>3. /\ DOMAIN f = 1..n /\ DOMAIN g = 1..n + 1 /\ g[n + 1] = x
      /\ \A k \in 1..n : g[k] = f[k]
  BY OneMoreOffer
<1>4. \A k \in 1..n : ForStmt(f, k) /\ f[k].stmt \in 1..e - 1
  BY <1>2, <1>3 DEF AnsweredUpTo
<1>5. \A k \in 1..n + 1 : k \in 1..n \/ k = n + 1
  OBVIOUS
<1>6. \A k \in 1..n : ForStmt(g, k) /\ g[k].stmt = f[k].stmt
  BY <1>3, <1>4 DEF ForStmt
<1>7. ForStmt(g, n + 1) /\ g[n + 1].stmt = e
  BY <1>3 DEF ForStmt
<1>8. \A k \in DOMAIN g : ForStmt(g, k) /\ g[k].stmt \in 1..e
  <2>1. e \in 1..e /\ \A s \in 1..e - 1 : s \in 1..e
    BY <1>1
  <2> QED
    BY <1>3, <1>4, <1>5, <1>6, <1>7, <2>1
<1>9. ASSUME NEW p \in 1..e PROVE Answered(o, g, p)
  <2>1. CASE p = e
    <3>1. \A k \in 1..n : g[k].stmt # e
      <4>1. e \notin 1..e - 1
        BY <1>1
      <4> QED
        BY <1>4, <1>6, <4>1
    <3>2. n + 1 \in 1..n + 1
      OBVIOUS
    <3>3. AtStmt(g, e) = {n + 1}
      BY <1>3, <1>5, <1>7, <3>1, <3>2 DEF AtStmt
    <3> QED
      BY <1>3, <2>1, <3>2, <3>3 DEF Answered
  <2>2. CASE p # e
    <3>1. p \in 1..e - 1
      BY <2>2
    <3>2. AtStmt(g, p) = AtStmt(f, p)
      <4>1. \A k \in 1..n : k \in 1..n + 1
        OBVIOUS
      <4> QED
        BY <1>3, <1>4, <1>5, <1>6, <1>7, <2>2, <4>1 DEF AtStmt
    <3>3. DOMAIN f \subseteq DOMAIN g
      BY <1>3
    <3>4. Answered(o, f, p)
      BY <1>2, <3>1 DEF AnsweredUpTo
    <3> QED
      BY <3>2, <3>3, <3>4 DEF Answered
  <2> QED
    BY <2>1, <2>2
<1> QED
  BY <1>8, <1>9 DEF AnsweredUpTo

(* An offer in a relation answers no call of main.                         *)
LEMMA OthersUnanswered ==
  ASSUME NEW o, NEW n \in Nat, NEW f, f = [k \in 1..n |-> f[k]], NEW p, Answered(o, f, p),
         NEW x, "stmt" \notin DOMAIN x, NEW g, g = Append(f, x)
  PROVE  Answered(o, g, p)
<1>1. /\ DOMAIN f = 1..n /\ DOMAIN g = 1..n + 1 /\ g[n + 1] = x
      /\ \A k \in 1..n : g[k] = f[k]
  BY OneMoreOffer
<1>2. \A k \in 1..n + 1 : k \in 1..n \/ k = n + 1
  OBVIOUS
<1>3. \A k \in 1..n : k \in 1..n + 1
  OBVIOUS
<1>4. AtStmt(g, p) = AtStmt(f, p)
  BY <1>1, <1>2, <1>3 DEF AtStmt, ForStmt
<1> QED
  BY <1>1, <1>3, <1>4 DEF Answered

(* After the last entry nothing asks for anything.                         *)
LEMMA LastEntry ==
  ASSUME NEW o, NEW fnv, NEW n, CallsUpTo(o, fnv, n), NEW a, a = At(fnv, Len(fnv) + 1)
  PROVE  a \in 0..n /\ \A k \in a + 1..n : ~Asks(o[k])
<1>1. /\ n \in Nat /\ Len(fnv) \in Nat
      /\ \A d \in 1..Len(fnv) : \E k \in 1..n : fnv[d] = Entry(o, k)
      /\ \A b, d \in 1..Len(fnv) : b < d => fnv[b].base_stmt < fnv[d].base_stmt
      /\ \A k \in 1..n : Asks(o[k]) => \E d \in 1..Len(fnv) : fnv[d].base_stmt = k
  BY DEF CallsUpTo
<1>2. \A d \in 1..Len(fnv) : fnv[d].base_stmt \in 1..n
  <2> TAKE d \in 1..Len(fnv)
  <2>1. PICK k \in 1..n : fnv[d] = Entry(o, k)
    BY <1>1
  <2> QED
    BY <2>1 DEF Entry
<1>3. CASE Len(fnv) = 0
  <2>1. a = 0
    BY <1>3 DEF At
  <2> QED
    BY <1>1, <1>3, <2>1
<1>4. CASE Len(fnv) # 0
  <2>1. Len(fnv) \in 1..Len(fnv) /\ a = fnv[Len(fnv)].base_stmt
    BY <1>1, <1>4 DEF At
  <2>2. ASSUME NEW k \in a + 1..n, Asks(o[k]) PROVE FALSE
    <3>1. a \in 1..n /\ k \in 1..n /\ a < k
      BY <1>1, <1>2, <2>1
    <3>2. PICK d \in 1..Len(fnv) : fnv[d].base_stmt = k
      BY <1>1, <2>2, <3>1
    <3>3. d = Len(fnv) \/ d < Len(fnv)
      BY <1>1
    <3> QED
      BY <1>1, <2>1, <3>1, <3>2, <3>3
  <2> QED
    BY <1>1, <1>2, <2>1, <2>2
<1> QED
  BY <1>3, <1>4

(* The calls of one relation are next to each other in mr_fuzz_calls.      *)
LEMMA CallsOfRelation ==
  /\ Len(mr_fuzz_calls) \in Nat /\ DOMAIN mr_fuzz_calls = 1..Len(mr_fuzz_calls)
  /\ \A m \in DOMAIN MRs : \E b \in Nat :
       \A d \in Nat : (d \in 1..Len(mr_fuzz_calls) /\ mr_fuzz_calls[d] = m)
                        <=> d \in b + 1..b + MRs[m].news
<1> DEFINE seqs == [m \in DOMAIN MRs |-> [c \in 1..MRs[m].news |-> m]]
           flat == FlattenSeq(seqs)
<1>1. /\ DOMAIN MRs = 1..Len(MRs) /\ Len(MRs) \in Nat
      /\ \A m \in DOMAIN MRs : MRs[m].news \in Nat
  BY RelationsTyped
<1>2. ASSUME NEW m \in DOMAIN MRs
      PROVE  /\ seqs[m] \in Seq(DOMAIN MRs) /\ Len(seqs[m]) = MRs[m].news
             /\ \A j \in 1..MRs[m].news : seqs[m][j] = m
  BY <1>1, <1>2
<1>3. seqs \in Seq(Seq(DOMAIN MRs)) /\ Len(seqs) = Len(MRs)
  BY <1>1, <1>2
<1>4. mr_fuzz_calls = flat
  BY DEF mr_fuzz_calls
<1> HIDE DEF seqs
<1>5. flat \in Seq(DOMAIN MRs) /\ \E off : LaidOut(flat, seqs, off, Len(seqs))
  BY <1>3, FlattenSeqLaidOut
<1> HIDE DEF flat
<1>6. PICK off : LaidOut(flat, seqs, off, Len(seqs))
  BY <1>5
<1>7. /\ \A p \in 1..Len(flat) : TakenFrom(flat, seqs, off, p)
      /\ \A i \in 1..Len(seqs) : \A j \in 1..Len(seqs[i]) :
           off[i - 1] + j \in 1..Len(flat) /\ flat[off[i - 1] + j] = seqs[i][j]
  BY <1>3, <1>6, LaidOutFacts
<1>8. ASSUME NEW m \in DOMAIN MRs
      PROVE  \E b \in Nat : \A d \in Nat :
               (d \in 1..Len(flat) /\ flat[d] = m) <=> d \in b + 1..b + MRs[m].news
  <2>1. m \in 1..Len(seqs) /\ m - 1 \in 0..Len(seqs) /\ off[m - 1] \in Nat
    <3>1. m \in 1..Len(seqs)
      BY <1>1, <1>3, <1>8
    <3>2. m - 1 \in 0..Len(seqs)
      BY <1>1, <1>3, <3>1
    <3> QED
      BY <1>3, <1>6, <3>1, <3>2, LaidOutNumbers
  <2> DEFINE b == off[m - 1]
  <2>2. ASSUME NEW d \in 1..Len(flat), flat[d] = m
        PROVE  d \in b + 1..b + MRs[m].news
    <3>0. PICK i \in 1..Len(seqs) : \E j \in 1..Len(seqs[i]) :
                 d = off[i - 1] + j /\ flat[d] = seqs[i][j]
      BY <1>7 DEF TakenFrom
    <3>1. PICK j \in 1..Len(seqs[i]) : d = off[i - 1] + j /\ flat[d] = seqs[i][j]
      BY <3>0
    <3>2. flat[d] = seqs[i][j]
      BY <3>1
    <3>3. i = m
      BY <1>1, <1>2, <1>3, <2>2, <3>1, <3>2
    <3>4. j \in 1..MRs[m].news /\ MRs[m].news \in Nat
      BY <1>1, <1>2, <3>1, <3>3
    <3> QED
      BY <2>1, <3>1, <3>3, <3>4
  <2>3. ASSUME NEW d \in Nat, d \in b + 1..b + MRs[m].news
        PROVE  d \in 1..Len(flat) /\ flat[d] = m
    <3>1. d - b \in 1..MRs[m].news /\ b + (d - b) = d
      BY <1>1, <2>1, <2>3
    <3>2. d - b \in 1..Len(seqs[m]) /\ seqs[m][d - b] = m
      BY <1>2, <3>1
    <3> QED
      BY <1>7, <2>1, <3>1, <3>2
  <2> HIDE DEF b
  <2>4. b \in Nat
    BY <2>1 DEF b
  <2> QED
    BY <2>2, <2>3, <2>4
<1>9. Len(flat) \in Nat /\ DOMAIN flat = 1..Len(flat)
  BY <1>5
<1> QED
  BY <1>4, <1>8, <1>9

(* What is offered for a relation are its calls, once each.                *)
LEMMA RelationsAnswered ==
  ASSUME NEW f, NEW n, f = [k \in 1..Len(f) |-> f[k]], ForCalls(f, n, Len(mr_fuzz_calls)),
         NEW m \in DOMAIN MRs
  PROVE  Cardinality({k \in DOMAIN f : ~ForStmt(f, k) /\ f[k].mr = m}) = MRs[m].news
<1> DEFINE L == Len(mr_fuzz_calls)
           N == MRs[m].news
           S == {k \in DOMAIN f : ~ForStmt(f, k) /\ f[k].mr = m}
<1>1. L \in Nat /\ N \in Nat
  BY CallsOfRelation, RelationsTyped
<1>2. PICK b \in Nat : \A d \in Nat : (d \in 1..L /\ mr_fuzz_calls[d] = m) <=> d \in b + 1..b + N
  BY CallsOfRelation
<1> HIDE DEF L, N
<1>3. /\ n \in Nat /\ Len(f) = n + L /\ DOMAIN f = 1..n + L
      /\ \A k \in 1..n : ForStmt(f, k)
      /\ \A d \in 1..L : ~ForStmt(f, n + d) /\ f[n + d].mr = mr_fuzz_calls[d]
  <2>1. n \in Nat /\ Len(f) = n + L
    BY DEF ForCalls, L
  <2>2. DOMAIN f = 1..n + L
    BY <2>1
  <2> QED
    BY <2>1, <2>2 DEF ForCalls, L
<1>4. ASSUME NEW k \in S PROVE k \in n + b + 1..n + b + N
  <2>1. k \in 1..n + L /\ k \notin 1..n
    BY <1>3
  <2>2. k - n \in 1..L /\ n + (k - n) = k /\ k - n \in Nat
    BY <1>1, <1>3, <2>1
  <2>3. mr_fuzz_calls[k - n] = m
    BY <1>3, <2>2
  <2>4. k - n \in b + 1..b + N
    BY <1>2, <2>2, <2>3
  <2> QED
    BY <1>1, <1>3, <2>2, <2>4
<1>5. ASSUME NEW k \in n + b + 1..n + b + N PROVE k \in S
  <2>1. k - n \in b + 1..b + N /\ k - n \in Nat /\ n + (k - n) = k
    BY <1>1, <1>3
  <2>2. k - n \in 1..L /\ mr_fuzz_calls[k - n] = m
    BY <1>2, <2>1
  <2>3. ~ForStmt(f, k) /\ f[k].mr = m
    BY <1>3, <2>1, <2>2
  <2>4. k \in DOMAIN f
    BY <1>1, <1>3, <2>1, <2>2
  <2> QED
    BY <2>3, <2>4
<1>6. S = n + b + 1..n + b + N
  <2> HIDE DEF S
  <2> QED
    BY <1>4, <1>5
<1>7. Cardinality(n + b + 1..n + b + N) = N
  <2> DEFINE lo == n + b + 1
             hi == n + b + N
  <2>1. lo \in Int /\ hi \in Int /\ (lo > hi => N = 0) /\ (lo <= hi => hi - lo + 1 = N)
    BY <1>1, <1>3
  <2> HIDE DEF lo, hi
  <2>2. Cardinality(lo..hi) = IF lo > hi THEN 0 ELSE hi - lo + 1
    BY <2>1, FS_Interval
  <2>3. Cardinality(lo..hi) = N
    BY <2>1, <2>2
  <2> QED
    BY <2>3 DEF lo, hi
<1> QED
  BY <1>6, <1>7 DEF N

(* Every step of the expansion ends with the entry's statement answered.   *)
LEMMA EntryAnswered ==
  ASSUME OneNew, DupInv, CopyInv, LoggedInv, AnswerInv, NEW tag, Expanding(tag),
         NEW a, NEW e, Entered(a, e), Output[e].kind = tag,
         \/ tag # "plain" /\ offered' = offered
         \/ /\ tag = "plain"
            /\ \E x : "stmt" \in DOMAIN x /\ x.stmt = e /\ offered' = Append(offered, x)
  PROVE  AnswerInv'
<1>1. /\ pc = "expand" /\ pc' = "expand" /\ pc \in Done /\ Output' = Output /\ call' = call + 1
      /\ fuzz_new_vars' = fuzz_new_vars
  BY DEF Expanding, dup_vars, Output, Done
<1>2. /\ a = At(fuzz_new_vars, call) /\ At(fuzz_new_vars', call') = e
      /\ a \in 0..Len(Output) /\ e \in 1..Len(Output) /\ a < e /\ Asks(Output[e])
      /\ \A k \in a + 1..e - 1 : ~Asks(Output[k])
  BY <1>1 DEF Entered
<1>3. /\ Len(Output) \in Nat
      /\ \A p \in 1..Len(Output) :
           Output[p].news \in {0, 1} /\ (Output[p].kind # "plain" => Output[p].news = 0)
  BY <1>1, NewsOfOutput
<1>4. a \in Nat /\ e \in Nat
  BY <1>2, <1>3
<1>5. AnsweredUpTo(Output, offered, a) /\ Len(offered) \in Nat
      /\ offered = [k \in 1..Len(offered) |-> offered[k]]
  BY <1>1, <1>2 DEF AnswerInv, MainPart, GrowsPart
<1>6. \A k \in a + 1..e - 1 : Output[k].news = 0
  <2> TAKE k \in a + 1..e - 1
  <2>1. k \in 1..Len(Output)
    BY <1>2, <1>3
  <2>2. ~(Output[k].news > 0)
    BY <1>2 DEF Asks
  <2> QED
    BY <1>3, <2>1, <2>2
<1>7. AnsweredUpTo(Output, offered', e) /\ GrowsPart'
  <2>1. CASE tag # "plain" /\ offered' = offered
    <3>1. Output[e].news = 0
      BY <1>2, <1>3, <2>1
    <3>2. \A k \in a + 1..e : Output[k].news = 0
      <4>1. \A k \in a + 1..e : k \in a + 1..e - 1 \/ k = e
        BY <1>4
      <4> QED
        BY <1>6, <3>1, <4>1
    <3>3. AnsweredUpTo(Output, offered, e)
      BY <1>2, <1>4, <1>5, <3>2, NothingToAnswer
    <3> QED
      BY <1>5, <2>1, <3>3 DEF GrowsPart
  <2>2. CASE tag = "plain" /\ \E x : "stmt" \in DOMAIN x /\ x.stmt = e /\ offered' = Append(offered, x)
    <3>1. PICK x : "stmt" \in DOMAIN x /\ x.stmt = e /\ offered' = Append(offered, x)
      BY <2>2
    <3>2. Output[e].news # 0
      BY <1>2, <1>3, <2>2 DEF Asks
    <3>3. AnsweredUpTo(Output, offered', e)
      BY <1>2, <1>4, <1>5, <1>6, <3>1, <3>2, CallAnswered
    <3>4. Len(offered') = Len(offered) + 1
          /\ offered' = [k \in 1..Len(offered) + 1 |-> offered'[k]]
      BY <1>5, <3>1, LongerByOffer
    <3> QED
      BY <1>5, <3>3, <3>4 DEF GrowsPart
  <2> QED
    BY <2>1, <2>2
<1>8. MainPart'
  BY <1>1, <1>2, <1>7 DEF MainPart
<1>9. RelationsPart'
  BY <1>1 DEF RelationsPart
<1> QED
  BY <1>7, <1>8, <1>9 DEF AnswerInv

LEMMA AllExpandedAnswers ==
  ASSUME OneNew, DupInv, CopyInv, LoggedInv, AnswerInv, AllExpanded
  PROVE  AnswerInv'
<1>1. /\ pc = "expand" /\ pc \in Done /\ pc' = "relations" /\ Output' = Output /\ call' = 1
      /\ offered' = offered /\ call = Len(fuzz_new_vars) + 1
  BY DEF AllExpanded, Output, Done
<1> DEFINE a == At(fuzz_new_vars, call)
           n == Len(Output)
<1>2. CallsUpTo(Output, fuzz_new_vars, n)
  BY <1>1 DEF LoggedInv, EntriesPart
<1>3. a \in 0..n /\ \A k \in a + 1..n : ~Asks(Output[k])
  BY <1>1, <1>2, LastEntry
<1>4. n \in Nat /\ \A p \in 1..n : Output[p].news \in {0, 1}
  BY <1>1, NewsOfOutput
<1>5. AnsweredUpTo(Output, offered, a) /\ Len(offered) \in Nat
      /\ offered = [k \in 1..Len(offered) |-> offered[k]]
  BY <1>1 DEF AnswerInv, MainPart, GrowsPart
<1> HIDE DEF a, n
<1>6. \A k \in a + 1..n : Output[k].news = 0
  <2> TAKE k \in a + 1..n
  <2>1. k \in 1..n
    BY <1>3, <1>4
  <2>2. ~(Output[k].news > 0)
    BY <1>3 DEF Asks
  <2> QED
    BY <1>4, <2>1, <2>2
<1>7. AnsweredUpTo(Output, offered, n)
  <2>1. a \in Nat /\ a <= n
    BY <1>3, <1>4
  <2> QED
    BY <1>4, <1>5, <1>6, <2>1, NothingToAnswer
<1>8. ForCalls(offered, Len(offered), 0)
  <2>1. DOMAIN offered = 1..Len(offered)
    BY <1>5
  <2>2. \A k \in 1..Len(offered) : ForStmt(offered, k)
    BY <1>7, <2>1 DEF AnsweredUpTo
  <2>3. Len(offered) = Len(offered) + 0 /\ 1..0 = {}
    BY <1>5
  <2> QED
    BY <1>5, <2>2, <2>3 DEF ForCalls
<1>9. RelationsPart'
  <2>1. Len(offered) - (1 - 1) = Len(offered) /\ 1 - 1 = 0
    BY <1>5
  <2>2. 1 \in 1..Len(mr_fuzz_calls) + 1
    BY CallsOfRelation
  <2>3. ForCalls(offered', Len(offered') - (call' - 1), call' - 1)
    BY <1>1, <1>8, <2>1
  <2>4. \A p \in 1..Len(Output') : Answered(Output', offered', p)
    BY <1>1, <1>7 DEF AnsweredUpTo, n
  <2>5. pc' # "expanded" /\ call' \in 1..Len(mr_fuzz_calls) + 1
    BY <1>1, <2>2
  <2> QED
    BY <2>3, <2>4, <2>5 DEF RelationsPart
<1> QED
  BY <1>1, <1>5, <1>9 DEF AnswerInv, GrowsPart, MainPart

LEMMA ExpandMRAnswers ==
  ASSUME AnswerInv, ExpandMR
  PROVE  AnswerInv'
<1>1. pc = "relations" /\ pc' = "relations" /\ Output' = Output /\ call' = call + 1
      /\ call \in DOMAIN mr_fuzz_calls
  BY DEF ExpandMR, dup_vars, Output
<1> DEFINE x == [mr |-> mr_fuzz_calls[call], objs |-> Objects(mr_fuzz_calls[call])]
           n == Len(offered) - (call - 1)
           c == call - 1
<1>2. offered' = Append(offered, x)
  BY DEF ExpandMR
<1>3. "stmt" \notin DOMAIN x /\ x.mr = mr_fuzz_calls[call]
  OBVIOUS
<1> HIDE DEF x
<1>4. /\ Len(offered) \in Nat /\ offered = [k \in 1..Len(offered) |-> offered[k]]
      /\ \A p \in 1..Len(Output) : Answered(Output, offered, p)
      /\ ForCalls(offered, n, c)
  BY <1>1 DEF AnswerInv, GrowsPart, RelationsPart
<1>5. /\ Len(offered') = Len(offered) + 1 /\ offered'[Len(offered) + 1] = x
      /\ \A k \in 1..Len(offered) : offered'[k] = offered[k]
      /\ offered' = [k \in 1..Len(offered) + 1 |-> offered'[k]]
  BY <1>2, <1>4, LongerByOffer
<1>6. Len(mr_fuzz_calls) \in Nat /\ call \in 1..Len(mr_fuzz_calls)
  BY <1>1, CallsOfRelation
<1>7. \A p \in 1..Len(Output) : Answered(Output, offered', p)
  BY <1>2, <1>3, <1>4, OthersUnanswered
<1>8. /\ n \in Nat /\ c \in Nat /\ Len(offered) = n + c /\ c + 1 = call /\ n + call = Len(offered) + 1
      /\ Len(offered') - (call' - 1) = n /\ call' - 1 = c + 1
  <2> DEFINE L == Len(offered)
             M == Len(offered')
  <2>1. n \in Nat /\ n = L - (call - 1) /\ L \in Nat /\ M = L + 1
    BY <1>4, <1>5 DEF ForCalls
  <2>2. call \in Nat /\ call >= 1
    BY <1>6
  <2> HIDE DEF n, L, M
  <2>3. n + (call - 1) = L /\ n + call = L + 1 /\ M - ((call + 1) - 1) = n
    BY <2>1, <2>2
  <2>4. n \in Nat /\ Len(offered) = n + c /\ n + call = Len(offered) + 1
        /\ Len(offered') - (call' - 1) = n
    BY <1>1, <2>1, <2>3 DEF L, M
  <2>5. c \in Nat /\ c + 1 = call /\ call' - 1 = c + 1
    BY <1>1, <2>2
  <2> QED
    BY <2>4, <2>5
<1> HIDE DEF n, c
<1>9. ForCalls(offered', n, c + 1)
  <2>1. ASSUME NEW k \in 1..n PROVE ForStmt(offered', k)
    <3>1. k \in 1..Len(offered) /\ ForStmt(offered, k)
      BY <1>4, <1>8 DEF ForCalls
    <3> QED
      BY <1>5, <3>1 DEF ForStmt
  <2>2. ASSUME NEW d \in 1..c + 1
        PROVE  ~ForStmt(offered', n + d) /\ offered'[n + d].mr = mr_fuzz_calls[d]
    <3>1. CASE d = c + 1
      <4>1. n + d = Len(offered) + 1 /\ d = call
        BY <1>8, <3>1
      <4> QED
        BY <1>3, <1>5, <4>1 DEF ForStmt
    <3>2. CASE d # c + 1
      <4>1. d \in 1..c /\ n + d \in 1..Len(offered)
        BY <1>8, <3>2
      <4>2. ~ForStmt(offered, n + d) /\ offered[n + d].mr = mr_fuzz_calls[d]
        BY <1>4, <4>1 DEF ForCalls
      <4> QED
        BY <1>5, <4>1, <4>2 DEF ForStmt
    <3> QED
      BY <3>1, <3>2
  <2>3. Len(offered') = n + (c + 1)
    BY <1>5, <1>8
  <2> QED
    BY <1>8, <2>1, <2>2, <2>3 DEF ForCalls
<1>10. RelationsPart'
  <2>1. call' \in 1..Len(mr_fuzz_calls) + 1 /\ pc' # "expanded"
    BY <1>1, <1>6
  <2>2. \A p \in 1..Len(Output') : Answered(Output', offered', p)
    BY <1>1, <1>7
  <2>3. ForCalls(offered', Len(offered') - (call' - 1), call' - 1)
    BY <1>8, <1>9
  <2> QED
    BY <2>1, <2>2, <2>3 DEF RelationsPart
<1> QED
  BY <1>1, <1>4, <1>5, <1>10 DEF AnswerInv, GrowsPart, MainPart

LEMMA AnswerInvInductive ==
  ASSUME OneNew
  PROVE  TemplateSpec => []AnswerInv
<1>1. \A o, f : f = <<>> => Len(f) \in Nat /\ f = [k \in 1..Len(f) |-> f[k]] /\ AnsweredUpTo(o, f, 0)
  BY DEF AnsweredUpTo
<1>2. TemplateInit => AnswerInv
  <2> SUFFICES ASSUME TemplateInit PROVE AnswerInv
    OBVIOUS
  <2>1. pc = "match" /\ offered = <<>>
    BY DEF TemplateInit, DupInit
  <2> QED
    BY <1>1, <2>1 DEF AnswerInv, GrowsPart, MainPart, RelationsPart
<1>3. DupInv /\ CopyInv /\ LoggedInv /\ AnswerInv /\ [TemplateNext]_template_vars => AnswerInv'
  <2> SUFFICES ASSUME DupInv, CopyInv, LoggedInv, AnswerInv, [TemplateNext]_template_vars PROVE AnswerInv'
    OBVIOUS
  <2>1. CASE Duplicate
    <3>1. pc' \notin {"expand", "relations", "expanded"} /\ offered' = <<>>
      BY <2>1, DuplicateLeaves
    <3> QED
      BY <1>1, <3>1 DEF AnswerInv, GrowsPart, MainPart, RelationsPart
  <2>2. CASE LogMatch
    <3>1. pc' = "duplicated" /\ offered' = offered
      BY <2>2 DEF LogMatch, dup_vars
    <3> QED
      BY <3>1 DEF AnswerInv, GrowsPart, MainPart, RelationsPart
  <2>3. CASE AllMatched
    <3>1. pc' = "expand" /\ At(fuzz_new_vars', call') = 0 /\ offered' = <<>>
      BY <2>3, AllMatchedStep DEF AllMatched
    <3> QED
      BY <1>1, <3>1 DEF AnswerInv, GrowsPart, MainPart, RelationsPart
  <2>4. CASE ExpandStart
    <3>1. Expanding("start") /\ offered' = offered
      BY <2>4 DEF ExpandStart
    <3>2. PICK a, e : Entered(a, e) /\ Output[e].kind = "start"
      BY <3>1, ExpandingEntry
    <3> QED
      BY <3>1, <3>2, EntryAnswered
  <2>5. CASE ExpandEnd
    <3>1. Expanding("end") /\ offered' = offered
      BY <2>5 DEF ExpandEnd
    <3>2. PICK a, e : Entered(a, e) /\ Output[e].kind = "end"
      BY <3>1, ExpandingEntry
    <3> QED
      BY <3>1, <3>2, EntryAnswered
  <2>6. CASE ExpandNew
    <3>1. Expanding("plain") /\ pc = "expand"
      BY <2>6 DEF ExpandNew, Expanding
    <3>2. PICK a, e : Entered(a, e) /\ Output[e].kind = "plain"
      BY <3>1, ExpandingEntry
    <3> DEFINE new(k) == [stmt |-> k, objs |-> getDuplicateDeclVars(SubSeq(spec_vars, 1, k - 1),
                                                                  curr_input_count, in_template)]
    <3>3. PICK k \in tfv..Len(spec_vars) :
            spec_vars[k].base_stmt = fuzz_new_vars[call].base_stmt /\ offered' = Append(offered, new(k))
      BY <2>6 DEF ExpandNew
    <3>4. k = e
      BY <3>1, <3>2, <3>3, StatementFound
    <3>5. "stmt" \in DOMAIN new(k) /\ new(k).stmt = e
      BY <3>4
    <3> HIDE DEF new
    <3>6. \E x : "stmt" \in DOMAIN x /\ x.stmt = e /\ offered' = Append(offered, x)
      BY <3>3, <3>5
    <3> QED
      BY <3>1, <3>2, <3>6, EntryAnswered
  <2>7. CASE AllExpanded
    BY <2>7, AllExpandedAnswers
  <2>8. CASE ExpandMR
    BY <2>8, ExpandMRAnswers
  <2>9. CASE Finish
    <3>1. /\ pc = "relations" /\ pc' = "expanded" /\ call = Len(mr_fuzz_calls) + 1
          /\ call' = call /\ offered' = offered /\ Output' = Output
      BY <2>9 DEF Finish, new_vars, Output
    <3> QED
      BY <3>1 DEF AnswerInv, GrowsPart, MainPart, RelationsPart
  <2>10. CASE UNCHANGED template_vars
    <3>1. UNCHANGED <<pc, fuzz_new_vars, call, offered>> /\ Output' = Output
      BY <2>10 DEF template_vars, dup_vars, new_vars, Output
    <3> QED
      BY <3>1 DEF AnswerInv, GrowsPart, MainPart, RelationsPart
  <2> QED
    BY <2>1, <2>2, <2>3, <2>4, <2>5, <2>6, <2>7, <2>8, <2>9, <2>10 DEF TemplateNext
<1> QED
  BY <1>2, <1>3, DupInvInductive, CopyInvInductive, LoggedInvInductive, PTL DEF TemplateSpec

(* When no statement calls fuzz::fuzz_new twice, every call is expanded    *)
(* exactly once, whatever the blocks are: in main by the statement it is   *)
(* in, searched from where the last search stopped, and in the relations   *)
(* as often as each calls it (expandLoggedNewVars, expandLoggedNewMRVars). *)
THEOREM NewsExpanded ==
  ASSUME OneNew
  PROVE  TemplateSpec => []EachNewExpanded
<1>1. DupInv /\ CopyInv /\ AnswerInv => EachNewExpanded
  <2> SUFFICES ASSUME DupInv, CopyInv, AnswerInv, pc = "expanded" PROVE
        /\ \A at \in DOMAIN Output :
             Cardinality({k \in InMain : offered[k].stmt = at}) = Output[at].news
        /\ \A m \in DOMAIN MRs :
             Cardinality({k \in DOMAIN offered \ InMain : offered[k].mr = m}) = MRs[m].news
    BY DEF EachNewExpanded
  <2>1. pc \in Done
    BY DEF Done
  <2>2. ASSUME NEW at \in DOMAIN Output
        PROVE  Cardinality({k \in InMain : offered[k].stmt = at}) = Output[at].news
    <3>1. at \in 1..Len(Output) /\ Output[at].news \in {0, 1}
      BY <2>1, NewsOfOutput
    <3>2. Answered(Output, offered, at)
      BY <3>1 DEF AnswerInv, RelationsPart
    <3>3. {k \in InMain : offered[k].stmt = at} = AtStmt(offered, at)
      BY DEF InMain, AtStmt, ForStmt
    <3>4. CASE Output[at].news = 0
      BY <3>2, <3>3, <3>4, FS_EmptySet DEF Answered
    <3>5. CASE Output[at].news # 0
      <4>1. PICK k : AtStmt(offered, at) = {k}
        BY <3>2, <3>5 DEF Answered
      <4>2. Cardinality({k}) = 1
        BY FS_Singleton
      <4> QED
        BY <3>1, <3>3, <3>5, <4>1, <4>2
    <3> QED
      BY <3>4, <3>5
  <2>3. ASSUME NEW m \in DOMAIN MRs
        PROVE  Cardinality({k \in DOMAIN offered \ InMain : offered[k].mr = m}) = MRs[m].news
    <3>1. /\ offered = [k \in 1..Len(offered) |-> offered[k]]
          /\ call - 1 = Len(mr_fuzz_calls)
          /\ ForCalls(offered, Len(offered) - (call - 1), call - 1)
      <4>1. call = Len(mr_fuzz_calls) + 1 /\ Len(mr_fuzz_calls) \in Nat
        BY CallsOfRelation DEF AnswerInv, RelationsPart
      <4> QED
        BY <4>1 DEF AnswerInv, GrowsPart, RelationsPart
    <3>2. Cardinality({k \in DOMAIN offered : ~ForStmt(offered, k) /\ offered[k].mr = m}) = MRs[m].news
      BY <3>1, RelationsAnswered
    <3>3. {k \in DOMAIN offered \ InMain : offered[k].mr = m} =
            {k \in DOMAIN offered : ~ForStmt(offered, k) /\ offered[k].mr = m}
      BY DEF InMain, ForStmt
    <3> QED
      BY <3>2, <3>3
  <2> QED
    BY <2>2, <2>3
<1> QED
  BY <1>1, DupInvInductive, CopyInvInductive, AnswerInvInductive, PTL
=============================================================================
