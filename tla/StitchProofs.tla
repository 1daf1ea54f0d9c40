------------------------------ MODULE StitchProofs ------------------------------
(***************************************************************************)
(* Proofs about pass 6, for any programs that fit ProgramsAssumption: what *)
(* replaces a call, that no call is left, that names resolve, and for      *)
(* which helpers the pass gives up.  The last theorem joins the proofs     *)
(* about all passes.                                                       *)
(***************************************************************************)
EXTENDS PassesProofs, Pipeline

-----------------------------------------------------------------------------
(* FlattenSeq: what it contains, and what it makes of sequences of one.    *)

LEMMA SameFlattenSeq == \A seqs : Stitch!FlattenSeq(seqs) = FlattenSeq(seqs)
BY DEF Stitch!FlattenSeq, FlattenSeq

(* Each element is where the offsets say, and nothing else is anywhere.    *)
HasPlaces(flat, seqs, off) ==
  /\ \A p \in 1 .. Len(flat) : TakenFrom(flat, seqs, off, p)
  /\ \A i \in 1 .. Len(seqs) : \A j \in 1 .. Len(seqs[i]) :
       off[i - 1] + j \in 1 .. Len(flat) /\ flat[off[i - 1] + j] = seqs[i][j]

LEMMA LaidOutHasPlaces ==
  ASSUME NEW T, NEW seqs \in Seq(Seq(T)), NEW flat, NEW off, LaidOut(flat, seqs, off, Len(seqs))
  PROVE  HasPlaces(flat, seqs, off)
<1>1. ASSUME NEW p \in 1 .. Len(flat) PROVE TakenFrom(flat, seqs, off, p)
  BY LaidOutPlace
<1>2. ASSUME NEW i \in 1 .. Len(seqs), NEW j \in 1 .. Len(seqs[i])
      PROVE  off[i - 1] + j \in 1 .. Len(flat) /\ flat[off[i - 1] + j] = seqs[i][j]
  BY LaidOutRange
<1> QED
  BY <1>1, <1>2 DEF HasPlaces

HoldsAll(flat, T, seqs) ==
  /\ flat \in Seq(T)
  /\ \A p \in 1 .. Len(flat) :
       \E i \in 1 .. Len(seqs) : \E j \in 1 .. Len(seqs[i]) : flat[p] = seqs[i][j]
  /\ \A i \in 1 .. Len(seqs) : \A j \in 1 .. Len(seqs[i]) :
       \E p \in 1 .. Len(flat) : flat[p] = seqs[i][j]

LEMMA FlattenElements ==
  ASSUME NEW T, NEW seqs \in Seq(Seq(T))
  PROVE  HoldsAll(FlattenSeq(seqs), T, seqs)
<1> DEFINE flat == FlattenSeq(seqs)
<1>1. flat \in Seq(T)
  BY FlattenSeqLaidOut
<1>2. PICK off : LaidOut(flat, seqs, off, Len(seqs))
  BY FlattenSeqLaidOut
<1> HIDE DEF flat
<1>3. HasPlaces(flat, seqs, off)
  BY <1>2, LaidOutHasPlaces
<1>4. \A i \in 1 .. Len(seqs) : \A j \in 1 .. Len(seqs[i]) :
        off[i - 1] + j \in 1 .. Len(flat) /\ flat[off[i - 1] + j] = seqs[i][j]
  BY <1>3 DEF HasPlaces
<1>5. \A p \in 1 .. Len(flat) :
        \E i \in 1 .. Len(seqs) : \E j \in 1 .. Len(seqs[i]) : flat[p] = seqs[i][j]
  BY <1>3 DEF HasPlaces, TakenFrom
<1>6. \A i \in 1 .. Len(seqs) : \A j \in 1 .. Len(seqs[i]) :
        \E p \in 1 .. Len(flat) : flat[p] = seqs[i][j]
  BY <1>4
<1> QED
  BY <1>1, <1>5, <1>6 DEF flat, HoldsAll

LEMMA FlattenSingles ==
  ASSUME NEW T, NEW n \in Nat, NEW e \in [1 .. n -> T]
  PROVE  FlattenSeq([i \in 1 .. n |-> <<e[i]>>]) = e
<1> DEFINE seqs == [i \in 1 .. n |-> <<e[i]>>]
           flat == FlattenSeq(seqs)
<1>1. /\ seqs \in Seq(Seq(T)) /\ Len(seqs) = n
      /\ \A i \in 1 .. n : Len(seqs[i]) = 1 /\ seqs[i][1] = e[i]
  <2>1. \A i \in 1 .. n : <<e[i]>> \in Seq(T) /\ Len(<<e[i]>>) = 1 /\ <<e[i]>>[1] = e[i]
    OBVIOUS
  <2> QED
    BY <2>1
<1> HIDE DEF seqs
<1>2. flat \in Seq(T) /\ \E off : LaidOut(flat, seqs, off, n)
  BY <1>1, FlattenSeqLaidOut
<1>3. PICK off : LaidOut(flat, seqs, off, n)
  BY <1>2
<1> HIDE DEF flat
<1>4. /\ off \in [0 .. n -> Nat] /\ off[0] = 0 /\ off[n] = Len(flat)
      /\ \A i \in 1 .. n : off[i] = off[i - 1] + 1
      /\ \A i \in 1 .. n : flat[off[i - 1] + 1] = e[i]
  <2>1. /\ off \in [0 .. n -> Nat] /\ off[0] = 0 /\ off[n] = Len(flat)
        /\ \A i \in 1 .. n : off[i] = off[i - 1] + Len(seqs[i])
        /\ \A i \in 1 .. n : \A j \in 1 .. Len(seqs[i]) : flat[off[i - 1] + j] = seqs[i][j]
    BY <1>3 DEF LaidOut
  <2>2. \A i \in 1 .. n : flat[off[i - 1] + 1] = e[i]
    <3> TAKE i \in 1 .. n
    <3>1. Len(seqs[i]) = 1 /\ seqs[i][1] = e[i] /\ 1 \in 1 .. Len(seqs[i])
      BY <1>1
    <3> QED
      BY <2>1, <3>1
  <2> QED
    BY <1>1, <2>1, <2>2
<1>5. \A i \in 0 .. n : off[i] = i
  <2> DEFINE bad == {i \in 0 .. n : off[i] # i}
  <2> SUFFICES ASSUME bad # {} PROVE FALSE
    OBVIOUS
  <2>1. bad \subseteq Nat
    OBVIOUS
  <2>2. PICK i \in bad : \A j \in bad : i <= j
    BY <2>1, SmallestMember
  <2>3. i \in 1 .. n /\ i - 1 \in 0 .. n /\ i - 1 \notin bad
    BY <1>4, <2>2
  <2>4. off[i - 1] = i - 1
    BY <2>3
  <2> QED
    BY <1>4, <2>2, <2>3, <2>4
<1>6. Len(flat) = n
  BY <1>4, <1>5
<1>7. \A i \in 1 .. n : flat[i] = e[i]
  <2> TAKE i \in 1 .. n
  <2>1. i - 1 \in 0 .. n /\ off[i - 1] + 1 = i
    BY <1>5
  <2> QED
    BY <1>4, <2>1
<1>8. flat = e
  BY <1>2, <1>6, <1>7
<1> QED
  BY <1>8 DEF flat, seqs

(* Each position of flat is one of the sequences' positions, in order.     *)
IsPlaced(flat, seqs, row, col) ==
  /\ \A q \in 1 .. Len(flat) :
       /\ row[q] \in 1 .. Len(seqs) /\ col[q] \in 1 .. Len(seqs[row[q]])
       /\ flat[q] = seqs[row[q]][col[q]]
  /\ \A i \in 1 .. Len(seqs) : \A j \in 1 .. Len(seqs[i]) :
       \E q \in 1 .. Len(flat) : row[q] = i /\ col[q] = j
  /\ \A d, q \in 1 .. Len(flat) :
       d < q <=> row[d] < row[q] \/ (row[d] = row[q] /\ col[d] < col[q])

LEMMA FlattenPlaced ==
  ASSUME NEW T, NEW seqs \in Seq(Seq(T))
  PROVE  \E row, col : IsPlaced(FlattenSeq(seqs), seqs, row, col)
<1> DEFINE flat == FlattenSeq(seqs)
<1>1. PICK off : LaidOut(flat, seqs, off, Len(seqs))
  BY FlattenSeqLaidOut
<1> HIDE DEF flat
<1>2. HasPlaces(flat, seqs, off)
  BY <1>1, LaidOutHasPlaces
<1>3. \A i \in 1 .. Len(seqs) : \A j \in 1 .. Len(seqs[i]) :
        off[i - 1] + j \in 1 .. Len(flat) /\ flat[off[i - 1] + j] = seqs[i][j]
  BY <1>2 DEF HasPlaces
<1>4. ASSUME NEW i \in 1 .. Len(seqs), NEW j \in 1 .. Len(seqs[i]),
             NEW k \in 1 .. Len(seqs), NEW l \in 1 .. Len(seqs[k])
      PROVE  (off[i - 1] + j < off[k - 1] + l) <=> (i < k \/ (i = k /\ j < l))
  BY <1>1, LaidOutOrder
<1> DEFINE At(q, i, j) == i \in 1 .. Len(seqs) /\ j \in 1 .. Len(seqs[i]) /\ q = off[i - 1] + j
           row == [q \in 1 .. Len(flat) |-> CHOOSE i : \E j : At(q, i, j)]
           col == [q \in 1 .. Len(flat) |-> CHOOSE j : At(q, row[q], j)]
<1>5. ASSUME NEW q \in 1 .. Len(flat) PROVE At(q, row[q], col[q])
  <2>1. \E i : \E j : At(q, i, j)
    <3>1. TakenFrom(flat, seqs, off, q)
      BY <1>2 DEF HasPlaces
    <3>2. PICK i \in 1 .. Len(seqs) : \E j \in 1 .. Len(seqs[i]) : q = off[i - 1] + j
      BY <3>1 DEF TakenFrom
    <3>3. PICK j \in 1 .. Len(seqs[i]) : q = off[i - 1] + j
      BY <3>2
    <3>4. At(q, i, j)
      BY <3>2, <3>3
    <3> HIDE DEF At
    <3> QED
      BY <3>4
  <2> HIDE DEF At
  <2>2. \E j : At(q, row[q], j)
    BY <2>1
  <2> HIDE DEF row
  <2> QED
    BY <2>2
<1> HIDE DEF row, col
<1>6. ASSUME NEW q \in 1 .. Len(flat)
      PROVE  /\ row[q] \in 1 .. Len(seqs) /\ col[q] \in 1 .. Len(seqs[row[q]])
             /\ flat[q] = seqs[row[q]][col[q]]
  <2> DEFINE a == row[q]
             c == col[q]
  <2>1. a \in 1 .. Len(seqs) /\ c \in 1 .. Len(seqs[a]) /\ q = off[a - 1] + c
    BY <1>5
  <2> HIDE DEF a, c
  <2>2. flat[off[a - 1] + c] = seqs[a][c]
    BY <1>3, <2>1
  <2> QED
    BY <2>1, <2>2 DEF a, c
<1>7. ASSUME NEW d \in 1 .. Len(flat), NEW q \in 1 .. Len(flat)
      PROVE  d < q <=> row[d] < row[q] \/ (row[d] = row[q] /\ col[d] < col[q])
  <2> DEFINE a == row[q]
             c == col[q]
             i == row[d]
             j == col[d]
  <2>1. /\ a \in 1 .. Len(seqs) /\ c \in 1 .. Len(seqs[a]) /\ q = off[a - 1] + c
        /\ i \in 1 .. Len(seqs) /\ j \in 1 .. Len(seqs[i]) /\ d = off[i - 1] + j
    BY <1>5
  <2> HIDE DEF a, c, i, j
  <2>2. (off[i - 1] + j < off[a - 1] + c) <=> (i < a \/ (i = a /\ j < c))
    BY <1>4, <2>1
  <2> QED
    BY <2>1, <2>2 DEF a, c, i, j
<1>8. ASSUME NEW i \in 1 .. Len(seqs), NEW j \in 1 .. Len(seqs[i])
      PROVE  \E q \in 1 .. Len(flat) : row[q] = i /\ col[q] = j
  <2> DEFINE q == off[i - 1] + j
  <2>1. q \in 1 .. Len(flat) /\ At(q, i, j)
    BY <1>3
  <2>2. At(q, row[q], col[q])
    BY <1>5, <2>1
  <2>3. ~ (q < q)
    BY <2>1
  <2> DEFINE a == row[q]
             c == col[q]
  <2>4. /\ a \in 1 .. Len(seqs) /\ c \in 1 .. Len(seqs[a]) /\ q = off[a - 1] + c
        /\ q = off[i - 1] + j
    BY <2>2
  <2> HIDE DEF a, c, q
  <2>5. ~ (i < a \/ (i = a /\ j < c)) /\ ~ (a < i \/ (a = i /\ c < j))
    BY <1>4, <2>3, <2>4
  <2>6. a = i
    BY <2>4, <2>5
  <2>7. Len(seqs[i]) \in Nat
    <3>1. seqs[i] \in Seq(T)
      OBVIOUS
    <3> QED
      BY <3>1
  <2>8. c \in 1 .. Len(seqs[i])
    BY <2>4, <2>6
  <2>9. c = j
    BY <2>5, <2>6, <2>7, <2>8
  <2> QED
    BY <2>1, <2>6, <2>9 DEF a, c
<1>9. IsPlaced(flat, seqs, row, col)
  BY <1>6, <1>7, <1>8 DEF IsPlaced
<1> QED
  BY <1>9 DEF flat

IsConcat(c, T, a, b) ==
  /\ c \in Seq(T) /\ Len(c) = Len(a) + Len(b)
  /\ Len(a) \in Nat /\ Len(b) \in Nat
  /\ DOMAIN a = 1 .. Len(a) /\ DOMAIN b = 1 .. Len(b)
  /\ \A s \in 1 .. Len(a) : c[s] = a[s]
  /\ \A s \in 1 .. Len(b) : c[Len(a) + s] = b[s]

LEMMA ConcatFacts ==
  ASSUME NEW T, NEW a \in Seq(T), NEW b \in Seq(T)
  PROVE  IsConcat(a \o b, T, a, b)
BY DEF IsConcat

(* FlattenSeq as a filter: it takes the elements with an index in S.       *)
Filtered(e, n, S) == [i \in 1 .. n |-> IF i \in S THEN <<e[i]>> ELSE <<>>]

TakesFrom(flat, T, e, n, S) ==
  /\ flat \in Seq(T)
  /\ \A p \in 1 .. Len(flat) : \E i \in 1 .. n : i \in S /\ flat[p] = e[i]
  /\ \A i \in 1 .. n : i \in S => \E p \in 1 .. Len(flat) : flat[p] = e[i]
  /\ IsInjective(e) => IsInjective(flat)

LEMMA FlattenFiltered ==
  ASSUME NEW T, NEW n \in Nat, NEW e \in [1 .. n -> T], NEW S
  PROVE  TakesFrom(FlattenSeq(Filtered(e, n, S)), T, e, n, S)
<1> DEFINE seqs == Filtered(e, n, S)
           flat == FlattenSeq(seqs)
<1>1. /\ seqs \in Seq(Seq(T)) /\ Len(seqs) = n
      /\ \A i \in 1 .. n : \A j \in 1 .. Len(seqs[i]) : i \in S /\ j = 1 /\ seqs[i][j] = e[i]
      /\ \A i \in 1 .. n : i \in S => 1 \in 1 .. Len(seqs[i])
  <2>1. \A i \in 1 .. n : /\ <<e[i]>> \in Seq(T) /\ Len(<<e[i]>>) = 1 /\ <<e[i]>>[1] = e[i]
                         /\ <<>> \in Seq(T) /\ Len(<<>>) = 0
    OBVIOUS
  <2>2. \A i \in 1 .. n : seqs[i] = IF i \in S THEN <<e[i]>> ELSE <<>>
    BY DEF Filtered
  <2>3. seqs \in Seq(Seq(T)) /\ Len(seqs) = n
    BY <2>1 DEF Filtered
  <2> HIDE DEF seqs
  <2>4. ASSUME NEW i \in 1 .. n, i \in S PROVE 1 \in 1 .. Len(seqs[i])
    <3>1. seqs[i] = <<e[i]>>
      BY <2>2, <2>4
    <3> QED
      BY <3>1
  <2>5. ASSUME NEW i \in 1 .. n, NEW j \in 1 .. Len(seqs[i])
        PROVE  i \in S /\ j = 1 /\ seqs[i][j] = e[i]
    <3>1. i \in S
      <4> SUFFICES ASSUME i \notin S PROVE FALSE
        OBVIOUS
      <4>1. seqs[i] = <<>>
        BY <2>2
      <4>2. Len(seqs[i]) = 0
        BY <4>1
      <4> QED
        BY <4>2
    <3>2. seqs[i] = <<e[i]>>
      BY <2>2, <3>1
    <3> QED
      BY <2>1, <3>1, <3>2
  <2> QED
    BY <2>3, <2>4, <2>5
<1> HIDE DEF seqs
<1>2. flat \in Seq(T) /\ \E off : LaidOut(flat, seqs, off, n)
  BY <1>1, FlattenSeqLaidOut
<1>3. PICK off : LaidOut(flat, seqs, off, n)
  BY <1>2
<1> HIDE DEF flat
<1>4. /\ \A p \in 1 .. Len(flat) : TakenFrom(flat, seqs, off, p)
      /\ \A i \in 1 .. n : \A j \in 1 .. Len(seqs[i]) :
           off[i - 1] + j \in 1 .. Len(flat) /\ flat[off[i - 1] + j] = seqs[i][j]
  <2>1. LaidOut(flat, seqs, off, Len(seqs)) /\ seqs \in Seq(Seq(T))
    BY <1>1, <1>3
  <2>2. HasPlaces(flat, seqs, off)
    BY <2>1, LaidOutHasPlaces
  <2> QED
    BY <1>1, <2>2 DEF HasPlaces
<1>5. ASSUME NEW p \in 1 .. Len(flat)
      PROVE  \E i \in 1 .. n : i \in S /\ p = off[i - 1] + 1 /\ flat[p] = e[i]
  <2>1. PICK i \in 1 .. n : \E j \in 1 .. Len(seqs[i]) : p = off[i - 1] + j /\ flat[p] = seqs[i][j]
    BY <1>1, <1>4 DEF TakenFrom
  <2> QED
    BY <1>1, <2>1
<1>6. ASSUME NEW i \in 1 .. n, i \in S PROVE \E p \in 1 .. Len(flat) : flat[p] = e[i]
  <2>1. 1 \in 1 .. Len(seqs[i]) /\ seqs[i][1] = e[i]
    BY <1>1, <1>6
  <2> QED
    BY <1>4, <2>1
<1>7. ASSUME IsInjective(e) PROVE IsInjective(flat)
  <2> SUFFICES ASSUME NEW p \in DOMAIN flat, NEW q \in DOMAIN flat, flat[p] = flat[q]
               PROVE  p = q
    BY DEF IsInjective
  <2>1. p \in 1 .. Len(flat) /\ q \in 1 .. Len(flat)
    BY <1>2 DEF flat
  <2>2. PICK i \in 1 .. n : p = off[i - 1] + 1 /\ flat[p] = e[i]
    BY <1>5, <2>1
  <2>3. PICK k \in 1 .. n : q = off[k - 1] + 1 /\ flat[q] = e[k]
    BY <1>5, <2>1
  <2>4. i = k
    BY <1>7, <2>2, <2>3 DEF IsInjective
  <2> QED
    BY <2>2, <2>3, <2>4
<1>8. /\ flat \in Seq(T)
      /\ \A p \in 1 .. Len(flat) : \E i \in 1 .. n : i \in S /\ flat[p] = e[i]
      /\ \A i \in 1 .. n : i \in S => \E p \in 1 .. Len(flat) : flat[p] = e[i]
      /\ IsInjective(e) => IsInjective(flat)
  BY <1>2, <1>5, <1>6, <1>7
<1> QED
  BY <1>8 DEF flat, seqs, TakesFrom

-----------------------------------------------------------------------------
(* Programs, and the calls in them.                                        *)

(* The program does not change.                                            *)
LEMMA SameProgram == Spec => [](program \in Programs)
<1>1. Init => program \in Programs
  BY DEF Init
<1>2. program \in Programs /\ [Next]_vars => (program \in Programs)'
  BY DEF Next, ReadLibrary, ReadRelations, StitchHelpers, ReplaceCalls, vars, stitch_vars,
         Stitch!Next, Stitch!LocateHelper, Stitch!AllLocated, Stitch!LogCall,
         Stitch!AllLogged, Stitch!MakeReplace, Stitch!Finish, Stitch!Abort
<1> QED
  BY <1>1, <1>2, PTL DEF Spec

LEMMA ProgramFacts ==
  ASSUME program \in Programs
  PROVE  /\ program.helpers \in Seq(Stitch!Helper)
         /\ program.functions \in Seq(Stitch!Function)
         /\ program.globals \in SUBSET STRING
         /\ \A g, h \in DOMAIN program.helpers :
              program.helpers[g].name = program.helpers[h].name => g = h
         /\ \A h \in DOMAIN program.helpers :
              /\ IsInjective(program.helpers[h].params)
              /\ \A t \in Stitch!BodyTokens(h) :
                   /\ Stitch!Resolves(t, program.helpers)
                   /\ t.kind = "param" => \E k \in DOMAIN program.helpers[h].params :
                                            t.name = program.helpers[h].params[k]
         /\ \A f \in DOMAIN program.functions :
              \A t \in Stitch!Tokens(program.functions[f]) : Stitch!Resolves(t, program.helpers)
<1>1. Stitch!ProgramsAssumption
  BY PassesAssumption DEF PassesAssumption
<1>2. /\ program \in [helpers : Seq(Stitch!Helper), functions : Seq(Stitch!Function),
                        globals : SUBSET STRING]
      /\ \A g, h \in DOMAIN program.helpers :
           program.helpers[g].name = program.helpers[h].name => g = h
      /\ \A h \in DOMAIN program.helpers :
           /\ Stitch!IsInjective(program.helpers[h].params)
           /\ \A t \in Stitch!Tokens(program.helpers[h].body)
                         \cup Stitch!Elements(program.helpers[h].returns) :
                /\ Stitch!Resolves(t, program.helpers)
                /\ t.kind = "param" => t.name \in Stitch!Range(program.helpers[h].params)
      /\ \A f \in DOMAIN program.functions :
           \A t \in Stitch!Tokens(program.functions[f]) : Stitch!Resolves(t, program.helpers)
  BY <1>1, Zenon DEF Stitch!ProgramsAssumption
<1>3. /\ program.helpers \in Seq(Stitch!Helper) /\ program.functions \in Seq(Stitch!Function)
      /\ program.globals \in SUBSET STRING
  BY <1>2
<1>4. \A f : (Stitch!IsInjective(f) => IsInjective(f))
          /\ \A x : x \in Stitch!Range(f) => \E k \in DOMAIN f : x = f[k]
  BY DEF Stitch!IsInjective, IsInjective, Stitch!Range
<1>5. \A h : Stitch!BodyTokens(h) = Stitch!Tokens(program.helpers[h].body)
                                    \cup Stitch!Elements(program.helpers[h].returns)
  BY DEF Stitch!BodyTokens, Stitch!helpers
<1>6. ASSUME NEW h \in DOMAIN program.helpers
      PROVE  IsInjective(program.helpers[h].params)
  BY <1>2, <1>4
<1>7. ASSUME NEW h \in DOMAIN program.helpers, NEW t \in Stitch!BodyTokens(h)
      PROVE  /\ Stitch!Resolves(t, program.helpers)
             /\ t.kind = "param" => \E k \in DOMAIN program.helpers[h].params :
                                      t.name = program.helpers[h].params[k]
  BY <1>2, <1>4, <1>5
<1>8. ASSUME NEW g \in DOMAIN program.helpers, NEW h \in DOMAIN program.helpers,
             program.helpers[g].name = program.helpers[h].name
      PROVE  g = h
  BY <1>2, <1>8
<1>9. ASSUME NEW f \in DOMAIN program.functions, NEW t \in Stitch!Tokens(program.functions[f])
      PROVE  Stitch!Resolves(t, program.helpers)
  BY <1>2
<1> QED
  BY <1>3, <1>6, <1>7, <1>8, <1>9

Call == [fn : Nat, base_stmt : Nat, at : Nat, tok : Stitch!Token]
CallAs(f, s, p, t) == [fn |-> f, base_stmt |-> s, at |-> p, tok |-> t]

(* c is the call of token p of statement s of these.                       *)
IsCallIn(c, f, stmts, s, p) ==
  stmts[s].toks[p].kind = "call" /\ c = CallAs(f, s, p, stmts[s].toks[p])

AreCallsIn(calls, f, stmts) ==
  /\ calls \in Seq(Call)
  /\ \A k \in 1 .. Len(calls) : \E s \in DOMAIN stmts : \E p \in DOMAIN stmts[s].toks :
       IsCallIn(calls[k], f, stmts, s, p)
  /\ \A s \in DOMAIN stmts : \A p \in DOMAIN stmts[s].toks :
       stmts[s].toks[p].kind = "call" =>
         \E k \in 1 .. Len(calls) : IsCallIn(calls[k], f, stmts, s, p)

LEMMA CallsInFacts ==
  ASSUME NEW f \in Nat, NEW n \in Nat, NEW stmts, DOMAIN stmts = 1 .. n,
         \A s \in 1 .. n : stmts[s].toks \in Seq(Stitch!Token)
  PROVE  AreCallsIn(Stitch!CallsIn(f, stmts), f, stmts)
<1> DEFINE at(s) == [p \in DOMAIN stmts[s].toks |-> CallAs(f, s, p, stmts[s].toks[p])]
           S(s) == {p \in DOMAIN stmts[s].toks : stmts[s].toks[p].kind = "call"}
           per(s) == FlattenSeq(Filtered(at(s), Len(stmts[s].toks), S(s)))
           seqs == [s \in 1 .. n |-> per(s)]
           calls == FlattenSeq(seqs)
<1>1. ASSUME NEW s \in 1 .. n
      PROVE  /\ Len(stmts[s].toks) \in Nat /\ DOMAIN stmts[s].toks = 1 .. Len(stmts[s].toks)
             /\ at(s) \in [1 .. Len(stmts[s].toks) -> Call]
  <2>1. Len(stmts[s].toks) \in Nat /\ DOMAIN stmts[s].toks = 1 .. Len(stmts[s].toks)
        /\ \A p \in 1 .. Len(stmts[s].toks) : stmts[s].toks[p] \in Stitch!Token
    OBVIOUS
  <2>2. \A p \in 1 .. Len(stmts[s].toks) : CallAs(f, s, p, stmts[s].toks[p]) \in Call
    BY <2>1 DEF CallAs, Call
  <2> QED
    BY <2>1, <2>2
<1>2. Stitch!CallsIn(f, stmts) = calls
  <2>1. ASSUME NEW s \in 1 .. n
        PROVE  Filtered(at(s), Len(stmts[s].toks), S(s))
                 = [p \in DOMAIN stmts[s].toks |->
                      IF stmts[s].toks[p].kind = "call"
                      THEN <<[fn |-> f, base_stmt |-> s, at |-> p, tok |-> stmts[s].toks[p]]>>
                      ELSE <<>>]
    BY <1>1 DEF Filtered, CallAs
  <2>2. ASSUME NEW s \in 1 .. n
        PROVE  per(s) = Stitch!FlattenSeq([p \in DOMAIN stmts[s].toks |->
                      IF stmts[s].toks[p].kind = "call"
                      THEN <<[fn |-> f, base_stmt |-> s, at |-> p, tok |-> stmts[s].toks[p]]>>
                      ELSE <<>>])
    BY <2>1, SameFlattenSeq
  <2> HIDE DEF per
  <2>3. seqs = [s \in DOMAIN stmts |-> Stitch!FlattenSeq([p \in DOMAIN stmts[s].toks |->
                      IF stmts[s].toks[p].kind = "call"
                      THEN <<[fn |-> f, base_stmt |-> s, at |-> p, tok |-> stmts[s].toks[p]]>>
                      ELSE <<>>])]
    BY <2>2
  <2>4. Stitch!CallsIn(f, stmts) = Stitch!FlattenSeq(seqs)
    BY <2>3 DEF Stitch!CallsIn
  <2> QED
    BY <2>4, SameFlattenSeq
<1>3. ASSUME NEW s \in 1 .. n
      PROVE  /\ per(s) \in Seq(Call)
             /\ \A j \in 1 .. Len(per(s)) : \E p \in DOMAIN stmts[s].toks :
                  IsCallIn(per(s)[j], f, stmts, s, p)
             /\ \A p \in DOMAIN stmts[s].toks : stmts[s].toks[p].kind = "call" =>
                  \E j \in 1 .. Len(per(s)) : IsCallIn(per(s)[j], f, stmts, s, p)
  <2> DEFINE m == Len(stmts[s].toks)
             e == at(s)
             U == S(s)
             flat == per(s)
  <2>1. m \in Nat /\ e \in [1 .. m -> Call] /\ flat = FlattenSeq(Filtered(e, m, U))
    BY <1>1
  <2>2. \A p \in 1 .. m : p \in DOMAIN stmts[s].toks
    BY <1>1
  <2>3. \A p \in 1 .. m : /\ e[p] = CallAs(f, s, p, stmts[s].toks[p])
                          /\ p \in U <=> stmts[s].toks[p].kind = "call"
    BY <1>1
  <2>4. \A p \in DOMAIN stmts[s].toks : p \in 1 .. m
    BY <1>1
  <2> HIDE DEF m, e, U, flat
  <2>5. /\ flat \in Seq(Call)
        /\ \A j \in 1 .. Len(flat) : \E p \in 1 .. m : p \in U /\ flat[j] = e[p]
        /\ \A p \in 1 .. m : p \in U => \E j \in 1 .. Len(flat) : flat[j] = e[p]
    <3>1. TakesFrom(flat, Call, e, m, U)
      BY <2>1, FlattenFiltered
    <3> QED
      BY <3>1 DEF TakesFrom
  <2>6. /\ flat \in Seq(Call)
        /\ \A j \in 1 .. Len(flat) : \E p \in DOMAIN stmts[s].toks :
             IsCallIn(flat[j], f, stmts, s, p)
        /\ \A p \in DOMAIN stmts[s].toks : stmts[s].toks[p].kind = "call" =>
             \E j \in 1 .. Len(flat) : IsCallIn(flat[j], f, stmts, s, p)
    BY <2>2, <2>3, <2>4, <2>5 DEF IsCallIn
  <2> QED
    BY <2>6 DEF flat
<1> HIDE DEF at, S, per
<1>4. seqs \in Seq(Seq(Call)) /\ Len(seqs) = n /\ \A s \in 1 .. n : seqs[s] = per(s)
  BY <1>3
<1> HIDE DEF seqs
<1>5. /\ calls \in Seq(Call)
      /\ \A k \in 1 .. Len(calls) : \E s \in 1 .. n : \E j \in 1 .. Len(seqs[s]) :
           calls[k] = seqs[s][j]
      /\ \A s \in 1 .. n : \A j \in 1 .. Len(seqs[s]) :
           \E k \in 1 .. Len(calls) : calls[k] = seqs[s][j]
  <2>1. /\ calls \in Seq(Call)
        /\ \A k \in 1 .. Len(calls) : \E s \in 1 .. Len(seqs) : \E j \in 1 .. Len(seqs[s]) :
             calls[k] = seqs[s][j]
        /\ \A s \in 1 .. Len(seqs) : \A j \in 1 .. Len(seqs[s]) :
             \E k \in 1 .. Len(calls) : calls[k] = seqs[s][j]
    BY <1>4, FlattenElements DEF HoldsAll
  <2> QED
    BY <1>4, <2>1
<1> HIDE DEF calls
<1>6. ASSUME NEW k \in 1 .. Len(calls)
      PROVE  \E s \in 1 .. n : \E p \in DOMAIN stmts[s].toks : IsCallIn(calls[k], f, stmts, s, p)
  <2>1. PICK s \in 1 .. n : \E j \in 1 .. Len(seqs[s]) : calls[k] = seqs[s][j]
    BY <1>5
  <2>2. PICK j \in 1 .. Len(per(s)) : calls[k] = per(s)[j]
    BY <1>4, <2>1
  <2> QED
    BY <1>3, <2>2
<1>7. ASSUME NEW s \in 1 .. n, NEW p \in DOMAIN stmts[s].toks, stmts[s].toks[p].kind = "call"
      PROVE  \E k \in 1 .. Len(calls) : IsCallIn(calls[k], f, stmts, s, p)
  <2>1. PICK j \in 1 .. Len(per(s)) : IsCallIn(per(s)[j], f, stmts, s, p)
    BY <1>3, <1>7
  <2>2. PICK k \in 1 .. Len(calls) : calls[k] = per(s)[j]
    <3>1. j \in 1 .. Len(seqs[s]) /\ seqs[s] = per(s)
      BY <1>4
    <3> QED
      BY <1>5, <3>1
  <2> QED
    BY <2>1, <2>2
<1> QED
  BY <1>2, <1>5, <1>6, <1>7 DEF AreCallsIn

LEMMA InTokens ==
  ASSUME NEW stmts, NEW s \in DOMAIN stmts, NEW p \in DOMAIN stmts[s].toks
  PROVE  stmts[s].toks[p] \in Stitch!Tokens(stmts)
BY DEF Stitch!Tokens, Stitch!Elements

LEMMA InElements ==
  ASSUME NEW seqs, NEW s \in DOMAIN seqs, NEW p \in DOMAIN seqs[s]
  PROVE  seqs[s][p] \in Stitch!Elements(seqs)
BY DEF Stitch!Elements

(* What is searched for calls in helper h.                                 *)
SearchedIn(h) ==
  program.helpers[h].body
    \o [r \in DOMAIN program.helpers[h].returns |->
          [decl |-> {}, toks |-> program.helpers[h].returns[r]]]

LEMMA SearchedFacts ==
  ASSUME program \in Programs, NEW h \in DOMAIN program.helpers
  PROVE  /\ Len(SearchedIn(h)) \in Nat /\ DOMAIN SearchedIn(h) = 1 .. Len(SearchedIn(h))
         /\ \A s \in DOMAIN SearchedIn(h) :
              /\ SearchedIn(h)[s].toks \in Seq(Stitch!Token)
              /\ \A p \in DOMAIN SearchedIn(h)[s].toks :
                   SearchedIn(h)[s].toks[p] \in Stitch!BodyTokens(h)
<1> DEFINE Statement == [decl : SUBSET STRING, toks : Seq(Stitch!Token)]
           body == program.helpers[h].body
           returns == program.helpers[h].returns
           last == [r \in DOMAIN returns |-> [decl |-> {}, toks |-> returns[r]]]
           all == SearchedIn(h)
<1>1. body \in Seq(Statement) /\ returns \in Seq(Seq(Stitch!Token))
  <2>1. program.helpers[h] \in Stitch!Helper
    BY ProgramFacts
  <2> QED
    BY <2>1 DEF Stitch!Helper
<1>2. all = body \o last
  BY DEF SearchedIn
<1>3. Stitch!BodyTokens(h) = Stitch!Tokens(body) \cup Stitch!Elements(returns)
  BY DEF Stitch!BodyTokens, Stitch!helpers
<1> HIDE DEF body, returns, all, Statement
<1>4. /\ last \in Seq(Statement) /\ Len(last) = Len(returns) /\ Len(returns) \in Nat
      /\ DOMAIN returns = 1 .. Len(returns)
      /\ \A r \in 1 .. Len(returns) : last[r].toks = returns[r]
  <2>1. DOMAIN returns = 1 .. Len(returns) /\ Len(returns) \in Nat
    BY <1>1
  <2>2. \A r \in 1 .. Len(returns) : [decl |-> {}, toks |-> returns[r]] \in Statement
    BY <1>1 DEF Statement
  <2>3. last = [r \in 1 .. Len(returns) |-> [decl |-> {}, toks |-> returns[r]]]
    BY <2>1
  <2> HIDE DEF last
  <2>4. last \in Seq(Statement) /\ Len(last) = Len(returns)
    BY <2>1, <2>2, <2>3
  <2>5. \A r \in 1 .. Len(returns) : last[r].toks = returns[r]
    BY <2>3
  <2> QED
    BY <2>1, <2>4, <2>5
<1> HIDE DEF last
<1>5. /\ all \in Seq(Statement) /\ Len(all) = Len(body) + Len(last) /\ Len(body) \in Nat
      /\ DOMAIN body = 1 .. Len(body)
      /\ \A s \in 1 .. Len(all) : IF s <= Len(body) THEN all[s] = body[s]
                                 ELSE all[s] = last[s - Len(body)]
  <2>1. /\ all \in Seq(Statement) /\ Len(all) = Len(body) + Len(last)
        /\ Len(body) \in Nat /\ Len(last) \in Nat /\ DOMAIN body = 1 .. Len(body)
        /\ \A s \in 1 .. Len(body) : all[s] = body[s]
        /\ \A s \in 1 .. Len(last) : all[Len(body) + s] = last[s]
    <3>1. IsConcat(all, Statement, body, last)
      BY <1>1, <1>2, <1>4, ConcatFacts
    <3> QED
      BY <3>1 DEF IsConcat
  <2>2. ASSUME NEW s \in 1 .. Len(all), ~ (s <= Len(body))
        PROVE  all[s] = last[s - Len(body)]
    <3>1. s - Len(body) \in 1 .. Len(last) /\ Len(body) + (s - Len(body)) = s
      BY <2>1, <2>2
    <3> QED
      BY <2>1, <3>1
  <2>3. ASSUME NEW s \in 1 .. Len(all), s <= Len(body) PROVE all[s] = body[s]
    BY <2>1, <2>3
  <2> QED
    BY <2>1, <2>2, <2>3
<1>6. ASSUME NEW s \in 1 .. Len(all)
      PROVE  /\ all[s].toks \in Seq(Stitch!Token)
             /\ \A p \in DOMAIN all[s].toks : all[s].toks[p] \in Stitch!BodyTokens(h)
  <2>1. all[s].toks \in Seq(Stitch!Token)
    <3>1. all[s] \in Statement
      BY <1>5
    <3> QED
      BY <3>1 DEF Statement
  <2>2. ASSUME NEW p \in DOMAIN all[s].toks PROVE all[s].toks[p] \in Stitch!BodyTokens(h)
    <3>1. CASE s <= Len(body)
      <4>1. s \in DOMAIN body /\ all[s] = body[s]
        BY <1>5, <3>1
      <4> QED
        BY <1>3, <4>1, InTokens
    <3>2. CASE ~ (s <= Len(body))
      <4>1. s - Len(body) \in DOMAIN returns /\ all[s].toks = returns[s - Len(body)]
        BY <1>4, <1>5, <3>2
      <4> QED
        BY <1>3, <4>1, InElements
    <3> QED
      BY <3>1, <3>2
  <2> QED
    BY <2>1, <2>2
<1>7. Len(all) \in Nat /\ DOMAIN all = 1 .. Len(all)
  BY <1>5
<1> QED
  BY <1>6, <1>7 DEF all

FromHelper(c) ==
  c.fn = 0 /\ c.tok.kind = "call" /\ \E h \in DOMAIN program.helpers : c.tok \in Stitch!BodyTokens(h)

FromFunction(c) ==
  \E f \in DOMAIN program.functions : \E s \in DOMAIN program.functions[f] :
    \E p \in DOMAIN program.functions[f][s].toks : IsCallIn(c, f, program.functions[f], s, p)

LEMMA FunctionFacts ==
  ASSUME program \in Programs
  PROVE  /\ DOMAIN program.functions = 1 .. Len(program.functions)
         /\ Len(program.functions) \in Nat
         /\ \A f \in DOMAIN program.functions :
              /\ Len(program.functions[f]) \in Nat
              /\ DOMAIN program.functions[f] = 1 .. Len(program.functions[f])
              /\ \A s \in DOMAIN program.functions[f] :
                   /\ program.functions[f][s].toks \in Seq(Stitch!Token)
                   /\ program.functions[f][s].decl \subseteq Stitch!Name
                   /\ program.functions[f][s].inner \subseteq Stitch!Name
<1>1. program.functions \in Seq(Stitch!Function)
  BY ProgramFacts
<1>2. DOMAIN program.functions = 1 .. Len(program.functions) /\ Len(program.functions) \in Nat
  BY <1>1
<1>3. ASSUME NEW f \in DOMAIN program.functions
      PROVE  /\ Len(program.functions[f]) \in Nat
             /\ DOMAIN program.functions[f] = 1 .. Len(program.functions[f])
             /\ \A s \in DOMAIN program.functions[f] :
                  /\ program.functions[f][s].toks \in Seq(Stitch!Token)
                  /\ program.functions[f][s].decl \subseteq Stitch!Name
                  /\ program.functions[f][s].inner \subseteq Stitch!Name
  <2> DEFINE Statement ==
        [decl : SUBSET Stitch!Name, inner : SUBSET Stitch!Name, toks : Seq(Stitch!Token)]
             fn == program.functions[f]
  <2>1. fn \in Seq(Statement)
    BY <1>1 DEF Stitch!Function
  <2> HIDE DEF Statement, fn
  <2>2. Len(fn) \in Nat /\ DOMAIN fn = 1 .. Len(fn) /\ \A s \in DOMAIN fn : fn[s] \in Statement
    BY <2>1
  <2> QED
    BY <2>2 DEF Statement, fn
<1> QED
  BY <1>2, <1>3

ComesFrom(c) == FromHelper(c) \/ FromFunction(c)

LEMMA AllCallsFacts ==
  ASSUME program \in Programs
  PROVE  /\ Stitch!AllCalls \in Seq(Call)
         /\ \A k \in 1 .. Len(Stitch!AllCalls) : ComesFrom(Stitch!AllCalls[k])
         /\ \A f \in DOMAIN program.functions : \A s \in DOMAIN program.functions[f] :
              \A p \in DOMAIN program.functions[f][s].toks :
                program.functions[f][s].toks[p].kind = "call" =>
                  \E k \in 1 .. Len(Stitch!AllCalls) :
                    IsCallIn(Stitch!AllCalls[k], f, program.functions[f], s, p)
<1> DEFINE H == Len(program.helpers)
           F == Len(program.functions)
           hs == [h \in 1 .. H |-> Stitch!CallsIn(0, SearchedIn(h))]
           fs == [f \in 1 .. F |-> Stitch!CallsIn(f, program.functions[f])]
           inHelpers == FlattenSeq(hs)
           inFunctions == FlattenSeq(fs)
           calls == Stitch!AllCalls
<1>1. /\ DOMAIN program.helpers = 1 .. H /\ H \in Nat
      /\ DOMAIN program.functions = 1 .. F /\ F \in Nat
  <2>1. program.helpers \in Seq(Stitch!Helper)
    BY ProgramFacts
  <2> QED
    BY <2>1, FunctionFacts
<1>2. calls = inHelpers \o inFunctions
  <2>1. hs = [h \in DOMAIN program.helpers |->
               Stitch!CallsIn(0, program.helpers[h].body
                 \o [r \in DOMAIN program.helpers[h].returns |->
                       [decl |-> {}, toks |-> program.helpers[h].returns[r]]])]
    BY <1>1 DEF SearchedIn
  <2>2. fs = [f \in DOMAIN program.functions |-> Stitch!CallsIn(f, program.functions[f])]
    BY <1>1
  <2>3. calls = Stitch!FlattenSeq(hs) \o Stitch!FlattenSeq(fs)
    BY <2>1, <2>2 DEF Stitch!AllCalls, Stitch!helpers
  <2> QED
    BY <2>3, SameFlattenSeq
<1>3. ASSUME NEW h \in 1 .. H
      PROVE  hs[h] \in Seq(Call) /\ \A j \in 1 .. Len(hs[h]) : FromHelper(hs[h][j])
  <2>1. AreCallsIn(Stitch!CallsIn(0, SearchedIn(h)), 0, SearchedIn(h))
    BY <1>1, SearchedFacts, CallsInFacts
  <2>2. ASSUME NEW j \in 1 .. Len(hs[h]) PROVE FromHelper(hs[h][j])
    <3>1. PICK s \in DOMAIN SearchedIn(h) : \E p \in DOMAIN SearchedIn(h)[s].toks :
            IsCallIn(hs[h][j], 0, SearchedIn(h), s, p)
      BY <2>1 DEF AreCallsIn
    <3>2. PICK p \in DOMAIN SearchedIn(h)[s].toks : IsCallIn(hs[h][j], 0, SearchedIn(h), s, p)
      BY <3>1
    <3>3. SearchedIn(h)[s].toks[p] \in Stitch!BodyTokens(h)
      BY <1>1, SearchedFacts
    <3> HIDE DEF hs
    <3> QED
      BY <1>1, <3>2, <3>3 DEF IsCallIn, CallAs, FromHelper
  <2> QED
    BY <2>1, <2>2 DEF AreCallsIn
<1>4. ASSUME NEW f \in 1 .. F
      PROVE  AreCallsIn(fs[f], f, program.functions[f])
  <2>1. AreCallsIn(Stitch!CallsIn(f, program.functions[f]), f, program.functions[f])
    BY <1>1, FunctionFacts, CallsInFacts
  <2> QED
    BY <2>1
<1>5. hs \in Seq(Seq(Call)) /\ Len(hs) = H /\ fs \in Seq(Seq(Call)) /\ Len(fs) = F
  <2>1. /\ \A h \in 1 .. H : Stitch!CallsIn(0, SearchedIn(h)) \in Seq(Call)
        /\ \A f \in 1 .. F : Stitch!CallsIn(f, program.functions[f]) \in Seq(Call)
    BY <1>3, <1>4 DEF AreCallsIn
  <2> QED
    BY <1>1, <2>1
<1> HIDE DEF hs, fs, H, F, calls
<1>6. HoldsAll(inHelpers, Call, hs) /\ HoldsAll(inFunctions, Call, fs)
  BY <1>5, FlattenElements
<1> HIDE DEF inHelpers, inFunctions
<1>7. IsConcat(calls, Call, inHelpers, inFunctions)
  BY <1>2, <1>6, ConcatFacts DEF HoldsAll
<1>8. /\ calls \in Seq(Call) /\ Len(calls) = Len(inHelpers) + Len(inFunctions)
      /\ Len(inHelpers) \in Nat /\ Len(inFunctions) \in Nat
      /\ \A k \in 1 .. Len(inHelpers) : calls[k] = inHelpers[k]
      /\ \A k \in 1 .. Len(inFunctions) : calls[Len(inHelpers) + k] = inFunctions[k]
  BY <1>7 DEF IsConcat
<1>9. ASSUME NEW k \in 1 .. Len(calls) PROVE ComesFrom(calls[k])
  <2>1. CASE k \in 1 .. Len(inHelpers)
    <3>1. PICK h \in 1 .. H : \E j \in 1 .. Len(hs[h]) : inHelpers[k] = hs[h][j]
      BY <1>5, <1>6, <2>1 DEF HoldsAll
    <3> QED
      BY <1>3, <1>8, <2>1, <3>1 DEF ComesFrom
  <2>2. CASE k \notin 1 .. Len(inHelpers)
    <3>1. \E i \in 1 .. Len(inFunctions) : k = Len(inHelpers) + i
      <4>1. /\ k - Len(inHelpers) \in 1 .. Len(inFunctions)
            /\ Len(inHelpers) + (k - Len(inHelpers)) = k
        BY <1>8, <2>2
      <4> QED
        BY <4>1
    <3>2. PICK i \in 1 .. Len(inFunctions) : calls[k] = inFunctions[i]
      BY <1>8, <3>1
    <3>3. PICK f \in 1 .. F : \E j \in 1 .. Len(fs[f]) : calls[k] = fs[f][j]
      BY <1>5, <1>6, <3>2 DEF HoldsAll
    <3>4. \E s \in DOMAIN program.functions[f] : \E p \in DOMAIN program.functions[f][s].toks :
            IsCallIn(calls[k], f, program.functions[f], s, p)
      BY <1>4, <3>3 DEF AreCallsIn
    <3> QED
      BY <1>1, <3>4 DEF ComesFrom, FromFunction
  <2> QED
    BY <2>1, <2>2
<1>10. ASSUME NEW f \in DOMAIN program.functions, NEW s \in DOMAIN program.functions[f],
              NEW p \in DOMAIN program.functions[f][s].toks,
              program.functions[f][s].toks[p].kind = "call"
       PROVE  \E k \in 1 .. Len(calls) : IsCallIn(calls[k], f, program.functions[f], s, p)
  <2>1. PICK j \in 1 .. Len(fs[f]) : IsCallIn(fs[f][j], f, program.functions[f], s, p)
    BY <1>1, <1>4, <1>10 DEF AreCallsIn
  <2>2. PICK i \in 1 .. Len(inFunctions) : inFunctions[i] = fs[f][j]
    BY <1>1, <1>5, <1>6 DEF HoldsAll
  <2>3. Len(inHelpers) + i \in 1 .. Len(calls) /\ calls[Len(inHelpers) + i] = fs[f][j]
    BY <1>8, <2>2
  <2> QED
    BY <2>1, <2>3
<1> QED
  BY <1>8, <1>9, <1>10 DEF calls

LEMMA ResolvedCall ==
  ASSUME program \in Programs, NEW k \in 1 .. Len(Stitch!AllCalls)
  PROVE  /\ Stitch!AllCalls[k] \in Call
         /\ Stitch!AllCalls[k].tok.kind = "call"
         /\ Stitch!Resolves(Stitch!AllCalls[k].tok, program.helpers)
<1> DEFINE c == Stitch!AllCalls[k]
<1>1. c \in Call
  BY AllCallsFacts
<1>2. ComesFrom(c)
  BY AllCallsFacts
<1> HIDE DEF c
<1>3. ASSUME FromHelper(c)
      PROVE  c.tok.kind = "call" /\ Stitch!Resolves(c.tok, program.helpers)
  BY <1>3, ProgramFacts DEF FromHelper
<1>4. ASSUME FromFunction(c)
      PROVE  c.tok.kind = "call" /\ Stitch!Resolves(c.tok, program.helpers)
  <2>1. PICK f \in DOMAIN program.functions : \E s \in DOMAIN program.functions[f] :
          \E p \in DOMAIN program.functions[f][s].toks : IsCallIn(c, f, program.functions[f], s, p)
    BY <1>4 DEF FromFunction
  <2>2. PICK s \in DOMAIN program.functions[f] : \E p \in DOMAIN program.functions[f][s].toks :
          IsCallIn(c, f, program.functions[f], s, p)
    BY <2>1
  <2>3. PICK p \in DOMAIN program.functions[f][s].toks :
          IsCallIn(c, f, program.functions[f], s, p)
    BY <2>2
  <2>4. c.tok = program.functions[f][s].toks[p] /\ c.tok.kind = "call"
    BY <2>3 DEF IsCallIn, CallAs
  <2>5. c.tok \in Stitch!Tokens(program.functions[f])
    BY <2>4, InTokens
  <2> QED
    BY <2>4, <2>5, ProgramFacts
<1>5. c.tok.kind = "call" /\ Stitch!Resolves(c.tok, program.helpers)
  BY <1>2, <1>3, <1>4 DEF ComesFrom
<1> QED
  BY <1>1, <1>5 DEF c

(* A call, its callee, and its arguments.                                  *)
Called(k) == Stitch!Callee(Stitch!AllCalls[k])
Args(k) == Stitch!AllCalls[k].tok.args

LEMMA CalleeFacts ==
  ASSUME program \in Programs, NEW k \in 1 .. Len(Stitch!AllCalls)
  PROVE  /\ Called(k) \in DOMAIN program.helpers
         /\ program.helpers[Called(k)].params \in Seq(STRING)
         /\ IsInjective(program.helpers[Called(k)].params)
         /\ Args(k) \in Seq(Stitch!Arg)
         /\ Len(program.helpers[Called(k)].params) = Len(Args(k))
<1> DEFINE c == Stitch!AllCalls[k]
           h == Called(k)
<1>1. c \in Call /\ c.tok.kind = "call" /\ Stitch!Resolves(c.tok, program.helpers)
  BY ResolvedCall
<1>2. PICK g \in DOMAIN program.helpers :
        program.helpers[g].name = c.tok.name /\ Len(program.helpers[g].params) = Len(c.tok.args)
  BY <1>1 DEF Stitch!Resolves
<1>3. h = CHOOSE x \in DOMAIN program.helpers : program.helpers[x].name = c.tok.name
  BY DEF Called, Stitch!Callee, Stitch!helpers
<1>4. h \in DOMAIN program.helpers /\ program.helpers[h].name = c.tok.name
  BY <1>2, <1>3
<1>5. g = h
  BY <1>2, <1>4, ProgramFacts
<1>6. program.helpers[h] \in Stitch!Helper
  BY <1>4, ProgramFacts
<1>7. c.tok.args \in Seq(Stitch!Arg)
  BY <1>1 DEF Call, Stitch!Token, Stitch!Plain
<1>8. program.helpers[h].params \in Seq(STRING) /\ IsInjective(program.helpers[h].params)
  BY <1>4, <1>6, ProgramFacts DEF Stitch!Helper
<1> QED
  BY <1>2, <1>4, <1>5, <1>7, <1>8 DEF Args

-----------------------------------------------------------------------------
(***************************************************************************)
(* What the pass has done at each point: the helpers it has located, the   *)
(* calls it has logged, in the order of AllCalls, and what it has written  *)
(* for them.                                                               *)
(***************************************************************************)

LoggedFor(k) ==
  [call |-> Stitch!AllCalls[k], index |-> k - 1,
   concrete_params |->
     [j \in DOMAIN Args(k) |-> <<program.helpers[Called(k)].params[j], Args(k)[j]>>]]

Written(k) == Stitch!getSplitWithReplacements(Called(k), LoggedFor(k))

ReturnsOf(h) == program.helpers[h].returns

Seen(n) == {h \in 1 .. n : Stitch!IsSeen(h)}

AllSeen == Seen(Len(program.helpers))

LocatedInv ==
  /\ stitch_pc = "locate" =>
       /\ stitch_next \in 1 .. Len(program.helpers) + 1
       /\ helper_funcs_splits = Seen(stitch_next - 1)
  /\ stitch_pc \in {"log", "replace", "done"} => helper_funcs_splits = AllSeen
  /\ stitch_pc # "aborted" => \A h \in helper_funcs_splits : Len(ReturnsOf(h)) <= 1

LoggedInv ==
  /\ stitch_pc = "locate" => replace_index = 0
  /\ stitch_pc = "log" =>
       stitch_next \in 1 .. Len(Stitch!AllCalls) + 1 /\ replace_index = stitch_next - 1
  /\ stitch_pc \in {"replace", "done"} => replace_index = Len(Stitch!AllCalls)
  /\ replace_index \in 0 .. Len(Stitch!AllCalls)
  /\ \A k \in 1 .. replace_index : stitch_exprs[k] = LoggedFor(k)

WrittenInv ==
  /\ \A k \in 1 .. Len(stitched) : ReturnsOf(Called(k)) # <<>> /\ stitched[k] = Written(k)
  /\ stitch_pc = "done" => Len(stitched) = Len(Stitch!AllCalls)

(* Why the pass gives up.                                                  *)
GivenUpInv ==
  stitch_pc = "aborted" =>
    \/ \E h \in DOMAIN program.helpers : Stitch!IsSeen(h) /\ Len(ReturnsOf(h)) > 1
    \/ \E k \in 1 .. Len(Stitch!AllCalls) :
         Called(k) \notin AllSeen \/ ReturnsOf(Called(k)) = <<>>

ProgressInv == program \in Programs /\ LocatedInv /\ LoggedInv /\ WrittenInv /\ GivenUpInv

LEMMA CallsLength ==
  ASSUME program \in Programs
  PROVE  /\ Len(Stitch!AllCalls) \in Nat /\ DOMAIN Stitch!AllCalls = 1 .. Len(Stitch!AllCalls)
         /\ Len(program.helpers) \in Nat /\ DOMAIN program.helpers = 1 .. Len(program.helpers)
<1>1. Stitch!AllCalls \in Seq(Call)
  BY AllCallsFacts
<1>2. program.helpers \in Seq(Stitch!Helper)
  BY ProgramFacts
<1> QED
  BY <1>1, <1>2

LEMMA InitProgressInv == Init => ProgressInv
<1> SUFFICES ASSUME Init PROVE ProgressInv
  OBVIOUS
<1>1. /\ program \in Programs /\ stitch_pc = "locate" /\ stitch_next = 1
      /\ helper_funcs_splits = {} /\ replace_index = 0 /\ stitched = <<>>
  BY DEF Init, Start, Stitch!Start
<1>2. Len(stitched) = 0 /\ Seen(0) = {}
  BY <1>1 DEF Seen
<1> QED
  BY <1>1, <1>2, CallsLength DEF ProgressInv, LocatedInv, LoggedInv, WrittenInv, GivenUpInv

(* What depends on the program alone does not change.                      *)
LEMMA Unchanging ==
  ASSUME program' = program
  PROVE  /\ Stitch!AllCalls' = Stitch!AllCalls
         /\ \A k : Called(k)' = Called(k) /\ LoggedFor(k)' = LoggedFor(k) /\ Written(k)' = Written(k)
         /\ \A h : ReturnsOf(h)' = ReturnsOf(h) /\ Stitch!IsSeen(h)' = Stitch!IsSeen(h)
         /\ \A n : Seen(n)' = Seen(n)
         /\ AllSeen' = AllSeen
<1>1. Stitch!helpers' = Stitch!helpers
  BY DEF Stitch!helpers
<1>2. Stitch!AllCalls' = Stitch!AllCalls
  BY <1>1 DEF Stitch!AllCalls
<1>3. ASSUME NEW c PROVE Stitch!Callee(c)' = Stitch!Callee(c)
  BY <1>1 DEF Stitch!Callee
<1>4. ASSUME NEW k PROVE Called(k)' = Called(k)
  BY <1>2, <1>1 DEF Called, Stitch!Callee
<1>5. ASSUME NEW k PROVE LoggedFor(k)' = LoggedFor(k)
  BY <1>2, <1>4 DEF LoggedFor, Args
<1>6. ASSUME NEW k PROVE Written(k)' = Written(k)
  BY <1>1, <1>4, <1>5 DEF Written, Stitch!getSplitWithReplacements
<1>7. ASSUME NEW h PROVE ReturnsOf(h)' = ReturnsOf(h) /\ Stitch!IsSeen(h)' = Stitch!IsSeen(h)
  BY <1>1 DEF ReturnsOf, Stitch!IsSeen, Stitch!BodyTokens
<1>8. ASSUME NEW n PROVE Seen(n)' = Seen(n)
  BY <1>7 DEF Seen
<1>9. AllSeen' = AllSeen
  BY <1>8 DEF AllSeen, Seen
<1> QED
  BY <1>2, <1>4, <1>5, <1>6, <1>7, <1>8, <1>9

LEMMA LocateProgress ==
  ASSUME ProgressInv, Stitch!LocateHelper
  PROVE  ProgressInv'
<1> DEFINE h == stitch_next
<1>1. /\ stitch_pc = "locate" /\ h \in DOMAIN program.helpers /\ stitch_next' = h + 1
      /\ Stitch!IsSeen(h) => Len(ReturnsOf(h)) <= 1
      /\ helper_funcs_splits' = helper_funcs_splits \cup (IF Stitch!IsSeen(h) THEN {h} ELSE {})
      /\ UNCHANGED <<program, stitch_pc, stitch_exprs, replace_index, stitched>>
  BY DEF Stitch!LocateHelper, ReturnsOf, Stitch!helpers
<1>2. Len(program.helpers) \in Nat /\ h \in 1 .. Len(program.helpers)
  BY <1>1, CallsLength DEF ProgressInv
<1> HIDE DEF h
<1>3. helper_funcs_splits = Seen(h - 1) /\ \A g \in helper_funcs_splits : Len(ReturnsOf(g)) <= 1
  BY <1>1 DEF ProgressInv, LocatedInv, h
<1>4. helper_funcs_splits' = Seen(h)
  <2>1. 1 .. h = 1 .. h - 1 \cup {h}
    BY <1>2
  <2> QED
    BY <1>1, <1>3, <2>1 DEF Seen
<1>5. \A g \in helper_funcs_splits' : Len(ReturnsOf(g)) <= 1
  BY <1>1, <1>3
<1>6. stitch_next' - 1 = h /\ stitch_next' \in 1 .. Len(program.helpers) + 1
  BY <1>1, <1>2
<1>7. LocatedInv'
  BY <1>1, <1>4, <1>5, <1>6, Unchanging DEF LocatedInv
<1>8. LoggedInv' /\ WrittenInv' /\ GivenUpInv'
  BY <1>1, Unchanging DEF ProgressInv, LoggedInv, WrittenInv, GivenUpInv
<1> QED
  BY <1>1, <1>7, <1>8 DEF ProgressInv

LEMMA AllLocatedProgress ==
  ASSUME ProgressInv, Stitch!AllLocated
  PROVE  ProgressInv'
<1>1. /\ stitch_pc = "locate" /\ stitch_next = Len(program.helpers) + 1
      /\ stitch_pc' = "log" /\ stitch_next' = 1
      /\ UNCHANGED <<program, helper_funcs_splits, stitch_exprs, replace_index, stitched>>
  BY DEF Stitch!AllLocated, Stitch!helpers
<1>2. Len(program.helpers) \in Nat /\ Len(Stitch!AllCalls) \in Nat
  BY CallsLength DEF ProgressInv
<1>3. stitch_next - 1 = Len(program.helpers)
  BY <1>1, <1>2
<1>4. helper_funcs_splits = AllSeen /\ \A g \in helper_funcs_splits : Len(ReturnsOf(g)) <= 1
  BY <1>1, <1>3 DEF ProgressInv, LocatedInv, AllSeen
<1>5. LocatedInv'
  BY <1>1, <1>4, Unchanging DEF LocatedInv
<1>6. LoggedInv'
  <2>1. replace_index = 0 /\ 1 \in 1 .. Len(Stitch!AllCalls) + 1 /\ 0 = 1 - 1
    BY <1>1, <1>2 DEF ProgressInv, LoggedInv
  <2> QED
    BY <1>1, <2>1, Unchanging DEF ProgressInv, LoggedInv
<1>7. WrittenInv' /\ GivenUpInv'
  BY <1>1, Unchanging DEF ProgressInv, WrittenInv, GivenUpInv
<1> QED
  BY <1>1, <1>5, <1>6, <1>7 DEF ProgressInv

LEMMA LogProgress ==
  ASSUME ProgressInv, StitchInv, Stitch!LogCall
  PROVE  ProgressInv'
<1> DEFINE k == stitch_next
<1>1. /\ stitch_pc = "log" /\ k \in DOMAIN Stitch!AllCalls /\ stitch_next' = k + 1
      /\ replace_index' = replace_index + 1
      /\ UNCHANGED <<program, stitch_pc, helper_funcs_splits, stitched>>
  BY DEF Stitch!LogCall, Stitch!NextIndex
<1>2. Len(Stitch!AllCalls) \in Nat /\ k \in 1 .. Len(Stitch!AllCalls)
  BY <1>1, CallsLength DEF ProgressInv
<1>3. replace_index = k - 1
  BY <1>1 DEF ProgressInv, LoggedInv
<1>4. stitch_exprs' = Append(stitch_exprs, LoggedFor(k))
  BY <1>3 DEF Stitch!LogCall, LoggedFor, Args, Called, Stitch!helpers
<1>5. /\ stitch_exprs' = [j \in 1 .. replace_index + 1 |->
                          IF j = replace_index + 1 THEN LoggedFor(k) ELSE stitch_exprs[j]]
  BY <1>4, AppendToFunction DEF StitchInv
<1> HIDE DEF k
<1>6. \A j \in 1 .. replace_index' : stitch_exprs'[j] = LoggedFor(j)
  <2> TAKE j \in 1 .. replace_index'
  <2>1. replace_index' = k /\ replace_index + 1 = k
    BY <1>1, <1>2, <1>3
  <2>2. CASE j = k
    BY <1>5, <2>1, <2>2
  <2>3. CASE j # k
    <3>1. j \in 1 .. replace_index
      BY <1>2, <1>3, <2>1, <2>3
    <3>2. stitch_exprs[j] = LoggedFor(j)
      BY <3>1 DEF ProgressInv, LoggedInv
    <3> QED
      BY <1>5, <2>1, <2>3, <3>2
  <2> QED
    BY <2>2, <2>3
<1>7. LoggedInv'
  <2>1. /\ stitch_next' \in 1 .. Len(Stitch!AllCalls) + 1 /\ replace_index' = stitch_next' - 1
        /\ replace_index' \in 0 .. Len(Stitch!AllCalls)
    BY <1>1, <1>2, <1>3
  <2> QED
    BY <1>1, <1>6, <2>1, Unchanging DEF LoggedInv
<1>8. LocatedInv' /\ WrittenInv' /\ GivenUpInv'
  BY <1>1, Unchanging DEF ProgressInv, LocatedInv, WrittenInv, GivenUpInv
<1> QED
  BY <1>1, <1>7, <1>8 DEF ProgressInv

LEMMA AllLoggedProgress ==
  ASSUME ProgressInv, Stitch!AllLogged
  PROVE  ProgressInv'
<1>1. /\ stitch_pc = "log" /\ stitch_next = Len(Stitch!AllCalls) + 1
      /\ stitch_pc' = "replace"
      /\ UNCHANGED <<program, helper_funcs_splits, stitch_exprs, replace_index, stitched>>
  BY DEF Stitch!AllLogged
<1>2. Len(Stitch!AllCalls) \in Nat
  BY CallsLength DEF ProgressInv
<1>3. replace_index = Len(Stitch!AllCalls)
  BY <1>1, <1>2 DEF ProgressInv, LoggedInv
<1>4. LocatedInv' /\ WrittenInv' /\ GivenUpInv'
  BY <1>1, Unchanging DEF ProgressInv, LocatedInv, WrittenInv, GivenUpInv
<1>5. LoggedInv'
  BY <1>1, <1>3, Unchanging DEF ProgressInv, LoggedInv
<1> QED
  BY <1>1, <1>4, <1>5 DEF ProgressInv

LEMMA ReplaceProgress ==
  ASSUME ProgressInv, StitchInv, Stitch!MakeReplace
  PROVE  ProgressInv'
<1> DEFINE k == stitch_next
           n == Len(stitched)
<1>1. /\ stitch_pc = "replace" /\ k \in DOMAIN stitch_exprs
      /\ UNCHANGED <<program, stitch_pc, helper_funcs_splits, stitch_exprs, replace_index>>
  BY DEF Stitch!MakeReplace
<1>2. k \in 1 .. replace_index /\ k = n + 1 /\ n \in Nat /\ stitched = [j \in 1 .. n |-> stitched[j]]
  BY <1>1 DEF StitchInv
<1>3. stitch_exprs[k] = LoggedFor(k)
  BY <1>2 DEF ProgressInv, LoggedInv
<1>4. Stitch!Callee(stitch_exprs[k].call) = Called(k)
  BY <1>3 DEF LoggedFor, Called
<1>5. /\ ReturnsOf(Called(k)) # <<>>
      /\ stitched' = Append(stitched, Written(k))
  BY <1>3, <1>4 DEF Stitch!MakeReplace, ReturnsOf, Written, Stitch!helpers
<1> HIDE DEF k, n
<1>6. /\ stitched' = [j \in 1 .. n + 1 |-> IF j = n + 1 THEN Written(k) ELSE stitched[j]]
      /\ Len(stitched') = n + 1
  BY <1>2, <1>5, AppendToFunction
<1>7. \A j \in 1 .. Len(stitched') : ReturnsOf(Called(j)) # <<>> /\ stitched'[j] = Written(j)
  <2> TAKE j \in 1 .. Len(stitched')
  <2>1. CASE j = k
    BY <1>2, <1>5, <1>6, <2>1
  <2>2. CASE j # k
    <3>1. j \in 1 .. n
      BY <1>2, <1>6, <2>2
    <3>2. ReturnsOf(Called(j)) # <<>> /\ stitched[j] = Written(j)
      BY <3>1 DEF ProgressInv, WrittenInv, n
    <3> QED
      BY <1>2, <1>6, <2>2, <3>1, <3>2
  <2> QED
    BY <2>1, <2>2
<1>8. WrittenInv'
  BY <1>1, <1>7, Unchanging DEF WrittenInv
<1>9. LocatedInv' /\ LoggedInv' /\ GivenUpInv'
  BY <1>1, Unchanging DEF ProgressInv, LocatedInv, LoggedInv, GivenUpInv
<1> QED
  BY <1>1, <1>8, <1>9 DEF ProgressInv

LEMMA FinishProgress ==
  ASSUME ProgressInv, StitchInv, Stitch!Finish
  PROVE  ProgressInv'
<1>1. /\ stitch_pc = "replace" /\ stitch_next = Len(stitch_exprs) + 1 /\ stitch_pc' = "done"
      /\ UNCHANGED <<program, helper_funcs_splits, stitch_exprs, replace_index, stitched>>
  BY DEF Stitch!Finish
<1>2. Len(stitched) = Len(Stitch!AllCalls)
  <2>1. Len(stitch_exprs) = replace_index /\ replace_index \in Nat
    BY DEF StitchInv
  <2>2. Len(stitched) \in Nat /\ stitch_next = Len(stitched) + 1
    BY <1>1 DEF StitchInv
  <2>3. replace_index = Len(Stitch!AllCalls)
    BY <1>1 DEF ProgressInv, LoggedInv
  <2> QED
    BY <1>1, <2>1, <2>2, <2>3
<1>3. LocatedInv' /\ LoggedInv' /\ GivenUpInv'
  BY <1>1, Unchanging DEF ProgressInv, LocatedInv, LoggedInv, GivenUpInv
<1>4. WrittenInv'
  BY <1>1, <1>2, Unchanging DEF ProgressInv, WrittenInv
<1> QED
  BY <1>1, <1>3, <1>4 DEF ProgressInv

LEMMA AbortProgress ==
  ASSUME ProgressInv, StitchInv, Stitch!Abort
  PROVE  ProgressInv'
<1>1. /\ stitch_pc' = "aborted" /\ stitch_pc \in {"locate", "log", "replace"}
      /\ UNCHANGED <<program, helper_funcs_splits, stitch_exprs, replace_index, stitched>>
  BY DEF Stitch!Abort
<1> DEFINE why ==
      \/ \E h \in DOMAIN program.helpers : Stitch!IsSeen(h) /\ Len(ReturnsOf(h)) > 1
      \/ \E k \in 1 .. Len(Stitch!AllCalls) :
           Called(k) \notin AllSeen \/ ReturnsOf(Called(k)) = <<>>
<1>2. why
  <2>1. CASE /\ stitch_pc = "locate" /\ stitch_next \in DOMAIN Stitch!helpers
             /\ Stitch!IsSeen(stitch_next) /\ Len(Stitch!helpers[stitch_next].returns) > 1
    BY <2>1 DEF Stitch!helpers, ReturnsOf
  <2>2. CASE /\ stitch_pc = "log" /\ stitch_next \in DOMAIN Stitch!AllCalls
             /\ Stitch!Callee(Stitch!AllCalls[stitch_next]) \notin helper_funcs_splits
    <3>1. stitch_next \in 1 .. Len(Stitch!AllCalls) /\ helper_funcs_splits = AllSeen
      BY <2>2, CallsLength DEF ProgressInv, LocatedInv
    <3>2. Called(stitch_next) \notin AllSeen
      BY <2>2, <3>1 DEF Called
    <3> QED
      BY <3>1, <3>2
  <2>3. CASE /\ stitch_pc = "replace" /\ stitch_next \in DOMAIN stitch_exprs
             /\ Stitch!helpers[Stitch!Callee(stitch_exprs[stitch_next].call)].returns = <<>>
    <3>1. stitch_next \in 1 .. replace_index /\ replace_index = Len(Stitch!AllCalls)
      BY <2>3 DEF StitchInv, ProgressInv, LoggedInv
    <3>2. stitch_exprs[stitch_next] = LoggedFor(stitch_next)
      BY <3>1 DEF ProgressInv, LoggedInv
    <3>3. ReturnsOf(Called(stitch_next)) = <<>>
      BY <2>3, <3>2 DEF ReturnsOf, Called, LoggedFor, Stitch!helpers
    <3> QED
      BY <3>1, <3>3
  <2> QED
    BY <2>1, <2>2, <2>3 DEF Stitch!Abort
<1>3. GivenUpInv'
  BY <1>1, <1>2, Unchanging DEF GivenUpInv
<1>4. LocatedInv' /\ LoggedInv' /\ WrittenInv'
  BY <1>1, Unchanging DEF ProgressInv, LocatedInv, LoggedInv, WrittenInv
<1> QED
  BY <1>1, <1>3, <1>4 DEF ProgressInv

LEMMA NextProgressInv == StitchInv /\ ProgressInv /\ [Next]_vars => ProgressInv'
<1> SUFFICES ASSUME StitchInv, ProgressInv, [Next]_vars PROVE ProgressInv'
  OBVIOUS
<1>1. CASE UNCHANGED stitch_vars
  <2>1. UNCHANGED <<program, stitch_pc, stitch_next, helper_funcs_splits, stitch_exprs,
                    replace_index, stitched>>
    BY <1>1 DEF stitch_vars
  <2> QED
    BY <2>1, Unchanging
       DEF ProgressInv, LocatedInv, LoggedInv, WrittenInv, GivenUpInv
<1>2. CASE Stitch!Next
  BY <1>2, LocateProgress, AllLocatedProgress, LogProgress, AllLoggedProgress, ReplaceProgress,
     FinishProgress, AbortProgress DEF Stitch!Next
<1> QED
  BY <1>1, <1>2 DEF Next, ReadLibrary, ReadRelations, ReplaceCalls, StitchHelpers, vars

LEMMA ProgressSafe == Spec => [](StitchInv /\ ProgressInv)
BY InitStitchInv, NextStitchInv, InitProgressInv, NextProgressInv, PTL DEF Spec

-----------------------------------------------------------------------------
(***************************************************************************)
(* When the pass gives up.                                                 *)
(***************************************************************************)

(* Each helper that is called or has two return statements has a           *)
(* parameter or a variable or names something: it is seen at all.          *)
KnownHelpers ==
  \A h \in DOMAIN program.helpers :
    (Len(ReturnsOf(h)) > 1 \/ \E k \in 1 .. Len(Stitch!AllCalls) : Called(k) = h)
      => Stitch!IsSeen(h)

(* With helpers the pass sees it gives up exactly when one has two return  *)
(* statements or is called and has none (the assertion of addNewSplit, the *)
(* null return_body of getSplitWithReplacements).                          *)
THEOREM GivesUpForHelpers == Spec => [](KnownHelpers => ProperHelpersAccepted)
<1> DEFINE calls == Stitch!Elements(<<Stitch!AllCalls>>)
           called == {Stitch!Callee(c) : c \in calls}
           improper == {h \in DOMAIN program.helpers :
                          \/ Len(ReturnsOf(h)) > 1
                          \/ h \in called /\ ReturnsOf(h) = <<>>}
<1>1. ProgressInv => \A h : h \in called <=> \E k \in 1 .. Len(Stitch!AllCalls) : h = Called(k)
  <2> SUFFICES ASSUME ProgressInv, NEW h
               PROVE  h \in called <=> \E k \in 1 .. Len(Stitch!AllCalls) : h = Called(k)
    OBVIOUS
  <2>1. \A c : c \in calls <=> \E k \in 1 .. Len(Stitch!AllCalls) : c = Stitch!AllCalls[k]
    <3>1. /\ DOMAIN Stitch!AllCalls = 1 .. Len(Stitch!AllCalls)
          /\ DOMAIN <<Stitch!AllCalls>> = {1} /\ <<Stitch!AllCalls>>[1] = Stitch!AllCalls
      BY CallsLength DEF ProgressInv
    <3> QED
      BY <3>1 DEF Stitch!Elements
  <2> HIDE DEF calls
  <2> QED
    BY <2>1 DEF Called
<1>2. Stitch!ProperHelpersAccepted
        <=> (stitch_pc = "aborted" => improper # {}) /\ (stitch_pc = "done" => improper = {})
  BY DEF Stitch!ProperHelpersAccepted, Stitch!helpers, ReturnsOf
<1> HIDE DEF called, calls
<1>3. ASSUME ProgressInv, KnownHelpers, stitch_pc = "aborted" PROVE improper # {}
  <2>1. CASE \E h \in DOMAIN program.helpers : Stitch!IsSeen(h) /\ Len(ReturnsOf(h)) > 1
    BY <2>1
  <2>2. CASE \E k \in 1 .. Len(Stitch!AllCalls) :
               Called(k) \notin AllSeen \/ ReturnsOf(Called(k)) = <<>>
    <3>1. PICK k \in 1 .. Len(Stitch!AllCalls) :
            Called(k) \notin AllSeen \/ ReturnsOf(Called(k)) = <<>>
      BY <2>2
    <3>2. Called(k) \in DOMAIN program.helpers /\ Called(k) \in called
      BY <1>1, <1>3, CalleeFacts DEF ProgressInv
    <3>3. Called(k) \in AllSeen
      BY <1>3, <3>2, CallsLength DEF ProgressInv, KnownHelpers, AllSeen, Seen
    <3> QED
      BY <3>1, <3>2, <3>3
  <2> QED
    BY <1>3, <2>1, <2>2 DEF ProgressInv, GivenUpInv
<1>4. ASSUME ProgressInv, KnownHelpers, stitch_pc = "done" PROVE improper = {}
  <2> SUFFICES ASSUME NEW h \in improper PROVE FALSE
    OBVIOUS
  <2>1. helper_funcs_splits = AllSeen /\ \A g \in AllSeen : Len(ReturnsOf(g)) <= 1
    BY <1>4 DEF ProgressInv, LocatedInv
  <2>2. CASE Len(ReturnsOf(h)) > 1
    <3>1. h \in AllSeen
      BY <1>4, <2>2, CallsLength DEF ProgressInv, KnownHelpers, AllSeen, Seen
    <3>2. Len(ReturnsOf(h)) \in Nat
      <4>1. program.helpers[h] \in Stitch!Helper
        BY <1>4, ProgramFacts DEF ProgressInv
      <4> QED
        BY <4>1 DEF ReturnsOf, Stitch!Helper
    <3> QED
      BY <2>1, <2>2, <3>1, <3>2
  <2>3. CASE h \in called /\ ReturnsOf(h) = <<>>
    <3>1. PICK k \in 1 .. Len(Stitch!AllCalls) : h = Called(k)
      BY <1>1, <1>4, <2>3
    <3>2. ReturnsOf(Called(k)) # <<>>
      BY <1>4 DEF ProgressInv, WrittenInv
    <3> QED
      BY <2>3, <3>1, <3>2
  <2> QED
    BY <2>2, <2>3
<1>5. ProgressInv => (KnownHelpers => ProperHelpersAccepted)
  BY <1>2, <1>3, <1>4 DEF ProperHelpersAccepted
<1> QED
  BY <1>5, ProgressSafe, PTL

-----------------------------------------------------------------------------
(***************************************************************************)
(* What replaces a call.                                                   *)
(***************************************************************************)

(* An argument is one name or literal: parseConcreteVar takes no more.     *)
SingleArgs ==
  \A k \in 1 .. Len(Stitch!AllCalls) : \A j \in DOMAIN Args(k) : Len(Args(k)[j]) = 1

(* The helpers name no global variable: its name would get the suffix.     *)
NoGlobals ==
  \A h \in DOMAIN program.helpers : \A t \in Stitch!BodyTokens(h) : t.kind # "global"

(* A helper does not return just a variable of its own: the TODO of        *)
(* getSplitWithReplacements.                                               *)
NoBareReturn ==
  \A h \in DOMAIN program.helpers : \A r \in DOMAIN ReturnsOf(h) :
    Len(ReturnsOf(h)[r]) = 1 => ReturnsOf(h)[r][1].kind # "local"

LEMMA HelperFacts ==
  ASSUME program \in Programs, NEW h \in DOMAIN program.helpers
  PROVE  /\ Len(program.helpers[h].body) \in Nat
         /\ DOMAIN program.helpers[h].body = 1 .. Len(program.helpers[h].body)
         /\ \A b \in DOMAIN program.helpers[h].body :
              /\ program.helpers[h].body[b].decl \subseteq STRING
              /\ program.helpers[h].body[b].toks \in Seq(Stitch!Token)
              /\ \A p \in DOMAIN program.helpers[h].body[b].toks :
                   program.helpers[h].body[b].toks[p] \in Stitch!BodyTokens(h)
         /\ ReturnsOf(h) \in Seq(Seq(Stitch!Token))
         /\ \A r \in DOMAIN ReturnsOf(h) : \A p \in DOMAIN ReturnsOf(h)[r] :
              ReturnsOf(h)[r][p] \in Stitch!BodyTokens(h)
         /\ ReturnsOf(h) # <<>> => 1 \in DOMAIN ReturnsOf(h) /\ ReturnsOf(h)[1] \in Seq(Stitch!Token)
<1> DEFINE Statement == [decl : SUBSET STRING, toks : Seq(Stitch!Token)]
           body == program.helpers[h].body
           returns == ReturnsOf(h)
<1>1. body \in Seq(Statement) /\ returns \in Seq(Seq(Stitch!Token))
  <2>1. program.helpers[h] \in Stitch!Helper
    BY ProgramFacts
  <2> QED
    BY <2>1 DEF Stitch!Helper, ReturnsOf
<1>2. Stitch!BodyTokens(h) = Stitch!Tokens(body) \cup Stitch!Elements(returns)
  BY DEF Stitch!BodyTokens, Stitch!helpers, ReturnsOf
<1> HIDE DEF body, returns, Statement
<1>3. /\ Len(body) \in Nat /\ DOMAIN body = 1 .. Len(body) /\ \A b \in DOMAIN body : body[b] \in Statement
  BY <1>1
<1>4. \A b \in DOMAIN body : body[b].decl \subseteq STRING /\ body[b].toks \in Seq(Stitch!Token)
  BY <1>3 DEF Statement
<1>5. \A b \in DOMAIN body : \A p \in DOMAIN body[b].toks : body[b].toks[p] \in Stitch!BodyTokens(h)
  BY <1>2, InTokens
<1>6. \A r \in DOMAIN returns : \A p \in DOMAIN returns[r] : returns[r][p] \in Stitch!BodyTokens(h)
  BY <1>2, InElements
<1>7. returns # <<>> => 1 \in DOMAIN returns /\ returns[1] \in Seq(Stitch!Token)
  <2>1. Len(returns) \in Nat /\ DOMAIN returns = 1 .. Len(returns)
    BY <1>1
  <2>2. Len(returns) = 0 => returns = <<>>
    BY <1>1
  <2> QED
    BY <1>1, <2>1, <2>2
<1> QED
  BY <1>1, <1>3, <1>4, <1>5, <1>6, <1>7 DEF body, returns

(* The argument a parameter of the callee stands for.                      *)
LEMMA ArgumentOf ==
  ASSUME program \in Programs, NEW k \in 1 .. Len(Stitch!AllCalls),
         NEW j \in DOMAIN program.helpers[Called(k)].params, NEW name,
         name = program.helpers[Called(k)].params[j]
  PROVE  /\ j \in DOMAIN Args(k) /\ Args(k)[j] \in Stitch!Arg
         /\ Stitch!ConcreteArg(LoggedFor(k), name) = Args(k)[j]
         /\ (CHOOSE i \in DOMAIN program.helpers[Called(k)].params :
              program.helpers[Called(k)].params[i] = name) = j
<1> DEFINE params == program.helpers[Called(k)].params
           args == Args(k)
           concrete == LoggedFor(k).concrete_params
<1>1. params \in Seq(STRING) /\ IsInjective(params) /\ args \in Seq(Stitch!Arg) /\ Len(params) = Len(args)
  BY CalleeFacts
<1>2. concrete = [i \in DOMAIN args |-> <<params[i], args[i]>>]
  BY DEF LoggedFor
<1>3. Stitch!ConcreteArg(LoggedFor(k), name)
        = concrete[CHOOSE i \in DOMAIN concrete : concrete[i][1] = name][2]
  BY DEF Stitch!ConcreteArg
<1>4. j \in DOMAIN params /\ params[j] = name
  OBVIOUS
<1> HIDE DEF params, args, concrete
<1>5. DOMAIN params = DOMAIN args
  BY <1>1
<1>6. \A i \in DOMAIN params : params[i] = name => i = j
  BY <1>1, <1>4 DEF IsInjective
<1>7. (CHOOSE i \in DOMAIN params : params[i] = name) = j
  BY <1>4, <1>6
<1>8. /\ DOMAIN concrete = DOMAIN args
      /\ \A i \in DOMAIN args : concrete[i][1] = params[i] /\ concrete[i][2] = args[i]
  BY <1>2
<1>9. (CHOOSE i \in DOMAIN concrete : concrete[i][1] = name) = j
  BY <1>4, <1>5, <1>6, <1>8
<1>10. args[j] \in Stitch!Arg
  BY <1>1, <1>4, <1>5
<1> QED
  BY <1>3, <1>4, <1>5, <1>7, <1>8, <1>9, <1>10 DEF params, args

(* What is taken of an argument is one of its names or literals.           *)
LEMMA ParsedArgument ==
  ASSUME NEW arg \in Stitch!Arg
  PROVE  /\ \E p \in DOMAIN arg : arg[p].kind # "op" /\ Stitch!parseConcreteVar(arg) = arg[p]
         /\ Len(arg) = 1 => arg = <<Stitch!parseConcreteVar(arg)>>
<1> DEFINE P == {p \in DOMAIN arg : arg[p].kind # "op"}
<1>1. arg \in Seq(Stitch!Plain) /\ P # {}
  BY DEF Stitch!Arg
<1>2. Stitch!parseConcreteVar(arg) = arg[Stitch!Min(P)]
  BY DEF Stitch!parseConcreteVar
<1>3. DOMAIN arg = 1 .. Len(arg) /\ Len(arg) \in Nat
  BY <1>1
<1>4. P \subseteq Nat
  BY <1>3
<1>5. PICK x \in P : \A y \in P : x <= y
  BY <1>1, <1>4, SmallestMember
<1>6. Stitch!Min(P) \in P
  BY <1>5 DEF Stitch!Min
<1>7. ASSUME Len(arg) = 1 PROVE arg = <<Stitch!parseConcreteVar(arg)>>
  <2>1. Stitch!Min(P) = 1
    BY <1>3, <1>6, <1>7
  <2>2. Stitch!parseConcreteVar(arg) = arg[1]
    BY <1>2, <2>1
  <2>3. arg = <<arg[1]>>
    BY <1>1, <1>7
  <2> QED
    BY <2>2, <2>3
<1> QED
  BY <1>2, <1>6, <1>7

LEMMA ReplacedIsSubstituted ==
  ASSUME program \in Programs, SingleArgs, NoGlobals, NEW k \in 1 .. Len(Stitch!AllCalls),
         NEW toks \in Seq(Stitch!Token), \A p \in DOMAIN toks : toks[p] \in Stitch!BodyTokens(Called(k))
  PROVE  Stitch!ReplacedTokens(toks, LoggedFor(k)) = Stitch!Substituted(toks, LoggedFor(k))
<1> DEFINE info == LoggedFor(k)
           h == Called(k)
           params == program.helpers[h].params
           n == Len(toks)
           new == [p \in 1 .. n |-> Stitch!Replaced(toks[p], info)]
           T == {Stitch!Replaced(toks[p], info) : p \in 1 .. n}
           Sub(p) == IF toks[p].kind = "param"
                     THEN Args(k)[CHOOSE i \in DOMAIN params : params[i] = toks[p].name]
                     ELSE IF toks[p].kind = "local" THEN <<[toks[p] EXCEPT !.copy = info.index]>>
                     ELSE <<toks[p]>>
<1>1. n \in Nat /\ DOMAIN toks = 1 .. n /\ h \in DOMAIN program.helpers
  BY CalleeFacts
<1>2. Stitch!ReplacedTokens(toks, info) = new
  BY <1>1 DEF Stitch!ReplacedTokens
<1>3. Stitch!Callee(info.call) = h /\ info.call.tok.args = Args(k)
  BY DEF LoggedFor, Called, Args
<1>4. Stitch!Substituted(toks, info) = FlattenSeq([p \in 1 .. n |-> Sub(p)])
  <2>1. Stitch!Substituted(toks, info) = Stitch!FlattenSeq([p \in 1 .. n |-> Sub(p)])
    BY <1>1, <1>3 DEF Stitch!Substituted, Stitch!helpers
  <2> QED
    BY <2>1, SameFlattenSeq
<1>5. ASSUME NEW p \in 1 .. n PROVE Sub(p) = <<new[p]>>
  <2>1. new[p] = Stitch!Replaced(toks[p], info) /\ toks[p] \in Stitch!BodyTokens(h)
    BY <1>1
  <2>2. CASE toks[p].kind = "param"
    <3>1. PICK j \in DOMAIN params : toks[p].name = params[j]
      BY <1>1, <2>1, <2>2, ProgramFacts
    <3>2. /\ j \in DOMAIN Args(k) /\ Args(k)[j] \in Stitch!Arg
          /\ Stitch!ConcreteArg(info, toks[p].name) = Args(k)[j]
          /\ Sub(p) = Args(k)[j]
      BY <3>1, <2>2, ArgumentOf
    <3>3. Len(Args(k)[j]) = 1
      BY <3>2 DEF SingleArgs
    <3>4. Args(k)[j] = <<Stitch!parseConcreteVar(Args(k)[j])>>
      BY <3>2, <3>3, ParsedArgument
    <3>5. new[p] = Stitch!parseConcreteVar(Args(k)[j])
      BY <2>1, <2>2, <3>2 DEF Stitch!Replaced
    <3> HIDE DEF Sub, new
    <3> QED
      BY <3>2, <3>4, <3>5
  <2>3. CASE toks[p].kind # "param"
    <3>1. toks[p].kind # "global"
      BY <1>1, <2>1 DEF NoGlobals
    <3> QED
      BY <2>1, <2>3, <3>1 DEF Stitch!Replaced
  <2> QED
    BY <2>2, <2>3
<1>6. [p \in 1 .. n |-> Sub(p)] = [p \in 1 .. n |-> <<new[p]>>]
  <2> HIDE DEF Sub, new
  <2> QED
    BY <1>5
<1>7. new \in [1 .. n -> T]
  OBVIOUS
<1> HIDE DEF Sub, new, T, n
<1>8. FlattenSeq([p \in 1 .. n |-> <<new[p]>>]) = new
  BY <1>1, <1>7, FlattenSingles
<1> QED
  BY <1>2, <1>4, <1>6, <1>8

(* When arguments are single, no global is named and no variable is        *)
(* returned bare, what replaces a call is the body of its helper and what  *)
(* it returns, with the arguments for the parameters and the index of the  *)
(* call after the names of the helper's variables                          *)
(* (getSplitWithReplacements).                                             *)
THEOREM CallsReplacedByBody ==
  Spec => [](SingleArgs /\ NoGlobals /\ NoBareReturn => SameBody)
<1>1. ASSUME StitchInv, ProgressInv, SingleArgs, NoGlobals, NoBareReturn PROVE SameBody
  <2> SUFFICES ASSUME NEW k \in DOMAIN stitched
               PROVE  LET info == stitch_exprs[k]
                          h == Stitch!Callee(info.call)
                      IN  /\ stitched[k].return = Stitch!Substituted(Stitch!helpers[h].returns[1], info)
                          /\ Len(stitched[k].body) = Len(Stitch!helpers[h].body)
                          /\ \A b \in DOMAIN stitched[k].body :
                               stitched[k].body[b].toks
                                 = Stitch!Substituted(Stitch!helpers[h].body[b].toks, info)
    BY DEF SameBody, Stitch!SameBody
  <2> DEFINE info == stitch_exprs[k]
             h == Called(k)
             body == program.helpers[h].body
             returns == ReturnsOf(h)
  <2>1. k \in 1 .. Len(stitched) /\ k \in 1 .. replace_index /\ k \in 1 .. Len(Stitch!AllCalls)
    <3>1. k \in 1 .. Len(stitched) /\ Len(stitched) \in 0 .. replace_index
      BY <1>1 DEF StitchInv
    <3>2. program \in Programs /\ replace_index \in 0 .. Len(Stitch!AllCalls)
      BY <1>1, Zenon DEF ProgressInv, LoggedInv
    <3>3. Len(Stitch!AllCalls) \in Nat
      BY <3>2, CallsLength
    <3> QED
      BY <3>1, <3>2, <3>3
  <2>2. info = LoggedFor(k) /\ Stitch!Callee(info.call) = h
    BY <1>1, <2>1 DEF ProgressInv, LoggedInv, LoggedFor, Called
  <2>3. returns # <<>> /\ stitched[k] = Written(k)
    BY <1>1, <2>1 DEF ProgressInv, WrittenInv
  <2>4. program \in Programs /\ h \in DOMAIN program.helpers
    BY <1>1, <2>1, CalleeFacts DEF ProgressInv
  <2>5. /\ Written(k).body = [s \in DOMAIN body |->
               [decl |-> Stitch!Declared(body[s].decl, LoggedFor(k)),
                toks |-> Stitch!ReplacedTokens(body[s].toks, LoggedFor(k))]]
        /\ Written(k).return = Stitch!ReplacedReturn(returns[1], LoggedFor(k))
    BY DEF Written, Stitch!getSplitWithReplacements, Stitch!helpers, ReturnsOf
  <2>6. Written(k).return = Stitch!Substituted(returns[1], LoggedFor(k))
    <3>1. returns[1] \in Seq(Stitch!Token) /\ 1 \in DOMAIN returns
          /\ \A p \in DOMAIN returns[1] : returns[1][p] \in Stitch!BodyTokens(h)
      BY <2>3, <2>4, HelperFacts
    <3>2. Stitch!ReplacedTokens(returns[1], LoggedFor(k)) = Stitch!Substituted(returns[1], LoggedFor(k))
      BY <1>1, <2>1, <2>4, <3>1, ReplacedIsSubstituted
    <3>3. ~ (Len(returns[1]) = 1 /\ returns[1][1].kind \in {"local", "global"})
      <4> SUFFICES ASSUME Len(returns[1]) = 1 PROVE returns[1][1].kind \notin {"local", "global"}
        OBVIOUS
      <4>1. 1 \in DOMAIN returns[1]
        BY <3>1
      <4>2. returns[1][1].kind # "global"
        BY <1>1, <2>4, <3>1, <4>1 DEF NoGlobals
      <4>3. returns[1][1].kind # "local"
        BY <1>1, <2>4, <3>1 DEF NoBareReturn
      <4> QED
        BY <4>2, <4>3
    <3> QED
      BY <2>5, <3>2, <3>3 DEF Stitch!ReplacedReturn
  <2>7. Len(body) \in Nat /\ DOMAIN body = 1 .. Len(body)
    BY <2>4, HelperFacts
  <2>8. Len(Written(k).body) = Len(body) /\ DOMAIN Written(k).body = DOMAIN body
    <3> HIDE DEF body
    <3> QED
      BY <2>5, <2>7
  <2>9. ASSUME NEW b \in DOMAIN body
        PROVE  Written(k).body[b].toks = Stitch!Substituted(body[b].toks, LoggedFor(k))
    <3>1. Written(k).body[b].toks = Stitch!ReplacedTokens(body[b].toks, LoggedFor(k))
      BY <2>5
    <3>2. body[b].toks \in Seq(Stitch!Token)
          /\ \A p \in DOMAIN body[b].toks : body[b].toks[p] \in Stitch!BodyTokens(h)
      BY <2>4, HelperFacts
    <3>3. Stitch!ReplacedTokens(body[b].toks, LoggedFor(k)) = Stitch!Substituted(body[b].toks, LoggedFor(k))
      BY <1>1, <2>1, <2>4, <3>2, ReplacedIsSubstituted
    <3> QED
      BY <3>1, <3>3
  <2> QED
    BY <2>2, <2>3, <2>6, <2>8, <2>9 DEF Stitch!helpers, ReturnsOf
<1>2. StitchInv /\ ProgressInv => (SingleArgs /\ NoGlobals /\ NoBareReturn => SameBody)
  BY <1>1
<1> QED
  BY <1>2, ProgressSafe, PTL

-----------------------------------------------------------------------------
(***************************************************************************)
(* The tokens and statements the pass writes.                              *)
(***************************************************************************)

Kinds == {"op", "lit", "local", "global", "param", "fn", "call"}
AnyToken == [kind : Kinds, name : STRING, copy : Int, args : Seq(Stitch!Arg)]
AnyName == [name : STRING, copy : Int]
AnyStatement == [decl : SUBSET AnyName, inner : SUBSET AnyName, toks : Seq(AnyToken)]

NameOf(t) == [name |-> t.name, copy |-> t.copy]

LEMMA TokenTyped ==
  /\ \A t \in Stitch!Token : t \in AnyToken /\ t.copy = -1
  /\ \A t \in Stitch!Plain : t \in AnyToken /\ t.copy = -1 /\ t.kind # "call"
  /\ Stitch!Name \subseteq AnyName
<1> DEFINE ArgSeq == Seq(Stitch!Arg)
<1>1. /\ <<>> \in ArgSeq /\ Stitch!Unsuffixed = -1 /\ Stitch!Unsuffixed \in Int
  <2>1. <<>> \in ArgSeq
    OBVIOUS
  <2>2. Stitch!Unsuffixed = -1 /\ Stitch!Unsuffixed \in Int
    BY DEF Stitch!Unsuffixed
  <2> QED
    BY <2>1, <2>2
<1> HIDE DEF ArgSeq
<1>2. ASSUME NEW t \in Stitch!Plain PROVE t \in AnyToken /\ t.copy = -1 /\ t.kind # "call"
  <2>1. t \in [kind : {"op", "lit", "local", "global", "param", "fn"}, name : STRING,
               copy : {Stitch!Unsuffixed}, args : {<<>>}]
    BY DEF Stitch!Plain
  <2>2. t \in [kind : Kinds, name : STRING, copy : Int, args : ArgSeq]
    BY <1>1, <2>1 DEF Kinds
  <2>3. t.copy = -1 /\ t.kind # "call"
    BY <1>1, <2>1
  <2> QED
    BY <2>2, <2>3 DEF AnyToken, ArgSeq
<1>3. ASSUME NEW t \in [kind : {"call"}, name : STRING, copy : {Stitch!Unsuffixed}, args : Seq(Stitch!Arg)]
      PROVE  t \in AnyToken /\ t.copy = -1
  <2>1. t \in [kind : {"call"}, name : STRING, copy : {Stitch!Unsuffixed}, args : ArgSeq]
    BY DEF ArgSeq
  <2>2. t \in [kind : Kinds, name : STRING, copy : Int, args : ArgSeq]
    BY <1>1, <2>1 DEF Kinds
  <2>3. t.copy = -1
    BY <1>1, <2>1
  <2> QED
    BY <2>2, <2>3 DEF AnyToken, ArgSeq
<1>4. Stitch!Name \subseteq AnyName
  BY DEF Stitch!Name, AnyName, Stitch!Unsuffixed
<1> QED
  BY <1>2, <1>3, <1>4 DEF Stitch!Token

(* What a token of the callee becomes.                                     *)
LEMMA ReplacedFacts ==
  ASSUME program \in Programs, NEW k \in 1 .. Len(Stitch!AllCalls),
         NEW t \in Stitch!Token, t \in Stitch!BodyTokens(Called(k)), NEW u,
         u = Stitch!Replaced(t, LoggedFor(k))
  PROVE  /\ u \in AnyToken
         /\ t.kind = "param" =>
              \E j \in DOMAIN Args(k) : \E p \in DOMAIN Args(k)[j] : u = Args(k)[j][p]
         /\ t.kind \in {"local", "global"} =>
              u.kind = t.kind /\ NameOf(u) = [name |-> t.name, copy |-> k - 1]
         /\ t.kind \notin {"param", "local", "global"} => u = t
         /\ u.kind = "call" => t.kind = "call"
<1>1. CASE t.kind = "param"
  <2>1. Called(k) \in DOMAIN program.helpers
    BY CalleeFacts
  <2>2. PICK j \in DOMAIN program.helpers[Called(k)].params :
          t.name = program.helpers[Called(k)].params[j]
    BY <1>1, <2>1, ProgramFacts
  <2>3. /\ j \in DOMAIN Args(k) /\ Args(k)[j] \in Stitch!Arg
        /\ Stitch!ConcreteArg(LoggedFor(k), t.name) = Args(k)[j]
    BY <2>2, ArgumentOf
  <2>4. u = Stitch!parseConcreteVar(Args(k)[j])
    BY <1>1, <2>3 DEF Stitch!Replaced
  <2>5. PICK p \in DOMAIN Args(k)[j] : u = Args(k)[j][p]
    BY <2>3, <2>4, ParsedArgument
  <2>6. u \in Stitch!Plain
    BY <2>3, <2>5 DEF Stitch!Arg
  <2> QED
    BY <1>1, <2>3, <2>5, <2>6, TokenTyped
<1>2. CASE t.kind \in {"local", "global"}
  <2>1. u = [t EXCEPT !.copy = k - 1]
    BY <1>2 DEF Stitch!Replaced, LoggedFor
  <2>2. t \in AnyToken /\ k - 1 \in Int
    BY TokenTyped
  <2>3. u \in AnyToken /\ u.kind = t.kind /\ u.name = t.name /\ u.copy = k - 1
    BY <2>1, <2>2 DEF AnyToken
  <2> QED
    BY <1>2, <2>3 DEF NameOf
<1>3. CASE t.kind \notin {"param", "local", "global"}
  BY <1>3, TokenTyped DEF Stitch!Replaced
<1> QED
  BY <1>1, <1>2, <1>3

(* The statement inserted for statement b of the body of the callee.       *)
InsertedStmt(k, b) ==
  [decl |-> Written(k).body[b].decl, inner |-> {}, toks |-> Written(k).body[b].toks]

BodyOf(h) == program.helpers[h].body

LEMMA WrittenBody ==
  ASSUME program \in Programs, NEW k \in 1 .. Len(Stitch!AllCalls)
  PROVE  /\ DOMAIN Written(k).body = DOMAIN BodyOf(Called(k))
         /\ \A b \in DOMAIN BodyOf(Called(k)) :
              /\ InsertedStmt(k, b) \in AnyStatement
              /\ InsertedStmt(k, b).decl
                   = {[name |-> v, copy |-> k - 1] : v \in BodyOf(Called(k))[b].decl}
              /\ \A p \in DOMAIN InsertedStmt(k, b).toks :
                   /\ p \in DOMAIN BodyOf(Called(k))[b].toks
                   /\ InsertedStmt(k, b).toks[p]
                        = Stitch!Replaced(BodyOf(Called(k))[b].toks[p], LoggedFor(k))
<1> DEFINE h == Called(k)
           body == BodyOf(h)
           info == LoggedFor(k)
<1>1. h \in DOMAIN program.helpers
  BY CalleeFacts
<1>2. \A b \in DOMAIN body :
        /\ body[b].decl \subseteq STRING /\ body[b].toks \in Seq(Stitch!Token)
        /\ \A p \in DOMAIN body[b].toks : body[b].toks[p] \in Stitch!BodyTokens(h)
  BY <1>1, HelperFacts DEF BodyOf
<1>3. Written(k).body = [b \in DOMAIN body |->
                          [decl |-> Stitch!Declared(body[b].decl, info),
                           toks |-> Stitch!ReplacedTokens(body[b].toks, info)]]
  BY DEF Written, Stitch!getSplitWithReplacements, Stitch!helpers, BodyOf
<1>4. info.index = k - 1 /\ k - 1 \in Int
  BY DEF LoggedFor
<1>5. ASSUME NEW b \in DOMAIN body
      PROVE  /\ InsertedStmt(k, b) \in AnyStatement
             /\ InsertedStmt(k, b).decl = {[name |-> v, copy |-> k - 1] : v \in body[b].decl}
             /\ \A p \in DOMAIN InsertedStmt(k, b).toks :
                  /\ p \in DOMAIN body[b].toks
                  /\ InsertedStmt(k, b).toks[p] = Stitch!Replaced(body[b].toks[p], info)
  <2> DEFINE toks == body[b].toks
             new == Stitch!ReplacedTokens(toks, info)
             decl == {[name |-> v, copy |-> k - 1] : v \in body[b].decl}
  <2>1. InsertedStmt(k, b) = [decl |-> decl, inner |-> {}, toks |-> new]
    <3>1. Written(k).body[b] = [decl |-> Stitch!Declared(body[b].decl, info), toks |-> new]
      BY <1>3
    <3>2. Stitch!Declared(body[b].decl, info) = decl
      BY <1>4 DEF Stitch!Declared
    <3> QED
      BY <3>1, <3>2 DEF InsertedStmt
  <2>2. /\ toks \in Seq(Stitch!Token) /\ body[b].decl \subseteq STRING
        /\ \A p \in DOMAIN toks : toks[p] \in Stitch!BodyTokens(h)
    BY <1>2
  <2>3. new = [p \in DOMAIN toks |-> Stitch!Replaced(toks[p], info)]
    BY DEF Stitch!ReplacedTokens
  <2> HIDE DEF toks, new, info
  <2>4. DOMAIN toks = 1 .. Len(toks) /\ Len(toks) \in Nat
    BY <2>2
  <2>5. \A p \in DOMAIN toks : Stitch!Replaced(toks[p], info) \in AnyToken
    <3> TAKE p \in DOMAIN toks
    <3>1. toks[p] \in Stitch!Token /\ toks[p] \in Stitch!BodyTokens(h)
      BY <2>2, <2>4
    <3> QED
      BY <3>1, ReplacedFacts DEF info
  <2>6. new \in Seq(AnyToken)
    BY <2>3, <2>4, <2>5
  <2>7. decl \subseteq AnyName
    BY <1>4, <2>2 DEF AnyName
  <2>8. InsertedStmt(k, b) \in AnyStatement
    BY <2>1, <2>6, <2>7 DEF AnyStatement
  <2>9. \A p \in DOMAIN InsertedStmt(k, b).toks :
          p \in DOMAIN toks /\ InsertedStmt(k, b).toks[p] = Stitch!Replaced(toks[p], info)
    BY <2>1, <2>3
  <2> QED
    BY <2>1, <2>8, <2>9 DEF toks
<1> QED
  BY <1>3, <1>5

LEMMA WrittenReturn ==
  ASSUME program \in Programs, NEW k \in 1 .. Len(Stitch!AllCalls), ReturnsOf(Called(k)) # <<>>
  PROVE  /\ Written(k).return \in Seq(AnyToken)
         /\ \A p \in DOMAIN Written(k).return :
              /\ p \in DOMAIN ReturnsOf(Called(k))[1]
              /\ ReturnsOf(Called(k))[1][p] \in Stitch!Token
              /\ ReturnsOf(Called(k))[1][p] \in Stitch!BodyTokens(Called(k))
              /\ \/ Written(k).return[p] = Stitch!Replaced(ReturnsOf(Called(k))[1][p], LoggedFor(k))
                 \/ /\ Len(ReturnsOf(Called(k))[1]) = 1
                    /\ ReturnsOf(Called(k))[1][1].kind \in {"local", "global"}
                    /\ Written(k).return[p] = ReturnsOf(Called(k))[1][p]
<1> DEFINE h == Called(k)
           toks == ReturnsOf(h)[1]
           info == LoggedFor(k)
           new == Written(k).return
<1>1. h \in DOMAIN program.helpers
  BY CalleeFacts
<1>2. toks \in Seq(Stitch!Token) /\ \A p \in DOMAIN toks : toks[p] \in Stitch!BodyTokens(h)
  BY <1>1, HelperFacts
<1>3. new = IF Len(toks) = 1 /\ toks[1].kind \in {"local", "global"}
            THEN toks ELSE [p \in DOMAIN toks |-> Stitch!Replaced(toks[p], info)]
  BY DEF Written, Stitch!getSplitWithReplacements, Stitch!ReplacedReturn, Stitch!ReplacedTokens,
         Stitch!helpers, ReturnsOf
<1> HIDE DEF toks, new, info
<1>4. DOMAIN toks = 1 .. Len(toks) /\ Len(toks) \in Nat
  BY <1>2
<1>5. ASSUME NEW p \in DOMAIN toks
      PROVE  /\ toks[p] \in Stitch!Token /\ toks[p] \in AnyToken
             /\ Stitch!Replaced(toks[p], info) \in AnyToken
  <2>1. toks[p] \in Stitch!Token /\ toks[p] \in Stitch!BodyTokens(h)
    BY <1>2, <1>4
  <2> QED
    BY <2>1, TokenTyped, ReplacedFacts DEF info
<1>6. new \in Seq(AnyToken)
  <2>1. toks \in Seq(AnyToken)
    BY <1>2, <1>4, <1>5
  <2>2. [p \in DOMAIN toks |-> Stitch!Replaced(toks[p], info)] \in Seq(AnyToken)
    BY <1>4, <1>5
  <2> QED
    BY <1>3, <2>1, <2>2
<1>7. \A p \in DOMAIN new :
        /\ p \in DOMAIN toks
        /\ \/ new[p] = Stitch!Replaced(toks[p], info)
           \/ Len(toks) = 1 /\ toks[1].kind \in {"local", "global"} /\ new[p] = toks[p]
  BY <1>3
<1> QED
  BY <1>2, <1>5, <1>6, <1>7 DEF toks, new, info

-----------------------------------------------------------------------------
(***************************************************************************)
(* The rewritten functions, once the pass is done.                         *)
(***************************************************************************)

IsDone == StitchInv /\ ProgressInv /\ stitch_pc = "done"

LEMMA DoneFacts ==
  ASSUME IsDone
  PROVE  /\ program \in Programs /\ Len(Stitch!AllCalls) \in Nat
         /\ DOMAIN stitched = 1 .. Len(Stitch!AllCalls)
         /\ \A k \in 1 .. Len(Stitch!AllCalls) :
              stitch_exprs[k] = LoggedFor(k) /\ stitched[k] = Written(k) /\ ReturnsOf(Called(k)) # <<>>
<1>1. program \in Programs /\ Len(Stitch!AllCalls) \in Nat
  BY CallsLength DEF IsDone, ProgressInv
<1>2. Len(stitched) = Len(Stitch!AllCalls) /\ replace_index = Len(Stitch!AllCalls)
  BY DEF IsDone, ProgressInv, WrittenInv, LoggedInv
<1>3. DOMAIN stitched = 1 .. Len(Stitch!AllCalls)
  BY <1>2 DEF IsDone, StitchInv
<1>4. \A k \in 1 .. Len(Stitch!AllCalls) :
        stitch_exprs[k] = LoggedFor(k) /\ stitched[k] = Written(k) /\ ReturnsOf(Called(k)) # <<>>
  BY <1>2 DEF IsDone, ProgressInv, LoggedInv, WrittenInv
<1> QED
  BY <1>1, <1>3, <1>4

(* The calls a statement contains, in the order of the text.               *)
IsCallOf(k, f, s) == Stitch!AllCalls[k].fn = f /\ Stitch!AllCalls[k].base_stmt = s

AreCallsOf(at, f, s) ==
  /\ at \in Seq(1 .. Len(Stitch!AllCalls))
  /\ \A i \in 1 .. Len(at) : at[i] \in 1 .. Len(Stitch!AllCalls) /\ IsCallOf(at[i], f, s)
  /\ \A k \in 1 .. Len(Stitch!AllCalls) : IsCallOf(k, f, s) => \E i \in 1 .. Len(at) : at[i] = k
  /\ \A i, j \in 1 .. Len(at) : at[i] = at[j] => i = j

LEMMA StitchedAtFacts ==
  ASSUME IsDone, NEW f, NEW s
  PROVE  AreCallsOf(Stitch!StitchedAt(f, s), f, s)
<1> DEFINE n == Len(Stitch!AllCalls)
           e == [k \in 1 .. n |-> k]
           S == {k \in 1 .. n : IsCallOf(k, f, s)}
           flat == FlattenSeq(Filtered(e, n, S))
<1>1. n \in Nat /\ e \in [1 .. n -> 1 .. n] /\ IsInjective(e)
  BY DoneFacts DEF IsInjective
<1>2. Stitch!StitchedAt(f, s) = flat
  <2>1. [k \in DOMAIN stitched |->
           IF stitch_exprs[k].call.fn = f /\ stitch_exprs[k].call.base_stmt = s
           THEN <<k>> ELSE <<>>] = Filtered(e, n, S)
    <3>1. \A k \in 1 .. n : stitch_exprs[k].call = Stitch!AllCalls[k]
      <4>1. \A k \in 1 .. n : stitch_exprs[k] = LoggedFor(k)
        BY DoneFacts
      <4>2. \A k : LoggedFor(k).call = Stitch!AllCalls[k]
        BY DEF LoggedFor
      <4> QED
        BY <4>1, <4>2
    <3>2. DOMAIN stitched = 1 .. n
      BY DoneFacts
    <3>3. \A k \in 1 .. n : e[k] = k
      OBVIOUS
    <3> HIDE DEF e, n
    <3> QED
      BY <3>1, <3>2, <3>3 DEF Filtered, IsCallOf
  <2>2. Stitch!StitchedAt(f, s) = Stitch!FlattenSeq(Filtered(e, n, S))
    BY <2>1 DEF Stitch!StitchedAt
  <2> QED
    BY <2>2, SameFlattenSeq
<1>3. \A k \in 1 .. n : e[k] = k /\ (k \in S <=> IsCallOf(k, f, s))
  OBVIOUS
<1> HIDE DEF e, S
<1>4. TakesFrom(flat, 1 .. n, e, n, S)
  BY <1>1, FlattenFiltered
<1> HIDE DEF flat
<1>5. flat \in Seq(1 .. n) /\ IsInjective(flat)
  BY <1>1, <1>4 DEF TakesFrom
<1>6. \A i \in 1 .. Len(flat) : flat[i] \in 1 .. n /\ IsCallOf(flat[i], f, s)
  BY <1>3, <1>4 DEF TakesFrom
<1>7. \A k \in 1 .. n : IsCallOf(k, f, s) => \E i \in 1 .. Len(flat) : flat[i] = k
  BY <1>3, <1>4 DEF TakesFrom
<1>8. \A i, j \in 1 .. Len(flat) : flat[i] = flat[j] => i = j
  BY <1>5 DEF IsInjective
<1> QED
  BY <1>2, <1>5, <1>6, <1>7, <1>8 DEF AreCallsOf

(* The bodies inserted for these calls.                                    *)
InsertedFor(at) ==
  [i \in 1 .. Len(at) |-> [b \in DOMAIN BodyOf(Called(at[i])) |-> InsertedStmt(at[i], b)]]

LEMMA InsertedFacts ==
  ASSUME IsDone, NEW at \in Seq(1 .. Len(Stitch!AllCalls))
  PROVE  /\ Stitch!Inserted(at) = FlattenSeq(InsertedFor(at))
         /\ InsertedFor(at) \in Seq(Seq(AnyStatement))
         /\ Len(InsertedFor(at)) = Len(at)
         /\ \A i \in 1 .. Len(at) :
              /\ Len(InsertedFor(at)[i]) = Len(BodyOf(Called(at[i])))
              /\ DOMAIN BodyOf(Called(at[i])) = 1 .. Len(BodyOf(Called(at[i])))
              /\ \A b \in 1 .. Len(BodyOf(Called(at[i]))) :
                   InsertedFor(at)[i][b] = InsertedStmt(at[i], b)
<1>1. DOMAIN at = 1 .. Len(at) /\ Len(at) \in Nat
      /\ \A i \in 1 .. Len(at) : at[i] \in 1 .. Len(Stitch!AllCalls)
  OBVIOUS
<1>2. program \in Programs
  BY DoneFacts
<1>3. ASSUME NEW i \in 1 .. Len(at)
      PROVE  /\ [b \in DOMAIN stitched[at[i]].body |->
                  [decl |-> stitched[at[i]].body[b].decl, inner |-> {},
                   toks |-> stitched[at[i]].body[b].toks]]
                = [b \in DOMAIN BodyOf(Called(at[i])) |-> InsertedStmt(at[i], b)]
             /\ [b \in DOMAIN BodyOf(Called(at[i])) |-> InsertedStmt(at[i], b)] \in Seq(AnyStatement)
             /\ Len([b \in DOMAIN BodyOf(Called(at[i])) |-> InsertedStmt(at[i], b)])
                  = Len(BodyOf(Called(at[i])))
             /\ DOMAIN BodyOf(Called(at[i])) = 1 .. Len(BodyOf(Called(at[i])))
  <2> DEFINE k == at[i]
             body == BodyOf(Called(k))
  <2>1. k \in 1 .. Len(Stitch!AllCalls) /\ stitched[k] = Written(k)
    BY <1>1, DoneFacts
  <2>2. /\ DOMAIN Written(k).body = DOMAIN body
        /\ \A b \in DOMAIN body : InsertedStmt(k, b) \in AnyStatement
    BY <1>2, <2>1, WrittenBody
  <2>3. Len(body) \in Nat /\ DOMAIN body = 1 .. Len(body)
    BY <1>2, <2>1, CalleeFacts, HelperFacts DEF BodyOf
  <2> HIDE DEF k, body
  <2>4. [b \in DOMAIN stitched[k].body |->
           [decl |-> stitched[k].body[b].decl, inner |-> {}, toks |-> stitched[k].body[b].toks]]
          = [b \in DOMAIN body |-> InsertedStmt(k, b)]
    BY <2>1, <2>2 DEF InsertedStmt
  <2>5. /\ [b \in DOMAIN body |-> InsertedStmt(k, b)] \in Seq(AnyStatement)
        /\ Len([b \in DOMAIN body |-> InsertedStmt(k, b)]) = Len(body)
    BY <2>2, <2>3
  <2> QED
    BY <2>3, <2>4, <2>5 DEF k, body
<1> DEFINE row(i) == [b \in DOMAIN BodyOf(Called(at[i])) |-> InsertedStmt(at[i], b)]
           ins == InsertedFor(at)
<1>4. Stitch!Inserted(at) = FlattenSeq(ins)
  <2>1. [i \in DOMAIN at |-> [b \in DOMAIN stitched[at[i]].body |->
           [decl |-> stitched[at[i]].body[b].decl, inner |-> {},
            toks |-> stitched[at[i]].body[b].toks]]] = ins
    BY <1>1, <1>3 DEF InsertedFor
  <2>2. Stitch!Inserted(at) = Stitch!FlattenSeq(ins)
    BY <2>1 DEF Stitch!Inserted
  <2> QED
    BY <2>2, SameFlattenSeq
<1>5. ins = [i \in 1 .. Len(at) |-> row(i)]
  BY DEF InsertedFor
<1>6. \A i \in 1 .. Len(at) :
        /\ row(i) \in Seq(AnyStatement) /\ Len(row(i)) = Len(BodyOf(Called(at[i])))
        /\ DOMAIN BodyOf(Called(at[i])) = 1 .. Len(BodyOf(Called(at[i])))
        /\ \A b \in 1 .. Len(BodyOf(Called(at[i]))) : row(i)[b] = InsertedStmt(at[i], b)
  BY <1>3
<1> HIDE DEF row, ins
<1>7. ins \in Seq(Seq(AnyStatement)) /\ Len(ins) = Len(at)
  BY <1>1, <1>5, <1>6
<1>8. \A i \in 1 .. Len(at) : ins[i] = row(i)
  BY <1>5
<1> QED
  BY <1>4, <1>6, <1>7, <1>8 DEF ins

(* What stands in statement s in the place of the calls in it: a token of  *)
(* it that is no replaced call, or one that a call returns.                *)
IsRewritten(u, toks, at) ==
  \/ \E p \in 1 .. Len(toks) : Stitch!CallAt(at, p) = {} /\ u = toks[p]
  \/ \E i \in 1 .. Len(at) : \E q \in 1 .. Len(Written(at[i]).return) :
       u = Written(at[i]).return[q]

LEMMA RewrittenFacts ==
  ASSUME IsDone, NEW at \in Seq(1 .. Len(Stitch!AllCalls)), NEW toks \in Seq(Stitch!Token)
  PROVE  /\ Stitch!Rewritten(toks, at) \in Seq(AnyToken)
         /\ \A j \in 1 .. Len(Stitch!Rewritten(toks, at)) :
              IsRewritten(Stitch!Rewritten(toks, at)[j], toks, at)
<1> DEFINE n == Len(toks)
           calls(p) == Stitch!CallAt(at, p)
           chosen(p) == CHOOSE i \in calls(p) : TRUE
           e == [p \in 1 .. n |-> IF calls(p) = {} THEN <<toks[p]>>
                                  ELSE stitched[at[chosen(p)]].return]
           flat == FlattenSeq(e)
<1>1. n \in Nat /\ DOMAIN toks = 1 .. n /\ DOMAIN at = 1 .. Len(at)
      /\ \A i \in 1 .. Len(at) : at[i] \in 1 .. Len(Stitch!AllCalls)
  OBVIOUS
<1>2. Stitch!Rewritten(toks, at) = flat
  <2>1. Stitch!Rewritten(toks, at) = Stitch!FlattenSeq(e)
    BY <1>1 DEF Stitch!Rewritten
  <2> QED
    BY <2>1, SameFlattenSeq
<1>3. \A p : calls(p) \subseteq 1 .. Len(at)
  BY <1>1 DEF Stitch!CallAt
<1> HIDE DEF calls
<1>4. ASSUME NEW p \in 1 .. n, calls(p) = {}
      PROVE  e[p] \in Seq(AnyToken) /\ Len(e[p]) = 1 /\ e[p][1] = toks[p]
  <2>1. e[p] = <<toks[p]>>
    BY <1>4
  <2>2. toks[p] \in AnyToken
    BY <1>1, TokenTyped
  <2> HIDE DEF e
  <2> QED
    BY <2>1, <2>2
<1>5. ASSUME NEW p \in 1 .. n, calls(p) # {}
      PROVE  /\ chosen(p) \in 1 .. Len(at)
             /\ e[p] = Written(at[chosen(p)]).return /\ e[p] \in Seq(AnyToken)
  <2>1. chosen(p) \in 1 .. Len(at)
    BY <1>3, <1>5
  <2>2. e[p] = stitched[at[chosen(p)]].return
    BY <1>5
  <2> HIDE DEF chosen, e
  <2>3. /\ at[chosen(p)] \in 1 .. Len(Stitch!AllCalls)
        /\ stitched[at[chosen(p)]] = Written(at[chosen(p)])
        /\ ReturnsOf(Called(at[chosen(p)])) # <<>> /\ program \in Programs
    BY <1>1, <2>1, DoneFacts
  <2> QED
    BY <2>1, <2>2, <2>3, WrittenReturn
<1>6. e \in Seq(Seq(AnyToken)) /\ Len(e) = n
  <2>1. DOMAIN e = 1 .. n /\ e = [p \in 1 .. n |-> e[p]]
    OBVIOUS
  <2> HIDE DEF e, chosen
  <2>2. \A p \in 1 .. n : e[p] \in Seq(AnyToken)
    BY <1>4, <1>5
  <2> QED
    BY <1>1, <2>1, <2>2
<1> HIDE DEF e
<1>7. HoldsAll(flat, AnyToken, e)
  BY <1>6, FlattenElements
<1> HIDE DEF flat
<1>8. ASSUME NEW j \in 1 .. Len(flat) PROVE IsRewritten(flat[j], toks, at)
  <2>1. PICK p \in 1 .. n : \E q \in 1 .. Len(e[p]) : flat[j] = e[p][q]
    BY <1>6, <1>7 DEF HoldsAll
  <2>2. PICK q \in 1 .. Len(e[p]) : flat[j] = e[p][q]
    BY <2>1
  <2>3. CASE calls(p) = {}
    <3>1. q = 1 /\ flat[j] = toks[p]
      BY <1>4, <2>2, <2>3
    <3> QED
      BY <2>3, <3>1 DEF IsRewritten, calls
  <2>4. CASE calls(p) # {}
    <3> HIDE DEF chosen
    <3> QED
      BY <1>5, <2>2, <2>4 DEF IsRewritten
  <2> QED
    BY <2>3, <2>4
<1> QED
  BY <1>2, <1>7, <1>8 DEF HoldsAll

(* The rows of the result: what a statement of function f becomes.         *)
Stmt(f, s) == program.functions[f][s]
At(f, s) == Stitch!StitchedAt(f, s)
RowOf(f, s) == Stitch!ResultAt(Stmt(f, s), At(f, s))
ClosingStatement(f, s) ==
  [decl |-> Stmt(f, s).decl, inner |-> Stmt(f, s).inner,
   toks |-> Stitch!Rewritten(Stmt(f, s).toks, At(f, s))]
RowsOf(f) == [s \in 1 .. Len(program.functions[f]) |-> RowOf(f, s)]

LEMMA RowFacts ==
  ASSUME IsDone, NEW f \in DOMAIN program.functions, NEW s \in DOMAIN program.functions[f]
  PROVE  /\ RowOf(f, s) \in Seq(AnyStatement)
         /\ Len(Stitch!Inserted(At(f, s))) \in Nat
         /\ Len(RowOf(f, s)) = Len(Stitch!Inserted(At(f, s))) + 1
         /\ \A c \in 1 .. Len(Stitch!Inserted(At(f, s))) :
              RowOf(f, s)[c] = Stitch!Inserted(At(f, s))[c]
         /\ RowOf(f, s)[Len(Stitch!Inserted(At(f, s))) + 1] = ClosingStatement(f, s)
<1> DEFINE at == At(f, s)
           flat == Stitch!Inserted(at)
           last == ClosingStatement(f, s)
<1>1. program \in Programs
  BY DoneFacts
<1>2. at \in Seq(1 .. Len(Stitch!AllCalls))
  BY StitchedAtFacts DEF AreCallsOf, At
<1>3. flat \in Seq(AnyStatement)
  BY <1>2, InsertedFacts, FlattenElements DEF HoldsAll
<1>4. last \in AnyStatement
  <2>1. /\ Stmt(f, s).toks \in Seq(Stitch!Token)
        /\ Stmt(f, s).decl \subseteq Stitch!Name /\ Stmt(f, s).inner \subseteq Stitch!Name
    BY <1>1, FunctionFacts DEF Stmt
  <2>2. Stitch!Rewritten(Stmt(f, s).toks, at) \in Seq(AnyToken)
    BY <1>2, <2>1, RewrittenFacts
  <2>3. Stmt(f, s).decl \subseteq AnyName /\ Stmt(f, s).inner \subseteq AnyName
    BY <2>1, TokenTyped
  <2> QED
    BY <2>2, <2>3 DEF ClosingStatement, AnyStatement
<1>5. RowOf(f, s) = flat \o <<last>>
  BY DEF RowOf, Stitch!ResultAt, ClosingStatement
<1> HIDE DEF at, flat, last
<1>6. <<last>> \in Seq(AnyStatement) /\ Len(<<last>>) = 1 /\ <<last>>[1] = last
  BY <1>4
<1>7. IsConcat(flat \o <<last>>, AnyStatement, flat, <<last>>)
  BY <1>3, <1>6, ConcatFacts
<1>8. /\ flat \o <<last>> \in Seq(AnyStatement) /\ Len(flat) \in Nat
      /\ Len(flat \o <<last>>) = Len(flat) + 1
      /\ \A c \in 1 .. Len(flat) : (flat \o <<last>>)[c] = flat[c]
      /\ (flat \o <<last>>)[Len(flat) + 1] = last
  BY <1>6, <1>7 DEF IsConcat
<1> QED
  BY <1>5, <1>8 DEF at, flat, last

LEMMA ResultFacts ==
  ASSUME IsDone, NEW f \in DOMAIN program.functions
  PROVE  /\ Stitch!Result(f) = FlattenSeq(RowsOf(f))
         /\ RowsOf(f) \in Seq(Seq(AnyStatement))
         /\ Len(RowsOf(f)) = Len(program.functions[f])
         /\ Len(program.functions[f]) \in Nat
         /\ DOMAIN program.functions[f] = 1 .. Len(program.functions[f])
         /\ \A s \in 1 .. Len(program.functions[f]) : RowsOf(f)[s] = RowOf(f, s)
<1> DEFINE n == Len(program.functions[f])
<1>1. n \in Nat /\ DOMAIN program.functions[f] = 1 .. n
  BY DoneFacts, FunctionFacts
<1>2. Stitch!Result(f) = FlattenSeq(RowsOf(f))
  <2>1. Stitch!Result(f) = Stitch!FlattenSeq(RowsOf(f))
    BY <1>1 DEF Stitch!Result, RowsOf, RowOf, Stmt, At
  <2> QED
    BY <2>1, SameFlattenSeq
<1>3. \A s \in 1 .. n : RowOf(f, s) \in Seq(AnyStatement)
  BY <1>1, RowFacts
<1> QED
  BY <1>1, <1>2, <1>3 DEF RowsOf

(* What row s of function f consists of.                                   *)
LEMMA RowStatement ==
  ASSUME IsDone, NEW f \in DOMAIN program.functions, NEW s \in DOMAIN program.functions[f],
         NEW c \in 1 .. Len(RowOf(f, s))
  PROVE  \/ \E k \in 1 .. Len(Stitch!AllCalls) : \E b \in DOMAIN BodyOf(Called(k)) :
              IsCallOf(k, f, s) /\ RowOf(f, s)[c] = InsertedStmt(k, b)
         \/ RowOf(f, s)[c] = ClosingStatement(f, s)
<1> DEFINE at == At(f, s)
           flat == Stitch!Inserted(at)
           ins == InsertedFor(at)
<1>1. AreCallsOf(at, f, s)
  BY StitchedAtFacts DEF At
<1>2. at \in Seq(1 .. Len(Stitch!AllCalls))
  BY <1>1 DEF AreCallsOf
<1>3. CASE c \in 1 .. Len(flat)
  <2>1. RowOf(f, s)[c] = flat[c]
    BY <1>3, RowFacts
  <2>2. HoldsAll(flat, AnyStatement, ins)
    BY <1>2, InsertedFacts, FlattenElements
  <2>3. PICK i \in 1 .. Len(ins) : \E b \in 1 .. Len(ins[i]) : flat[c] = ins[i][b]
    BY <1>3, <2>2 DEF HoldsAll
  <2>4. PICK b \in 1 .. Len(ins[i]) : flat[c] = ins[i][b]
    BY <2>3
  <2>5. /\ i \in 1 .. Len(at) /\ b \in DOMAIN BodyOf(Called(at[i]))
        /\ flat[c] = InsertedStmt(at[i], b)
    BY <1>2, <2>3, <2>4, InsertedFacts
  <2>6. at[i] \in 1 .. Len(Stitch!AllCalls) /\ IsCallOf(at[i], f, s)
    BY <1>1, <2>5 DEF AreCallsOf
  <2> QED
    BY <2>1, <2>5, <2>6
<1>4. CASE c \notin 1 .. Len(flat)
  <2>1. c = Len(flat) + 1
    BY <1>4, RowFacts
  <2> QED
    BY <2>1, RowFacts
<1> QED
  BY <1>3, <1>4

-----------------------------------------------------------------------------
(***************************************************************************)
(* No call is left.                                                        *)
(***************************************************************************)

(* The calls of helpers are in functions only: those in a helper are       *)
(* logged too, but what is inserted for it is its original text.           *)
NoNestedCalls ==
  \A h \in DOMAIN program.helpers : \A t \in Stitch!BodyTokens(h) : t.kind # "call"

LEMMA InsertedHasNoCall ==
  ASSUME IsDone, NoNestedCalls, NEW k \in 1 .. Len(Stitch!AllCalls),
         NEW b \in DOMAIN BodyOf(Called(k)), NEW p \in DOMAIN InsertedStmt(k, b).toks
  PROVE  InsertedStmt(k, b).toks[p].kind # "call"
<1> DEFINE h == Called(k)
           t == BodyOf(h)[b].toks[p]
<1>1. program \in Programs /\ h \in DOMAIN program.helpers
  BY DoneFacts, CalleeFacts
<1>2. p \in DOMAIN BodyOf(h)[b].toks /\ InsertedStmt(k, b).toks[p] = Stitch!Replaced(t, LoggedFor(k))
  BY <1>1, WrittenBody
<1>3. t \in Stitch!Token /\ t \in Stitch!BodyTokens(h)
  BY <1>1, <1>2, HelperFacts DEF BodyOf
<1>4. t.kind # "call"
  BY <1>1, <1>3 DEF NoNestedCalls
<1> QED
  BY <1>1, <1>2, <1>3, <1>4, ReplacedFacts

LEMMA ReturnHasNoCall ==
  ASSUME IsDone, NoNestedCalls, NEW k \in 1 .. Len(Stitch!AllCalls),
         NEW p \in DOMAIN Written(k).return
  PROVE  Written(k).return[p].kind # "call"
<1> DEFINE h == Called(k)
           t == ReturnsOf(h)[1][p]
<1>1. program \in Programs /\ h \in DOMAIN program.helpers /\ ReturnsOf(h) # <<>>
  BY DoneFacts, CalleeFacts
<1>2. /\ t \in Stitch!Token /\ t \in Stitch!BodyTokens(h)
      /\ Written(k).return[p] = Stitch!Replaced(t, LoggedFor(k)) \/ Written(k).return[p] = t
  BY <1>1, WrittenReturn
<1>3. t.kind # "call"
  BY <1>1, <1>2 DEF NoNestedCalls
<1> QED
  BY <1>1, <1>2, <1>3, ReplacedFacts

LEMMA LastHasNoCall ==
  ASSUME IsDone, NoNestedCalls, NEW f \in DOMAIN program.functions,
         NEW s \in DOMAIN program.functions[f], NEW j \in DOMAIN ClosingStatement(f, s).toks
  PROVE  ClosingStatement(f, s).toks[j].kind # "call"
<1> DEFINE at == At(f, s)
           toks == Stmt(f, s).toks
           new == Stitch!Rewritten(toks, at)
<1>1. AreCallsOf(at, f, s)
  BY StitchedAtFacts DEF At
<1>2. /\ at \in Seq(1 .. Len(Stitch!AllCalls)) /\ program \in Programs
      /\ \A i \in 1 .. Len(at) : at[i] \in 1 .. Len(Stitch!AllCalls)
  BY <1>1, DoneFacts DEF AreCallsOf
<1>3. toks \in Seq(Stitch!Token)
  BY <1>2, FunctionFacts DEF Stmt
<1>4. ClosingStatement(f, s).toks = new
  BY DEF ClosingStatement
<1>5. j \in 1 .. Len(new)
  <2>1. new \in Seq(AnyToken)
    BY <1>2, <1>3, RewrittenFacts
  <2> HIDE DEF new
  <2> QED
    BY <1>4, <2>1
<1>6. IsRewritten(new[j], toks, at)
  BY <1>2, <1>3, <1>5, RewrittenFacts
<1> HIDE DEF new, at
<1>7. ASSUME NEW p \in 1 .. Len(toks), Stitch!CallAt(at, p) = {} PROVE toks[p].kind # "call"
  <2> SUFFICES ASSUME toks[p].kind = "call" PROVE FALSE
    OBVIOUS
  <2>1. p \in DOMAIN program.functions[f][s].toks
    BY <1>3 DEF Stmt
  <2>2. PICK k \in 1 .. Len(Stitch!AllCalls) :
          IsCallIn(Stitch!AllCalls[k], f, program.functions[f], s, p)
    BY <1>2, <2>1, AllCallsFacts DEF Stmt
  <2>3. IsCallOf(k, f, s) /\ Stitch!AllCalls[k].at = p
    BY <2>2 DEF IsCallIn, CallAs, IsCallOf
  <2>4. PICK i \in 1 .. Len(at) : at[i] = k
    BY <1>1, <2>3 DEF AreCallsOf
  <2>5. stitch_exprs[at[i]].call.at = p
    <3>1. stitch_exprs[k] = LoggedFor(k)
      BY DoneFacts
    <3> QED
      BY <2>3, <2>4, <3>1 DEF LoggedFor
  <2>6. i \in Stitch!CallAt(at, p)
    BY <1>2, <2>4, <2>5 DEF Stitch!CallAt
  <2> QED
    BY <1>7, <2>6
<1>8. ASSUME NEW i \in 1 .. Len(at), NEW q \in 1 .. Len(Written(at[i]).return)
      PROVE  Written(at[i]).return[q].kind # "call"
  <2>1. at[i] \in 1 .. Len(Stitch!AllCalls)
    BY <1>2
  <2>2. Written(at[i]).return \in Seq(AnyToken)
    BY <1>2, <2>1, DoneFacts, WrittenReturn
  <2>3. q \in DOMAIN Written(at[i]).return
    BY <2>2
  <2> QED
    BY <2>1, <2>3, ReturnHasNoCall
<1> QED
  BY <1>4, <1>6, <1>7, <1>8 DEF IsRewritten

(* When helpers call no helpers, no call of one is left in the functions   *)
(* ("Replaces helper function calls in test body with the function body"). *)
THEOREM NoCallSurvives == Spec => [](NoNestedCalls => NoCallLeft)
<1>1. ASSUME IsDone, NoNestedCalls, NEW f \in DOMAIN program.functions,
             NEW t \in Stitch!Tokens(Stitch!Result(f))
      PROVE  t.kind # "call"
  <2> DEFINE res == Stitch!Result(f)
             rows == RowsOf(f)
  <2>1. HoldsAll(res, AnyStatement, rows)
    BY <1>1, ResultFacts, FlattenElements
  <2> HIDE DEF res, rows
  <2>2. PICK q \in DOMAIN res : \E p \in DOMAIN res[q].toks : t = res[q].toks[p]
    BY <1>1 DEF Stitch!Tokens, Stitch!Elements, res
  <2>3. q \in 1 .. Len(res)
    BY <2>1 DEF HoldsAll
  <2>4. PICK s \in 1 .. Len(rows) : \E c \in 1 .. Len(rows[s]) : res[q] = rows[s][c]
    BY <2>1, <2>3 DEF HoldsAll
  <2>5. s \in DOMAIN program.functions[f] /\ rows[s] = RowOf(f, s)
    BY <1>1, <2>4, ResultFacts DEF rows
  <2>6. PICK c \in 1 .. Len(RowOf(f, s)) : res[q] = RowOf(f, s)[c]
    BY <2>4, <2>5
  <2>7. PICK p \in DOMAIN res[q].toks : t = res[q].toks[p]
    BY <2>2
  <2>8. CASE \E k \in 1 .. Len(Stitch!AllCalls) : \E b \in DOMAIN BodyOf(Called(k)) :
               IsCallOf(k, f, s) /\ RowOf(f, s)[c] = InsertedStmt(k, b)
    BY <1>1, <2>6, <2>7, <2>8, InsertedHasNoCall
  <2>9. CASE RowOf(f, s)[c] = ClosingStatement(f, s)
    BY <1>1, <2>5, <2>6, <2>7, <2>9, LastHasNoCall
  <2> QED
    BY <1>1, <2>5, <2>6, <2>8, <2>9, RowStatement
<1>2. StitchInv /\ ProgressInv => (NoNestedCalls => NoCallLeft)
  BY <1>1 DEF IsDone, NoCallLeft, Stitch!NoCallLeft
<1> QED
  BY <1>2, ProgressSafe, PTL

-----------------------------------------------------------------------------
(***************************************************************************)
(* Names resolve.                                                          *)
(***************************************************************************)

IsVariable(t) == t.kind \in {"local", "global"}

(* A helper declares each variable once, in a statement of its body before *)
(* the first that names it.                                                *)
HelpersDeclareFirst ==
  \A h \in DOMAIN program.helpers :
    /\ \A b, c \in DOMAIN BodyOf(h) : b # c => BodyOf(h)[b].decl \cap BodyOf(h)[c].decl = {}
    /\ \A b \in DOMAIN BodyOf(h) : \A p \in DOMAIN BodyOf(h)[b].toks :
         BodyOf(h)[b].toks[p].kind = "local" =>
           \E c \in DOMAIN BodyOf(h) : c < b /\ BodyOf(h)[b].toks[p].name \in BodyOf(h)[c].decl
    /\ \A r \in DOMAIN ReturnsOf(h) : \A p \in DOMAIN ReturnsOf(h)[r] :
         ReturnsOf(h)[r][p].kind = "local" =>
           \E c \in DOMAIN BodyOf(h) : ReturnsOf(h)[r][p].name \in BodyOf(h)[c].decl

(* Token t names a global variable, or one declared before statement s.    *)
IsOuter(f, s, t) ==
  \/ NameOf(t) \in {[name |-> g, copy |-> Stitch!Unsuffixed] : g \in program.globals}
  \/ \E d \in DOMAIN program.functions[f] : d < s /\ NameOf(t) \in Stmt(f, d).decl

(* A function declares each variable once and before or within the         *)
(* statement that names it, and before it if an argument of a call does:   *)
(* the helper's body goes before the statement.                            *)
FunctionsDeclareFirst ==
  \A f \in DOMAIN program.functions :
    /\ \A s, d \in DOMAIN program.functions[f] : s # d => Stmt(f, s).decl \cap Stmt(f, d).decl = {}
    /\ \A s \in DOMAIN program.functions[f] : \A p \in DOMAIN Stmt(f, s).toks :
         /\ IsVariable(Stmt(f, s).toks[p]) =>
              \/ IsOuter(f, s, Stmt(f, s).toks[p])
              \/ NameOf(Stmt(f, s).toks[p]) \in Stmt(f, s).inner
         /\ Stmt(f, s).toks[p].kind = "call" =>
              \A j \in DOMAIN Stmt(f, s).toks[p].args :
                \A q \in DOMAIN Stmt(f, s).toks[p].args[j] :
                  IsVariable(Stmt(f, s).toks[p].args[j][q]) =>
                    IsOuter(f, s, Stmt(f, s).toks[p].args[j][q])

AreScoped == IsDone /\ HelpersDeclareFirst /\ FunctionsDeclareFirst /\ NoGlobals /\ NoBareReturn

LEMMA ArgumentResolves ==
  ASSUME AreScoped, NEW f \in DOMAIN program.functions, NEW s, NEW k \in 1 .. Len(Stitch!AllCalls),
         IsCallOf(k, f, s), NEW j \in DOMAIN Args(k), NEW q \in DOMAIN Args(k)[j],
         IsVariable(Args(k)[j][q])
  PROVE  IsOuter(f, s, Args(k)[j][q])
<1> DEFINE c == Stitch!AllCalls[k]
<1>1. program \in Programs /\ ComesFrom(c) /\ f \in 1 .. Len(program.functions)
  BY DoneFacts, AllCallsFacts, FunctionFacts DEF AreScoped
<1>2. c.fn = f /\ c.base_stmt = s /\ Args(k) = c.tok.args
  BY DEF IsCallOf, Args
<1> HIDE DEF c
<1>3. FromFunction(c)
  BY <1>1, <1>2 DEF ComesFrom, FromHelper
<1>4. PICK g \in DOMAIN program.functions : \E d \in DOMAIN program.functions[g] :
        \E p \in DOMAIN program.functions[g][d].toks : IsCallIn(c, g, program.functions[g], d, p)
  BY <1>3 DEF FromFunction
<1>5. PICK d \in DOMAIN program.functions[g] :
        \E p \in DOMAIN program.functions[g][d].toks : IsCallIn(c, g, program.functions[g], d, p)
  BY <1>4
<1>6. PICK p \in DOMAIN program.functions[g][d].toks : IsCallIn(c, g, program.functions[g], d, p)
  BY <1>5
<1>7. /\ g = f /\ d = s /\ c.tok = Stmt(f, s).toks[p] /\ Stmt(f, s).toks[p].kind = "call"
      /\ s \in DOMAIN program.functions[f] /\ p \in DOMAIN Stmt(f, s).toks
  <2>1. /\ program.functions[g][d].toks[p].kind = "call"
        /\ c = CallAs(g, d, p, program.functions[g][d].toks[p])
    BY <1>6 DEF IsCallIn
  <2>2. c.fn = g /\ c.base_stmt = d /\ c.tok = program.functions[g][d].toks[p]
    BY <2>1 DEF CallAs
  <2>3. g = f /\ d = s
    BY <1>2, <2>2
  <2> QED
    BY <2>1, <2>2, <2>3 DEF Stmt
<1> QED
  BY <1>2, <1>7 DEF AreScoped, FunctionsDeclareFirst

(* The row of a statement holds each statement of each body it calls for.  *)
LEMMA BodyInserted ==
  ASSUME IsDone, NEW f \in DOMAIN program.functions, NEW s \in DOMAIN program.functions[f],
         NEW k \in 1 .. Len(Stitch!AllCalls), IsCallOf(k, f, s), NEW b \in DOMAIN BodyOf(Called(k))
  PROVE  \E c \in 1 .. Len(Stitch!Inserted(At(f, s))) : RowOf(f, s)[c] = InsertedStmt(k, b)
<1> DEFINE at == At(f, s)
           flat == Stitch!Inserted(at)
           ins == InsertedFor(at)
<1>1. AreCallsOf(at, f, s)
  BY StitchedAtFacts DEF At
<1>2. at \in Seq(1 .. Len(Stitch!AllCalls))
  BY <1>1 DEF AreCallsOf
<1>3. PICK i \in 1 .. Len(at) : at[i] = k
  BY <1>1 DEF AreCallsOf
<1>4. HoldsAll(flat, AnyStatement, ins)
  BY <1>2, InsertedFacts, FlattenElements
<1>5. i \in 1 .. Len(ins) /\ b \in 1 .. Len(ins[i]) /\ ins[i][b] = InsertedStmt(k, b)
  BY <1>2, <1>3, InsertedFacts
<1> HIDE DEF flat, ins
<1>6. PICK c \in 1 .. Len(flat) : flat[c] = InsertedStmt(k, b)
  <2>1. \E c \in 1 .. Len(flat) : flat[c] = ins[i][b]
    BY <1>4, <1>5 DEF HoldsAll
  <2> QED
    BY <1>5, <2>1
<1> QED
  BY <1>6, RowFacts DEF flat

(* The names a row declares tell the call, or the function, they are of.   *)
LEMMA InsertedNames ==
  ASSUME IsDone, NEW k \in 1 .. Len(Stitch!AllCalls), NEW b \in DOMAIN BodyOf(Called(k)),
         NEW name \in InsertedStmt(k, b).decl
  PROVE  name.copy = k - 1 /\ name.name \in BodyOf(Called(k))[b].decl
<1>1. program \in Programs
  BY DoneFacts
<1>2. InsertedStmt(k, b).decl = {[name |-> v, copy |-> k - 1] : v \in BodyOf(Called(k))[b].decl}
  BY <1>1, WrittenBody
<1> QED
  BY <1>2

LEMMA LastNames ==
  ASSUME IsDone, NEW f \in DOMAIN program.functions, NEW s \in DOMAIN program.functions[f],
         NEW name \in ClosingStatement(f, s).decl
  PROVE  name.copy = -1 /\ name \in Stmt(f, s).decl
<1>1. program \in Programs
  BY DoneFacts
<1>2. ClosingStatement(f, s).decl = Stmt(f, s).decl
  BY DEF ClosingStatement
<1>3. name \in Stitch!Name
  BY <1>1, <1>2, FunctionFacts DEF Stmt
<1> QED
  BY <1>2, <1>3 DEF Stitch!Name, Stitch!Unsuffixed

LEMMA RowsDeclareApart ==
  ASSUME AreScoped, NEW f \in DOMAIN program.functions, NEW s \in DOMAIN program.functions[f],
         NEW d \in DOMAIN program.functions[f],
         NEW c \in 1 .. Len(RowOf(f, s)), NEW e \in 1 .. Len(RowOf(f, d)),
         NEW name \in RowOf(f, s)[c].decl, name \in RowOf(f, d)[e].decl
  PROVE  s = d
<1> DEFINE IsInserted(x, y) ==
             \E k \in 1 .. Len(Stitch!AllCalls) : \E b \in DOMAIN BodyOf(Called(k)) :
               IsCallOf(k, f, x) /\ RowOf(f, x)[y] = InsertedStmt(k, b)
<1>1. IsInserted(s, c) \/ RowOf(f, s)[c] = ClosingStatement(f, s)
  BY RowStatement DEF AreScoped
<1>2. IsInserted(d, e) \/ RowOf(f, d)[e] = ClosingStatement(f, d)
  BY RowStatement DEF AreScoped
<1>3. ASSUME IsInserted(s, c)
      PROVE  \E k \in 1 .. Len(Stitch!AllCalls) : IsCallOf(k, f, s) /\ name.copy = k - 1
  BY <1>3, InsertedNames DEF AreScoped
<1>4. ASSUME IsInserted(d, e)
      PROVE  \E k \in 1 .. Len(Stitch!AllCalls) : IsCallOf(k, f, d) /\ name.copy = k - 1
  BY <1>4, InsertedNames DEF AreScoped
<1>5. ASSUME RowOf(f, s)[c] = ClosingStatement(f, s)
      PROVE  name.copy = -1 /\ name \in Stmt(f, s).decl
  BY <1>5, LastNames DEF AreScoped
<1>6. ASSUME RowOf(f, d)[e] = ClosingStatement(f, d)
      PROVE  name.copy = -1 /\ name \in Stmt(f, d).decl
  BY <1>6, LastNames DEF AreScoped
<1> HIDE DEF IsInserted
<1>7. ASSUME name \in Stmt(f, s).decl, name \in Stmt(f, d).decl
      PROVE  s = d
  BY <1>7 DEF AreScoped, FunctionsDeclareFirst
<1>8. Len(Stitch!AllCalls) \in Nat
  BY DoneFacts DEF AreScoped
<1>9. CASE IsInserted(s, c)
  <2>1. PICK k \in 1 .. Len(Stitch!AllCalls) : IsCallOf(k, f, s) /\ name.copy = k - 1
    BY <1>3, <1>9
  <2>2. name.copy # -1
    BY <1>8, <2>1
  <2>3. PICK l \in 1 .. Len(Stitch!AllCalls) : IsCallOf(l, f, d) /\ name.copy = l - 1
    BY <1>2, <1>4, <1>6, <2>2
  <2>4. k = l
    BY <1>8, <2>1, <2>3
  <2> QED
    BY <2>1, <2>3, <2>4 DEF IsCallOf
<1>10. CASE RowOf(f, s)[c] = ClosingStatement(f, s)
  <2>1. name.copy = -1 /\ name \in Stmt(f, s).decl
    BY <1>5, <1>10
  <2>2. ~ IsInserted(d, e)
    <3> SUFFICES ASSUME IsInserted(d, e) PROVE FALSE
      OBVIOUS
    <3>1. PICK l \in 1 .. Len(Stitch!AllCalls) : name.copy = l - 1
      BY <1>4
    <3> QED
      BY <1>8, <2>1, <3>1
  <2> QED
    BY <1>2, <1>6, <1>7, <2>1, <2>2
<1> QED
  BY <1>1, <1>9, <1>10

LEMMA RowDeclaresOnce ==
  ASSUME AreScoped, NEW f \in DOMAIN program.functions, NEW s \in DOMAIN program.functions[f],
         NEW c \in 1 .. Len(RowOf(f, s)), NEW d \in 1 .. Len(RowOf(f, s)),
         NEW name \in RowOf(f, s)[c].decl, name \in RowOf(f, s)[d].decl
  PROVE  c = d
<1> DEFINE at == At(f, s)
           flat == Stitch!Inserted(at)
           ins == InsertedFor(at)
           n == Len(Stitch!AllCalls)
<1>1. AreCallsOf(at, f, s) /\ IsDone /\ program \in Programs /\ n \in Nat
  BY StitchedAtFacts, DoneFacts DEF At, AreScoped
<1>2. at \in Seq(1 .. n) /\ \A i \in 1 .. Len(at) : at[i] \in 1 .. n
  BY <1>1 DEF AreCallsOf
<1>3. /\ flat = FlattenSeq(ins) /\ ins \in Seq(Seq(AnyStatement)) /\ Len(ins) = Len(at)
      /\ \A i \in 1 .. Len(at) :
           /\ Len(ins[i]) = Len(BodyOf(Called(at[i])))
           /\ DOMAIN BodyOf(Called(at[i])) = 1 .. Len(BodyOf(Called(at[i])))
           /\ \A b \in 1 .. Len(BodyOf(Called(at[i]))) : ins[i][b] = InsertedStmt(at[i], b)
  BY <1>1, <1>2, InsertedFacts
<1>4. /\ Len(flat) \in Nat /\ Len(RowOf(f, s)) = Len(flat) + 1
      /\ \A x \in 1 .. Len(flat) : RowOf(f, s)[x] = flat[x]
      /\ RowOf(f, s)[Len(flat) + 1] = ClosingStatement(f, s)
  BY <1>1, RowFacts
<1> HIDE DEF at, flat, ins, n
<1>5. PICK row, col : IsPlaced(flat, ins, row, col)
  BY <1>3, FlattenPlaced
<1>6. ASSUME NEW x \in 1 .. Len(flat)
      PROVE  /\ row[x] \in 1 .. Len(at) /\ at[row[x]] \in 1 .. n
             /\ Called(at[row[x]]) \in DOMAIN program.helpers
             /\ col[x] \in DOMAIN BodyOf(Called(at[row[x]]))
             /\ flat[x] = InsertedStmt(at[row[x]], col[x])
  <2> DEFINE i == row[x]
             b == col[x]
  <2>1. i \in 1 .. Len(ins) /\ b \in 1 .. Len(ins[i]) /\ flat[x] = ins[i][b]
    BY <1>5 DEF IsPlaced
  <2> HIDE DEF i, b
  <2>2. i \in 1 .. Len(at) /\ at[i] \in 1 .. n
    BY <1>2, <1>3, <2>1
  <2>3. b \in DOMAIN BodyOf(Called(at[i])) /\ flat[x] = InsertedStmt(at[i], b)
    BY <1>3, <2>1, <2>2
  <2>4. Called(at[i]) \in DOMAIN program.helpers
    BY <1>1, <2>2, CalleeFacts DEF n
  <2> QED
    BY <2>2, <2>3, <2>4 DEF i, b
<1>7. ASSUME NEW x \in 1 .. Len(flat), name \in flat[x].decl
      PROVE  /\ name.copy = at[row[x]] - 1
             /\ name.name \in BodyOf(Called(at[row[x]]))[col[x]].decl
  <2> DEFINE k == at[row[x]]
             b == col[x]
  <2>1. k \in 1 .. n /\ b \in DOMAIN BodyOf(Called(k)) /\ name \in InsertedStmt(k, b).decl
    BY <1>6, <1>7
  <2> HIDE DEF k, b
  <2>2. name.copy = k - 1 /\ name.name \in BodyOf(Called(k))[b].decl
    BY <1>1, <2>1, InsertedNames DEF n
  <2> QED
    BY <2>2 DEF k, b
<1>8. CASE c \in 1 .. Len(flat) /\ d \in 1 .. Len(flat)
  <2>1. name \in flat[c].decl /\ name \in flat[d].decl
    BY <1>4, <1>8
  <2>2. at[row[c]] = at[row[d]]
    <3> DEFINE k == at[row[c]]
               l == at[row[d]]
    <3>1. name.copy = k - 1 /\ name.copy = l - 1 /\ k \in 1 .. n /\ l \in 1 .. n
      BY <1>6, <1>7, <1>8, <2>1
    <3> HIDE DEF k, l
    <3>2. k = l
      BY <1>1, <3>1
    <3> QED
      BY <3>2 DEF k, l
  <2>3. row[c] = row[d]
    BY <1>1, <1>6, <1>8, <2>2 DEF AreCallsOf
  <2>4. col[c] = col[d]
    <3> DEFINE h == Called(at[row[c]])
    <3>1. /\ h \in DOMAIN program.helpers
          /\ col[c] \in DOMAIN BodyOf(h) /\ col[d] \in DOMAIN BodyOf(h)
          /\ name.name \in BodyOf(h)[col[c]].decl /\ name.name \in BodyOf(h)[col[d]].decl
      BY <1>6, <1>7, <1>8, <2>1, <2>3
    <3> HIDE DEF h
    <3>2. BodyOf(h)[col[c]].decl \cap BodyOf(h)[col[d]].decl # {}
      BY <3>1
    <3> QED
      BY <3>1, <3>2 DEF AreScoped, HelpersDeclareFirst
  <2>5. col[c] \in Int
    <3>1. col[c] \in 1 .. Len(BodyOf(Called(at[row[c]])))
      BY <1>3, <1>6, <1>8
    <3> QED
      BY <3>1
  <2>6. ~ (c < d) /\ ~ (d < c)
    <3>1. row[c] \in Int
      BY <1>6, <1>8
    <3>2. /\ c < d <=> row[c] < row[d] \/ (row[c] = row[d] /\ col[c] < col[d])
          /\ d < c <=> row[d] < row[c] \/ (row[d] = row[c] /\ col[d] < col[c])
      BY <1>5, <1>8 DEF IsPlaced
    <3>3. \A x \in Int : ~ (x < x)
      OBVIOUS
    <3> QED
      BY <2>3, <2>4, <2>5, <3>1, <3>2, <3>3
  <2> QED
    BY <1>4, <1>8, <2>6
<1>9. CASE c \notin 1 .. Len(flat) /\ d \notin 1 .. Len(flat)
  BY <1>4, <1>9
<1>10. ASSUME NEW x \in 1 .. Len(flat), name \in RowOf(f, s)[x].decl,
               name \in ClosingStatement(f, s).decl
       PROVE  FALSE
  <2>1. name.copy = -1
    BY <1>1, <1>10, LastNames
  <2> DEFINE k == at[row[x]]
  <2>2. name.copy = k - 1 /\ k \in 1 .. n
    BY <1>4, <1>6, <1>7, <1>10
  <2> HIDE DEF k
  <2> QED
    BY <1>1, <2>1, <2>2
<1>11. CASE c \in 1 .. Len(flat) /\ d \notin 1 .. Len(flat)
  <2>1. d = Len(flat) + 1
    BY <1>4, <1>11
  <2> QED
    BY <1>4, <1>10, <1>11, <2>1
<1>12. CASE c \notin 1 .. Len(flat) /\ d \in 1 .. Len(flat)
  <2>1. c = Len(flat) + 1
    BY <1>4, <1>12
  <2> QED
    BY <1>4, <1>10, <1>12, <2>1
<1> QED
  BY <1>8, <1>9, <1>11, <1>12

(* A variable in what is inserted is outer, or declared earlier in its row.*)
LEMMA InsertedResolves ==
  ASSUME AreScoped, NEW f \in DOMAIN program.functions, NEW s \in DOMAIN program.functions[f],
         NEW c \in 1 .. Len(Stitch!Inserted(At(f, s))),
         NEW p \in DOMAIN RowOf(f, s)[c].toks, IsVariable(RowOf(f, s)[c].toks[p])
  PROVE  \/ IsOuter(f, s, RowOf(f, s)[c].toks[p])
         \/ \E d \in 1 .. c - 1 : NameOf(RowOf(f, s)[c].toks[p]) \in RowOf(f, s)[d].decl
<1> DEFINE at == At(f, s)
           flat == Stitch!Inserted(at)
           ins == InsertedFor(at)
           n == Len(Stitch!AllCalls)
           u == RowOf(f, s)[c].toks[p]
<1>1. AreCallsOf(at, f, s) /\ IsDone /\ program \in Programs
  BY StitchedAtFacts, DoneFacts DEF At, AreScoped
<1>2. at \in Seq(1 .. n) /\ \A i \in 1 .. Len(at) : at[i] \in 1 .. n /\ IsCallOf(at[i], f, s)
  BY <1>1 DEF AreCallsOf
<1>3. /\ flat = FlattenSeq(ins) /\ ins \in Seq(Seq(AnyStatement)) /\ Len(ins) = Len(at)
      /\ \A i \in 1 .. Len(at) :
           /\ Len(ins[i]) = Len(BodyOf(Called(at[i])))
           /\ DOMAIN BodyOf(Called(at[i])) = 1 .. Len(BodyOf(Called(at[i])))
           /\ \A b \in 1 .. Len(BodyOf(Called(at[i]))) : ins[i][b] = InsertedStmt(at[i], b)
  BY <1>1, <1>2, InsertedFacts
<1>4. Len(flat) \in Nat /\ \A x \in 1 .. Len(flat) : RowOf(f, s)[x] = flat[x]
  BY <1>1, RowFacts
<1> HIDE DEF at, flat, ins, n
<1>5. PICK row, col : IsPlaced(flat, ins, row, col)
  BY <1>3, FlattenPlaced
<1> DEFINE i == row[c]
           b == col[c]
           k == at[i]
           h == Called(k)
           t == BodyOf(h)[b].toks[p]
<1>6. c \in 1 .. Len(flat)
  BY DEF flat, at
<1>7. /\ i \in 1 .. Len(at) /\ b \in 1 .. Len(ins[i]) /\ k \in 1 .. n /\ IsCallOf(k, f, s)
      /\ b \in DOMAIN BodyOf(h) /\ RowOf(f, s)[c] = InsertedStmt(k, b)
  <2>1. i \in 1 .. Len(ins) /\ b \in 1 .. Len(ins[i]) /\ flat[c] = ins[i][b]
    BY <1>5, <1>6 DEF IsPlaced
  <2> HIDE DEF i, b
  <2>2. i \in 1 .. Len(at) /\ k \in 1 .. n /\ IsCallOf(k, f, s)
    BY <1>2, <1>3, <2>1
  <2>3. b \in DOMAIN BodyOf(h) /\ flat[c] = InsertedStmt(k, b)
    BY <1>3, <2>1, <2>2
  <2> QED
    BY <1>4, <1>6, <2>1, <2>2, <2>3
<1> HIDE DEF k, b
<1>8. h \in DOMAIN program.helpers
  BY <1>1, <1>7, CalleeFacts DEF n
<1>9. p \in DOMAIN BodyOf(h)[b].toks /\ u = Stitch!Replaced(t, LoggedFor(k))
  BY <1>1, <1>7, WrittenBody DEF n
<1>10. t \in Stitch!Token /\ t \in Stitch!BodyTokens(h)
  <2>1. BodyOf(h)[b].toks \in Seq(Stitch!Token)
        /\ \A q \in DOMAIN BodyOf(h)[b].toks : BodyOf(h)[b].toks[q] \in Stitch!BodyTokens(h)
    <3> HIDE DEF h
    <3> QED
      BY <1>1, <1>7, <1>8, HelperFacts DEF BodyOf
  <2> QED
    BY <1>9, <2>1
<1>11. /\ t.kind = "param" =>
            \E j \in DOMAIN Args(k) : \E q \in DOMAIN Args(k)[j] : u = Args(k)[j][q]
       /\ t.kind \in {"local", "global"} => NameOf(u) = [name |-> t.name, copy |-> k - 1]
       /\ t.kind \notin {"param", "local", "global"} => u = t
  BY <1>1, <1>7, <1>9, <1>10, ReplacedFacts DEF n
<1>12. t.kind # "global"
  BY <1>8, <1>10 DEF AreScoped, NoGlobals
<1>13. CASE t.kind = "param"
  <2>1. PICK j \in DOMAIN Args(k) : \E q \in DOMAIN Args(k)[j] : u = Args(k)[j][q]
    BY <1>11, <1>13
  <2>2. PICK q \in DOMAIN Args(k)[j] : u = Args(k)[j][q]
    BY <2>1
  <2> QED
    BY <1>7, <2>2, ArgumentResolves DEF n
<1>14. CASE t.kind = "local"
  <2>1. PICK a \in DOMAIN BodyOf(h) : a < b /\ t.name \in BodyOf(h)[a].decl
    BY <1>7, <1>8, <1>9, <1>14 DEF AreScoped, HelpersDeclareFirst
  <2>2. InsertedStmt(k, a).decl = {[name |-> v, copy |-> k - 1] : v \in BodyOf(h)[a].decl}
    BY <1>1, <1>7, <2>1, WrittenBody DEF n
  <2>3. NameOf(u) \in InsertedStmt(k, a).decl
    BY <1>11, <1>14, <2>1, <2>2
  <2>4. a \in 1 .. Len(ins[i]) /\ ins[i][a] = InsertedStmt(k, a)
    BY <1>3, <1>7 DEF k
  <2>5. PICK d \in 1 .. Len(flat) : row[d] = i /\ col[d] = a
    <3>1. i \in 1 .. Len(ins)
      BY <1>3, <1>7
    <3> HIDE DEF i
    <3> QED
      BY <1>5, <2>4, <3>1 DEF IsPlaced
  <2>6. flat[d] = InsertedStmt(k, a)
    BY <1>5, <2>4, <2>5 DEF IsPlaced
  <2>7. d < c
    BY <1>5, <1>6, <2>1, <2>5 DEF IsPlaced, b
  <2>8. d \in 1 .. c - 1 /\ RowOf(f, s)[d] = InsertedStmt(k, a)
    BY <1>4, <1>6, <2>6, <2>7
  <2> QED
    BY <2>3, <2>8
<1>15. CASE t.kind \notin {"param", "local", "global"}
  BY <1>11, <1>15 DEF IsVariable
<1> QED
  BY <1>12, <1>13, <1>14, <1>15

(* A variable in the statement itself is outer, of the statement, or of a  *)
(* body inserted before it.                                                *)
LEMMA LastResolves ==
  ASSUME AreScoped, NEW f \in DOMAIN program.functions, NEW s \in DOMAIN program.functions[f],
         NEW p \in DOMAIN ClosingStatement(f, s).toks, IsVariable(ClosingStatement(f, s).toks[p])
  PROVE  \/ IsOuter(f, s, ClosingStatement(f, s).toks[p])
         \/ NameOf(ClosingStatement(f, s).toks[p]) \in ClosingStatement(f, s).inner
         \/ \E d \in 1 .. Len(Stitch!Inserted(At(f, s))) :
              NameOf(ClosingStatement(f, s).toks[p]) \in RowOf(f, s)[d].decl
<1> DEFINE at == At(f, s)
           toks == Stmt(f, s).toks
           new == Stitch!Rewritten(toks, at)
           n == Len(Stitch!AllCalls)
           u == ClosingStatement(f, s).toks[p]
           goal == \/ IsOuter(f, s, u) \/ NameOf(u) \in ClosingStatement(f, s).inner
                   \/ \E d \in 1 .. Len(Stitch!Inserted(At(f, s))) :
                        NameOf(u) \in RowOf(f, s)[d].decl
<1>1. AreCallsOf(at, f, s) /\ IsDone /\ program \in Programs
  BY StitchedAtFacts, DoneFacts DEF At, AreScoped
<1>2. at \in Seq(1 .. n) /\ \A i \in 1 .. Len(at) : at[i] \in 1 .. n /\ IsCallOf(at[i], f, s)
  BY <1>1 DEF AreCallsOf
<1>3. toks \in Seq(Stitch!Token)
  BY <1>1, FunctionFacts DEF Stmt
<1>4. ClosingStatement(f, s).toks = new /\ ClosingStatement(f, s).inner = Stmt(f, s).inner
  BY DEF ClosingStatement
<1>5. IsRewritten(u, toks, at)
  <2>1. new \in Seq(AnyToken) /\ \A j \in 1 .. Len(new) : IsRewritten(new[j], toks, at)
    BY <1>1, <1>2, <1>3, RewrittenFacts DEF n
  <2> HIDE DEF new
  <2>2. p \in 1 .. Len(new)
    BY <1>4, <2>1
  <2> QED
    BY <1>4, <2>1, <2>2
<1>6. IsVariable(u)
  OBVIOUS
<1> HIDE DEF new, at, u, n
<1>7. ASSUME NEW q \in 1 .. Len(toks), u = toks[q] PROVE goal
  <2>1. q \in DOMAIN Stmt(f, s).toks
    BY <1>3
  <2> QED
    BY <1>4, <1>6, <1>7, <2>1 DEF AreScoped, FunctionsDeclareFirst
<1>8. ASSUME NEW i \in 1 .. Len(at), NEW q \in 1 .. Len(Written(at[i]).return),
             u = Written(at[i]).return[q]
      PROVE  goal
  <2> DEFINE k == at[i]
             h == Called(k)
             t == ReturnsOf(h)[1][q]
  <2>1. k \in 1 .. n /\ IsCallOf(k, f, s) /\ u = Written(k).return[q]
    BY <1>2, <1>8
  <2> HIDE DEF k
  <2>2. h \in DOMAIN program.helpers /\ ReturnsOf(h) # <<>>
    BY <1>1, <2>1, DoneFacts, CalleeFacts DEF n
  <2>3. q \in DOMAIN Written(k).return
    <3>1. Written(k).return \in Seq(AnyToken)
      BY <1>1, <2>1, <2>2, WrittenReturn DEF n
    <3> QED
      BY <1>8, <3>1 DEF k
  <2>4. /\ q \in DOMAIN ReturnsOf(h)[1] /\ t \in Stitch!Token /\ t \in Stitch!BodyTokens(h)
        /\ \/ u = Stitch!Replaced(t, LoggedFor(k))
           \/ /\ Len(ReturnsOf(h)[1]) = 1 /\ ReturnsOf(h)[1][1].kind \in {"local", "global"}
              /\ u = t
    BY <1>1, <2>1, <2>2, <2>3, WrittenReturn DEF n
  <2>5. 1 \in DOMAIN ReturnsOf(h) /\ ReturnsOf(h)[1] \in Seq(Stitch!Token)
    BY <1>1, <2>2, HelperFacts
  <2>6. t.kind # "global"
    BY <2>2, <2>4 DEF AreScoped, NoGlobals
  <2>7. u = Stitch!Replaced(t, LoggedFor(k))
    <3> SUFFICES ASSUME Len(ReturnsOf(h)[1]) = 1, ReturnsOf(h)[1][1].kind \in {"local", "global"}
                 PROVE  FALSE
      BY <2>4
    <3>1. q = 1
      BY <2>4, <2>5
    <3>2. ReturnsOf(h)[1][1].kind # "local"
      BY <2>2, <2>5 DEF AreScoped, NoBareReturn
    <3> QED
      BY <2>6, <3>1, <3>2
  <2>8. /\ t.kind = "param" =>
             \E j \in DOMAIN Args(k) : \E r \in DOMAIN Args(k)[j] : u = Args(k)[j][r]
        /\ t.kind \in {"local", "global"} => NameOf(u) = [name |-> t.name, copy |-> k - 1]
        /\ t.kind \notin {"param", "local", "global"} => u = t
    BY <1>1, <2>1, <2>4, <2>7, ReplacedFacts DEF n
  <2>9. CASE t.kind = "param"
    <3>1. PICK j \in DOMAIN Args(k) : \E r \in DOMAIN Args(k)[j] : u = Args(k)[j][r]
      BY <2>8, <2>9
    <3>2. PICK r \in DOMAIN Args(k)[j] : u = Args(k)[j][r]
      BY <3>1
    <3>3. IsOuter(f, s, u)
      BY <1>6, <2>1, <3>2, ArgumentResolves DEF n
    <3> QED
      BY <3>3
  <2>10. CASE t.kind = "local"
    <3>1. PICK b \in DOMAIN BodyOf(h) : t.name \in BodyOf(h)[b].decl
      BY <2>2, <2>4, <2>5, <2>10 DEF AreScoped, HelpersDeclareFirst
    <3>2. InsertedStmt(k, b).decl = {[name |-> v, copy |-> k - 1] : v \in BodyOf(h)[b].decl}
      BY <1>1, <2>1, <3>1, WrittenBody DEF n
    <3>3. NameOf(u) \in InsertedStmt(k, b).decl
      BY <2>8, <2>10, <3>1, <3>2
    <3>4. PICK d \in 1 .. Len(Stitch!Inserted(At(f, s))) : RowOf(f, s)[d] = InsertedStmt(k, b)
      BY <1>1, <2>1, <3>1, BodyInserted DEF n
    <3> QED
      BY <3>3, <3>4
  <2>11. CASE t.kind \notin {"param", "local", "global"}
    BY <1>6, <2>8, <2>11 DEF IsVariable
  <2> QED
    BY <2>6, <2>9, <2>10, <2>11
<1>9. goal
  BY <1>5, <1>7, <1>8 DEF IsRewritten
<1> QED
  BY <1>9 DEF u

LEMMA ResolvedNames ==
  ASSUME AreScoped, NEW f \in DOMAIN program.functions,
         NEW k \in 1 .. Len(Stitch!Result(f))
  PROVE  /\ \A d \in 1 .. k - 1 : \A name \in Stitch!Result(f)[k].decl :
              name \notin Stitch!Result(f)[d].decl
         /\ \A p \in DOMAIN Stitch!Result(f)[k].toks : IsVariable(Stitch!Result(f)[k].toks[p]) =>
              LET name == NameOf(Stitch!Result(f)[k].toks[p])
              IN  \/ name \in {[name |-> g, copy |-> Stitch!Unsuffixed] : g \in program.globals}
                  \/ name \in Stitch!Result(f)[k].inner
                  \/ \E d \in 1 .. k - 1 : name \in Stitch!Result(f)[d].decl
<1> DEFINE res == Stitch!Result(f)
           rows == RowsOf(f)
           n == Len(program.functions[f])
           global == {[name |-> g, copy |-> Stitch!Unsuffixed] : g \in program.globals}
<1>1. IsDone /\ program \in Programs
  BY DoneFacts DEF AreScoped
<1>2. /\ res = FlattenSeq(rows) /\ rows \in Seq(Seq(AnyStatement)) /\ Len(rows) = n /\ n \in Nat
      /\ DOMAIN program.functions[f] = 1 .. n /\ \A s \in 1 .. n : rows[s] = RowOf(f, s)
  BY <1>1, ResultFacts
<1>3. res \in Seq(AnyStatement)
  BY <1>2, FlattenElements DEF HoldsAll
<1> HIDE DEF res, rows, n, global
<1>4. PICK row, col : IsPlaced(res, rows, row, col)
  BY <1>2, FlattenPlaced
<1>5. ASSUME NEW q \in 1 .. Len(res)
      PROVE  /\ row[q] \in 1 .. n /\ row[q] \in DOMAIN program.functions[f]
             /\ col[q] \in 1 .. Len(RowOf(f, row[q])) /\ res[q] = RowOf(f, row[q])[col[q]]
  <2> DEFINE s == row[q]
             c == col[q]
  <2>1. s \in 1 .. Len(rows) /\ c \in 1 .. Len(rows[s]) /\ res[q] = rows[s][c]
    BY <1>4 DEF IsPlaced
  <2> HIDE DEF s, c
  <2>2. s \in 1 .. n /\ s \in DOMAIN program.functions[f] /\ rows[s] = RowOf(f, s)
    BY <1>2, <2>1
  <2> QED
    BY <2>1, <2>2 DEF s, c
<1>6. ASSUME NEW s \in 1 .. n, NEW c \in 1 .. Len(RowOf(f, s))
      PROVE  \E q \in 1 .. Len(res) : row[q] = s /\ col[q] = c /\ res[q] = RowOf(f, s)[c]
  <2>1. s \in 1 .. Len(rows) /\ c \in 1 .. Len(rows[s])
    BY <1>2
  <2>2. PICK q \in 1 .. Len(res) : row[q] = s /\ col[q] = c
    BY <1>4, <2>1 DEF IsPlaced
  <2> QED
    BY <1>5, <2>2
<1>7. \A d, q \in 1 .. Len(res) :
        d < q <=> row[d] < row[q] \/ (row[d] = row[q] /\ col[d] < col[q])
  BY <1>4 DEF IsPlaced
<1>8. k \in 1 .. Len(res) /\ Len(res) \in Nat
  BY <1>3 DEF res
<1> DEFINE s == row[k]
           c == col[k]
<1>9. /\ s \in 1 .. n /\ s \in DOMAIN program.functions[f]
      /\ c \in 1 .. Len(RowOf(f, s)) /\ res[k] = RowOf(f, s)[c]
  BY <1>5, <1>8
<1>10. ASSUME NEW d \in 1 .. k - 1, NEW name \in res[k].decl, name \in res[d].decl PROVE FALSE
  <2>1. d \in 1 .. Len(res) /\ d < k
    BY <1>8
  <2>2. /\ row[d] \in 1 .. n /\ row[d] \in DOMAIN program.functions[f]
        /\ col[d] \in 1 .. Len(RowOf(f, row[d])) /\ res[d] = RowOf(f, row[d])[col[d]]
    BY <1>5, <2>1
  <2>3. row[d] = s
    BY <1>9, <1>10, <2>2, RowsDeclareApart
  <2>4. col[d] = c
    BY <1>9, <1>10, <2>2, <2>3, RowDeclaresOnce
  <2>5. row[d] < s \/ col[d] < c
    BY <1>7, <1>8, <2>1
  <2>6. s \in Int /\ c \in Int
    <3> HIDE DEF s, c
    <3> QED
      BY <1>9
  <2> HIDE DEF s, c
  <2> QED
    BY <2>3, <2>4, <2>5, <2>6
<1>11. ASSUME NEW e \in 1 .. c - 1, NEW name \in RowOf(f, s)[e].decl
       PROVE  \E d \in 1 .. k - 1 : name \in res[d].decl
  <2>1. e \in 1 .. Len(RowOf(f, s)) /\ e < c
    <3>1. RowOf(f, s) \in Seq(AnyStatement)
      BY <1>1, <1>9, RowFacts
    <3> HIDE DEF s, c
    <3>2. Len(RowOf(f, s)) \in Nat
      BY <3>1
    <3> QED
      BY <1>9, <3>2
  <2>2. PICK d \in 1 .. Len(res) : row[d] = s /\ col[d] = e /\ res[d] = RowOf(f, s)[e]
    BY <1>6, <1>9, <2>1
  <2>3. d < k
    BY <1>7, <1>8, <2>1, <2>2
  <2>4. d \in 1 .. k - 1
    BY <1>8, <2>3
  <2> QED
    BY <1>11, <2>2, <2>4
<1>12. ASSUME NEW t, IsOuter(f, s, t)
       PROVE  NameOf(t) \in global \/ \E d \in 1 .. k - 1 : NameOf(t) \in res[d].decl
  <2> SUFFICES ASSUME NEW e \in DOMAIN program.functions[f], e < s, NameOf(t) \in Stmt(f, e).decl
               PROVE  \E d \in 1 .. k - 1 : NameOf(t) \in res[d].decl
    BY <1>12 DEF IsOuter, global
  <2> DEFINE m == Len(Stitch!Inserted(At(f, e))) + 1
  <2>1. m \in 1 .. Len(RowOf(f, e)) /\ RowOf(f, e)[m] = ClosingStatement(f, e) /\ e \in 1 .. n
    BY <1>1, <1>2, RowFacts
  <2> HIDE DEF m
  <2>2. PICK d \in 1 .. Len(res) : row[d] = e /\ res[d] = ClosingStatement(f, e)
    BY <1>6, <2>1
  <2>3. d < k
    BY <1>7, <1>8, <2>2
  <2>4. d \in 1 .. k - 1
    BY <1>8, <2>3
  <2> QED
    BY <2>2, <2>4 DEF ClosingStatement
<1>13. ASSUME NEW p \in DOMAIN res[k].toks, IsVariable(res[k].toks[p])
       PROVE  \/ NameOf(res[k].toks[p]) \in global
              \/ NameOf(res[k].toks[p]) \in res[k].inner
              \/ \E d \in 1 .. k - 1 : NameOf(res[k].toks[p]) \in res[d].decl
  <2> DEFINE m == Len(Stitch!Inserted(At(f, s)))
  <2>1. m \in Nat /\ Len(RowOf(f, s)) = m + 1 /\ RowOf(f, s)[m + 1] = ClosingStatement(f, s)
    BY <1>1, <1>9, RowFacts
  <2>2. p \in DOMAIN RowOf(f, s)[c].toks /\ IsVariable(RowOf(f, s)[c].toks[p])
        /\ res[k] = RowOf(f, s)[c]
    BY <1>9, <1>13
  <2>3. CASE c \in 1 .. m
    <3> HIDE DEF s, c
    <3>1. \/ IsOuter(f, s, RowOf(f, s)[c].toks[p])
          \/ \E e \in 1 .. c - 1 : NameOf(RowOf(f, s)[c].toks[p]) \in RowOf(f, s)[e].decl
      BY <1>9, <2>2, <2>3, InsertedResolves
    <3>2. \/ IsOuter(f, s, res[k].toks[p])
          \/ \E e \in 1 .. c - 1 : NameOf(res[k].toks[p]) \in RowOf(f, s)[e].decl
      BY <2>2, <3>1
    <3> QED
      BY <1>11, <1>12, <3>2
  <2>4. CASE c \notin 1 .. m
    <3> HIDE DEF s, c, m
    <3>1. c = m + 1
      BY <1>9, <2>1, <2>4
    <3>2. res[k] = ClosingStatement(f, s)
      BY <2>1, <2>2, <3>1
    <3>3. \/ IsOuter(f, s, res[k].toks[p])
          \/ NameOf(res[k].toks[p]) \in res[k].inner
          \/ \E e \in 1 .. c - 1 : NameOf(res[k].toks[p]) \in RowOf(f, s)[e].decl
      <4>1. c - 1 = m
        BY <2>1, <3>1
      <4>2. p \in DOMAIN ClosingStatement(f, s).toks /\ IsVariable(ClosingStatement(f, s).toks[p])
        BY <1>13, <3>2
      <4>3. \/ IsOuter(f, s, ClosingStatement(f, s).toks[p])
            \/ NameOf(ClosingStatement(f, s).toks[p]) \in ClosingStatement(f, s).inner
            \/ \E e \in 1 .. m : NameOf(ClosingStatement(f, s).toks[p]) \in RowOf(f, s)[e].decl
        BY <1>9, <4>2, LastResolves DEF m
      <4> QED
        BY <3>2, <4>1, <4>3
    <3> QED
      BY <1>11, <1>12, <3>3
  <2> QED
    BY <2>3, <2>4
<1> QED
  BY <1>10, <1>13 DEF res, global

(* When helpers and functions declare before they name, helpers name no    *)
(* global variable and none returns just a variable of its own, every      *)
(* variable in the rewritten functions is declared once, and before or     *)
(* within the statement that names it, whatever calls of whatever helpers  *)
(* they contain: the suffixes keep the copies of a helper's variables      *)
(* apart (replace_index of logHelperFnSplice, makeReplace).                *)
THEOREM RewrittenNamesResolve ==
  Spec => [](HelpersDeclareFirst /\ FunctionsDeclareFirst /\ NoGlobals /\ NoBareReturn
               => NamesResolve)
<1> DEFINE before(f, k) == UNION {Stitch!Result(f)[d].decl : d \in 1 .. k - 1}
           global == {[name |-> g, copy |-> Stitch!Unsuffixed] : g \in program.globals}
<1>1. ASSUME AreScoped, NEW f \in DOMAIN program.functions, NEW k \in DOMAIN Stitch!Result(f)
      PROVE  /\ Stitch!Result(f)[k].decl \cap before(f, k) = {}
             /\ \A t \in Stitch!Elements(<<Stitch!Result(f)[k].toks>>) :
                  t.kind \in {"local", "global"} =>
                    [name |-> t.name, copy |-> t.copy]
                      \in before(f, k) \cup Stitch!Result(f)[k].inner \cup global
  <2> DEFINE res == Stitch!Result(f)
  <2>1. k \in 1 .. Len(res)
    <3>1. RowsOf(f) \in Seq(Seq(AnyStatement)) /\ res = FlattenSeq(RowsOf(f))
      BY <1>1, ResultFacts DEF AreScoped
    <3>2. res \in Seq(AnyStatement)
      BY <3>1, FlattenElements DEF HoldsAll
    <3> QED
      BY <1>1, <3>2
  <2>2. /\ \A d \in 1 .. k - 1 : \A name \in res[k].decl : name \notin res[d].decl
        /\ \A p \in DOMAIN res[k].toks : IsVariable(res[k].toks[p]) =>
             \/ NameOf(res[k].toks[p]) \in global
             \/ NameOf(res[k].toks[p]) \in res[k].inner
             \/ \E d \in 1 .. k - 1 : NameOf(res[k].toks[p]) \in res[d].decl
    BY <1>1, <2>1, ResolvedNames
  <2> HIDE DEF res, global
  <2>3. ASSUME NEW t \in Stitch!Elements(<<res[k].toks>>), t.kind \in {"local", "global"}
        PROVE  [name |-> t.name, copy |-> t.copy]
                 \in (UNION {res[d].decl : d \in 1 .. k - 1}) \cup res[k].inner \cup global
    <3>1. PICK p \in DOMAIN res[k].toks : t = res[k].toks[p]
      <4>1. DOMAIN <<res[k].toks>> = {1} /\ <<res[k].toks>>[1] = res[k].toks
        OBVIOUS
      <4> QED
        BY <2>3, <4>1 DEF Stitch!Elements
    <3>2. IsVariable(res[k].toks[p]) /\ NameOf(res[k].toks[p]) = [name |-> t.name, copy |-> t.copy]
      BY <2>3, <3>1 DEF IsVariable, NameOf
    <3> QED
      BY <2>2, <3>2
  <2>4. res[k].decl \cap (UNION {res[d].decl : d \in 1 .. k - 1}) = {}
    BY <2>2
  <2> QED
    BY <2>3, <2>4 DEF res
<1>2. AreScoped => Stitch!NamesResolve
  BY <1>1 DEF Stitch!NamesResolve
<1>3. StitchInv /\ ProgressInv =>
        (HelpersDeclareFirst /\ FunctionsDeclareFirst /\ NoGlobals /\ NoBareReturn
           => NamesResolve)
  <2>1. stitch_pc # "done" => Stitch!NamesResolve
    BY DEF Stitch!NamesResolve
  <2> QED
    BY <1>2, <2>1 DEF AreScoped, IsDone, NamesResolve
<1> QED
  BY <1>3, ProgressSafe, PTL

-----------------------------------------------------------------------------
(* A run of the tool through its passes in the order of main               *)
(* (src/src/fuzzMetaTest.cpp) is a run of Passes and a run of FuzzNew: each*)
(* step is one of the first that leaves the rewriting of main alone, or one*)
(* of the second that leaves alone what the other passes read and write.   *)
(* What is proved of either, here, in PassesProofs and in TemplateProofs,  *)
(* holds of the whole.                                                     *)
THEOREM PipelineRunsBoth == PipelineSpec => Spec /\ TemplateSpec
<1>1. PipelineInit => Init /\ TemplateInit
  BY DEF PipelineInit
<1>2. [PipelineNext]_pipeline_vars => [Next]_vars
  BY DEF PipelineNext, LibraryRead, MainRewritten, RelationsRead, HelpersStitched,
         CallsReplaced, Next, pipeline_vars
<1>3. [PipelineNext]_pipeline_vars => [TemplateNext]_template_vars
  BY DEF PipelineNext, LibraryRead, MainRewritten, RelationsRead, HelpersStitched,
         CallsReplaced, pipeline_vars
<1> QED
  BY <1>1, <1>2, <1>3, PTL DEF PipelineSpec, Spec, TemplateSpec
=============================================================================
