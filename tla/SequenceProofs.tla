--------------------------- MODULE SequenceProofs ---------------------------
(***************************************************************************)
(* Least members of sets of numbers, what Append makes of a function, and  *)
(* what FlattenSeq yields: the lemmas that take the place of induction in  *)
(* the proofs about the models.                                            *)
(***************************************************************************)
EXTENDS Integers, SequencesExt, WellFoundedInduction, TLAPS

(* A set of natural numbers has a smallest one.                            *)
LEMMA SmallestMember ==
  ASSUME NEW T, T \subseteq Nat, T # {}
  PROVE  \E x \in T : \A y \in T : x <= y
<1> DEFINE R == OpToRel(<, Nat)
<1>1. IsWellFoundedOn(R, Nat)
  BY NatLessThanWellFounded
<1>2. \A a, b \in Nat : a < b => <<a, b>> \in R
  BY DEF OpToRel
<1> HIDE DEF R
<1>3. PICK x \in T : \A y \in T : ~ (<<y, x>> \in R)
  BY <1>1, WFMin
<1>4. ASSUME NEW y \in T PROVE x <= y
  <2>1. x \in Nat /\ y \in Nat
    OBVIOUS
  <2>2. ~ (y < x)
    BY <2>1, <1>2, <1>3
  <2> QED
    BY <2>1, <2>2
<1> QED
  BY <1>4

-----------------------------------------------------------------------------

(* A function on 1 .. n is extended by Append as a sequence is.            *)
LEMMA AppendToFunction ==
  ASSUME NEW n \in Nat, NEW f, f = [t \in 1 .. n |-> f[t]], NEW e
  PROVE  Append(f, e) = [t \in 1 .. n + 1 |-> IF t = n + 1 THEN e ELSE f[t]]
<1> DEFINE S == {f[t] : t \in 1 .. n} \cup {e}
<1>1. \A t \in 1 .. n : f[t] \in S
  OBVIOUS
<1>2. e \in S
  OBVIOUS
<1> HIDE DEF S
<1>3. f \in [1 .. n -> S]
  BY <1>1
<1>4. f \in Seq(S) /\ Len(f) = n
  BY <1>3
<1> QED
  BY <1>2, <1>4

LEMMA LongerByOne ==
  ASSUME NEW n \in Nat, NEW f, f = [k \in 1 .. n |-> f[k]], NEW e
  PROVE  /\ Append(f, e) = [k \in 1 .. n + 1 |-> Append(f, e)[k]]
         /\ Len(Append(f, e)) = n + 1
<1>1. Append(f, e) = [k \in 1 .. n + 1 |-> IF k = n + 1 THEN e ELSE f[k]]
  BY AppendToFunction
<1>2. n + 1 \in Nat
  OBVIOUS
<1> QED
  BY <1>1, <1>2

-----------------------------------------------------------------------------

(* The partial results of FlattenSeq on the first n of some sequences.     *)
Flattens(f, seqs, n) ==
  f = [i \in 1..n |-> IF i = 1 THEN seqs[i] ELSE f[i - 1] \o seqs[i]]

LEMMA FlattensExist ==
  ASSUME NEW seqs, NEW n \in Nat
  PROVE  \E f : Flattens(f, seqs, n)
<1> DEFINE bad == {k \in 0..n : ~\E f : Flattens(f, seqs, k)}
<1> SUFFICES ASSUME bad # {} PROVE FALSE
  <2>1. n \in 0..n
    OBVIOUS
  <2> QED
    BY <2>1
<1>1. PICK k \in bad : \A j \in bad : k <= j
  <2>1. bad \subseteq Nat
    OBVIOUS
  <2> HIDE DEF bad
  <2> QED
    BY <2>1, SmallestMember
<1>2. CASE k = 0
  <2> DEFINE f == [i \in 1..0 |-> 0]
  <2>1. f = [i \in 1..0 |-> IF i = 1 THEN seqs[i] ELSE f[i - 1] \o seqs[i]]
    OBVIOUS
  <2> QED
    BY <1>2, <2>1 DEF Flattens
<1>3. CASE k # 0
  <2>1. k \in 1..n /\ k - 1 \in 0..n /\ k - 1 \notin bad
    BY <1>1, <1>3
  <2>2. PICK f : Flattens(f, seqs, k - 1)
    BY <2>1
  <2> DEFINE g == [i \in 1..k |-> IF i = k THEN (IF k = 1 THEN seqs[k] ELSE f[k - 1] \o seqs[k])
                                  ELSE f[i]]
  <2>3. \A i \in 1..k : g[i] = IF i = 1 THEN seqs[i] ELSE g[i - 1] \o seqs[i]
    <3> TAKE i \in 1..k
    <3>1. CASE i = k
      BY <3>1
    <3>2. CASE i # k
      <4>1. i \in 1..k - 1
        BY <3>2
      <4>2. f[i] = IF i = 1 THEN seqs[i] ELSE f[i - 1] \o seqs[i]
        BY <2>2, <4>1 DEF Flattens
      <4>3. g[i] = f[i] /\ (i # 1 => g[i - 1] = f[i - 1])
        BY <4>1
      <4> QED
        BY <4>2, <4>3
    <3> QED
      BY <3>1, <3>2
  <2>4. g = [i \in 1..k |-> IF i = 1 THEN seqs[i] ELSE g[i - 1] \o seqs[i]]
    BY <2>3
  <2>5. Flattens(g, seqs, k)
    BY <2>4 DEF Flattens
  <2> QED
    BY <2>5, <1>1
<1> QED
  BY <1>2, <1>3

LEMMA FlattenSeqIs ==
  ASSUME NEW seqs, Len(seqs) \in Nat
  PROVE  /\ Len(seqs) = 0 => FlattenSeq(seqs) = seqs
         /\ Len(seqs) # 0 => \E f : Flattens(f, seqs, Len(seqs)) /\ FlattenSeq(seqs) = f[Len(seqs)]
<1>1. Len(seqs) = 0 => FlattenSeq(seqs) = seqs
  BY DEF FlattenSeq
<1>2. ASSUME Len(seqs) # 0
      PROVE  \E f : Flattens(f, seqs, Len(seqs)) /\ FlattenSeq(seqs) = f[Len(seqs)]
  <2> DEFINE flatten == CHOOSE f : f = [i \in 1..Len(seqs) |->
                                          IF i = 1 THEN seqs[i] ELSE f[i - 1] \o seqs[i]]
  <2>1. FlattenSeq(seqs) = flatten[Len(seqs)]
    BY <1>2 DEF FlattenSeq
  <2>2. \E f : f = [i \in 1..Len(seqs) |-> IF i = 1 THEN seqs[i] ELSE f[i - 1] \o seqs[i]]
    BY FlattensExist DEF Flattens
  <2>3. flatten = [i \in 1..Len(seqs) |-> IF i = 1 THEN seqs[i] ELSE flatten[i - 1] \o seqs[i]]
    BY <2>2
  <2>4. Flattens(flatten, seqs, Len(seqs))
    BY <2>3 DEF Flattens
  <2> QED
    BY <2>1, <2>4
<1> QED
  BY <1>1, <1>2

LEMMA FlattensTyped ==
  ASSUME NEW T, NEW seqs \in Seq(Seq(T)), NEW n \in 1..Len(seqs), NEW f, Flattens(f, seqs, n)
  PROVE  \A i \in 1..n : f[i] \in Seq(T)
<1> DEFINE bad == {i \in 1..n : f[i] \notin Seq(T)}
<1> SUFFICES ASSUME bad # {} PROVE FALSE
  OBVIOUS
<1>1. PICK i \in bad : \A j \in bad : i <= j
  <2>1. bad \subseteq Nat
    OBVIOUS
  <2> HIDE DEF bad
  <2> QED
    BY <2>1, SmallestMember
<1>2. f[i] = IF i = 1 THEN seqs[i] ELSE f[i - 1] \o seqs[i]
  BY DEF Flattens
<1>3. seqs[i] \in Seq(T)
  OBVIOUS
<1>4. CASE i = 1
  BY <1>2, <1>3, <1>4
<1>5. CASE i # 1
  <2>1. i - 1 \in 1..n /\ i - 1 \notin bad
    BY <1>1, <1>5
  <2>2. f[i - 1] \in Seq(T)
    BY <2>1
  <2>3. f[i - 1] \o seqs[i] \in Seq(T)
    BY <1>3, <2>2
  <2>4. f[i] \in Seq(T)
    BY <1>2, <1>5, <2>3
  <2> QED
    BY <2>4
<1> QED
  BY <1>4, <1>5

(* The first n sequences lie one after another in flat, sequence i after   *)
(* position off[i - 1].                                                    *)
LaidOut(flat, seqs, off, n) ==
  /\ off \in [0..n -> Nat] /\ off[0] = 0 /\ off[n] = Len(flat)
  /\ \A i \in 1..n : off[i] = off[i - 1] + Len(seqs[i]) /\ off[i] <= off[n]
  /\ \A i \in 1..n : \A j \in 1..Len(seqs[i]) : flat[off[i - 1] + j] = seqs[i][j]

LEMMA LaidOutByOne ==
  ASSUME NEW T, NEW seqs \in Seq(Seq(T)), NEW n \in Nat, n + 1 <= Len(seqs),
         NEW flat \in Seq(T), NEW off, LaidOut(flat, seqs, off, n)
  PROVE  \E to : LaidOut(flat \o seqs[n + 1], seqs, to, n + 1)
<1> DEFINE part == seqs[n + 1]
           to == [i \in 0..n + 1 |-> IF i = n + 1 THEN off[n] + Len(part) ELSE off[i]]
<1>1. part \in Seq(T) /\ n + 1 \in 1..Len(seqs) /\ Len(part) \in Nat
  OBVIOUS
<1>2. /\ flat \o part \in Seq(T) /\ Len(flat \o part) = Len(flat) + Len(part)
      /\ \A p \in 1..Len(flat) : (flat \o part)[p] = flat[p]
      /\ \A j \in 1..Len(part) : (flat \o part)[Len(flat) + j] = part[j]
  BY <1>1
<1>3. /\ off \in [0..n -> Nat] /\ off[0] = 0 /\ off[n] = Len(flat)
      /\ \A i \in 1..n : off[i] = off[i - 1] + Len(seqs[i]) /\ off[i] <= off[n]
      /\ \A i \in 1..n : \A j \in 1..Len(seqs[i]) : flat[off[i - 1] + j] = seqs[i][j]
  BY DEF LaidOut
<1> HIDE DEF part
<1>4. /\ to \in [0..n + 1 -> Nat] /\ to[0] = 0 /\ to[n + 1] = Len(flat \o part)
      /\ \A i \in 0..n : to[i] = off[i]
  BY <1>1, <1>2, <1>3
<1>5. ASSUME NEW i \in 1..n + 1
      PROVE  /\ to[i] = to[i - 1] + Len(seqs[i]) /\ to[i] <= to[n + 1]
             /\ \A j \in 1..Len(seqs[i]) : (flat \o part)[to[i - 1] + j] = seqs[i][j]
  <2>1. i - 1 \in 0..n /\ to[i - 1] = off[i - 1]
    BY <1>4
  <2>2. CASE i = n + 1
    <3>1. i - 1 = n /\ to[i - 1] = off[n] /\ off[n] = Len(flat) /\ off[n] \in Nat
      BY <2>1, <2>2, <1>3
    <3>2. to[n + 1] = off[n] + Len(part) /\ to[i] = to[n + 1]
      BY <2>2
    <3>3. part = seqs[i]
      BY <2>2 DEF part
    <3>4. \A j \in 1..Len(part) : (flat \o part)[to[i - 1] + j] = part[j]
      BY <1>2, <3>1
    <3>5. to[n + 1] \in Nat
      BY <1>4
    <3> HIDE DEF to
    <3> QED
      BY <1>1, <3>1, <3>2, <3>3, <3>4, <3>5
  <2>3. CASE i # n + 1
    <3>1. i \in 1..n /\ to[i] = off[i]
      BY <2>3, <1>4
    <3>2. seqs[i] \in Seq(T) /\ Len(seqs[i]) \in Nat /\ off[i - 1] \in Nat /\ off[n] \in Nat
      <4>1. i \in 1..Len(seqs) /\ i - 1 \in 0..n /\ n \in 0..n
        BY <3>1, <2>1
      <4>2. seqs[i] \in Seq(T)
        BY <4>1
      <4>3. Len(seqs[i]) \in Nat
        BY <4>2
      <4>4. off[i - 1] \in Nat /\ off[n] \in Nat
        BY <1>3, <4>1
      <4> QED
        BY <4>2, <4>3, <4>4
    <3>3. off[i] = off[i - 1] + Len(seqs[i]) /\ off[i] <= off[n]
      BY <1>3, <3>1
    <3>4. ASSUME NEW j \in 1..Len(seqs[i])
          PROVE  (flat \o part)[off[i - 1] + j] = seqs[i][j]
      <4>1. off[i - 1] + j \in 1..Len(flat)
        BY <1>3, <3>2, <3>3
      <4>2. flat[off[i - 1] + j] = seqs[i][j]
        BY <1>3, <3>1
      <4> QED
        BY <1>2, <4>1, <4>2
    <3>5. to[n + 1] = off[n] + Len(part) /\ n + 1 \in 0..n + 1
      OBVIOUS
    <3>6. to[i] <= to[n + 1]
      <4>1. to[i] = off[i] /\ to[n + 1] = off[n] + Len(part) /\ off[i] \in Nat
        BY <1>3, <3>1, <3>5
      <4> HIDE DEF to
      <4> QED
        BY <1>1, <3>2, <3>3, <4>1
    <3>7. to[i] = to[i - 1] + Len(seqs[i])
      BY <2>1, <3>1, <3>3
    <3> QED
      BY <2>1, <3>4, <3>6, <3>7
  <2> QED
    BY <2>2, <2>3
<1>6. LaidOut(flat \o part, seqs, to, n + 1)
  <2> HIDE DEF to
  <2> QED
    BY <1>4, <1>5 DEF LaidOut
<1> QED
  BY <1>6 DEF part

LEMMA FlattensLaidOut ==
  ASSUME NEW T, NEW seqs \in Seq(Seq(T)), NEW n \in 1..Len(seqs), NEW f, Flattens(f, seqs, n)
  PROVE  \A i \in 1..n : \E off : LaidOut(f[i], seqs, off, i)
<1> DEFINE bad == {i \in 1..n : ~\E off : LaidOut(f[i], seqs, off, i)}
<1> SUFFICES ASSUME bad # {} PROVE FALSE
  OBVIOUS
<1>1. PICK i \in bad : \A j \in bad : i <= j
  <2>1. bad \subseteq Nat
    OBVIOUS
  <2> HIDE DEF bad
  <2> QED
    BY <2>1, SmallestMember
<1>2. f[i] = IF i = 1 THEN seqs[i] ELSE f[i - 1] \o seqs[i]
  BY DEF Flattens
<1>3. CASE i = 1
  <2>1. LaidOut(<<>>, seqs, [k \in 0..0 |-> 0], 0)
    BY DEF LaidOut
  <2>2. <<>> \in Seq(T) /\ 0 \in Nat /\ 0 + 1 <= Len(seqs) /\ 0 + 1 = 1
    OBVIOUS
  <2>3. \E off : LaidOut(<<>> \o seqs[0 + 1], seqs, off, 0 + 1)
    BY <2>1, <2>2, LaidOutByOne
  <2>4. <<>> \o seqs[1] = seqs[1]
    <3>1. seqs[1] \in Seq(T)
      OBVIOUS
    <3> QED
      BY <3>1
  <2>5. \E off : LaidOut(f[1], seqs, off, 1)
    BY <1>2, <1>3, <2>2, <2>3, <2>4
  <2> QED
    BY <1>3, <2>5
<1>4. CASE i # 1
  <2>1. i - 1 \in 1..n /\ i - 1 \in Nat /\ i - 1 \notin bad /\ (i - 1) + 1 = i /\ i <= Len(seqs)
    <3>1. i \in 1..n /\ n \in Nat /\ n <= Len(seqs) /\ Len(seqs) \in Nat
      OBVIOUS
    <3> HIDE DEF bad
    <3>2. i - 1 \notin bad
      <4>1. ~ (i <= i - 1)
        BY <3>1
      <4> QED
        BY <1>1, <4>1
    <3> QED
      BY <1>4, <3>1, <3>2
  <2>2. PICK off : LaidOut(f[i - 1], seqs, off, i - 1)
    BY <2>1
  <2>3. f[i - 1] \in Seq(T)
    BY <2>1, FlattensTyped
  <2>4. \E to : LaidOut(f[i - 1] \o seqs[(i - 1) + 1], seqs, to, (i - 1) + 1)
    <3> DEFINE m == i - 1
    <3>1. m \in Nat /\ m + 1 <= Len(seqs)
      BY <2>1
    <3> HIDE DEF m
    <3>2. \A g \in Seq(T) : LaidOut(g, seqs, off, m) => \E to : LaidOut(g \o seqs[m + 1], seqs, to, m + 1)
      BY <3>1, LaidOutByOne
    <3> QED
      BY <2>2, <2>3, <3>2 DEF m
  <2>5. \E to : LaidOut(f[i], seqs, to, i)
    BY <1>2, <1>4, <2>1, <2>4
  <2> QED
    BY <2>5
<1> QED
  BY <1>3, <1>4

(* FlattenSeq lays its sequences out one after another.                    *)
LEMMA FlattenSeqLaidOut ==
  ASSUME NEW T, NEW seqs \in Seq(Seq(T))
  PROVE  /\ FlattenSeq(seqs) \in Seq(T)
         /\ \E off : LaidOut(FlattenSeq(seqs), seqs, off, Len(seqs))
<1>1. CASE Len(seqs) = 0
  <2>1. seqs = <<>>
    BY <1>1
  <2>2. FlattenSeq(seqs) = <<>>
    BY <1>1, <2>1, FlattenSeqIs
  <2>3. LaidOut(<<>>, seqs, [k \in 0..0 |-> 0], 0)
    BY DEF LaidOut
  <2> QED
    BY <1>1, <2>2, <2>3
<1>2. CASE Len(seqs) # 0
  <2>1. PICK f : Flattens(f, seqs, Len(seqs)) /\ FlattenSeq(seqs) = f[Len(seqs)]
    BY <1>2, FlattenSeqIs
  <2>2. Len(seqs) \in 1..Len(seqs)
    BY <1>2
  <2> QED
    BY <2>1, <2>2, FlattensTyped, FlattensLaidOut
<1> QED
  BY <1>1, <1>2

-----------------------------------------------------------------------------

LEMMA LaidOutNumbers ==
  ASSUME NEW T, NEW seqs \in Seq(Seq(T)), NEW flat, NEW off,
         LaidOut(flat, seqs, off, Len(seqs))
  PROVE  /\ Len(seqs) \in Nat
         /\ \A i \in 0..Len(seqs) : off[i] \in Nat
         /\ \A i \in 1..Len(seqs) :
              /\ i \in 0..Len(seqs) /\ i - 1 \in 0..Len(seqs)
              /\ seqs[i] \in Seq(T) /\ Len(seqs[i]) \in Nat
              /\ off[i] \in Nat /\ off[i - 1] \in Nat
              /\ off[i] = off[i - 1] + Len(seqs[i])
              /\ off[i] <= off[Len(seqs)]
         /\ off[Len(seqs)] = Len(flat) /\ Len(flat) \in Nat
<1>1. /\ off \in [0..Len(seqs) -> Nat] /\ off[Len(seqs)] = Len(flat)
      /\ \A m \in 1..Len(seqs) : off[m] = off[m - 1] + Len(seqs[m]) /\ off[m] <= off[Len(seqs)]
  BY DEF LaidOut
<1>2. Len(seqs) \in Nat /\ Len(seqs) \in 0..Len(seqs)
  OBVIOUS
<1>3. \A i \in 1..Len(seqs) :
        i \in 0..Len(seqs) /\ i - 1 \in 0..Len(seqs) /\ seqs[i] \in Seq(T)
  OBVIOUS
<1>4. \A i \in 1..Len(seqs) : Len(seqs[i]) \in Nat
  <2> TAKE i \in 1..Len(seqs)
  <2>1. seqs[i] \in Seq(T)
    BY <1>3
  <2> QED
    BY <2>1
<1> QED
  BY <1>1, <1>2, <1>3, <1>4

(* Later sequences lie at later positions.                                 *)
LEMMA LaidOutInOrder ==
  ASSUME NEW T, NEW seqs \in Seq(Seq(T)), NEW flat, NEW off,
         LaidOut(flat, seqs, off, Len(seqs)),
         NEW i \in 0..Len(seqs), NEW k \in 0..Len(seqs), i <= k
  PROVE  off[i] <= off[k]
<1> DEFINE bad == {m \in i..Len(seqs) : ~ (off[i] <= off[m])}
<1> SUFFICES ASSUME bad # {} PROVE FALSE
  <2>1. k \in i..Len(seqs)
    OBVIOUS
  <2> QED
    BY <2>1
<1>1. PICK m \in bad : \A j \in bad : m <= j
  <2>1. bad \subseteq Nat
    OBVIOUS
  <2> HIDE DEF bad
  <2> QED
    BY <2>1, SmallestMember
<1>2. off \in [0..Len(seqs) -> Nat]
  BY DEF LaidOut
<1>3. m # i
  <2>1. off[i] \in Nat
    BY <1>2
  <2>2. off[i] <= off[i]
    BY <2>1
  <2> QED
    BY <2>2
<1>4. m \in 1..Len(seqs) /\ m - 1 \in i..Len(seqs) /\ ~ (m <= m - 1)
  BY <1>3
<1>5. off[i] <= off[m - 1]
  BY <1>1, <1>4
<1>6. /\ off[m] = off[m - 1] + Len(seqs[m])
      /\ off[m] \in Nat /\ off[m - 1] \in Nat /\ off[i] \in Nat /\ Len(seqs[m]) \in Nat
  BY <1>4, LaidOutNumbers
<1>7. off[i] <= off[m]
  BY <1>5, <1>6
<1> QED
  BY <1>7

(* Position p of flat holds an element of one of the sequences.            *)
TakenFrom(flat, seqs, off, p) ==
  \E i \in 1..Len(seqs) : \E j \in 1..Len(seqs[i]) :
    p = off[i - 1] + j /\ flat[p] = seqs[i][j]

(* Every position belongs to one of the sequences.                         *)
LEMMA LaidOutPlace ==
  ASSUME NEW T, NEW seqs \in Seq(Seq(T)), NEW flat, NEW off,
         LaidOut(flat, seqs, off, Len(seqs)), NEW p \in 1..Len(flat)
  PROVE  TakenFrom(flat, seqs, off, p)
<1> DEFINE reached == {i \in 0..Len(seqs) : p <= off[i]}
<1>1. /\ off \in [0..Len(seqs) -> Nat] /\ off[0] = 0 /\ off[Len(seqs)] = Len(flat)
      /\ \A j \in 1..Len(seqs) : off[j] = off[j - 1] + Len(seqs[j])
  BY DEF LaidOut
<1>2. Len(seqs) \in reached /\ p \in Nat /\ p # 0
  BY <1>1
<1>3. PICK i \in reached : \A j \in reached : i <= j
  <2>1. reached \subseteq Nat
    OBVIOUS
  <2> HIDE DEF reached
  <2> QED
    BY <1>2, <2>1, SmallestMember
<1>4. i \in 1..Len(seqs) /\ i - 1 \in 0..Len(seqs) /\ ~ (i <= i - 1)
  <2>1. i # 0
    BY <1>1, <1>2
  <2> QED
    BY <2>1
<1>5. ~ (p <= off[i - 1])
  BY <1>3, <1>4
<1>6. /\ off[i] = off[i - 1] + Len(seqs[i]) /\ p <= off[i]
      /\ off[i] \in Nat /\ off[i - 1] \in Nat /\ Len(seqs[i]) \in Nat
  <2>1. p <= off[i]
    OBVIOUS
  <2> HIDE DEF reached
  <2> QED
    BY <2>1, <1>4, LaidOutNumbers
<1> DEFINE j == p - off[i - 1]
<1>7. j \in 1..Len(seqs[i]) /\ p = off[i - 1] + j
  BY <1>2, <1>5, <1>6
<1>8. flat[p] = seqs[i][j]
  <2> HIDE DEF j
  <2> QED
    BY <1>4, <1>7 DEF LaidOut
<1> QED
  BY <1>4, <1>7, <1>8 DEF TakenFrom

LEMMA BeforeAndAfter ==
  ASSUME NEW a \in Nat, NEW m \in Nat, NEW j \in 1..m, NEW b \in Nat, a + m <= b,
         NEW n \in Nat, NEW l \in 1..n
  PROVE  a + j < b + l /\ ~ (b + l < a + j)
OBVIOUS

(* The order of positions is that of the sequences, then that within one.  *)
LEMMA LaidOutOrder ==
  ASSUME NEW T, NEW seqs \in Seq(Seq(T)), NEW flat, NEW off,
         LaidOut(flat, seqs, off, Len(seqs)),
         NEW i \in 1..Len(seqs), NEW j \in 1..Len(seqs[i]),
         NEW k \in 1..Len(seqs), NEW l \in 1..Len(seqs[k])
  PROVE  (off[i - 1] + j < off[k - 1] + l) <=> (i < k \/ (i = k /\ j < l))
<1>2. i - 1 \in 0..Len(seqs) /\ k - 1 \in 0..Len(seqs) /\ i \in 0..Len(seqs) /\ k \in 0..Len(seqs)
  OBVIOUS
<1>3. /\ off[i - 1] \in Nat /\ off[k - 1] \in Nat /\ off[i] \in Nat /\ off[k] \in Nat
      /\ off[i] = off[i - 1] + Len(seqs[i]) /\ off[k] = off[k - 1] + Len(seqs[k])
      /\ Len(seqs[i]) \in Nat /\ Len(seqs[k]) \in Nat
  BY LaidOutNumbers
<1>4. CASE i < k
  <2>1. off[i] <= off[k - 1]
    BY <1>2, <1>4, LaidOutInOrder
  <2> DEFINE a == off[i - 1]
             b == off[k - 1]
             m == Len(seqs[i])
             n == Len(seqs[k])
  <2>3. a \in Nat /\ b \in Nat /\ m \in Nat /\ n \in Nat /\ a + m <= b /\ j \in 1..m /\ l \in 1..n
    BY <1>3, <2>1
  <2> HIDE DEF a, b, m, n
  <2>4. a + j < b + l
    BY <2>3, BeforeAndAfter
  <2>2. off[i - 1] + j < off[k - 1] + l
    BY <2>4 DEF a, b
  <2> QED
    BY <1>4, <2>2
<1>5. CASE k < i
  <2>1. off[k] <= off[i - 1]
    BY <1>2, <1>5, LaidOutInOrder
  <2> DEFINE a == off[k - 1]
             b == off[i - 1]
             m == Len(seqs[k])
             n == Len(seqs[i])
  <2>3. a \in Nat /\ b \in Nat /\ m \in Nat /\ n \in Nat /\ a + m <= b /\ l \in 1..m /\ j \in 1..n
    BY <1>3, <2>1
  <2> HIDE DEF a, b, m, n
  <2>4. ~ (b + j < a + l)
    BY <2>3, BeforeAndAfter
  <2>2. ~ (off[i - 1] + j < off[k - 1] + l)
    BY <2>4 DEF a, b
  <2> QED
    BY <1>5, <2>2
<1>6. CASE i = k
  BY <1>3, <1>6
<1> QED
  BY <1>4, <1>5, <1>6

LEMMA LaidOutRange ==
  ASSUME NEW T, NEW seqs \in Seq(Seq(T)), NEW flat, NEW off,
         LaidOut(flat, seqs, off, Len(seqs)),
         NEW i \in 1..Len(seqs), NEW j \in 1..Len(seqs[i])
  PROVE  off[i - 1] + j \in 1..Len(flat) /\ flat[off[i - 1] + j] = seqs[i][j]
<1>1. flat[off[i - 1] + j] = seqs[i][j]
  BY DEF LaidOut
<1>2. /\ off[i] \in Nat /\ off[i - 1] \in Nat /\ Len(seqs[i]) \in Nat
      /\ off[i] = off[i - 1] + Len(seqs[i]) /\ off[i] <= off[Len(seqs)]
  BY LaidOutNumbers
<1>3. off[Len(seqs)] = Len(flat) /\ Len(flat) \in Nat
  BY LaidOutNumbers
<1> DEFINE a == off[i - 1]
           e == off[i]
           m == Len(seqs[i])
           z == Len(flat)
<1>4. a \in Nat /\ e \in Nat /\ m \in Nat /\ z \in Nat /\ e = a + m /\ e <= z /\ j \in 1..m
  BY <1>2, <1>3
<1> HIDE DEF a, e, m, z
<1>5. a + j \in 1..z
  BY <1>4
<1>6. off[i - 1] + j \in 1..Len(flat)
  BY <1>5 DEF a, z
<1> QED
  BY <1>1, <1>6

(* All of this, of some sequences that lie one after another.              *)
LEMMA LaidOutFacts ==
  ASSUME NEW T, NEW seqs \in Seq(Seq(T)), NEW flat, NEW off,
         LaidOut(flat, seqs, off, Len(seqs))
  PROVE  /\ \A p \in 1..Len(flat) : TakenFrom(flat, seqs, off, p)
         /\ \A i \in 1..Len(seqs) : \A j \in 1..Len(seqs[i]) :
              off[i - 1] + j \in 1..Len(flat) /\ flat[off[i - 1] + j] = seqs[i][j]
         /\ \A i, k \in 1..Len(seqs) : \A j \in 1..Len(seqs[i]), l \in 1..Len(seqs[k]) :
              off[i - 1] + j < off[k - 1] + l => i < k \/ (i = k /\ j < l)
<1>1. ASSUME NEW p \in 1..Len(flat) PROVE TakenFrom(flat, seqs, off, p)
  BY LaidOutPlace
<1>2. ASSUME NEW i \in 1..Len(seqs), NEW j \in 1..Len(seqs[i])
      PROVE  off[i - 1] + j \in 1..Len(flat) /\ flat[off[i - 1] + j] = seqs[i][j]
  BY LaidOutRange
<1>3. ASSUME NEW i \in 1..Len(seqs), NEW k \in 1..Len(seqs),
             NEW j \in 1..Len(seqs[i]), NEW l \in 1..Len(seqs[k]),
             off[i - 1] + j < off[k - 1] + l
      PROVE  i < k \/ (i = k /\ j < l)
  BY <1>3, LaidOutOrder
<1> QED
  BY <1>1, <1>2, <1>3
=============================================================================
