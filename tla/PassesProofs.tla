------------------------------ MODULE PassesProofs ------------------------------
(***************************************************************************)
(* Proofs about the passes of a run of mtFuzzer, for any inputs that fit   *)
(* PassesAssumption.  Each pass has variables of its own, so that an       *)
(* invariant of a pass has to be shown for the steps of that pass only.    *)
(***************************************************************************)
EXTENDS Passes, SequenceProofs, FiniteSetTheorems, TLAPS

-----------------------------------------------------------------------------
(* Integer division, and rounding to a multiple of P as std::to_string     *)
(* does: it does not move a value past a bound that is itself a multiple.  *)

LEMMA DivBounds ==
  ASSUME NEW n \in Int, NEW k \in Nat \ {0}
  PROVE  /\ n \div k \in Int /\ n % k \in 0 .. k - 1
         /\ n = (k * (n \div k)) + (n % k)
OBVIOUS

LEMMA DivExact ==
  ASSUME NEW n \in Int, NEW k \in Nat \ {0}
  PROVE  (n * k) \div k = n
OBVIOUS

LEMMA Rounding ==
  ASSUME NEW v \in Int, NEW P \in Nat \ {0}, NEW a \in Int, a % P = 0
  PROVE  /\ v >= a => ((v + P \div 2) \div P) * P >= a
         /\ v <= a => ((v + P \div 2) \div P) * P <= a
<1> DEFINE w == v + P \div 2
           q == a \div P
           d == w \div P
<1>1. P \div 2 \in 0 .. P - 1
  OBVIOUS
<1>2. w \in Int /\ v <= w /\ w < v + P
  BY <1>1
<1>3. q \in Int /\ a = P * q
  BY DivBounds
<1>4. d \in Int /\ P * d <= w /\ w < P * (d + 1)
  <2>1. d \in Int /\ w % P \in 0 .. P - 1 /\ w = P * d + (w % P)
    BY <1>2, DivBounds
  <2> QED
    BY <2>1, <1>2
<1> HIDE DEF q, w, d
<1>5. ASSUME v >= a PROVE d >= q
  <2>1. P * q < P * (d + 1)
    BY <1>2, <1>3, <1>4, <1>5
  <2> QED
    BY <2>1, <1>3, <1>4
<1>6. ASSUME v <= a PROVE d <= q
  <2>1. P * d < P * (q + 1)
    BY <1>2, <1>3, <1>4, <1>6
  <2> QED
    BY <2>1, <1>3, <1>4
<1>7. d >= q => d * P >= a
  BY <1>3, <1>4
<1>8. d <= q => d * P <= a
  BY <1>3, <1>4
<1> QED
  BY <1>5, <1>6, <1>7, <1>8 DEF d, w

-----------------------------------------------------------------------------
(* Pass 7: a bound is what the source means by it.                         *)

LEMMA Limits ==
  /\ MaxInt \in Nat \ {0} /\ MaxByte \in Nat \ {0}
  /\ Fractions \in Nat \ {0} /\ Printed \in Nat \ {0} /\ MaxByte <= MaxInt
BY PassesAssumption DEF Rand!FuzzRandAssumption

LEMMA WrapFits ==
  ASSUME NEW n \in Int
  PROVE  /\ Rand!Wrap(n) \in -MaxInt - 1 .. MaxInt
         /\ n \in -MaxInt - 1 .. MaxInt => Rand!Wrap(n) = n
         /\ n = MaxInt + 1 => Rand!Wrap(n) = -MaxInt - 1
<1>1. Rand!Wrap(n) \in -MaxInt - 1 .. MaxInt
  BY Limits DEF Rand!Wrap
<1>2. ASSUME n \in -MaxInt - 1 .. MaxInt PROVE Rand!Wrap(n) = n
  BY <1>2, Limits DEF Rand!Wrap
<1>3. ASSUME n = MaxInt + 1 PROVE Rand!Wrap(n) = -MaxInt - 1
  BY <1>3, Limits DEF Rand!Wrap
<1> QED
  BY <1>1, <1>2, <1>3

(* The least int is read although its absolute value does not fit.         *)
LEMMA WrapTwice ==
  ASSUME NEW n \in Int
  PROVE  /\ Rand!Wrap(n) \in Int /\ -Rand!Wrap(n) \in Int
         /\ Rand!Wrap(Rand!Wrap(n)) = Rand!Wrap(n)
         /\ -n \in -MaxInt - 1 .. MaxInt => Rand!Wrap(-Rand!Wrap(n)) = -n
<1> DEFINE w == Rand!Wrap(n)
<1>1. w \in -MaxInt - 1 .. MaxInt /\ w \in Int
  <2>1. w \in -MaxInt - 1 .. MaxInt
    BY WrapFits
  <2> HIDE DEF w
  <2> QED
    BY <2>1, Limits
<1>2. /\ n \in -MaxInt - 1 .. MaxInt => w = n
      /\ n = MaxInt + 1 => w = -MaxInt - 1
  BY WrapFits
<1> HIDE DEF w
<1>3. -w \in Int
  BY <1>1
<1>4. Rand!Wrap(w) = w
  BY <1>1, WrapFits
<1>5. ASSUME -n \in -MaxInt - 1 .. MaxInt PROVE Rand!Wrap(-w) = -n
  <2>1. CASE n = MaxInt + 1
    <3>1. -w = MaxInt + 1 /\ -n = -MaxInt - 1
      BY <1>1, <1>2, <2>1, Limits
    <3> QED
      BY <3>1, <1>3, WrapFits
  <2>2. CASE n # MaxInt + 1
    <3>1. n \in -MaxInt - 1 .. MaxInt
      BY <1>5, <2>2, Limits
    <3>2. -w = -n
      BY <3>1, <1>2
    <3> QED
      BY <3>2, <1>3, <1>5, WrapFits
  <2> QED
    BY <2>1, <2>2
<1> QED
  BY <1>1, <1>3, <1>4, <1>5 DEF w

LEMMA IntIsMeant ==
  ASSUME NEW arg \in Rand!Arguments, Rand!IsInt(arg),
         NEW type \in {"int", "unsigned int"}
  PROVE  /\ Rand!IntOf(arg) \in -MaxInt - 1 .. MaxInt
         /\ Rand!Fits(type, Rand!Meant(type, arg)) => Rand!IntOf(arg) = Rand!Meant(type, arg)
<1>1. arg.val \in Int
  BY DEF Rand!Arguments
<1>2. \A n : Rand!Fits(type, n) => n \in -MaxInt - 1 .. MaxInt
  BY DEF Rand!Fits
<1>3. CASE arg.outer = "minus"
  <2>1. Rand!IntOf(arg) = Rand!Wrap(-Rand!Wrap(arg.val)) /\ Rand!Meant(type, arg) = -arg.val
    BY <1>3 DEF Rand!IntOf, Rand!Signed, Rand!Meant
  <2>2. -Rand!Wrap(arg.val) \in Int
    BY <1>1, WrapTwice
  <2>3. Rand!IntOf(arg) \in -MaxInt - 1 .. MaxInt
    BY <2>1, <2>2, WrapFits
  <2>4. -arg.val \in -MaxInt - 1 .. MaxInt => Rand!Wrap(-Rand!Wrap(arg.val)) = -arg.val
    BY <1>1, WrapTwice
  <2> QED
    BY <2>1, <2>3, <2>4, <1>2
<1>4. CASE arg.outer # "minus"
  <2>1. Rand!IntOf(arg) = Rand!Wrap(Rand!Wrap(arg.val)) /\ Rand!Meant(type, arg) = arg.val
    BY <1>4 DEF Rand!IntOf, Rand!Signed, Rand!Meant
  <2>2. Rand!IntOf(arg) = Rand!Wrap(arg.val)
    BY <2>1, <1>1, WrapTwice
  <2>3. Rand!Fits(type, arg.val) => Rand!Wrap(arg.val) = arg.val
    BY <1>1, <1>2, WrapFits
  <2> QED
    BY <2>1, <2>2, <2>3, <1>1, WrapFits
<1> QED
  BY <1>3, <1>4

LEMMA DoubleIsMeant ==
  ASSUME NEW arg \in Rand!Arguments, Rand!IsDouble(arg)
  PROVE  Rand!DoubleOf(arg) \in Int /\ Rand!DoubleOf(arg) = Rand!Meant("double", arg)
<1>1. arg.val \in Int /\ arg.val * Fractions \in Int
  BY Limits DEF Rand!Arguments
<1>2. CASE arg.outer = "minus"
  BY <1>1, <1>2 DEF Rand!DoubleOf, Rand!Signed, Rand!Meant
<1>3. CASE arg.outer # "minus"
  BY <1>1, <1>3 DEF Rand!DoubleOf, Rand!Signed, Rand!Meant
<1> QED
  BY <1>2, <1>3

(* A fraction is dropped towards zero, with a minus as without it.         *)
LEMMA ByteIsMeant ==
  ASSUME NEW arg \in Rand!Arguments, Rand!IsDouble(arg), arg.val >= 0
  PROVE  /\ Rand!Bytes(Rand!DoubleOf(arg)) \subseteq 0 .. MaxByte
         /\ Rand!Fits("basic_string", Rand!Meant("basic_string", arg)) =>
              Rand!Bytes(Rand!DoubleOf(arg)) = {Rand!Meant("basic_string", arg)}
<1> DEFINE x == IF arg.node = "int" THEN arg.val * Fractions ELSE arg.val
           b == IF arg.node = "int" THEN arg.val ELSE arg.val \div Fractions
           d == Rand!DoubleOf(arg)
           n == IF d >= 0 THEN d \div Fractions ELSE -((-d) \div Fractions)
           m == Rand!Meant("basic_string", arg)
<1>1. arg.val \in Nat
  BY DEF Rand!Arguments
<1>2. x \in Nat /\ b \in Nat /\ x \div Fractions = b /\ 0 \div Fractions = 0
  BY <1>1, Limits, DivExact
<1>3. /\ d = (IF arg.outer = "minus" THEN -x ELSE x)
      /\ m = (IF arg.outer = "minus" THEN -b ELSE b)
  <2>1. arg.node \in {"int", "fp"}
    BY DEF Rand!IsDouble
  <2> QED
    BY <2>1 DEF Rand!DoubleOf, Rand!Signed, Rand!Meant
<1>4. Rand!Bytes(d) = IF n \in 0 .. MaxByte THEN {n} ELSE 0 .. MaxByte
  BY DEF Rand!Bytes
<1>5. n = m
  <2> HIDE DEF x, b, d, m
  <2>1. CASE arg.outer = "minus" /\ x # 0
    <3>1. d = -x /\ ~(d >= 0) /\ -d = x
      BY <2>1, <1>2, <1>3
    <3> QED
      BY <3>1, <2>1, <1>2, <1>3
  <2>2. CASE arg.outer = "minus" /\ x = 0
    BY <2>2, <1>2, <1>3
  <2>3. CASE arg.outer # "minus"
    BY <2>3, <1>2, <1>3
  <2> QED
    BY <2>1, <2>2, <2>3
<1>6. Rand!Fits("basic_string", m) => m \in 0 .. MaxByte
  BY DEF Rand!Fits
<1> HIDE DEF n, d, m
<1> QED
  BY <1>4, <1>5, <1>6 DEF d, m

-----------------------------------------------------------------------------
(* What replaces a call, by its type.                                      *)

IntTypes == {"int", "unsigned int"}

(* What WithinBounds asks of the number v in the place of the call c, and  *)
(* that it is an int.                                                      *)
InBounds(c, v) ==
  IF c.args = <<>> THEN v >= 0
  ELSE LET min == Rand!Meant(c.type, c.args[1])
           max == Rand!Meant(c.type, c.args[2])
       IN  Rand!Fits(c.type, min) /\ Rand!Fits(c.type, max) /\ min <= max => v \in min .. max

IsInteger(c, v) == c.type # "double" => v \in -MaxInt - 1 .. MaxInt

(* The call at hand, when its arguments are accepted.                      *)
LEMMA AcceptedCall ==
  ASSUME fuzzer_calls \in CallLists, call_next \in DOMAIN fuzzer_calls, Rand!Accepted
  PROVE  /\ Rand!call \in Rand!Calls
         /\ Rand!call.type \in IntTypes \cup {"double", "basic_string"}
         /\ Rand!call.args # <<>> => DOMAIN Rand!call.args = {1, 2}
         /\ \A a \in DOMAIN Rand!call.args :
              /\ Rand!call.args[a] \in Rand!Arguments
              /\ Rand!Readable(Rand!call.args[a])
              /\ Rand!call.args[a].node # "binary" => Rand!call.args[a].val >= 0
<1>1. fuzzer_calls \in Seq(Rand!Calls)
  BY PassesAssumption DEF Rand!FuzzRandAssumption
<1>2. Rand!call \in Rand!Calls /\ Rand!call.args \in Seq(Rand!Arguments)
  <2>1. Rand!call \in Rand!Calls
    BY <1>1 DEF Rand!call
  <2> QED
    BY <2>1 DEF Rand!Calls
<1>3. Len(Rand!call.args) \in {0, 2} /\ Rand!call.type \in IntTypes \cup {"double", "basic_string"}
  BY DEF Rand!Accepted, Rand!IsArity, Rand!IsCovered, IntTypes
<1>4. \A a \in DOMAIN Rand!call.args :
        Rand!call.args[a].node # "binary" => Rand!call.args[a].val >= 0
  BY PassesAssumption DEF Rand!FuzzRandAssumption, Rand!call
<1>5. \A a \in DOMAIN Rand!call.args :
        Rand!call.args[a] \in Rand!Arguments /\ Rand!Readable(Rand!call.args[a])
  BY <1>2 DEF Rand!Accepted
<1>6. Rand!call.args # <<>> => DOMAIN Rand!call.args = {1, 2}
  BY <1>2, <1>3
<1> QED
  BY <1>2, <1>3, <1>4, <1>5, <1>6

(* A number that fits in what the type admits between two bounds is there. *)
LEMMA GeneratedInt ==
  ASSUME fuzzer_calls \in CallLists, call_next \in DOMAIN fuzzer_calls, Rand!Accepted,
         Rand!call.type \in IntTypes,
         NEW min \in Rand!Minima, NEW max \in Rand!Maxima, NEW v \in Rand!generateRand(min, max)
  PROVE  InBounds(Rand!call, Rand!Text(v)) /\ IsInteger(Rand!call, Rand!Text(v))
<1> DEFINE c == Rand!call
<1>1. Rand!Text(v) = v /\ Rand!DefaultMax = MaxInt
  BY DEF Rand!Text, Rand!DefaultMax, IntTypes
<1>2. min \in -MaxInt - 1 .. MaxInt /\ max \in -MaxInt - 1 .. MaxInt
  <2>1. CASE c.args = <<>>
    <3>1. min = 0 /\ max = MaxInt
      BY <2>1, <1>1 DEF Rand!Minima, Rand!Maxima
    <3> QED
      BY <3>1, Limits
  <2>2. CASE c.args # <<>>
    <3>1. min = Rand!IntOf(c.args[1]) /\ max = Rand!IntOf(c.args[2])
      BY <2>2 DEF Rand!Minima, Rand!Maxima, Rand!BoundsOf, IntTypes
    <3>2. \A a \in {1, 2} : c.args[a] \in Rand!Arguments /\ Rand!IsInt(c.args[a])
      BY <2>2, AcceptedCall DEF Rand!Readable, IntTypes
    <3> QED
      BY <3>1, <3>2, IntIsMeant
  <2> QED
    BY <2>1, <2>2
<1>3. v \in -MaxInt - 1 .. MaxInt /\ (min <= max => v \in min .. max)
  BY <1>1, <1>2, Limits DEF Rand!generateRand
<1>4. CASE c.args = <<>>
  <2>1. min = 0 /\ max = MaxInt
    BY <1>4, <1>1 DEF Rand!Minima, Rand!Maxima
  <2>2. v >= 0
    BY <2>1, <1>3, Limits
  <2> QED
    BY <2>2, <1>1, <1>3, <1>4 DEF InBounds, IsInteger
<1>5. CASE c.args # <<>>
  <2>1. min = Rand!IntOf(c.args[1]) /\ max = Rand!IntOf(c.args[2])
    BY <1>5 DEF Rand!Minima, Rand!Maxima, Rand!BoundsOf, IntTypes
  <2>2. \A a \in {1, 2} :
          Rand!Fits(c.type, Rand!Meant(c.type, c.args[a])) =>
            Rand!IntOf(c.args[a]) = Rand!Meant(c.type, c.args[a])
    <3>1. \A a \in {1, 2} : c.args[a] \in Rand!Arguments /\ Rand!IsInt(c.args[a])
      BY <1>5, AcceptedCall DEF Rand!Readable, IntTypes
    <3> QED
      BY <3>1, IntIsMeant DEF IntTypes
  <2> HIDE DEF c
  <2>3. InBounds(c, v)
    BY <2>1, <2>2, <1>3, <1>5 DEF InBounds
  <2>4. IsInteger(c, v)
    BY <1>3 DEF IsInteger
  <2> QED
    BY <2>3, <2>4, <1>1 DEF c
<1> QED
  BY <1>4, <1>5

LEMMA GeneratedDouble ==
  ASSUME fuzzer_calls \in CallLists, call_next \in DOMAIN fuzzer_calls, Rand!Accepted,
         Rand!call.type = "double",
         NEW min \in Rand!Minima, NEW max \in Rand!Maxima, NEW v \in Rand!generateRand(min, max)
  PROVE  InBounds(Rand!call, Rand!Text(v)) /\ IsInteger(Rand!call, Rand!Text(v))
<1> DEFINE c == Rand!call
<1>1. /\ Rand!Text(v) = ((v + Printed \div 2) \div Printed) * Printed
      /\ Rand!DefaultMax = Rand!MaxDouble
  BY DEF Rand!Text, Rand!DefaultMax
<1>2. IsInteger(c, Rand!Text(v))
  BY DEF IsInteger
<1>3. Rand!MaxDouble \in Nat
  BY Limits DEF Rand!MaxDouble
<1>4. ASSUME min \in Int, max \in Int PROVE v \in Int /\ (min <= max => v \in min .. max)
  BY <1>1, <1>3, <1>4 DEF Rand!generateRand
<1>5. CASE c.args = <<>>
  <2>1. min = 0 /\ max = Rand!MaxDouble
    BY <1>5, <1>1 DEF Rand!Minima, Rand!Maxima
  <2>2. v \in Int /\ v >= 0
    BY <2>1, <1>3, <1>4
  <2>3. 0 % Printed = 0
    BY Limits
  <2>4. Rand!Text(v) >= 0
    BY <2>2, <2>3, <1>1, Limits, Rounding
  <2> QED
    BY <2>4, <1>2, <1>5 DEF InBounds
<1>6. CASE c.args # <<>>
  <2>1. min = Rand!DoubleOf(c.args[1]) /\ max = Rand!DoubleOf(c.args[2])
    BY <1>6 DEF Rand!Minima, Rand!Maxima, Rand!BoundsOf
  <2>2. \A a \in {1, 2} : c.args[a] \in Rand!Arguments /\ Rand!IsDouble(c.args[a])
    BY <1>6, AcceptedCall DEF Rand!Readable
  <2>3. /\ min \in Int /\ min = Rand!Meant(c.type, c.args[1])
        /\ max \in Int /\ max = Rand!Meant(c.type, c.args[2])
    BY <2>1, <2>2, DoubleIsMeant
  <2>4. ASSUME min % Printed = 0, max % Printed = 0, min <= max
        PROVE  Rand!Text(v) \in min .. max
    <3>1. v \in Int /\ min <= v /\ v <= max
      BY <2>3, <2>4, <1>4
    <3>2. Rand!Text(v) \in Int
      <4>1. Printed \div 2 \in Int
        BY Limits
      <4>2. v + Printed \div 2 \in Int
        BY <3>1, <4>1
      <4>3. (v + Printed \div 2) \div Printed \in Int
        BY <4>2, Limits, DivBounds
      <4> HIDE DEF c
      <4> QED
        BY <4>3, <1>1, Limits
    <3>3. Rand!Text(v) >= min
      BY <3>1, <2>3, <2>4, <1>1, Limits, Rounding
    <3>4. Rand!Text(v) <= max
      BY <3>1, <2>3, <2>4, <1>1, Limits, Rounding
    <3> QED
      BY <3>2, <3>3, <3>4, <2>3
  <2>5. \A n : Rand!Fits(c.type, n) => n % Printed = 0
    BY DEF Rand!Fits
  <2> QED
    BY <2>3, <2>4, <2>5, <1>2, <1>6 DEF InBounds
<1> QED
  BY <1>5, <1>6

LEMMA GeneratedByte ==
  ASSUME fuzzer_calls \in CallLists, call_next \in DOMAIN fuzzer_calls, Rand!Accepted,
         Rand!call.type = "basic_string",
         NEW min \in Rand!Minima, NEW max \in Rand!Maxima, NEW v \in Rand!generateRand(min, max)
  PROVE  InBounds(Rand!call, Rand!Text(v)) /\ IsInteger(Rand!call, Rand!Text(v))
<1> DEFINE c == Rand!call
<1>1. Rand!Text(v) = v /\ Rand!DefaultMax = MaxByte
  BY DEF Rand!Text, Rand!DefaultMax
<1>2. ASSUME min \in 0 .. MaxByte, max \in 0 .. MaxByte
      PROVE  v \in -MaxInt - 1 .. MaxInt /\ (min <= max => v \in min .. max)
  BY <1>1, <1>2, Limits DEF Rand!generateRand
<1>3. CASE c.args = <<>>
  <2>1. min = 0 /\ max = MaxByte
    BY <1>3, <1>1 DEF Rand!Minima, Rand!Maxima
  <2>2. v \in -MaxInt - 1 .. MaxInt /\ v >= 0
    BY <2>1, <1>2, Limits
  <2> QED
    BY <2>2, <1>1, <1>3 DEF InBounds, IsInteger
<1>4. CASE c.args # <<>>
  <2>1. min \in Rand!Bytes(Rand!DoubleOf(c.args[1])) /\ max \in Rand!Bytes(Rand!DoubleOf(c.args[2]))
    BY <1>4 DEF Rand!Minima, Rand!Maxima, Rand!BoundsOf
  <2>2. \A a \in {1, 2} : /\ c.args[a] \in Rand!Arguments /\ Rand!IsDouble(c.args[a])
                          /\ c.args[a].val >= 0
    BY <1>4, AcceptedCall DEF Rand!Readable, Rand!IsDouble
  <2>3. min \in 0 .. MaxByte /\ max \in 0 .. MaxByte
    BY <2>1, <2>2, ByteIsMeant
  <2>4. /\ Rand!Fits(c.type, Rand!Meant(c.type, c.args[1])) => min = Rand!Meant(c.type, c.args[1])
        /\ Rand!Fits(c.type, Rand!Meant(c.type, c.args[2])) => max = Rand!Meant(c.type, c.args[2])
    BY <2>1, <2>2, ByteIsMeant
  <2>5. v \in -MaxInt - 1 .. MaxInt /\ (min <= max => v \in min .. max)
    BY <2>3, <1>2
  <2> HIDE DEF c
  <2>6. InBounds(c, v) /\ IsInteger(c, v)
    BY <2>4, <2>5, <1>4 DEF InBounds, IsInteger
  <2> QED
    BY <2>6, <1>1 DEF c
<1> QED
  BY <1>3, <1>4

-----------------------------------------------------------------------------
(* The inductive invariant of pass 7: what was replaced is within bounds.  *)

IsReplaced(c, r) ==
  IF c.callee = "fuzz_rand" THEN InBounds(c, r) /\ IsInteger(c, r) ELSE r = "kept"

RandInv ==
  /\ fuzzer_calls \in CallLists
  /\ rand_pc \in {"replace", "aborted", "written"}
  /\ call_next \in 1 .. Len(fuzzer_calls) + 1
  /\ replaced = [k \in 1 .. call_next - 1 |-> replaced[k]]
  /\ \A k \in 1 .. call_next - 1 : IsReplaced(fuzzer_calls[k], replaced[k])

LEMMA InitRandInv == Init => RandInv
<1> SUFFICES ASSUME Init PROVE RandInv
  OBVIOUS
<1>1. /\ fuzzer_calls \in CallLists /\ rand_pc = "replace" /\ call_next = 1
      /\ replaced = <<>>
  BY DEF Init, Start, Rand!Start
<1>2. Len(fuzzer_calls) \in Nat
  BY <1>1, PassesAssumption DEF Rand!FuzzRandAssumption
<1> QED
  BY <1>1, <1>2 DEF RandInv

(* One more call is handled, and r stands in its place.                    *)
LEMMA ReplacedOne ==
  ASSUME RandInv, call_next \in DOMAIN fuzzer_calls, NEW r, IsReplaced(Rand!call, r),
         replaced' = Append(replaced, r), call_next' = call_next + 1,
         UNCHANGED <<fuzzer_calls, rand_pc>>
  PROVE  RandInv'
<1>1. fuzzer_calls \in Seq(Rand!Calls)
  BY PassesAssumption DEF Rand!FuzzRandAssumption, RandInv
<1>2. call_next \in 1 .. Len(fuzzer_calls) /\ Len(fuzzer_calls) \in Nat
  BY <1>1
<1>3. call_next - 1 \in Nat
  BY <1>2
<1>4. replaced' = [k \in 1 .. (call_next - 1) + 1 |-> IF k = (call_next - 1) + 1 THEN r ELSE replaced[k]]
  <2> DEFINE n == call_next - 1
  <2>1. replaced = [k \in 1 .. n |-> replaced[k]]
    BY DEF RandInv
  <2> HIDE DEF n
  <2>2. Append(replaced, r) = [k \in 1 .. n + 1 |-> IF k = n + 1 THEN r ELSE replaced[k]]
    BY <2>1, <1>3, AppendToFunction DEF n
  <2> QED
    BY <2>2 DEF n
<1>5. (call_next - 1) + 1 = call_next /\ call_next' - 1 = call_next
  BY <1>2
<1>6. replaced' = [k \in 1 .. call_next |-> IF k = call_next THEN r ELSE replaced[k]]
  BY <1>4, <1>5
<1>7. replaced' = [k \in 1 .. call_next' - 1 |-> replaced'[k]]
  BY <1>5, <1>6
<1>8. ASSUME NEW k \in 1 .. call_next' - 1
      PROVE  IsReplaced(fuzzer_calls'[k], replaced'[k])
  <2>1. CASE k = call_next
    <3>1. replaced'[k] = r /\ fuzzer_calls'[k] = Rand!call
      BY <2>1, <1>5, <1>6, <1>8 DEF Rand!call
    <3> QED
      BY <3>1
  <2>2. CASE k # call_next
    <3>1. k \in 1 .. call_next - 1 /\ replaced'[k] = replaced[k]
      BY <2>2, <1>2, <1>5, <1>6, <1>8
    <3> QED
      BY <3>1 DEF RandInv
  <2> QED
    BY <2>1, <2>2
<1>9. call_next' \in 1 .. Len(fuzzer_calls') + 1
  BY <1>2
<1> QED
  BY <1>7, <1>8, <1>9 DEF RandInv

LEMMA ReplaceCallsRandInv ==
  ASSUME RandInv, Rand!Next
  PROVE  RandInv'
<1>1. CASE Rand!Replace
  <2>1. /\ call_next \in DOMAIN fuzzer_calls /\ Rand!call.callee = "fuzz_rand" /\ Rand!Accepted
        /\ call_next' = call_next + 1 /\ UNCHANGED <<fuzzer_calls, rand_pc>>
    BY <1>1 DEF Rand!Replace
  <2>2. PICK min \in Rand!Minima, max \in Rand!Maxima :
          \E v \in Rand!generateRand(min, max) : replaced' = Append(replaced, Rand!Text(v))
    BY <1>1 DEF Rand!Replace
  <2>3. PICK v \in Rand!generateRand(min, max) : replaced' = Append(replaced, Rand!Text(v))
    BY <2>2
  <2>4. fuzzer_calls \in CallLists
    BY DEF RandInv
  <2>5. Rand!call.type \in IntTypes \cup {"double", "basic_string"}
    BY <2>1, <2>4, AcceptedCall
  <2>6. InBounds(Rand!call, Rand!Text(v)) /\ IsInteger(Rand!call, Rand!Text(v))
    <3>1. CASE Rand!call.type \in IntTypes
      BY <3>1, <2>1, <2>4, GeneratedInt
    <3>2. CASE Rand!call.type = "double"
      BY <3>2, <2>1, <2>4, GeneratedDouble
    <3>3. CASE Rand!call.type = "basic_string"
      BY <3>3, <2>1, <2>4, GeneratedByte
    <3> QED
      BY <2>5, <3>1, <3>2, <3>3
  <2>7. IsReplaced(Rand!call, Rand!Text(v))
    BY <2>1, <2>6 DEF IsReplaced
  <2> QED
    BY <2>1, <2>3, <2>7, ReplacedOne
<1>2. CASE Rand!SkipOther
  <2>1. IsReplaced(Rand!call, "kept")
    BY <1>2 DEF IsReplaced, Rand!SkipOther
  <2> QED
    BY <1>2, <2>1, ReplacedOne DEF Rand!SkipOther
<1>3. CASE Rand!Abort
  BY <1>3 DEF RandInv, Rand!Abort
<1>4. CASE Rand!Write
  BY <1>4 DEF RandInv, Rand!Write
<1> QED
  BY <1>1, <1>2, <1>3, <1>4 DEF Rand!Next

LEMMA NextRandInv == RandInv /\ [Next]_vars => RandInv'
<1> SUFFICES ASSUME RandInv, [Next]_vars PROVE RandInv'
  OBVIOUS
<1>1. CASE UNCHANGED rand_vars
  BY <1>1 DEF RandInv, rand_vars
<1>2. CASE ReplaceCalls
  BY <1>2, ReplaceCallsRandInv DEF ReplaceCalls
<1> QED
  BY <1>1, <1>2 DEF Next, ReadLibrary, ReadRelations, StitchHelpers, vars

LEMMA RandSafe == Spec => []RandInv
BY InitRandInv, NextRandInv, PTL DEF Spec

LEMMA RandInvTypeOK == RandInv => Rand!TypeOK /\ WithinBounds
<1> SUFFICES ASSUME RandInv PROVE Rand!TypeOK /\ WithinBounds
  OBVIOUS
<1>1. fuzzer_calls \in Seq(Rand!Calls) /\ call_next \in 1 .. Len(fuzzer_calls) + 1
  BY PassesAssumption DEF Rand!FuzzRandAssumption, RandInv
<1>2. DOMAIN replaced = 1 .. call_next - 1 /\ call_next - 1 \in Nat
  BY <1>1 DEF RandInv
<1>3. \A k \in DOMAIN replaced : IsReplaced(fuzzer_calls[k], replaced[k])
  BY <1>2 DEF RandInv
<1>4. Len(replaced) = call_next - 1
  BY <1>2 
<1>5. Rand!TypeOK
  BY <1>1, <1>3, <1>4 DEF Rand!TypeOK, IsReplaced, IsInteger, RandInv
<1>6. WithinBounds
  BY <1>3 DEF WithinBounds, Rand!WithinBounds, IsReplaced, InBounds
<1> QED
  BY <1>5, <1>6

(* What stands in the place of a call of fuzz_rand lies between the bounds *)
(* written in the source, whatever signs and casts they have, provided     *)
(* that they are in order, fit the type and can be printed, in programs    *)
(* with integers of any width (makeReplace of parseFuzzerCalls.cpp).       *)
THEOREM ReplacedWithinBounds == Spec => []WithinBounds
BY RandSafe, RandInvTypeOK, PTL

-----------------------------------------------------------------------------
(* The beginning of pass 4: which specifications are accepted.  What was   *)
(* read is well formed, and the type that was settled is that of a         *)
(* relation that was read, and of all of them.                             *)

IsMeta(k) == ~Reader!IsPlaceholder(matched_fds[k])
IsRelation(k) == IsMeta(k) /\ matched_fds[k].qualified[2] = "relations"

Understood(k) ==
  /\ Len(matched_fds[k].qualified) >= 3
  /\ matched_fds[k].qualified[2] \in Reader!REL_TYPE
  /\ Reader!HasBody(matched_fds[k])
  /\ IsRelation(k) => matched_fds[k].ret = meta_input_var_type

ReadInv ==
  /\ matched_fds \in Specifications
  /\ read_pc \in {"log", "read", "aborted"}
  /\ fd_next \in 1 .. Len(matched_fds) + 1
  /\ meta_input_var_type # Reader!NoType =>
       \E k \in 1 .. fd_next - 1 : IsRelation(k) /\ matched_fds[k].ret = meta_input_var_type
  /\ \A k \in 1 .. fd_next - 1 : IsMeta(k) => Understood(k)
  /\ read_pc = "read" => fd_next = Len(matched_fds) + 1 /\ meta_input_var_type # Reader!NoType
  /\ read_pc = "aborted" => Reader!Malformed

LEMMA SpecificationFacts ==
  ASSUME matched_fds \in Specifications
  PROVE  /\ matched_fds \in Seq(Reader!Declarations) /\ Len(matched_fds) \in Nat
         /\ DOMAIN matched_fds = 1 .. Len(matched_fds)
         /\ \A k \in 1 .. Len(matched_fds) :
              /\ matched_fds[k] \in Reader!Declarations
              /\ matched_fds[k].qualified \in Seq(STRING)
              /\ Len(matched_fds[k].qualified) \in Nat /\ Len(matched_fds[k].qualified) >= 2
              /\ matched_fds[k].qualified[1] = "metalib"
              /\ matched_fds[k].ret \in Types /\ matched_fds[k].ret # Reader!NoType
<1>1. matched_fds \in Seq(Reader!Declarations)
  BY PassesAssumption DEF Reader!ReaderAssumption
<1>2. Len(matched_fds) \in Nat /\ DOMAIN matched_fds = 1 .. Len(matched_fds)
  BY <1>1
<1>3. ASSUME NEW k \in 1 .. Len(matched_fds)
      PROVE  /\ matched_fds[k] \in Reader!Declarations
             /\ matched_fds[k].qualified \in Seq(STRING)
             /\ Len(matched_fds[k].qualified) \in Nat /\ Len(matched_fds[k].qualified) >= 2
             /\ matched_fds[k].qualified[1] = "metalib"
             /\ matched_fds[k].ret \in Types /\ matched_fds[k].ret # Reader!NoType
  <2>1. matched_fds[k] \in Reader!Declarations
    BY <1>1
  <2>2. matched_fds[k].qualified \in Seq(STRING) /\ matched_fds[k].ret \in Types
    BY <2>1 DEF Reader!Declarations
  <2>3. Len(matched_fds[k].qualified) >= 2 /\ matched_fds[k].qualified[1] = "metalib"
    BY <1>2, PassesAssumption DEF Reader!ReaderAssumption
  <2>4. matched_fds[k].ret # Reader!NoType
    BY <2>2, PassesAssumption DEF Reader!ReaderAssumption
  <2> QED
    BY <2>1, <2>2, <2>3, <2>4
<1> QED
  BY <1>1, <1>2, <1>3

(* Cardinality is defined once for this module and once for the pass.      *)
LEMMA SameCardinality ==
  \A S : Reader!Cardinality(S) = Cardinality(S)
BY DEF Cardinality, Reader!Cardinality

(* The types that relations return, and how many.                          *)
LEMMA RelationTypesFacts ==
  ASSUME matched_fds \in Specifications
  PROVE  /\ IsFiniteSet(Reader!RelationTypes)
         /\ \A k \in 1 .. Len(matched_fds) : IsRelation(k) => matched_fds[k].ret \in Reader!RelationTypes
         /\ \A type \in Reader!RelationTypes :
              \E k \in 1 .. Len(matched_fds) : IsRelation(k) /\ matched_fds[k].ret = type
<1>1. Len(matched_fds) \in Nat /\ DOMAIN matched_fds = 1 .. Len(matched_fds)
  BY SpecificationFacts
<1>2. \A k \in 1 .. Len(matched_fds) : IsRelation(k) => matched_fds[k].ret \in Reader!RelationTypes
  BY <1>1 DEF IsRelation, IsMeta, Reader!RelationTypes, Reader!MetaFunctions
<1>3. \A type \in Reader!RelationTypes :
         \E k \in 1 .. Len(matched_fds) : IsRelation(k) /\ matched_fds[k].ret = type
  BY <1>1 DEF IsRelation, IsMeta, Reader!RelationTypes, Reader!MetaFunctions
<1>4. IsFiniteSet(Reader!RelationTypes)
  <2> DEFINE image == {matched_fds[k].ret : k \in 1 .. Len(matched_fds)}
  <2>1. IsFiniteSet(1 .. Len(matched_fds))
    BY <1>1, FS_Interval
  <2>2. IsFiniteSet(image)
    <3> DEFINE f == [k \in 1 .. Len(matched_fds) |-> matched_fds[k].ret]
    <3>1. f \in Surjection(1 .. Len(matched_fds), image)
      BY DEF Surjection
    <3> QED
      BY <2>1, <3>1, FS_Surjection
  <2>3. Reader!RelationTypes \subseteq image
    BY <1>3
  <2> QED
    BY <2>2, <2>3, FS_Subset
<1> QED
  BY <1>2, <1>3, <1>4

LEMMA InitReadInv == Init => ReadInv
<1> SUFFICES ASSUME Init PROVE ReadInv
  OBVIOUS
<1>1. /\ matched_fds \in Specifications /\ fd_next = 1 /\ read_pc = "log"
      /\ meta_input_var_type = Reader!NoType
  BY DEF Init, Start, Reader!Start
<1>2. Len(matched_fds) \in Nat
  BY <1>1, SpecificationFacts
<1> QED
  BY <1>1, <1>2 DEF ReadInv

(* The next declaration is read: either it is skipped or understood.       *)
LEMMA ReadOne ==
  ASSUME ReadInv, fd_next \in DOMAIN matched_fds, fd_next' = fd_next + 1,
         read_pc = "log", UNCHANGED <<matched_fds, read_pc>>,
         \/ /\ ~IsMeta(fd_next)
            /\ UNCHANGED meta_input_var_type
         \/ /\ IsMeta(fd_next)
            /\ Reader!IsWellFormed(matched_fds[fd_next])
            /\ meta_input_var_type' = Reader!Settled(matched_fds[fd_next])
  PROVE  ReadInv'
<1> DEFINE d == matched_fds[fd_next]
<1>1. /\ DOMAIN matched_fds = 1 .. Len(matched_fds) /\ Len(matched_fds) \in Nat
      /\ fd_next \in 1 .. Len(matched_fds)
      /\ d.ret # Reader!NoType
  BY SpecificationFacts DEF ReadInv
<1>2. fd_next' - 1 = fd_next /\ fd_next' \in 1 .. Len(matched_fds') + 1
  BY <1>1
<1>3. \A k \in 1 .. fd_next : k = fd_next \/ k \in 1 .. fd_next - 1
  BY <1>1
<1>4. meta_input_var_type # Reader!NoType => meta_input_var_type' = meta_input_var_type
  BY DEF Reader!Settled
<1>5. /\ \A k : IsMeta(k)' <=> IsMeta(k)
      /\ \A k : IsRelation(k)' <=> IsRelation(k)
  BY DEF IsMeta, IsRelation
<1>6. \A k : Reader!HasBody(matched_fds[k]) => Reader!HasBody(matched_fds[k])'
  BY DEF Reader!HasBody
<1>7. ASSUME NEW k, k = fd_next, IsMeta(k) PROVE Understood(k)'
  <2>1. Reader!IsWellFormed(d) /\ meta_input_var_type' = Reader!Settled(d)
    BY <1>7
  <2>2. /\ Len(d.qualified) >= 3 /\ d.qualified[2] \in Reader!REL_TYPE /\ Reader!HasBody(d)
        /\ d.qualified[2] = "relations" => Reader!Settled(d) = d.ret
    BY <2>1 DEF Reader!IsWellFormed
  <2>3. Reader!HasBody(matched_fds[k])'
    BY <2>2, <1>6, <1>7
  <2> QED
    BY <2>1, <2>2, <2>3, <1>5, <1>7 DEF Understood, IsRelation
<1>8. ASSUME NEW k \in 1 .. fd_next - 1, IsMeta(k) PROVE Understood(k)'
  <2>1. Understood(k)
    BY <1>8 DEF ReadInv
  <2>2. IsRelation(k) => matched_fds[k].ret = meta_input_var_type'
    <3>1. ASSUME IsRelation(k) PROVE meta_input_var_type # Reader!NoType
      <4>1. k \in 1 .. Len(matched_fds)
        BY <1>1, <1>8
      <4> QED
        BY <4>1, <3>1, <2>1, SpecificationFacts DEF Understood, ReadInv
    <3> QED
      BY <3>1, <2>1, <1>4 DEF Understood
  <2> QED
    BY <2>1, <2>2, <1>5, <1>6 DEF Understood
<1>9. \A k \in 1 .. fd_next' - 1 : IsMeta(k)' => Understood(k)'
  BY <1>2, <1>3, <1>5, <1>7, <1>8
<1>10. ASSUME meta_input_var_type' # Reader!NoType
       PROVE  \E k \in 1 .. fd_next : IsRelation(k) /\ matched_fds[k].ret = meta_input_var_type'
  <2>1. CASE meta_input_var_type # Reader!NoType
    <3>1. PICK k \in 1 .. fd_next - 1 : IsRelation(k) /\ matched_fds[k].ret = meta_input_var_type
      BY <2>1 DEF ReadInv
    <3>2. k \in 1 .. fd_next
      BY <1>1
    <3> QED
      BY <3>1, <3>2, <2>1, <1>4
  <2>2. CASE meta_input_var_type = Reader!NoType
    <3>1. IsMeta(fd_next) /\ meta_input_var_type' = Reader!Settled(d)
      BY <2>2, <1>10
    <3>2. d.qualified[2] = "relations" /\ meta_input_var_type' = d.ret
      BY <3>1, <2>2, <1>10 DEF Reader!Settled
    <3>3. fd_next \in 1 .. fd_next
      BY <1>1
    <3> QED
      BY <3>1, <3>2, <3>3 DEF IsRelation
  <2> QED
    BY <2>1, <2>2
<1>11. meta_input_var_type' # Reader!NoType =>
         \E k \in 1 .. fd_next' - 1 :
           IsRelation(k)' /\ matched_fds'[k].ret = meta_input_var_type'
  BY <1>2, <1>5, <1>10
<1> QED
  BY <1>2, <1>9, <1>11 DEF ReadInv

(* The pass gives up only for a malformed specification.                   *)
LEMMA AbortedIsMalformed ==
  ASSUME ReadInv, Reader!Abort
  PROVE  Reader!Malformed
<1>1. CASE fd_next \in DOMAIN matched_fds /\ IsMeta(fd_next) /\ ~Reader!IsWellFormed(Reader!fd)
  <2> DEFINE d == matched_fds[fd_next]
  <2>1. fd_next \in 1 .. Len(matched_fds) /\ d.qualified[1] = "metalib"
    BY <1>1, SpecificationFacts DEF ReadInv
  <2>2. d \in Reader!MetaFunctions
    BY <1>1 DEF IsMeta, Reader!MetaFunctions
  <2>3. \/ Len(d.qualified) < 3 \/ d.qualified[2] \notin Reader!REL_TYPE \/ ~Reader!HasBody(d)
        \/ d.qualified[2] = "relations" /\ Reader!Settled(d) # d.ret
    <3>1. Len(d.qualified) \in Nat
      BY <2>1, SpecificationFacts DEF ReadInv
    <3> QED
      BY <1>1, <2>1, <3>1 DEF Reader!IsWellFormed, Reader!fd
  <2>4. CASE d.qualified[2] = "relations" /\ Reader!Settled(d) # d.ret
    <3>1. meta_input_var_type # Reader!NoType /\ meta_input_var_type # d.ret
      BY <2>4 DEF Reader!Settled
    <3>2. PICK k \in 1 .. fd_next - 1 : IsRelation(k) /\ matched_fds[k].ret = meta_input_var_type
      BY <3>1 DEF ReadInv
    <3>3. k \in 1 .. Len(matched_fds) /\ matched_fds \in Specifications
      BY <2>1, SpecificationFacts DEF ReadInv
    <3>4. d.ret \in Reader!RelationTypes /\ meta_input_var_type \in Reader!RelationTypes /\ IsFiniteSet(Reader!RelationTypes)
      BY <1>1, <2>1, <2>4, <3>2, <3>3, RelationTypesFacts DEF IsRelation
    <3>5. Cardinality(Reader!RelationTypes) # 1
      BY <3>1, <3>4, FS_Singleton
    <3> QED
      BY <3>5, SameCardinality DEF Reader!Malformed
  <2> QED
    BY <2>2, <2>3, <2>4 DEF Reader!Malformed
<1>2. CASE fd_next = Len(matched_fds) + 1 /\ meta_input_var_type = Reader!NoType
  <2>1. \A k \in 1 .. Len(matched_fds) : ~IsRelation(k)
    <3> SUFFICES ASSUME NEW k \in 1 .. Len(matched_fds), IsRelation(k) PROVE FALSE
      OBVIOUS
    <3>1. matched_fds[k].ret # Reader!NoType /\ k \in 1 .. fd_next - 1
      BY <1>2, SpecificationFacts DEF ReadInv
    <3>2. Understood(k)
      BY <3>1 DEF ReadInv, IsRelation
    <3> QED
      BY <1>2, <3>1, <3>2 DEF Understood
  <2>2. Reader!RelationTypes = {}
    BY <2>1, RelationTypesFacts DEF ReadInv
  <2>3. Cardinality(Reader!RelationTypes) # 1
    BY <2>2, FS_EmptySet
  <2> QED
    BY <2>3, SameCardinality DEF Reader!Malformed
<1> QED
  BY <1>1, <1>2 DEF Reader!Abort, Reader!fd, IsMeta

(* What was read to the end is not malformed.                              *)
LEMMA ReadIsWellFormed ==
  ASSUME ReadInv, read_pc = "read"
  PROVE  ~Reader!Malformed
<1>1. /\ fd_next - 1 = Len(matched_fds) /\ DOMAIN matched_fds = 1 .. Len(matched_fds)
      /\ matched_fds \in Specifications
  BY SpecificationFacts DEF ReadInv
<1>2. \A k \in 1 .. Len(matched_fds) : IsMeta(k) => Understood(k)
  BY <1>1 DEF ReadInv
<1>3. \A k \in 1 .. Len(matched_fds) : Len(matched_fds[k].qualified) \in Nat
  BY <1>1, SpecificationFacts
<1>4. \A d \in Reader!MetaFunctions :
         ~(Len(d.qualified) < 3 \/ d.qualified[2] \notin Reader!REL_TYPE \/ ~Reader!HasBody(d))
  BY <1>1, <1>2, <1>3 DEF Reader!MetaFunctions, IsMeta, Understood
<1>5. Reader!RelationTypes = {meta_input_var_type}
  <2>1. \A type \in Reader!RelationTypes : type = meta_input_var_type
    BY <1>1, <1>2, RelationTypesFacts DEF Understood, IsRelation
  <2>2. PICK k \in 1 .. fd_next - 1 : IsRelation(k) /\ matched_fds[k].ret = meta_input_var_type
    BY DEF ReadInv
  <2>3. meta_input_var_type \in Reader!RelationTypes
    BY <1>1, <2>2, RelationTypesFacts
  <2> QED
    BY <2>1, <2>3
<1>6. Cardinality(Reader!RelationTypes) = 1
  BY <1>5, FS_Singleton
<1> QED
  BY <1>4, <1>6, SameCardinality DEF Reader!Malformed

LEMMA ReadRelationsReadInv ==
  ASSUME ReadInv, Reader!Next
  PROVE  ReadInv'
<1>1. CASE Reader!SkipPlaceholder
  BY <1>1, ReadOne DEF Reader!SkipPlaceholder, Reader!fd, IsMeta
<1>2. CASE Reader!logMetaRelDecl
  BY <1>2, ReadOne DEF Reader!logMetaRelDecl, Reader!fd, IsMeta
<1>3. CASE Reader!Finish
  BY <1>3 DEF ReadInv, Reader!Finish, Understood, IsRelation, IsMeta, Reader!HasBody
<1>4. CASE Reader!Abort
  <2>1. Reader!Malformed
    BY <1>4, AbortedIsMalformed
  <2>2. Reader!Malformed'
    BY <1>4, <2>1 DEF Reader!Malformed, Reader!RelationTypes, Reader!MetaFunctions, Reader!HasBody,
            Reader!Abort
  <2> QED
    BY <1>4, <2>2 DEF ReadInv, Reader!Abort, Understood, IsRelation, IsMeta, Reader!HasBody
<1> QED
  BY <1>1, <1>2, <1>3, <1>4 DEF Reader!Next

LEMMA NextReadInv == ReadInv /\ [Next]_vars => ReadInv'
<1> SUFFICES ASSUME ReadInv, [Next]_vars PROVE ReadInv'
  OBVIOUS
<1>1. CASE UNCHANGED reader_vars
  BY <1>1 DEF ReadInv, reader_vars, Understood, IsRelation, IsMeta, Reader!HasBody,
              Reader!Malformed, Reader!RelationTypes, Reader!MetaFunctions
<1>2. CASE ReadRelations
  BY <1>2, ReadRelationsReadInv DEF ReadRelations
<1> QED
  BY <1>1, <1>2 DEF Next, ReadLibrary, ReplaceCalls, StitchHelpers, vars

LEMMA ReadSafe == Spec => []ReadInv
BY InitReadInv, NextReadInv, PTL DEF Spec

(* Pass 4 gives up exactly for the specifications that are malformed,      *)
(* whatever the order of the declarations in it: the relation that happens *)
(* to come first settles the type, but never more than the type that all   *)
(* relations have (the mrInfo constructor of generateMetaTests.cpp).       *)
THEOREM OrderDoesNotMatter == Spec => []AcceptedInAnyOrder
<1>1. ReadInv => AcceptedInAnyOrder
  BY ReadIsWellFormed DEF AcceptedInAnyOrder, Reader!AcceptedInAnyOrder, ReadInv
<1> QED
  BY <1>1, ReadSafe, PTL

-----------------------------------------------------------------------------
(* Where a declaration is listed.  Each listed relation or generator is    *)
(* one that was read, in the category it has, each listed check is one     *)
(* that was read and has no family, and a name is listed in each place as  *)
(* often as it was read with that place.                                   *)

InfoOf(k) == Reader!mrInfo(matched_fds[k])
Infos == {Reader!mrInfo(d) : d \in Reader!Declarations}

HasFamily(k) == Reader!FamilyOf(matched_fds[k].qualified) # Reader!NoFamily
CategoryOf(k) ==
  <<matched_fds[k].qualified[2], Reader!FamilyOf(matched_fds[k].qualified)>>

LEMMA InfoFacts ==
  ASSUME NEW d
  PROVE  /\ Reader!mrInfo(d).base_func = d.qualified
         /\ Reader!mrInfo(d).mr_family = Reader!FamilyOf(d.qualified)
         /\ Reader!Category(Reader!mrInfo(d)) = <<d.qualified[2], Reader!FamilyOf(d.qualified)>>
BY DEF Reader!mrInfo, Reader!Category

ListsTyped(rel_decls, check_decls) ==
  /\ check_decls \in Seq(Infos)
  /\ rel_decls = [c \in DOMAIN rel_decls |-> rel_decls[c]]
  /\ \A c \in DOMAIN rel_decls : rel_decls[c] \in Seq(Infos) \ {<<>>}

(* The declarations before n, and no others.                               *)
RelationsFrom(rel_decls, n) ==
  \A c \in DOMAIN rel_decls : \A j \in DOMAIN rel_decls[c] :
    \E k \in 1 .. n : IsMeta(k) /\ HasFamily(k) /\ c = CategoryOf(k) /\ rel_decls[c][j] = InfoOf(k)

ChecksFrom(check_decls, n) ==
  \A j \in DOMAIN check_decls :
    \E k \in 1 .. n : IsMeta(k) /\ ~HasFamily(k) /\ check_decls[j] = InfoOf(k)

(* The declarations of a name among the first n.                           *)
RelationsOf(c, name, n) ==
  {k \in 1 .. n : /\ IsMeta(k) /\ HasFamily(k) /\ CategoryOf(k) = c
                  /\ matched_fds[k].qualified = name}
ChecksOf(name, n) ==
  {k \in 1 .. n : IsMeta(k) /\ ~HasFamily(k) /\ matched_fds[k].qualified = name}

Times(name, decls) == Cardinality({j \in DOMAIN decls : decls[j].base_func = name})

RelationsCounted(rel_decls, n) ==
  \A c, name :
    Times(name, Reader!LoggedIn(rel_decls, c)) = Cardinality(RelationsOf(c, name, n))

ChecksCounted(check_decls, n) ==
  \A name : Times(name, check_decls) = Cardinality(ChecksOf(name, n))

PlacedInv ==
  /\ ListsTyped(meta_rel_decls, meta_check_decls)
  /\ RelationsFrom(meta_rel_decls, fd_next - 1)
  /\ ChecksFrom(meta_check_decls, fd_next - 1)
  /\ RelationsCounted(meta_rel_decls, fd_next - 1)
  /\ ChecksCounted(meta_check_decls, fd_next - 1)

(* One more declaration, and one more position in a list.                  *)
LEMMA OneMoreRead ==
  ASSUME NEW n \in Nat \ {0}, NEW S, S \subseteq 1 .. n - 1
  PROVE  Cardinality(S \cup {n}) = Cardinality(S) + 1
<1>1. IsFiniteSet(S)
  <2>1. 1 \in Int /\ n - 1 \in Int
    OBVIOUS
  <2>2. IsFiniteSet(1 .. n - 1)
    BY <2>1, FS_Interval
  <2> QED
    BY <2>2, FS_Subset
<1>2. n \notin S
  OBVIOUS
<1> QED
  BY <1>1, <1>2, FS_AddElement

LEMMA OneMoreListed ==
  ASSUME NEW decls \in Seq(Infos), NEW mri \in Infos, NEW name
  PROVE  /\ mri.base_func = name => Times(name, Append(decls, mri)) = Times(name, decls) + 1
         /\ mri.base_func # name => Times(name, Append(decls, mri)) = Times(name, decls)
<1> DEFINE more == Append(decls, mri)
           n == Len(decls)
           S == {j \in DOMAIN decls : decls[j].base_func = name}
<1>1. /\ n \in Nat /\ DOMAIN decls = 1 .. n /\ DOMAIN more = 1 .. n + 1
      /\ more[n + 1] = mri
      /\ \A j \in 1 .. n : more[j] = decls[j]
  <2>1. n \in Nat /\ Len(more) = n + 1 /\ more \in Seq(Infos)
    OBVIOUS
  <2>2. DOMAIN decls = 1 .. n /\ DOMAIN more = 1 .. n + 1
    BY <2>1
  <2> QED
    BY <2>1, <2>2
<1> HIDE DEF more, n
<1>2. /\ S \subseteq 1 .. n /\ 1 .. n + 1 = (1 .. n) \cup {n + 1}
      /\ n + 1 \in Nat \ {0} /\ (n + 1) - 1 = n
  BY <1>1
<1>3. {j \in DOMAIN more : more[j].base_func = name} =
        S \cup (IF mri.base_func = name THEN {n + 1} ELSE {})
  BY <1>1, <1>2
<1>5. Cardinality(S \cup {n + 1}) = Cardinality(S) + 1
  BY <1>2, OneMoreRead
<1>6. Times(name, decls) = Cardinality(S)
  BY DEF Times
<1>7. Times(name, more) = Cardinality({j \in DOMAIN more : more[j].base_func = name})
  BY DEF Times
<1> HIDE DEF S
<1>8. CASE mri.base_func = name
  BY <1>3, <1>5, <1>6, <1>7, <1>8 DEF more
<1>9. CASE mri.base_func # name
  <2>1. {j \in DOMAIN more : more[j].base_func = name} = S
    BY <1>3, <1>9
  <2>2. Times(name, more) = Times(name, decls)
    BY <1>6, <1>7, <2>1
  <2> QED
    BY <1>9, <2>2 DEF more
<1> QED
  BY <1>8, <1>9

LEMMA InitPlacedInv == Init => PlacedInv
<1> SUFFICES ASSUME Init PROVE PlacedInv
  OBVIOUS
<1>1. fd_next - 1 = 0 /\ meta_rel_decls = <<>> /\ meta_check_decls = <<>>
  BY DEF Init, Start, Reader!Start
<1>2. 1 .. (fd_next - 1) = {} /\ DOMAIN meta_rel_decls = {} /\ DOMAIN meta_check_decls = {}
  BY <1>1
<1>3. meta_check_decls \in Seq(Infos) /\ meta_rel_decls = [c \in DOMAIN meta_rel_decls |-> meta_rel_decls[c]]
  BY <1>1
<1>4. ListsTyped(meta_rel_decls, meta_check_decls)
  BY <1>2, <1>3 DEF ListsTyped
<1>5. RelationsFrom(meta_rel_decls, fd_next - 1) /\ ChecksFrom(meta_check_decls, fd_next - 1)
  BY <1>2 DEF RelationsFrom, ChecksFrom
<1>6. \A name : Times(name, <<>>) = 0
  <2>1. DOMAIN <<>> = {}
    OBVIOUS
  <2> QED
    BY <2>1, FS_EmptySet DEF Times
<1>7. RelationsCounted(meta_rel_decls, fd_next - 1)
  <2>1. \A c : Reader!LoggedIn(meta_rel_decls, c) = <<>>
    BY <1>2 DEF Reader!LoggedIn
  <2>2. \A c, name : RelationsOf(c, name, fd_next - 1) = {}
    BY <1>2 DEF RelationsOf
  <2> QED
    BY <1>6, <2>1, <2>2, FS_EmptySet DEF RelationsCounted
<1>8. ChecksCounted(meta_check_decls, fd_next - 1)
  <2>1. \A name : ChecksOf(name, fd_next - 1) = {}
    BY <1>2 DEF ChecksOf
  <2> QED
    BY <1>1, <1>6, <2>1, FS_EmptySet DEF ChecksCounted
<1> QED
  BY <1>4, <1>5, <1>7, <1>8 DEF PlacedInv

(* A placeholder is passed over.                                           *)
LEMMA PlacedSkip ==
  ASSUME PlacedInv, fd_next \in Nat \ {0}, ~IsMeta(fd_next)
  PROVE  /\ RelationsFrom(meta_rel_decls, fd_next)
         /\ ChecksFrom(meta_check_decls, fd_next)
         /\ RelationsCounted(meta_rel_decls, fd_next)
         /\ ChecksCounted(meta_check_decls, fd_next)
<1>1. \A k \in 1 .. fd_next : IsMeta(k) => k \in 1 .. fd_next - 1
  OBVIOUS
<1>2. \A k \in 1 .. fd_next - 1 : k \in 1 .. fd_next
  OBVIOUS
<1>3. /\ \A c, name : RelationsOf(c, name, fd_next) = RelationsOf(c, name, fd_next - 1)
      /\ \A name : ChecksOf(name, fd_next) = ChecksOf(name, fd_next - 1)
  BY <1>1, <1>2 DEF RelationsOf, ChecksOf
<1> QED
  BY <1>1, <1>2, <1>3
     DEF PlacedInv, RelationsFrom, ChecksFrom, RelationsCounted, ChecksCounted

(* A relation or generator is appended to the list of its category.        *)
LEMMA PlacedRelation ==
  ASSUME PlacedInv, matched_fds \in Specifications, fd_next \in DOMAIN matched_fds,
         IsMeta(fd_next), HasFamily(fd_next), NEW new,
         new = [c \in DOMAIN meta_rel_decls \cup {CategoryOf(fd_next)} |->
                  IF c = CategoryOf(fd_next)
                  THEN Append(Reader!LoggedIn(meta_rel_decls, c), InfoOf(fd_next))
                  ELSE meta_rel_decls[c]]
  PROVE  /\ ListsTyped(new, meta_check_decls)
         /\ RelationsFrom(new, fd_next)
         /\ ChecksFrom(meta_check_decls, fd_next)
         /\ RelationsCounted(new, fd_next)
         /\ ChecksCounted(meta_check_decls, fd_next)
<1> DEFINE cat == CategoryOf(fd_next)
           mri == InfoOf(fd_next)
           old == Reader!LoggedIn(meta_rel_decls, cat)
<1>1. /\ fd_next \in 1 .. Len(matched_fds) /\ Len(matched_fds) \in Nat
      /\ mri \in Infos
  <2>1. fd_next \in 1 .. Len(matched_fds) /\ Len(matched_fds) \in Nat
    BY SpecificationFacts
  <2>2. matched_fds[fd_next] \in Reader!Declarations
    BY <2>1, SpecificationFacts
  <2> QED
    BY <2>1, <2>2 DEF InfoOf, Infos
<1>2. /\ old \in Seq(Infos)
      /\ cat \in DOMAIN meta_rel_decls => old = meta_rel_decls[cat]
      /\ cat \notin DOMAIN meta_rel_decls => old = <<>>
  BY DEF Reader!LoggedIn, PlacedInv, ListsTyped
<1>3. /\ DOMAIN new = DOMAIN meta_rel_decls \cup {cat}
      /\ new[cat] = Append(old, mri)
      /\ \A c \in DOMAIN meta_rel_decls : c # cat => new[c] = meta_rel_decls[c]
  OBVIOUS
<1> HIDE DEF cat, mri, old
<1>4. /\ new[cat] \in Seq(Infos) /\ Len(old) \in Nat
      /\ DOMAIN old = 1 .. Len(old) /\ DOMAIN new[cat] = 1 .. Len(old) + 1
      /\ new[cat][Len(old) + 1] = mri
      /\ \A j \in 1 .. Len(old) : new[cat][j] = old[j] /\ j \in 1 .. Len(old) + 1
  <2>1. old \in Seq(Infos) /\ mri \in Infos
    BY <1>1, <1>2
  <2>2. /\ Append(old, mri) \in Seq(Infos) /\ Len(old) \in Nat
        /\ Len(Append(old, mri)) = Len(old) + 1
        /\ DOMAIN old = 1 .. Len(old)
    BY <2>1
  <2>3. DOMAIN Append(old, mri) = 1 .. Len(old) + 1
    BY <2>2
  <2>4. /\ Append(old, mri)[Len(old) + 1] = mri
        /\ \A j \in 1 .. Len(old) : Append(old, mri)[j] = old[j]
    BY <2>1
  <2>5. \A j \in 1 .. Len(old) : j \in 1 .. Len(old) + 1
    BY <2>2
  <2> QED
    BY <2>2, <2>3, <2>4, <2>5, <1>3
<1>5. \A k \in 1 .. fd_next : k = fd_next \/ k \in 1 .. fd_next - 1
  BY <1>1
<1>6. /\ \A k \in 1 .. fd_next - 1 : k \in 1 .. fd_next
      /\ fd_next \in 1 .. fd_next
  BY <1>1
<1>7. \A c \in DOMAIN new : \A j \in DOMAIN new[c] :
         \/ c \in DOMAIN meta_rel_decls /\ j \in DOMAIN meta_rel_decls[c] /\ new[c][j] = meta_rel_decls[c][j]
         \/ c = cat /\ j = Len(old) + 1
  <2> SUFFICES ASSUME NEW c \in DOMAIN new, NEW j \in DOMAIN new[c], ~(c = cat /\ j = Len(old) + 1)
               PROVE  /\ c \in DOMAIN meta_rel_decls /\ j \in DOMAIN meta_rel_decls[c]
                      /\ new[c][j] = meta_rel_decls[c][j]
    OBVIOUS
  <2>1. CASE c # cat
    BY <2>1, <1>3
  <2>2. CASE c = cat
    <3>1. j \in 1 .. Len(old)
      BY <2>2, <1>4
    <3>2. cat \in DOMAIN meta_rel_decls
      BY <3>1, <1>2
    <3> QED
      BY <2>2, <3>1, <3>2, <1>2, <1>4
  <2> QED
    BY <2>1, <2>2
<1>8. ListsTyped(new, meta_check_decls)
  <2>1. new[cat] \in Seq(Infos) \ {<<>>}
    BY <1>4
  <2>3. \A c \in DOMAIN new : new[c] \in Seq(Infos) \ {<<>>}
    BY <1>3, <2>1 DEF PlacedInv, ListsTyped
  <2>2. new = [c \in DOMAIN new |-> new[c]]
    OBVIOUS
  <2> QED
    BY <2>2, <2>3 DEF PlacedInv, ListsTyped
<1>9. RelationsFrom(new, fd_next)
  <2> SUFFICES ASSUME NEW c \in DOMAIN new, NEW j \in DOMAIN new[c]
               PROVE  \E k \in 1 .. fd_next : IsMeta(k) /\ HasFamily(k) /\ c = CategoryOf(k)
                                           /\ new[c][j] = InfoOf(k)
    BY DEF RelationsFrom
  <2>1. CASE c = cat /\ j = Len(old) + 1
    BY <2>1, <1>4, <1>6 DEF cat, mri
  <2>2. CASE /\ c \in DOMAIN meta_rel_decls /\ j \in DOMAIN meta_rel_decls[c]
             /\ new[c][j] = meta_rel_decls[c][j]
    BY <2>2, <1>6 DEF PlacedInv, RelationsFrom
  <2> QED
    BY <2>1, <2>2, <1>7
<1>10. ChecksFrom(meta_check_decls, fd_next) /\ ChecksCounted(meta_check_decls, fd_next)
  <2>1. \A name : ChecksOf(name, fd_next) = ChecksOf(name, fd_next - 1)
    BY <1>5, <1>6 DEF ChecksOf
  <2> QED
    BY <1>5, <1>6, <2>1 DEF PlacedInv, ChecksFrom, ChecksCounted
<1>11. RelationsCounted(new, fd_next)
  <2> SUFFICES ASSUME NEW c, NEW name
               PROVE  Times(name, Reader!LoggedIn(new, c)) = Cardinality(RelationsOf(c, name, fd_next))
    BY DEF RelationsCounted
  <2> DEFINE before == RelationsOf(c, name, fd_next - 1)
  <2>1. Times(name, Reader!LoggedIn(meta_rel_decls, c)) = Cardinality(before)
    BY DEF PlacedInv, RelationsCounted
  <2>2. CASE c = cat /\ matched_fds[fd_next].qualified = name
    <3>1. RelationsOf(c, name, fd_next) = before \cup {fd_next}
      BY <1>5, <1>6, <2>2 DEF RelationsOf, cat
    <3>2. before \subseteq 1 .. fd_next - 1 /\ fd_next \in Nat \ {0}
      BY <1>1 DEF RelationsOf
    <3>3. mri.base_func = name
      BY <2>2, InfoFacts DEF mri, InfoOf
    <3>4. Reader!LoggedIn(new, c) = Append(old, mri) /\ Reader!LoggedIn(meta_rel_decls, c) = old
      BY <1>3, <2>2 DEF Reader!LoggedIn, old
    <3> HIDE DEF before
    <3>5. Cardinality(before \cup {fd_next}) = Cardinality(before) + 1
      BY <3>2, OneMoreRead
    <3>6. Times(name, Append(old, mri)) = Times(name, old) + 1
      BY <1>1, <1>2, <3>3, OneMoreListed
    <3> QED
      BY <2>1, <3>1, <3>4, <3>5, <3>6
  <2>3. CASE ~(c = cat /\ matched_fds[fd_next].qualified = name)
    <3>1. RelationsOf(c, name, fd_next) = before
      BY <1>5, <1>6, <2>3 DEF RelationsOf, cat
    <3>2. Times(name, Reader!LoggedIn(new, c)) = Times(name, Reader!LoggedIn(meta_rel_decls, c))
      <4>1. CASE c = cat
        <5>1. Reader!LoggedIn(new, c) = Append(old, mri) /\ Reader!LoggedIn(meta_rel_decls, c) = old
          BY <1>3, <4>1 DEF Reader!LoggedIn, old
        <5>2. mri.base_func # name
          BY <2>3, <4>1, InfoFacts DEF mri, InfoOf
        <5>3. Times(name, Append(old, mri)) = Times(name, old)
          BY <1>1, <1>2, <5>2, OneMoreListed
        <5> QED
          BY <5>1, <5>3
      <4>2. CASE c # cat
        BY <1>3, <4>2 DEF Reader!LoggedIn
      <4> QED
        BY <4>1, <4>2
    <3> QED
      BY <2>1, <3>1, <3>2
  <2> QED
    BY <2>2, <2>3
<1> QED
  BY <1>8, <1>9, <1>10, <1>11

(* What has no family is appended to the checks.                           *)
LEMMA PlacedCheck ==
  ASSUME PlacedInv, matched_fds \in Specifications, fd_next \in DOMAIN matched_fds,
         IsMeta(fd_next), ~HasFamily(fd_next), NEW new,
         new = Append(meta_check_decls, InfoOf(fd_next))
  PROVE  /\ ListsTyped(meta_rel_decls, new)
         /\ RelationsFrom(meta_rel_decls, fd_next)
         /\ ChecksFrom(new, fd_next)
         /\ RelationsCounted(meta_rel_decls, fd_next)
         /\ ChecksCounted(new, fd_next)
<1> DEFINE mri == InfoOf(fd_next)
           old == meta_check_decls
<1>1. /\ fd_next \in 1 .. Len(matched_fds) /\ Len(matched_fds) \in Nat
      /\ mri \in Infos
  <2>1. fd_next \in 1 .. Len(matched_fds) /\ Len(matched_fds) \in Nat
    BY SpecificationFacts
  <2>2. matched_fds[fd_next] \in Reader!Declarations
    BY <2>1, SpecificationFacts
  <2> QED
    BY <2>1, <2>2 DEF InfoOf, Infos
<1>2. old \in Seq(Infos) /\ Len(old) \in Nat /\ DOMAIN old = 1 .. Len(old)
  BY DEF PlacedInv, ListsTyped
<1> HIDE DEF mri
<1>3. new \in Seq(Infos) /\ Len(new) = Len(old) + 1
  BY <1>1, <1>2 DEF mri
<1>4. /\ DOMAIN new = 1 .. Len(old) + 1
      /\ new[Len(old) + 1] = mri
      /\ \A j \in 1 .. Len(old) : new[j] = old[j] /\ j \in 1 .. Len(old) + 1
      /\ Len(old) + 1 \in 1 .. Len(old) + 1
  <2>1. DOMAIN new = 1 .. Len(old) + 1
    BY <1>2, <1>3
  <2>2. /\ new[Len(old) + 1] = mri
        /\ \A j \in 1 .. Len(old) : new[j] = old[j]
    BY <1>1, <1>2 DEF mri
  <2>3. /\ \A j \in 1 .. Len(old) : j \in 1 .. Len(old) + 1
        /\ Len(old) + 1 \in 1 .. Len(old) + 1
    BY <1>2
  <2> QED
    BY <2>1, <2>2, <2>3
<1>5. \A k \in 1 .. fd_next : k = fd_next \/ k \in 1 .. fd_next - 1
  BY <1>1
<1>6. /\ \A k \in 1 .. fd_next - 1 : k \in 1 .. fd_next
      /\ fd_next \in 1 .. fd_next
  BY <1>1
<1>7. ListsTyped(meta_rel_decls, new)
  BY <1>3 DEF PlacedInv, ListsTyped
<1>8. RelationsFrom(meta_rel_decls, fd_next) /\ RelationsCounted(meta_rel_decls, fd_next)
  <2>1. \A c, name : RelationsOf(c, name, fd_next) = RelationsOf(c, name, fd_next - 1)
    BY <1>5, <1>6 DEF RelationsOf
  <2> QED
    BY <1>5, <1>6, <2>1 DEF PlacedInv, RelationsFrom, RelationsCounted
<1>9. ChecksFrom(new, fd_next)
  <2> SUFFICES ASSUME NEW j \in DOMAIN new
               PROVE  \E k \in 1 .. fd_next : IsMeta(k) /\ ~HasFamily(k) /\ new[j] = InfoOf(k)
    BY DEF ChecksFrom
  <2>1. j = Len(old) + 1 \/ j \in 1 .. Len(old)
    BY <1>2, <1>4
  <2>2. CASE j = Len(old) + 1
    BY <2>2, <1>4, <1>6 DEF mri
  <2>3. CASE j \in 1 .. Len(old)
    BY <2>3, <1>2, <1>4, <1>6 DEF PlacedInv, ChecksFrom
  <2> QED
    BY <2>1, <2>2, <2>3
<1>10. ChecksCounted(new, fd_next)
  <2> SUFFICES ASSUME NEW name
               PROVE  Times(name, new) = Cardinality(ChecksOf(name, fd_next))
    BY DEF ChecksCounted
  <2> DEFINE before == ChecksOf(name, fd_next - 1)
  <2>1. Times(name, old) = Cardinality(before)
    BY DEF PlacedInv, ChecksCounted
  <2>9. before \subseteq 1 .. fd_next - 1
    BY DEF ChecksOf
  <2>10. fd_next \in Nat \ {0}
    BY <1>1
  <2>11. mri.base_func = matched_fds[fd_next].qualified
    BY InfoFacts DEF mri, InfoOf
  <2>2. /\ before \subseteq 1 .. fd_next - 1 /\ fd_next \in Nat \ {0}
        /\ mri.base_func = matched_fds[fd_next].qualified
    BY <2>9, <2>10, <2>11
  <2>3. /\ mri.base_func = name => Times(name, new) = Times(name, old) + 1
        /\ mri.base_func # name => Times(name, new) = Times(name, old)
    BY <1>1, <1>2, OneMoreListed DEF mri
  <2>4. ChecksOf(name, fd_next) =
          before \cup (IF matched_fds[fd_next].qualified = name THEN {fd_next} ELSE {})
    BY <1>5, <1>6 DEF ChecksOf
  <2> HIDE DEF before
  <2>5. Cardinality(before \cup {fd_next}) = Cardinality(before) + 1
    BY <2>2, OneMoreRead
  <2>7. CASE matched_fds[fd_next].qualified = name
    BY <2>1, <2>2, <2>3, <2>4, <2>5, <2>7
  <2>8. CASE matched_fds[fd_next].qualified # name
    <3>1. ChecksOf(name, fd_next) = before
      BY <2>4, <2>8
    <3> QED
      BY <2>1, <2>2, <2>3, <2>8, <3>1
  <2> QED
    BY <2>7, <2>8
<1> QED
  BY <1>7, <1>8, <1>9, <1>10

(* After a step the first n declarations are those read.                   *)
LEMMA PlacedOne ==
  ASSUME UNCHANGED matched_fds, NEW n, fd_next' - 1 = n,
         ListsTyped(meta_rel_decls', meta_check_decls'),
         RelationsFrom(meta_rel_decls', n),
         ChecksFrom(meta_check_decls', n),
         RelationsCounted(meta_rel_decls', n),
         ChecksCounted(meta_check_decls', n)
  PROVE  PlacedInv'
<1>1. /\ \A k : IsMeta(k)' <=> IsMeta(k)
      /\ \A k : HasFamily(k)' <=> HasFamily(k)
      /\ \A k : CategoryOf(k)' = CategoryOf(k)
      /\ \A k : InfoOf(k)' = InfoOf(k)
      /\ \A c, name, m : RelationsOf(c, name, m)' = RelationsOf(c, name, m)
      /\ \A name, m : ChecksOf(name, m)' = ChecksOf(name, m)
  BY DEF IsMeta, HasFamily, CategoryOf, InfoOf, RelationsOf, ChecksOf
<1>2. ListsTyped(meta_rel_decls, meta_check_decls)'
  BY DEF ListsTyped
<1>3. RelationsFrom(meta_rel_decls, fd_next - 1)'
  BY <1>1 DEF RelationsFrom
<1>4. ChecksFrom(meta_check_decls, fd_next - 1)'
  BY <1>1 DEF ChecksFrom
<1>5. RelationsCounted(meta_rel_decls, fd_next - 1)'
  BY <1>1 DEF RelationsCounted, Times, Reader!LoggedIn
<1>6. ChecksCounted(meta_check_decls, fd_next - 1)'
  BY <1>1 DEF ChecksCounted, Times
<1> QED
  BY <1>2, <1>3, <1>4, <1>5, <1>6 DEF PlacedInv

LEMMA PlacedStutter ==
  ASSUME PlacedInv, UNCHANGED <<matched_fds, fd_next, meta_rel_decls, meta_check_decls>>
  PROVE  PlacedInv'
<1>1. fd_next' - 1 = fd_next - 1
  OBVIOUS
<1>2. /\ ListsTyped(meta_rel_decls', meta_check_decls')
      /\ RelationsFrom(meta_rel_decls', fd_next - 1)
      /\ ChecksFrom(meta_check_decls', fd_next - 1)
      /\ RelationsCounted(meta_rel_decls', fd_next - 1)
      /\ ChecksCounted(meta_check_decls', fd_next - 1)
  BY DEF PlacedInv
<1> QED
  BY <1>1, <1>2, PlacedOne

LEMMA ReadRelationsPlacedInv ==
  ASSUME ReadInv, PlacedInv, Reader!Next
  PROVE  PlacedInv'
<1>1. matched_fds \in Specifications /\ fd_next \in Nat \ {0}
  BY SpecificationFacts DEF ReadInv
<1>2. CASE Reader!SkipPlaceholder
  <2>1. ~IsMeta(fd_next)
    BY <1>2 DEF Reader!SkipPlaceholder, Reader!fd, IsMeta
  <2>2. /\ UNCHANGED <<matched_fds, meta_rel_decls, meta_check_decls>>
        /\ fd_next' - 1 = fd_next
    BY <1>1, <1>2 DEF Reader!SkipPlaceholder
  <2>3. ListsTyped(meta_rel_decls, meta_check_decls)
    BY DEF PlacedInv
  <2> QED
    BY <2>1, <2>2, <2>3, <1>1, PlacedSkip, PlacedOne
<1>3. CASE Reader!logMetaRelDecl
  <2>1. /\ fd_next \in DOMAIN matched_fds /\ IsMeta(fd_next)
        /\ UNCHANGED matched_fds /\ fd_next' - 1 = fd_next
    BY <1>1, <1>3 DEF Reader!logMetaRelDecl, Reader!fd, IsMeta
  <2>2. CASE HasFamily(fd_next)
    <3>1. Reader!mrInfo(Reader!fd).mr_family # Reader!NoFamily
      BY <2>2, InfoFacts DEF HasFamily, Reader!fd
    <3>2. Reader!Category(Reader!mrInfo(Reader!fd)) = CategoryOf(fd_next)
      BY InfoFacts DEF CategoryOf, Reader!fd
    <3>3. /\ meta_check_decls' = meta_check_decls
          /\ meta_rel_decls' =
               [c \in DOMAIN meta_rel_decls \cup {CategoryOf(fd_next)} |->
                  IF c = CategoryOf(fd_next)
                  THEN Append(Reader!LoggedIn(meta_rel_decls, c), InfoOf(fd_next))
                  ELSE meta_rel_decls[c]]
      BY <1>3, <3>1, <3>2 DEF Reader!logMetaRelDecl, InfoOf, Reader!fd
    <3>4. /\ ListsTyped(meta_rel_decls', meta_check_decls')
          /\ RelationsFrom(meta_rel_decls', fd_next)
          /\ ChecksFrom(meta_check_decls', fd_next)
          /\ RelationsCounted(meta_rel_decls', fd_next)
          /\ ChecksCounted(meta_check_decls', fd_next)
      BY <1>1, <2>1, <2>2, <3>3, PlacedRelation
    <3> QED
      BY <2>1, <3>4, PlacedOne
  <2>3. CASE ~HasFamily(fd_next)
    <3>1. Reader!mrInfo(Reader!fd).mr_family = Reader!NoFamily
      BY <2>3, InfoFacts DEF HasFamily, Reader!fd
    <3>2. /\ meta_rel_decls' = meta_rel_decls
          /\ meta_check_decls' = Append(meta_check_decls, InfoOf(fd_next))
      BY <1>3, <3>1 DEF Reader!logMetaRelDecl, InfoOf, Reader!fd
    <3>3. /\ ListsTyped(meta_rel_decls', meta_check_decls')
          /\ RelationsFrom(meta_rel_decls', fd_next)
          /\ ChecksFrom(meta_check_decls', fd_next)
          /\ RelationsCounted(meta_rel_decls', fd_next)
          /\ ChecksCounted(meta_check_decls', fd_next)
      BY <1>1, <2>1, <2>3, <3>2, PlacedCheck
    <3> QED
      BY <2>1, <3>3, PlacedOne
  <2> QED
    BY <2>2, <2>3
<1>4. CASE Reader!Finish
  BY <1>4, PlacedStutter DEF Reader!Finish
<1>5. CASE Reader!Abort
  BY <1>5, PlacedStutter DEF Reader!Abort
<1> QED
  BY <1>2, <1>3, <1>4, <1>5 DEF Reader!Next

LEMMA NextPlacedInv == ReadInv /\ PlacedInv /\ [Next]_vars => PlacedInv'
<1> SUFFICES ASSUME ReadInv, PlacedInv, [Next]_vars PROVE PlacedInv'
  OBVIOUS
<1>1. CASE UNCHANGED reader_vars
  BY <1>1, PlacedStutter DEF reader_vars
<1>2. CASE ReadRelations
  BY <1>2, ReadRelationsPlacedInv DEF ReadRelations
<1> QED
  BY <1>1, <1>2 DEF Next, ReadLibrary, ReplaceCalls, StitchHelpers, vars

LEMMA PlacedSafe == Spec => [](ReadInv /\ PlacedInv)
<1>1. Init => PlacedInv
  BY InitPlacedInv
<1>2. Init => ReadInv
  BY InitReadInv
<1> QED
  BY <1>1, <1>2, NextReadInv, NextPlacedInv, PTL DEF Spec

(* Whatever the declarations, each function that was read is listed where  *)
(* its kind and family say, as often as it is declared, and nowhere else:  *)
(* no entry of a family is lost when its category gets another one, and    *)
(* what has no family is a check (logMetaRelDecl of generateMetaTests.cpp).*)
THEOREM EachListedAsDeclared == Spec => []EachWhereItBelongs
<1>1. ReadInv /\ PlacedInv => EachWhereItBelongs
  <2> SUFFICES ASSUME ReadInv, PlacedInv, read_pc = "read"
               PROVE  Reader!EachWhereItBelongs
    BY DEF EachWhereItBelongs, Reader!EachWhereItBelongs
  <2>1. /\ fd_next - 1 = Len(matched_fds) /\ Len(matched_fds) \in Nat
        /\ DOMAIN matched_fds = 1 .. Len(matched_fds)
    BY SpecificationFacts DEF ReadInv
  <2>2. \A d : d \in Reader!MetaFunctions <=>
           \E k \in 1 .. Len(matched_fds) : IsMeta(k) /\ d = matched_fds[k]
    BY <2>1 DEF Reader!MetaFunctions, IsMeta
  <2>3. \A name, decls : Reader!Occurrences(name, decls) = Times(name, decls)
    BY SameCardinality DEF Reader!Occurrences, Times
  <2>4. ASSUME NEW name \in Reader!MetaNames
        PROVE  LET own == <<name[2], Reader!FamilyOf(name)>>
                   listed(c) == Reader!Occurrences(name, Reader!LoggedIn(meta_rel_decls, c))
               IN  IF Reader!FamilyOf(name) = Reader!NoFamily
                   THEN /\ Reader!Occurrences(name, meta_check_decls) = Reader!TimesDeclared(name)
                        /\ \A c \in DOMAIN meta_rel_decls : listed(c) = 0
                   ELSE /\ Reader!Occurrences(name, meta_check_decls) = 0
                        /\ listed(own) = Reader!TimesDeclared(name)
                        /\ \A c \in DOMAIN meta_rel_decls \ {own} : listed(c) = 0
    <3> DEFINE own == <<name[2], Reader!FamilyOf(name)>>
               declared == {k \in 1 .. Len(matched_fds) : matched_fds[k].qualified = name}
    <3>1. PICK j \in 1 .. Len(matched_fds) : IsMeta(j) /\ matched_fds[j].qualified = name
      BY <2>2, <2>4 DEF Reader!MetaNames
    <3>2. \A k \in declared : /\ IsMeta(k) /\ CategoryOf(k) = own
                              /\ HasFamily(k) <=> Reader!FamilyOf(name) # Reader!NoFamily
      BY <3>1 DEF IsMeta, Reader!IsPlaceholder, CategoryOf, HasFamily
    <3>3. Reader!TimesDeclared(name) = Cardinality(declared)
      BY <2>1, SameCardinality DEF Reader!TimesDeclared
    <3>4. /\ Times(name, meta_check_decls) = Cardinality(ChecksOf(name, Len(matched_fds)))
          /\ \A c : Times(name, Reader!LoggedIn(meta_rel_decls, c)) =
                     Cardinality(RelationsOf(c, name, Len(matched_fds)))
      BY <2>1 DEF PlacedInv, ChecksCounted, RelationsCounted
    <3>5. CASE Reader!FamilyOf(name) = Reader!NoFamily
      <4>1. ChecksOf(name, Len(matched_fds)) = declared
        BY <3>2, <3>5 DEF ChecksOf
      <4>2. \A c : RelationsOf(c, name, Len(matched_fds)) = {}
        BY <3>2, <3>5 DEF RelationsOf
      <4> QED
        BY <2>3, <3>3, <3>4, <3>5, <4>1, <4>2, FS_EmptySet
    <3>6. CASE Reader!FamilyOf(name) # Reader!NoFamily
      <4>1. ChecksOf(name, Len(matched_fds)) = {}
        BY <3>2, <3>6 DEF ChecksOf
      <4>2. /\ RelationsOf(own, name, Len(matched_fds)) = declared
            /\ \A c : c # own => RelationsOf(c, name, Len(matched_fds)) = {}
        BY <3>2, <3>6 DEF RelationsOf
      <4> QED
        BY <2>3, <3>3, <3>4, <3>6, <4>1, <4>2, FS_EmptySet
    <3> QED
      BY <3>5, <3>6
  <2>5. \A k \in 1 .. Len(matched_fds) :
           IsMeta(k) => InfoOf(k).base_func \in Reader!MetaNames
    BY <2>2, InfoFacts DEF InfoOf, Reader!MetaNames
  <2>6. \A k \in DOMAIN meta_check_decls : meta_check_decls[k].base_func \in Reader!MetaNames
    BY <2>1, <2>5 DEF PlacedInv, ChecksFrom
  <2>7. \A c \in DOMAIN meta_rel_decls : \A k \in DOMAIN meta_rel_decls[c] :
           meta_rel_decls[c][k].base_func \in Reader!MetaNames
    BY <2>1, <2>5 DEF PlacedInv, RelationsFrom
  <2>8. \A decls \in {meta_check_decls} \cup Reader!Range(meta_rel_decls) :
           \A k \in DOMAIN decls : decls[k].base_func \in Reader!MetaNames
    BY <2>6, <2>7 DEF Reader!Range
  <2> QED
    BY <2>4, <2>8 DEF Reader!EachWhereItBelongs
<1> QED
  BY <1>1, PlacedSafe, PTL

-----------------------------------------------------------------------------
(* Passes 1 and 2, and pass 6: what their variables hold.                  *)

Source(pc) == IF pc = "fuzzHelperLogger" THEN library.helpers ELSE library.headers

LibInv ==
  /\ lib_pc \in {"libSpecReader", "fuzzHelperLogger", "read", "aborted"}
  /\ IF lib_pc = "read" THEN unmatched = {} ELSE unmatched \subseteq Source(lib_pc)
  /\ exposed_funcs \subseteq {Lib!EntryOf(d) : d \in Source(lib_pc)}

LEMMA InitLibInv == Init => LibInv
BY DEF Init, Start, Lib!Start, LibInv, Source

LEMMA NextLibInv == LibInv /\ [Next]_vars => LibInv'
<1> SUFFICES ASSUME LibInv, [Next]_vars PROVE LibInv'
  OBVIOUS
<1>1. CASE UNCHANGED lib_vars
  BY <1>1 DEF LibInv, Source, Lib!EntryOf, Lib!Entry, Lib!NoClass, lib_vars
<1>2. CASE Lib!LogFunction
  <2>1. UNCHANGED <<library, lib_pc>>
    BY <1>2 DEF Lib!LogFunction
  <2>2. PICK d \in unmatched : /\ exposed_funcs' \in Lib!Emplaced(Lib!EntryOf(d))
                              /\ unmatched' = unmatched \ {d}
    BY <1>2 DEF Lib!LogFunction
  <2>3. d \in Source(lib_pc) /\ unmatched' \subseteq Source(lib_pc) /\ lib_pc # "read"
    BY <1>2, <2>2 DEF LibInv, Lib!LogFunction
  <2>4. exposed_funcs' \subseteq exposed_funcs \cup {Lib!EntryOf(d)}
    BY <2>2 DEF Lib!Emplaced
  <2>5. exposed_funcs' \subseteq {Lib!EntryOf(e) : e \in Source(lib_pc)}
    BY <2>3, <2>4 DEF LibInv
  <2>6. Source(lib_pc)' = Source(lib_pc) /\ \A e : Lib!EntryOf(e)' = Lib!EntryOf(e)
    BY <2>1 DEF Source, Lib!EntryOf, Lib!Entry, Lib!NoClass
  <2> QED
    BY <2>1, <2>3, <2>5, <2>6 DEF LibInv
<1>3. CASE Lib!LogType
  <2>1. UNCHANGED <<library, lib_pc, exposed_funcs>> /\ lib_pc # "read" /\ unmatched' \subseteq unmatched
    BY <1>3 DEF Lib!LogType
  <2>2. Source(lib_pc)' = Source(lib_pc) /\ \A e : Lib!EntryOf(e)' = Lib!EntryOf(e)
    BY <2>1 DEF Source, Lib!EntryOf, Lib!Entry, Lib!NoClass
  <2> QED
    BY <2>1, <2>2 DEF LibInv
<1>4. CASE Lib!Abort
  <2>1. /\ UNCHANGED <<library, unmatched, exposed_funcs>>
        /\ lib_pc = "libSpecReader" /\ lib_pc' = "aborted"
    BY <1>4 DEF Lib!Abort
  <2>2. Source(lib_pc)' = Source(lib_pc) /\ \A e : Lib!EntryOf(e)' = Lib!EntryOf(e)
    BY <2>1 DEF Source, Lib!EntryOf, Lib!Entry, Lib!NoClass
  <2> QED
    BY <2>1, <2>2 DEF LibInv
<1>5. CASE Lib!AddExposedFuncs
  BY <1>5 DEF LibInv, Source, Lib!AddExposedFuncs, Lib!Cleared
<1> QED
  BY <1>1, <1>2, <1>3, <1>4, <1>5
     DEF Next, ReadLibrary, ReadRelations, ReplaceCalls, StitchHelpers, Lib!Next, vars

StitchInv ==
  /\ stitch_pc \in {"locate", "log", "replace", "done", "aborted"}
  /\ helper_funcs_splits \subseteq DOMAIN program.helpers
  /\ replace_index \in Nat
  /\ stitch_exprs = [k \in 1 .. replace_index |-> stitch_exprs[k]]
  /\ Len(stitched) \in 0 .. replace_index
  /\ stitched = [k \in 1 .. Len(stitched) |-> stitched[k]]
  /\ stitch_pc \in {"locate", "log"} => Len(stitched) = 0
  /\ stitch_pc = "replace" => stitch_next = Len(stitched) + 1

LEMMA InitStitchInv == Init => StitchInv
<1> SUFFICES ASSUME Init PROVE StitchInv
  OBVIOUS
<1>1. /\ stitch_pc = "locate" /\ helper_funcs_splits = {} /\ replace_index = 0
      /\ stitch_exprs = <<>> /\ stitched = <<>>
  BY DEF Init, Start, Stitch!Start
<1>2. Len(stitched) = 0
  BY <1>1
<1> QED
  BY <1>1, <1>2 DEF StitchInv

LEMMA NextStitchInv == StitchInv /\ [Next]_vars => StitchInv'
<1> SUFFICES ASSUME StitchInv, [Next]_vars PROVE StitchInv'
  OBVIOUS
<1>1. CASE UNCHANGED stitch_vars
  BY <1>1 DEF StitchInv, stitch_vars
<1>2. CASE Stitch!LocateHelper
  <2>1. helper_funcs_splits' \subseteq helper_funcs_splits \cup {stitch_next}
    BY <1>2 DEF Stitch!LocateHelper
  <2>2. helper_funcs_splits' \subseteq DOMAIN program.helpers
    BY <1>2, <2>1 DEF StitchInv, Stitch!LocateHelper, Stitch!helpers
  <2> QED
    BY <1>2, <2>2 DEF StitchInv, Stitch!LocateHelper
<1>3. CASE Stitch!AllLocated
  BY <1>3 DEF StitchInv, Stitch!AllLocated
<1>4. CASE Stitch!LogCall
  <2>1. PICK e : stitch_exprs' = Append(stitch_exprs, e)
    BY <1>4 DEF Stitch!LogCall
  <2>2. /\ replace_index' = replace_index + 1 /\ stitch_pc = "log"
        /\ UNCHANGED <<program, stitch_pc, helper_funcs_splits, stitched>>
    BY <1>4 DEF Stitch!LogCall, Stitch!NextIndex
  <2>3. stitch_exprs' = [k \in 1 .. replace_index' |-> stitch_exprs'[k]]
    BY <2>1, <2>2, LongerByOne DEF StitchInv
  <2> QED
    BY <2>2, <2>3 DEF StitchInv
<1>5. CASE Stitch!AllLogged
  BY <1>5 DEF StitchInv, Stitch!AllLogged
<1>6. CASE Stitch!MakeReplace
  <2>1. PICK e : stitched' = Append(stitched, e)
    BY <1>6 DEF Stitch!MakeReplace
  <2>2. /\ stitch_pc = "replace" /\ stitch_next \in DOMAIN stitch_exprs
        /\ stitch_next' = stitch_next + 1
        /\ UNCHANGED <<program, stitch_pc, helper_funcs_splits, stitch_exprs, replace_index>>
    BY <1>6 DEF Stitch!MakeReplace
  <2>3. Len(stitched) \in Nat /\ stitched = [k \in 1 .. Len(stitched) |-> stitched[k]]
    BY DEF StitchInv
  <2>4. /\ Len(stitched') = Len(stitched) + 1
        /\ stitched' = [k \in 1 .. Len(stitched) + 1 |-> stitched'[k]]
    BY <2>1, <2>3, LongerByOne
  <2>5. stitch_next \in 1 .. replace_index /\ stitch_next = Len(stitched) + 1
    BY <2>2 DEF StitchInv
  <2> QED
    BY <2>2, <2>4, <2>5 DEF StitchInv
<1>7. CASE Stitch!Finish
  BY <1>7 DEF StitchInv, Stitch!Finish
<1>8. CASE Stitch!Abort
  BY <1>8 DEF StitchInv, Stitch!Abort
<1> QED
  BY <1>1, <1>2, <1>3, <1>4, <1>5, <1>6, <1>7, <1>8
     DEF Next, ReadLibrary, ReadRelations, ReplaceCalls, StitchHelpers, Stitch!Next, vars

LEMMA ReaderTyped ==
  ASSUME ReadInv, PlacedInv
  PROVE  Reader!TypeOK
<1>1. fd_next \in 1 .. Len(matched_fds) + 1 /\ read_pc \in {"log", "read", "aborted"}
  BY DEF ReadInv
<1>2. /\ DOMAIN matched_fds = 1 .. Len(matched_fds) /\ Len(matched_fds) \in Nat
      /\ matched_fds \in Specifications
      /\ \A i \in 1 .. fd_next - 1 : i \in 1 .. Len(matched_fds)
  BY SpecificationFacts DEF ReadInv
<1>3. meta_input_var_type \in Types \cup {Reader!NoType}
  BY <1>2, SpecificationFacts DEF ReadInv
<1>4. ASSUME NEW c \in DOMAIN meta_rel_decls
      PROVE  /\ c[1] \in Reader!REL_TYPE
             /\ c[2] \in {name[3] : name \in {n \in Reader!MetaNames : n[2] = c[1]}}
  <2>1. PICK j : j \in DOMAIN meta_rel_decls[c]
    <3>1. meta_rel_decls[c] \in Seq(Infos) /\ meta_rel_decls[c] # <<>>
      BY <1>4 DEF PlacedInv, ListsTyped
    <3>2. Len(meta_rel_decls[c]) \in Nat /\ Len(meta_rel_decls[c]) # 0
      BY <3>1
    <3>3. 1 \in DOMAIN meta_rel_decls[c]
      BY <3>1, <3>2
    <3> QED
      BY <3>3
  <2>2. PICK k \in 1 .. fd_next - 1 : IsMeta(k) /\ HasFamily(k) /\ c = CategoryOf(k)
    BY <1>4, <2>1 DEF PlacedInv, RelationsFrom
  <2> DEFINE q == matched_fds[k].qualified
  <2>3. k \in 1 .. Len(matched_fds) /\ matched_fds[k] \in Reader!MetaFunctions
    BY <1>2, <2>2 DEF IsMeta, Reader!MetaFunctions
  <2>4. c[1] = q[2] /\ c[2] = q[3]
    BY <2>2 DEF CategoryOf, HasFamily, Reader!FamilyOf
  <2>5. q[2] \in Reader!REL_TYPE
    BY <2>2 DEF ReadInv, Understood
  <2>6. q \in Reader!MetaNames
    BY <2>3 DEF Reader!MetaNames
  <2> QED
    BY <2>4, <2>5, <2>6
<1> QED
  BY <1>1, <1>3, <1>4 DEF Reader!TypeOK

(* The variables of every pass have their types.                           *)
THEOREM PassesTyped == Spec => []TypeOK
<1>1. LibInv => Lib!TypeOK
  BY DEF LibInv, Lib!TypeOK, Source
<1>2. StitchInv => Stitch!TypeOK
  <2>1. StitchInv => replace_index = Len(stitch_exprs)
    BY DEF StitchInv
  <2> QED
    BY <2>1 DEF StitchInv, Stitch!TypeOK, Stitch!helpers
<1>3. Spec => []LibInv
  BY InitLibInv, NextLibInv, PTL DEF Spec
<1>4. Spec => []StitchInv
  BY InitStitchInv, NextStitchInv, PTL DEF Spec
<1>5. LibInv /\ StitchInv /\ RandInv /\ ReadInv /\ PlacedInv => TypeOK
  BY <1>1, <1>2, ReaderTyped, RandInvTypeOK DEF TypeOK
<1> QED
  BY <1>3, <1>4, <1>5, PlacedSafe, RandSafe, PTL

-----------------------------------------------------------------------------
(***************************************************************************)
(* Passes 1 and 2: each function is handed over once.                      *)
(***************************************************************************)

(* Strings are totally ordered.                                            *)
LEMMA LexTotal ==
  ASSUME NEW s \in Seq(Nat), NEW t \in Seq(Nat), ~Lib!LexLess(s, t), ~Lib!LexLess(t, s)
  PROVE  s = t
<1>0. DOMAIN s = 1 .. Len(s) /\ Len(s) \in Nat /\ DOMAIN t = 1 .. Len(t) /\ Len(t) \in Nat
  OBVIOUS
<1> DEFINE D == {k \in DOMAIN s \cap DOMAIN t : s[k] # t[k]}
<1>1. D = {}
  <2> SUFFICES ASSUME D # {} PROVE FALSE
    OBVIOUS
  <2>1. D \subseteq Nat
    OBVIOUS
  <2>2. PICK k \in D : \A j \in D : k <= j
    BY <2>1, SmallestMember
  <2>3. k \in DOMAIN s /\ k \in DOMAIN t /\ s[k] # t[k]
    BY <2>2
  <2>4. \A j \in 1 .. k - 1 : s[j] = t[j]
    <3> SUFFICES ASSUME NEW j \in 1 .. k - 1, s[j] # t[j] PROVE FALSE
      OBVIOUS
    <3>a. k \in 1 .. Len(s) /\ k \in 1 .. Len(t)
      BY <2>3, <1>0
    <3>b. k \in Nat /\ k <= Len(s) /\ k <= Len(t)
      BY <3>a
    <3>c. j \in Nat /\ 1 <= j /\ j < k
      BY <3>b
    <3>d. j \in 1 .. Len(s) /\ j \in 1 .. Len(t)
      BY <3>b, <3>c
    <3>1. j \in DOMAIN s \cap DOMAIN t /\ ~(k <= j)
      BY <3>b, <3>c, <3>d, <1>0
    <3>2. j \in D
      BY <3>1
    <3> QED
      BY <2>2, <3>1, <3>2
  <2>5. s[k] \in Nat /\ t[k] \in Nat
    BY <2>3
  <2>6. s[k] < t[k] \/ t[k] < s[k]
    BY <2>3, <2>5
  <2> QED
    BY <2>3, <2>4, <2>6 DEF Lib!LexLess
<1>2. Len(s) = Len(t)
  <2>1. ~(Len(s) < Len(t))
    BY <1>1 DEF Lib!LexLess
  <2>2. ~(Len(t) < Len(s))
    BY <1>1 DEF Lib!LexLess
  <2> QED
    BY <2>1, <2>2
<1>3. \A k \in 1 .. Len(s) : s[k] = t[k]
  BY <1>1, <1>2
<1>4. s = [k \in 1 .. Len(s) |-> s[k]] /\ t = [k \in 1 .. Len(s) |-> t[k]]
  BY <1>2
<1> QED
  BY <1>3, <1>4

LEMMA LexIrreflexive ==
  ASSUME NEW s \in Seq(Nat)
  PROVE  ~Lib!LexLess(s, s)
<1>1. \A k \in DOMAIN s : s[k] \in Nat
  OBVIOUS
<1> QED
  BY <1>1 DEF Lib!LexLess

Entries == [decl : Nat, name : Seq(Nat), class : [ns : Nat, name : Nat], ret : Nat,
            params : Seq(Nat), statik : BOOLEAN, ctor : BOOLEAN, special : BOOLEAN]

(* What compare finds equivalent: everything is written alike.             *)
WrittenAlike(e, f) ==
  /\ e.name = f.name /\ e.ret = f.ret /\ e.params = f.params
  /\ Lib!NoClass \in {e.class, f.class} \/ e.class.name = f.class.name

LEMMA EquivalentWhenAlike ==
  ASSUME NEW e \in Entries, NEW f \in Entries
  PROVE  Lib!Equivalent(e, f) <=> WrittenAlike(e, f)
<1>1. /\ e.name \in Seq(Nat) /\ e.ret \in Nat /\ e.params \in Seq(Nat) /\ e.class.name \in Nat
      /\ f.name \in Seq(Nat) /\ f.ret \in Nat /\ f.params \in Seq(Nat) /\ f.class.name \in Nat
  BY DEF Entries
<1>2. ASSUME ~Lib!Differ(e, f), ~Lib!Differ(f, e)
      PROVE  e.name = f.name /\ e.ret = f.ret /\ e.params = f.params
  <2>1. e.name = f.name
    BY <1>1, <1>2, LexTotal DEF Lib!Differ
  <2>2. e.ret = f.ret
    BY <1>1, <1>2, <2>1 DEF Lib!Differ
  <2>3. Len(e.params) = Len(f.params)
    BY <1>1, <1>2, <2>1, <2>2 DEF Lib!Differ
  <2>4. e.params = f.params
    BY <1>1, <1>2, <2>1, <2>2, <2>3, LexTotal DEF Lib!Differ
  <2> QED
    BY <2>1, <2>2, <2>4
<1>3. ASSUME e.name = f.name, e.ret = f.ret, e.params = f.params
      PROVE  ~Lib!Differ(e, f) /\ ~Lib!Differ(f, e)
  <2>1. ~Lib!LexLess(e.params, f.params) /\ ~Lib!LexLess(f.params, e.params)
    BY <1>1, <1>3, LexIrreflexive
  <2> QED
    BY <1>3, <2>1 DEF Lib!Differ
<1>4. CASE Lib!NoClass \notin {e.class, f.class} /\ e.class.name # f.class.name
  BY <1>1, <1>4 DEF Lib!Equivalent, Lib!compare, WrittenAlike
<1>5. CASE ~(Lib!NoClass \notin {e.class, f.class} /\ e.class.name # f.class.name)
  <2>1. Lib!Equivalent(e, f) <=> ~Lib!Differ(e, f) /\ ~Lib!Differ(f, e)
    BY <1>5 DEF Lib!Equivalent, Lib!compare
  <2> QED
    BY <1>2, <1>3, <1>5, <2>1 DEF WrittenAlike
<1> QED
  BY <1>4, <1>5

Functions(S) == {d \in S : Lib!IsFunction(d)}
Identities(S) == {Lib!Identity(d) : d \in Functions(S)}

(* Three conditions on a library, which the program does not check.        *)
(* A function that is declared again has the same marks.                   *)
MarkedAlike ==
  \A lib \in Libraries : \A S \in {lib.headers, lib.helpers} : \A d, e \in Functions(S) :
    Lib!Identity(d) = Lib!Identity(e) =>
      /\ d.kind = e.kind /\ d.attr = e.attr
      /\ d.static = e.static /\ d.named_ctor = e.named_ctor

(* Classes have different names, even if they are in different namespaces; *)
(* a free function is not written like a method; a helper is not exposed.  *)
ToldApart ==
  \A lib \in Libraries :
    /\ \A S \in {lib.headers, lib.helpers} : \A d, e \in Functions(S) :
         IF d.kind # "function" /\ e.kind # "function"
         THEN d.class.name = e.class.name => d.class = e.class
         ELSE d.kind # e.kind =>
                ~WrittenAlike(Lib!Entry("libSpecReader", d), Lib!Entry("libSpecReader", e))
    /\ Identities(lib.headers) \cap Identities(lib.helpers) = {}

(* If anything is declared twice in what a pass reads, compare is a strict *)
(* weak order there.                                                       *)
OrderedIfRepeated ==
  \A lib \in Libraries : \A pass \in {"libSpecReader", "fuzzHelperLogger"} :
    LET S == Functions(IF pass = "fuzzHelperLogger" THEN lib.helpers ELSE lib.headers)
    IN  (\E d, e \in S : d # e /\ Lib!Identity(d) = Lib!Identity(e)) =>
          Lib!IsStrictWeakOrder({Lib!Entry(pass, d) : d \in S})

LEMMA LibraryFacts ==
  ASSUME library \in Libraries, NEW pass
  PROVE  /\ IsFiniteSet(Source(pass))
         /\ \A d, e \in Source(pass) : d.id = e.id => d = e
         /\ \A d \in Source(pass) :
              /\ d \in Lib!Declarations
              /\ d.kind \in {"ctor", "method"} => d.class # Lib!NoClass
              /\ d.kind = "ctor" => d.name = d.class.name
              /\ pass # "fuzzHelperLogger" => ~d.named_ctor
              /\ Lib!Entry(pass, d) \in Entries
<1>1. /\ IsFiniteSet(Source(pass)) /\ Source(pass) \subseteq Lib!Declarations
      /\ \A d, e \in Source(pass) : d.id = e.id => d = e
      /\ \A d \in Source(pass) :
           /\ d.kind \in {"ctor", "method"} => d.class # Lib!NoClass
           /\ d.kind = "ctor" => d.name = d.class.name
           /\ pass # "fuzzHelperLogger" => ~d.named_ctor
  BY PassesAssumption DEF Lib!LibraryAssumption, Source, Lib!IsFiniteSet, IsFiniteSet
<1>2. ASSUME NEW d \in Source(pass) PROVE Lib!Entry(pass, d) \in Entries
  <2>1. d \in Lib!Declarations
    BY <1>1
  <2>2. /\ d.id \in Nat /\ d.ns \in Nat /\ d.name \in Nat /\ d.ret \in Nat
        /\ d.params \in Seq(Nat) /\ d.class \in [ns : Nat, name : Nat]
        /\ d.named_ctor \in BOOLEAN /\ d.static \in BOOLEAN
    BY <2>1 DEF Lib!Declarations
  <2>3. Lib!NoClass \in [ns : Nat, name : Nat]
    BY DEF Lib!NoClass
  <2>4. <<d.name>> \in Seq(Nat) /\ <<d.class.ns, d.class.name>> \in Seq(Nat)
        /\ <<d.ns, d.name>> \in Seq(Nat)
    BY <2>2
  <2> QED
    BY <2>2, <2>3, <2>4 DEF Lib!Entry, Entries
<1> QED
  BY <1>1, <1>2

(* For the functions of a pass, compare tells apart what callers do.       *)
LEMMA EquivalentIsRepeated ==
  ASSUME MarkedAlike, ToldApart, library \in Libraries, NEW pass,
         NEW d \in Functions(Source(pass)), NEW e \in Functions(Source(pass))
  PROVE  Lib!Equivalent(Lib!Entry(pass, d), Lib!Entry(pass, e)) <=> Lib!Identity(d) = Lib!Identity(e)
<1> DEFINE E == Lib!Entry(pass, d)
           F == Lib!Entry(pass, e)
<1>1. d \in Source(pass) /\ e \in Source(pass) /\ Lib!IsFunction(d) /\ Lib!IsFunction(e)
  BY DEF Functions
<1>2. d.kind \in {"ctor", "method", "function"} /\ e.kind \in {"ctor", "method", "function"}
  BY <1>1 DEF Lib!IsFunction
<1>3. Lib!Equivalent(E, F) <=> WrittenAlike(E, F)
  BY <1>1, LibraryFacts, EquivalentWhenAlike
<1>4. \E S \in {library.headers, library.helpers} : S = Source(pass)
  BY DEF Source
<1>5. IF d.kind # "function" /\ e.kind # "function"
      THEN d.class.name = e.class.name => d.class = e.class
      ELSE d.kind # e.kind =>
             ~WrittenAlike(Lib!Entry("libSpecReader", d), Lib!Entry("libSpecReader", e))
  BY <1>4 DEF ToldApart
<1>6. /\ d.kind \in {"ctor", "method"} => d.class # Lib!NoClass
      /\ e.kind \in {"ctor", "method"} => e.class # Lib!NoClass
      /\ d.kind = "ctor" => d.name = d.class.name
      /\ e.kind = "ctor" => e.name = e.class.name
  BY <1>1, LibraryFacts
<1>7. ASSUME Lib!Identity(d) = Lib!Identity(e) PROVE WrittenAlike(E, F)
  <2>1. d.kind = e.kind
    BY <1>4, <1>7 DEF MarkedAlike
  <2>2. d.ret = e.ret /\ d.params = e.params /\ d.name = e.name
        /\ (d.kind = "function" => d.ns = e.ns) /\ (d.kind # "function" => d.class = e.class)
    BY <1>7, <2>1 DEF Lib!Identity
  <2> QED
    BY <1>2, <2>1, <2>2 DEF WrittenAlike, Lib!Entry
<1>8. ASSUME WrittenAlike(E, F) PROVE Lib!Identity(d) = Lib!Identity(e)
  <2>1. d.ret = e.ret /\ d.params = e.params
    BY <1>8 DEF WrittenAlike, Lib!Entry
  <2>2. CASE d.kind = "function" /\ e.kind = "function"
    <3>1. (IF d.ns = 0 THEN <<d.name>> ELSE <<d.ns, d.name>>)
            = (IF e.ns = 0 THEN <<e.name>> ELSE <<e.ns, e.name>>)
      BY <1>8, <2>2 DEF WrittenAlike, Lib!Entry
    <3>2. d.ns = e.ns /\ d.name = e.name
      BY <3>1
    <3> QED
      BY <2>1, <2>2, <3>2 DEF Lib!Identity
  <2>3. CASE d.kind # "function" /\ e.kind # "function"
    <3>1. E.class = d.class /\ F.class = e.class /\ d.class.name = e.class.name
      BY <1>2, <1>6, <1>8, <2>3 DEF WrittenAlike, Lib!Entry
    <3>2. d.class = e.class
      BY <1>5, <2>3, <3>1
    <3>3. (IF d.kind = "method" THEN <<d.name>> ELSE <<d.class.ns, d.class.name>>)
            = (IF e.kind = "method" THEN <<e.name>> ELSE <<e.class.ns, e.class.name>>)
      BY <1>2, <1>8, <2>3 DEF WrittenAlike, Lib!Entry
    <3>4. d.name = e.name
      BY <1>2, <1>6, <2>3, <3>2, <3>3
    <3> QED
      BY <2>1, <2>3, <3>2, <3>4 DEF Lib!Identity
  <2>4. CASE ~(d.kind = "function" /\ e.kind = "function") /\ ~(d.kind # "function" /\ e.kind # "function")
    <3>1. WrittenAlike(Lib!Entry("libSpecReader", d), Lib!Entry("libSpecReader", e))
      BY <1>8 DEF WrittenAlike, Lib!Entry
    <3> QED
      BY <1>5, <2>4, <3>1
  <2> QED
    BY <2>2, <2>3, <2>4
<1> QED
  BY <1>3, <1>7, <1>8

(* SetToSeq lists each member of a finite set once.                        *)
LEMMA SetToSeqIs ==
  ASSUME NEW S, IsFiniteSet(S)
  PROVE  /\ Lib!SetToSeq(S) \in Seq(S) /\ Len(Lib!SetToSeq(S)) = Cardinality(S)
         /\ \A x \in S : \E k \in 1 .. Cardinality(S) : Lib!SetToSeq(S)[k] = x
<1> DEFINE n == Cardinality(S)
<1>1. n \in Nat /\ ExistsBijection(1 .. n, S)
  BY FS_CardinalityType
<1>2. PICK g \in Bijection(1 .. n, S) : TRUE
  BY <1>1 DEF ExistsBijection
<1>3. g \in [1 .. n -> S] /\ Lib!IsInjective(g)
  BY <1>2 DEF Bijection, Injection, IsInjective, Lib!IsInjective
<1>4. Lib!Cardinality(S) = n
  BY DEF Cardinality, Lib!Cardinality
<1>5. Lib!SetToSeq(S) \in [1 .. n -> S] /\ Lib!IsInjective(Lib!SetToSeq(S))
  BY <1>3, <1>4 DEF Lib!SetToSeq
<1>6. Lib!SetToSeq(S) \in Injection(1 .. n, S)
  BY <1>5 DEF Injection, IsInjective, Lib!IsInjective
<1>7. IsFiniteSet(1 .. n) /\ Cardinality(1 .. n) = n
  BY <1>1, FS_Interval
<1>8. Lib!SetToSeq(S) \in Surjection(1 .. n, S)
  BY <1>6, <1>7, FS_Injection
<1>9. \A x \in S : \E k \in 1 .. n : Lib!SetToSeq(S)[k] = x
  BY <1>8 DEF Surjection
<1> QED
  BY <1>1, <1>5, <1>9

-----------------------------------------------------------------------------

(* exposed holds one entry of each function that was seen.                 *)
Collected(pass, seen, exposed) ==
  /\ \A e \in exposed : \E d \in Functions(seen) : e = Lib!Entry(pass, d)
  /\ \A d \in Functions(seen) :
       \E x \in Functions(seen) :
         Lib!Entry(pass, x) \in exposed /\ Lib!Identity(x) = Lib!Identity(d)
  /\ \A d, e \in Functions(seen) :
       /\ Lib!Entry(pass, d) \in exposed /\ Lib!Entry(pass, e) \in exposed
       /\ Lib!Identity(d) = Lib!Identity(e)
       => d = e

IsEmplaced(new, exposed, e) ==
  new \in (IF \A f \in exposed : ~Lib!Equivalent(e, f) THEN {exposed \cup {e}}
           ELSE IF Lib!IsStrictWeakOrder(exposed \cup {e}) THEN {exposed}
           ELSE {exposed, exposed \cup {e}})

LEMMA CollectOne ==
  ASSUME MarkedAlike, ToldApart, OrderedIfRepeated, library \in Libraries,
         NEW pass \in {"libSpecReader", "fuzzHelperLogger"},
         NEW seen, seen \subseteq Source(pass), NEW exposed, Collected(pass, seen, exposed),
         NEW d \in Source(pass) \ seen, Lib!IsFunction(d),
         NEW new, IsEmplaced(new, exposed, Lib!Entry(pass, d))
  PROVE  Collected(pass, seen \cup {d}, new)
<1> DEFINE E == Lib!Entry(pass, d)
           both == seen \cup {d}
<1>1. /\ Functions(both) = Functions(seen) \cup {d} /\ d \notin Functions(seen)
      /\ Functions(both) \subseteq Functions(Source(pass))
  BY DEF Functions
<1>2. \A x, y \in Functions(Source(pass)) :
        Lib!Equivalent(Lib!Entry(pass, x), Lib!Entry(pass, y)) <=> Lib!Identity(x) = Lib!Identity(y)
  BY EquivalentIsRepeated
<1>3. \A x \in Functions(both) : Lib!Entry(pass, x) = E => x = d
  <2>1. \A x, y \in Functions(both) : x.id = y.id => x = y
    BY <1>1, LibraryFacts DEF Functions
  <2>2. \A x : Lib!Entry(pass, x).decl = x.id
    BY DEF Lib!Entry
  <2>3. \A x : Lib!Entry(pass, x) = E => x.id = d.id
    BY <2>2
  <2> QED
    BY <1>1, <2>1, <2>3
<1>4. CASE \A f \in exposed : ~Lib!Equivalent(E, f)
  <2>1. new = exposed \cup {E}
    BY <1>4 DEF IsEmplaced
  <2>2. \A x \in Functions(seen) : Lib!Entry(pass, x) \in exposed => Lib!Identity(x) # Lib!Identity(d)
    BY <1>1, <1>2, <1>4
  <2>3. \A x \in Functions(both) : Lib!Entry(pass, x) \in new => x = d \/ Lib!Entry(pass, x) \in exposed
    BY <1>3, <2>1
  <2>4. \A e \in new : \E x \in Functions(both) : e = Lib!Entry(pass, x)
    BY <1>1, <2>1 DEF Collected
  <2>5. \A y \in Functions(both) :
          \E x \in Functions(both) :
            Lib!Entry(pass, x) \in new /\ Lib!Identity(x) = Lib!Identity(y)
    BY <1>1, <2>1 DEF Collected
  <2>6. \A x, y \in Functions(both) :
          /\ Lib!Entry(pass, x) \in new /\ Lib!Entry(pass, y) \in new
          /\ Lib!Identity(x) = Lib!Identity(y)
          => x = y
    BY <1>1, <2>2, <2>3 DEF Collected
  <2> QED
    BY <2>4, <2>5, <2>6 DEF Collected
<1>5. CASE \E f \in exposed : Lib!Equivalent(E, f)
  <2>1. PICK x \in Functions(seen) : /\ Lib!Entry(pass, x) \in exposed
                                     /\ Lib!Equivalent(E, Lib!Entry(pass, x))
    BY <1>5 DEF Collected
  <2>2. x # d /\ Lib!Identity(d) = Lib!Identity(x)
    BY <1>1, <1>2, <2>1
  <2>3. Lib!IsStrictWeakOrder({Lib!Entry(pass, y) : y \in Functions(Source(pass))})
    BY <1>1, <2>1, <2>2 DEF OrderedIfRepeated, Source
  <2>4. exposed \cup {E} \subseteq {Lib!Entry(pass, y) : y \in Functions(Source(pass))}
    BY <1>1 DEF Collected
  <2>5. Lib!IsStrictWeakOrder(exposed \cup {E})
    BY <2>3, <2>4 DEF Lib!IsStrictWeakOrder
  <2>6. new = exposed
    BY <1>5, <2>5 DEF IsEmplaced
  <2>7. E \notin exposed
    BY <1>1, <1>3 DEF Collected
  <2>8. \A e \in new : \E y \in Functions(both) : e = Lib!Entry(pass, y)
    BY <1>1, <2>6 DEF Collected
  <2>9. \A y \in Functions(both) :
          \E z \in Functions(both) :
            Lib!Entry(pass, z) \in new /\ Lib!Identity(z) = Lib!Identity(y)
    BY <1>1, <2>1, <2>2, <2>6 DEF Collected
  <2>10. \A y, z \in Functions(both) :
           /\ Lib!Entry(pass, y) \in new /\ Lib!Entry(pass, z) \in new
           /\ Lib!Identity(y) = Lib!Identity(z)
           => y = z
    BY <1>1, <2>6, <2>7 DEF Collected
  <2> QED
    BY <2>8, <2>9, <2>10 DEF Collected
<1> QED
  BY <1>4, <1>5

(* funcs hands d over, with the marks that pass gives it.                  *)
Handed(pass, d, funcs) ==
  \E k \in DOMAIN funcs :
    /\ funcs[k].name = Lib!Entry("libSpecReader", d).name
    /\ funcs[k].class = (IF d.kind = "function" THEN Lib!NoClass ELSE d.class)
    /\ funcs[k].ret = d.ret /\ funcs[k].params = d.params
    /\ funcs[k].statik = d.static
    /\ funcs[k].special = (pass # "fuzzHelperLogger" /\ d.attr = "expose_special")
    /\ funcs[k].ctor = (d.kind = "ctor" \/ d.named_ctor)

LEMMA CollectedHandedOver ==
  ASSUME MarkedAlike, library \in Libraries,
         NEW pass \in {"libSpecReader", "fuzzHelperLogger"}, NEW exposed,
         Collected(pass, Source(pass), exposed)
  PROVE  /\ Lib!SetToSeq(exposed) \in Seq(Entries)
         /\ Len(Lib!SetToSeq(exposed)) = Cardinality(Identities(Source(pass)))
         /\ Cardinality(Identities(Source(pass))) \in Nat
         /\ IsFiniteSet(Identities(Source(pass)))
         /\ \A d \in Functions(Source(pass)) : Handed(pass, d, Lib!SetToSeq(exposed))
<1> DEFINE F == Functions(Source(pass))
           D == {d \in F : Lib!Entry(pass, d) \in exposed}
           g == [d \in D |-> Lib!Entry(pass, d)]
           h == [d \in D |-> Lib!Identity(d)]
<1>1. IsFiniteSet(D)
  <2>1. D \subseteq Source(pass)
    BY DEF Functions
  <2> QED
    BY <2>1, LibraryFacts, FS_Subset
<1>2. IsFiniteSet(exposed) /\ Cardinality(exposed) = Cardinality(D)
  <2>1. g \in [D -> exposed]
    OBVIOUS
  <2>2. \A e \in exposed : \E d \in D : g[d] = e
    BY DEF Collected
  <2>3. g \in Surjection(D, exposed)
    BY <2>1, <2>2 DEF Surjection
  <2>4. \A d, e \in D : g[d] = g[e] => d = e
    <3>1. \A d \in D : g[d].decl = d.id /\ d \in Source(pass)
      BY DEF Lib!Entry, Functions
    <3> QED
      BY <3>1, LibraryFacts
  <2>5. g \in Injection(D, exposed)
    BY <2>1, <2>4 DEF Injection, IsInjective
  <2> HIDE DEF g
  <2> QED
    BY <1>1, <2>3, <2>5, FS_Surjection
<1>3. /\ IsFiniteSet(Identities(Source(pass))) /\ Cardinality(D) \in Nat
      /\ Cardinality(Identities(Source(pass))) = Cardinality(D)
  <2> DEFINE I == Identities(Source(pass))
  <2>1. h \in [D -> I]
    BY DEF Identities
  <2>2. \A i \in I : \E d \in D : h[d] = i
    BY DEF Collected, Identities
  <2>3. h \in Surjection(D, I)
    BY <2>1, <2>2 DEF Surjection
  <2>4. \A d, e \in D : h[d] = h[e] => d = e
    BY DEF Collected
  <2>5. h \in Injection(D, I)
    BY <2>1, <2>4 DEF Injection, IsInjective
  <2> HIDE DEF h, I, D
  <2>6. IsFiniteSet(I) /\ Cardinality(I) = Cardinality(D) /\ Cardinality(D) \in Nat
    BY <1>1, <2>3, <2>5, FS_Surjection, FS_CardinalityType
  <2> QED
    BY <2>6 DEF I
<1>4. /\ Lib!SetToSeq(exposed) \in Seq(exposed)
      /\ Len(Lib!SetToSeq(exposed)) = Cardinality(exposed)
      /\ \A e \in exposed : \E k \in 1 .. Cardinality(exposed) : Lib!SetToSeq(exposed)[k] = e
  BY <1>2, SetToSeqIs
<1>5. exposed \subseteq Entries
  BY LibraryFacts DEF Collected, Functions
<1>6. Lib!SetToSeq(exposed) \in Seq(Entries)
  BY <1>4, <1>5
<1>7. ASSUME NEW d \in F PROVE Handed(pass, d, Lib!SetToSeq(exposed))
  <2>1. PICK x \in F : Lib!Entry(pass, x) \in exposed /\ Lib!Identity(x) = Lib!Identity(d)
    BY DEF Collected
  <2>2. PICK k \in 1 .. Cardinality(exposed) : Lib!SetToSeq(exposed)[k] = Lib!Entry(pass, x)
    BY <1>4, <2>1
  <2>3. k \in DOMAIN Lib!SetToSeq(exposed)
    BY <1>4, <2>2
  <2>4. /\ x.kind = d.kind /\ x.attr = d.attr
        /\ x.static = d.static /\ x.named_ctor = d.named_ctor
    BY <2>1 DEF MarkedAlike, Source
  <2>5. /\ x.ret = d.ret /\ x.params = d.params /\ x.name = d.name
        /\ (d.kind = "function" => x.ns = d.ns) /\ (d.kind # "function" => x.class = d.class)
    BY <2>1, <2>4 DEF Lib!Identity
  <2>6. d.kind \in {"ctor", "method", "function"} /\ (pass # "fuzzHelperLogger" => ~d.named_ctor)
        /\ d.named_ctor \in BOOLEAN
    <3>1. d \in Source(pass) /\ Lib!IsFunction(d)
      BY DEF Functions
    <3> QED
      BY <3>1, LibraryFacts DEF Lib!Declarations, Lib!IsFunction
  <2> DEFINE f == Lib!Entry(pass, x)
  <2>7. /\ f.name = Lib!Entry("libSpecReader", d).name
        /\ f.class = (IF d.kind = "function" THEN Lib!NoClass ELSE d.class)
        /\ f.ret = d.ret /\ f.params = d.params
        /\ f.statik = d.static
        /\ f.special = (pass # "fuzzHelperLogger" /\ d.attr = "expose_special")
    BY <2>4, <2>5, <2>6 DEF Lib!Entry
  <2>8. f.ctor = (d.kind = "ctor" \/ d.named_ctor)
    <3>1. f.ctor = (d.kind = "ctor" \/ (pass = "fuzzHelperLogger" /\ d.named_ctor))
      BY <2>4 DEF Lib!Entry
    <3> QED
      BY <2>6, <3>1
  <2> HIDE DEF f
  <2>9. Lib!SetToSeq(exposed)[k] = f
    BY <2>2 DEF f
  <2> QED
    BY <2>3, <2>7, <2>8, <2>9 DEF Handed
<1> QED
  BY <1>2, <1>3, <1>4, <1>6, <1>7

LEMMA HandedStays ==
  ASSUME NEW a \in Seq(Entries), NEW b \in Seq(Entries), NEW pass, NEW d,
         Handed(pass, d, a) \/ Handed(pass, d, b)
  PROVE  Handed(pass, d, a \o b)
<1> DEFINE c == a \o b
           Is(f) == /\ f.name = Lib!Entry("libSpecReader", d).name
                    /\ f.class = (IF d.kind = "function" THEN Lib!NoClass ELSE d.class)
                    /\ f.ret = d.ret /\ f.params = d.params
                    /\ f.statik = d.static
                    /\ f.special = (pass # "fuzzHelperLogger" /\ d.attr = "expose_special")
                    /\ f.ctor = (d.kind = "ctor" \/ d.named_ctor)
<1>1. \A s : Handed(pass, d, s) <=> \E k \in DOMAIN s : Is(s[k])
  BY DEF Handed
<1> HIDE DEF Is
<1>2. Len(c) = Len(a) + Len(b) /\ DOMAIN c = 1 .. Len(a) + Len(b)
  OBVIOUS
<1>3. CASE Handed(pass, d, a)
  <2>1. PICK k \in DOMAIN a : Is(a[k])
    BY <1>1, <1>3
  <2>2. k \in DOMAIN c /\ c[k] = a[k]
    OBVIOUS
  <2> QED
    BY <1>1, <2>1, <2>2
<1>4. CASE Handed(pass, d, b)
  <2>1. PICK k \in DOMAIN b : Is(b[k])
    BY <1>1, <1>4
  <2>2. Len(a) + k \in DOMAIN c /\ c[Len(a) + k] = b[k]
    OBVIOUS
  <2> QED
    BY <1>1, <2>1, <2>2
<1> QED
  BY <1>3, <1>4

LEMMA IdentitiesFinite ==
  ASSUME library \in Libraries, NEW pass
  PROVE  IsFiniteSet(Identities(Source(pass)))
<1> DEFINE F == Functions(Source(pass))
           I == Identities(Source(pass))
           h == [d \in F |-> Lib!Identity(d)]
<1>1. IsFiniteSet(F)
  <2>1. F \subseteq Source(pass)
    BY DEF Functions
  <2> QED
    BY <2>1, LibraryFacts, FS_Subset
<1>2. h \in Surjection(F, I)
  BY DEF Surjection, Identities
<1> HIDE DEF F, h, I
<1>3. IsFiniteSet(I)
  BY <1>1, <1>2, FS_Surjection
<1> QED
  BY <1>3 DEF I

-----------------------------------------------------------------------------

TypesListed(S, types) ==
  \A d \in S \ Functions(S) : \E k \in DOMAIN types : types[k] = Lib!TypeName(d)

AllHanded(pass, S, funcs) == \A d \in Functions(S) : Handed(pass, d, funcs)

(* What was handed over when pass lp is under way, with left unmatched.    *)
HandedInv(lp, left, exposed, funcs, types) ==
  /\ funcs \in Seq(Entries) /\ types \in Seq(Seq(Nat))
  /\ lp \in {"libSpecReader", "fuzzHelperLogger"} =>
       Collected(lp, Source(lp) \ left, exposed)
  /\ lp = "libSpecReader" =>
       funcs = <<>> /\ TypesListed(library.headers \ left, types)
  /\ lp = "fuzzHelperLogger" =>
       /\ AllHanded("libSpecReader", library.headers, funcs)
       /\ Len(funcs) = Cardinality(Identities(library.headers))
       /\ TypesListed(library.headers, types)
       /\ TypesListed(library.helpers \ left, types)
  /\ lp = "read" =>
       /\ AllHanded("libSpecReader", library.headers, funcs) /\ AllHanded("fuzzHelperLogger", library.helpers, funcs)
       /\ Len(funcs) = Cardinality(Identities(library.headers))
                         + Cardinality(Identities(library.helpers))
       /\ TypesListed(library.headers, types) /\ TypesListed(library.helpers, types)

HandInv ==
  /\ library \in Libraries
  /\ HandedInv(lib_pc, unmatched, exposed_funcs, lib_funcs, lib_types)

LEMMA InitHandInv == Init => HandInv
<1> SUFFICES ASSUME Init PROVE HandInv
  OBVIOUS
<1>1. /\ library \in Libraries /\ lib_pc = "libSpecReader" /\ unmatched = library.headers
      /\ exposed_funcs = {} /\ lib_funcs = <<>> /\ lib_types = <<>>
  BY DEF Init, Start, Lib!Start
<1>2. Functions({}) = {}
  BY DEF Functions
<1>3. Collected("libSpecReader", {}, {}) /\ TypesListed({}, <<>>)
  BY <1>2 DEF Collected, TypesListed
<1>4. Source("libSpecReader") \ library.headers = {} /\ library.headers \ library.headers = {}
  BY DEF Source
<1>5. <<>> \in Seq(Entries) /\ <<>> \in Seq(Seq(Nat))
  OBVIOUS
<1> QED
  BY <1>1, <1>3, <1>4, <1>5 DEF HandInv, HandedInv

LEMMA LogFunctionHandInv ==
  ASSUME MarkedAlike, ToldApart, OrderedIfRepeated, LibInv, HandInv, Lib!LogFunction
  PROVE  HandedInv(lib_pc, unmatched', exposed_funcs', lib_funcs, lib_types)
<1>1. lib_pc \in {"libSpecReader", "fuzzHelperLogger"} /\ unmatched \subseteq Source(lib_pc)
  BY DEF Lib!LogFunction, LibInv
<1>2. PICK d \in unmatched : /\ Lib!IsFunction(d) /\ unmatched' = unmatched \ {d}
                            /\ exposed_funcs' \in Lib!Emplaced(Lib!EntryOf(d))
  BY DEF Lib!LogFunction
<1> DEFINE seen == Source(lib_pc) \ unmatched
<1>3. Source(lib_pc) \ unmatched' = seen \cup {d} /\ d \in Source(lib_pc) \ seen
  BY <1>1, <1>2
<1>4. IsEmplaced(exposed_funcs', exposed_funcs, Lib!Entry(lib_pc, d))
  BY <1>2 DEF IsEmplaced, Lib!Emplaced, Lib!EntryOf
<1>5. Collected(lib_pc, seen, exposed_funcs)
  BY <1>1 DEF HandInv, HandedInv
<1>6. Collected(lib_pc, seen \cup {d}, exposed_funcs')
  <2> HIDE DEF seen
  <2>1. seen \subseteq Source(lib_pc)
    BY DEF seen
  <2> QED
    BY <1>1, <1>2, <1>3, <1>4, <1>5, <2>1, CollectOne DEF HandInv
<1>7. ASSUME NEW S, TypesListed(S \ unmatched, lib_types)
      PROVE  TypesListed(S \ unmatched', lib_types)
  BY <1>2, <1>7 DEF TypesListed, Functions
<1> QED
  BY <1>1, <1>3, <1>6, <1>7 DEF HandInv, HandedInv

LEMMA LogTypeHandInv ==
  ASSUME LibInv, HandInv, Lib!LogType
  PROVE  HandedInv(lib_pc, unmatched', exposed_funcs, lib_funcs, lib_types')
<1>1. lib_pc \in {"libSpecReader", "fuzzHelperLogger"} /\ unmatched \subseteq Source(lib_pc)
  BY DEF Lib!LogType, LibInv
<1>2. PICK d \in unmatched : /\ ~Lib!IsFunction(d) /\ unmatched' = unmatched \ {d}
                            /\ lib_types' = Append(lib_types, Lib!TypeName(d))
  BY DEF Lib!LogType
<1>3. Functions(Source(lib_pc) \ unmatched') = Functions(Source(lib_pc) \ unmatched)
  BY <1>2 DEF Functions
<1>4. Lib!TypeName(d) \in Seq(Nat)
  <2>1. d \in Lib!Declarations
    BY <1>1, <1>2, LibraryFacts DEF HandInv
  <2>2. d.name \in Nat /\ d.ns \in Nat
    BY <2>1 DEF Lib!Declarations
  <2>3. <<d.name>> \in Seq(Nat) /\ <<d.ns, d.name>> \in Seq(Nat)
    BY <2>2
  <2> QED
    BY <2>3 DEF Lib!TypeName
<1>5. lib_types \in Seq(Seq(Nat)) /\ lib_types' \in Seq(Seq(Nat))
  BY <1>2, <1>4 DEF HandInv, HandedInv
<1>6. /\ \A k \in DOMAIN lib_types : k \in DOMAIN lib_types' /\ lib_types'[k] = lib_types[k]
      /\ \E k \in DOMAIN lib_types' : lib_types'[k] = Lib!TypeName(d)
  <2> DEFINE t == Lib!TypeName(d)
             ts == lib_types
  <2>1. t \in Seq(Nat) /\ ts \in Seq(Seq(Nat)) /\ lib_types' = Append(ts, t)
    BY <1>2, <1>4, <1>5
  <2> HIDE DEF t, ts
  <2>2. /\ \A k \in DOMAIN ts : k \in DOMAIN Append(ts, t) /\ Append(ts, t)[k] = ts[k]
        /\ Len(ts) + 1 \in DOMAIN Append(ts, t) /\ Append(ts, t)[Len(ts) + 1] = t
    BY <2>1
  <2> QED
    BY <2>1, <2>2 DEF t, ts
<1>7. ASSUME NEW S, TypesListed(S \ unmatched, lib_types)
      PROVE  TypesListed(S \ unmatched', lib_types')
  <2> SUFFICES ASSUME NEW e \in (S \ unmatched') \ Functions(S \ unmatched')
               PROVE  \E k \in DOMAIN lib_types' : lib_types'[k] = Lib!TypeName(e)
    BY DEF TypesListed
  <2>1. CASE e = d
    BY <1>6, <2>1
  <2>2. CASE e # d
    <3>1. e \in (S \ unmatched) \ Functions(S \ unmatched)
      BY <1>2, <2>2 DEF Functions
    <3>2. PICK k \in DOMAIN lib_types : lib_types[k] = Lib!TypeName(e)
      BY <1>7, <3>1 DEF TypesListed
    <3> QED
      BY <1>6, <3>2
  <2> QED
    BY <2>1, <2>2
<1>8. ASSUME NEW S, TypesListed(S, lib_types) PROVE TypesListed(S, lib_types')
  BY <1>6, <1>8 DEF TypesListed
<1>9. ASSUME Collected(lib_pc, Source(lib_pc) \ unmatched, exposed_funcs)
      PROVE  Collected(lib_pc, Source(lib_pc) \ unmatched', exposed_funcs)
  BY <1>3, <1>9 DEF Collected
<1> QED
  BY <1>1, <1>5, <1>7, <1>8, <1>9 DEF HandInv, HandedInv

LEMMA AddHandInv ==
  ASSUME MarkedAlike, LibInv, HandInv, Lib!AddExposedFuncs
  PROVE  HandedInv(lib_pc', unmatched', exposed_funcs', lib_funcs', lib_types)
<1> DEFINE new == Lib!SetToSeq(exposed_funcs)
<1>1. /\ lib_pc \in {"libSpecReader", "fuzzHelperLogger"} /\ unmatched = {}
      /\ lib_funcs' = lib_funcs \o new /\ exposed_funcs' = {}
  BY DEF Lib!AddExposedFuncs, Lib!Cleared
<1>2. Source(lib_pc) \ unmatched = Source(lib_pc) /\ \A S : S \ unmatched = S
  BY <1>1
<1>3. Collected(lib_pc, Source(lib_pc), exposed_funcs)
  BY <1>1, <1>2 DEF HandInv, HandedInv
<1>4. /\ new \in Seq(Entries) /\ Len(new) = Cardinality(Identities(Source(lib_pc)))
      /\ AllHanded(lib_pc, Source(lib_pc), new)
  BY <1>1, <1>3, CollectedHandedOver DEF HandInv, AllHanded
<1>5. lib_funcs \in Seq(Entries) /\ lib_types \in Seq(Seq(Nat))
  BY DEF HandInv, HandedInv
<1> HIDE DEF new
<1>6. lib_funcs' \in Seq(Entries) /\ Len(lib_funcs') = Len(lib_funcs) + Len(new)
  <2> DEFINE old == lib_funcs
             T == Entries
  <2>1. old \in Seq(T) /\ new \in Seq(T) /\ lib_funcs' = old \o new
    BY <1>1, <1>4, <1>5
  <2> HIDE DEF old, T
  <2>2. old \o new \in Seq(T) /\ Len(old \o new) = Len(old) + Len(new)
    BY <2>1
  <2> QED
    BY <2>1, <2>2 DEF old, T
<1>7. \A pass, S : AllHanded(pass, S, lib_funcs) \/ AllHanded(pass, S, new)
                     => AllHanded(pass, S, lib_funcs')
  BY <1>1, <1>4, <1>5, HandedStays DEF AllHanded
<1>8. CASE lib_pc = "libSpecReader"
  <2>1. /\ lib_pc' = "fuzzHelperLogger" /\ unmatched' = library.helpers
        /\ Source(lib_pc) = library.headers
    BY <1>8 DEF Lib!AddExposedFuncs, Source
  <2>2. Source("fuzzHelperLogger") \ unmatched' = {} /\ library.helpers \ unmatched' = {}
    BY <2>1 DEF Source
  <2>3. Functions({}) = {}
    BY DEF Functions
  <2>4. Collected("fuzzHelperLogger", {}, {}) /\ TypesListed({}, lib_types)
    BY <2>3 DEF Collected, TypesListed
  <2>5. lib_funcs = <<>> /\ TypesListed(library.headers, lib_types)
    BY <1>2, <1>8 DEF HandInv, HandedInv
  <2>6. Len(lib_funcs') = Cardinality(Identities(library.headers))
    <3>1. Len(lib_funcs) = 0 /\ Len(new) \in Nat
      BY <1>4, <2>5
    <3> QED
      BY <1>4, <1>6, <2>1, <3>1
  <2>7. AllHanded("libSpecReader", library.headers, lib_funcs')
    <3>1. AllHanded("libSpecReader", library.headers, new)
      BY <1>4, <1>8, <2>1
    <3> QED
      BY <1>7, <3>1
  <2> QED
    BY <1>1, <1>5, <1>6, <2>1, <2>2, <2>4, <2>5, <2>6, <2>7 DEF HandedInv
<1>9. CASE lib_pc = "fuzzHelperLogger"
  <2>1. lib_pc' = "read" /\ Source(lib_pc) = library.helpers
    BY <1>9 DEF Lib!AddExposedFuncs, Source
  <2>2. /\ AllHanded("libSpecReader", library.headers, lib_funcs)
        /\ Len(lib_funcs) = Cardinality(Identities(library.headers))
        /\ TypesListed(library.headers, lib_types) /\ TypesListed(library.helpers, lib_types)
    BY <1>2, <1>9 DEF HandInv, HandedInv
  <2>3. /\ AllHanded("libSpecReader", library.headers, lib_funcs')
        /\ AllHanded("fuzzHelperLogger", library.helpers, lib_funcs')
    <3>1. AllHanded("fuzzHelperLogger", library.helpers, new)
      BY <1>4, <1>9, <2>1
    <3>2. AllHanded("libSpecReader", library.headers, lib_funcs)
      BY <2>2
    <3> QED
      BY <1>7, <3>1, <3>2
  <2>4. Len(lib_funcs') = Cardinality(Identities(library.headers))
                            + Cardinality(Identities(library.helpers))
    BY <1>4, <1>6, <2>1, <2>2
  <2> QED
    BY <1>5, <1>6, <2>1, <2>2, <2>3, <2>4 DEF HandedInv
<1> QED
  BY <1>1, <1>8, <1>9

LEMMA NextHandInv ==
  ASSUME MarkedAlike, ToldApart, OrderedIfRepeated
  PROVE  LibInv /\ HandInv /\ [Next]_vars => HandInv'
<1> SUFFICES ASSUME LibInv, HandInv, [Next]_vars PROVE HandInv'
  OBVIOUS
<1>1. library' = library
  BY DEF Next, ReadLibrary, ReadRelations, StitchHelpers, ReplaceCalls, Lib!Next, Lib!LogFunction,
         Lib!LogType, Lib!Abort, Lib!AddExposedFuncs, vars, lib_vars
<1>2. SUFFICES HandedInv(lib_pc', unmatched', exposed_funcs', lib_funcs', lib_types')
  BY <1>1 DEF HandInv, HandedInv, Source, Collected, TypesListed, AllHanded
<1>3. CASE UNCHANGED lib_vars
  BY <1>3 DEF HandInv, lib_vars
<1>4. CASE Lib!LogFunction
  BY <1>4, LogFunctionHandInv DEF Lib!LogFunction
<1>5. CASE Lib!LogType
  BY <1>5, LogTypeHandInv DEF Lib!LogType
<1>6. CASE Lib!Abort
  BY <1>6 DEF HandInv, HandedInv, Lib!Abort
<1>7. CASE Lib!AddExposedFuncs
  BY <1>7, AddHandInv DEF Lib!AddExposedFuncs
<1> QED
  BY <1>3, <1>4, <1>5, <1>6, <1>7
     DEF Next, ReadLibrary, ReadRelations, ReplaceCalls, StitchHelpers, Lib!Next, vars

(* The functions exposed and the helpers are handed over to the fuzzer     *)
(* library once each, with their marks, and so are the types, in whatever  *)
(* order the matchers report them and however often a function is declared *)
(* (addExposedFuncs and ExposedFuncDecl::compare of libSpecReader.cpp).    *)
THEOREM FunctionsHandedOverOnce ==
  ASSUME MarkedAlike, ToldApart, OrderedIfRepeated
  PROVE  Spec => []EachHandedOverOnce
<1>1. HandInv => EachHandedOverOnce
  <2> SUFFICES ASSUME HandInv, lib_pc = "read"
               PROVE  Lib!EachHandedOverOnce
    BY DEF EachHandedOverOnce, Lib!EachHandedOverOnce
  <2> DEFINE all == library.headers \cup library.helpers
             functions == {d \in all : Lib!IsFunction(d)}
             H == Identities(library.headers)
             P == Identities(library.helpers)
  <2>1. /\ AllHanded("libSpecReader", library.headers, lib_funcs) /\ AllHanded("fuzzHelperLogger", library.helpers, lib_funcs)
        /\ Len(lib_funcs) = Cardinality(H) + Cardinality(P)
        /\ TypesListed(library.headers, lib_types) /\ TypesListed(library.helpers, lib_types)
    BY DEF HandInv, HandedInv
  <2>2. \A d \in functions : Lib!HandedOver(d)
    <3>1. \A d \in functions :
            Handed(IF d \in library.headers THEN "libSpecReader" ELSE "fuzzHelperLogger", d, lib_funcs)
      BY <2>1 DEF AllHanded, Functions
    <3>2. \A d : Lib!EntryOf(d).name = Lib!Entry("libSpecReader", d).name
      BY DEF Lib!EntryOf, Lib!Entry
    <3> QED
      BY <3>1, <3>2 DEF Handed, Lib!HandedOver
  <2>3. {Lib!Identity(d) : d \in functions} = H \cup P
    BY DEF Identities, Functions
  <2>4. IsFiniteSet(H) /\ IsFiniteSet(P)
    BY IdentitiesFinite DEF HandInv, Source
  <2>5. H \cap P = {}
    BY DEF ToldApart, HandInv
  <2>6. Cardinality(H \cup P) = Cardinality(H) + Cardinality(P)
    <3> HIDE DEF H, P
    <3>1. Cardinality(H) \in Nat /\ Cardinality(P) \in Nat
      BY <2>4, FS_CardinalityType
    <3>2. Cardinality(H \cup P) = Cardinality(H) + Cardinality(P) - Cardinality(H \cap P)
      BY <2>4, FS_Union
    <3>3. Cardinality(H \cap P) = 0
      BY <2>5, FS_EmptySet
    <3> QED
      BY <3>1, <3>2, <3>3
  <2>7. Len(lib_funcs) = Lib!Cardinality({Lib!Identity(d) : d \in functions})
    <3>1. Lib!Cardinality(H \cup P) = Cardinality(H \cup P)
      BY DEF Lib!Cardinality, Cardinality
    <3> QED
      BY <2>1, <2>3, <2>6, <3>1
  <2>8. \A d \in all \ functions : \E k \in DOMAIN lib_types : lib_types[k] = Lib!TypeName(d)
    BY <2>1 DEF TypesListed, Functions
  <2> QED
    BY <2>2, <2>7, <2>8 DEF Lib!EachHandedOverOnce
<1>2. Init => HandInv /\ LibInv
  BY InitHandInv, InitLibInv
<1>3. LibInv /\ HandInv /\ [Next]_vars => LibInv' /\ HandInv'
  BY NextHandInv, NextLibInv
<1> QED
  BY <1>1, <1>2, <1>3, PTL DEF Spec

=============================================================================
