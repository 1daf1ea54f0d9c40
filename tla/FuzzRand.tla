------------------------------ MODULE FuzzRand ------------------------------
(***************************************************************************)
(* Pass 7, parseFuzzerCalls (src/src/parseFuzzerCalls.cpp): every call of  *)
(* fuzz::fuzz_rand is replaced by a literal drawn between the bounds that  *)
(* its arguments give.  MaxInt and MaxByte are the largest int and byte of *)
(* the program.  A double is a whole number of Fractions, the least        *)
(* difference of two literals of the source, of which there are Printed in *)
(* the last decimal that std::to_string writes.                            *)
(*                                                                         *)
(* An argument is a literal, which has no sign, or a constant expression,  *)
(* below at most one minus and one implicit cast.                          *)
(***************************************************************************)
EXTENDS Integers, SequencesExt

CONSTANTS CallLists, MaxInt, MaxByte, Fractions, Printed

Arguments == [outer : STRING, node : STRING, val : Int]
Calls == [callee : STRING, type : STRING, args : Seq(Arguments)]

FuzzRandAssumption ==
  /\ {MaxInt, MaxByte, Fractions, Printed} \subseteq Nat \ {0}
  /\ Fractions % Printed = 0 /\ MaxByte <= MaxInt
  /\ \A calls \in CallLists :
       /\ calls \in Seq(Calls)
       /\ \A k \in DOMAIN calls : \A a \in DOMAIN calls[k].args :
            calls[k].args[a].node # "binary" => calls[k].args[a].val >= 0

MaxDouble == 2 * Fractions * MaxInt

(* Two's complement.                                                       *)
Wrap(n) == ((n + MaxInt + 1) % (2 * (MaxInt + 1))) - (MaxInt + 1)

VARIABLES
  fuzzer_calls,    \* the calls of functions of namespace fuzz, as located
  next,
  pc,
  replaced         \* what stands in the place of each: "kept", or a number

vars == <<fuzzer_calls, next, pc, replaced>>

Start ==
  /\ next = 1
  /\ pc = "replace"
  /\ replaced = <<>>

Init == fuzzer_calls \in CallLists /\ Start

call == fuzzer_calls[next]

-----------------------------------------------------------------------------

SignedNever(arg, n) == n
Signed(arg, n) == IF arg.outer = "minus" THEN -n ELSE n

(* getIntFromClangExpr: a minus or a cast above a literal, or an operator, *)
(* which under a minus would be in parentheses, and those are refused.     *)
IsInt(arg) ==
  \/ arg.node = "int" /\ arg.outer \in {"none", "minus", "cast"}
  \/ arg.node = "binary" /\ arg.outer \in {"none", "cast"}

IntOf(arg) == Wrap(Signed(arg, Wrap(arg.val)))

(* getDoubleFromClangExpr: casts are looked through, under the minus only. *)
IsDouble(arg) == arg.outer \in {"none", "minus", "cast"} /\ arg.node \in {"int", "fp"}
DoubleOf(arg) ==
  Signed(arg, IF arg.node = "int" THEN arg.val * Fractions ELSE arg.val)

(* static_cast<uint8_t> of a double drops the fraction; a value that does  *)
(* not fit is undefined behaviour.                                         *)
Bytes(d) ==
  LET n == IF d >= 0 THEN d \div Fractions ELSE -((-d) \div Fractions)
  IN  IF n \in 0 .. MaxByte THEN {n} ELSE 0 .. MaxByte

Readable(arg) == IF call.type \in {"int", "unsigned int"} THEN IsInt(arg) ELSE IsDouble(arg)

BoundsOf(arg) ==
  IF call.type \in {"int", "unsigned int"} THEN {IntOf(arg)}
  ELSE IF call.type = "double" THEN {DoubleOf(arg)}
  ELSE Bytes(DoubleOf(arg))

DefaultMax ==
  IF call.type \in {"int", "unsigned int"} THEN MaxInt
  ELSE IF call.type = "double" THEN MaxDouble
  ELSE MaxByte

(* generateRand is of the fuzzer library: any value of the interval, and   *)
(* any value at all when the interval is empty.                            *)
generateRand(min, max) == IF min <= max THEN min .. max ELSE -DefaultMax - 1 .. DefaultMax

(* std::to_string of a double keeps a fixed number of decimals.            *)
Text(v) ==
  IF call.type # "double" THEN v
  ELSE ((v + Printed \div 2) \div Printed) * Printed

(* `assert(std::next(it) == ce->arg_end())` after at most one step.        *)
IsArity == Len(call.args) \in {0, 2}

IsCovered == call.type \in {"int", "double", "basic_string", "unsigned int"}

Accepted == IsCovered /\ IsArity /\ \A a \in DOMAIN call.args : Readable(call.args[a])

Minima == IF call.args = <<>> THEN {0} ELSE BoundsOf(call.args[1])
Maxima == IF call.args = <<>> THEN {DefaultMax} ELSE BoundsOf(call.args[2])

Replace ==
  /\ pc = "replace" /\ next \in DOMAIN fuzzer_calls
  /\ call.callee = "fuzz_rand"
  /\ Accepted
  /\ \E min \in Minima, max \in Maxima :
       /\ call.type = "unsigned int" => min >= 0 /\ max >= 0
       /\ \E v \in generateRand(min, max) : replaced' = Append(replaced, Text(v))
  /\ next' = next + 1
  /\ UNCHANGED <<fuzzer_calls, pc>>

SkipOther ==
  /\ pc = "replace" /\ next \in DOMAIN fuzzer_calls
  /\ call.callee # "fuzz_rand"
  /\ replaced' = Append(replaced, "kept")
  /\ next' = next + 1
  /\ UNCHANGED <<fuzzer_calls, pc>>

Abort ==
  /\ pc = "replace" /\ next \in DOMAIN fuzzer_calls
  /\ call.callee = "fuzz_rand"
  /\ \/ ~Accepted
     \/ /\ Accepted /\ call.type = "unsigned int"
        /\ \E min \in Minima, max \in Maxima : min < 0 \/ max < 0
  /\ pc' = "aborted"
  /\ UNCHANGED <<fuzzer_calls, next, replaced>>

Write ==
  /\ pc = "replace" /\ next = Len(fuzzer_calls) + 1
  /\ pc' = "written"
  /\ UNCHANGED <<fuzzer_calls, next, replaced>>

Next ==
  \/ Replace
  \/ SkipOther
  \/ Abort
  \/ Write

Spec == Init /\ [][Next]_vars

-----------------------------------------------------------------------------

TypeOK ==
  /\ pc \in {"replace", "aborted", "written"}
  /\ next \in 1 .. Len(fuzzer_calls) + 1
  /\ Len(replaced) = next - 1
  /\ \A k \in DOMAIN replaced :
       IF fuzzer_calls[k].callee = "fuzz_rand"
       THEN fuzzer_calls[k].type # "double" => replaced[k] \in -MaxInt - 1 .. MaxInt
       ELSE replaced[k] = "kept"

(* The number that the source writes, in the units of its type.            *)
Meant(type, arg) ==
  LET n == IF type = "double" /\ arg.node = "int" THEN arg.val * Fractions
           ELSE IF type = "basic_string" /\ arg.node = "fp" THEN arg.val \div Fractions
           ELSE arg.val
  IN  IF arg.outer = "minus" THEN -n ELSE n

Fits(type, n) ==
  IF type = "basic_string" THEN n \in 0 .. MaxByte
  ELSE IF type = "double" THEN n % Printed = 0
  ELSE n \in -MaxInt - 1 .. MaxInt

(* What stands in the place of a call lies between the bounds written in   *)
(* the source, signs and casts included, provided that they are in order,  *)
(* fit the type and can be printed; without bounds it is not negative.     *)
WithinBounds ==
  \A k \in DOMAIN replaced :
    LET c == fuzzer_calls[k]
    IN  c.callee = "fuzz_rand" =>
          IF c.args = <<>> THEN replaced[k] >= 0
          ELSE LET min == Meant(c.type, c.args[1])
                   max == Meant(c.type, c.args[2])
               IN  Fits(c.type, min) /\ Fits(c.type, max) /\ min <= max
                     => replaced[k] \in min .. max
=============================================================================
