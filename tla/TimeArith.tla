------------------------------- MODULE TimeArith -------------------------------
(*****************************************************************************)
(* The arithmetic of arith.c on TimeInternal, a pair of signed seconds and   *)
(* nanoseconds. The number of nanoseconds in a second and the widths of the  *)
(* machine words are parameters, so that carries, borrows and the wrap of    *)
(* divTime() come within reach of small instances.                           *)
(*****************************************************************************)
EXTENDS Integers

CONSTANTS
    Billion,           \* nanoseconds in a second
    Word32, Word64     \* 2^32 and 2^64

ASSUME BillionAssumption == Billion \in Nat \ {0, 1}
ASSUME WordAssumption == Word32 \in Nat \ {0} /\ Word64 \in Nat \ {0}

TimeInternal == [seconds : Int, nanoseconds : Int]
Time(s, ns)  == [seconds |-> s, nanoseconds |-> ns]

(* The time in nanoseconds.                                                  *)
Value(t) == t.seconds * Billion + t.nanoseconds

Abs(a) == IF a < 0 THEN -a ELSE a

(* Division in C truncates towards zero; b is positive.                      *)
Quot(a, b) == IF a < 0 THEN -((-a) \div b) ELSE a \div b
Rem(a, b)  == a - Quot(a, b) * b

(* What a number becomes in a signed 32 bit field.                           *)
Signed32(a) ==
    LET w == a % Word32 IN IF 2 * w < Word32 THEN w ELSE w - Word32

(* Mutant: a borrow is made for positive seconds only.                       *)
normalizeTimeOneSided(r) ==
    LET s  == r.seconds + Quot(r.nanoseconds, Billion)
        ns == Rem(r.nanoseconds, Billion)
    IN  IF s > 0 /\ ns < 0 THEN Time(s - 1, ns + Billion) ELSE Time(s, ns)

(* Less than a second of nanoseconds, of the sign of the seconds.            *)
normalizeTime(r) ==
    LET s  == r.seconds + Quot(r.nanoseconds, Billion)
        ns == Rem(r.nanoseconds, Billion)
    IN  IF s > 0 /\ ns < 0 THEN Time(s - 1, ns + Billion)
        ELSE IF s < 0 /\ ns > 0 THEN Time(s + 1, ns - Billion)
        ELSE Time(s, ns)

addTime(x, y) ==
    normalizeTime(Time(x.seconds + y.seconds, x.nanoseconds + y.nanoseconds))
subTime(x, y) ==
    normalizeTime(Time(x.seconds - y.seconds, x.nanoseconds - y.nanoseconds))

(* The dividend is unsigned: a negative time wraps around.                   *)
divTime(r, divisor) ==
    IF divisor <= 0 THEN r
    ELSE LET ns == (Value(r) % Word64) \div divisor
         IN  Time(Signed32(ns \div Billion), ns % Billion)

(* What normalizeTime() establishes.                                         *)
IsNormal(t) ==
    /\ Abs(t.nanoseconds) < Billion
    /\ t.seconds > 0 => t.nanoseconds >= 0
    /\ t.seconds < 0 => t.nanoseconds <= 0
================================================================================
