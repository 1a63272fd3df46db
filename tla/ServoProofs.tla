------------------------------- MODULE ServoProofs -------------------------------
(*****************************************************************************)
(* The arithmetic of times and the servo, for any second, any machine words, *)
(* any options and any world.                                                *)
(*****************************************************************************)
EXTENDS Servo, TLAPS, WellFoundedInduction

-------------------------------------------------------------------------------
(* Arithmetic                                                                *)

(* Division rounds towards zero.                                             *)
LEMMA QuotBounds ==
    ASSUME NEW a \in Int, NEW b \in Nat \ {0}
    PROVE  /\ Quot(a, b) \in Int
           /\ a >= 0 => Quot(a, b) >= 0 /\ b * Quot(a, b) <= a /\ a < b * Quot(a, b) + b
           /\ a <= 0 => Quot(a, b) <= 0 /\ b * Quot(a, b) >= a /\ a > b * Quot(a, b) - b
<1>1. \A c \in Nat : c \div b \in Nat /\ b * (c \div b) <= c /\ c < b * (c \div b) + b
  BY SMT
<1>2. CASE a >= 0
  <2>1. a \in Nat /\ Quot(a, b) = a \div b
    BY <1>2 DEF Quot
  <2>2. a = 0 => a \div b = 0
    BY SMT
  <2>3. QED
    BY <2>1, <2>2, <1>1
<1>3. CASE a < 0
  <2>1. -a \in Nat /\ Quot(a, b) = -((-a) \div b)
    BY <1>3 DEF Quot
  <2>2. QED
    BY <2>1, <1>1, <1>3
<1>4. QED
  BY <1>2, <1>3

(* normalizeTime() keeps the time and gives it the normal form.              *)
THEOREM NormalizeTimeCorrect ==
    ASSUME NEW r \in TimeInternal
    PROVE  /\ normalizeTime(r) \in TimeInternal
           /\ IsNormal(normalizeTime(r))
           /\ Value(normalizeTime(r)) = Value(r)
<1> DEFINE q == Quot(r.nanoseconds, Billion)
           s == r.seconds + q
           ns == r.nanoseconds - q * Billion
<1>1. /\ r.seconds \in Int /\ r.nanoseconds \in Int
      /\ Billion \in Nat \ {0} /\ Billion > 1
  BY BillionAssumption DEF TimeInternal
<1>2. /\ q \in Int
      /\ r.nanoseconds >= 0 => q >= 0 /\ Billion * q <= r.nanoseconds
                               /\ r.nanoseconds < Billion * q + Billion
      /\ r.nanoseconds <= 0 => q <= 0 /\ Billion * q >= r.nanoseconds
                               /\ r.nanoseconds > Billion * q - Billion
  BY <1>1, QuotBounds, Zenon
<1>3. s \in Int /\ ns \in Int /\ -Billion < ns /\ ns < Billion
  BY <1>1, <1>2
<1>4. s * Billion + ns = r.seconds * Billion + r.nanoseconds
  BY <1>1, <1>2
<1> HIDE DEF q, s, ns
<1>5. normalizeTime(r) = IF s > 0 /\ ns < 0 THEN Time(s - 1, ns + Billion)
                         ELSE IF s < 0 /\ ns > 0 THEN Time(s + 1, ns - Billion)
                         ELSE Time(s, ns)
  BY Zenon DEF normalizeTime, Rem, q, s, ns
<1>6. CASE s > 0 /\ ns < 0
  BY <1>1, <1>3, <1>4, <1>5, <1>6 DEF Time, TimeInternal, IsNormal, Abs, Value
<1>7. CASE ~(s > 0 /\ ns < 0) /\ s < 0 /\ ns > 0
  BY <1>1, <1>3, <1>4, <1>5, <1>7 DEF Time, TimeInternal, IsNormal, Abs, Value
<1>8. CASE ~(s > 0 /\ ns < 0) /\ ~(s < 0 /\ ns > 0)
  BY <1>1, <1>3, <1>4, <1>5, <1>8 DEF Time, TimeInternal, IsNormal, Abs, Value
<1>9. QED
  BY <1>6, <1>7, <1>8

(* Sums and differences are exact, and normal whatever their operands.       *)
THEOREM SumsAreExact ==
    ASSUME NEW x \in TimeInternal, NEW y \in TimeInternal
    PROVE  /\ addTime(x, y) \in TimeInternal /\ subTime(x, y) \in TimeInternal
           /\ IsNormal(addTime(x, y)) /\ IsNormal(subTime(x, y))
           /\ Value(addTime(x, y)) = Value(x) + Value(y)
           /\ Value(subTime(x, y)) = Value(x) - Value(y)
<1> DEFINE a == Time(x.seconds + y.seconds, x.nanoseconds + y.nanoseconds)
           d == Time(x.seconds - y.seconds, x.nanoseconds - y.nanoseconds)
<1>1. a \in TimeInternal /\ d \in TimeInternal
  BY DEF Time, TimeInternal
<1>2. Value(a) = Value(x) + Value(y) /\ Value(d) = Value(x) - Value(y)
  BY BillionAssumption DEF Time, TimeInternal, Value
<1>3. addTime(x, y) = normalizeTime(a) /\ subTime(x, y) = normalizeTime(d)
  BY DEF addTime, subTime
<1> HIDE DEF a, d
<1>4. QED
  BY <1>1, <1>2, <1>3, NormalizeTimeCorrect

(* ToTime() of the world's nanoseconds.                                      *)
LEMMA ToTimeIsExact ==
    ASSUME NEW n \in Int
    PROVE  ToTime(n) \in TimeInternal /\ Value(ToTime(n)) = n
<1>1. Billion \in Nat /\ Billion > 0
  BY BillionAssumption
<1>2. n \div Billion \in Int /\ n % Billion \in Int
      /\ n = Billion * (n \div Billion) + (n % Billion)
  BY <1>1, SMT
<1>3. QED
  BY <1>1, <1>2 DEF ToTime, Time, TimeInternal, Value

-------------------------------------------------------------------------------
(* The delay filter                                                          *)

(* An Integer32 holds the nanoseconds of a second.                           *)
WidthFits == Billion <= 2 ^ IntBits

LEMMA MaximumExists ==
    ASSUME NEW n \in Nat, NEW T, T \subseteq 0 .. n, T # {}
    PROVE  \E m \in T : \A k \in T : k <= m
<1> DEFINE U == {j \in 0 .. n : n - j \in T}
<1>1. U \subseteq Nat /\ \A k \in T : n - k \in U
  <2>1. \A k \in T : k \in 0 .. n /\ n - k \in 0 .. n /\ n - (n - k) = k
    BY SMT
  <2>2. QED
    BY <2>1
<1>2. U # {}
  BY <1>1
<1>3. PICK x \in U : \A y \in U : ~(<<y, x>> \in OpToRel(<, Nat))
  BY <1>1, <1>2, NatLessThanWellFounded, WFMin, Zenon
<1>4. \A y \in U : ~(y < x)
  <2>1. SUFFICES ASSUME NEW y \in U, y < x PROVE FALSE
    OBVIOUS
  <2>2. y \in Nat /\ x \in Nat /\ <<y, x>>[1] = y /\ <<y, x>>[2] = x
    BY <1>1
  <2>3. <<y, x>> \in OpToRel(<, Nat)
    BY <2>1, <2>2 DEF OpToRel
  <2>4. QED
    BY <1>3, <2>3
<1>5. n - x \in T /\ x \in 0 .. n
  OBVIOUS
<1>6. \A k \in T : k <= n - x
  <2>1. SUFFICES ASSUME NEW k \in T PROVE k <= n - x
    OBVIOUS
  <2>2. ~(n - k < x) /\ k \in 0 .. n
    BY <1>1, <1>4
  <2>3. QED
    BY <1>5, <2>2
<1>7. QED
  BY <1>5, <1>6

(* There is a stiffness that leaves the sign bit alone.                      *)
LEMMA StiffnessExists ==
    ASSUME rtOpts \in RunTimeOpts, NEW y \in Int, Abs(y) < 2 ^ IntBits
    PROVE  /\ Stiffness(y) \in 0 .. rtOpts.s
           /\ Abs(y) < 2 ^ (IntBits - Stiffness(y))
<1> DEFINE T == {k \in 0 .. rtOpts.s : Abs(y) < 2 ^ (IntBits - k)}
           Good(s) == /\ Abs(y) < 2 ^ (IntBits - s)
                      /\ s = rtOpts.s \/ Abs(y) >= 2 ^ (IntBits - s - 1)
<1>1. rtOpts.s \in 0 .. IntBits /\ IntBits \in Nat
  BY OptionsAssumption DEF RunTimeOpts
<1>2. 0 \in T
  <2>1. IntBits - 0 = IntBits
    BY <1>1
  <2>2. QED
    BY <1>1, <2>1
<1>3. PICK m \in T : \A k \in T : k <= m
  <2>1. rtOpts.s \in Nat /\ T \subseteq 0 .. rtOpts.s /\ T # {}
    BY <1>1, <1>2
  <2> HIDE DEF T
  <2>2. QED
    BY <2>1, MaximumExists, Zenon
<1>4. m \in 0 .. rtOpts.s /\ Abs(y) < 2 ^ (IntBits - m)
  OBVIOUS
<1>5. m = rtOpts.s \/ Abs(y) >= 2 ^ (IntBits - m - 1)
  <2>1. SUFFICES ASSUME m # rtOpts.s PROVE Abs(y) >= 2 ^ (IntBits - m - 1)
    OBVIOUS
  <2>2. m + 1 \in 0 .. rtOpts.s /\ m + 1 \notin T
    BY <1>1, <1>3, <1>4, <2>1
  <2>3. ~(Abs(y) < 2 ^ (IntBits - (m + 1)))
    BY <2>2
  <2>4. IntBits - (m + 1) = IntBits - m - 1 /\ IntBits - m - 1 \in 0 .. IntBits
    BY <1>1, <1>4, <2>2
  <2>5. 2 ^ (IntBits - m - 1) \in Nat
    BY <2>4, PowersOfTwo
  <2>6. Abs(y) \in Int
    BY DEF Abs
  <2>7. QED
    BY <2>3, <2>4, <2>5, <2>6
<1>6. \E s \in 0 .. rtOpts.s : Good(s)
  BY <1>4, <1>5
<1>7. Stiffness(y) = CHOOSE s \in 0 .. rtOpts.s : Good(s)
  BY DEF Stiffness
<1>8. Stiffness(y) \in 0 .. rtOpts.s /\ Good(Stiffness(y))
  BY <1>6, <1>7, Zenon
<1>9. QED
  BY <1>8

(* The exponent grows up to the power of the stiffness.                      *)
LEMMA NextExpBounds ==
    ASSUME NEW e \in Nat, NEW s \in 0 .. IntBits
    PROVE  NextExp(e, s) \in 1 .. 2 ^ s
  BY PowersOfTwo DEF NextExp

(* A weighted mean leaves no interval around zero, and no interval above it. *)
LEMMA WeightedMean ==
    ASSUME NEW e \in Nat \ {0}, NEW L \in Nat, NEW y \in Int, NEW h \in Int,
           Abs(y) <= L, Abs(h) <= L
    PROVE  LET m == Quot((e - 1) * y, e) + Quot(h, e)
           IN  /\ m \in Int /\ Abs(m) <= L
               /\ y >= 0 /\ h >= 0 => m >= 0
<1> DEFINE a == (e - 1) * y
           u == Quot(a, e)
           v == Quot(h, e)
<1>1. a \in Int /\ (y >= 0 => a >= 0) /\ (y <= 0 => a <= 0)
  BY SMT
<1>2. a <= (e - 1) * L /\ -a <= (e - 1) * L
  <2>1. y <= L /\ -y <= L /\ e - 1 \in Nat
    BY DEF Abs
  <2>2. \A c \in Nat, w \in Int : w <= L => c * w <= c * L
    BY SMT
  <2>3. (e - 1) * (-y) = -a
    BY SMT
  <2>4. QED
    BY <2>1, <2>2, <2>3
<1>3. /\ u \in Int
      /\ a >= 0 => u >= 0 /\ e * u <= a
      /\ a <= 0 => u <= 0 /\ e * u >= a
  BY <1>1, QuotBounds, Zenon
<1>4. /\ v \in Int
      /\ h >= 0 => v >= 0 /\ e * v <= h
      /\ h <= 0 => v <= 0 /\ e * v >= h
  BY QuotBounds, Zenon
<1>5. h <= L /\ -h <= L
  BY DEF Abs
<1> HIDE DEF a, u, v
<1>6. e * u <= (e - 1) * L /\ e * (-u) <= (e - 1) * L
  <2>1. (e - 1) * L >= 0 /\ e * (-u) = -(e * u) /\ (u <= 0 => e * u <= 0)
        /\ (u >= 0 => e * u >= 0) /\ e * u \in Int /\ (e - 1) * L \in Int
    BY <1>3
  <2>2. QED
    BY <1>1, <1>2, <1>3, <2>1
<1>7. e * v <= L /\ e * (-v) <= L
  <2>1. e * (-v) = -(e * v) /\ (v <= 0 => e * v <= 0)
        /\ (v >= 0 => e * v >= 0) /\ e * v \in Int
    BY <1>4
  <2>2. QED
    BY <1>4, <1>5, <2>1
<1>8. e * (u + v) <= e * L /\ e * (-(u + v)) <= e * L
  BY <1>3, <1>4, <1>6, <1>7
<1>9. \A w \in Int : e * w <= e * L => w <= L
  BY SMT
<1>10. u + v <= L /\ -(u + v) <= L
  BY <1>3, <1>4, <1>8, <1>9
<1>11. QED
  BY <1>1, <1>3, <1>4, <1>10 DEF Abs, a, u, v

(* Half of a number, rounded towards zero.                                   *)
HalfWithin(a, L) ==
    /\ Quot(a, 2) \in Int
    /\ 2 * Quot(a, 2) <= L /\ 2 * Quot(a, 2) >= -L
    /\ a >= 0 => Quot(a, 2) >= 0
LEMMA HalfBounds ==
    ASSUME NEW a \in Int, NEW L \in Nat, Abs(a) <= L
    PROVE  HalfWithin(a, L)
<1>1. 2 \in Nat \ {0}
  OBVIOUS
<1>2. /\ Quot(a, 2) \in Int
      /\ a >= 0 => Quot(a, 2) >= 0 /\ 2 * Quot(a, 2) <= a /\ a < 2 * Quot(a, 2) + 2
      /\ a <= 0 => Quot(a, 2) <= 0 /\ 2 * Quot(a, 2) >= a /\ a > 2 * Quot(a, 2) - 2
  BY <1>1, QuotBounds, Zenon
<1>3. QED
  BY <1>2 DEF Abs, HalfWithin

(* What the filter makes of a sample stays within the bound of its state and *)
(* of the sample, for any bound that fits the machine word.                  *)
LEMMA FilteredBounds ==
    ASSUME rtOpts \in RunTimeOpts, NEW L \in Nat, L < 2 ^ IntBits,
           NEW f \in [nsec_prev : Int, y : Int, s_exp : Nat], NEW x \in Int,
           Abs(f.y) <= L, Abs(f.nsec_prev) <= L, Abs(x) <= L
    PROVE  /\ Filtered(f, x) \in [nsec_prev : Int, y : Int, s_exp : Nat]
           /\ Filtered(f, x).nsec_prev = x
           /\ Abs(Filtered(f, x).y) <= L
           /\ f.y >= 0 /\ f.nsec_prev >= 0 /\ x >= 0 => Filtered(f, x).y >= 0
<1> DEFINE e == NextExp(f.s_exp, Stiffness(f.y))
           h == Quot(x, 2) + Quot(f.nsec_prev, 2)
           m == Quot((e - 1) * f.y, e) + Quot(h, e)
<1>1. f.y \in Int /\ f.nsec_prev \in Int /\ f.s_exp \in Nat
  OBVIOUS
<1>2. Abs(f.y) < 2 ^ IntBits
  <2>1. 2 ^ IntBits \in Nat
    BY PowersOfTwo, OptionsAssumption
  <2>2. Abs(f.y) \in Int
    BY <1>1 DEF Abs
  <2>3. QED
    BY <2>1, <2>2
<1>3. Stiffness(f.y) \in 0 .. IntBits
  <2>1. Stiffness(f.y) \in 0 .. rtOpts.s
    BY <1>1, <1>2, StiffnessExists
  <2>2. rtOpts.s \in 0 .. IntBits
    BY DEF RunTimeOpts
  <2>3. QED
    BY <2>1, <2>2, OptionsAssumption
<1>4. e \in Nat \ {0}
  <2>1. e \in 1 .. 2 ^ Stiffness(f.y)
    BY <1>1, <1>3, NextExpBounds
  <2>2. 2 ^ Stiffness(f.y) \in Nat
    BY <1>3, PowersOfTwo
  <2>3. QED
    BY <2>1, <2>2
<1>5. /\ h \in Int /\ Abs(h) <= L
      /\ f.nsec_prev >= 0 /\ x >= 0 => h >= 0
  <2>1. HalfWithin(x, L) /\ HalfWithin(f.nsec_prev, L)
    BY <1>1, HalfBounds
  <2>2. QED
    BY <1>1, <2>1 DEF Abs, HalfWithin
<1>7. Filtered(f, x) = [s_exp |-> e, nsec_prev |-> x, y |-> m]
  BY DEF Filtered
<1> HIDE DEF e, h
<1>8. /\ m \in Int /\ Abs(m) <= L
      /\ f.y >= 0 /\ h >= 0 => m >= 0
  BY <1>1, <1>4, <1>5, WeightedMean
<1> HIDE DEF m
<1>9. QED
  BY <1>4, <1>5, <1>7, <1>8

(* The product of the next update fits the machine word.                     *)
LEMMA ProductFits ==
    ASSUME rtOpts \in RunTimeOpts, NEW y \in Int, NEW n \in Nat, Abs(y) < 2 ^ IntBits
    PROVE  (NextExp(n, Stiffness(y)) - 1) * Abs(y) < 2 ^ IntBits
<1> DEFINE s == Stiffness(y)
           e == NextExp(n, s)
           P == 2 ^ s
           Q == 2 ^ (IntBits - s)
<1>1. s \in 0 .. IntBits /\ Abs(y) < Q
  <2>1. s \in 0 .. rtOpts.s /\ Abs(y) < Q
    BY StiffnessExists
  <2>2. rtOpts.s \in 0 .. IntBits /\ IntBits \in Nat
    BY OptionsAssumption DEF RunTimeOpts
  <2>3. QED
    BY <2>1, <2>2
<1>2. e \in 1 .. P
  BY <1>1, NextExpBounds
<1>3. P \in Nat \ {0} /\ P * Q = 2 ^ IntBits
  BY <1>1, PowersOfTwo
<1>4. Q \in Nat
  <2>1. IntBits - s \in 0 .. IntBits
    BY <1>1, OptionsAssumption
  <2>2. QED
    BY <2>1, PowersOfTwo
<1>5. Abs(y) \in Nat
  BY DEF Abs
<1> HIDE DEF e, P, Q
<1>6. (e - 1) * Abs(y) < P * Q
  <2>1. \A i, j, k, l \in Nat : i < k /\ j < l => i * j < k * l
    BY SMT
  <2>2. e - 1 \in Nat /\ e - 1 < P
    BY <1>2, <1>3
  <2>3. QED
    BY <1>1, <1>3, <1>4, <1>5, <2>1, <2>2
<1>7. QED
  BY <1>3, <1>6 DEF e

-------------------------------------------------------------------------------
(* The invariant: the three filters hold less than a second.                 *)
FilterType == [nsec_prev : Int, y : Int, s_exp : Nat]
SubSecond(ns) == ns \in Int /\ Abs(ns) <= Billion - 1
FilterBounded(f) == f \in FilterType /\ SubSecond(f.y) /\ SubSecond(f.nsec_prev)
Kept(t) == t \in TimeInternal /\ IsNormal(t)

ServoInv == TypeOK /\ NormalTimes /\ FilterBounded(owd_filt) /\ SubSecond(ofm_prev)

LEMMA OptionsTyped == TypeOK => rtOpts \in RunTimeOpts
  BY OptionsAssumption DEF TypeOK

LEMMA NormalIsSubSecond ==
    ASSUME NEW t \in TimeInternal, IsNormal(t)
    PROVE  SubSecond(t.nanoseconds)
  BY BillionAssumption DEF TimeInternal, IsNormal, SubSecond, Abs

LEMMA SubSecondIsNormal ==
    ASSUME NEW ns, SubSecond(ns)
    PROVE  Kept(Time(0, ns))
  BY BillionAssumption DEF TimeInternal, IsNormal, SubSecond, Abs, Time, Kept

(* Clearing a filter.                                                        *)
LEMMA FilterCleared ==
    ASSUME NEW f, FilterBounded(f)
    PROVE  /\ FilterBounded([f EXCEPT !.s_exp = 0])
           /\ FilterBounded([nsec_prev |-> 0, y |-> f.y, s_exp |-> 0])
<1>1. f \in FilterType /\ SubSecond(f.y) /\ SubSecond(f.nsec_prev) /\ SubSecond(0)
  BY BillionAssumption DEF FilterBounded, SubSecond, Abs
<1> DEFINE g == [f EXCEPT !.s_exp = 0]
           h == [nsec_prev |-> 0, y |-> f.y, s_exp |-> 0]
<1>2. /\ g \in FilterType /\ g.y = f.y /\ g.nsec_prev = f.nsec_prev
      /\ h \in FilterType /\ h.y = f.y /\ h.nsec_prev = 0
  BY <1>1 DEF FilterType
<1> HIDE DEF g, h
<1>3. FilterBounded(g) /\ FilterBounded(h)
  BY <1>1, <1>2 DEF FilterBounded
<1>4. QED
  BY <1>3 DEF g, h

LEMMA ClampRange == \A a \in Int : Clamp(a) \in -AdjFreqMax .. AdjFreqMax
  BY AdjFreqMaxAssumption DEF Clamp

(* FilterDelay() and FilteredDelay() keep a mean below a second in bounds.   *)
LEMMA DelayFiltered ==
    ASSUME ServoInv, WidthFits, NEW mean \in TimeInternal,
           SubSecond(mean.nanoseconds), FilterDelay(mean)
    PROVE  /\ FilterBounded(owd_filt')
           /\ FilteredDelay(mean) \in TimeInternal
           /\ IsNormal(mean) => Kept(FilteredDelay(mean))
<1>1. rtOpts \in RunTimeOpts /\ FilterBounded(owd_filt)
  BY OptionsTyped DEF ServoInv
<1>2. CASE mean.seconds # 0
  <2>1. /\ owd_filt' = [nsec_prev |-> 0, y |-> owd_filt.y, s_exp |-> 0]
        /\ FilteredDelay(mean) = mean
    BY <1>2 DEF FilterDelay, FilteredDelay
  <2>2. FilterBounded(owd_filt')
    BY <1>1, <2>1, FilterCleared
  <2>3. QED
    BY <2>1, <2>2 DEF Kept
<1>3. CASE mean.seconds = 0
  <2>1. /\ owd_filt' = Filtered(owd_filt, mean.nanoseconds)
        /\ FilteredDelay(mean) = Time(0, owd_filt'.y)
    BY <1>3 DEF FilterDelay, FilteredDelay
  <2>2. Billion - 1 \in Nat /\ Billion - 1 < 2 ^ IntBits
    <3>1. 2 ^ IntBits \in Nat
      BY PowersOfTwo, OptionsAssumption
    <3>2. QED
      BY <3>1, BillionAssumption DEF WidthFits
  <2>3. /\ owd_filt' \in FilterType
        /\ owd_filt'.nsec_prev = mean.nanoseconds
        /\ Abs(owd_filt'.y) <= Billion - 1
    <3>1. /\ owd_filt \in [nsec_prev : Int, y : Int, s_exp : Nat]
          /\ Abs(owd_filt.y) <= Billion - 1 /\ Abs(owd_filt.nsec_prev) <= Billion - 1
      BY <1>1 DEF FilterBounded, FilterType, SubSecond
    <3>2. mean.nanoseconds \in Int /\ Abs(mean.nanoseconds) <= Billion - 1
      BY DEF SubSecond
    <3>3. QED
      BY <1>1, <2>1, <2>2, <3>1, <3>2, FilteredBounds DEF FilterType
  <2>4. FilterBounded(owd_filt')
    BY <2>3 DEF FilterBounded, FilterType, SubSecond
  <2>5. Kept(Time(0, owd_filt'.y))
    BY <2>4, SubSecondIsNormal DEF FilterBounded
  <2>6. QED
    BY <2>1, <2>4, <2>5 DEF Kept
<1>4. QED
  BY <1>2, <1>3

(* updateOffset() keeps normal times, and less than a second in its filter.  *)
LEMMA OffsetUpdated ==
    ASSUME ServoInv, NEW send \in TimeInternal, NEW recv \in TimeInternal,
           NEW c \in TimeInternal, updateOffset(send, recv, c)
    PROVE  /\ Kept(delayMS') /\ Kept(offsetFromMaster') /\ SubSecond(ofm_prev')
           /\ UNCHANGED <<meanPathDelay, peerMeanPathDelay>>
           /\ offset_first_updated' \in BOOLEAN
<1> DEFINE ms == subTime(recv, send)
           path == IF rtOpts.E2E_mode THEN meanPathDelay ELSE peerMeanPathDelay
           offset == subTime(subTime(ms, c), path)
           ns == offset.nanoseconds
<1>1. Kept(delayMS) /\ Kept(offsetFromMaster) /\ path \in TimeInternal
      /\ SubSecond(ofm_prev) /\ offset_first_updated \in BOOLEAN
  BY DEF ServoInv, TypeOK, NormalTimes, Kept
<1>2. Kept(ms) /\ Kept(offset)
  BY <1>1, SumsAreExact DEF Kept
<1>3. SubSecond(ns) /\ SubSecond(0)
  BY <1>2, NormalIsSubSecond, BillionAssumption DEF Kept, SubSecond, Abs
<1> DEFINE half == Quot(ns, 2) + Quot(ofm_prev, 2)
<1>4. Kept(Time(0, half))
  <2>1. Billion - 1 \in Nat
    BY BillionAssumption
  <2>2. HalfWithin(ns, Billion - 1) /\ HalfWithin(ofm_prev, Billion - 1)
    BY <1>1, <1>3, <2>1, HalfBounds DEF SubSecond
  <2> HIDE DEF ns
  <2>3. SubSecond(half)
    BY <2>1, <2>2 DEF HalfWithin, SubSecond, Abs
  <2>4. QED
    BY <2>3, SubSecondIsNormal
<1>5. CASE TooLong(ms)
  BY <1>1, <1>5 DEF updateOffset, delays
<1>6. CASE ~TooLong(ms)
  <2>1. /\ delayMS' = ms
        /\ UNCHANGED <<meanPathDelay, peerMeanPathDelay>>
        /\ \/ /\ offsetFromMaster' = offset
              /\ ofm_prev' = 0
              /\ UNCHANGED offset_first_updated
           \/ /\ offsetFromMaster' = Time(0, half)
              /\ ofm_prev' = ns
              /\ offset_first_updated' = TRUE
    BY <1>6 DEF updateOffset
  <2> HIDE DEF ms, offset, ns, half
  <2>2. QED
    BY <1>1, <1>2, <1>3, <1>4, <2>1
<1>7. QED
  BY <1>5, <1>6

(* updateClock() keeps the clock's variables in range and the delay filter   *)
(* as it was, but for its exponent.                                          *)
LEMMA ClockUpdated ==
    ASSUME ServoInv, Kept(offsetFromMaster'), updateClock
    PROVE  /\ observed_drift' \in -AdjFreqMax .. AdjFreqMax
           /\ freq' \in -AdjFreqMax .. AdjFreqMax
           /\ theta' \in Int
           /\ owd_filt' \in {owd_filt, [owd_filt EXCEPT !.s_exp = 0]}
<1> DEFINE o == offsetFromMaster'
           ap == AtLeastOne(rtOpts.ap)
           ai == AtLeastOne(rtOpts.ai)
<1>1. /\ observed_drift \in -AdjFreqMax .. AdjFreqMax /\ freq \in -AdjFreqMax .. AdjFreqMax
      /\ theta \in Int /\ AdjFreqMax \in Nat /\ observed_drift \in Int
  BY AdjFreqMaxAssumption DEF ServoInv, TypeOK
<1>2. o.nanoseconds \in Int /\ o.seconds \in Int /\ Value(o) \in Int
  BY BillionAssumption DEF Kept, TimeInternal, Value
<1>3. ap \in Nat \ {0} /\ ai \in Nat \ {0}
  <2>1. rtOpts.ap \in Int /\ rtOpts.ai \in Int
    BY OptionsTyped DEF ServoInv, RunTimeOpts
  <2>2. QED
    BY <2>1 DEF AtLeastOne
<1>4. Quot(o.nanoseconds, ap) \in Int /\ Quot(o.nanoseconds, ai) \in Int
  BY <1>2, <1>3, QuotBounds, Zenon
<1> HIDE DEF o, ap, ai
<1>5. \/ UNCHANGED <<theta, observed_drift, freq, owd_filt>>
      \/ ResetClock(o) \/ SteerClock(o)
  BY DEF updateClock, o, clock
<1>6. ASSUME ResetClock(o)
      PROVE  /\ observed_drift' = observed_drift
             /\ \/ UNCHANGED <<theta, freq, owd_filt>>
                \/ /\ theta' = theta - Value(o)
                   /\ owd_filt' = [owd_filt EXCEPT !.s_exp = 0]
                   /\ freq' = freq \/ \E a \in Int : freq' = Clamp(a)
                \/ /\ UNCHANGED <<theta, owd_filt>>
                   /\ \E a \in Int : freq' = Clamp(a)
  <2>1. -observed_drift \in Int /\ AdjFreqMax \in Int /\ -AdjFreqMax \in Int
    BY <1>1
  <2>2. observed_drift' = observed_drift
    BY <1>6 DEF ResetClock
  <2>3. CASE rtOpts.noAdjust
    BY <1>6, <2>2, <2>3 DEF ResetClock
  <2>4. CASE ~rtOpts.noAdjust /\ ~rtOpts.noResetClock
    <3>1. /\ theta' = theta - Value(o)
          /\ owd_filt' = [owd_filt EXCEPT !.s_exp = 0]
          /\ freq' = Clamp(-observed_drift)
      BY <1>6, <2>4 DEF ResetClock, adjOffset, initClock, adjFreq
    <3>2. QED
      BY <2>1, <2>2, <3>1
  <2>5. CASE ~rtOpts.noAdjust /\ rtOpts.noResetClock
    <3>1. UNCHANGED <<theta, owd_filt>>
      BY <1>6, <2>5 DEF ResetClock
    <3>2. freq' = Clamp(IF o.nanoseconds > 0 THEN -AdjFreqMax ELSE AdjFreqMax)
      BY <1>6, <2>5 DEF ResetClock, adjFreq
    <3>3. \E a \in Int : freq' = Clamp(a)
      BY <2>1, <3>2
    <3>4. QED
      BY <2>2, <3>1, <3>3
  <2>6. QED
    BY <2>3, <2>4, <2>5
<1>7. ASSUME SteerClock(o)
      PROVE  /\ observed_drift' = Clamp(observed_drift + Quot(o.nanoseconds, ai))
             /\ UNCHANGED <<theta, owd_filt>>
             /\ \/ freq' = freq
                \/ freq' = Clamp(-(Quot(o.nanoseconds, ap) + observed_drift'))
  BY <1>7 DEF SteerClock, adjFreq, ap, ai
<1>8. CASE UNCHANGED <<theta, observed_drift, freq, owd_filt>>
  BY <1>1, <1>8
<1>9. CASE ResetClock(o)
  BY <1>1, <1>2, <1>6, <1>9, ClampRange
<1>10. CASE SteerClock(o)
  <2>1. observed_drift' \in -AdjFreqMax .. AdjFreqMax
    BY <1>1, <1>4, <1>7, <1>10, ClampRange
  <2>2. -(Quot(o.nanoseconds, ap) + observed_drift') \in Int
    BY <1>1, <1>4, <2>1
  <2>3. freq' \in -AdjFreqMax .. AdjFreqMax
    BY <1>1, <1>7, <1>10, <2>2, ClampRange
  <2>4. QED
    BY <1>1, <1>7, <1>10, <2>1, <2>3
<1>11. QED
  BY <1>5, <1>8, <1>9, <1>10

(* updateDelay() and updatePeerDelay() keep times and a bounded filter.      *)
LEMMA MeansTyped ==
    ASSUME NEW t \in TimeInternal
    PROVE  /\ divTime(t, 2) \in TimeInternal /\ SubSecond(divTime(t, 2).nanoseconds)
           /\ IsNormal(t) => Kept(Halved(t)) /\ SubSecond(Halved(t).nanoseconds)
<1>1. Billion \in Nat /\ Billion > 1 /\ Word64 \in Nat \ {0} /\ Word32 \in Nat \ {0}
  BY BillionAssumption, WordAssumption
<1>2. divTime(t, 2) \in TimeInternal /\ SubSecond(divTime(t, 2).nanoseconds)
  <2> DEFINE w == (Value(t) % Word64) \div 2
             q == w \div Billion
             u == q % Word32
  <2>1. Value(t) \in Int
    BY <1>1 DEF Value, TimeInternal
  <2>2. \A v \in Int : v % Word64 \in Nat
    BY <1>1
  <2>3. \A v \in Nat : v \div 2 \in Nat /\ v \div Billion \in Nat
                     /\ v % Billion \in 0 .. Billion - 1 /\ v % Word32 \in Nat
    BY <1>1
  <2>4. w \in Nat /\ q \in Nat /\ u \in Nat
    BY <2>1, <2>2, <2>3
  <2>5. divTime(t, 2) = Time(Signed32(q), w % Billion)
    BY DEF divTime
  <2>6. Signed32(q) \in Int
    <3>1. Signed32(q) = IF 2 * u < Word32 THEN u ELSE u - Word32
      BY DEF Signed32
    <3> HIDE DEF u
    <3>2. QED
      BY <1>1, <2>4, <3>1
  <2>7. w % Billion \in 0 .. Billion - 1
    BY <2>3, <2>4
  <2> HIDE DEF w, q
  <2>8. QED
    BY <1>1, <2>5, <2>6, <2>7 DEF Time, TimeInternal, SubSecond, Abs
<1>3. ASSUME IsNormal(t) PROVE Kept(Halved(t)) /\ SubSecond(Halved(t).nanoseconds)
  <2> DEFINE s == Quot(t.seconds, 2)
             ns == Quot(t.nanoseconds, 2)
  <2>1. t.seconds \in Int /\ t.nanoseconds \in Int /\ 2 \in Nat \ {0}
    BY DEF TimeInternal
  <2>2. /\ s \in Int /\ (t.seconds >= 0 => s >= 0) /\ (t.seconds <= 0 => s <= 0)
        /\ ns \in Int /\ (t.nanoseconds >= 0 => ns >= 0 /\ 2 * ns <= t.nanoseconds)
        /\ (t.nanoseconds <= 0 => ns <= 0 /\ 2 * ns >= t.nanoseconds)
    BY <2>1, QuotBounds, Zenon
  <2>3. Halved(t) = Time(s, ns)
    BY DEF Halved
  <2> HIDE DEF s, ns
  <2>4. QED
    BY <1>1, <1>3, <2>1, <2>2, <2>3
       DEF IsNormal, Kept, Time, TimeInternal, SubSecond, Abs
<1>4. QED
  BY <1>2, <1>3

-------------------------------------------------------------------------------
(* The invariant is inductive.                                               *)
WorldOK == /\ theta \in Int /\ slave \in BOOLEAN /\ jumped \in BOOLEAN
           /\ silence \in 0 .. MaxSilence
           /\ measuring \in [t1 : TimeInternal, t2 : TimeInternal,
                              stage : {"idle", "asked", "answered"}, correction : Nat]
ClockOK == /\ observed_drift \in -AdjFreqMax .. AdjFreqMax
           /\ freq \in -AdjFreqMax .. AdjFreqMax
DelaysOK == /\ Kept(delayMS) /\ meanPathDelay \in TimeInternal
            /\ Kept(peerMeanPathDelay) /\ FilterBounded(owd_filt)
OffsetOK == /\ Kept(offsetFromMaster) /\ SubSecond(ofm_prev)
            /\ offset_first_updated \in BOOLEAN
Parts == rtOpts \in Options /\ WorldOK /\ ClockOK /\ DelaysOK /\ OffsetOK

LEMMA InvOfParts == Parts <=> ServoInv
  BY DEF Parts, WorldOK, ClockOK, DelaysOK, OffsetOK, ServoInv, TypeOK, NormalTimes,
         Kept, FilterBounded, FilterType, SubSecond

LEMMA InvOfPartsNext == Parts' <=> ServoInv'
  BY DEF Parts, WorldOK, ClockOK, DelaysOK, OffsetOK, ServoInv, TypeOK, NormalTimes,
         Kept, FilterBounded, FilterType, SubSecond

LEMMA NoExchangeTyped ==
    {NoExchange, Answered} \subseteq [t1 : TimeInternal, t2 : TimeInternal,
                              stage : {"idle", "asked", "answered"}, correction : Nat]
  BY DEF NoExchange, Answered, Zero, Time, TimeInternal

LEMMA FilterWithExponent ==
    ASSUME FilterBounded(owd_filt),
           owd_filt' \in {owd_filt, [owd_filt EXCEPT !.s_exp = 0]}
    PROVE  FilterBounded(owd_filt')
  BY FilterCleared

LEMMA SyncKeepsInv ==
    ASSUME Parts, NEW sent \in Epochs, NEW d \in PathDelay,
           NEW c \in Residence[rtOpts.E2E_mode], handleSync(sent, d, c)
    PROVE  Parts'
<1>1. ServoInv
  BY InvOfParts
<1>2. sent \in Int /\ c \in Int /\ sent + d + c + theta \in Int
  <2>1. rtOpts.E2E_mode \in BOOLEAN
    BY <1>1, OptionsTyped DEF ServoInv, RunTimeOpts
  <2>2. c \in Nat /\ sent \in Nat /\ d \in Nat /\ theta \in Int
    BY <2>1, WorldAssumption DEF Parts, WorldOK
  <2>3. QED
    BY <2>2
<1>3. /\ ToTime(sent) \in TimeInternal /\ ToTime(sent + d + c + theta) \in TimeInternal
      /\ ToTime(c) \in TimeInternal
  BY <1>2, ToTimeIsExact
<1>4. updateOffset(ToTime(sent), ToTime(sent + d + c + theta), ToTime(c))
  BY DEF handleSync
<1>5. /\ Kept(delayMS') /\ Kept(offsetFromMaster') /\ SubSecond(ofm_prev')
      /\ UNCHANGED <<meanPathDelay, peerMeanPathDelay>>
      /\ offset_first_updated' \in BOOLEAN
  BY <1>1, <1>3, <1>4, OffsetUpdated
<1>6. /\ observed_drift' \in -AdjFreqMax .. AdjFreqMax
      /\ freq' \in -AdjFreqMax .. AdjFreqMax
      /\ theta' \in Int
      /\ owd_filt' \in {owd_filt, [owd_filt EXCEPT !.s_exp = 0]}
  <2>1. updateClock
    BY DEF handleSync
  <2>2. QED
    BY <1>1, <1>5, <2>1, ClockUpdated
<1>7. silence' = 0 /\ UNCHANGED <<rtOpts, measuring, slave, jumped>>
  BY DEF handleSync
<1>8. WorldOK' /\ ClockOK' /\ OffsetOK' /\ rtOpts' \in Options
  BY <1>5, <1>6, <1>7, WorldAssumption DEF Parts, WorldOK, ClockOK, OffsetOK
<1>9. DelaysOK'
  <2>1. FilterBounded(owd_filt')
    BY <1>6, FilterWithExponent DEF Parts, DelaysOK
  <2>2. QED
    BY <1>5, <2>1 DEF Parts, DelaysOK
<1>10. QED
  BY <1>8, <1>9 DEF Parts

LEMMA RequestKeepsInv ==
    ASSUME Parts, NEW sent \in Epochs, NEW d \in PathDelay,
           NEW c \in Residence[rtOpts.E2E_mode], issueRequest(sent, d, c)
    PROVE  Parts'
<1>1. sent + theta \in Int /\ sent + d + c \in Int /\ c \in Nat
  <2>1. rtOpts.E2E_mode \in BOOLEAN
    BY InvOfParts, OptionsTyped DEF ServoInv, RunTimeOpts
  <2>2. c \in Nat /\ sent \in Nat /\ d \in Nat /\ theta \in Int
    BY <2>1, WorldAssumption DEF Parts, WorldOK
  <2>3. QED
    BY <2>2
<1>2. measuring' \in [t1 : TimeInternal, t2 : TimeInternal,
                      stage : {"idle", "asked", "answered"}, correction : Nat]
  BY <1>1, ToTimeIsExact DEF issueRequest
<1>3. WorldOK' /\ UNCHANGED <<rtOpts, offset_first_updated, delays, offsetFromMaster,
                              clock, owd_filt, ofm_prev>>
  BY <1>2 DEF issueRequest, Parts, WorldOK, world
<1>4. QED
  BY <1>3 DEF Parts, ClockOK, DelaysOK, OffsetOK, delays, clock

LEMMA DelayRespKeepsInv ==
    ASSUME Parts, WidthFits, handleDelayResp
    PROVE  Parts'
<1> DEFINE delaySM == subTime(measuring.t2, measuring.t1)
           sum  == subTime(addTime(delaySM, delayMS), ToTime(measuring.correction))
           mean == divTime(sum, 2)
<1>1. measuring.t1 \in TimeInternal /\ measuring.t2 \in TimeInternal
      /\ measuring.correction \in Int /\ delayMS \in TimeInternal
  BY DEF Parts, WorldOK, DelaysOK, Kept
<1>2. sum \in TimeInternal
  BY <1>1, SumsAreExact, ToTimeIsExact
<1>3. mean \in TimeInternal /\ SubSecond(mean.nanoseconds)
  <2> HIDE DEF sum
  <2>1. QED
    BY <1>2, MeansTyped
<1>4. updateDelay(measuring.t2, measuring.t1, ToTime(measuring.correction))
  BY DEF handleDelayResp
<1>5. \/ UNCHANGED <<delays, owd_filt>>
      \/ /\ FilterDelay(mean)
         /\ meanPathDelay' = FilteredDelay(mean)
         /\ UNCHANGED <<delayMS, peerMeanPathDelay>>
  BY <1>4 DEF updateDelay
<1> HIDE DEF mean
<1>6. DelaysOK'
  <2>1. CASE UNCHANGED <<delays, owd_filt>>
    BY <2>1 DEF Parts, DelaysOK, delays
  <2>2. CASE /\ FilterDelay(mean)
             /\ meanPathDelay' = FilteredDelay(mean)
             /\ UNCHANGED <<delayMS, peerMeanPathDelay>>
    BY <1>3, <2>2, InvOfParts, DelayFiltered DEF Parts, DelaysOK
  <2>3. QED
    BY <1>5, <2>1, <2>2
<1>7. WorldOK' /\ ClockOK' /\ OffsetOK' /\ rtOpts' \in Options
  BY NoExchangeTyped DEF handleDelayResp, Parts, WorldOK, ClockOK, OffsetOK, clock, world
<1>8. QED
  BY <1>6, <1>7 DEF Parts

LEMMA PDelayRespKeepsInv ==
    ASSUME Parts, WidthFits, NEW d \in PathDelay, NEW c \in Residence[FALSE],
           NEW twoStep \in BOOLEAN, handlePDelayResp(d, c, twoStep)
    PROVE  Parts'
<1> DEFINE t3 == measuring.t2
           t4 == ToTime(Value(t3) + d + c + theta)
           there == subTime(measuring.t2, measuring.t1)
           roundTrip == IF twoStep THEN addTime(subTime(t4, t3), there)
                        ELSE subTime(t4, measuring.t1)
           correctionField == addTime(ToTime(measuring.correction), ToTime(c))
           trip == subTime(roundTrip, correctionField)
           mean == Halved(trip)
<1>1. /\ measuring.t1 \in TimeInternal /\ measuring.t2 \in TimeInternal
      /\ measuring.correction \in Int /\ c \in Int /\ Value(t3) + d + c + theta \in Int
  <2>1. c \in Nat /\ d \in Nat /\ theta \in Int /\ measuring.correction \in Int
        /\ measuring.t1 \in TimeInternal /\ measuring.t2 \in TimeInternal
    <3>1. c \in Nat
      <4>1. FALSE \in BOOLEAN
        OBVIOUS
      <4>2. Residence[FALSE] \subseteq Nat
        BY <4>1, WorldAssumption
      <4>3. QED
        BY <4>2
    <3>2. d \in Nat
      BY WorldAssumption
    <3>3. QED
      BY <3>1, <3>2 DEF Parts, WorldOK
  <2>2. Value(t3) \in Int
    BY <2>1, BillionAssumption DEF Value, TimeInternal
  <2>3. QED
    BY <2>1, <2>2
<1>2. t4 \in TimeInternal /\ roundTrip \in TimeInternal /\ correctionField \in TimeInternal
  BY <1>1, SumsAreExact, ToTimeIsExact
<1> HIDE DEF roundTrip, correctionField
<1>3. trip \in TimeInternal /\ IsNormal(trip)
  BY <1>2, SumsAreExact
<1> HIDE DEF trip
<1>4. Kept(mean) /\ SubSecond(mean.nanoseconds)
  BY <1>3, MeansTyped
<1>5. /\ FilterDelay(mean)
      /\ peerMeanPathDelay' = FilteredDelay(mean)
      /\ UNCHANGED <<delayMS, meanPathDelay>>
  BY DEF handlePDelayResp, updatePeerDelay, roundTrip, correctionField, trip
<1> HIDE DEF mean
<1>6. DelaysOK'
  <2>1. mean \in TimeInternal /\ IsNormal(mean)
    BY <1>4 DEF Kept
  <2>2. FilterBounded(owd_filt') /\ Kept(FilteredDelay(mean))
    BY <1>4, <1>5, <2>1, InvOfParts, DelayFiltered
  <2>3. QED
    BY <1>5, <2>2 DEF Parts, DelaysOK
<1>7. WorldOK' /\ ClockOK' /\ OffsetOK' /\ rtOpts' \in Options
  BY NoExchangeTyped
     DEF handlePDelayResp, Parts, WorldOK, ClockOK, OffsetOK, clock, world
<1>8. QED
  BY <1>6, <1>7 DEF Parts

(* What a change of state does to the servo: with initClock() the drift      *)
(* learnt is all that is in force, with m1() and initData() the delays are   *)
(* none.                                                                     *)
LEMMA StateChangeEffect ==
    ASSUME Parts, StateChange
    PROVE  /\ UNCHANGED <<rtOpts, offset_first_updated, delayMS, observed_drift,
                          ofm_prev, theta, silence, jumped>>
           /\ owd_filt' \in {owd_filt, [owd_filt EXCEPT !.s_exp = 0]}
           /\ freq' = freq \/ (~rtOpts.noAdjust /\ freq' = Clamp(-observed_drift))
           /\ meanPathDelay' \in {meanPathDelay, Zero}
           /\ peerMeanPathDelay' \in {peerMeanPathDelay, Zero}
           /\ offsetFromMaster' \in {offsetFromMaster, Zero}
           /\ slave' \in BOOLEAN
           /\ measuring' \in {measuring, [measuring EXCEPT !.t1 = Zero]}
           /\ Prompt => measuring' = measuring
<1>1. slave \in BOOLEAN
  BY DEF Parts, WorldOK
<1>2. initClock =>
         /\ owd_filt' \in {owd_filt, [owd_filt EXCEPT !.s_exp = 0]}
         /\ freq' = freq \/ (~rtOpts.noAdjust /\ freq' = Clamp(-observed_drift))
  BY DEF initClock, adjFreq
<1>3. CASE leaveSlave
  BY <1>2, <1>3 DEF leaveSlave, delays
<1>4. CASE toMaster
  BY <1>2, <1>4 DEF toMaster, m1
<1>5. CASE toSlave
  BY <1>2, <1>5 DEF toSlave, delays
<1>6. CASE doInit
  BY <1>1, <1>2, <1>6 DEF doInit, m1, world
<1>7. QED
  BY <1>3, <1>4, <1>5, <1>6 DEF StateChange

LEMMA StateChangeKeepsInv ==
    ASSUME Parts, StateChange
    PROVE  Parts'
<1>1. Kept(Zero)
  BY BillionAssumption DEF Kept, Zero, Time, TimeInternal, IsNormal, Abs
<1>2. freq' \in -AdjFreqMax .. AdjFreqMax
  <2>1. observed_drift \in Int /\ freq \in -AdjFreqMax .. AdjFreqMax
    BY AdjFreqMaxAssumption DEF Parts, ClockOK
  <2>2. -observed_drift \in Int
    BY <2>1
  <2>3. QED
    BY <2>1, <2>2, StateChangeEffect, ClampRange
<1>3. FilterBounded(owd_filt')
  BY StateChangeEffect, FilterWithExponent DEF Parts, DelaysOK
<1>4. DelaysOK' /\ OffsetOK' /\ ClockOK'
  <2>1. Zero \in TimeInternal
    BY <1>1 DEF Kept
  <2>2. QED
    BY <1>1, <1>2, <1>3, <2>1, StateChangeEffect
       DEF Parts, DelaysOK, OffsetOK, ClockOK
<1>5. WorldOK'
  <2>1. [measuring EXCEPT !.t1 = Zero] \in
            [t1 : TimeInternal, t2 : TimeInternal,
             stage : {"idle", "asked", "answered"}, correction : Nat]
    BY <1>1 DEF Parts, WorldOK, Kept
  <2>2. QED
    BY <2>1, StateChangeEffect DEF Parts, WorldOK
<1>6. QED
  BY <1>4, <1>5, StateChangeEffect DEF Parts

LEMMA NextKeepsInv ==
    ASSUME Parts, WidthFits, [Next]_vars
    PROVE  Parts'
<1>1. CASE Second
  <2>1. theta' \in Int /\ silence' \in 0 .. MaxSilence
    <3>1. theta \in Int /\ freq \in Int /\ silence \in 0 .. MaxSilence
      BY AdjFreqMaxAssumption DEF Parts, WorldOK, ClockOK
    <3>2. QED
      BY <1>1, <3>1, WorldAssumption DEF Second
  <2>2. WorldOK'
    BY <1>1, <2>1, NoExchangeTyped DEF Second, Parts, WorldOK
  <2>3. QED
    BY <1>1, <2>2 DEF Second, Parts, ClockOK, DelaysOK, OffsetOK, delays, clock
<1>2. CASE AnySync
  BY <1>2, SyncKeepsInv DEF AnySync
<1>3. CASE AnyRequest
  BY <1>3, RequestKeepsInv DEF AnyRequest
<1>4. CASE handleDelayResp
  BY <1>4, DelayRespKeepsInv
<1>5. CASE AnyPDelayResp
  BY <1>5, PDelayRespKeepsInv DEF AnyPDelayResp
<1>6. CASE StateChange
  BY <1>6, StateChangeKeepsInv
<1>7. CASE \E j \in Jumps[rtOpts.E2E_mode] : Jump(j)
  <2>1. PICK j \in Jumps[rtOpts.E2E_mode] : Jump(j)
    BY <1>7
  <2>2. j \in Int
    <3>1. rtOpts.E2E_mode \in BOOLEAN
      BY InvOfParts, OptionsTyped DEF ServoInv, RunTimeOpts
    <3>2. QED
      BY <3>1, WorldAssumption
  <2>3. QED
    BY <2>1, <2>2 DEF Jump, Parts, WorldOK, ClockOK, DelaysOK, OffsetOK, delays, clock
<1>8. CASE UNCHANGED vars
  BY <1>8 DEF vars, Parts, WorldOK, ClockOK, DelaysOK, OffsetOK, delays, clock, world
<1>9. QED
  BY <1>1, <1>2, <1>3, <1>4, <1>5, <1>6, <1>7, <1>8 DEF Next

LEMMA InitHasInv == Init => Parts
<1>1. SUFFICES ASSUME Init PROVE Parts
  OBVIOUS
<1>2. SubSecond(0) /\ Kept(Zero)
  BY BillionAssumption DEF SubSecond, Kept, Zero, Time, TimeInternal, IsNormal, Abs
<1>3. FilterBounded(owd_filt)
  BY <1>1, <1>2 DEF Init, FilterBounded, FilterType
<1>4. WorldOK
  <2>1. 0 \in 0 .. MaxSilence /\ NoExchange \in {NoExchange, Answered}
    BY WorldAssumption
  <2>2. theta \in Int /\ silence \in 0 .. MaxSilence
    BY <1>1, <2>1, WorldAssumption DEF Init
  <2>3. /\ measuring = NoExchange /\ slave \in BOOLEAN /\ jumped \in BOOLEAN
    BY <1>1 DEF Init
  <2>4. QED
    BY <2>1, <2>2, <2>3, NoExchangeTyped DEF WorldOK
<1>5. ClockOK
  BY <1>1, AdjFreqMaxAssumption DEF Init, ClockOK
<1>6. DelaysOK
  <2>1. Zero \in TimeInternal
    BY <1>2 DEF Kept
  <2>2. QED
    BY <1>1, <1>2, <1>3, <2>1 DEF Init, DelaysOK
<1>7. OffsetOK
  BY <1>1, <1>2 DEF Init, OffsetOK
<1>8. QED
  BY <1>1, <1>4, <1>5, <1>6, <1>7 DEF Init, Parts

LEMMA ServoInvariant == WidthFits => (Spec => []ServoInv)
<1>1. WidthFits /\ Parts /\ [Next]_vars => Parts'
  BY NextKeepsInv
<1>2. SUFFICES ASSUME WidthFits PROVE Spec => []ServoInv
  OBVIOUS
<1>3. Parts /\ [Next]_vars => Parts'
  BY <1>1, <1>2
<1>4. QED
  BY <1>3, InitHasInv, InvOfParts, PTL DEF Spec

(* Every variable keeps its type, and drift and frequency stay within what   *)
(* the clock accepts.                                                        *)
THEOREM ServoTypeCorrect == WidthFits => (Spec => []TypeOK)
  BY ServoInvariant, PTL DEF ServoInv

(* Times kept are in normal form, for any options and any world.             *)
THEOREM TimesAreNormal == WidthFits => (Spec => []NormalTimes)
  BY ServoInvariant, PTL DEF ServoInv

(* The delay filter never overflows, for any stiffness asked for.            *)
THEOREM FilterNeverOverflows == WidthFits => (Spec => []FilterFits)
<1>1. SUFFICES ASSUME WidthFits PROVE Spec => []FilterFits
  OBVIOUS
<1>2. ServoInv => FilterFits
  <2>1. SUFFICES ASSUME ServoInv PROVE FilterFits
    OBVIOUS
  <2>2. /\ rtOpts \in RunTimeOpts /\ owd_filt.y \in Int /\ owd_filt.s_exp \in Nat
        /\ Abs(owd_filt.y) <= Billion - 1
    BY <2>1, OptionsTyped DEF ServoInv, FilterBounded, FilterType, SubSecond
  <2>3. Abs(owd_filt.y) < 2 ^ IntBits
    <3>1. 2 ^ IntBits \in Nat
      BY PowersOfTwo, OptionsAssumption
    <3>2. QED
      BY <1>1, <2>2, <3>1, BillionAssumption DEF WidthFits, Abs
  <2>4. QED
    BY <2>2, <2>3, ProductFits DEF FilterFits
<1>3. Spec => []ServoInv
  BY <1>1, ServoInvariant
<1>4. QED
  BY <1>2, <1>3, PTL

-------------------------------------------------------------------------------
(* What a measurement amounts to                                             *)

LEMMA ValueTyped ==
    ASSUME NEW t \in TimeInternal
    PROVE  Value(t) \in Int
  BY BillionAssumption DEF Value, TimeInternal

(* A normal time is less than a second exactly when its seconds are 0, and   *)
(* both its fields have the sign of its value.                               *)
LEMMA NormalSeconds ==
    ASSUME NEW t \in TimeInternal, IsNormal(t)
    PROVE  /\ t.seconds \in Int /\ t.nanoseconds \in Int /\ Value(t) \in Int
           /\ t.seconds = 0 => Value(t) = t.nanoseconds /\ Abs(Value(t)) < Billion
           /\ t.seconds # 0 => Abs(Value(t)) >= Billion
           /\ Value(t) >= 0 => t.seconds >= 0 /\ t.nanoseconds >= 0
<1> DEFINE s == t.seconds
           n == t.nanoseconds
           V == s * Billion
<1>1. s \in Int /\ n \in Int /\ Billion \in Nat /\ Billion > 1 /\ Value(t) = V + n
  BY BillionAssumption DEF TimeInternal, Value
<1>2. V \in Int /\ (s >= 1 => V >= Billion) /\ (s <= -1 => V <= -Billion)
      /\ (s = 0 => V = 0)
  <2>1. \A i, j \in Int : i <= j => i * Billion <= j * Billion
    BY <1>1
  <2>2. V \in Int /\ 1 * Billion = Billion /\ (-1) * Billion = -Billion
        /\ 0 * Billion = 0
    BY <1>1
  <2>3. (s >= 1 => 1 * Billion <= V) /\ (s <= -1 => V <= (-1) * Billion)
    BY <1>1, <2>1
  <2>4. QED
    BY <2>2, <2>3
<1>3. Abs(n) < Billion /\ (s > 0 => n >= 0) /\ (s < 0 => n <= 0)
  BY DEF IsNormal
<1> HIDE DEF V, s, n
<1>4. /\ s = 0 => Value(t) = n /\ Abs(Value(t)) < Billion
      /\ s # 0 => Abs(Value(t)) >= Billion
      /\ Value(t) >= 0 => s >= 0 /\ n >= 0
      /\ Value(t) \in Int
  BY <1>1, <1>2, <1>3 DEF Abs
<1>5. QED
  BY <1>1, <1>4 DEF s, n

LEMMA ZeroTyped == Zero \in TimeInternal /\ Value(Zero) = 0
  BY BillionAssumption DEF Zero, Time, TimeInternal, Value

(* Times of less than a second.                                              *)
LEMMA SubSecondValue ==
    ASSUME NEW n \in Int
    PROVE  Time(0, n) \in TimeInternal /\ Value(Time(0, n)) = n
  BY BillionAssumption DEF Time, TimeInternal, Value

LEMMA WorldTyped ==
    ASSUME Parts
    PROVE  /\ rtOpts \in RunTimeOpts /\ rtOpts.E2E_mode \in BOOLEAN
           /\ theta \in Int /\ MaxPathDelay \in Nat /\ Skew \in Int
           /\ AdjFreqMax \in Nat /\ Billion \in Nat \ {0, 1} /\ Slew \in Nat
           /\ silence \in Nat /\ silence <= MaxSilence /\ MaxSilence \in Nat
           /\ freq \in -AdjFreqMax .. AdjFreqMax
           /\ observed_drift \in -AdjFreqMax .. AdjFreqMax
           /\ \A d \in PathDelay : d \in 0 .. MaxPathDelay
           /\ \A c \in Residence[rtOpts.E2E_mode] : c \in Nat
           /\ \A c \in Residence[FALSE] : c \in Nat
           /\ \A s \in Epochs : s \in Nat
           /\ Mean \in TimeInternal
<1>1. rtOpts \in RunTimeOpts
  BY OptionsAssumption DEF Parts
<1>2. rtOpts.E2E_mode \in BOOLEAN /\ FALSE \in BOOLEAN
  BY <1>1 DEF RunTimeOpts
<1>3. Slew \in Nat
  BY WorldAssumption, AdjFreqMaxAssumption DEF Slew, Abs
<1>4. Mean \in TimeInternal
  BY DEF Mean, Parts, DelaysOK, Kept
<1>6. silence \in Nat /\ silence <= MaxSilence /\ MaxSilence \in Nat
  <2>1. silence \in 0 .. MaxSilence /\ MaxSilence \in Nat
    BY WorldAssumption DEF Parts, WorldOK
  <2>2. QED
    BY <2>1
<1>5. QED
  BY <1>1, <1>2, <1>3, <1>4, <1>6, WorldAssumption, AdjFreqMaxAssumption, BillionAssumption
     DEF Parts, WorldOK, ClockOK

(* A Sync shows the distance of the clocks, but for what its own path took   *)
(* more than the mean: the correction and the epoch leave no trace.          *)
LEMMA OffsetOfSync ==
    ASSUME Parts, rtOpts.maxDelay = 0, NEW sent \in Epochs, NEW d \in PathDelay,
           NEW c \in Residence[rtOpts.E2E_mode], handleSync(sent, d, c)
    PROVE  \E offset \in TimeInternal :
              /\ IsNormal(offset)
              /\ Value(offset) = theta + d - Value(Mean)
              /\ Value(delayMS') = theta + d + c
              /\ UNCHANGED <<meanPathDelay, peerMeanPathDelay>>
              /\ offset.seconds # 0 =>
                    /\ offsetFromMaster' = offset /\ ofm_prev' = 0
                    /\ UNCHANGED offset_first_updated
              /\ offset.seconds = 0 =>
                    /\ offsetFromMaster' =
                          Time(0, Quot(offset.nanoseconds, 2) + Quot(ofm_prev, 2))
                    /\ ofm_prev' = offset.nanoseconds
                    /\ offset_first_updated' = TRUE
<1> DEFINE S == ToTime(sent)
           R == ToTime(sent + d + c + theta)
           C == ToTime(c)
           ms == subTime(R, S)
           less == subTime(ms, C)
           offset == subTime(less, Mean)
<1>1. sent \in Int /\ d \in Int /\ c \in Int /\ theta \in Int /\ Mean \in TimeInternal
  BY WorldTyped
<1>2. /\ S \in TimeInternal /\ Value(S) = sent
      /\ R \in TimeInternal /\ Value(R) = sent + d + c + theta
      /\ C \in TimeInternal /\ Value(C) = c
  BY <1>1, ToTimeIsExact
<1> HIDE DEF S, R, C
<1>3. ms \in TimeInternal /\ Value(ms) = theta + d + c
  BY <1>1, <1>2, SumsAreExact
<1> HIDE DEF ms
<1>4. less \in TimeInternal /\ Value(less) = theta + d
  BY <1>1, <1>2, <1>3, SumsAreExact
<1> HIDE DEF less
<1>5. offset \in TimeInternal /\ IsNormal(offset)
      /\ Value(offset) = theta + d - Value(Mean)
  BY <1>1, <1>4, SumsAreExact, ValueTyped
<1>6. updateOffset(S, R, C) /\ ~TooLong(ms)
  BY DEF handleSync, TooLong, S, R, C
<1>7. /\ delayMS' = ms
      /\ UNCHANGED <<meanPathDelay, peerMeanPathDelay>>
      /\ IF offset.seconds # 0
         THEN /\ offsetFromMaster' = offset
              /\ ofm_prev' = 0
              /\ UNCHANGED offset_first_updated
         ELSE /\ offsetFromMaster' =
                    Time(0, Quot(offset.nanoseconds, 2) + Quot(ofm_prev, 2))
              /\ ofm_prev' = offset.nanoseconds
              /\ offset_first_updated' = TRUE
  BY <1>6 DEF updateOffset, Mean, ms, less
<1> HIDE DEF offset
<1>8. QED
  BY <1>3, <1>5, <1>7

(* A request under way when nothing happens in between has been sent at the  *)
(* distance the clocks have now.                                             *)
Asked ==
    measuring.stage = "asked" =>
        \E d \in PathDelay :
            Value(measuring.t2) - Value(measuring.t1) = d + measuring.correction - theta

LEMMA AskedInductive ==
    ASSUME Prompt, Parts, Asked, [Next]_vars
    PROVE  Asked'
<1>1. CASE Second
  BY <1>1 DEF Second, Asked, NoExchange
<1>2. CASE AnySync \/ \E j \in Jumps[rtOpts.E2E_mode] : Jump(j)
  BY <1>2 DEF AnySync, handleSync, Jump, Asked
<1>3. CASE AnyRequest
  <2>1. PICK sent \in Epochs, d \in PathDelay, c \in Residence[rtOpts.E2E_mode] :
           issueRequest(sent, d, c)
    BY <1>3 DEF AnyRequest
  <2>2. sent \in Int /\ d \in Int /\ c \in Int /\ theta \in Int
    BY WorldTyped
  <2>3. /\ measuring'.t1 = ToTime(sent + theta) /\ measuring'.t2 = ToTime(sent + d + c)
        /\ measuring'.correction = c /\ theta' = theta
    BY <2>1 DEF issueRequest
  <2>4. Value(measuring'.t1) = sent + theta /\ Value(measuring'.t2) = sent + d + c
    BY <2>2, <2>3, ToTimeIsExact
  <2>5. Value(measuring'.t2) - Value(measuring'.t1) = d + measuring'.correction - theta'
    BY <2>2, <2>3, <2>4
  <2>6. QED
    BY <2>5 DEF Asked
<1>4. CASE handleDelayResp \/ AnyPDelayResp
  BY <1>4 DEF handleDelayResp, AnyPDelayResp, handlePDelayResp, Asked, Answered,
              NoExchange
<1>5. CASE StateChange \/ UNCHANGED vars
  <2>1. measuring' = measuring /\ theta' = theta
    BY <1>5, StateChangeEffect DEF vars
  <2>2. QED
    BY <2>1 DEF Asked
<1>6. QED
  BY <1>1, <1>2, <1>3, <1>4, <1>5 DEF Next

-------------------------------------------------------------------------------
(* The delay filter, with any bound                                          *)

FilterWithin(f, L) == f \in FilterType /\ {f.y, f.nsec_prev} \subseteq 0 .. L

(* What is left of the filter by initClock().                                *)
LEMMA FilterKeepsValues ==
    ASSUME owd_filt \in FilterType,
           owd_filt' \in {owd_filt, [owd_filt EXCEPT !.s_exp = 0]}
    PROVE  /\ owd_filt' \in FilterType
           /\ owd_filt'.y = owd_filt.y /\ owd_filt'.nsec_prev = owd_filt.nsec_prev
  BY DEF FilterType

(* A mean that is not negative, nor longer than the bound of the filter,     *)
(* makes a delay of which the same is true.                                  *)
LEMMA DelayWithin ==
    ASSUME Parts, WidthFits, NEW L \in Nat, FilterWithin(owd_filt, L),
           NEW mean \in TimeInternal, IsNormal(mean), Value(mean) \in 0 .. L,
           FilterDelay(mean)
    PROVE  /\ FilterWithin(owd_filt', L)
           /\ Value(FilteredDelay(mean)) \in 0 .. L
           /\ mean.seconds = 0 => FilteredDelay(mean) = Time(0, owd_filt'.y)
<1>1. rtOpts \in RunTimeOpts /\ FilterBounded(owd_filt) /\ owd_filt \in FilterType
      /\ Billion \in Nat \ {0, 1}
  BY WorldTyped, BillionAssumption DEF Parts, DelaysOK, FilterBounded
<1>2. owd_filt.y \in 0 .. L /\ owd_filt.nsec_prev \in 0 .. L
  BY DEF FilterWithin
<1>3. CASE mean.seconds # 0
  <2>1. /\ owd_filt' = [nsec_prev |-> 0, y |-> owd_filt.y, s_exp |-> 0]
        /\ FilteredDelay(mean) = mean
    BY <1>3 DEF FilterDelay, FilteredDelay
  <2>2. owd_filt' \in FilterType /\ owd_filt'.y = owd_filt.y /\ owd_filt'.nsec_prev = 0
    BY <1>2, <2>1 DEF FilterType
  <2>3. QED
    BY <1>2, <1>3, <2>1, <2>2 DEF FilterWithin
<1>4. CASE mean.seconds = 0
  <2>1. /\ owd_filt' = Filtered(owd_filt, mean.nanoseconds)
        /\ FilteredDelay(mean) = Time(0, owd_filt'.y)
    BY <1>4 DEF FilterDelay, FilteredDelay
  <2> DEFINE B == IF L < Billion THEN L ELSE Billion - 1
             x == mean.nanoseconds
  <2>2. x \in 0 .. L /\ x < Billion
    <3>1. x = Value(mean) /\ Abs(Value(mean)) < Billion
      BY <1>4, NormalSeconds
    <3>2. QED
      BY <3>1 DEF Abs
  <2>3. B \in Nat /\ B <= L /\ B < 2 ^ IntBits
    <3>1. 2 ^ IntBits \in Nat
      BY PowersOfTwo, OptionsAssumption
    <3>2. QED
      BY <1>1, <3>1 DEF WidthFits
  <2>4. Abs(owd_filt.y) <= B /\ Abs(owd_filt.nsec_prev) <= B /\ Abs(x) <= B
    BY <1>1, <1>2, <2>2 DEF FilterBounded, SubSecond, Abs
  <2>5. x \in Int /\ x >= 0 /\ owd_filt.y >= 0 /\ owd_filt.nsec_prev >= 0
    BY <1>2, <2>2
  <2> HIDE DEF B, x
  <2>6. owd_filt \in [nsec_prev : Int, y : Int, s_exp : Nat]
    BY <1>1 DEF FilterType
  <2>7. /\ Filtered(owd_filt, x) \in FilterType
        /\ Filtered(owd_filt, x).nsec_prev = x
        /\ Abs(Filtered(owd_filt, x).y) <= B
        /\ Filtered(owd_filt, x).y >= 0
    BY <1>1, <2>3, <2>4, <2>5, <2>6, FilteredBounds DEF FilterType
  <2>8. /\ owd_filt' \in FilterType /\ owd_filt'.nsec_prev = x
        /\ owd_filt'.y \in Int /\ owd_filt'.y >= 0 /\ owd_filt'.y <= L
    BY <2>1, <2>3, <2>7 DEF FilterType, Abs, x
  <2>9. Value(FilteredDelay(mean)) = owd_filt'.y
    BY <2>1, <2>8, SubSecondValue
  <2>10. QED
    BY <2>1, <2>2, <2>8, <2>9 DEF FilterWithin, x
<1>5. QED
  BY <1>3, <1>4

(* Half of a time that is not negative.                                      *)
LEMMA HalvedWithin ==
    ASSUME NEW t \in TimeInternal, IsNormal(t), NEW L \in Nat, Value(t) \in 0 .. 2 * L
    PROVE  Halved(t) \in TimeInternal /\ IsNormal(Halved(t)) /\ Value(Halved(t)) \in 0 .. L
<1>1. Halved(t) \in TimeInternal /\ IsNormal(Halved(t))
  BY MeansTyped DEF Kept
<1> DEFINE s == Quot(t.seconds, 2)
           n == Quot(t.nanoseconds, 2)
<1>2. t.seconds \in Int /\ t.nanoseconds \in Int /\ t.seconds >= 0 /\ t.nanoseconds >= 0
  BY NormalSeconds
<1>3. s \in Int /\ n \in Int /\ s >= 0 /\ n >= 0 /\ 2 * s <= t.seconds
      /\ 2 * n <= t.nanoseconds
  <2>1. 2 \in Nat \ {0}
    OBVIOUS
  <2>2. QED
    BY <1>2, <2>1, QuotBounds, Zenon
<1>4. Value(Halved(t)) = s * Billion + n
  BY DEF Halved, Value, Time
<1>5. Value(t) = t.seconds * Billion + t.nanoseconds
  BY DEF Value
<1> HIDE DEF s, n
<1>6. Billion \in Nat
  BY BillionAssumption
<1>7. s * Billion \in Nat /\ (2 * s) * Billion <= t.seconds * Billion
      /\ (2 * s) * Billion = 2 * (s * Billion) /\ t.seconds * Billion \in Int
  <2>1. \A i, j \in Int : i <= j => i * Billion <= j * Billion
    BY <1>6
  <2>2. 2 * s \in Int
    BY <1>3
  <2>3. (2 * s) * Billion <= t.seconds * Billion
    BY <1>2, <1>3, <2>1, <2>2
  <2>4. s * Billion \in Nat /\ (2 * s) * Billion = 2 * (s * Billion)
        /\ t.seconds * Billion \in Int
    BY <1>2, <1>3, <1>6
  <2>5. QED
    BY <2>3, <2>4
<1>8. QED
  BY <1>1, <1>2, <1>3, <1>4, <1>5, <1>7

-------------------------------------------------------------------------------
(* The peer to peer delay                                                    *)

(* Whatever the clocks do between its measurements, the delay lies between   *)
(* nothing and the longest path.                                             *)
PeerPath ==
    ~rtOpts.E2E_mode =>
        /\ FilterWithin(owd_filt, MaxPathDelay)
        /\ Value(peerMeanPathDelay) \in 0 .. MaxPathDelay

LEMMA PeerDelayWithin ==
    ASSUME Parts, WidthFits, Asked, PeerPath, NEW d \in PathDelay,
           NEW c \in Residence[FALSE], NEW twoStep \in BOOLEAN,
           handlePDelayResp(d, c, twoStep)
    PROVE  PeerPath'
<1> DEFINE t1 == measuring.t1
           t3 == measuring.t2
           t4 == ToTime(Value(t3) + d + c + theta)
           there == subTime(t3, t1)
           back == subTime(t4, t3)
           round == subTime(t4, t1)
           roundTrip == IF twoStep THEN addTime(back, there) ELSE round
           C1 == ToTime(measuring.correction)
           C2 == ToTime(c)
           correctionField == addTime(C1, C2)
           trip == subTime(roundTrip, correctionField)
<1>1. ~rtOpts.E2E_mode /\ measuring.stage = "asked" /\ rtOpts' = rtOpts
  BY DEF handlePDelayResp
<1>2. PICK e \in PathDelay : Value(t3) - Value(t1) = e + measuring.correction - theta
  BY <1>1 DEF Asked
<1>3. /\ t1 \in TimeInternal /\ t3 \in TimeInternal
      /\ measuring.correction \in Int /\ c \in Int /\ theta \in Int
      /\ d \in 0 .. MaxPathDelay /\ e \in 0 .. MaxPathDelay /\ MaxPathDelay \in Nat
      /\ Value(t1) \in Int /\ Value(t3) \in Int
  <2>1. t1 \in TimeInternal /\ t3 \in TimeInternal /\ measuring.correction \in Int
    BY DEF Parts, WorldOK
  <2>2. Value(t1) \in Int /\ Value(t3) \in Int
    BY <2>1, ValueTyped
  <2> HIDE DEF t1, t3
  <2>3. /\ c \in Nat /\ theta \in Int /\ MaxPathDelay \in Nat
        /\ d \in 0 .. MaxPathDelay /\ e \in 0 .. MaxPathDelay
    BY WorldTyped, Zenon
  <2>4. QED
    BY <2>1, <2>2, <2>3
<1> HIDE DEF t1, t3
<1>4. /\ t4 \in TimeInternal /\ Value(t4) = Value(t3) + d + c + theta
      /\ C1 \in TimeInternal /\ Value(C1) = measuring.correction
      /\ C2 \in TimeInternal /\ Value(C2) = c
  BY <1>3, ToTimeIsExact
<1> HIDE DEF t4, C1, C2
<1>5. /\ there \in TimeInternal /\ Value(there) = e + measuring.correction - theta
      /\ back \in TimeInternal /\ Value(back) = d + c + theta
      /\ round \in TimeInternal /\ Value(round) = d + c + e + measuring.correction
      /\ correctionField \in TimeInternal
      /\ Value(correctionField) = measuring.correction + c
  <2>1. there \in TimeInternal /\ Value(there) = Value(t3) - Value(t1)
    BY <1>3, SumsAreExact
  <2>2. back \in TimeInternal /\ Value(back) = Value(t4) - Value(t3)
    BY <1>3, <1>4, SumsAreExact
  <2>3. round \in TimeInternal /\ Value(round) = Value(t4) - Value(t1)
    BY <1>3, <1>4, SumsAreExact
  <2>4. correctionField \in TimeInternal
        /\ Value(correctionField) = Value(C1) + Value(C2)
    BY <1>4, SumsAreExact
  <2> HIDE DEF there, back, round, correctionField
  <2>5. Value(there) = e + measuring.correction - theta
    BY <1>2, <2>1
  <2>6. Value(back) = d + c + theta
    BY <1>3, <1>4, <2>2
  <2>7. Value(round) = d + c + e + measuring.correction
    <3>1. Value(round) = (Value(t3) - Value(t1)) + d + c + theta
      BY <1>3, <1>4, <2>3
    <3>2. Value(round) = (e + measuring.correction - theta) + d + c + theta
      BY <1>2, <3>1
    <3>3. d \in Int /\ e \in Int
      BY <1>3
    <3>4. QED
      BY <1>3, <3>2, <3>3
  <2>8. Value(correctionField) = measuring.correction + c
    BY <1>4, <2>4
  <2>9. QED
    BY <2>1, <2>2, <2>3, <2>4, <2>5, <2>6, <2>7, <2>8
<1> HIDE DEF there, back, round, correctionField
<1>6. roundTrip \in TimeInternal /\ Value(roundTrip) = d + c + e + measuring.correction
  <2>1. addTime(back, there) \in TimeInternal
        /\ Value(addTime(back, there)) = d + c + e + measuring.correction
    BY <1>3, <1>5, SumsAreExact
  <2>2. QED
    BY <1>5, <2>1
<1> HIDE DEF roundTrip
<1>7. trip \in TimeInternal /\ IsNormal(trip) /\ Value(trip) = d + e
  BY <1>3, <1>5, <1>6, SumsAreExact
<1>8. /\ FilterDelay(Halved(trip))
      /\ peerMeanPathDelay' = FilteredDelay(Halved(trip))
  BY DEF handlePDelayResp, updatePeerDelay, roundTrip, correctionField, trip, round,
         back, there, t1, t3, t4, C1, C2
<1> HIDE DEF trip
<1>9. /\ Halved(trip) \in TimeInternal /\ IsNormal(Halved(trip))
      /\ Value(Halved(trip)) \in 0 .. MaxPathDelay
  <2>1. Value(trip) \in 0 .. 2 * MaxPathDelay
    BY <1>3, <1>7
  <2>2. QED
    BY <1>3, <1>7, <2>1, HalvedWithin
<1>10. FilterWithin(owd_filt, MaxPathDelay)
  BY <1>1 DEF PeerPath
<1>11. /\ FilterWithin(owd_filt', MaxPathDelay)
       /\ Value(FilteredDelay(Halved(trip))) \in 0 .. MaxPathDelay
  BY <1>3, <1>8, <1>9, <1>10, DelayWithin
<1>12. QED
  BY <1>8, <1>11 DEF PeerPath

(* updateClock() and initClock() leave the delays alone.                     *)
LEMMA SyncKeepsFilter ==
    ASSUME Parts, NEW sent \in Epochs, NEW d \in PathDelay,
           NEW c \in Residence[rtOpts.E2E_mode], handleSync(sent, d, c)
    PROVE  /\ owd_filt' \in {owd_filt, [owd_filt EXCEPT !.s_exp = 0]}
           /\ UNCHANGED <<rtOpts, meanPathDelay, peerMeanPathDelay>>
<1>1. ServoInv
  BY InvOfParts
<1>2. sent \in Int /\ c \in Int /\ sent + d + c + theta \in Int
  <2>1. c \in Nat /\ sent \in Nat /\ d \in Nat /\ theta \in Int
    BY WorldTyped
  <2>2. QED
    BY <2>1
<1>3. /\ ToTime(sent) \in TimeInternal /\ ToTime(sent + d + c + theta) \in TimeInternal
      /\ ToTime(c) \in TimeInternal
  BY <1>2, ToTimeIsExact
<1>4. Kept(offsetFromMaster') /\ UNCHANGED <<meanPathDelay, peerMeanPathDelay>>
  BY <1>1, <1>3, OffsetUpdated DEF handleSync
<1>5. QED
  BY <1>1, <1>4, ClockUpdated DEF handleSync

LEMMA PeerPathInductive ==
    ASSUME Prompt, Parts, WidthFits, Asked, PeerPath, [Next]_vars
    PROVE  PeerPath'
<1>1. CASE AnyPDelayResp
  BY <1>1, PeerDelayWithin DEF AnyPDelayResp
<1>2. CASE AnySync \/ StateChange
  <2>1. /\ owd_filt' \in {owd_filt, [owd_filt EXCEPT !.s_exp = 0]}
        /\ rtOpts' = rtOpts /\ peerMeanPathDelay' \in {peerMeanPathDelay, Zero}
    BY <1>2, SyncKeepsFilter, StateChangeEffect DEF AnySync
  <2>2. owd_filt \in FilterType
    BY DEF Parts, DelaysOK, FilterBounded
  <2>3. owd_filt' \in FilterType /\ owd_filt'.y = owd_filt.y
        /\ owd_filt'.nsec_prev = owd_filt.nsec_prev
    BY <2>1, <2>2, FilterKeepsValues
  <2>4. QED
    BY <2>1, <2>3, ZeroTyped, WorldAssumption DEF PeerPath, FilterWithin
<1>3. CASE handleDelayResp
  BY <1>3 DEF handleDelayResp, PeerPath
<1>4. CASE Second \/ AnyRequest \/ (\E j \in Jumps[rtOpts.E2E_mode] : Jump(j))
           \/ UNCHANGED vars
  <2>1. UNCHANGED <<rtOpts, owd_filt, peerMeanPathDelay>>
    BY <1>4 DEF Second, AnyRequest, issueRequest, Jump, vars, delays
  <2>2. QED
    BY <2>1 DEF PeerPath, FilterWithin
<1>5. QED
  BY <1>1, <1>2, <1>3, <1>4 DEF Next

LEMMA PeerPathInit ==
    ASSUME Parts, Init
    PROVE  Asked /\ PeerPath
<1>1. Asked
  BY DEF Init, Asked, NoExchange
<1>2. owd_filt.y = 0 /\ owd_filt.nsec_prev = 0 /\ owd_filt \in FilterType
      /\ peerMeanPathDelay = Zero
  BY DEF Init, FilterType
<1>3. QED
  BY <1>1, <1>2, ZeroTyped, WorldAssumption DEF PeerPath, FilterWithin

(* A peer to peer delay is never negative and never longer than the longest  *)
(* path, for any options, drift and jumps of the master's time: what is      *)
(* subtracted from every offset is a delay and not the distance of clocks.   *)
(* It takes that the clock is not steered between the two halves of a        *)
(* measurement.                                                              *)
PeerDelayPlausible ==
    ~rtOpts.E2E_mode => Value(peerMeanPathDelay) \in 0 .. MaxPathDelay
THEOREM PeerDelayIsPlausible ==
    ASSUME WidthFits, Prompt
    PROVE  Spec => []PeerDelayPlausible
<1>1. Init => Parts /\ Asked /\ PeerPath
  BY InitHasInv, PeerPathInit
<1>2. Parts /\ Asked /\ PeerPath /\ [Next]_vars => (Parts /\ Asked /\ PeerPath)'
  BY NextKeepsInv, AskedInductive, PeerPathInductive
<1>3. Parts /\ Asked /\ PeerPath => PeerDelayPlausible
  BY DEF PeerPath, PeerDelayPlausible
<1>4. QED
  BY <1>1, <1>2, <1>3, PTL DEF Spec

-------------------------------------------------------------------------------
(* The control loop                                                          *)

(* One Sync of the controller seen from one side, x being the offset of      *)
(* the clock, D and D1 the drift before and after, v what the clock is       *)
(* moved by: where the offset is large the drift gains K, and the bound does *)
(* not move, or is at its limit, and the clock does not.                     *)
LEMMA OneSideHeld ==
    ASSUME NEW K \in Nat, NEW S \in Nat, NEW A \in Nat, NEW M \in Int,
           NEW T \in Int, NEW x \in Int, NEW v \in Int, NEW D \in Int,
           NEW D1 \in Int,
           K * (T + S) + S * A <= K * M,
           v <= S, D <= A, D1 >= -A,
           K * x - S * D <= K * M,
           x > T => D1 >= D + K \/ (D1 = A /\ v <= 0)
    PROVE  K * (x + v) - S * D1 <= K * M
<1>1. K * (x + v) = K * x + K * v
  OBVIOUS
<1>2. \A a, b \in Int : a <= b => K * a <= K * b /\ S * a <= S * b
  OBVIOUS
<1>3. K * x \in Int /\ K * v \in Int /\ S * D \in Int /\ S * D1 \in Int
      /\ K * M \in Int /\ S * A \in Int /\ K * S \in Int
  OBVIOUS
<1>4. CASE x > T /\ D1 >= D + K
  <2>1. K * v <= K * S
    BY <1>2
  <2>2. S * (D + K) <= S * D1
    BY <1>2, <1>4
  <2>3. S * (D + K) = S * D + K * S
    OBVIOUS
  <2>4. QED
    BY <1>1, <1>3, <2>1, <2>2, <2>3
<1>5. CASE x > T /\ D1 = A /\ v <= 0
  <2>1. K * v <= K * 0
    BY <1>2, <1>5
  <2>2. S * D <= S * D1
    BY <1>2, <1>5
  <2>3. QED
    BY <1>1, <1>3, <2>1, <2>2
<1>6. CASE x <= T
  <2>1. K * (x + v) <= K * (T + S)
    BY <1>2, <1>6
  <2>2. S * (-A) <= S * D1
    BY <1>2
  <2>3. S * (-A) = -(S * A)
    OBVIOUS
  <2>4. K * (x + v) \in Int /\ K * (T + S) \in Int
    OBVIOUS
  <2>5. QED
    BY <1>3, <2>1, <2>2, <2>3, <2>4
<1>7. QED
  BY <1>4, <1>5, <1>6

(* The quotient of an offset of at least K times the divisor.                *)
LEMMA LargeQuotient ==
    ASSUME NEW K \in Nat, NEW b \in Nat \ {0}, NEW o \in Int
    PROVE  /\ Quot(o, b) \in Int
           /\ o >= K * b => Quot(o, b) >= K
           /\ o <= -(K * b) => Quot(o, b) <= -K
<1>1. /\ Quot(o, b) \in Int
      /\ o >= 0 => Quot(o, b) >= 0 /\ b * Quot(o, b) <= o /\ o < b * Quot(o, b) + b
      /\ o <= 0 => Quot(o, b) <= 0 /\ b * Quot(o, b) >= o /\ o > b * Quot(o, b) - b
  BY QuotBounds, Zenon
<1> DEFINE q == Quot(o, b)
<1> HIDE DEF q
<1>2. \A i, j \in Int : b * i < b * j => i < j
  OBVIOUS
<1>3. K * b \in Nat
  OBVIOUS
<1>4. ASSUME o >= K * b PROVE q >= K
  <2>1. b * K < b * (q + 1) /\ q \in Int
    BY <1>1, <1>3, <1>4 DEF q
  <2>2. K < q + 1
    BY <1>2, <2>1
  <2>3. QED
    BY <2>1, <2>2
<1>5. ASSUME o <= -(K * b) PROVE q <= -K
  <2>1. b * (q - 1) < b * (-K) /\ q \in Int
    BY <1>1, <1>3, <1>5 DEF q
  <2>2. q - 1 < -K
    BY <1>2, <2>1
  <2>3. QED
    BY <2>1, <2>2
<1>6. QED
  BY <1>1, <1>4, <1>5 DEF q

(* What SteerClock() makes of an offset.                                     *)
Steered(D, D1, f, o, ai, ap) ==
    D1 = Clamp(D + Quot(o, ai)) /\ f = Clamp(-(Quot(o, ap) + D1))

(* The controller moves a far clock towards zero: the drift gains K, or is   *)
(* at its limit and so is the frequency.                                     *)
PushesBack(K, ai, o, D, D1, f) ==
    /\ D1 \in -AdjFreqMax .. AdjFreqMax
    /\ f \in -AdjFreqMax .. AdjFreqMax
    /\ o >= 0 => D1 >= D /\ f <= -D1
    /\ o <= 0 => D1 <= D /\ f >= -D1
    /\ o >= K * ai => D1 >= D + K \/ (D1 = AdjFreqMax /\ f = -AdjFreqMax)
    /\ o <= -(K * ai) => D1 <= D - K \/ (D1 = -AdjFreqMax /\ f = AdjFreqMax)

LEMMA ControllerStep ==
    ASSUME NEW K \in Nat, NEW ai \in Nat \ {0}, NEW ap \in Nat \ {0},
           NEW D \in -AdjFreqMax .. AdjFreqMax, NEW o \in Int,
           NEW D1, NEW f, Steered(D, D1, f, o, ai, ap)
    PROVE  PushesBack(K, ai, o, D, D1, f)
<1> DEFINE qi == Quot(o, ai)
           qp == Quot(o, ap)
<1>1. /\ qi \in Int /\ qp \in Int
      /\ o >= 0 => qi >= 0 /\ qp >= 0
      /\ o <= 0 => qi <= 0 /\ qp <= 0
      /\ o >= K * ai => qi >= K
      /\ o <= -(K * ai) => qi <= -K
  BY QuotBounds, LargeQuotient, Zenon
<1>2. K * ai \in Nat
  OBVIOUS
<1> HIDE DEF qi, qp
<1>3. D1 = Clamp(D + qi) /\ f = Clamp(-(qp + D1))
  BY DEF Steered, qi, qp
<1>4. D \in Int /\ AdjFreqMax \in Nat
  BY AdjFreqMaxAssumption
<1>5. /\ D1 \in -AdjFreqMax .. AdjFreqMax
      /\ o >= 0 => D1 >= D
      /\ o <= 0 => D1 <= D
      /\ o >= K * ai => D1 >= D + K \/ D1 = AdjFreqMax
      /\ o <= -(K * ai) => D1 <= D - K \/ D1 = -AdjFreqMax
  BY <1>1, <1>2, <1>3, <1>4 DEF Clamp
<1>6. /\ f \in -AdjFreqMax .. AdjFreqMax
      /\ o >= 0 => f <= -D1
      /\ o <= 0 => f >= -D1
  BY <1>1, <1>3, <1>4, <1>5 DEF Clamp
<1>7. QED
  BY <1>2, <1>4, <1>5, <1>6 DEF PushesBack

(* Twice the half, rounded towards zero, is the number or one next to it.    *)
HalfOf(a) ==
    /\ Quot(a, 2) \in Int
    /\ 2 * Quot(a, 2) <= a + 1 /\ 2 * Quot(a, 2) >= a - 1
    /\ a >= 0 => Quot(a, 2) >= 0
    /\ a <= 0 => Quot(a, 2) <= 0
LEMMA HalfIsClose == ASSUME NEW a \in Int PROVE HalfOf(a)
<1>1. 2 \in Nat \ {0}
  OBVIOUS
<1>2. /\ Quot(a, 2) \in Int
      /\ a >= 0 => Quot(a, 2) >= 0 /\ 2 * Quot(a, 2) <= a /\ a < 2 * Quot(a, 2) + 2
      /\ a <= 0 => Quot(a, 2) <= 0 /\ 2 * Quot(a, 2) >= a /\ a > 2 * Quot(a, 2) - 2
  BY <1>1, QuotBounds, Zenon
<1>3. QED
  BY <1>2 DEF HalfOf

-------------------------------------------------------------------------------
(* The end to end loop                                                       *)

LEMMA TameFacts ==
    ASSUME Tame, Parts, rtOpts.E2E_mode
    PROVE  /\ Prompt /\ Plain(rtOpts)
           /\ Residence[rtOpts.E2E_mode] = {0} /\ Jumps[rtOpts.E2E_mode] = {}
           /\ \A d \in PathDelay : d \in 0 .. MaxPathDelay /\ Drift <= 2 * d
           /\ Abs(Skew) <= AdjFreqMax /\ 2 * MaxPathDelay + Drift < Word64
           /\ \E K, M \in 1 .. Billion : Tames(K, M, AtLeastOne(rtOpts.ai))
<1>1. rtOpts \in Options /\ rtOpts.E2E_mode = TRUE
  BY WorldTyped DEF Parts
<1>2. QED
  BY <1>1, WorldTyped DEF Tame

(* The longest mean two paths and the drift between their measurements make. *)
Longest == (2 * MaxPathDelay + Drift) \div 2

LEMMA LongestBounds ==
    /\ Longest \in Nat /\ MaxPathDelay \in Nat /\ Slew \in Nat /\ Drift \in Nat
    /\ 2 * Longest <= 2 * MaxPathDelay + Drift
    /\ \A n \in 0 .. 2 * MaxPathDelay + Drift : n \div 2 \in 0 .. Longest
<1>1. MaxPathDelay \in Nat /\ Slew \in Nat /\ MaxSilence \in Nat
  BY WorldAssumption, AdjFreqMaxAssumption DEF Slew, Abs
<1>2. Drift \in Nat
  BY <1>1 DEF Drift
<1>3. QED
  BY <1>1, <1>2 DEF Longest

(* What passes between two Syncs, in seconds and in what the clocks drift.   *)
LEMMA SilenceBounds ==
    ASSUME NEW n \in 0 .. MaxSilence
    PROVE  /\ n * Slew \in Nat /\ n * Slew <= Drift
           /\ n * Skew \in Int /\ MaxSilence * Abs(Skew) \in Nat
           /\ Abs(n * Skew) <= MaxSilence * Abs(Skew)
           /\ MaxSilence * Abs(Skew) <= Drift
<1>1. Slew \in Nat /\ MaxSilence \in Nat /\ Skew \in Int /\ Abs(Skew) \in Nat
      /\ Abs(Skew) <= Slew
  BY WorldAssumption, AdjFreqMaxAssumption DEF Slew, Abs
<1>2. n \in Nat /\ n <= MaxSilence
  BY <1>1
<1>3. \A a, b, c \in Nat : a <= b => a * c <= b * c
  OBVIOUS
<1>4. \A a, b, c \in Nat : b <= c => a * b <= a * c
  OBVIOUS
<1>5. /\ n * Slew \in Nat /\ n * Slew <= MaxSilence * Slew
      /\ n * Abs(Skew) <= MaxSilence * Abs(Skew) /\ n * Abs(Skew) \in Nat
      /\ MaxSilence * Abs(Skew) \in Nat
      /\ MaxSilence * Abs(Skew) <= MaxSilence * Slew
  BY <1>1, <1>2, <1>3, <1>4
<1>6. n * Skew \in Int /\ Abs(n * Skew) = n * Abs(Skew)
  <2>1. n * Skew \in Int /\ n * (-Skew) = -(n * Skew)
        /\ (Skew >= 0 => n * Skew >= 0) /\ (Skew <= 0 => n * Skew <= 0)
    BY <1>1, <1>2
  <2>2. QED
    BY <1>1, <1>2, <2>1 DEF Abs
<1>7. QED
  BY <1>5, <1>6 DEF Drift

LEMMA TamesBounds ==
    ASSUME NEW K \in 1 .. Billion, NEW M \in 1 .. Billion, NEW ai \in Nat \ {0},
           Tames(K, M, ai)
    PROVE  /\ MaxPathDelay + 2 * Drift <= M /\ M < Billion /\ Longest < Billion
           /\ K * (MaxPathDelay + Drift) + Drift * AdjFreqMax <= K * M
<1>1. MaxPathDelay \in Nat /\ Drift \in Nat /\ AdjFreqMax \in Nat /\ Billion \in Nat
      /\ K \in Nat \ {0} /\ M \in Nat /\ 2 * Longest <= 2 * MaxPathDelay + Drift
      /\ Longest \in Nat
  BY LongestBounds, AdjFreqMaxAssumption, BillionAssumption
<1>2. K * (K * ai + MaxPathDelay + 2 * Drift) + Drift * AdjFreqMax <= K * M
      /\ K * M + Drift * AdjFreqMax + K * MaxPathDelay < K * Billion
  BY DEF Tames
<1>3. Drift * AdjFreqMax \in Nat /\ K * MaxPathDelay \in Nat /\ K * M \in Nat
      /\ K * ai \in Nat /\ K * Billion \in Nat
  BY <1>1
<1>4. \A a, b \in Int : (a <= b => K * a <= K * b) /\ (K * a <= K * b => a <= b)
  BY <1>1
<1>5. K * (MaxPathDelay + 2 * Drift) <= K * (K * ai + MaxPathDelay + 2 * Drift)
      /\ K * (MaxPathDelay + Drift) <= K * (K * ai + MaxPathDelay + 2 * Drift)
      /\ K * (MaxPathDelay + 2 * Drift) \in Int /\ K * (MaxPathDelay + Drift) \in Int
      /\ K * (K * ai + MaxPathDelay + 2 * Drift) \in Int
  BY <1>1, <1>3, <1>4
<1>6. K * (MaxPathDelay + 2 * Drift) <= K * M
      /\ K * (MaxPathDelay + Drift) + Drift * AdjFreqMax <= K * M
  BY <1>2, <1>3, <1>5
<1>7. MaxPathDelay + 2 * Drift <= M
  BY <1>1, <1>4, <1>6
<1>8. M < Billion
  <2>1. K * M < K * Billion
    BY <1>2, <1>3
  <2>2. ~(K * Billion <= K * M)
    BY <1>3, <2>1
  <2>3. QED
    BY <1>1, <1>4, <2>2
<1>9. QED
  BY <1>1, <1>6, <1>7, <1>8

(* The offset, weighed against the drift already learnt.                     *)
Held(K, M, x, D) == K * x - Drift * D <= K * M /\ K * x - Drift * D >= -(K * M)

(* A held clock is less than a second off, with the delay of a path to spare.*)
LEMMA HeldIsNear ==
    ASSUME NEW K \in 1 .. Billion, NEW M \in 1 .. Billion, NEW ai \in Nat \ {0},
           Tames(K, M, ai), NEW x \in Int, NEW D \in -AdjFreqMax .. AdjFreqMax,
           Held(K, M, x, D)
    PROVE  Abs(x) + MaxPathDelay < Billion
<1>1. MaxPathDelay \in Nat /\ Drift \in Nat /\ AdjFreqMax \in Nat /\ Billion \in Nat
      /\ K \in Nat \ {0} /\ M \in Nat
  BY LongestBounds, AdjFreqMaxAssumption, BillionAssumption
<1>2. K * M + Drift * AdjFreqMax + K * MaxPathDelay < K * Billion
  BY DEF Tames
<1>3. \A a, b \in Int : (a <= b => Drift * a <= Drift * b)
  BY <1>1
<1>4. Drift * D <= Drift * AdjFreqMax /\ Drift * (-AdjFreqMax) <= Drift * D
      /\ Drift * (-AdjFreqMax) = -(Drift * AdjFreqMax) /\ Drift * D \in Int
      /\ Drift * AdjFreqMax \in Int
  BY <1>1, <1>3
<1>5. K * x \in Int /\ K * M \in Int /\ K * MaxPathDelay \in Int /\ K * Billion \in Int
  BY <1>1
<1>6. K * x + K * MaxPathDelay < K * Billion /\ -(K * x) + K * MaxPathDelay < K * Billion
  BY <1>2, <1>4, <1>5 DEF Held
<1>7. K * (x + MaxPathDelay) < K * Billion /\ K * (-x + MaxPathDelay) < K * Billion
  <2>1. K * (x + MaxPathDelay) = K * x + K * MaxPathDelay
        /\ K * (-x + MaxPathDelay) = -(K * x) + K * MaxPathDelay
    BY <1>1
  <2>2. QED
    BY <1>6, <2>1
<1>8. \A a, b \in Int : K * a < K * b => a < b
  BY <1>1
<1>9. x + MaxPathDelay < Billion /\ -x + MaxPathDelay < Billion
  BY <1>1, <1>7, <1>8
<1>10. QED
  BY <1>1, <1>9 DEF Abs

(* What the clock moves by until the next Sync: k1 seconds at the frequency  *)
(* set by the last one and k2 at the drift learnt alone, after initClock().  *)
Move(k1, k2, f, D) == k1 * (Skew + f) + k2 * (Skew - D)

LEMMA MoveBounds ==
    ASSUME NEW k1 \in Nat, NEW k2 \in Nat, k1 + k2 <= MaxSilence,
           NEW f \in -AdjFreqMax .. AdjFreqMax, NEW D \in -AdjFreqMax .. AdjFreqMax
    PROVE  /\ Move(k1, k2, f, D) \in Int
           /\ Move(k1, k2, f, D) <= Drift /\ -Move(k1, k2, f, D) <= Drift
           /\ Skew + f <= 0 /\ Skew - D <= 0 => Move(k1, k2, f, D) <= 0
           /\ Skew + f >= 0 /\ Skew - D >= 0 => Move(k1, k2, f, D) >= 0
           /\ f <= 0 /\ D >= 0 => Move(k1, k2, f, D) <= MaxSilence * Abs(Skew)
           /\ f >= 0 /\ D <= 0 => -Move(k1, k2, f, D) <= MaxSilence * Abs(Skew)
<1> DEFINE a == Skew + f
           b == Skew - D
           S == Abs(Skew)
<1>1. /\ Slew \in Nat /\ MaxSilence \in Nat /\ AdjFreqMax \in Nat /\ Skew \in Int
      /\ S \in Nat /\ Slew = AdjFreqMax + S /\ Skew <= S /\ -Skew <= S
  BY WorldAssumption, AdjFreqMaxAssumption DEF Slew, Abs
<1>2. /\ a \in Int /\ b \in Int /\ a <= Slew /\ b <= Slew /\ -a <= Slew /\ -b <= Slew
      /\ (f <= 0 => a <= S) /\ (f >= 0 => -a <= S)
      /\ (D >= 0 => b <= S) /\ (D <= 0 => -b <= S)
  BY <1>1
<1> HIDE DEF S
<1>3. ASSUME NEW u \in Int, NEW w \in Int, NEW L \in Nat, u <= L, w <= L
      PROVE  k1 * u + k2 * w <= MaxSilence * L
  <2>1. \A i, j \in Int : i <= j => k1 * i <= k1 * j /\ k2 * i <= k2 * j
    OBVIOUS
  <2>2. k1 * u <= k1 * L /\ k2 * w <= k2 * L
    BY <1>3, <2>1
  <2>3. \A i, j \in Nat : i <= j => i * L <= j * L
    OBVIOUS
  <2>4. (k1 + k2) * L <= MaxSilence * L
    BY <1>1, <2>3
  <2>5. (k1 + k2) * L = k1 * L + k2 * L
    OBVIOUS
  <2>6. k1 * u \in Int /\ k2 * w \in Int /\ k1 * L \in Int /\ k2 * L \in Int
        /\ MaxSilence * L \in Int
    BY <1>1
  <2>7. QED
    BY <2>2, <2>4, <2>5, <2>6
<1>4. Move(k1, k2, f, D) = k1 * a + k2 * b
  BY DEF Move
<1>5. k1 * (-a) + k2 * (-b) = -(k1 * a + k2 * b) /\ k1 * a + k2 * b \in Int
      /\ -a \in Int /\ -b \in Int
  <2> HIDE DEF a, b
  <2>1. k1 * (-a) = -(k1 * a) /\ k2 * (-b) = -(k2 * b)
        /\ k1 * a \in Int /\ k2 * b \in Int
    BY <1>2
  <2>2. QED
    BY <1>2, <2>1
<1> HIDE DEF a, b
<1>6. /\ k1 * a + k2 * b <= MaxSilence * Slew
      /\ k1 * (-a) + k2 * (-b) <= MaxSilence * Slew
  BY <1>1, <1>2, <1>3, <1>5
<1>7. /\ a <= 0 /\ b <= 0 => k1 * a + k2 * b <= MaxSilence * 0
      /\ -a <= 0 /\ -b <= 0 => k1 * (-a) + k2 * (-b) <= MaxSilence * 0
  BY <1>2, <1>3, <1>5
<1>8. /\ f <= 0 /\ D >= 0 => k1 * a + k2 * b <= MaxSilence * S
      /\ f >= 0 /\ D <= 0 => k1 * (-a) + k2 * (-b) <= MaxSilence * S
  BY <1>1, <1>2, <1>3, <1>5
<1>9. MaxSilence * 0 = 0 /\ MaxSilence * S \in Nat /\ MaxSilence * Slew \in Nat
      /\ (-a <= 0 <=> a >= 0) /\ (-b <= 0 <=> b >= 0)
  BY <1>1, <1>2
<1>10. QED
  BY <1>4, <1>5, <1>6, <1>7, <1>8, <1>9 DEF Drift, a, b, S

(* A Sync holds a held clock until the next one.                             *)
LEMMA ControllerHolds ==
    ASSUME NEW K \in 1 .. Billion, NEW M \in 1 .. Billion, NEW ai \in Nat \ {0},
           NEW ap \in Nat \ {0}, Tames(K, M, ai), Abs(Skew) <= AdjFreqMax,
           NEW x \in Int, NEW D \in -AdjFreqMax .. AdjFreqMax, Held(K, M, x, D),
           NEW o \in Int, 2 * Abs(o - x) <= 2 * MaxPathDelay + Drift + 2,
           NEW D1, NEW f, Steered(D, D1, f, o, ai, ap),
           NEW k1 \in Nat, NEW k2 \in Nat, k1 + k2 <= MaxSilence
    PROVE  Held(K, M, x + Move(k1, k2, f, D1), D1)
<1> DEFINE T == K * ai + MaxPathDelay + Drift
           A == AdjFreqMax
           v == Move(k1, k2, f, D1)
<1>1. MaxPathDelay \in Nat /\ Drift \in Nat /\ A \in Nat /\ Skew \in Int
      /\ K \in Nat /\ M \in Nat
  BY LongestBounds, AdjFreqMaxAssumption, WorldAssumption
<1>2. K * ai \in Nat /\ T \in Int
  BY <1>1
<1>3. /\ D1 \in -A .. A /\ f \in -A .. A
      /\ o >= K * ai => D1 >= D + K \/ (D1 = A /\ f = -A)
      /\ o <= -(K * ai) => D1 <= D - K \/ (D1 = -A /\ f = A)
  <2>1. PushesBack(K, ai, o, D, D1, f)
    BY <1>1, ControllerStep
  <2>2. QED
    BY <1>1, <2>1 DEF PushesBack
<1>4. K * (T + Drift) + Drift * A <= K * M
  <2>1. T + Drift = K * ai + MaxPathDelay + 2 * Drift
    BY <1>1, <1>2
  <2>2. QED
    BY <2>1 DEF Tames
<1>5. x > T => o >= K * ai
  BY <1>1, <1>2 DEF Abs
<1>6. -x > T => o <= -(K * ai)
  BY <1>1, <1>2 DEF Abs
<1>7. /\ v \in Int /\ v <= Drift /\ -v <= Drift
      /\ (D1 = A /\ f = -A => v <= 0) /\ (D1 = -A /\ f = A => -v <= 0)
  <2>1. /\ v \in Int /\ v <= Drift /\ -v <= Drift
        /\ Skew + f <= 0 /\ Skew - D1 <= 0 => v <= 0
        /\ Skew + f >= 0 /\ Skew - D1 >= 0 => v >= 0
    BY <1>3, MoveBounds
  <2>2. Skew <= A /\ -Skew <= A
    BY <1>1 DEF Abs
  <2> HIDE DEF v
  <2>3. QED
    BY <1>1, <1>3, <2>1, <2>2
<1> HIDE DEF T, v, A
<1>8. D \in Int /\ D <= A /\ -D <= A /\ D1 \in Int /\ D1 >= -A /\ -D1 >= -A
  BY <1>1, <1>3 DEF A
<1>9. K * (x + v) - Drift * D1 <= K * M
  <2>1. x > T => D1 >= D + K \/ (D1 = A /\ v <= 0)
    BY <1>3, <1>5, <1>7
  <2>2. K * x - Drift * D <= K * M
    BY DEF Held
  <2>3. QED
    BY <1>1, <1>2, <1>4, <1>7, <1>8, <2>1, <2>2, OneSideHeld
<1>10. K * (-x + -v) - Drift * (-D1) <= K * M
  <2>1. -x > T => -D1 >= -D + K \/ (-D1 = A /\ -v <= 0)
    BY <1>1, <1>3, <1>6, <1>7, <1>8
  <2>2. K * (-x) - Drift * (-D) <= K * M
    <3>1. K * (-x) = -(K * x) /\ Drift * (-D) = -(Drift * D)
          /\ K * x \in Int /\ Drift * D \in Int /\ K * M \in Int
      BY <1>1, <1>8
    <3>2. QED
      BY <3>1 DEF Held
  <2>3. -x \in Int /\ -v \in Int /\ -D \in Int /\ -D1 \in Int
    BY <1>7, <1>8
  <2>4. QED
    BY <1>1, <1>2, <1>4, <1>7, <1>8, <2>1, <2>2, <2>3, OneSideHeld
<1>11. K * (-x + -v) = -(K * (x + v)) /\ Drift * (-D1) = -(Drift * D1)
       /\ K * (x + v) \in Int /\ Drift * D1 \in Int /\ K * M \in Int
  BY <1>1, <1>7, <1>8
<1>12. QED
  BY <1>9, <1>10, <1>11 DEF Held, v

(* The first Sync less than a second off holds a clock that started within M *)
(* and has drifted since, by e.                                              *)
LEMMA FirstSyncHolds ==
    ASSUME NEW K \in 1 .. Billion, NEW M \in 1 .. Billion, NEW ai \in Nat \ {0},
           NEW ap \in Nat \ {0}, Tames(K, M, ai),
           NEW s \in Int, Abs(s) + 2 * (MaxSilence * Abs(Skew)) <= M,
           NEW e \in Int, Abs(e) <= MaxSilence * Abs(Skew),
           NEW d \in 0 .. MaxPathDelay,
           NEW o \in Int, s + e + d >= 0 => o >= 0, s + e + d <= 0 => o <= 0,
           NEW D1, NEW f, Steered(0, D1, f, o, ai, ap),
           NEW k1 \in Nat, NEW k2 \in Nat, k1 + k2 <= MaxSilence
    PROVE  Held(K, M, s + e + Move(k1, k2, f, D1), D1)
<1> DEFINE A == AdjFreqMax
           v == Move(k1, k2, f, D1)
           N == MaxSilence * Abs(Skew)
           x == s + e + v
<1>1. MaxPathDelay \in Nat /\ Drift \in Nat /\ A \in Nat /\ K \in Nat /\ M \in Nat
  BY LongestBounds, AdjFreqMaxAssumption
<1>2. N \in Nat /\ N <= Drift
  <2>1. 0 \in 0 .. MaxSilence
    BY WorldAssumption
  <2>2. QED
    BY <2>1, SilenceBounds
<1>3. /\ D1 \in -A .. A /\ f \in -A .. A
      /\ o >= 0 => D1 >= 0 /\ f <= -D1
      /\ o <= 0 => D1 <= 0 /\ f >= -D1
  <2>1. 0 \in -A .. A
    BY <1>1
  <2>2. PushesBack(K, ai, o, 0, D1, f)
    BY <1>1, <2>1, ControllerStep
  <2>3. QED
    BY <2>2 DEF PushesBack
<1>4. /\ v \in Int /\ v <= Drift /\ -v <= Drift
      /\ f <= 0 /\ D1 >= 0 => v <= N
      /\ f >= 0 /\ D1 <= 0 => -v <= N
  BY <1>3, MoveBounds
<1>5. K * (MaxPathDelay + Drift) + Drift * A <= K * M
  BY TamesBounds
<1>6. \A a, b \in Int : a <= b => K * a <= K * b /\ Drift * a <= Drift * b
  BY <1>1
<1>7. Abs(s) + 2 * N <= M /\ Abs(e) <= N
  OBVIOUS
<1> HIDE DEF A, v, N
<1>8. x \in Int /\ D1 \in Int /\ -D1 \in Int /\ A \in Int /\ f \in Int
  BY <1>1, <1>3, <1>4
<1>9. K * x \in Int /\ Drift * D1 \in Int /\ K * M \in Int /\ Drift * A \in Int
      /\ K * (-M) = -(K * M) /\ Drift * 0 = 0 /\ Drift * (-A) = -(Drift * A)
      /\ K * (MaxPathDelay + Drift) \in Int
      /\ K * (-(MaxPathDelay + Drift)) = -(K * (MaxPathDelay + Drift))
  BY <1>1, <1>8
<1>10. CASE s + e + d >= 0
  <2>1. D1 >= 0 /\ f <= 0 /\ v <= N /\ D1 <= A
    BY <1>1, <1>3, <1>4, <1>8, <1>10
  <2>2. x <= M /\ x >= -(MaxPathDelay + Drift)
    BY <1>1, <1>2, <1>4, <1>7, <1>10, <2>1 DEF Abs
  <2> HIDE DEF x
  <2>3. K * x <= K * M /\ K * (-(MaxPathDelay + Drift)) <= K * x
        /\ Drift * 0 <= Drift * D1 /\ Drift * D1 <= Drift * A
    BY <1>1, <1>6, <1>8, <2>1, <2>2
  <2>4. Held(K, M, x, D1)
    BY <1>5, <1>9, <2>3 DEF Held
  <2>5. QED
    BY <2>4 DEF x, v
<1>11. CASE s + e + d <= 0
  <2>1. D1 <= 0 /\ f >= 0 /\ -v <= N /\ D1 >= -A
    BY <1>1, <1>3, <1>4, <1>8, <1>11
  <2>2. x >= -M /\ x <= MaxPathDelay + Drift
    BY <1>1, <1>2, <1>4, <1>7, <1>11, <2>1 DEF Abs
  <2> HIDE DEF x
  <2>3. K * (-M) <= K * x /\ K * x <= K * (MaxPathDelay + Drift)
        /\ Drift * D1 <= Drift * 0 /\ Drift * (-A) <= Drift * D1
    <3>1. -M \in Int /\ -A \in Int /\ MaxPathDelay + Drift \in Int /\ 0 \in Int
          /\ -M <= x /\ -A <= D1
      BY <1>1, <1>8, <2>1, <2>2
    <3>2. QED
      BY <1>6, <1>8, <2>1, <2>2, <3>1
  <2>4. Held(K, M, x, D1)
    BY <1>5, <1>9, <2>3 DEF Held
  <2>5. QED
    BY <2>4 DEF x, v
<1>12. QED
  BY <1>1, <1>10, <1>11

(* The loop before the first offset of less than a second: nothing learnt,   *)
(* and the clock where it started or where it has been set, but for its skew.*)
Fresh ==
    /\ FilterWithin(owd_filt, 0) /\ meanPathDelay = Zero
    /\ observed_drift = 0 /\ freq = 0 /\ ofm_prev = 0
    /\ \E K, M \in 1 .. Billion :
          /\ Tames(K, M, AtLeastOne(rtOpts.ai))
          /\ NearOrFar(M, theta - silence * Skew)

(* The loop that runs: the last offset and the last delay are those of the   *)
(* last Sync, and a K holds the clock whatever comes before the next one.    *)
PathOK == /\ FilterWithin(owd_filt, Longest)
          /\ meanPathDelay \in {Zero, Time(0, owd_filt.y)}
SinceSync == silence * Slew
HeldOn(K, M) ==
    \A k1, k2 \in Nat :
        k1 + k2 + silence <= MaxSilence =>
            Held(K, M, theta + Move(k1, k2, freq, observed_drift), observed_drift)
Controlled ==
    \E K, M \in 1 .. Billion : Tames(K, M, AtLeastOne(rtOpts.ai)) /\ HeldOn(K, M)
Running ==
    /\ PathOK
    /\ \E d \in PathDelay : Abs(Value(delayMS) - theta - d) <= SinceSync
    /\ Abs(ofm_prev - theta) <= MaxPathDelay + SinceSync
    /\ Controlled

EndToEndLoop ==
    rtOpts.E2E_mode => IF offset_first_updated THEN Running ELSE Fresh

(* A clock held until the next Sync is held now.                             *)
LEMMA HeldNow ==
    ASSUME Parts, NEW K, NEW M, HeldOn(K, M)
    PROVE  Held(K, M, theta, observed_drift)
<1>1. /\ theta \in Int /\ Skew \in Int /\ silence \in Nat /\ silence <= MaxSilence
      /\ freq \in Int /\ observed_drift \in Int
  BY WorldTyped
<1>2. 0 + 0 + silence <= MaxSilence
  BY <1>1
<1>3. Held(K, M, theta + Move(0, 0, freq, observed_drift), observed_drift)
  BY <1>2 DEF HeldOn
<1>4. theta + Move(0, 0, freq, observed_drift) = theta
  BY <1>1 DEF Move
<1>5. QED
  BY <1>3, <1>4

LEMMA Divisors ==
    ASSUME Parts
    PROVE  AtLeastOne(rtOpts.ap) \in Nat \ {0} /\ AtLeastOne(rtOpts.ai) \in Nat \ {0}
<1>1. rtOpts.ap \in Int /\ rtOpts.ai \in Int
  BY WorldTyped DEF RunTimeOpts
<1>2. QED
  BY <1>1 DEF AtLeastOne

LEMMA ClampInRange ==
    ASSUME NEW a \in -AdjFreqMax .. AdjFreqMax
    PROVE  Clamp(a) = a /\ Clamp(-a) = -a
  BY AdjFreqMaxAssumption DEF Clamp

(* Less than a second steers the clock.                                      *)
LEMMA OffsetSteers ==
    ASSUME Parts, Plain(rtOpts), NEW o \in Int, offsetFromMaster' = Time(0, o), updateClock
    PROVE  /\ UNCHANGED <<theta, owd_filt>>
           /\ Steered(observed_drift, observed_drift', freq', o,
                      AtLeastOne(rtOpts.ai), AtLeastOne(rtOpts.ap))
<1>1. offsetFromMaster'.seconds = 0 /\ offsetFromMaster'.nanoseconds = o
  BY DEF Time
<1>2. ~BeyondReset(offsetFromMaster')
  BY DEF BeyondReset, Plain
<1>3. SteerClock(offsetFromMaster')
  BY <1>1, <1>2 DEF updateClock
<1>4. ~rtOpts.noAdjust
  BY DEF Plain
<1>5. /\ observed_drift' = Clamp(observed_drift + Quot(o, AtLeastOne(rtOpts.ai)))
      /\ freq' = Clamp(-(Quot(o, AtLeastOne(rtOpts.ap)) + observed_drift'))
      /\ UNCHANGED <<theta, owd_filt>>
  BY <1>1, <1>3, <1>4 DEF SteerClock, adjFreq
<1>6. QED
  BY <1>5 DEF Steered

(* A second or more sets it.                                                 *)
LEMMA OffsetSets ==
    ASSUME Parts, Plain(rtOpts), offsetFromMaster'.seconds # 0, updateClock
    PROVE  /\ theta' = theta - Value(offsetFromMaster')
           /\ UNCHANGED observed_drift
           /\ freq' = Clamp(-observed_drift)
           /\ owd_filt' = [owd_filt EXCEPT !.s_exp = 0]
  BY DEF updateClock, BeyondReset, Plain, ResetClock, adjOffset, initClock, adjFreq

LEMMA SyncKeepsRunning ==
    ASSUME Tame, Parts, rtOpts.E2E_mode, Running, NEW sent \in Epochs,
           NEW d \in PathDelay, NEW c \in Residence[rtOpts.E2E_mode],
           handleSync(sent, d, c)
    PROVE  offset_first_updated' /\ Running' /\ theta' = theta
<1> DEFINE ai == AtLeastOne(rtOpts.ai)
           ap == AtLeastOne(rtOpts.ap)
           path == Value(Mean)
<1>1. /\ Plain(rtOpts) /\ c = 0 /\ d \in 0 .. MaxPathDelay /\ Drift <= 2 * d
      /\ Abs(Skew) <= AdjFreqMax
  BY TameFacts
<1>2. /\ MaxPathDelay \in Nat /\ Drift \in Nat /\ theta \in Int /\ Skew \in Int
      /\ Billion \in Nat \ {0, 1} /\ AdjFreqMax \in Nat
      /\ 2 * Longest <= 2 * MaxPathDelay + Drift /\ Longest \in Nat
      /\ ai \in Nat \ {0} /\ ap \in Nat \ {0}
      /\ ofm_prev \in Int /\ observed_drift \in -AdjFreqMax .. AdjFreqMax
  <2>1. ofm_prev \in Int
    BY DEF Parts, OffsetOK, SubSecond
  <2>2. QED
    BY <2>1, WorldTyped, LongestBounds, Divisors
<1>3. silence' = 0 /\ rtOpts' = rtOpts /\ updateClock
  BY DEF handleSync
<1>4. path \in 0 .. Longest
  <2>1. owd_filt.y \in 0 .. Longest /\ owd_filt.y \in Int
    BY <1>2 DEF Running, PathOK, FilterWithin
  <2>2. Mean \in {Zero, Time(0, owd_filt.y)}
    BY DEF Running, PathOK, Mean
  <2>3. QED
    BY <1>2, <2>1, <2>2, SubSecondValue, ZeroTyped
<1>5. PICK K \in 1 .. Billion, M \in 1 .. Billion :
         Tames(K, M, ai) /\ Held(K, M, theta, observed_drift)
  <2>1. PICK K \in 1 .. Billion, M \in 1 .. Billion : Tames(K, M, ai) /\ HeldOn(K, M)
    BY DEF Running, Controlled
  <2>2. QED
    BY <2>1, HeldNow
<1>6. Abs(theta) + MaxPathDelay < Billion
  BY <1>2, <1>5, HeldIsNear
<1>7. PICK offset \in TimeInternal :
         /\ IsNormal(offset)
         /\ Value(offset) = theta + d - path
         /\ Value(delayMS') = theta + d + c
         /\ UNCHANGED <<meanPathDelay, peerMeanPathDelay>>
         /\ offset.seconds = 0 =>
               /\ offsetFromMaster' =
                     Time(0, Quot(offset.nanoseconds, 2) + Quot(ofm_prev, 2))
               /\ ofm_prev' = offset.nanoseconds
               /\ offset_first_updated' = TRUE
  <2>1. rtOpts.maxDelay = 0
    BY <1>1 DEF Plain
  <2>2. QED
    BY <1>4, <2>1, OffsetOfSync
<1> DEFINE ns == offset.nanoseconds
           o == Quot(ns, 2) + Quot(ofm_prev, 2)
<1> HIDE DEF path, ai, ap
<1>8. d - path <= MaxPathDelay /\ path - d <= MaxPathDelay
  BY <1>1, <1>2, <1>4
<1>9. offset.seconds = 0 /\ ns = theta + d - path /\ ns \in Int
  <2>1. Abs(theta + d - path) < Billion
    BY <1>1, <1>2, <1>4, <1>6, <1>8 DEF Abs
  <2>2. Abs(Value(offset)) < Billion
    BY <1>7, <2>1
  <2>3. offset.seconds # 0 => Abs(Value(offset)) >= Billion
    BY <1>7, NormalSeconds
  <2>4. Abs(Value(offset)) \in Int
    BY <1>7, ValueTyped DEF Abs
  <2>5. offset.seconds = 0
    BY <1>2, <2>2, <2>3, <2>4
  <2>6. QED
    BY <1>7, <2>5, NormalSeconds
<1>10. o \in Int /\ 2 * Abs(o - theta) <= 2 * MaxPathDelay + Drift + 2
  <2>1. HalfOf(ns) /\ HalfOf(ofm_prev)
    BY <1>2, <1>9, HalfIsClose
  <2>2. Abs(ofm_prev - theta) <= MaxPathDelay + Drift
    <3>1. silence \in 0 .. MaxSilence
      BY DEF Parts, WorldOK
    <3>2. SinceSync \in Nat /\ SinceSync <= Drift
      BY <3>1, SilenceBounds DEF SinceSync
    <3>3. QED
      BY <1>2, <3>2 DEF Running, Abs
  <2> HIDE DEF ns
  <2>3. QED
    BY <1>1, <1>2, <1>4, <1>8, <1>9, <2>1, <2>2 DEF HalfOf, Abs
<1> HIDE DEF o
<1>11. /\ UNCHANGED <<theta, owd_filt>>
       /\ Steered(observed_drift, observed_drift', freq', o, ai, ap)
  <2>1. offsetFromMaster' = Time(0, o)
    BY <1>7, <1>9 DEF o
  <2>2. QED
    BY <1>1, <1>3, <1>10, <2>1, OffsetSteers DEF ai, ap
<1>12. ASSUME NEW k1 \in Nat, NEW k2 \in Nat, k1 + k2 <= MaxSilence
       PROVE  Held(K, M, theta + Move(k1, k2, freq', observed_drift'), observed_drift')
  BY <1>1, <1>2, <1>5, <1>10, <1>11, <1>12, ControllerHolds
<1>13. HeldOn(K, M)'
  <2>1. \A k1, k2 \in Nat : k1 + k2 + 0 <= MaxSilence => k1 + k2 <= MaxSilence
    OBVIOUS
  <2>2. theta' = theta /\ silence' = 0
    BY <1>3, <1>11
  <2>3. QED
    BY <1>12, <2>1, <2>2 DEF HeldOn, Move
<1>14. Controlled'
  <2>1. Tames(K, M, AtLeastOne(rtOpts'.ai))
    BY <1>3, <1>5 DEF ai
  <2>2. QED
    BY <1>13, <2>1 DEF Controlled
<1>15. PathOK'
  BY <1>7, <1>11 DEF Running, PathOK, FilterWithin
<1>16. Abs(Value(delayMS') - theta' - d) <= 0
  BY <1>1, <1>2, <1>3, <1>7, <1>11 DEF Abs
<1>17. Abs(ofm_prev' - theta') <= MaxPathDelay + 0
  <2>1. ofm_prev' = theta + d - path
    BY <1>7, <1>9
  <2>2. QED
    BY <1>1, <1>2, <1>3, <1>4, <1>8, <1>11, <2>1 DEF Abs
<1>18. SinceSync' = 0
  <2>1. 0 * Slew = 0
    BY WorldTyped
  <2>2. QED
    BY <1>3, <2>1 DEF SinceSync
<1>19. QED
  BY <1>7, <1>9, <1>11, <1>14, <1>15, <1>16, <1>17, <1>18 DEF Running

(* A Sync before any offset has been less than a second.                     *)
LEMMA SyncLeavesFresh ==
    ASSUME Tame, Parts, rtOpts.E2E_mode, ~offset_first_updated, Fresh,
           NEW sent \in Epochs, NEW d \in PathDelay,
           NEW c \in Residence[rtOpts.E2E_mode], handleSync(sent, d, c)
    PROVE  /\ IF offset_first_updated' THEN Running' ELSE Fresh'
           /\ theta' # theta => /\ Abs(theta) >= Billion - MaxPathDelay
                                /\ Abs(theta') <= MaxPathDelay
<1> DEFINE ai == AtLeastOne(rtOpts.ai)
           ap == AtLeastOne(rtOpts.ap)
           e == silence * Skew
           s == theta - e
           N == MaxSilence * Abs(Skew)
<1>1. /\ Plain(rtOpts) /\ c = 0 /\ d \in 0 .. MaxPathDelay
  BY TameFacts
<1>2. /\ MaxPathDelay \in Nat /\ Drift \in Nat /\ theta \in Int /\ Skew \in Int
      /\ Billion \in Nat \ {0, 1} /\ AdjFreqMax \in Nat /\ Longest \in Nat
      /\ ai \in Nat \ {0} /\ ap \in Nat \ {0} /\ s \in Int
      /\ e \in Int /\ N \in Nat /\ Abs(e) <= N /\ N <= Drift
  <2>1. /\ MaxPathDelay \in Nat /\ Drift \in Nat /\ theta \in Int /\ Skew \in Int
        /\ Billion \in Nat \ {0, 1} /\ AdjFreqMax \in Nat /\ Longest \in Nat
        /\ ai \in Nat \ {0} /\ ap \in Nat \ {0}
    BY WorldTyped, LongestBounds, Divisors
  <2>2. silence \in 0 .. MaxSilence
    BY DEF Parts, WorldOK
  <2>3. /\ e \in Int /\ N \in Nat /\ Abs(e) <= N /\ N <= Drift
    BY <2>2, SilenceBounds
  <2> HIDE DEF e, N
  <2>4. QED
    BY <2>1, <2>3
<1>3. silence' = 0 /\ rtOpts' = rtOpts /\ updateClock
  BY DEF handleSync
<1>4. Value(Mean) = 0
  BY ZeroTyped DEF Fresh, Mean
<1>5. PICK K \in 1 .. Billion, M \in 1 .. Billion : Tames(K, M, ai) /\ NearOrFar(M, s)
  BY <1>3 DEF Fresh
<1>6. MaxPathDelay + 2 * Drift <= M /\ M < Billion
  BY <1>2, <1>5, TamesBounds
<1>7. PICK offset \in TimeInternal :
         /\ IsNormal(offset)
         /\ Value(offset) = theta + d - 0
         /\ Value(delayMS') = theta + d + c
         /\ UNCHANGED <<meanPathDelay, peerMeanPathDelay>>
         /\ offset.seconds # 0 =>
               /\ offsetFromMaster' = offset /\ ofm_prev' = 0
               /\ UNCHANGED offset_first_updated
         /\ offset.seconds = 0 =>
               /\ offsetFromMaster' =
                     Time(0, Quot(offset.nanoseconds, 2) + Quot(ofm_prev, 2))
               /\ ofm_prev' = offset.nanoseconds
               /\ offset_first_updated' = TRUE
  <2>1. rtOpts.maxDelay = 0
    BY <1>1 DEF Plain
  <2>2. QED
    BY <1>4, <2>1, OffsetOfSync
<1>8. /\ observed_drift = 0 /\ freq = 0 /\ ofm_prev = 0
      /\ FilterWithin(owd_filt, 0) /\ meanPathDelay = Zero
  BY DEF Fresh
<1> HIDE DEF ai, ap, e, N
<1>9. CASE offset.seconds # 0
  <2>1. /\ theta' = theta - Value(offset)
        /\ observed_drift' = 0 /\ freq' = Clamp(-0)
        /\ owd_filt' = [owd_filt EXCEPT !.s_exp = 0]
    BY <1>1, <1>3, <1>7, <1>8, <1>9, OffsetSets
  <2>2. theta' = -d /\ Abs(theta + d) >= Billion
    <3>1. Abs(Value(offset)) >= Billion
      BY <1>7, <1>9, NormalSeconds
    <3>2. QED
      BY <1>1, <1>2, <1>7, <2>1, <3>1 DEF Abs
  <2>3. Abs(theta) >= Billion - MaxPathDelay /\ Abs(theta') <= MaxPathDelay
    BY <1>1, <1>2, <2>2 DEF Abs
  <2>4. freq' = 0
    <3>1. 0 \in -AdjFreqMax .. AdjFreqMax
      BY <1>2
    <3>2. Clamp(-0) = -0
      BY <3>1, ClampInRange
    <3>3. QED
      BY <2>1, <3>2
  <2>5. FilterWithin(owd_filt', 0)
    BY <1>8, <2>1, FilterKeepsValues DEF FilterWithin
  <2>6. NearOrFar(M, theta' - silence' * Skew)
    <3>1. theta' - silence' * Skew = theta' /\ theta' \in Int
      BY <1>1, <1>2, <1>3, <2>2
    <3>2. Abs(theta') + 2 * N <= M
      BY <1>1, <1>2, <1>6, <2>2 DEF Abs
    <3>3. QED
      BY <3>1, <3>2 DEF NearOrFar, N
  <2>7. Tames(K, M, AtLeastOne(rtOpts'.ai))
    BY <1>3, <1>5 DEF ai
  <2>8. Fresh'
    BY <1>3, <1>7, <1>8, <1>9, <2>1, <2>4, <2>5, <2>6, <2>7 DEF Fresh
  <2>9. QED
    BY <1>7, <1>9, <2>3, <2>8
<1>10. CASE offset.seconds = 0
  <2> DEFINE ns == offset.nanoseconds
             o == Quot(ns, 2) + Quot(ofm_prev, 2)
  <2>1. ns \in Int /\ ns = theta + d /\ Abs(theta + d) < Billion
    <3>1. /\ ns \in Int /\ Value(offset) = ns /\ Abs(Value(offset)) < Billion
      BY <1>7, <1>10, NormalSeconds
    <3>2. QED
      BY <1>1, <1>2, <1>7, <3>1
  <2> HIDE DEF ns
  <2>2. o \in Int /\ (ns >= 0 => o >= 0) /\ (ns <= 0 => o <= 0)
    <3>1. HalfOf(ns) /\ HalfOf(0)
      BY <2>1, HalfIsClose
    <3>2. QED
      BY <1>8, <2>1, <3>1 DEF HalfOf
  <2> HIDE DEF o
  <2>3. Abs(s) + 2 * N <= M
    <3>1. ~(Abs(s) >= Billion + MaxPathDelay + N)
      BY <1>1, <1>2, <2>1 DEF Abs
    <3>2. QED
      BY <1>5, <3>1 DEF NearOrFar, N
  <2>4. /\ UNCHANGED <<theta, owd_filt>>
        /\ Steered(0, observed_drift', freq', o, ai, ap)
    <3>1. offsetFromMaster' = Time(0, o)
      BY <1>7, <1>10 DEF o, ns
    <3>2. QED
      BY <1>1, <1>3, <1>8, <2>2, <3>1, OffsetSteers DEF ai, ap
  <2>5. s + e + d = ns /\ s + e = theta
    BY <1>1, <1>2, <2>1
  <2> HIDE DEF s
  <2>6. ASSUME NEW k1 \in Nat, NEW k2 \in Nat, k1 + k2 <= MaxSilence
        PROVE  Held(K, M, s + e + Move(k1, k2, freq', observed_drift'), observed_drift')
    <3>1. (s + e + d >= 0 => o >= 0) /\ (s + e + d <= 0 => o <= 0)
      BY <2>2, <2>5
    <3>2. QED
      BY <1>1, <1>2, <1>5, <2>2, <2>3, <2>4, <2>6, <3>1, FirstSyncHolds DEF N
  <2>7. HeldOn(K, M)'
    <3>1. \A k1, k2 \in Nat : k1 + k2 + 0 <= MaxSilence => k1 + k2 <= MaxSilence
      OBVIOUS
    <3>2. theta' = s + e /\ silence' = 0
      BY <1>3, <2>4, <2>5
    <3>3. QED
      BY <2>6, <3>1, <3>2 DEF HeldOn, Move
  <2>8. Controlled'
    <3>1. Tames(K, M, AtLeastOne(rtOpts'.ai))
      BY <1>3, <1>5 DEF ai
    <3>2. QED
      BY <2>7, <3>1 DEF Controlled
  <2>9. PathOK'
    <3>1. owd_filt.y = 0 /\ owd_filt.nsec_prev = 0 /\ owd_filt \in FilterType
      BY <1>8 DEF FilterWithin
    <3>3. QED
      BY <1>2, <1>7, <1>8, <2>4, <3>1 DEF PathOK, FilterWithin
  <2>10. Abs(Value(delayMS') - theta' - d) <= 0
    BY <1>1, <1>2, <1>3, <1>7, <2>4 DEF Abs
  <2>11. Abs(ofm_prev' - theta') <= MaxPathDelay + 0
    <3>1. ofm_prev' = theta + d
      BY <1>7, <1>10, <2>1 DEF ns
    <3>2. QED
      BY <1>1, <1>2, <1>3, <2>4, <3>1 DEF Abs
  <2>12. SinceSync' = 0
    <3>1. 0 * Slew = 0
      BY WorldTyped
    <3>2. QED
      BY <1>3, <3>1 DEF SinceSync
  <2>13. QED
    BY <1>7, <1>10, <2>4, <2>8, <2>9, <2>10, <2>11, <2>12 DEF Running
<1>11. QED
  BY <1>9, <1>10

(* A DelayResp: both directions of the path, and the drift in between.       *)
LEMMA DelayRespKeepsRunning ==
    ASSUME Tame, WidthFits, Parts, Asked, rtOpts.E2E_mode, offset_first_updated, Running,
           handleDelayResp
    PROVE  Running'
<1> DEFINE t1 == measuring.t1
           t2 == measuring.t2
           C == ToTime(measuring.correction)
           delaySM == subTime(t2, t1)
           both == addTime(delaySM, delayMS)
           sum == subTime(both, C)
           mean == divTime(sum, 2)
           ai == AtLeastOne(rtOpts.ai)
<1>1. /\ MaxPathDelay \in Nat /\ Drift \in Nat /\ theta \in Int /\ Longest \in Nat
      /\ 2 * MaxPathDelay + Drift < Word64 /\ Billion \in Nat \ {0, 1}
      /\ ai \in Nat \ {0} /\ Plain(rtOpts)
      /\ \A d \in PathDelay : d \in 0 .. MaxPathDelay /\ Drift <= 2 * d
      /\ \A n \in 0 .. 2 * MaxPathDelay + Drift : n \div 2 \in 0 .. Longest
  BY WorldTyped, LongestBounds, Divisors, TameFacts
<1>2. PICK there \in PathDelay : Value(t2) - Value(t1) = there + measuring.correction - theta
  BY DEF Asked, handleDelayResp
<1>3. PICK back \in PathDelay : Abs(Value(delayMS) - theta - back) <= SinceSync
  BY DEF Running
<1>4. there \in 0 .. MaxPathDelay /\ Drift <= 2 * there
      /\ back \in 0 .. MaxPathDelay /\ Drift <= 2 * back
  BY <1>1
<1>5. /\ t1 \in TimeInternal /\ t2 \in TimeInternal /\ delayMS \in TimeInternal
      /\ measuring.correction \in Int
  BY DEF Parts, WorldOK, DelaysOK, Kept
<1> HIDE DEF t1, t2
<1>6. /\ Value(t1) \in Int /\ Value(t2) \in Int /\ Value(delayMS) \in Int
      /\ C \in TimeInternal /\ Value(C) = measuring.correction
  BY <1>5, ValueTyped, ToTimeIsExact
<1> HIDE DEF C
<1>7. delaySM \in TimeInternal /\ Value(delaySM) = Value(t2) - Value(t1)
  BY <1>5, SumsAreExact
<1> HIDE DEF delaySM
<1>8. both \in TimeInternal /\ Value(both) = Value(delaySM) + Value(delayMS)
  BY <1>5, <1>7, SumsAreExact
<1> HIDE DEF both
<1>9. sum \in TimeInternal /\ Value(sum) = Value(both) - Value(C)
  BY <1>6, <1>8, SumsAreExact
<1> HIDE DEF sum
<1>10. Value(sum) \in 0 .. 2 * MaxPathDelay + Drift
  <2>1. Value(sum) = there - theta + Value(delayMS)
    BY <1>1, <1>2, <1>4, <1>5, <1>6, <1>7, <1>8, <1>9
  <2>2. Abs(Value(delayMS) - theta - back) <= Drift
    <3>1. silence \in 0 .. MaxSilence
      BY DEF Parts, WorldOK
    <3>2. SinceSync \in Nat /\ SinceSync <= Drift
      BY <3>1, SilenceBounds DEF SinceSync
    <3>3. QED
      BY <1>1, <1>3, <1>4, <1>6, <3>2 DEF Abs
  <2>3. QED
    BY <1>1, <1>4, <1>6, <2>1, <2>2 DEF Abs
<1>11. PICK K \in 1 .. Billion, M \in 1 .. Billion : Tames(K, M, ai)
  BY DEF Running, Controlled
<1>12. Longest < Billion
  BY <1>1, <1>11, TamesBounds
<1>13. PICK n \in 0 .. Longest : mean = Time(0, n)
  <2> DEFINE V == Value(sum)
             n == V \div 2
  <2>1. n \in 0 .. Longest
    BY <1>1, <1>10
  <2>2. Word64 \in Nat /\ Word32 \in Nat \ {0}
    BY WordAssumption
  <2>3. V % Word64 = V
    BY <1>1, <1>10, <2>2
  <2>4. mean = Time(Signed32(n \div Billion), n % Billion)
    BY <2>3 DEF divTime
  <2> HIDE DEF n
  <2>5. n \div Billion = 0 /\ n % Billion = n
    BY <1>1, <1>12, <2>1
  <2>6. Signed32(0) = 0
    BY <2>2 DEF Signed32
  <2>7. QED
    BY <2>1, <2>4, <2>5, <2>6
<1>14. /\ mean \in TimeInternal /\ IsNormal(mean) /\ mean.seconds = 0
       /\ Value(mean) \in 0 .. Longest
  <2>1. n \in Int /\ SubSecond(n)
    BY <1>1, <1>12 DEF SubSecond, Abs
  <2>2. QED
    BY <1>13, <2>1, SubSecondIsNormal, SubSecondValue DEF Kept, Time
<1>15. /\ FilterDelay(mean) /\ meanPathDelay' = FilteredDelay(mean)
       /\ UNCHANGED delayMS
  BY <1>1 DEF handleDelayResp, updateDelay, TooLong, Plain, mean, sum, both, delaySM, C,
              t1, t2
<1> HIDE DEF mean
<1>16. PathOK'
  <2>1. FilterWithin(owd_filt, Longest)
    BY DEF Running, PathOK
  <2>2. FilterWithin(owd_filt', Longest) /\ FilteredDelay(mean) = Time(0, owd_filt'.y)
    BY <1>1, <1>14, <1>15, <2>1, DelayWithin
  <2>3. QED
    BY <1>15, <2>2 DEF PathOK
<1>17. UNCHANGED <<rtOpts, theta, ofm_prev, freq, observed_drift, silence, delayMS>>
  BY <1>15 DEF handleDelayResp, clock, world
<1>18. QED
  BY <1>16, <1>17 DEF Running, Controlled, HeldOn, Move, SinceSync

(* A second without a Sync is one of those the loop is held for.             *)
LEMMA SecondKeepsLoop ==
    ASSUME Tame, Parts, rtOpts.E2E_mode, EndToEndLoop, Second
    PROVE  EndToEndLoop'
<1>1. /\ silence' = silence + 1 /\ theta' = theta + Skew + freq
      /\ UNCHANGED <<rtOpts, offset_first_updated, delayMS, meanPathDelay,
                     observed_drift, freq, owd_filt, ofm_prev>>
  BY DEF Second, delays, clock
<1>2. /\ theta \in Int /\ Skew \in Int /\ freq \in -AdjFreqMax .. AdjFreqMax
      /\ AdjFreqMax \in Nat /\ Slew = AdjFreqMax + Abs(Skew) /\ MaxPathDelay \in Nat
      /\ observed_drift \in -AdjFreqMax .. AdjFreqMax /\ silence \in Nat
      /\ Slew \in Nat
  BY WorldTyped DEF Slew
<1>3. CASE offset_first_updated
  <2>1. Running
    BY <1>3 DEF EndToEndLoop
  <2>2. PathOK'
    BY <1>1, <2>1 DEF Running, PathOK, FilterWithin
  <2>3. PICK d \in PathDelay : Abs(Value(delayMS) - theta - d) <= SinceSync
    BY <2>1 DEF Running
  <2>4. d \in Nat /\ Value(delayMS) \in Int /\ ofm_prev \in Int
    <3>1. delayMS \in TimeInternal /\ ofm_prev \in Int
      BY DEF Parts, DelaysOK, OffsetOK, Kept, SubSecond
    <3>2. QED
      BY <3>1, ValueTyped, WorldTyped
  <2> DEFINE before == silence * Slew
             since == (silence + 1) * Slew
             next == theta'
             was == Value(delayMS)
  <2>5. before \in Nat /\ since = before + Slew /\ SinceSync = before /\ SinceSync' = since
    <3>1. (silence + 1) * Slew = silence * Slew + Slew /\ silence * Slew \in Nat
      BY <1>2
    <3>2. QED
      BY <1>1, <3>1 DEF SinceSync
  <2>6. next \in Int /\ next - theta <= Slew /\ theta - next <= Slew
    BY <1>1, <1>2 DEF Abs
  <2>7. was \in Int /\ Abs(was - theta - d) <= SinceSync
    BY <2>3, <2>4
  <2> HIDE DEF before, since, next, was
  <2>8. Abs(was - next - d) <= since
    <3>1. Abs(was - theta - d) <= before
      BY <2>7, <2>5
    <3>2. before \in Nat /\ since = before + Slew
      BY <2>5
    <3>3. QED
      BY <1>2, <2>4, <2>7, <2>6, <3>1, <3>2 DEF Abs
  <2>9. Abs(ofm_prev - next) <= MaxPathDelay + since
    <3>1. Abs(ofm_prev - theta) <= MaxPathDelay + before
      BY <2>1, <2>5 DEF Running
    <3>2. before \in Nat /\ since = before + Slew
      BY <2>5
    <3>3. QED
      BY <1>2, <2>4, <2>6, <3>1, <3>2 DEF Abs
  <2>10. PICK K \in 1 .. Billion, M \in 1 .. Billion :
           Tames(K, M, AtLeastOne(rtOpts.ai)) /\ HeldOn(K, M)
    BY <2>1 DEF Running, Controlled
  <2>11. HeldOn(K, M)'
    <3>1. SUFFICES ASSUME NEW k1 \in Nat, NEW k2 \in Nat,
                          k1 + k2 + (silence + 1) <= MaxSilence
                   PROVE  Held(K, M, theta' + Move(k1, k2, freq, observed_drift),
                               observed_drift)
      BY <1>1 DEF HeldOn, Move
    <3>2. k1 + 1 \in Nat /\ (k1 + 1) + k2 + silence <= MaxSilence
      BY <1>2, <3>1, WorldAssumption
    <3>3. Held(K, M, theta + Move(k1 + 1, k2, freq, observed_drift), observed_drift)
      BY <2>10, <3>2 DEF HeldOn
    <3>4. theta' + Move(k1, k2, freq, observed_drift)
             = theta + Move(k1 + 1, k2, freq, observed_drift)
      <4> DEFINE a == Skew + freq
                 b == k2 * (Skew - observed_drift)
      <4>1. a \in Int /\ b \in Int /\ theta' = theta + a
        BY <1>1, <1>2
      <4>2. Move(k1, k2, freq, observed_drift) = k1 * a + b
            /\ Move(k1 + 1, k2, freq, observed_drift) = (k1 + 1) * a + b
        BY DEF Move
      <4> HIDE DEF a, b
      <4>3. (k1 + 1) * a = k1 * a + a /\ k1 * a \in Int
        BY <4>1
      <4>4. QED
        BY <1>2, <4>1, <4>2, <4>3
    <3>5. QED
      BY <3>3, <3>4
  <2>12. Controlled'
    BY <1>1, <2>10, <2>11 DEF Controlled
  <2>13. Abs(Value(delayMS') - theta' - d) <= SinceSync'
    BY <1>1, <2>5, <2>8 DEF was, next
  <2>14. Abs(ofm_prev' - theta') <= MaxPathDelay + SinceSync'
    BY <1>1, <2>5, <2>9 DEF next
  <2>15. Running'
    BY <2>2, <2>13, <2>14, <2>12 DEF Running
  <2>16. QED
    BY <1>1, <1>3, <2>15 DEF EndToEndLoop
<1>4. CASE ~offset_first_updated
  <2>1. Fresh
    BY <1>4 DEF EndToEndLoop
  <2>2. theta' - silence' * Skew = theta - silence * Skew
    <3>1. (silence + 1) * Skew = silence * Skew + Skew /\ silence * Skew \in Int
      BY <1>2
    <3>2. QED
      BY <1>1, <1>2, <2>1, <3>1 DEF Fresh
  <2>3. Fresh'
    BY <1>1, <2>1, <2>2 DEF Fresh
  <2>4. QED
    BY <1>1, <1>4, <2>3 DEF EndToEndLoop
<1>5. QED
  BY <1>3, <1>4

(* So does a change of state: the drift learnt stays in force.               *)
LEMMA StateChangeKeepsLoop ==
    ASSUME Tame, Parts, rtOpts.E2E_mode, EndToEndLoop, StateChange
    PROVE  EndToEndLoop'
<1>1. /\ owd_filt' \in {owd_filt, [owd_filt EXCEPT !.s_exp = 0]}
      /\ UNCHANGED <<rtOpts, offset_first_updated, delayMS, observed_drift, theta,
                     ofm_prev, silence>>
      /\ meanPathDelay' \in {meanPathDelay, Zero}
  BY StateChangeEffect
<1>2. observed_drift \in -AdjFreqMax .. AdjFreqMax /\ AdjFreqMax \in Nat
      /\ freq \in -AdjFreqMax .. AdjFreqMax /\ Skew \in Int
  BY WorldTyped
<1>3. freq' = freq \/ freq' = -observed_drift
  BY <1>2, StateChangeEffect, ClampInRange
<1>4. owd_filt' \in FilterType /\ owd_filt'.y = owd_filt.y
      /\ owd_filt'.nsec_prev = owd_filt.nsec_prev
  <2>1. owd_filt \in FilterType
    BY DEF Parts, DelaysOK, FilterBounded
  <2>2. QED
    BY <1>1, <2>1, FilterKeepsValues
<1>5. CASE offset_first_updated
  <2>1. Running
    BY <1>5 DEF EndToEndLoop
  <2>2. PathOK'
    BY <1>1, <1>4, <2>1 DEF Running, PathOK, FilterWithin
  <2>3. PICK K \in 1 .. Billion, M \in 1 .. Billion :
           Tames(K, M, AtLeastOne(rtOpts.ai)) /\ HeldOn(K, M)
    BY <2>1 DEF Running, Controlled
  <2>4. HeldOn(K, M)'
    <3>1. SUFFICES ASSUME NEW k1 \in Nat, NEW k2 \in Nat,
                          k1 + k2 + silence <= MaxSilence
                   PROVE  Held(K, M, theta + Move(k1, k2, freq', observed_drift),
                               observed_drift)
      BY <1>1 DEF HeldOn, Move
    <3>2. CASE freq' = freq
      BY <2>3, <3>1, <3>2 DEF HeldOn
    <3>3. CASE freq' = -observed_drift
      <4>1. 0 \in Nat /\ k1 + k2 \in Nat /\ 0 + (k1 + k2) + silence <= MaxSilence
        BY <3>1
      <4>2. Held(K, M, theta + Move(0, k1 + k2, freq, observed_drift), observed_drift)
        BY <2>3, <4>1 DEF HeldOn
      <4>3. Move(0, k1 + k2, freq, observed_drift) = Move(k1, k2, freq', observed_drift)
        <5> DEFINE b == Skew - observed_drift
        <5>1. b \in Int /\ Skew + freq' = b /\ Skew + freq \in Int
          BY <1>2, <3>3
        <5>2. /\ Move(k1, k2, freq', observed_drift) = k1 * b + k2 * b
              /\ Move(0, k1 + k2, freq, observed_drift)
                     = 0 * (Skew + freq) + (k1 + k2) * b
          BY <5>1 DEF Move
        <5> HIDE DEF b
        <5>3. (k1 + k2) * b = k1 * b + k2 * b /\ 0 * (Skew + freq) = 0
              /\ k1 * b \in Int /\ k2 * b \in Int
          BY <5>1
        <5>4. QED
          BY <5>2, <5>3
      <4>4. QED
        BY <4>2, <4>3
    <3>4. QED
      BY <1>3, <3>2, <3>3
  <2>5. Controlled'
    BY <1>1, <2>3, <2>4 DEF Controlled
  <2>6. Running'
    BY <1>1, <2>1, <2>2, <2>5 DEF Running, SinceSync
  <2>7. QED
    BY <1>1, <1>5, <2>6 DEF EndToEndLoop
<1>6. CASE ~offset_first_updated
  <2>1. Fresh
    BY <1>6 DEF EndToEndLoop
  <2>2. freq' = 0
    <3>1. observed_drift <= 0 /\ observed_drift >= 0 /\ freq = 0
      BY <2>1 DEF Fresh
    <3>2. QED
      BY <1>2, <1>3, <3>1
  <2>3. FilterWithin(owd_filt', 0)
    BY <1>4, <2>1 DEF Fresh, FilterWithin
  <2>4. Fresh'
    BY <1>1, <2>1, <2>2, <2>3 DEF Fresh
  <2>5. QED
    BY <1>1, <1>6, <2>4 DEF EndToEndLoop
<1>7. QED
  BY <1>5, <1>6

LEMMA LoopInductive ==
    ASSUME Tame, WidthFits, Parts, Asked, EndToEndLoop, [Next]_vars
    PROVE  EndToEndLoop'
<1>1. rtOpts' = rtOpts
  BY StateChangeEffect
     DEF Next, Second, AnySync, handleSync, AnyRequest, issueRequest, handleDelayResp,
         AnyPDelayResp, handlePDelayResp, Jump, vars
<1>2. SUFFICES ASSUME rtOpts.E2E_mode PROVE EndToEndLoop'
  BY <1>1 DEF EndToEndLoop
<1>3. CASE Second
  BY <1>2, <1>3, SecondKeepsLoop
<1>4. CASE AnySync
  <2>1. PICK sent \in Epochs, d \in PathDelay, c \in Residence[rtOpts.E2E_mode] :
           handleSync(sent, d, c)
    BY <1>4 DEF AnySync
  <2>2. CASE offset_first_updated
    <3>1. offset_first_updated' /\ Running'
      BY <1>2, <2>1, <2>2, SyncKeepsRunning DEF EndToEndLoop
    <3>2. QED
      BY <3>1 DEF EndToEndLoop
  <2>3. CASE ~offset_first_updated
    <3>1. IF offset_first_updated' THEN Running' ELSE Fresh'
      BY <1>2, <2>1, <2>3, SyncLeavesFresh DEF EndToEndLoop
    <3>2. QED
      BY <3>1 DEF EndToEndLoop
  <2>4. QED
    BY <2>2, <2>3
<1>5. CASE AnyRequest \/ UNCHANGED vars
  <2>1. UNCHANGED <<rtOpts, offset_first_updated, delayMS, meanPathDelay, observed_drift,
                    freq, owd_filt, ofm_prev, theta, silence>>
    BY <1>5 DEF AnyRequest, issueRequest, vars, delays, clock, world
  <2>2. QED
    BY <2>1 DEF EndToEndLoop, Fresh, Running, PathOK, FilterWithin, Controlled,
               HeldOn, Move, SinceSync
<1>6. CASE handleDelayResp
  <2>1. UNCHANGED <<offset_first_updated, observed_drift, freq, ofm_prev, theta, silence>>
    BY <1>6 DEF handleDelayResp, clock, world
  <2>2. CASE offset_first_updated
    <3>1. Running'
      BY <1>2, <1>6, <2>2, DelayRespKeepsRunning DEF EndToEndLoop
    <3>2. QED
      BY <2>1, <2>2, <3>1 DEF EndToEndLoop
  <2>3. CASE ~offset_first_updated
    <3>1. UNCHANGED <<meanPathDelay, owd_filt>>
      BY <1>6, <2>3 DEF handleDelayResp, updateDelay, delays
    <3>2. QED
      BY <1>1, <1>2, <2>1, <2>3, <3>1 DEF EndToEndLoop, Fresh, FilterWithin
  <2>4. QED
    BY <2>2, <2>3
<1>7. CASE AnyPDelayResp
  BY <1>2, <1>7 DEF AnyPDelayResp, handlePDelayResp
<1>8. CASE StateChange
  BY <1>2, <1>8, StateChangeKeepsLoop
<1>9. CASE \E j \in Jumps[rtOpts.E2E_mode] : Jump(j)
  BY <1>2, <1>9, TameFacts
<1>10. QED
  BY <1>3, <1>4, <1>5, <1>6, <1>7, <1>8, <1>9 DEF Next

LEMMA LoopInit ==
    ASSUME Tame, Parts, Init
    PROVE  EndToEndLoop
<1>1. SUFFICES ASSUME rtOpts.E2E_mode PROVE ~offset_first_updated /\ Fresh
  BY DEF EndToEndLoop
<1>2. PICK K \in 1 .. Billion, M \in 1 .. Billion : Tames(K, M, AtLeastOne(rtOpts.ai))
  BY <1>1, TameFacts
<1>3. NearOrFar(M, theta - silence * Skew)
  <2>1. theta \in Int /\ Skew \in Int
    BY WorldTyped
  <2>2. theta - silence * Skew = theta
    BY <2>1 DEF Init
  <2>3. QED
    BY <1>2, <2>2 DEF Init, Tames
<1>4. FilterWithin(owd_filt, 0)
  BY DEF Init, FilterWithin, FilterType
<1>5. QED
  BY <1>2, <1>3, <1>4 DEF Init, Fresh

LoopInv == Parts /\ Asked /\ PeerPath /\ EndToEndLoop

LEMMA LoopInvariant ==
    ASSUME WidthFits, Tame
    PROVE  Spec => []LoopInv
<1>1. Prompt
  BY DEF Tame
<1>2. Init => LoopInv
  BY InitHasInv, PeerPathInit, LoopInit DEF LoopInv
<1>3. LoopInv /\ [Next]_vars => LoopInv'
  BY <1>1, NextKeepsInv, AskedInductive, PeerPathInductive, LoopInductive DEF LoopInv
<1>4. QED
  BY <1>2, <1>3, PTL DEF Spec

LEMMA PathsPlausible == LoopInv => PathDelayPlausible
<1>1. SUFFICES ASSUME LoopInv PROVE PathDelayPlausible
  OBVIOUS
<1>2. MaxPathDelay \in Nat /\ Drift \in Nat /\ Longest \in Nat
      /\ 2 * Longest <= 2 * MaxPathDelay + Drift
  BY LongestBounds
<1>3. CASE ~rtOpts.E2E_mode
  <2>1. Value(Mean) \in 0 .. MaxPathDelay
    BY <1>1, <1>3 DEF LoopInv, PeerPath, Mean
  <2>2. 2 * Value(Mean) \in 0 .. 2 * MaxPathDelay + 0
    BY <1>2, <2>1
  <2>3. QED
    BY <1>3, <2>2 DEF PathDelayPlausible
<1>4. CASE rtOpts.E2E_mode /\ offset_first_updated
  <2>1. owd_filt.y \in 0 .. Longest /\ Mean \in {Zero, Time(0, owd_filt.y)}
    BY <1>1, <1>4 DEF LoopInv, EndToEndLoop, Running, PathOK, FilterWithin, Mean
  <2>2. Value(Mean) \in {0, owd_filt.y}
    BY <1>2, <2>1, SubSecondValue, ZeroTyped
  <2>3. QED
    BY <1>2, <1>4, <2>1, <2>2 DEF PathDelayPlausible
<1>5. CASE rtOpts.E2E_mode /\ ~offset_first_updated
  <2>1. Mean = Zero
    BY <1>1, <1>5 DEF LoopInv, EndToEndLoop, Fresh, Mean
  <2>2. QED
    BY <1>2, <1>5, <2>1, ZeroTyped DEF PathDelayPlausible
<1>6. QED
  BY <1>3, <1>4, <1>5

(* The path delay subtracted from every offset is one of the path, in either *)
(* mode, for any width, any path, any frequency limit and any divisors with  *)
(* which the controller tames the clock.                                     *)
THEOREM PathDelayIsPlausible ==
    ASSUME WidthFits, Tame
    PROVE  Spec => []PathDelayPlausible
  BY LoopInvariant, PathsPlausible, PTL

(* A peer to peer Sync sets the clock only from nearly a second off.         *)
LEMMA PeerSyncSets ==
    ASSUME Parts, PeerPath, ~rtOpts.E2E_mode, rtOpts.maxDelay = 0, NEW sent \in Epochs,
           NEW d \in PathDelay, NEW c \in Residence[rtOpts.E2E_mode],
           handleSync(sent, d, c), theta' # theta
    PROVE  Abs(theta) >= Billion - MaxPathDelay /\ Abs(theta') <= MaxPathDelay
<1>1. /\ theta \in Int /\ MaxPathDelay \in Nat /\ Billion \in Nat
      /\ d \in 0 .. MaxPathDelay
  BY WorldTyped
<1>2. Value(Mean) \in 0 .. MaxPathDelay
  BY DEF PeerPath, Mean
<1>3. PICK offset \in TimeInternal :
         /\ IsNormal(offset)
         /\ Value(offset) = theta + d - Value(Mean)
         /\ offset.seconds # 0 => offsetFromMaster' = offset
         /\ offset.seconds = 0 =>
               offsetFromMaster' =
                  Time(0, Quot(offset.nanoseconds, 2) + Quot(ofm_prev, 2))
  BY OffsetOfSync
<1>4. theta' = theta - Value(offsetFromMaster') /\ offsetFromMaster'.seconds # 0
  BY DEF handleSync, updateClock, ResetClock, SteerClock, adjOffset
<1>5. offset.seconds # 0 /\ offsetFromMaster' = offset
  BY <1>3, <1>4 DEF Time
<1>6. Abs(theta + d - Value(Mean)) >= Billion
  BY <1>3, <1>5, NormalSeconds
<1>7. theta' = Value(Mean) - d
  BY <1>1, <1>2, <1>3, <1>4, <1>5
<1>8. QED
  BY <1>1, <1>2, <1>6, <1>7 DEF Abs

(* In no time, and by no other master, the clock is moved by a Sync only.    *)
LEMMA OnlySyncSets ==
    ASSUME Parts, [Next]_vars, silence' <= silence, jumped' = jumped, theta' # theta
    PROVE  AnySync
<1>1. silence \in Nat /\ ~(silence' = silence + 1)
  BY WorldTyped
<1>2. QED
  BY <1>1, StateChangeEffect
     DEF Next, Second, AnyRequest, issueRequest, handleDelayResp, AnyPDelayResp,
         handlePDelayResp, Jump, vars, Parts, WorldOK

LEMMA SetsOnlyWhenOff ==
    ASSUME WidthFits, Tame, LoopInv, [Next]_vars,
           silence' <= silence, jumped' = jumped, theta' # theta
    PROVE  Abs(theta) >= Billion - MaxPathDelay /\ Abs(theta') <= MaxPathDelay
<1>1. AnySync
  BY OnlySyncSets DEF LoopInv
<1>2. PICK sent \in Epochs, d \in PathDelay, c \in Residence[rtOpts.E2E_mode] :
         handleSync(sent, d, c)
  BY <1>1 DEF AnySync
<1>3. rtOpts.maxDelay = 0
  BY DEF LoopInv, Parts, Tame
<1>4. CASE ~rtOpts.E2E_mode
  BY <1>2, <1>3, <1>4, PeerSyncSets DEF LoopInv
<1>5. CASE rtOpts.E2E_mode /\ offset_first_updated
  BY <1>2, <1>5, SyncKeepsRunning DEF LoopInv, EndToEndLoop
<1>6. CASE rtOpts.E2E_mode /\ ~offset_first_updated
  BY <1>2, <1>6, SyncLeavesFresh DEF LoopInv, EndToEndLoop
<1>7. QED
  BY <1>4, <1>5, <1>6

(* The clock is set only when it is off by a second, less one path, and is   *)
(* then off by no more than a path: it is never set by mistake.              *)
THEOREM ClockSetOnlyWhenOff ==
    ASSUME WidthFits, Tame
    PROVE  Spec => SetOnlyWhenOff
<1>1. LoopInv /\ [Next]_vars =>
         [silence' <= silence /\ jumped' = jumped /\ theta' # theta =>
             /\ Abs(theta) >= Billion - MaxPathDelay
             /\ Abs(theta') <= MaxPathDelay]_vars
  BY SetsOnlyWhenOff
<1>2. QED
  BY <1>1, LoopInvariant, PTL DEF Spec, SetOnlyWhenOff

(* End to end, the first offset of less than a second is the last the clock  *)
(* is set for: from then on it is less than a second off, less the delay of  *)
(* a path, and only time moves it: every Sync steers.                        *)
NeverSetAgain ==
    [][rtOpts.E2E_mode /\ offset_first_updated =>
          /\ Abs(theta) + MaxPathDelay < Billion
          /\ offset_first_updated'
          /\ theta' # theta => silence' = silence + 1]_vars
THEOREM ClockIsNeverSetAgain ==
    ASSUME WidthFits, Tame
    PROVE  Spec => NeverSetAgain
<1>1. ASSUME LoopInv, [Next]_vars, rtOpts.E2E_mode, offset_first_updated
      PROVE  /\ Abs(theta) + MaxPathDelay < Billion
             /\ offset_first_updated'
             /\ theta' # theta => silence' = silence + 1
  <2>1. Parts /\ Running
    BY <1>1 DEF LoopInv, EndToEndLoop
  <2>2. Abs(theta) + MaxPathDelay < Billion
    <3>1. PICK K \in 1 .. Billion, M \in 1 .. Billion :
             Tames(K, M, AtLeastOne(rtOpts.ai)) /\ HeldOn(K, M)
      BY <2>1 DEF Running, Controlled
    <3>2. theta \in Int /\ observed_drift \in -AdjFreqMax .. AdjFreqMax
          /\ AtLeastOne(rtOpts.ai) \in Nat \ {0}
      BY <2>1, WorldTyped, Divisors
    <3>3. QED
      BY <2>1, <3>1, <3>2, HeldNow, HeldIsNear
  <2>3. CASE AnySync
    <3>1. PICK sent \in Epochs, d \in PathDelay, c \in Residence[rtOpts.E2E_mode] :
             handleSync(sent, d, c)
      BY <2>3 DEF AnySync
    <3>2. QED
      BY <1>1, <2>1, <2>2, <3>1, SyncKeepsRunning
  <2>4. CASE ~AnySync
    <3>1. theta' # theta => silence' = silence + 1
      <4>1. Jumps[rtOpts.E2E_mode] = {}
        BY <1>1, <2>1, WorldTyped DEF Tame, Parts
      <4>2. QED
        BY <1>1, <2>1, <2>4, <4>1, StateChangeEffect
           DEF Next, Second, AnyRequest, issueRequest, handleDelayResp, AnyPDelayResp,
               handlePDelayResp, vars
    <3>2. offset_first_updated' = offset_first_updated
      BY <1>1, <2>1, <2>4, StateChangeEffect
         DEF Next, Second, AnyRequest, issueRequest, handleDelayResp, AnyPDelayResp,
             handlePDelayResp, Jump, vars
    <3>3. QED
      BY <1>1, <2>2, <3>1, <3>2
  <2>5. QED
    BY <2>3, <2>4
<1>2. LoopInv /\ [Next]_vars =>
         [rtOpts.E2E_mode /\ offset_first_updated =>
             /\ Abs(theta) + MaxPathDelay < Billion
             /\ offset_first_updated'
             /\ theta' # theta => silence' = silence + 1]_vars
  BY <1>1
<1>3. QED
  BY <1>2, LoopInvariant, PTL DEF Spec, NeverSetAgain
================================================================================
