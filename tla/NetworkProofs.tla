------------------------------ MODULE NetworkProofs ------------------------------
(*****************************************************************************)
(* On a network of any number of daemons, with any losses and any crashes,   *)
(* no ports follow one another in a ring, and the best clock is not deposed. *)
(*                                                                           *)
(* A port that may be master only ever follows a clock better than its own,  *)
(* and one that may not is followed by nobody. Among the ports of a ring the *)
(* best one would have nobody to follow: the clocks are ordered by their     *)
(* attributes, and natural numbers do not decrease for ever.                 *)
(*****************************************************************************)
EXTENDS Network, BmcProofs, WellFoundedInduction

-------------------------------------------------------------------------------
(* There is a best among any clocks                                          *)

LEMMA LeastNatural ==
    ASSUME NEW T \in SUBSET Nat, T # {}
    PROVE  \E n \in T : \A k \in T : n <= k
<1>1. PICK n \in T : \A k \in T : ~(<<k, n>> \in OpToRel(<, Nat))
  BY NatLessThanWellFounded, WFMin
<1>2. ASSUME NEW k \in T PROVE n <= k
  <2>1. ~(k < n)
    BY <1>1 DEF OpToRel
  <2>2. QED
    BY <2>1
<1>3. QED
  BY <1>2

(* Any clocks have some whose attribute is least.                            *)
Least(S, f) == {x \in S : \A y \in S : f[x] <= f[y]}

LEMMA LeastAttribute ==
    ASSUME NEW f \in [Clocks -> Nat], NEW S \in SUBSET Clocks, S # {}
    PROVE  Least(S, f) # {} /\ Least(S, f) \in SUBSET Clocks
<1>1. {f[x] : x \in S} \in SUBSET Nat /\ {f[x] : x \in S} # {}
  OBVIOUS
<1>2. PICK n \in {f[x] : x \in S} : \A k \in {f[x] : x \in S} : n <= k
  BY <1>1, LeastNatural
<1>3. PICK x \in S : n = f[x]
  OBVIOUS
<1>4. \A y \in S : f[x] <= f[y]
  BY <1>2, <1>3
<1>5. QED
  BY <1>4 DEF Least

(* Clocks announce themselves, so that the comparison goes by the attributes *)
(* of two grandmasters, whoever the parent is.                               *)
LEMMA ClocksDiffer ==
    ASSUME NEW p \in Clocks, NEW q \in Clocks, p # q, NEW parent
    PROVE  bmcDataSetComparison(Own(p), q, parent) = OtherGrandmaster(p, q)
<1>1. p.grandmasterIdentity # q.grandmasterIdentity
  BY ClocksAssumption DEF OrdinaryClock
<1>2. /\ Own(p).grandmasterIdentity = p.grandmasterIdentity
      /\ OtherGrandmaster(Own(p), q) = OtherGrandmaster(p, q)
  BY ClocksAssumption DEF Own, AnnounceRecord, OtherGrandmaster
<1>3. QED
  BY <1>1, <1>2 DEF bmcDataSetComparison

(* One of any clocks has no better one beside it, the first in the order of  *)
(* the attributes.                                                           *)
LEMMA SomeIsBest ==
    ASSUME NEW S \in SUBSET Clocks, S # {}
    PROVE  \E x \in S : \A y \in S : ~(OtherGrandmaster(x, y) > 0)
<1> DEFINE f1 == [x \in Clocks |-> x.grandmasterPriority1]
           f2 == [x \in Clocks |-> x.clockClass]
           f3 == [x \in Clocks |-> x.clockAccuracy]
           f4 == [x \in Clocks |-> x.offsetScaledLogVariance]
           f5 == [x \in Clocks |-> x.grandmasterPriority2]
           f6 == [x \in Clocks |-> x.grandmasterIdentity]
           S1 == Least(S, f1)
           S2 == Least(S1, f2)
           S3 == Least(S2, f3)
           S4 == Least(S3, f4)
           S5 == Least(S4, f5)
           S6 == Least(S5, f6)
<1>1. /\ f1 \in [Clocks -> Nat] /\ f2 \in [Clocks -> Nat] /\ f3 \in [Clocks -> Nat]
      /\ f4 \in [Clocks -> Nat] /\ f5 \in [Clocks -> Nat] /\ f6 \in [Clocks -> Nat]
  BY ClocksAssumption, RecordFields
<1>2. S6 # {}
  <2> HIDE DEF f1, f2, f3, f4, f5, f6
  <2>1. S1 # {} /\ S1 \in SUBSET Clocks
    BY <1>1, LeastAttribute
  <2> HIDE DEF S1
  <2>2. S2 # {} /\ S2 \in SUBSET Clocks
    BY <1>1, <2>1, LeastAttribute
  <2> HIDE DEF S2
  <2>3. S3 # {} /\ S3 \in SUBSET Clocks
    BY <1>1, <2>2, LeastAttribute
  <2> HIDE DEF S3
  <2>4. S4 # {} /\ S4 \in SUBSET Clocks
    BY <1>1, <2>3, LeastAttribute
  <2> HIDE DEF S4
  <2>5. S5 # {} /\ S5 \in SUBSET Clocks
    BY <1>1, <2>4, LeastAttribute
  <2> HIDE DEF S5
  <2>6. QED
    BY <1>1, <2>5, LeastAttribute
<1>3. PICK x \in S6 : TRUE
  BY <1>2
<1> HIDE DEF f1, f2, f3, f4, f5, f6
<1>4. x \in S5 /\ x \in S4 /\ x \in S3 /\ x \in S2 /\ x \in S1 /\ x \in S
  BY <1>3 DEF Least
<1>5. ASSUME NEW y \in S
      PROVE  ~(OtherGrandmaster(x, y) > 0)
  <2>1. f1[x] <= f1[y] /\ (f1[x] = f1[y] => y \in S1)
    BY <1>4, <1>5 DEF Least
  <2>2. y \in S1 => f2[x] <= f2[y] /\ (f2[x] = f2[y] => y \in S2)
    BY <1>4 DEF Least
  <2>3. y \in S2 => f3[x] <= f3[y] /\ (f3[x] = f3[y] => y \in S3)
    BY <1>4 DEF Least
  <2>4. y \in S3 /\ f4[x] = f4[y] => y \in S4
    BY <1>4 DEF Least
  <2>5. y \in S4 => f5[x] <= f5[y] /\ (f5[x] = f5[y] => y \in S5)
    BY <1>4 DEF Least
  <2>6. y \in S5 => f6[x] <= f6[y]
    BY <1>3 DEF Least
  <2> HIDE DEF S1, S2, S3, S4, S5, S6
  <2>7. /\ x \in Clocks /\ x \in AnnounceRecord
        /\ y \in Clocks /\ y \in AnnounceRecord
    BY <1>4, ClocksAssumption
  <2>8. QED
    BY <2>1, <2>2, <2>3, <2>4, <2>5, <2>6, <2>7, RecordFields
       DEF OtherGrandmaster, Lex, memcmp, f1, f2, f3, f4, f5, f6
<1>6. QED
  BY <1>4, <1>5

-------------------------------------------------------------------------------
(* Whom a port follows                                                       *)

PortRecord ==
    [ slaveOnly : BOOLEAN,
      portState : {"INITIALIZING", "LISTENING", "PASSIVE", "SLAVE", "MASTER"},
      parentDS : AnnounceRecord \cup {NULL},
      known : SUBSET Clocks,
      pending : BOOLEAN ]

(* A slave's parent is a clock that may be master and, if it may be master   *)
(* itself, a better one than its own and one it knows.                       *)
WellParented(p, s, L) ==
    s.portState = "SLAVE" =>
        \E q \in L \ {p} :
            /\ s.parentDS = s1(q)
            /\ p \in L => OtherGrandmaster(p, q) > 0 /\ q \in s.known

(* The port of p as seen from outside, L being the clocks that may be master.*)
PortInv(p, s, L) ==
    /\ s \in PortRecord
    /\ s.slaveOnly = (p \notin L)
    /\ s.known \subseteq L \ {p}
    /\ s.portState = "MASTER" => p \in L
    /\ WellParented(p, s, L)

NetInv ==
    /\ ports \in [Clocks -> PortRecord]
    /\ alive \in SUBSET Clocks
    /\ \A p \in Clocks : PortInv(p, ports[p], Leaders)

(* The parent data set made of a clock names it.                             *)
LEMMA ParentNamed ==
    ASSUME NEW q \in Clocks
    PROVE  /\ s1(q) \in AnnounceRecord
           /\ s1(q).clockIdentity = q.clockIdentity
           /\ s1(q).portNumber = q.portNumber
<1>1. q \in AnnounceRecord
  BY ClocksAssumption
<1>2. (q.stepsRemoved + 1) % 65536 \in UInteger16
  BY <1>1 DEF AnnounceRecord, UInteger16
<1>3. QED
  BY <1>1, <1>2 DEF s1, AnnounceRecord

LEMMA OwnTyped ==
    ASSUME NEW p \in Clocks
    PROVE  Own(p) \in AnnounceRecord /\ Own(p).clockClass = p.clockClass
           /\ p.clockClass >= 128 /\ p.clockClass # 255 /\ p.clockClass \in Nat
<1>1. p \in AnnounceRecord /\ p.clockClass \in 128 .. 254 /\ 0 \in UInteger16
  BY ClocksAssumption DEF UInteger16
<1>2. QED
  BY <1>1 DEF Own, AnnounceRecord

(* The steps of a port: each keeps what is known of it, on a network whose   *)
(* masters are the clocks L.                                                 *)
LEMMA PortStep ==
    ASSUME NEW L \in SUBSET Clocks, NEW p \in Clocks, NEW s,
           PortInv(p, s, L),
           NEW t \in started(Own(p), s) \cup decided(Own(p), L \ {p}, s)
                        \cup timedOut(Own(p), s)
                        \cup UNION {heard(s, m) : m \in L \ {p}}
    PROVE  PortInv(p, t, L)
<1> USE DEF PortInv
<1>0. Own(p) \in AnnounceRecord /\ Own(p).clockClass = p.clockClass
      /\ p.clockClass >= 128 /\ p.clockClass # 255 /\ p.clockClass \in Nat
  BY OwnTyped
<1>1. CASE t \in started(Own(p), s)
  <2>1. t = [s EXCEPT !.portState = "LISTENING", !.parentDS = Own(p), !.known = {}]
    BY <1>1 DEF started
  <2>2. t \in PortRecord /\ t.slaveOnly = s.slaveOnly /\ t.known = {}
        /\ t.portState = "LISTENING"
    BY <1>0, <2>1 DEF PortRecord
  <2>3. QED
    BY <2>2 DEF WellParented
<1>2. CASE t \in timedOut(Own(p), s)
  <2>1. CASE p \in L
    <3>1. t = [s EXCEPT !.portState = "MASTER", !.parentDS = Own(p), !.known = {}]
      BY <1>0, <1>2, <2>1 DEF timedOut, MayBeMaster
    <3>2. t \in PortRecord /\ t.slaveOnly = s.slaveOnly /\ t.known = {}
          /\ t.portState = "MASTER"
      BY <1>0, <3>1 DEF PortRecord
    <3>3. QED
      BY <2>1, <3>2 DEF WellParented
  <2>2. CASE p \notin L
    <3>1. t = [s EXCEPT !.portState = "LISTENING", !.known = {}]
      BY <1>2, <2>2 DEF timedOut, MayBeMaster
    <3>2. t \in PortRecord /\ t.slaveOnly = s.slaveOnly /\ t.known = {}
          /\ t.portState = "LISTENING"
      BY <3>1 DEF PortRecord
    <3>3. QED
      BY <3>2 DEF WellParented
  <2>3. QED
    BY <2>1, <2>2
<1>3. ASSUME NEW m \in L \ {p}, t \in heard(s, m)
      PROVE  PortInv(p, t, L)
  <2>1. CASE t = [s EXCEPT !.pending = TRUE, !.known = @ \cup {m}]
    BY <2>1 DEF PortRecord, WellParented
  <2>2. CASE /\ t = [s EXCEPT !.pending = TRUE, !.parentDS = s1(m)]
             /\ s.portState = "SLAVE" /\ SamePort(s.parentDS, m)
    <3>1. PICK q \in L \ {p} :
             /\ s.parentDS = s1(q)
             /\ p \in L => OtherGrandmaster(p, q) > 0 /\ q \in s.known
      BY <2>2 DEF WellParented
    <3>2. q = m
      BY <2>2, <3>1, ParentNamed, ClocksAssumption DEF SamePort
    <3>3. s1(m) = s.parentDS
      BY <3>1, <3>2
    <3>4. t \in PortRecord /\ t.portState = s.portState /\ t.parentDS = s1(m)
          /\ t.slaveOnly = s.slaveOnly /\ t.known = s.known
      BY <2>2, ParentNamed DEF PortRecord
    <3>5. QED
      BY <3>1, <3>2, <3>4 DEF WellParented
  <2>3. QED
    BY <1>3, <2>1, <2>2 DEF heard
<1>4. CASE t \in decided(Own(p), L \ {p}, s)
  <2>1. ASSUME NEW m \in L \ {p},
               p \in L => OtherGrandmaster(p, m) > 0 /\ m \in s.known,
               t = follow(s, "SLAVE", m)
        PROVE  PortInv(p, t, L)
    <3>1. t \in PortRecord /\ t.portState = "SLAVE" /\ t.parentDS = s1(m)
          /\ t.slaveOnly = s.slaveOnly /\ t.known = s.known
      BY <2>1, ParentNamed DEF follow, PortRecord
    <3>2. QED
      BY <2>1, <3>1 DEF WellParented
  <2>2. ASSUME p \in L,
               t = [s EXCEPT !.pending = FALSE, !.portState = "MASTER",
                             !.parentDS = Own(p)]
        PROVE  PortInv(p, t, L)
    BY <1>0, <2>2 DEF PortRecord, WellParented
  <2>3. CASE s.known # {}
    <3>1. PICK m \in Undominated(s) : t \in decidedOn(Own(p), s, m)
      BY <1>4, <2>3 DEF decided
    <3>2. m \in L \ {p} /\ m \in s.known
      BY <3>1 DEF Undominated
    <3>3. bmcDataSetComparison(Own(p), m, s.parentDS.clockIdentity)
             = OtherGrandmaster(p, m)
      BY <3>2, ClocksDiffer
    <3>4. CASE s.slaveOnly
      BY <2>1, <3>1, <3>2, <3>4 DEF decidedOn
    <3>5. CASE ~s.slaveOnly
      <4>1. OtherGrandmaster(p, m) \in Int
        BY <3>2, RecordFields, ClocksAssumption DEF OtherGrandmaster, Lex, memcmp
      <4>2. p \in L /\ Own(p).clockClass >= 128
        BY <1>0, <3>5
      <4>3. \/ t = [s EXCEPT !.pending = FALSE, !.portState = "MASTER",
                             !.parentDS = Own(p)]
            \/ OtherGrandmaster(p, m) > 0 /\ t = follow(s, "SLAVE", m)
        BY <1>0, <3>1, <3>3, <3>5, <4>1 DEF decidedOn
      <4>4. QED
        BY <2>1, <2>2, <3>2, <4>2, <4>3
    <3>6. QED
      BY <3>4, <3>5
  <2>4. CASE s.known = {}
    <3>1. CASE s.portState = "MASTER"
      <4>1. t = [s EXCEPT !.pending = FALSE, !.parentDS = Own(p)]
        BY <1>4, <2>4, <3>1 DEF decided
      <4>2. t \in PortRecord /\ t.slaveOnly = s.slaveOnly /\ t.known = s.known
            /\ t.portState = "MASTER"
        BY <1>0, <3>1, <4>1 DEF PortRecord
      <4>3. QED
        BY <3>1, <4>2 DEF WellParented
    <3>2. CASE s.portState # "MASTER" /\ s.slaveOnly
      BY <1>4, <2>1, <2>4, <3>2 DEF decided
    <3>3. CASE s.portState # "MASTER" /\ ~s.slaveOnly
      <4>1. s.portState = "LISTENING" /\ t = [s EXCEPT !.pending = FALSE]
        BY <1>4, <2>4, <3>3 DEF decided
      <4>2. t \in PortRecord /\ t.slaveOnly = s.slaveOnly /\ t.known = s.known
            /\ t.portState = "LISTENING"
        BY <4>1 DEF PortRecord
      <4>3. QED
        BY <4>2 DEF WellParented
    <3>4. QED
      BY <3>1, <3>2, <3>3
  <2>5. QED
    BY <2>3, <2>4
<1>5. QED
  BY <1>1, <1>2, <1>3, <1>4

-------------------------------------------------------------------------------
(* The network                                                               *)

LEMMA NewPortOK ==
    ASSUME NEW L, NEW p \in Clocks, NEW o \in BOOLEAN, o = (p \notin L)
    PROVE  PortInv(p, NewPort(o), L)
  BY DEF NewPort, PortInv, PortRecord, WellParented

LEMMA Initially == Init => NetInv
<1> SUFFICES ASSUME Init PROVE NetInv
  OBVIOUS
<1>1. PICK S \in SlaveOnly : ports = [p \in Clocks |-> NewPort(p \in S)]
  BY DEF Init
<1>2. ASSUME NEW p \in Clocks
      PROVE  PortInv(p, ports[p], Leaders)
  <2>1. ports[p] = NewPort(p \in S) /\ (p \in Leaders <=> p \notin S)
    BY <1>1 DEF Leaders, NewPort
  <2>2. (p \in S) \in BOOLEAN /\ (p \in S) = (p \notin Leaders)
    BY <2>1
  <2>3. QED
    BY <2>1, <2>2, NewPortOK
<1>3. QED
  BY <1>1, <1>2 DEF NetInv, PortInv, Init

(* One port changes, to a state that PortInv allows: the others see the same *)
(* clocks that may be master.                                                *)
LEMMA OnePortChanges ==
    ASSUME NetInv, NEW p \in Clocks, NEW s, PortInv(p, s, Leaders),
           ports' = [ports EXCEPT ![p] = s]
    PROVE  ports' \in [Clocks -> PortRecord]
           /\ \A q \in Clocks : PortInv(q, ports'[q], Leaders')
<1>1. ports' \in [Clocks -> PortRecord]
  BY DEF NetInv, PortInv
<1>2. \A q \in Clocks : ports'[q].slaveOnly = ports[q].slaveOnly
  BY DEF NetInv, PortInv
<1>3. Leaders' = Leaders
  BY <1>2 DEF Leaders
<1>4. \A q \in Clocks : PortInv(q, ports'[q], Leaders)
  BY DEF NetInv
<1>5. QED
  BY <1>1, <1>3, <1>4

(* In a step one port at most changes, and keeps PortInv.                    *)
LEMMA StepOfOnePort ==
    ASSUME NetInv, [Next]_vars
    PROVE  \/ UNCHANGED ports
           \/ \E p \in Clocks : \E s :
                 PortInv(p, s, Leaders) /\ ports' = [ports EXCEPT ![p] = s]
<1>0. /\ Leaders \in SUBSET Clocks
      /\ \A p \in Clocks : PortInv(p, ports[p], Leaders)
  BY DEF Leaders, NetInv
<1> DEFINE Goal == \E p \in Clocks : \E s :
                      PortInv(p, s, Leaders) /\ ports' = [ports EXCEPT ![p] = s]
<1>1. ASSUME NEW p \in Clocks, NEW q \in Clocks, Hear(p, q)
      PROVE  Goal
  <2>1. p \in Leaders \ {q}
    BY <1>0, <1>1 DEF Hear, Master, PortInv
  <2>2. PICK s \in heard(ports[q], p) : ports' = [ports EXCEPT ![q] = s]
    BY <1>1 DEF Hear, Becomes
  <2>3. PortInv(q, s, Leaders)
    BY <1>0, <2>1, <2>2, PortStep
  <2>4. QED
    BY <2>2, <2>3
<1>2. ASSUME NEW p \in Clocks, Start(p) \/ Decide(p) \/ TimeOut(p)
      PROVE  Goal
  <2>1. PICK s \in started(Own(p), ports[p])
                     \cup decided(Own(p), Leaders \ {p}, ports[p])
                     \cup timedOut(Own(p), ports[p]) :
           ports' = [ports EXCEPT ![p] = s]
    BY <1>2 DEF Start, Decide, TimeOut, Becomes
  <2>2. PortInv(p, s, Leaders)
    BY <1>0, <2>1, PortStep
  <2>3. QED
    BY <2>1, <2>2
<1>3. ASSUME NEW p \in Clocks, Crash(p)
      PROVE  Goal
  <2>1. PortInv(p, NewPort(ports[p].slaveOnly), Leaders)
    BY <1>0, NewPortOK DEF PortInv, PortRecord
  <2>2. QED
    BY <1>3, <2>1 DEF Crash
<1>4. QED
  BY <1>1, <1>2, <1>3 DEF Next, Restart, vars

LEMMA Inductive == NetInv /\ [Next]_vars => NetInv'
<1> SUFFICES ASSUME NetInv, [Next]_vars PROVE NetInv'
  OBVIOUS
<1>1. alive' \in SUBSET Clocks
  BY DEF NetInv, Next, vars, Hear, Start, Decide, TimeOut, Becomes, Crash, Restart
<1>2. CASE UNCHANGED ports
  BY <1>1, <1>2 DEF NetInv, Leaders
<1>3. ASSUME NEW p \in Clocks, NEW s, PortInv(p, s, Leaders),
             ports' = [ports EXCEPT ![p] = s]
      PROVE  NetInv'
  BY <1>1, <1>3, OnePortChanges DEF NetInv
<1>4. QED
  BY <1>2, <1>3, StepOfOnePort

(* Whatever announces are lost and whichever daemons are switched off and    *)
(* on, every slave follows a clock that may be master, and one better than   *)
(* its own if its own may be master too.                                     *)
THEOREM InductiveInvariant == Spec => []NetInv
<1>1. Init => NetInv
  BY Initially
<1>2. QED
  BY <1>1, Inductive, PTL DEF Spec

(* No ports follow one another in a ring, on a network of any number of      *)
(* clocks.                                                                   *)
THEOREM NoPortsFollowInARing == Spec => []NoRing
<1>1. ASSUME NetInv PROVE NoRing
  <2> SUFFICES ASSUME NEW S \in SUBSET Clocks, S # {}
               PROVE  \E p \in S : \A q \in S : ~Follows(p, q)
    BY DEF NoRing
  <2>1. ASSUME NEW p \in S, NEW q \in S, Follows(p, q)
        PROVE  q \in Leaders \ {p} /\ (p \in Leaders => OtherGrandmaster(p, q) > 0)
    <3>1. PICK r \in Leaders \ {p} :
             /\ ports[p].parentDS = s1(r)
             /\ p \in Leaders => OtherGrandmaster(p, r) > 0
      BY <1>1, <2>1 DEF NetInv, PortInv, WellParented, Follows
    <3>2. r \in Clocks
      BY DEF Leaders
    <3>3. r = q
      BY <2>1, <3>1, <3>2, ParentNamed, ClocksAssumption DEF Follows
    <3>4. QED
      BY <3>1, <3>3
  <2>2. CASE S \cap Leaders = {}
    BY <2>1, <2>2
  <2>3. CASE S \cap Leaders # {}
    <3>1. PICK p \in S \cap Leaders :
             \A q \in S \cap Leaders : ~(OtherGrandmaster(p, q) > 0)
      BY <2>3, SomeIsBest
    <3>2. QED
      BY <2>1, <3>1
  <2>4. QED
    BY <2>2, <2>3
<1>2. QED
  BY <1>1, InductiveInvariant, PTL

-------------------------------------------------------------------------------
(* The best clock keeps what it has won                                      *)

(* No two clocks compare equal: else either would find a network of both     *)
(* faulty (divergence 1), and none of them need be the best.                 *)
AllTold ==
    \A p, q \in Clocks :
        p # q => bmcDataSetComparison(Own(p), q, p.clockIdentity) # 0

LEMMA BestOfLeaders ==
    ASSUME AllTold, Leaders # {}
    PROVE  /\ Best \in Leaders
           /\ \A q \in Leaders \ {Best} : OtherGrandmaster(Best, q) < 0
<1>1. ASSUME NEW p \in Leaders, NEW q \in Leaders, p # q
      PROVE  /\ Better(p, q) <=> OtherGrandmaster(p, q) < 0
             /\ OtherGrandmaster(p, q) \in Int /\ OtherGrandmaster(p, q) # 0
  <2>1. p \in Clocks /\ q \in Clocks /\ p \in AnnounceRecord /\ q \in AnnounceRecord
    BY ClocksAssumption DEF Leaders
  <2>2. bmcDataSetComparison(Own(p), q, p.clockIdentity) = OtherGrandmaster(p, q)
    BY <1>1, <2>1, ClocksDiffer
  <2>3. OtherGrandmaster(p, q) \in Int
    BY <2>1, RecordFields DEF OtherGrandmaster, Lex, memcmp
  <2>4. QED
    BY <1>1, <2>1, <2>2, <2>3 DEF AllTold, Better
<1>2. PICK p \in Leaders : \A q \in Leaders : ~(OtherGrandmaster(p, q) > 0)
  BY SomeIsBest DEF Leaders
<1>3. \A q \in Leaders \ {p} : Better(p, q)
  BY <1>1, <1>2
<1>4. Best \in Leaders /\ \A q \in Leaders \ {Best} : Better(Best, q)
  BY <1>3 DEF Best
<1>5. QED
  BY <1>1, <1>4

(* A port that knows a clock better than all others it knows follows that    *)
(* clock when it decides, or turns MASTER if its own is better still.        *)
LEMMA DecisionIsBest ==
    ASSUME NEW L \in SUBSET Clocks, NEW p \in Clocks, NEW s, PortInv(p, s, L),
           NEW t \in decided(Own(p), L \ {p}, s),
           NEW b \in L, b \in s.known,
           \A k \in s.known \ {b} : OtherGrandmaster(b, k) < 0
    PROVE  /\ t.known = s.known
           /\ p \in L /\ OtherGrandmaster(p, b) < 0 => t.portState = "MASTER"
           /\ p \notin L \/ OtherGrandmaster(p, b) > 0
                => t.portState = "SLAVE" /\ t.parentDS = s1(b)
<1>1. PICK m \in Undominated(s) : t \in decidedOn(Own(p), s, m)
  BY DEF decided
<1>2. m \in s.known /\ m \in Clocks /\ b \in Clocks /\ m # p
  BY <1>1 DEF Undominated, PortInv
<1>3. m = b
  <2>1. SUFFICES ASSUME m # b PROVE FALSE
    OBVIOUS
  <2>2. bmcDataSetComparison(b, m, s.parentDS.clockIdentity) = OtherGrandmaster(b, m)
    BY <1>2, <2>1, ClocksAssumption DEF bmcDataSetComparison, OrdinaryClock
  <2>3. QED
    BY <1>1, <1>2, <2>1, <2>2 DEF Undominated
<1>4. bmcDataSetComparison(Own(p), b, s.parentDS.clockIdentity) = OtherGrandmaster(p, b)
  BY <1>2, <1>3, ClocksDiffer
<1>5. OtherGrandmaster(p, b) \in Int /\ ~(Own(p).clockClass < 128)
  <2>1. p \in AnnounceRecord /\ b \in AnnounceRecord
    BY <1>2, ClocksAssumption
  <2>2. QED
    BY <2>1, OwnTyped, RecordFields DEF OtherGrandmaster, Lex, memcmp
<1>6. s \in PortRecord /\ s.slaveOnly = (p \notin L)
  BY DEF PortInv
<1>7. /\ follow(s, "SLAVE", b).known = s.known
      /\ follow(s, "SLAVE", b).portState = "SLAVE"
      /\ follow(s, "SLAVE", b).parentDS = s1(b)
  BY <1>6 DEF follow, PortRecord
<1>8. CASE s.slaveOnly
  BY <1>1, <1>3, <1>6, <1>7, <1>8 DEF decidedOn
<1>9. CASE ~s.slaveOnly /\ OtherGrandmaster(p, b) < 0
  <2>1. t = [s EXCEPT !.pending = FALSE, !.portState = "MASTER", !.parentDS = Own(p)]
    BY <1>1, <1>3, <1>4, <1>9 DEF decidedOn
  <2>2. t.known = s.known /\ t.portState = "MASTER"
    BY <1>6, <2>1 DEF PortRecord
  <2>3. ~(OtherGrandmaster(p, b) > 0)
    BY <1>5, <1>9
  <2>4. QED
    BY <1>6, <1>9, <2>2, <2>3
<1>10. CASE ~s.slaveOnly /\ ~(OtherGrandmaster(p, b) < 0)
  BY <1>1, <1>3, <1>4, <1>5, <1>6, <1>7, <1>10 DEF decidedOn
<1>11. QED
  BY <1>8, <1>9, <1>10

BestIsMaster == Best \in alive /\ Master(Best)

(* The port of p follows the best clock, and knows it: a slave only daemon   *)
(* may have picked it out of masters it had forgotten, and give it up again. *)
FollowsBest(p) ==
    Follows(p, Best) /\ (ports[p].slaveOnly => Best \in ports[p].known)

(* Whatever the others announce, the best clock is no longer deposed once it *)
(* is master, unless it is switched off.                                     *)
BestStaysMaster ==
    [][BestIsMaster /\ Best \in alive' => BestIsMaster']_vars

(* Nor does a port that follows it leave it, whichever worse masters it      *)
(* hears besides or remembers, but for its receipt timer: no announce and no *)
(* decision takes it away, only their absence.                               *)
FollowersStay ==
    [][\A p \in Clocks :
         BestIsMaster /\ FollowsBest(p) /\ {Best, p} \subseteq alive' /\ ~TimeOut(p)
            => FollowsBest(p)']_vars

(* Which clock is the best does not change: none turns slave only or ceases  *)
(* to be it.                                                                 *)
LEMMA LeadersStay ==
    ASSUME NetInv, [Next]_vars
    PROVE  Leaders' = Leaders /\ Best' = Best
<1>1. \A p \in Clocks : ports'[p].slaveOnly = ports[p].slaveOnly
  <2>1. ASSUME NEW p \in Clocks, NEW s, PortInv(p, s, Leaders),
               ports' = [ports EXCEPT ![p] = s]
        PROVE  \A q \in Clocks : ports'[q].slaveOnly = ports[q].slaveOnly
    BY <2>1 DEF NetInv, PortInv
  <2>2. CASE UNCHANGED ports
    BY <2>2
  <2>3. QED
    BY <2>1, <2>2, StepOfOnePort
<1>2. Leaders' = Leaders
  BY <1>1 DEF Leaders
<1>3. QED
  BY <1>2 DEF Best, Better

(* What a port that is not switched off does in a step, if anything.         *)
LEMMA PortMoves ==
    ASSUME NetInv, [Next]_vars, NEW p \in alive'
    PROVE  \/ ports'[p] = ports[p]
           \/ ports'[p] \in started(Own(p), ports[p])
                  \cup decided(Own(p), Leaders \ {p}, ports[p])
                  \cup UNION {heard(ports[p], m) : m \in Leaders \ {p}}
           \/ TimeOut(p)
<1>0. p \in Clocks
  <2>1. NetInv'
    BY Inductive
  <2>2. QED
    BY <2>1 DEF NetInv
<1>1. ASSUME NEW r \in Clocks, NEW q \in Clocks, Hear(r, q)
      PROVE  ports'[p] = ports[p]
             \/ ports'[p] \in UNION {heard(ports[p], m) : m \in Leaders \ {p}}
  <2>1. r \in Leaders \ {q}
    BY <1>1 DEF Hear, Master, NetInv, PortInv
  <2>2. PICK s \in heard(ports[q], r) : ports' = [ports EXCEPT ![q] = s]
    BY <1>1 DEF Hear, Becomes
  <2>3. CASE q = p
    BY <1>0, <2>1, <2>2, <2>3 DEF NetInv
  <2>4. CASE q # p
    BY <1>0, <2>2, <2>4 DEF NetInv
  <2>5. QED
    BY <2>3, <2>4
<1>2. ASSUME NEW r \in Clocks, NEW states, Becomes(r, states)
      PROVE  ports'[p] = ports[p] \/ (r = p /\ ports'[p] \in states)
  BY <1>0, <1>2 DEF Becomes, NetInv
<1>3. ASSUME NEW r \in Clocks, Start(r) \/ Decide(r)
      PROVE  ports'[p] = ports[p]
             \/ ports'[p] \in started(Own(p), ports[p])
                    \cup decided(Own(p), Leaders \ {p}, ports[p])
  BY <1>2, <1>3 DEF Start, Decide
<1>4. ASSUME NEW r \in Clocks, TimeOut(r)
      PROVE  ports'[p] = ports[p] \/ TimeOut(p)
  BY <1>2, <1>4 DEF TimeOut
<1>5. ASSUME NEW r \in Clocks, Crash(r) \/ Restart(r)
      PROVE  ports'[p] = ports[p]
  BY <1>0, <1>5 DEF Crash, Restart, NetInv
<1>6. QED
  BY <1>1, <1>3, <1>4, <1>5 DEF Next, vars

(* A master better than all others that may be one finds nothing to follow.  *)
LEMMA MasterKeeps ==
    ASSUME NEW L \in SUBSET Clocks, NEW p \in L, NEW s, PortInv(p, s, L),
           s.portState = "MASTER",
           \A q \in L \ {p} : OtherGrandmaster(p, q) < 0,
           NEW t \in started(Own(p), s) \cup decided(Own(p), L \ {p}, s)
                        \cup timedOut(Own(p), s)
                        \cup UNION {heard(s, m) : m \in L \ {p}}
    PROVE  t.portState = "MASTER"
<1>1. s \in PortRecord /\ ~s.slaveOnly
  BY DEF PortInv
<1>2. CASE t \in started(Own(p), s) \cup timedOut(Own(p), s)
  BY <1>2 DEF started, timedOut
<1>3. ASSUME NEW m \in L \ {p}, t \in heard(s, m)
      PROVE  t.portState = "MASTER"
  <2>1. t = [s EXCEPT !.pending = TRUE, !.known = @ \cup {m}]
    BY <1>3 DEF heard
  <2>2. QED
    BY <1>1, <2>1 DEF PortRecord
<1>4. CASE t \in decided(Own(p), L \ {p}, s) /\ s.known # {}
  <2>1. PICK m \in Undominated(s) : t \in decidedOn(Own(p), s, m)
    BY <1>4 DEF decided
  <2>2. m \in L \ {p}
    BY <2>1 DEF Undominated, PortInv
  <2>3. bmcDataSetComparison(Own(p), m, s.parentDS.clockIdentity)
           = OtherGrandmaster(p, m)
    BY <2>2, ClocksDiffer
  <2>4. t = [s EXCEPT !.pending = FALSE, !.portState = "MASTER", !.parentDS = Own(p)]
    BY <1>1, <2>1, <2>2, <2>3 DEF decidedOn
  <2>5. QED
    BY <1>1, <2>4 DEF PortRecord
<1>5. CASE t \in decided(Own(p), L \ {p}, s) /\ s.known = {}
  <2>1. t = [s EXCEPT !.pending = FALSE, !.parentDS = Own(p)]
    BY <1>5 DEF decided
  <2>2. QED
    BY <1>1, <2>1 DEF PortRecord
<1>6. QED
  BY <1>2, <1>3, <1>4, <1>5

(* A port that follows the best clock b, and knows it, takes no other.       *)
LEMMA FollowerKeeps ==
    ASSUME NEW L \in SUBSET Clocks, NEW p \in Clocks, NEW s, PortInv(p, s, L),
           NEW b \in L, \A q \in L \ {b} : OtherGrandmaster(b, q) < 0,
           s.portState = "SLAVE", s.parentDS.clockIdentity = b.clockIdentity,
           s.slaveOnly => b \in s.known,
           NEW t \in started(Own(p), s) \cup decided(Own(p), L \ {p}, s)
                        \cup UNION {heard(s, m) : m \in L \ {p}}
    PROVE  /\ t.portState = "SLAVE" /\ t.parentDS.clockIdentity = b.clockIdentity
           /\ b \in t.known
<1>1. s \in PortRecord /\ s.known \subseteq L
      /\ (p \in L => OtherGrandmaster(p, b) > 0) /\ b \in s.known
  <2>1. PICK q \in L \ {p} :
           /\ s.parentDS = s1(q)
           /\ p \in L => OtherGrandmaster(p, q) > 0 /\ q \in s.known
    BY DEF PortInv, WellParented
  <2>2. q = b
    BY <2>1, ParentNamed, ClocksAssumption
  <2>3. QED
    BY <2>1, <2>2 DEF PortInv
<1>2. CASE t \in started(Own(p), s)
  BY <1>2 DEF started
<1>3. CASE t \in decided(Own(p), L \ {p}, s)
  <2>1. \A k \in s.known \ {b} : OtherGrandmaster(b, k) < 0
    BY <1>1
  <2>2. t.known = s.known /\ t.portState = "SLAVE" /\ t.parentDS = s1(b)
    BY <1>1, <1>3, <2>1, DecisionIsBest
  <2>3. QED
    BY <1>1, <2>2, ParentNamed
<1>4. ASSUME NEW m \in L \ {p}, t \in heard(s, m)
      PROVE  /\ t.portState = "SLAVE" /\ t.parentDS.clockIdentity = b.clockIdentity
             /\ b \in t.known
  <2>1. CASE t = [s EXCEPT !.pending = TRUE, !.known = @ \cup {m}]
    BY <1>1, <2>1 DEF PortRecord
  <2>2. CASE /\ t = [s EXCEPT !.pending = TRUE, !.parentDS = s1(m)]
             /\ SamePort(s.parentDS, m)
    <3>1. t.portState = "SLAVE" /\ t.parentDS = s1(m) /\ t.known = s.known
      BY <1>1, <2>2 DEF PortRecord
    <3>2. QED
      BY <1>1, <2>2, <3>1, ParentNamed DEF SamePort
  <2>3. QED
    BY <1>4, <2>1, <2>2 DEF heard
<1>5. QED
  BY <1>2, <1>3, <1>4

(* Once it is master, the best of any number of clocks stays master, however *)
(* many rivals announce themselves, until it is switched off.                *)
THEOREM BestIsNeverDeposed ==
    ASSUME AllTold PROVE Spec => BestStaysMaster
<1>1. ASSUME NetInv, [Next]_vars, BestIsMaster, Best \in alive'
      PROVE  BestIsMaster'
  <2>1. Best' = Best
    BY <1>1, LeadersStay
  <2>2. Best \in Leaders /\ PortInv(Best, ports[Best], Leaders)
    BY <1>1 DEF NetInv, PortInv, BestIsMaster, Master
  <2>3. \A q \in Leaders \ {Best} : OtherGrandmaster(Best, q) < 0
    BY <2>2, BestOfLeaders
  <2>4. Leaders \in SUBSET Clocks /\ ports[Best].portState = "MASTER"
    BY <1>1 DEF Leaders, BestIsMaster, Master
  <2>5. \/ ports'[Best] = ports[Best]
        \/ ports'[Best] \in started(Own(Best), ports[Best])
                  \cup decided(Own(Best), Leaders \ {Best}, ports[Best])
                  \cup timedOut(Own(Best), ports[Best])
                  \cup UNION {heard(ports[Best], m) : m \in Leaders \ {Best}}
    <3>1. TimeOut(Best) => ports'[Best] \in timedOut(Own(Best), ports[Best])
      BY <1>1 DEF TimeOut, Becomes, NetInv
    <3>2. QED
      BY <1>1, <3>1, PortMoves
  <2>6. ASSUME NEW t \in started(Own(Best), ports[Best])
                   \cup decided(Own(Best), Leaders \ {Best}, ports[Best])
                   \cup timedOut(Own(Best), ports[Best])
                   \cup UNION {heard(ports[Best], m) : m \in Leaders \ {Best}}
        PROVE  t.portState = "MASTER"
    BY <2>2, <2>3, <2>4, MasterKeeps
  <2>7. ports'[Best].portState = "MASTER"
    BY <2>4, <2>5, <2>6
  <2>8. QED
    BY <1>1, <2>1, <2>7 DEF BestIsMaster, Master
<1>2. ASSUME NetInv, [Next]_vars
      PROVE  BestIsMaster /\ Best \in alive' => BestIsMaster'
  BY <1>1, <1>2
<1>3. QED
  BY <1>2, InductiveInvariant, PTL DEF Spec, BestStaysMaster

(* A port that follows the best clock by choice stays its follower as long   *)
(* as both run, until it has heard no announce for as long as its receipt    *)
(* timer lasts.                                                              *)
THEOREM FollowersAreKept ==
    ASSUME AllTold PROVE Spec => FollowersStay
<1>1. ASSUME NetInv, [Next]_vars, NEW p \in Clocks,
             BestIsMaster, FollowsBest(p), Best \in alive', p \in alive', ~TimeOut(p)
      PROVE  FollowsBest(p)'
  <2>1. Best' = Best
    BY <1>1, LeadersStay
  <2>2. Best \in Leaders /\ PortInv(p, ports[p], Leaders)
        /\ Leaders \in SUBSET Clocks /\ Best \in Clocks
    BY <1>1 DEF NetInv, PortInv, BestIsMaster, Master, Leaders
  <2>3. \A q \in Leaders \ {Best} : OtherGrandmaster(Best, q) < 0
    BY <2>2, BestOfLeaders
  <2>4. /\ ports[p].portState = "SLAVE"
        /\ ports[p].parentDS.clockIdentity = Best.clockIdentity
        /\ ports[p].slaveOnly => Best \in ports[p].known
    BY <1>1 DEF FollowsBest, Follows
  <2>5. \/ ports'[p] = ports[p]
        \/ ports'[p] \in started(Own(p), ports[p])
                  \cup decided(Own(p), Leaders \ {p}, ports[p])
                  \cup UNION {heard(ports[p], m) : m \in Leaders \ {p}}
    BY <1>1, PortMoves
  <2>6. CASE ports'[p] = ports[p]
    BY <1>1, <2>1, <2>6 DEF FollowsBest, Follows
  <2>7. CASE ports'[p] # ports[p]
    <3>1. /\ ports'[p].portState = "SLAVE"
          /\ ports'[p].parentDS.clockIdentity = Best.clockIdentity
          /\ Best \in ports'[p].known
      BY <2>2, <2>3, <2>4, <2>5, <2>7, FollowerKeeps
    <3>2. QED
      BY <2>1, <3>1 DEF FollowsBest, Follows
  <2>8. QED
    BY <2>6, <2>7
<1>2. ASSUME NetInv, [Next]_vars
      PROVE  \A p \in Clocks :
                BestIsMaster /\ FollowsBest(p) /\ {Best, p} \subseteq alive'
                     /\ ~TimeOut(p)
                   => FollowsBest(p)'
  BY <1>1, <1>2
<1>3. QED
  BY <1>2, InductiveInvariant, PTL DEF Spec, FollowersStay

(* Whatever else it knows, a port that has heard the best clock follows it   *)
(* when it decides, whatever state it was in: also a master gives way.       *)
DecidesForBest ==
    [][\A p \in Clocks :
         Decide(p) /\ Best \in ports[p].known => FollowsBest(p)']_vars

(* A port decides for the best clock b of those it knows.                    *)
LEMMA DecidesOnBest ==
    ASSUME NEW L \in SUBSET Clocks, NEW p \in Clocks, NEW s, PortInv(p, s, L),
           NEW b \in L, b \in s.known, \A q \in L \ {b} : OtherGrandmaster(b, q) < 0,
           NEW t \in decided(Own(p), L \ {p}, s)
    PROVE  /\ t.portState = "SLAVE" /\ t.parentDS.clockIdentity = b.clockIdentity
           /\ b \in t.known
<1>1. s.known \subseteq L \ {p}
  BY DEF PortInv
<1>2. \A k \in s.known \ {b} : OtherGrandmaster(b, k) < 0
  BY <1>1
<1>3. p \in L => OtherGrandmaster(p, b) > 0
  <2> SUFFICES ASSUME p \in L PROVE OtherGrandmaster(p, b) > 0
    OBVIOUS
  <2>1. p \in AnnounceRecord /\ b \in AnnounceRecord
        /\ p.grandmasterIdentity # b.grandmasterIdentity
    BY <1>1, ClocksAssumption DEF OrdinaryClock
  <2>2. OtherGrandmaster(b, p) < 0 /\ OtherGrandmaster(b, p) \in Int
    BY <1>1, <2>1, RecordFields DEF OtherGrandmaster, Lex, memcmp
  <2>3. bmcDataSetComparison(p, b, 0) = -bmcDataSetComparison(b, p, 0)
    BY <2>1, ComparisonAntisymmetric
  <2>4. QED
    BY <2>1, <2>2, <2>3 DEF bmcDataSetComparison
<1>4. t.known = s.known /\ t.portState = "SLAVE" /\ t.parentDS = s1(b)
  BY <1>2, <1>3, DecisionIsBest
<1>5. QED
  BY <1>1, <1>4, ParentNamed

(* To have heard the best clock is enough to follow it at the next decision, *)
(* on a network of any number of clocks that are told apart.                 *)
THEOREM BestIsElected ==
    ASSUME AllTold PROVE Spec => DecidesForBest
<1>1. ASSUME NetInv, [Next]_vars, NEW p \in Clocks,
             Decide(p), Best \in ports[p].known
      PROVE  FollowsBest(p)'
  <2>1. /\ PortInv(p, ports[p], Leaders) /\ Leaders \in SUBSET Clocks
        /\ ports[p].known \subseteq Leaders
    BY <1>1 DEF NetInv, PortInv, Leaders
  <2>2. \A q \in Leaders \ {Best} : OtherGrandmaster(Best, q) < 0
    BY <1>1, <2>1, BestOfLeaders
  <2>3. ports'[p] \in decided(Own(p), Leaders \ {p}, ports[p])
    BY <1>1 DEF Decide, Becomes, NetInv
  <2>4. /\ ports'[p].portState = "SLAVE"
        /\ ports'[p].parentDS.clockIdentity = Best.clockIdentity
        /\ Best \in ports'[p].known
    BY <1>1, <2>1, <2>2, <2>3, DecidesOnBest
  <2>5. Best' = Best
    BY <1>1, LeadersStay
  <2>6. QED
    BY <2>4, <2>5 DEF FollowsBest, Follows
<1>2. ASSUME NetInv, [Next]_vars
      PROVE  \A p \in Clocks :
                Decide(p) /\ Best \in ports[p].known => FollowsBest(p)'
  BY <1>1, <1>2
<1>3. QED
  BY <1>2, InductiveInvariant, PTL DEF Spec, DecidesForBest
================================================================================
