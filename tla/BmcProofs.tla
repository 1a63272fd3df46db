-------------------------------- MODULE BmcProofs --------------------------------
(*****************************************************************************)
(* What the data set comparison of bmc.c guarantees for every data set.      *)
(*****************************************************************************)
EXTENDS Bmc, TLAPS

(* The compared fields of an announce are natural numbers.                   *)
LEMMA RecordFields ==
    ASSUME NEW X \in AnnounceRecord
    PROVE  /\ X.clockIdentity \in Nat /\ X.grandmasterIdentity \in Nat
           /\ X.grandmasterPriority1 \in Nat /\ X.clockClass \in Nat
           /\ X.clockAccuracy \in Nat /\ X.offsetScaledLogVariance \in Nat
           /\ X.grandmasterPriority2 \in Nat /\ X.stepsRemoved \in Nat
  BY DEF AnnounceRecord, UInteger8, UInteger16

(* The comparison answers -1, 0 or 1.                                        *)
LEMMA ComparisonRange ==
    ASSUME NEW X \in AnnounceRecord, NEW Y \in AnnounceRecord, NEW p
    PROVE  bmcDataSetComparison(X, Y, p) \in {-1, 0, 1}
  BY RecordFields, SMTT(30)
     DEF bmcDataSetComparison, SameGrandmaster, OtherGrandmaster, Lex, memcmp

(* "return similar to memcmp()": exchanging the two data sets changes the    *)
(* sign of bmcDataSetComparison(), whoever the parent is.                    *)
THEOREM ComparisonAntisymmetric ==
    ASSUME NEW X \in AnnounceRecord, NEW Y \in AnnounceRecord, NEW p
    PROVE  bmcDataSetComparison(X, Y, p) = -bmcDataSetComparison(Y, X, p)
<1>1. SameGrandmaster(X, Y, p) = -SameGrandmaster(Y, X, p)
  BY RecordFields, SMTT(30) DEF SameGrandmaster, memcmp
<1>2. OtherGrandmaster(X, Y) = -OtherGrandmaster(Y, X)
  BY RecordFields, SMTT(30) DEF OtherGrandmaster, Lex, memcmp
<1>3. QED
  BY <1>1, <1>2 DEF bmcDataSetComparison

(* Among ordinary clocks "better than" is transitive: the field-wise order   *)
(* stays one although two variances are never told apart.                    *)
THEOREM BetterTransitive ==
    ASSUME NEW X \in AnnounceRecord, NEW Y \in AnnounceRecord,
           NEW Z \in AnnounceRecord, NEW p,
           OrdinaryClock(X), OrdinaryClock(Y), OrdinaryClock(Z),
           bmcDataSetComparison(X, Y, p) < 0,
           bmcDataSetComparison(Y, Z, p) < 0,
           X.clockIdentity = Z.clockIdentity => X = Z
    PROVE  bmcDataSetComparison(X, Z, p) < 0
<1>1. ASSUME NEW V \in AnnounceRecord, NEW W \in AnnounceRecord,
             OrdinaryClock(V), OrdinaryClock(W),
             bmcDataSetComparison(V, W, p) < 0
      PROVE  V.clockIdentity # W.clockIdentity /\ OtherGrandmaster(V, W) < 0
  BY <1>1, RecordFields, SMTT(30)
     DEF bmcDataSetComparison, SameGrandmaster, OrdinaryClock, memcmp
<1>2. OtherGrandmaster(X, Y) < 0 /\ OtherGrandmaster(Y, Z) < 0
  BY <1>1
<1>3. OtherGrandmaster(X, Z) < 0
  BY <1>2, RecordFields, SMTT(60) DEF OtherGrandmaster, Lex, memcmp
<1>4. X.grandmasterIdentity # Z.grandmasterIdentity
  <2>1. SUFFICES ASSUME X = Z PROVE FALSE
    BY DEF OrdinaryClock
  <2>2. bmcDataSetComparison(X, Y, p) = -bmcDataSetComparison(Y, X, p)
    BY ComparisonAntisymmetric
  <2>3. bmcDataSetComparison(Y, X, p) \in {-1, 0, 1}
    BY ComparisonRange
  <2>4. QED
    BY <2>1, <2>2, <2>3
<1>5. QED
  BY <1>3, <1>4 DEF bmcDataSetComparison

(* Two grandmasters compare equal, which makes the decision on them FAULTY,  *)
(* exactly if their variances are the first thing they differ in             *)
(* (divergence 1): bmc.c confuses no others.                                 *)
THEOREM OnlyVarianceConfuses ==
    ASSUME NEW X \in AnnounceRecord, NEW Y \in AnnounceRecord, NEW p,
           X.grandmasterIdentity # Y.grandmasterIdentity
    PROVE  bmcDataSetComparison(X, Y, p) = 0
             <=> /\ X.grandmasterPriority1 = Y.grandmasterPriority1
                 /\ X.clockClass = Y.clockClass
                 /\ X.clockAccuracy = Y.clockAccuracy
                 /\ X.offsetScaledLogVariance # Y.offsetScaledLogVariance
  BY RecordFields, SMTT(30)
     DEF bmcDataSetComparison, OtherGrandmaster, Lex, memcmp

(* Data sets of one grandmaster compare equal exactly if one sender reported *)
(* them at the same distance, or the longer path is longer by one step and   *)
(* leads through the present parent: of two paths, no port takes both for    *)
(* the same unless it already follows one of them.                           *)
THEOREM OnlyParentConfuses ==
    ASSUME NEW X \in AnnounceRecord, NEW Y \in AnnounceRecord, NEW p,
           X.grandmasterIdentity = Y.grandmasterIdentity
    PROVE  bmcDataSetComparison(X, Y, p) = 0
             <=> \/ /\ X.stepsRemoved = Y.stepsRemoved
                    /\ X.clockIdentity = Y.clockIdentity
                 \/ X.stepsRemoved = Y.stepsRemoved + 1 /\ X.clockIdentity = p
                 \/ Y.stepsRemoved = X.stepsRemoved + 1 /\ Y.clockIdentity = p
  BY RecordFields, SMTT(30) DEF bmcDataSetComparison, SameGrandmaster, memcmp
================================================================================
