----------------------------- MODULE BmcOrderProofs -----------------------------
(*****************************************************************************)
(* The properties of BmcOrder, for every sample of data sets.                *)
(*****************************************************************************)
EXTENDS BmcOrder, BmcProofs

(* Between two grandmasters of equal variance the comparison is the          *)
(* lexicographic order of their attributes.                                  *)
LEMMA LexicographicOrder ==
    ASSUME NEW X \in AnnounceRecord, NEW Y \in AnnounceRecord,
           X.grandmasterIdentity # Y.grandmasterIdentity,
           X.offsetScaledLogVariance = Y.offsetScaledLogVariance, NEW p
    PROVE  bmcDataSetComparison(X, Y, p) < 0 <=> Precedes(X, Y)
<1> DEFINE a == Attributes(X)
           b == Attributes(Y)
           Before(i) == a[i] < b[i] /\ \A j \in 1 .. i - 1 : a[j] = b[j]
<1>1. /\ a[1] = X.grandmasterPriority1 /\ b[1] = Y.grandmasterPriority1
      /\ a[2] = X.clockClass /\ b[2] = Y.clockClass
      /\ a[3] = X.clockAccuracy /\ b[3] = Y.clockAccuracy
      /\ a[4] = X.offsetScaledLogVariance /\ b[4] = Y.offsetScaledLogVariance
      /\ a[5] = X.grandmasterPriority2 /\ b[5] = Y.grandmasterPriority2
      /\ a[6] = X.grandmasterIdentity /\ b[6] = Y.grandmasterIdentity
  BY DEF Attributes
<1>2. Precedes(X, Y) <=> \E i \in 1 .. 6 : Before(i)
  BY DEF Precedes
<1> HIDE DEF a, b
<1>3. /\ Before(1) <=> a[1] < b[1]
      /\ Before(2) <=> a[1] = b[1] /\ a[2] < b[2]
      /\ Before(3) <=> a[1] = b[1] /\ a[2] = b[2] /\ a[3] < b[3]
  OBVIOUS
<1>4. Before(4) <=> a[1] = b[1] /\ a[2] = b[2] /\ a[3] = b[3] /\ a[4] < b[4]
  OBVIOUS
<1>5. Before(5) <=> /\ a[1] = b[1] /\ a[2] = b[2] /\ a[3] = b[3] /\ a[4] = b[4]
                    /\ a[5] < b[5]
  OBVIOUS
<1>6. Before(6) <=> /\ a[1] = b[1] /\ a[2] = b[2] /\ a[3] = b[3] /\ a[4] = b[4]
                    /\ a[5] = b[5] /\ a[6] < b[6]
  OBVIOUS
<1>7. (\E i \in 1 .. 6 : Before(i)) <=>
         Before(1) \/ Before(2) \/ Before(3) \/ Before(4) \/ Before(5) \/ Before(6)
  <2> HIDE DEF Before
  <2> QED OBVIOUS
<1> HIDE DEF Before
<1>8. QED
  BY <1>1, <1>2, <1>3, <1>4, <1>5, <1>6, <1>7, RecordFields, SMTT(30)
     DEF bmcDataSetComparison, OtherGrandmaster, Lex, memcmp

(* The comparison is between members of Sample in every state.               *)
LEMMA OrderTypeCorrect == Spec => []TypeOK
<1>1. Init => TypeOK
  BY SampleAssumption DEF Init, TypeOK, AnnounceRecord
<1>2. TypeOK /\ [Next]_sets => TypeOK'
  BY DEF TypeOK, Next, sets
<1>3. QED
  BY <1>1, <1>2, PTL DEF Spec

(* Exchanging two data sets changes the sign, for every sample.              *)
THEOREM OrderAntisymmetric == Spec => []Antisymmetric
<1>1. TypeOK => Antisymmetric
  BY ComparisonAntisymmetric, SampleAssumption DEF TypeOK, Antisymmetric, Compare
<1>2. QED
  BY <1>1, OrderTypeCorrect, PTL

(* "Better than" is transitive among ordinary clocks, for every sample.      *)
THEOREM OrderTransitive == Spec => []Transitive
<1>1. TypeOK => Transitive
  BY BetterTransitive, SampleAssumption DEF TypeOK, Transitive, Compare
<1>2. QED
  BY <1>1, OrderTypeCorrect, PTL

(* The first attribute that differs decides, for every sample.               *)
THEOREM OrderLowestAttributeWins == Spec => []LowestAttributeWins
<1>1. TypeOK => LowestAttributeWins
  BY LexicographicOrder, SampleAssumption DEF TypeOK, LowestAttributeWins, Compare
<1>2. QED
  BY <1>1, OrderTypeCorrect, PTL
================================================================================
