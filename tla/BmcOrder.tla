-------------------------------- MODULE BmcOrder --------------------------------
(*****************************************************************************)
(* bmcDataSetComparison() against what an election needs of it: A, B and C   *)
(* are any three data sets of Sample, parent any clock identity.             *)
(*****************************************************************************)
EXTENDS Bmc

CONSTANTS Sample
ASSUME SampleAssumption == Sample \subseteq AnnounceRecord

VARIABLES A, B, C, parent
sets == <<A, B, C, parent>>

Init ==
    /\ A \in Sample /\ B \in Sample /\ C \in Sample
    /\ parent \in {m.clockIdentity : m \in Sample}

Next == UNCHANGED sets
Spec == Init /\ [][Next]_sets

TypeOK ==
    /\ A \in Sample /\ B \in Sample /\ C \in Sample
    /\ parent \in Nat

Compare(X, Y) == bmcDataSetComparison(X, Y, parent)

(* "return similar to memcmp()": exchanging the data sets changes the sign,  *)
(* also where the path length and the current parent decide.                 *)
Antisymmetric == Compare(A, B) = -Compare(B, A)

(* Among ordinary clocks "better than" is transitive, so that the last best  *)
(* record of bmc()'s loop is better than those it was not compared with.     *)
Transitive ==
    /\ OrdinaryClock(A) /\ OrdinaryClock(B) /\ OrdinaryClock(C)
    /\ A.clockIdentity = C.clockIdentity => A = C
    /\ Compare(A, B) < 0 /\ Compare(B, C) < 0
    => Compare(A, C) < 0

(* The order of figure 27 written as such: the first attribute in which two  *)
(* grandmasters of equal variance differ decides, and the lower value wins.  *)
Attributes(X) ==
    <<X.grandmasterPriority1, X.clockClass, X.clockAccuracy,
      X.offsetScaledLogVariance, X.grandmasterPriority2, X.grandmasterIdentity>>

Precedes(X, Y) ==
    \E i \in 1 .. 6 :
        /\ Attributes(X)[i] < Attributes(Y)[i]
        /\ \A j \in 1 .. i - 1 : Attributes(X)[j] = Attributes(Y)[j]

LowestAttributeWins ==
    /\ A.grandmasterIdentity # B.grandmasterIdentity
    /\ A.offsetScaledLogVariance = B.offsetScaledLogVariance
    => (Compare(A, B) < 0 <=> Precedes(A, B))

(* "return similar to memcmp()": two grandmasters never compare equal, since *)
(* the last attribute to compare is their identity.                          *)
GrandmastersAreTold ==
    A.grandmasterIdentity # B.grandmasterIdentity => Compare(A, B) # 0
================================================================================
