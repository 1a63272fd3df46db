------------------------------- MODULE MCBmcOrder -------------------------------
(* Data sets that differ in every attribute the comparison looks at: ordinary *)
(* clocks of four qualities, and one grandmaster heard through two boundary   *)
(* clocks at path lengths up to the largest.                                  *)
EXTENDS BmcOrder

DataSet(sender, id, priority1, class, variance, priority2, steps) ==
    [ clockIdentity |-> sender, portNumber |-> 1, grandmasterIdentity |-> id,
      grandmasterPriority1 |-> priority1, clockClass |-> class,
      clockAccuracy |-> 33, offsetScaledLogVariance |-> variance,
      grandmasterPriority2 |-> priority2, stepsRemoved |-> steps ]

Clocks ==
    {DataSet(id, id, p1, class, variance, 248, 0) :
        id \in {1, 2, 5}, p1 \in {1, 100, 200}, class \in {6, 248},
        variance \in {7, 9}}
    \cup {DataSet(id, id, 100, 6, 7, p2, 0) : id \in {1, 2}, p2 \in {1, 2}}

More == {[DataSet(1, 1, 100, 6, 7, 248, 0) EXCEPT !.clockAccuracy = 32]}

Relayed ==
    {DataSet(sender, 1, 1, 6, 7, 248, steps) :
        sender \in {3, 4}, steps \in {1, 2, 3, 65535}}

Sets == Clocks \cup More \cup Relayed
================================================================================
