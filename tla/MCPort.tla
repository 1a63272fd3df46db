--------------------------------- MODULE MCPort ---------------------------------
(* Values for the constants of Port.                                          *)
EXTENDS Port

Clock(id, priority1, class, variance) ==
    [ clockIdentity |-> id, portNumber |-> 1, grandmasterIdentity |-> id,
      grandmasterPriority1 |-> priority1, clockClass |-> class,
      clockAccuracy |-> 254, offsetScaledLogVariance |-> variance,
      grandmasterPriority2 |-> 248, stepsRemoved |-> 0 ]

(* The local clock with the defaults of constants.h.                         *)
Ordinary  == [Clock(5, 248, 248, 100) EXCEPT !.portNumber = 0]

Superior == Clock(1, 100, 248, 100)
Inferior == Clock(9, 250, 248, 100)
(* A clock that differs from Ordinary in its variance only.                  *)
Noisier  == Clock(7, 248, 248, 200)
Second   == Clock(2, 110, 248, 100)

Masters2 == {Superior, Inferior}
Masters3 == {Superior, Inferior, Noisier}
TwoSuperior == {Superior, Second}
TwoPunctual == {Superior, Inferior}
Three == {Superior, Second, Inferior}

Lengths == [t \in Timer |-> IF t = "ANNOUNCE_RECEIPT" THEN 4 ELSE 1]
================================================================================
