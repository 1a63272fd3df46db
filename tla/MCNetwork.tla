-------------------------------- MODULE MCNetwork --------------------------------
(* Values for the constants of Network: three clocks whose priorities are far *)
(* enough apart for a difference of two of them to leave a signed byte.       *)
EXTENDS Network

Clock(id, priority1) ==
    [ clockIdentity |-> id, portNumber |-> 1, grandmasterIdentity |-> id,
      grandmasterPriority1 |-> priority1, clockClass |-> 248,
      clockAccuracy |-> 254, offsetScaledLogVariance |-> 100,
      grandmasterPriority2 |-> 248, stepsRemoved |-> 0 ]

First  == Clock(1, 0)
Second == Clock(2, 100)
Third  == Clock(3, 200)
Three  == {First, Second, Third}
(* The best or the worst of them may be slave only, or none.                  *)
Slaves == {{}, {First}, {Third}}
================================================================================
