--------------------------------- MODULE MCServo ---------------------------------
(* Values for the constants of Servo.                                         *)
EXTENDS Servo

Opts(e2e) ==
    [ E2E_mode |-> e2e, noResetClock |-> FALSE, noAdjust |-> FALSE,
      maxDelay |-> 0, maxReset |-> 0, ap |-> 2, ai |-> 1,
      s |-> IF e2e THEN 4 ELSE 0 ]
Both     == {Opts(TRUE), Opts(FALSE)}
EndToEnd == {Opts(TRUE)}

Off == {-28, 80}
PeerToPeerResidence == [e2e \in BOOLEAN |-> IF e2e THEN {0} ELSE {2}]
PeerToPeerJumps     == [e2e \in BOOLEAN |-> IF e2e THEN {} ELSE {50}]

(* The instance is one of those the theorems speak of, where the path is not *)
(* too short for it.                                                         *)
ASSUME InstanceIsTame == 2 * MaxPathDelay >= Drift => Billion <= 2 ^ IntBits /\ Tame
================================================================================
