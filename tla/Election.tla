-------------------------------- MODULE Election --------------------------------
(*****************************************************************************)
(* What a port promises about the master it elects, whatever its table,      *)
(* timers and sockets do: an abstract specification of Port.                 *)
(*****************************************************************************)
EXTENDS Roles

CONSTANTS
    Own,               \* the data set of the local clock
    Announce,          \* what other ports announce
    SlaveOnly          \* what -g may say

VARIABLE port

Init == \E slaveOnly \in SlaveOnly : port = NewPort(slaveOnly)

Start    == port' \in started(Own, port)
Hear     == \E m \in Announce : port' \in heard(port, m)
Decide   == port' \in decided(Own, Announce, port)
TimeOut  == port' \in timedOut(Own, port)
Demote   == port' \in demoted(Own, port)

Next == Start \/ Hear \/ Decide \/ TimeOut \/ Demote

Spec == Init /\ [][Next]_port
================================================================================
