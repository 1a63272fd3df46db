------------------------------- MODULE Measurement -------------------------------
(*****************************************************************************)
(* What the exchanges of time stamps promise, whatever is lost, late or      *)
(* duplicated on the way: each measurement is made with a message that has   *)
(* departed, and never with one older than that of the last measurement from *)
(* the same port. The messages are Syncs, DelayReqs or PdelayReqs.           *)
(*****************************************************************************)
EXTENDS Naturals

CONSTANTS Masters   \* the ports whose messages are measured with

VARIABLES
    departed,   \* messages sent so far
    measured    \* the one last measured with, 0 for none

Init == /\ departed = [m \in Masters |-> 0]
        /\ measured = [m \in Masters |-> 0]

Depart(m) == /\ departed' = [departed EXCEPT ![m] = @ + 1]
             /\ UNCHANGED measured

Measure(m) == /\ \E t \in measured[m] + 1 .. departed[m] :
                    measured' = [measured EXCEPT ![m] = t]
              /\ UNCHANGED departed

Next == \E m \in Masters : Depart(m) \/ Measure(m)

Spec == Init /\ [][Next]_<<departed, measured>>
================================================================================
