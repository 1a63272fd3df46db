------------------------------- MODULE MCMessages -------------------------------
(* Two other ports, in the domain of the port and in another one, some of     *)
(* whose requests have passed a transparent clock; a clock in range, past     *)
(* the last second that is read back and before 1970.                         *)
EXTENDS Messages

Times == {Time(0, 1), Time(INT_MAX, 0), Time(-1, 0)}
Stack == {[secondsField |-> 0, nanosecondsField |-> 0]}
================================================================================
