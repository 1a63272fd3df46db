------------------------------ MODULE IntervalTimer ------------------------------
(*****************************************************************************)
(* The timer array of timer.c: operators that return the updated array, on   *)
(* which the port engine runs. A timer whose interval is 0 is stopped.       *)
(* Stopping one leaves its expire flag as it is.                             *)
(*****************************************************************************)
EXTENDS Integers

Timer == { "PDELAYREQ", "DELAYREQ", "SYNC", "ANNOUNCE_RECEIPT", "ANNOUNCE" }

TimerArray ==
    [Timer -> [interval : Nat, left : Nat, expire : BOOLEAN]]

(* ptpClock is allocated with calloc(). *)
Zeroed == [t \in Timer |-> [interval |-> 0, left |-> 0, expire |-> FALSE]]

(* timerStop() on each timer of S. *)
TimerStop(S, itimer) ==
    [t \in Timer |->
        IF t \in S THEN [itimer[t] EXCEPT !.interval = 0] ELSE itimer[t]]

(* timerStart() on each timer of S; length[t] seconds, 0 for a fraction of   *)
(* a second: pow(2, interval) is converted to UInteger16.                    *)
TimerStart(S, length, itimer) ==
    [t \in Timer |->
        IF t \in S
        THEN [interval |-> length[t], left |-> length[t], expire |-> FALSE]
        ELSE itimer[t]]

(* timerUpdate(): charge delta seconds to every running timer; one that runs *)
(* out is flagged and starts over.                                           *)
TimerUpdate(delta, itimer) ==
    [t \in Timer |->
        LET r == itimer[t]
        IN  IF delta <= 0 \/ r.interval = 0 THEN r
            ELSE IF r.left > delta THEN [r EXCEPT !.left = @ - delta]
            ELSE [r EXCEPT !.left = r.interval, !.expire = TRUE]]

(* timerExpired() answers with the flag and clears it.                       *)
Consume(t, itimer) == [itimer EXCEPT ![t].expire = FALSE]
================================================================================
