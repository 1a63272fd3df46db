----------------------------- MODULE MCSyncExchange -----------------------------
(* A master with software time stamps and another of any other kind, both    *)
(* about to wrap their sequence ids, so that the ids of their Syncs coincide.*)
EXTENDS SyncExchange

CONSTANTS a, b
Mixed    == {[m \in Masters |-> IF m = a THEN "software" ELSE k] :
                k \in {"hardware", "one step"}}
Wrapping == [m \in Masters |-> 65535]
================================================================================
