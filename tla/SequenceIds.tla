------------------------------- MODULE SequenceIds -------------------------------
(* Sequence ids of the requests of both delay mechanisms.                     *)
EXTENDS Integers

CONSTANTS
    MaxSequenceId,    \* of a UInteger16: 65535
    FirstSeq,         \* sequence id of the first request
    MaxReq,           \* bound: requests
    NULL              \* no time, no port

SequenceId == 0 .. MaxSequenceId

ASSUME FirstSeqAssumption == FirstSeq \in SequenceId
ASSUME MaxReqAssumption ==
    MaxSequenceId \in Nat /\ MaxReq \in 1 .. MaxSequenceId

(* Mutant: the id is wider than the 16 bits of the message.                  *)
NextSequenceIdWide(n) == n + 1

NextSequenceId(n) == IF n = MaxSequenceId THEN 0 ELSE n + 1
================================================================================
