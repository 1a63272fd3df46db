-------------------------------- MODULE Messages --------------------------------
(*****************************************************************************)
(* The messages of msg.c. A port packs all it sends into one buffer, whose   *)
(* header is written by doInit() and of which each message overwrites only   *)
(* the fields it knows; the rest is what an earlier message has left. The    *)
(* answers take what they copy from the header of the request. Of a field    *)
(* the model keeps what it says; the octets between 44 and 63 are divided as *)
(* the messages share them.                                                  *)
(*                                                                           *)
(* Time stamps are converted from and to TimeInternal as arith.c does.       *)
(*****************************************************************************)
EXTENDS TimeArith

CONSTANTS
    Self,            \* the port
    Ports,           \* those that may send requests to it
    domainNumber,    \* of the port
    Domains,         \* of the requests
    Corrections,     \* correction fields of the requests
    DataSets,        \* what an Announce may tell
    Clock,           \* times the clock may show
    Garbage,         \* what may be in a Timestamp that was not written
    MaxSequenceId,   \* of a UInteger16: 65535
    NULL             \* octets set to zero

SequenceId == 0 .. MaxSequenceId
NextSequenceId(n) == IF n = MaxSequenceId THEN 0 ELSE n + 1
PrevSequenceId(n) == IF n = 0 THEN MaxSequenceId ELSE n - 1

ASSUME MaxSequenceIdAssumption == MaxSequenceId \in Nat
ASSUME CorrectionsAssumption == 0 \in Corrections
Requests == [sourcePortIdentity : Ports, sequenceId : SequenceId,
             correctionField : Corrections, domainNumber : Domains]

(* msgTmpHeader before the first request: all zero.                          *)
NoRequest == [sourcePortIdentity |-> NULL, sequenceId |-> 0,
              correctionField |-> 0, domainNumber |-> 0]

Field == { "messageType", "domainNumber", "flagField", "correctionField",
           "sourcePortIdentity", "sequenceId", "logMessageInterval",
           "timestamp",        \* octets 34 to 43
           "utcOffset",        \* 44 and 45
           "octet46",
           "quality",          \* 47 to 53, the first of the grandmaster
           "grandmaster" }     \* 54 to 63

VARIABLES
    ethernet_mode,             \* raw sockets, with hardware time stamps
    E2E_mode,
    portState,
    msgObuf,
    sentSequenceId,            \* sentSyncSequenceId and its like
    PdelayReqHeader,
    pending,                   \* own messages whose departure is yet to be told
    meant,                     \* what the last message sent should say, in the
                               \* fields its receiver reads
    answered                   \* correction fields copied since the last Sync

vars == <<ethernet_mode, E2E_mode, portState, msgObuf, sentSequenceId,
          PdelayReqHeader, pending, meant, answered>>

-------------------------------------------------------------------------------
(* Time stamps                                                               *)

INT_MAX == Word32 \div 2 - 1
Timestamp ==
    [secondsField : 0 .. Word32 - 1, nanosecondsField : 0 .. Word32 - 1]

ASSUME ClockAssumption ==
    Clock \subseteq TimeInternal /\ Garbage \subseteq Timestamp

(* A negative time is not converted: the Timestamp, a local variable of the  *)
(* caller, is what was on the stack.                                         *)
fromInternalTime(t) ==
    IF t.seconds < 0 \/ t.nanoseconds < 0 THEN Garbage
    ELSE {[secondsField |-> t.seconds, nanosecondsField |-> t.nanoseconds]}

(* NULL: the caller's variable is left as it was.                            *)
toInternalTime(stamp) ==
    IF stamp.secondsField < INT_MAX
    THEN Time(stamp.secondsField, stamp.nanosecondsField) ELSE NULL

Representable(t) ==
    t.seconds \in 0 .. INT_MAX - 1 /\ t.nanoseconds \in 0 .. INT_MAX

-------------------------------------------------------------------------------
(* The buffer. Each function of msg.c is given by the fields it writes.      *)

(* buf with the fields of f overwritten.                                     *)
Over(buf, f) == [x \in Field |-> IF x \in DOMAIN f THEN f[x] ELSE buf[x]]

TWO_STEP_FLAG == 2

msgPackHeader ==
    [domainNumber |-> domainNumber, flagField |-> TWO_STEP_FLAG,
     correctionField |-> 0, sourcePortIdentity |-> Self,
     logMessageInterval |-> "0x7F", messageType |-> "SYNC"]

(* Mutant: the correction field is left as it is.                            *)
msgPackSyncKeepsCorrection(id, stamp) ==
    [messageType |-> "SYNC", sequenceId |-> id,
     logMessageInterval |-> "logSyncInterval", timestamp |-> stamp]

msgPackSync(id, stamp) ==
    [messageType |-> "SYNC", sequenceId |-> id,
     logMessageInterval |-> "logSyncInterval", correctionField |-> 0,
     timestamp |-> stamp]

(* Octet 46 is reserved and not written.                                     *)
msgPackAnnounce(id, d) ==
    [messageType |-> "ANNOUNCE", sequenceId |-> id,
     logMessageInterval |-> "logAnnounceInterval", timestamp |-> NULL,
     utcOffset |-> d, quality |-> d, grandmaster |-> d]

(* The correction field is left as it is. The TLV that 802.1AS wants follows *)
(* the time stamp.                                                           *)
msgPackFollowUp(id, stamp) ==
    [messageType |-> "FOLLOW_UP", sequenceId |-> id,
     logMessageInterval |-> "logSyncInterval", timestamp |-> stamp,
     utcOffset |-> "TLV", octet46 |-> "TLV", quality |-> "TLV",
     grandmaster |-> "TLV"]

msgPackDelayReq(id, stamp) ==
    [messageType |-> "DELAY_REQ", sequenceId |-> id,
     logMessageInterval |-> "0x7F", correctionField |-> 0, timestamp |-> stamp]

msgPackPDelayReq(id, stamp) ==
    [messageType |-> "PDELAY_REQ", sequenceId |-> id,
     logMessageInterval |-> "0x7F", correctionField |-> 0, timestamp |-> stamp,
     utcOffset |-> NULL, octet46 |-> NULL, quality |-> NULL]

(* The requesting port goes into octets 44 to 53.                            *)
msgPackDelayResp(header, stamp) ==
    [messageType |-> "DELAY_RESP", sequenceId |-> header.sequenceId,
     domainNumber |-> header.domainNumber,
     logMessageInterval |-> "logMinDelayReqInterval",
     correctionField |-> header.correctionField, timestamp |-> stamp,
     utcOffset |-> header.sourcePortIdentity,
     octet46   |-> header.sourcePortIdentity,
     quality   |-> header.sourcePortIdentity]

msgPackPDelayResp(header, stamp) ==
    [messageType |-> "PDELAY_RESP", sequenceId |-> header.sequenceId,
     domainNumber |-> header.domainNumber,
     logMessageInterval |-> "0x7F", correctionField |-> 0, timestamp |-> stamp,
     utcOffset |-> header.sourcePortIdentity,
     octet46   |-> header.sourcePortIdentity,
     quality   |-> header.sourcePortIdentity]

msgPackPDelayRespFollowUp(header, stamp) ==
    [messageType |-> "PDELAY_RESP_FOLLOW_UP", sequenceId |-> header.sequenceId,
     logMessageInterval |-> "0x7F",
     correctionField |-> header.correctionField, timestamp |-> stamp,
     utcOffset |-> header.sourcePortIdentity,
     octet46   |-> header.sourcePortIdentity,
     quality   |-> header.sourcePortIdentity]

-------------------------------------------------------------------------------
(* What the handlers read. handle() reads the type, the domain and the       *)
(* source of all messages, the handlers the rest.                            *)

Says(type, more) ==
    [f \in {"messageType", "domainNumber", "flagField", "sourcePortIdentity"}
           \cup DOMAIN more |->
        IF f \in DOMAIN more THEN more[f]
        ELSE CASE f = "messageType"        -> type
               [] f = "domainNumber"       -> domainNumber
               [] f = "flagField"          -> TWO_STEP_FLAG
               [] f = "sourcePortIdentity" -> Self]

Nothing == [f \in {} |-> NULL]

(* An answer: the id and the port of the request it answers.                 *)
Answers(header, correction, interval, t) ==
    [logMessageInterval |-> interval, sequenceId |-> header.sequenceId,
     correctionField |-> correction, timestamp |-> t,
     utcOffset |-> header.sourcePortIdentity,
     octet46   |-> header.sourcePortIdentity,
     quality   |-> header.sourcePortIdentity]

Send(fields, type, more) ==
    /\ msgObuf' = Over(msgObuf, fields)
    /\ meant' = Says(type, more)

Count(type) ==
    sentSequenceId' = [sentSequenceId EXCEPT ![type] = NextSequenceId(@)]

-------------------------------------------------------------------------------
Zeroed == [f \in Field |-> NULL]

Init ==
    /\ ethernet_mode \in BOOLEAN /\ E2E_mode \in BOOLEAN
    /\ portState = "LISTENING"
    /\ msgObuf = Over(Zeroed, msgPackHeader)
    /\ sentSequenceId =
          [type \in {"SYNC", "ANNOUNCE", "DELAY_REQ", "PDELAY_REQ"} |-> 0]
    /\ PdelayReqHeader = NoRequest
    /\ pending = {}
    /\ meant = Nothing
    /\ answered = {}

(* A fault and its repair: the header is packed anew. New sockets have no    *)
(* loopback in store, tx_stack keeps its time stamps.                        *)
doInit ==
    /\ portState' = "LISTENING"
    /\ msgObuf' = Over(msgObuf, msgPackHeader)
    /\ meant' = Nothing
    /\ pending' = IF ethernet_mode THEN pending ELSE {}
    /\ UNCHANGED <<ethernet_mode, E2E_mode, sentSequenceId, PdelayReqHeader,
                   answered>>

toState(state) ==
    /\ portState' = state
    /\ UNCHANGED <<ethernet_mode, E2E_mode, msgObuf, sentSequenceId,
                   PdelayReqHeader, pending, meant, answered>>

issueSync ==
    /\ portState = "MASTER"
    /\ ethernet_mode => "SYNC" \notin pending
    /\ \E t \in Clock : \E stamp \in fromInternalTime(t) :
          Send(msgPackSync(sentSequenceId["SYNC"], stamp), "SYNC",
               [sequenceId |-> sentSequenceId["SYNC"], correctionField |-> 0,
                timestamp |-> t])
    /\ Count("SYNC")
    /\ pending' = pending \cup {"SYNC"}
    /\ answered' = {}
    /\ UNCHANGED <<ethernet_mode, E2E_mode, portState, PdelayReqHeader>>

issueAnnounce ==
    /\ portState = "MASTER"
    /\ \E d \in DataSets :
          Send(msgPackAnnounce(sentSequenceId["ANNOUNCE"], d),
               "ANNOUNCE",
               [sequenceId |-> sentSequenceId["ANNOUNCE"],
                utcOffset |-> d, quality |-> d, grandmaster |-> d])
    /\ Count("ANNOUNCE")
    /\ UNCHANGED <<ethernet_mode, E2E_mode, portState, PdelayReqHeader, pending,
                   answered>>

(* handleSync() with isFromSelf. The receiver of a FollowUp reads its        *)
(* correction field as well, which is the concern of FollowUpCorrection.     *)
issueFollowup ==
    /\ "SYNC" \in pending
    /\ pending' = pending \ {"SYNC"}
    /\ IF portState = "SLAVE" THEN UNCHANGED <<msgObuf, meant>>
       ELSE LET id == PrevSequenceId(sentSequenceId["SYNC"])
            IN  \E t \in Clock : \E stamp \in fromInternalTime(t) :
                    Send(msgPackFollowUp(id, stamp), "FOLLOW_UP",
                         [sequenceId |-> id, timestamp |-> t])
    /\ UNCHANGED <<ethernet_mode, E2E_mode, portState, sentSequenceId,
                   PdelayReqHeader, answered>>

issueDelayReq ==
    /\ E2E_mode /\ portState # "MASTER"
    /\ \E t \in Clock : \E stamp \in fromInternalTime(t) :
          Send(msgPackDelayReq(sentSequenceId["DELAY_REQ"], stamp),
               "DELAY_REQ",
               [sequenceId |-> sentSequenceId["DELAY_REQ"],
                correctionField |-> 0])
    /\ Count("DELAY_REQ")
    /\ UNCHANGED <<ethernet_mode, E2E_mode, portState, PdelayReqHeader, pending,
                   answered>>

issuePDelayReq ==
    /\ ~E2E_mode
    /\ \E t \in Clock : \E stamp \in fromInternalTime(t) :
          Send(msgPackPDelayReq(sentSequenceId["PDELAY_REQ"], stamp),
               "PDELAY_REQ",
               [sequenceId |-> sentSequenceId["PDELAY_REQ"],
                correctionField |-> 0])
    /\ Count("PDELAY_REQ")
    /\ UNCHANGED <<ethernet_mode, E2E_mode, portState, PdelayReqHeader, pending,
                   answered>>

(* With hardware time stamps netRecvRaw() takes a packet from tx_stack while *)
(* there is one, and reads the socket then.                                  *)
MayReceive == ethernet_mode => pending = {}

(* Mutant: requests of other domains are answered.                           *)
AcceptsAnyDomain(header) == TRUE

(* handle() disregards what is of another domain.                            *)
Accepts(header) == header.domainNumber = domainNumber

issueDelayResp(header) ==
    \E t \in Clock : \E stamp \in fromInternalTime(t) :
        Send(msgPackDelayResp(header, stamp), "DELAY_RESP",
             Answers(header, header.correctionField, "logMinDelayReqInterval", t))

(* A DelayReq may be this port's own, sent before it turned MASTER.          *)
handleDelayReq(header) ==
    /\ MayReceive /\ Accepts(header)
    /\ E2E_mode /\ portState = "MASTER"
    /\ issueDelayResp(header)
    /\ answered' = answered \cup ({header.correctionField} \ {0})
    /\ UNCHANGED <<ethernet_mode, E2E_mode, portState, sentSequenceId,
                   PdelayReqHeader, pending>>

issuePDelayResp(header) ==
    \E t \in Clock : \E stamp \in fromInternalTime(t) :
        Send(msgPackPDelayResp(header, stamp), "PDELAY_RESP",
             Answers(header, 0, "0x7F", t))

handlePDelayReq(header) ==
    /\ MayReceive /\ Accepts(header)
    /\ ~E2E_mode /\ portState # "LISTENING"
    /\ PdelayReqHeader' = header
    /\ issuePDelayResp(header)
    /\ pending' = pending \cup {"PDELAY_RESP"}
    /\ UNCHANGED <<ethernet_mode, E2E_mode, portState, sentSequenceId,
                   answered>>

(* handlePDelayResp() with isFromSelf. tx_stack gives the last packet first. *)
issuePDelayRespFollowUp ==
    /\ "PDELAY_RESP" \in pending
    /\ ethernet_mode => "SYNC" \notin pending
    /\ pending' = pending \ {"PDELAY_RESP"}
    /\ IF portState = "LISTENING" THEN UNCHANGED <<msgObuf, meant, answered>>
       ELSE LET header == PdelayReqHeader
            IN  /\ \E t \in Clock : \E stamp \in fromInternalTime(t) :
                      Send(msgPackPDelayRespFollowUp(header, stamp),
                           "PDELAY_RESP_FOLLOW_UP",
                           Answers(header, header.correctionField, "0x7F", t))
                /\ answered' = answered \cup ({header.correctionField} \ {0})
    /\ UNCHANGED <<ethernet_mode, E2E_mode, portState, sentSequenceId,
                   PdelayReqHeader>>

Next ==
    \/ doInit
    \/ \E state \in {"LISTENING", "SLAVE", "MASTER"} : toState(state)
    \/ issueSync \/ issueAnnounce \/ issueFollowup
    \/ issueDelayReq \/ issuePDelayReq
    \/ \E header \in Requests :
          handleDelayReq(header) \/ handlePDelayReq(header)
    \/ issuePDelayRespFollowUp

Spec == Init /\ [][Next]_vars

-------------------------------------------------------------------------------
(* Properties                                                                *)

(* What the receiver of a message reads is what its sender meant, whichever  *)
(* messages were packed into the buffer before: of every field that is read  *)
(* and that the message does not write itself, the buffer still holds what   *)
(* doInit() wrote. (msgPackDelayResp() and msgPackPDelayResp() copy the      *)
(* domain of the request, which stays in the header of all that follows.)    *)
(* Times before 1970 or from 2038 on are not read as they were meant.        *)
ReadAsMeant ==
    \A f \in DOMAIN meant :
        IF f = "timestamp"
        THEN Representable(meant[f]) => toInternalTime(msgObuf[f]) = meant[f]
        ELSE msgObuf[f] = meant[f]

(* The slave adds the correction field of a FollowUp to the departure time,  *)
(* but msgPackFollowUp() leaves there what the buffer holds. With hardware   *)
(* time stamps that is zero. With software time stamps it may be the         *)
(* correction field of a request answered since the Sync, never an older one.*)
FollowUpCorrection ==
    meant # Nothing /\ meant["messageType"] = "FOLLOW_UP" =>
        msgObuf["correctionField"] \in
            {0} \cup (IF ethernet_mode THEN {} ELSE answered)
================================================================================
