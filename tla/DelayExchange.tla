------------------------------ MODULE DelayExchange ------------------------------
(*****************************************************************************)
(* The end to end delay mechanism of protocol.c: a slave sends a DelayReq,   *)
(* learns its departure time from the looped back copy, and every master     *)
(* that hears it answers with the time of arrival in a DelayResp.            *)
(*                                                                           *)
(* Times are told apart by the request they belong to. A DelayReq may be     *)
(* lost for any master, a DelayResp lost, late and duplicated. The slave's   *)
(* state and parent change as Port.tla lets them, here at any time.          *)
(*****************************************************************************)
EXTENDS SequenceIds

CONSTANTS
    Masters,          \* ports that may answer
    Self, Other,      \* the slave and another one that asks as well
    OtherIds,         \* sequence ids of the requests of Other
    HwTimestamping,   \* hardware time stamps: multicast loopback is off
    LoopbackLoss      \* the event socket may drop a looped back request

ASSUME PortsAssumption ==
    Self # Other /\ {Self, Other} \cap Masters = {}
    /\ NULL \notin Masters \cup {Self, Other}
ASSUME FlagsAssumption == {HwTimestamping, LoopbackLoss} \subseteq BOOLEAN
ASSUME IdsAssumption == OtherIds \subseteq SequenceId

(* What updateDelay() may combine.                                           *)
Times == [send : 0 .. MaxReq, receive : 0 .. MaxReq,
          requester : {Self, Other}, master : Masters, entered : 0 .. MaxReq]
ASSUME NoTimesAssumption == NULL \notin Times

VARIABLES
    portState,
    parent,                   \* parentPortIdentity
    sentDelayReqSequenceId,
    requested,                \* requests sent
    entered,                  \* those sent when the port last became SLAVE
    looped,                   \* looped back requests read or lost
    requests,                 \* requests of the slave on the network
    delay_req_send_time,      \* the request that departed then
    delay_req_receive_time,   \* the request that arrived then
    offset_first_updated,
    delay                     \* times last combined by updateDelay()

request == <<sentDelayReqSequenceId, requested, requests, looped,
             delay_req_send_time>>
answer  == <<delay_req_receive_time, delay>>
vars    == <<portState, parent, entered, request, answer, offset_first_updated>>

Init ==
    /\ portState = "LISTENING"
    /\ parent = Self
    /\ sentDelayReqSequenceId = FirstSeq
    /\ requested = 0 /\ entered = 0 /\ looped = 0
    /\ requests = {}
    /\ delay_req_send_time = 0 /\ delay_req_receive_time = 0
    /\ offset_first_updated = FALSE
    /\ delay = NULL

-------------------------------------------------------------------------------
(* The other ports                                                           *)

(* issueDelayResp(): the request's id and port are copied.                   *)
DelayResp(m, r) ==
    [src |-> m, requester |-> r.src, sequenceId |-> r.sequenceId, n |-> r.n]

(* The DelayResps on the network: any master may have heard, and answered,   *)
(* any request of the slave and of Other.                                    *)
Responses ==
    LET others == {[src |-> Other, sequenceId |-> i, n |-> 0] : i \in OtherIds}
    IN  {DelayResp(m, r) : m \in Masters, r \in requests \cup others}

-------------------------------------------------------------------------------
(* The slave                                                                 *)

(* s1(), m1() and changes of state.                                          *)
toState(state, p) ==
    /\ portState' = state
    /\ parent' = p
    /\ entered' = IF state = "SLAVE" /\ portState # "SLAVE"
                  THEN requested ELSE entered
    /\ UNCHANGED <<request, answer, offset_first_updated>>

(* The DELAYREQ timer is checked in every state but MASTER, and its expire   *)
(* flag may be left from a former SLAVE.                                     *)
issueDelayReq ==
    /\ portState # "MASTER"
    /\ requested < MaxReq
    /\ requested' = requested + 1
    /\ requests' = requests \cup
          {[src |-> Self, sequenceId |-> sentDelayReqSequenceId,
            n |-> requested']}
    /\ sentDelayReqSequenceId' = NextSequenceId(sentDelayReqSequenceId)
    /\ looped' = IF HwTimestamping THEN requested' ELSE looped
    /\ UNCHANGED <<portState, parent, entered, delay_req_send_time,
                   answer, offset_first_updated>>

(* handleDelayReq() of the looped back request r, recorded in SLAVE only.    *)
(* (A MASTER answers it as if it came from another port, to itself.)         *)
handleDelayReq(r) ==
    /\ r.n > looped
    /\ LoopbackLoss \/ r.n = looped + 1
    /\ looped' = r.n
    /\ delay_req_send_time' = IF portState = "SLAVE" THEN r.n
                              ELSE delay_req_send_time
    /\ UNCHANGED <<portState, parent, entered, sentDelayReqSequenceId,
                   requested, requests, answer, offset_first_updated>>

(* updateOffset() on a Sync of the parent, when it does not give up.         *)
updateOffset ==
    /\ portState = "SLAVE"
    /\ offset_first_updated' = TRUE
    /\ UNCHANGED <<portState, parent, entered, request, answer>>

(* updateDelay() gives up on a delay beyond maxDelay.                        *)
updateDelay(r) ==
    IF offset_first_updated
    THEN \/ delay' = [send |-> delay_req_send_time, receive |-> r.n,
                      requester |-> r.requester, master |-> r.src,
                      entered |-> entered]
         \/ UNCHANGED delay
    ELSE UNCHANGED delay

(* Mutant: the general socket is read first.                                 *)
MayReadGeneralFirst == TRUE

(* netRecvEvent() comes first: the general socket, on which a DelayResp      *)
(* arrives, is read when no request is left in the event socket.             *)
MayReadGeneral == looped = requested

(* Mutant: the sequence id is not compared.                                  *)
AnswersAnyRequest(r) ==
    /\ r.requester = Self
    /\ r.src = parent

(* The answer of the parent to the last request of this port. The difference *)
(* is an int, -1 after the id has wrapped: no answer matches then.           *)
AnswersLatestRequest(r) ==
    /\ r.requester = Self
    /\ sentDelayReqSequenceId - 1 = r.sequenceId
    /\ r.src = parent

(* A DelayResp that does not match changes nothing.                          *)
handleDelayResp(r) ==
    /\ MayReadGeneral
    /\ portState = "SLAVE"
    /\ AnswersLatestRequest(r)
    /\ delay_req_receive_time' = r.n
    /\ updateDelay(r)
    /\ UNCHANGED <<portState, parent, entered, request, offset_first_updated>>

-------------------------------------------------------------------------------
Next ==
    \/ \E p \in Masters : toState("SLAVE", p)
    \/ toState("MASTER", Self)
    \/ toState("LISTENING", parent)
    \/ issueDelayReq
    \/ \E r \in requests : handleDelayReq(r)
    \/ updateOffset
    \/ \E r \in Responses : handleDelayResp(r)

Spec == Init /\ [][Next]_vars

-------------------------------------------------------------------------------
(* Properties                                                                *)

TypeOK ==
    /\ portState \in {"LISTENING", "SLAVE", "MASTER"}
    /\ parent \in Masters \cup {Self}
    /\ sentDelayReqSequenceId \in SequenceId
    /\ requested \in 0 .. MaxReq
    /\ entered \in 0 .. requested
    /\ looped \in 0 .. requested
    /\ requests \subseteq
          [src : {Self}, sequenceId : SequenceId, n : 1 .. MaxReq]
    /\ delay_req_send_time \in 0 .. MaxReq
    /\ delay_req_receive_time \in 0 .. MaxReq
    /\ offset_first_updated \in BOOLEAN
    /\ delay \in Times \cup {NULL}

(* The path delay is computed from the departure and the arrival of the same *)
(* request, one of this slave, if the port was SLAVE since it was sent. The  *)
(* code compares ids for the arrival only; that the departure belongs to it  *)
(* rests on the order in which handle() reads its sockets.                   *)
DelayFromOneRequest ==
    delay # NULL =>
        /\ delay.requester = Self
        /\ delay.receive > delay.entered => delay.send = delay.receive

(* Whatever is lost, late or duplicated, a measurement never goes back to an *)
(* earlier request. (A duplicated DelayResp repeats the last one.)           *)
Promise == INSTANCE Measurement WITH
    Masters  <- {Self},
    departed <- [m \in {Self} |-> requested],
    measured <- [m \in {Self} |-> IF delay = NULL THEN 0 ELSE delay.receive]
MeasuresInOrder == Promise!Spec
================================================================================
