-------------------------------- MODULE PeerDelay --------------------------------
(*****************************************************************************)
(* The peer delay mechanism of protocol.c on one link: a port sends a        *)
(* PdelayReq, its peer answers with a PdelayResp that carries the time t2 of *)
(* arrival, and sends the departure time t3 of that PdelayResp, which it     *)
(* learns as SyncExchange.tla tells, in a PdelayRespFollowUp. The port adds  *)
(* the departure of the request t1 and the arrival of the response t4.       *)
(*                                                                           *)
(* Times are told apart by the request whose exchange they belong to. A      *)
(* PdelayReq may be lost, a PdelayRespFollowUp lost, late and duplicated.    *)
(*****************************************************************************)
EXTENDS SequenceIds

CONSTANTS
    Kinds,              \* whether the peer may be a two step clock
    Prompt,             \* the peer reads a looped back PdelayResp before the
                        \* next PdelayReq
    InOrder,            \* PdelayResps are not lost, nor overtaken by what the
                        \* peer sends next
    MaxPReq             \* bound: PdelayReqs

(* What updatePeerDelay() may be given; 0 for a time that was cleared.       *)
PeerTimes == [send : 0 .. MaxPReq, response : 0 .. MaxPReq,
              followUp : 0 .. MaxPReq, entered : 0 .. MaxPReq]

ASSUME LinkAssumption == Kinds \cup {Prompt, InOrder} \subseteq BOOLEAN
ASSUME MaxPReqAssumption ==
    MaxSequenceId \in Nat /\ MaxPReq \in 1 .. MaxSequenceId
ASSUME NotMeasuredAssumption == NULL \notin PeerTimes

VARIABLES
    pState,                   \* state of the port
    sentPDelayReqSequenceId,
    pRequests,                \* requests on the network
    pRequested,               \* requests sent
    pEntered,                 \* those sent when toState() last began a
                              \* period of measuring
    pLooped,                  \* own requests read
    answered,                 \* the last PdelayResp read
    pdelay_req_send_time,     \* t1
    responseTimes,            \* pdelay_req_receive_time and
                              \* pdelay_resp_receive_time, t2 and t4
    pdelay,                   \* times last given to updatePeerDelay()
    twoStep,                  \* the peer: which clock it is
    peerState,
    heard,                    \* the last PdelayReq it read
    PdelayReqHeader,          \* that of the last one it answered
    peerLooped,               \* own responses read or lost
    responses, followUps      \* on the network

requester == <<sentPDelayReqSequenceId, pRequests, pRequested, pLooped,
               pdelay_req_send_time>>
results   == <<answered, responseTimes, pdelay>>
peer      == <<twoStep, peerState, heard, PdelayReqHeader, peerLooped,
               responses, followUps>>
peerVars      == <<pState, pEntered, requester, results, peer>>

PeerInit ==
    /\ pState = "LISTENING"
    /\ sentPDelayReqSequenceId = FirstSeq
    /\ pRequests = {}
    /\ pRequested = 0 /\ pEntered = 0 /\ pLooped = 0 /\ answered = 0
    /\ pdelay_req_send_time = 0 /\ responseTimes = 0
    /\ pdelay = NULL
    /\ twoStep \in Kinds
    /\ peerState = "LISTENING"
    /\ heard = 0 /\ peerLooped = 0
    /\ PdelayReqHeader = [sequenceId |-> 0, n |-> 0]
    /\ responses = {} /\ followUps = {}

(* MASTER and SLAVE treat these messages alike. LISTENING disregards them,   *)
(* PASSIVE answers, but neither takes an answer nor follows up.              *)
State     == { "LISTENING", "SLAVE", "MASTER", "PASSIVE" }
Measuring == { "SLAVE", "MASTER" }
Answering == Measuring \cup { "PASSIVE" }

-------------------------------------------------------------------------------
(* The peer                                                                  *)

(* SLAVE stands for MASTER, from which it does not differ here.              *)
peerToState(state) ==
    /\ state # "MASTER" /\ state # peerState
    /\ peerState' = state
    /\ UNCHANGED <<pState, pEntered, requester, results, twoStep, heard,
                   PdelayReqHeader, peerLooped, responses, followUps>>

LoopbackPending == \E r \in responses : r.n > peerLooped

(* handlePDelayReq() of request r, and issuePDelayResp().                    *)
handlePDelayReq(r) ==
    /\ r.n > heard
    /\ Prompt => ~LoopbackPending
    /\ heard' = r.n
    /\ IF peerState \in Answering
       THEN /\ PdelayReqHeader' = r
            /\ responses' = responses \cup {r}
       ELSE UNCHANGED <<PdelayReqHeader, responses>>
    /\ UNCHANGED <<pState, pEntered, requester, results, twoStep, peerState,
                   peerLooped, followUps>>

(* handlePDelayResp() of the looped back response r: what is sent after it   *)
(* names the request answered last. Responses before r were lost on the way. *)
issuePDelayRespFollowUp(r) ==
    /\ r.n > peerLooped
    /\ peerLooped' = r.n
    /\ followUps' = IF twoStep /\ peerState \in Measuring
                    THEN followUps \cup
                         {[sequenceId |-> PdelayReqHeader.sequenceId, n |-> r.n]}
                    ELSE followUps
    /\ UNCHANGED <<pState, pEntered, requester, results, twoStep, peerState,
                   heard, PdelayReqHeader, responses>>

-------------------------------------------------------------------------------
(* The port                                                                  *)

(* Turning SLAVE clears the times, also those of an exchange under way.      *)
pdelayToState(state) ==
    /\ pState # state
    /\ pState' = state
    /\ pEntered' = IF state = "SLAVE" \/ pState \notin Measuring
                  THEN pRequested ELSE pEntered
    /\ IF state = "SLAVE"
       THEN pdelay_req_send_time' = 0 /\ responseTimes' = 0
       ELSE UNCHANGED <<pdelay_req_send_time, responseTimes>>
    /\ UNCHANGED <<sentPDelayReqSequenceId, pRequests, pRequested, pLooped,
                   answered, pdelay, peer>>

(* The timer is checked in every state; its expire flag may be an old one.   *)
issuePDelayReq ==
    /\ pRequested < MaxPReq
    /\ pRequested' = pRequested + 1
    /\ pRequests' = pRequests \cup
          {[sequenceId |-> sentPDelayReqSequenceId, n |-> pRequested']}
    /\ sentPDelayReqSequenceId' = NextSequenceId(sentPDelayReqSequenceId)
    /\ UNCHANGED <<pState, pEntered, pLooped, pdelay_req_send_time, results,
                   peer>>

(* handlePDelayReq() with isFromSelf. (It never comes with hardware time     *)
(* stamps: txTimestamp() keeps those of Sync and PdelayResp only.)           *)
OwnPDelayReq ==
    /\ pLooped < pRequested
    /\ pLooped' = pLooped + 1
    /\ pdelay_req_send_time' = IF pState \in Answering THEN pLooped'
                               ELSE pdelay_req_send_time
    /\ UNCHANGED <<pState, pEntered, sentPDelayReqSequenceId, pRequests,
                   pRequested, results, peer>>

(* A PdelayResp follows the looped back request into the event socket.       *)
Arrives(r) ==
    /\ r.n > answered /\ r.n <= pLooped
    /\ InOrder => \A other \in responses : other.n <= answered \/ other.n >= r.n

(* "PdelayResp doesn't match" is said of a response to this port that        *)
(* carries the id of the request not sent yet: every other one is taken.     *)
Taken(r) == sentPDelayReqSequenceId # r.sequenceId

updatePeerDelay(send, times, followUp) ==
    pdelay' = [send |-> send, response |-> times, followUp |-> followUp,
              entered |-> pEntered]

(* handlePDelayResp() of a response from the peer.                           *)
handlePDelayResp(r) ==
    /\ Arrives(r)
    /\ answered' = r.n
    /\ IF pState \in Measuring /\ Taken(r)
       THEN /\ responseTimes' = r.n
            /\ IF twoStep THEN UNCHANGED pdelay
               ELSE updatePeerDelay(pdelay_req_send_time, r.n, 0)
       ELSE UNCHANGED <<responseTimes, pdelay>>
    /\ UNCHANGED <<pState, pEntered, requester, peer>>

(* Mutant: the general socket is read first.                                 *)
MayReadPeerGeneralFirst(f) == TRUE

(* The event socket is read first, and the PdelayResp has come before.       *)
MayReadPeerGeneral(f) ==
    /\ pLooped = pRequested
    /\ InOrder => f.n <= answered

(* Mutant: the sequence id is not compared.                                  *)
FollowsAnyRequest(f) == TRUE

(* Neither the requesting port nor the sender is compared. The difference is *)
(* an int, -1 after the id has wrapped: nothing matches then.                *)
FollowsLatestRequest(f) == f.sequenceId = sentPDelayReqSequenceId - 1

(* A PdelayRespFollowUp that does not match changes nothing.                 *)
handlePDelayRespFollowUp(f) ==
    /\ MayReadPeerGeneral(f)
    /\ pState \in Measuring
    /\ FollowsLatestRequest(f)
    /\ updatePeerDelay(pdelay_req_send_time, responseTimes, f.n)
    /\ UNCHANGED <<pState, pEntered, requester, answered, responseTimes, peer>>

-------------------------------------------------------------------------------
PeerNext ==
    \/ \E state \in State : pdelayToState(state) \/ peerToState(state)
    \/ issuePDelayReq
    \/ OwnPDelayReq
    \/ \E r \in pRequests : handlePDelayReq(r)
    \/ \E r \in responses : issuePDelayRespFollowUp(r) \/ handlePDelayResp(r)
    \/ \E f \in followUps : handlePDelayRespFollowUp(f)

PeerSpec == PeerInit /\ [][PeerNext]_peerVars

-------------------------------------------------------------------------------
(* Properties                                                                *)

Request == [sequenceId : SequenceId, n : 1 .. MaxPReq]

PeerTypeOK ==
    /\ {pState, peerState} \subseteq State
    /\ peerState # "MASTER"
    /\ sentPDelayReqSequenceId \in SequenceId
    /\ pRequests \subseteq Request
    /\ pRequested \in 0 .. MaxPReq
    /\ {pEntered, pLooped} \subseteq 0 .. pRequested
    /\ {answered, heard, peerLooped} \subseteq 0 .. pRequested
    /\ {pdelay_req_send_time, responseTimes} \subseteq 0 .. MaxPReq
    /\ pdelay \in PeerTimes \cup {NULL}
    /\ twoStep \in BOOLEAN
    /\ PdelayReqHeader \in Request \cup {[sequenceId |-> 0, n |-> 0]}
    /\ responses \subseteq Request
    /\ followUps \subseteq Request

(* With a two step peer the four times of a delay belong to one exchange, if *)
(* the port could measure since the request was sent. They are stored by     *)
(* four handlers, only the last of which compares an id that tells requests  *)
(* apart. Needs Prompt and InOrder: a PdelayRespFollowUp whose PdelayResp    *)
(* was lost is combined with the times of an earlier one. (A late PdelayResp *)
(* of a one step peer meets the departure of a later request.)               *)
PeerDelayFromOneExchange ==
    pdelay # NULL /\ twoStep /\ pdelay.followUp > pdelay.entered =>
        pdelay.send = pdelay.followUp /\ pdelay.response = pdelay.followUp

(* Whatever is lost, late or duplicated, measurements do not go back to an   *)
(* earlier exchange.                                                         *)
LastMeasured == IF pdelay = NULL THEN 0
                ELSE IF twoStep THEN pdelay.followUp ELSE pdelay.response
PeerPromise == INSTANCE Measurement WITH
    Masters  <- {"peer"},
    departed <- [m \in {"peer"} |-> pRequested],
    measured <- [m \in {"peer"} |-> LastMeasured]
PeerMeasuresInOrder == PeerPromise!Spec
================================================================================
