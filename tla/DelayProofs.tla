------------------------------- MODULE DelayProofs -------------------------------
(*****************************************************************************)
(* The delay request exchange for any number of requests that fits the       *)
(* sequence ids, any first id, any masters and any ids of other slaves; then *)
(* the peer delay exchange, with a peer that reads its loopback promptly.    *)
(*                                                                           *)
(* The id of a request tells its number, and the id that handleDelayResp()   *)
(* expects is that of the last request. With the event socket empty the last *)
(* loopback read is that of the last request, too.                           *)
(*****************************************************************************)
EXTENDS DelayMechanism, TLAPS

(* The id of the n-th request.                                               *)
Id(n) == IF FirstSeq + n - 1 <= MaxSequenceId THEN FirstSeq + n - 1
         ELSE FirstSeq + n - 1 - (MaxSequenceId + 1)

Numbered ==
    /\ sentDelayReqSequenceId = Id(requested + 1)
    /\ \A r \in requests : r.n <= requested /\ r.sequenceId = Id(r.n)

NotAhead == delay # NULL => delay.receive <= requested

(* While the port is SLAVE the time recorded is that of the last loopback.   *)
SendTimeIsLast ==
    portState = "SLAVE" /\ looped > entered => delay_req_send_time = looped

IInv == TypeOK /\ Numbered /\ NotAhead

-------------------------------------------------------------------------------
(* Ids of at most 65535 requests in a row differ, so that the difference of  *)
(* one that the code tests is met by the last request only.                  *)
LEMMA LatestById ==
    ASSUME NEW k \in Nat, NEW n \in 1 .. k, k <= MaxSequenceId,
           Id(k + 1) - 1 = Id(n)
    PROVE  n = k
  BY IdsAssumption, FirstSeqAssumption, MaxReqAssumption DEF Id, SequenceId

(* Ids are those of the message, and the next one follows.                   *)
LEMMA IdsTyped ==
    ASSUME NEW n \in 1 .. MaxSequenceId + 1
    PROVE  /\ Id(n) \in SequenceId
           /\ NextSequenceId(Id(n)) = Id(n + 1)
  BY IdsAssumption, FirstSeqAssumption, MaxReqAssumption
     DEF Id, NextSequenceId, SequenceId

(* An answer that is taken was given to the last request.                    *)
LEMMA AnswerTaken ==
    ASSUME IInv, NEW r \in Responses, AnswersLatestRequest(r)
    PROVE  r.n = requested /\ r.requester = Self /\ r.src \in Masters
           /\ requested \in 1 .. MaxReq
<1>1. PICK m \in Masters, q \in requests \cup
              {[src |-> Other, sequenceId |-> i, n |-> 0] : i \in OtherIds} :
          r = DelayResp(m, q)
  BY DEF Responses
<1>2. q.src = Self /\ r.n = q.n /\ r.sequenceId = q.sequenceId
      /\ r.src = m /\ r.requester = Self
  BY <1>1 DEF DelayResp, AnswersLatestRequest
<1>3. q \in requests
  BY <1>1, <1>2, PortsAssumption
<1>4. q.n \in 1 .. MaxReq /\ q.n <= requested /\ r.sequenceId = Id(q.n)
  BY <1>2, <1>3 DEF IInv, TypeOK, Numbered
<1>5. requested \in 1 .. MaxReq /\ q.n \in 1 .. requested
  BY <1>4, MaxReqAssumption DEF IInv, TypeOK
<1>6. Id(requested + 1) - 1 = Id(q.n)
  BY <1>4 DEF AnswersLatestRequest, IInv, Numbered
<1>7. q.n = requested
  BY <1>5, <1>6, LatestById, MaxReqAssumption
<1>8. QED
  BY <1>1, <1>2, <1>5, <1>7

-------------------------------------------------------------------------------
LEMMA Initially == Init => IInv /\ SendTimeIsLast /\ DelayFromOneRequest
<1>1. SUFFICES ASSUME Init PROVE IInv /\ SendTimeIsLast /\ DelayFromOneRequest
  OBVIOUS
<1>2. TypeOK
  <2>1. 0 \in 0 .. MaxReq /\ 0 \in 0 .. 0
    BY MaxReqAssumption
  <2>2. QED
    BY <1>1, <2>1, IdsAssumption, FirstSeqAssumption, Zenon DEF Init, TypeOK
<1>3. Id(1) = FirstSeq
  BY IdsAssumption, FirstSeqAssumption, MaxReqAssumption DEF Id, SequenceId
<1>4. QED
  BY <1>1, <1>2, <1>3
     DEF Init, IInv, Numbered, NotAhead, SendTimeIsLast, DelayFromOneRequest

(* Types and numbers are kept by every step.                                 *)
LEMMA Inductive == IInv /\ [Next]_vars => IInv'
<1> SUFFICES ASSUME IInv, [Next]_vars PROVE IInv'
  OBVIOUS
<1> USE MaxReqAssumption DEF IInv
<1>1. ASSUME NEW state \in {"LISTENING", "SLAVE", "MASTER"},
             NEW p \in Masters \cup {Self}, toState(state, p)
      PROVE  IInv'
  BY <1>1 DEF toState, request, answer, TypeOK, Numbered, NotAhead, Id
<1>2. CASE issueDelayReq
  <2>1. requested' = requested + 1 /\ requested' \in 1 .. MaxReq
    BY <1>2 DEF issueDelayReq, TypeOK
  <2>2. sentDelayReqSequenceId = Id(requested') /\ Id(requested') \in SequenceId
        /\ sentDelayReqSequenceId' = Id(requested' + 1)
        /\ Id(requested' + 1) \in SequenceId
    BY <1>2, <2>1, IdsTyped DEF issueDelayReq, Numbered
  <2>3. requests' = requests \cup
           {[src |-> Self, sequenceId |-> sentDelayReqSequenceId,
             n |-> requested']}
    BY <1>2 DEF issueDelayReq
  <2>4. Numbered'
    BY <2>1, <2>2, <2>3 DEF Numbered, TypeOK, Id
  <2>5. requests' \subseteq
           [src : {Self}, sequenceId : SequenceId, n : 1 .. MaxReq]
    BY <2>1, <2>2, <2>3 DEF TypeOK
  <2>6. TypeOK'
    BY <1>2, <2>1, <2>2, <2>5 DEF issueDelayReq, TypeOK, answer
  <2>7. NotAhead'
    BY <1>2, <2>1 DEF issueDelayReq, NotAhead, TypeOK, Times, answer
  <2>8. QED
    BY <2>4, <2>6, <2>7
<1>3. ASSUME NEW r \in requests, handleDelayReq(r) PROVE IInv'
  <2>1. r.n \in 0 .. requested /\ r.n \in 0 .. MaxReq
    BY DEF TypeOK, Numbered
  <2>2. QED
    BY <1>3, <2>1 DEF handleDelayReq, TypeOK, Numbered, NotAhead, answer, Id
<1>4. CASE updateOffset
  BY <1>4 DEF updateOffset, TypeOK, Numbered, NotAhead, request, answer, Id
<1>5. ASSUME NEW r \in Responses, handleDelayResp(r) PROVE IInv'
  <2>1. r.n = requested /\ r.requester = Self /\ r.src \in Masters
        /\ requested \in 1 .. MaxReq
    BY <1>5, AnswerTaken DEF handleDelayResp
  <2>2. \/ delay' = delay
        \/ delay' = [send |-> delay_req_send_time, receive |-> r.n,
                     requester |-> r.requester, master |-> r.src,
                     entered |-> entered]
    BY <1>5 DEF handleDelayResp, updateDelay
  <2>3. delay' \in Times \cup {NULL}
    BY <2>1, <2>2 DEF TypeOK, Times
  <2>4. TypeOK'
    BY <1>5, <2>1, <2>3 DEF handleDelayResp, TypeOK, request
  <2>5. Numbered'
    BY <1>5 DEF handleDelayResp, Numbered, request, Id
  <2>6. NotAhead'
    BY <1>5, <2>1, <2>2 DEF handleDelayResp, NotAhead, TypeOK, request
  <2>7. QED
    BY <2>4, <2>5, <2>6
<1>6. CASE UNCHANGED vars
  BY <1>6 DEF vars, request, answer, TypeOK, Numbered, NotAhead, Id
<1>7. QED
  <2>1. CASE Next
    BY <2>1, <1>1, <1>2, <1>3, <1>4, <1>5 DEF Next, TypeOK
  <2>2. QED
    BY <2>1, <1>6

THEOREM InductiveInvariant == Spec => []IInv
<1>1. Init => IInv
  BY Initially
<1>2. QED
  BY <1>1, Inductive, PTL DEF Spec

(* Every variable of the delay exchange keeps its type, the sequence ids     *)
(* their 16 bits.                                                            *)
THEOREM TypeCorrect == Spec => []TypeOK
<1>1. IInv => TypeOK
  BY DEF IInv
<1>2. QED
  BY <1>1, InductiveInvariant, PTL

-------------------------------------------------------------------------------
(* The time recorded is that of the last loopback, if none is dropped.       *)
LEMMA SendTimeInductive ==
    ASSUME ~HwTimestamping, ~LoopbackLoss
    PROVE  IInv /\ SendTimeIsLast /\ [Next]_vars => SendTimeIsLast'
<1> SUFFICES ASSUME IInv, SendTimeIsLast, [Next]_vars PROVE SendTimeIsLast'
  OBVIOUS
<1> USE DEF IInv, SendTimeIsLast, TypeOK
<1>1. ASSUME NEW state \in {"LISTENING", "SLAVE", "MASTER"},
             NEW p \in Masters \cup {Self}, toState(state, p)
      PROVE  SendTimeIsLast'
  BY <1>1 DEF toState, request
<1>2. CASE issueDelayReq
  BY <1>2 DEF issueDelayReq
<1>3. ASSUME NEW r \in requests, handleDelayReq(r) PROVE SendTimeIsLast'
  BY <1>3 DEF handleDelayReq
<1>4. CASE updateOffset
  BY <1>4 DEF updateOffset, request
<1>5. ASSUME NEW r \in Responses, handleDelayResp(r) PROVE SendTimeIsLast'
  BY <1>5 DEF handleDelayResp, request
<1>6. CASE UNCHANGED vars
  BY <1>6 DEF vars, request
<1>7. QED
  BY <1>1, <1>2, <1>3, <1>4, <1>5, <1>6 DEF Next

LEMMA DelayInductive ==
    IInv /\ SendTimeIsLast /\ DelayFromOneRequest /\ [Next]_vars
        => DelayFromOneRequest'
<1> SUFFICES ASSUME IInv, SendTimeIsLast, DelayFromOneRequest, [Next]_vars
             PROVE  DelayFromOneRequest'
  OBVIOUS
<1>1. CASE UNCHANGED delay
  BY <1>1 DEF DelayFromOneRequest
<1>2. ASSUME NEW r \in Responses, handleDelayResp(r)
      PROVE  DelayFromOneRequest'
  <2>1. r.n = requested /\ r.requester = Self
    BY <1>2, AnswerTaken DEF handleDelayResp
  <2>2. requested > entered => delay_req_send_time = requested
    BY <1>2 DEF handleDelayResp, MayReadGeneral, SendTimeIsLast
  <2>3. \/ delay' = delay
        \/ delay' = [send |-> delay_req_send_time, receive |-> r.n,
                     requester |-> r.requester, master |-> r.src,
                     entered |-> entered]
    BY <1>2 DEF handleDelayResp, updateDelay
  <2>4. QED
    BY <2>1, <2>2, <2>3 DEF DelayFromOneRequest
<1>3. QED
  BY <1>1, <1>2 DEF Next, toState, issueDelayReq, handleDelayReq, updateOffset,
     vars, answer

(* With software time stamps and no dropped loopback the path delay is       *)
(* always computed from the departure and the arrival of the same request of *)
(* this slave, whatever answers of other masters, to other slaves or to      *)
(* earlier requests handleDelayResp() sees.                                  *)
THEOREM DelayIsOfOneRequest ==
    ASSUME ~HwTimestamping, ~LoopbackLoss
    PROVE  Spec => []DelayFromOneRequest
<1>1. Init => IInv /\ SendTimeIsLast /\ DelayFromOneRequest
  BY Initially
<1>2. IInv /\ SendTimeIsLast /\ [Next]_vars => SendTimeIsLast'
  BY SendTimeInductive
<1>3. QED
  BY <1>1, <1>2, Inductive, DelayInductive, PTL DEF Spec

-------------------------------------------------------------------------------
(* Every step of the exchange is a step of Measurement or none: a request    *)
(* departs, or one not measured with before is.                              *)
Departed == [m \in {Self} |-> requested]
Measured == [m \in {Self} |-> IF delay = NULL THEN 0 ELSE delay.receive]

LEMMA StepMeasures ==
    IInv /\ [Next]_vars => [Promise!Next]_<<Departed, Measured>>
<1> SUFFICES ASSUME IInv, [Next]_vars
             PROVE  [Promise!Next]_<<Departed, Measured>>
  OBVIOUS
<1>1. CASE UNCHANGED <<requested, delay>>
  BY <1>1 DEF Departed, Measured
<1>2. CASE issueDelayReq
  <2>1. requested' = requested + 1 /\ delay' = delay
    BY <1>2 DEF issueDelayReq, answer
  <2>2. Promise!Depart(Self)
    BY <2>1 DEF Promise!Depart
  <2>3. QED
    BY <2>2 DEF Promise!Next
<1>3. ASSUME NEW r \in Responses, handleDelayResp(r)
      PROVE  [Promise!Next]_<<Departed, Measured>>
  <2>1. r.n = requested /\ r.requester = Self /\ r.src \in Masters
        /\ requested \in 1 .. MaxReq
    BY <1>3, AnswerTaken DEF handleDelayResp
  <2>2. requested' = requested
    BY <1>3 DEF handleDelayResp, request
  <2>3. \/ delay' = delay
        \/ delay' = [send |-> delay_req_send_time, receive |-> r.n,
                     requester |-> r.requester, master |-> r.src,
                     entered |-> entered]
    BY <1>3 DEF handleDelayResp, updateDelay
  <2>4. CASE Measured'[Self] = Measured[Self]
    BY <2>2, <2>4 DEF Measured, Departed
  <2>5. CASE Measured'[Self] # Measured[Self]
    <3>1. Measured[Self] \in 0 .. requested
      BY <2>1 DEF IInv, TypeOK, NotAhead, Measured, Times
    <3>2. delay' # NULL
      <4>1. [send |-> delay_req_send_time, receive |-> r.n,
             requester |-> r.requester, master |-> r.src,
             entered |-> entered] \in Times
        BY <2>1, MaxReqAssumption DEF IInv, TypeOK, Times
      <4>2. QED
        BY <2>3, <2>5, <4>1, NoTimesAssumption DEF Measured
    <3>3. Measured'[Self] = requested
      BY <2>1, <2>3, <2>5, <3>2 DEF Measured
    <3>4. Promise!Measure(Self)
      BY <2>1, <2>2, <2>5, <3>1, <3>3
         DEF Promise!Measure, Measured, Departed
    <3>5. QED
      BY <3>4 DEF Promise!Next
  <2>6. QED
    BY <2>4, <2>5
<1>4. QED
  BY <1>1, <1>2, <1>3 DEF Next, toState, handleDelayReq, updateOffset,
     vars, answer, request

(* The exchange implements Measurement: whatever is lost, late or duplicated *)
(* and however the parent changes, no measurement goes back to an earlier    *)
(* request than the last one did.                                            *)
THEOREM ImplementsMeasurement == Spec => MeasuresInOrder
<1>1. Init => Promise!Init
  BY DEF Init, Promise!Init
<1>2. IInv /\ [Next]_vars => [Promise!Next]_<<Departed, Measured>>
  BY StepMeasures
<1>3. QED
  BY <1>1, <1>2, InductiveInvariant, PTL
     DEF Spec, MeasuresInOrder, Promise!Spec, Departed, Measured

-------------------------------------------------------------------------------
(* The peer delay exchange. Everything on the network is a request or a copy *)
(* of one, because a PdelayRespFollowUp, which names the request answered    *)
(* last, is sent before the next one is answered. The id then tells the last *)
(* request.                                                                  *)
PeerNumbered ==
    /\ sentPDelayReqSequenceId = Id(pRequested + 1)
    /\ \A r \in pRequests : r.n <= pRequested /\ r.sequenceId = Id(r.n)

(* Answers copy what they need from the request.                             *)
Copied ==
    /\ responses \subseteq pRequests /\ followUps \subseteq pRequests
    /\ \A f \in followUps : twoStep

(* A response whose loopback is still to come is the last one.               *)
OnePending == \A r \in responses : r.n > peerLooped => r = PdelayReqHeader

PeerNotAhead ==
    /\ responseTimes <= answered
    /\ pdelay # NULL => pdelay.response <= answered
                        /\ pdelay.followUp <= pRequested

PeerIInv == PeerTypeOK /\ PeerNumbered /\ Copied /\ OnePending /\ PeerNotAhead

(* While the port measures, t1 and the pair of t2 and t4 are those of the    *)
(* last messages read.                                                       *)
TimesAreLast ==
    pState \in Measuring =>
        /\ pLooped > pEntered => pdelay_req_send_time = pLooped
        /\ answered > pEntered => responseTimes = answered

-------------------------------------------------------------------------------
(* Ids of MaxReq requests and the next differ.                               *)
LEMMA IdsDiffer ==
    ASSUME NEW i \in 1 .. MaxPReq + 1, NEW j \in 1 .. MaxPReq + 1, Id(i) = Id(j)
    PROVE  i = j
  BY FirstSeqAssumption, MaxPReqAssumption DEF Id, SequenceId

(* A difference of one is met by the last request only.                      *)
LEMMA PeerLatestById ==
    ASSUME NEW k \in 1 .. MaxPReq, NEW n \in 1 .. k, Id(n) = Id(k + 1) - 1
    PROVE  n = k
  BY FirstSeqAssumption, MaxPReqAssumption DEF Id, SequenceId

LEMMA PeerIdsTyped ==
    ASSUME NEW n \in 1 .. MaxPReq
    PROVE  /\ Id(n) \in SequenceId
           /\ Id(n + 1) \in SequenceId
           /\ NextSequenceId(Id(n)) = Id(n + 1)
  BY FirstSeqAssumption, MaxPReqAssumption DEF Id, NextSequenceId, SequenceId

(* A PdelayRespFollowUp that is taken is of the last request.                *)
LEMMA FollowUpTaken ==
    ASSUME PeerIInv, NEW f \in followUps, FollowsLatestRequest(f)
    PROVE  f.n = pRequested /\ pRequested \in 1 .. MaxPReq
<1>1. f \in pRequests /\ f.n \in 1 .. MaxPReq
  BY DEF PeerIInv, Copied, PeerTypeOK, Request
<1>2. f.n <= pRequested /\ f.sequenceId = Id(f.n)
      /\ sentPDelayReqSequenceId = Id(pRequested + 1)
  BY <1>1 DEF PeerIInv, PeerNumbered
<1>3. pRequested \in 1 .. MaxPReq /\ f.n \in 1 .. pRequested
  BY <1>1, <1>2, MaxPReqAssumption DEF PeerIInv, PeerTypeOK
<1>4. Id(f.n) = Id(pRequested + 1) - 1
  BY <1>2 DEF FollowsLatestRequest
<1>5. QED
  BY <1>3, <1>4, PeerLatestById

(* A response to a request that was sent is always taken.                    *)
LEMMA ResponseTaken ==
    ASSUME PeerIInv, NEW r \in responses
    PROVE  Taken(r) /\ r.n \in 1 .. pRequested /\ r.n \in 1 .. MaxPReq
<1>1. r \in pRequests /\ r.n \in 1 .. MaxPReq
  BY DEF PeerIInv, Copied, PeerTypeOK, Request
<1>2. r.n <= pRequested /\ r.sequenceId = Id(r.n)
      /\ sentPDelayReqSequenceId = Id(pRequested + 1)
  BY <1>1 DEF PeerIInv, PeerNumbered
<1>3. r.n \in 1 .. pRequested /\ pRequested + 1 \in 1 .. MaxPReq + 1
      /\ r.n \in 1 .. MaxPReq + 1 /\ r.n # pRequested + 1
  BY <1>1, <1>2, MaxPReqAssumption DEF PeerIInv, PeerTypeOK
<1>4. QED
  BY <1>1, <1>2, <1>3, IdsDiffer DEF Taken

-------------------------------------------------------------------------------
LEMMA PeerInitially ==
    PeerInit => PeerIInv /\ TimesAreLast /\ PeerDelayFromOneExchange
<1> SUFFICES ASSUME PeerInit
             PROVE  PeerIInv /\ TimesAreLast /\ PeerDelayFromOneExchange
  OBVIOUS
<1>1. PeerTypeOK
  BY LinkAssumption, FirstSeqAssumption, MaxPReqAssumption
     DEF PeerInit, PeerTypeOK, State
<1>2. Id(1) = FirstSeq
  BY FirstSeqAssumption, MaxPReqAssumption DEF Id, SequenceId
<1>3. QED
  BY <1>1, <1>2 DEF PeerInit, PeerIInv, PeerNumbered, Copied, OnePending, PeerNotAhead,
     TimesAreLast, PeerDelayFromOneExchange, Measuring

LEMMA PeerInductive ==
    ASSUME Prompt PROVE PeerIInv /\ [PeerNext]_peerVars => PeerIInv'
<1> SUFFICES ASSUME PeerIInv, [PeerNext]_peerVars PROVE PeerIInv'
  OBVIOUS
<1>0. /\ pRequested \in 0 .. MaxPReq /\ answered \in 0 .. pRequested
      /\ pEntered \in 0 .. pRequested /\ pLooped \in 0 .. pRequested
      /\ pdelay_req_send_time \in 0 .. MaxPReq
      /\ responseTimes \in 0 .. MaxPReq
      /\ \A n \in 0 .. MaxPReq : n \in Nat
  BY MaxPReqAssumption DEF PeerIInv, PeerTypeOK
<1>1. ASSUME NEW state \in State, pdelayToState(state) \/ peerToState(state)
      PROVE  PeerIInv'
  <2>1. UNCHANGED <<sentPDelayReqSequenceId, pRequests, pRequested, pLooped,
                    answered, pdelay, twoStep, heard, PdelayReqHeader,
                    peerLooped, responses, followUps>>
    BY <1>1 DEF pdelayToState, peerToState, requester, results, peer
  <2>2. {pState', peerState'} \subseteq State /\ peerState' # "MASTER"
    BY <1>1 DEF PeerIInv, PeerTypeOK, pdelayToState, peerToState, peer
  <2>3. /\ pEntered' \in {pEntered, pRequested}
        /\ pdelay_req_send_time' \in {0, pdelay_req_send_time}
        /\ responseTimes' \in {0, responseTimes}
    BY <1>1 DEF pdelayToState, peerToState, requester, results
  <2>4. PeerTypeOK'
    <3>1. /\ pEntered' \in 0 .. pRequested
          /\ 0 \in 0 .. MaxPReq
      BY <1>0, <2>3, MaxPReqAssumption
    <3>2. {pdelay_req_send_time', responseTimes'} \subseteq 0 .. MaxPReq
      BY <1>0, <2>3, <3>1
    <3>3. {pEntered', pLooped'} \subseteq 0 .. pRequested'
      BY <1>0, <2>1, <3>1
    <3>4. QED
      BY <2>1, <2>2, <3>2, <3>3, Zenon DEF PeerIInv, PeerTypeOK
  <2>5. PeerNotAhead'
    BY <1>0, <2>1, <2>3 DEF PeerIInv, PeerNotAhead
  <2>6. QED
    BY <2>1, <2>4, <2>5 DEF PeerIInv, PeerNumbered, Copied, OnePending, Id
<1>2. CASE issuePDelayReq
  <2>1. pRequested' = pRequested + 1 /\ pRequested' \in 1 .. MaxPReq
        /\ UNCHANGED <<pState, pEntered, pLooped, pdelay_req_send_time,
                       answered, responseTimes, pdelay, twoStep, peerState,
                       heard, PdelayReqHeader, peerLooped, responses,
                       followUps>>
    BY <1>0, <1>2, MaxPReqAssumption DEF issuePDelayReq, results, peer
  <2>2. sentPDelayReqSequenceId = Id(pRequested')
        /\ sentPDelayReqSequenceId' = Id(pRequested' + 1)
        /\ sentPDelayReqSequenceId' \in SequenceId
        /\ Id(pRequested') \in SequenceId
    BY <1>2, <2>1, PeerIdsTyped DEF issuePDelayReq, PeerIInv, PeerNumbered
  <2>3. pRequests' = pRequests \cup
           {[sequenceId |-> Id(pRequested'), n |-> pRequested']}
    BY <1>2, <2>2 DEF issuePDelayReq
  <2>4. [sequenceId |-> Id(pRequested'), n |-> pRequested'] \in Request
    BY <2>1, <2>2 DEF Request
  <2>5. PeerTypeOK'
    BY <1>0, <2>1, <2>2, <2>3, <2>4 DEF PeerIInv, PeerTypeOK
  <2>6. PeerNumbered'
    <3>1. \A r \in pRequests' : r.n <= pRequested' /\ r.sequenceId = Id(r.n)
      BY <1>0, <2>1, <2>3 DEF PeerIInv, PeerTypeOK, Request, PeerNumbered
    <3>2. QED
      BY <2>2, <3>1 DEF PeerNumbered, Id
  <2>7. Copied' /\ OnePending'
    BY <2>1, <2>3 DEF PeerIInv, Copied, OnePending
  <2>8. PeerNotAhead'
    BY <1>0, <2>1 DEF PeerIInv, PeerNotAhead, PeerTypeOK, PeerTimes
  <2>9. QED
    BY <2>5, <2>6, <2>7, <2>8 DEF PeerIInv
<1>3. CASE OwnPDelayReq
  <2>0. UNCHANGED <<pState, pEntered, sentPDelayReqSequenceId, pRequests,
                    pRequested, answered, responseTimes, pdelay, twoStep,
                    peerState, heard, PdelayReqHeader, peerLooped,
                    responses, followUps>>
    BY <1>3 DEF OwnPDelayReq, results, peer
  <2>1. pLooped' \in 0 .. pRequested /\ pdelay_req_send_time' \in 0 .. MaxPReq
    <3>1. pLooped + 1 \in 0 .. pRequested /\ pLooped + 1 \in 0 .. MaxPReq
      <4>1. pLooped < pRequested
        BY <1>3 DEF OwnPDelayReq
      <4>2. QED
        BY <1>0, <4>1, MaxPReqAssumption
    <3>2. pLooped' = pLooped + 1
          /\ pdelay_req_send_time' \in {pLooped + 1, pdelay_req_send_time}
      BY <1>3 DEF OwnPDelayReq
    <3>3. QED
      BY <1>0, <3>1, <3>2
  <2>2. PeerTypeOK'
    BY <2>0, <2>1 DEF PeerIInv, PeerTypeOK
  <2>3. QED
    BY <2>0, <2>2 DEF PeerIInv, PeerNumbered, Copied, OnePending, PeerNotAhead, Id
<1>4. ASSUME NEW r \in pRequests, handlePDelayReq(r) PROVE PeerIInv'
  <2>1. r.n \in 0 .. pRequested /\ r \in Request
    BY <1>0 DEF PeerIInv, PeerTypeOK, Request, PeerNumbered
  <2>2. UNCHANGED <<pState, pEntered, sentPDelayReqSequenceId, pRequests,
                    pRequested, pLooped, pdelay_req_send_time, answered,
                    responseTimes, pdelay, twoStep, peerState, peerLooped,
                    followUps>>
    BY <1>4 DEF handlePDelayReq, requester, results
  <2>3. /\ heard' = r.n
        /\ \/ PdelayReqHeader' = r /\ responses' = responses \cup {r}
           \/ UNCHANGED <<PdelayReqHeader, responses>>
        /\ \A q \in responses : ~(q.n > peerLooped)
    BY <1>4 DEF handlePDelayReq, LoopbackPending
  <2>4. PeerTypeOK'
    BY <2>1, <2>2, <2>3 DEF PeerIInv, PeerTypeOK
  <2>5. Copied' /\ OnePending'
    BY <2>2, <2>3 DEF PeerIInv, Copied, OnePending
  <2>6. QED
    BY <2>2, <2>4, <2>5 DEF PeerIInv, PeerNumbered, PeerNotAhead, Id
<1>5. ASSUME NEW r \in responses, issuePDelayRespFollowUp(r) PROVE PeerIInv'
  <2>1. r \in pRequests /\ r = PdelayReqHeader /\ r.n \in 0 .. pRequested
        /\ r \in Request
    BY <1>0, <1>5, ResponseTaken, MaxPReqAssumption
       DEF PeerIInv, Copied, OnePending, issuePDelayRespFollowUp, PeerTypeOK
  <2>2. UNCHANGED <<pState, pEntered, sentPDelayReqSequenceId, pRequests,
                    pRequested, pLooped, pdelay_req_send_time, answered,
                    responseTimes, pdelay, twoStep, peerState, heard,
                    PdelayReqHeader, responses>>
    BY <1>5 DEF issuePDelayRespFollowUp, requester, results
  <2>3. peerLooped' = r.n /\ r.n > peerLooped
    BY <1>5 DEF issuePDelayRespFollowUp
  <2>4. [sequenceId |-> PdelayReqHeader.sequenceId, n |-> r.n] = r
    BY <2>1 DEF Request
  <2>5. followUps' \subseteq followUps \cup {r}
        /\ (\A f \in followUps' : twoStep)
    BY <1>5, <2>4 DEF issuePDelayRespFollowUp, PeerIInv, Copied
  <2>6. PeerTypeOK'
    BY <2>1, <2>2, <2>3, <2>5 DEF PeerIInv, PeerTypeOK
  <2>7. Copied'
    BY <2>1, <2>2, <2>5 DEF PeerIInv, Copied
  <2>8. OnePending'
    <3>1. \A q \in responses : q.n \in Nat
      BY MaxPReqAssumption DEF PeerIInv, PeerTypeOK, Request
    <3>2. peerLooped \in Nat /\ r.n \in Nat
      BY <1>0, <2>1 DEF PeerIInv, PeerTypeOK
    <3>3. \A q \in responses : q.n > r.n => q.n > peerLooped
      BY <2>3, <3>1, <3>2
    <3>4. QED
      BY <2>2, <2>3, <3>3 DEF PeerIInv, OnePending
  <2>9. QED
    BY <2>2, <2>6, <2>7, <2>8 DEF PeerIInv, PeerNumbered, PeerNotAhead, Id
<1>6. ASSUME NEW r \in responses, handlePDelayResp(r) PROVE PeerIInv'
  <2>1. r.n \in 1 .. pRequested /\ r.n \in 1 .. MaxPReq /\ answered < r.n
    BY <1>0, <1>6, ResponseTaken DEF handlePDelayResp, Arrives
  <2>2. UNCHANGED <<pState, pEntered, sentPDelayReqSequenceId, pRequests,
                    pRequested, pLooped, pdelay_req_send_time, twoStep,
                    peerState, heard, PdelayReqHeader, peerLooped, responses,
                    followUps>>
    BY <1>6 DEF handlePDelayResp, requester, peer
  <2>3. /\ answered' = r.n
        /\ responseTimes' \in {r.n, responseTimes}
        /\ \/ pdelay' = pdelay
           \/ pdelay' = [send |-> pdelay_req_send_time, response |-> r.n,
                        followUp |-> 0, entered |-> pEntered]
    BY <1>6 DEF handlePDelayResp, updatePeerDelay
  <2>4. responseTimes' \in 0 .. MaxPReq
    BY <2>1, <2>3 DEF PeerIInv, PeerTypeOK
  <2>5. pdelay' \in PeerTimes \cup {NULL}
    BY <1>0, <2>1, <2>3, MaxPReqAssumption DEF PeerIInv, PeerTypeOK, PeerTimes
  <2>6. PeerTypeOK'
    BY <1>0, <2>1, <2>2, <2>3, <2>4, <2>5 DEF PeerIInv, PeerTypeOK
  <2>7. PeerNotAhead'
    BY <1>0, <2>1, <2>2, <2>3 DEF PeerIInv, PeerNotAhead, PeerTypeOK, PeerTimes
  <2>8. QED
    BY <2>2, <2>6, <2>7 DEF PeerIInv, PeerNumbered, Copied, OnePending, Id
<1>7. ASSUME NEW f \in followUps, handlePDelayRespFollowUp(f) PROVE PeerIInv'
  <2>1. f.n = pRequested /\ pRequested \in 1 .. MaxPReq
    BY <1>7, FollowUpTaken DEF handlePDelayRespFollowUp
  <2>2. UNCHANGED <<pState, pEntered, sentPDelayReqSequenceId, pRequests,
                    pRequested, pLooped, pdelay_req_send_time, answered,
                    responseTimes, twoStep, peerState, heard,
                    PdelayReqHeader, peerLooped, responses, followUps>>
    BY <1>7 DEF handlePDelayRespFollowUp, requester, peer
  <2>3. pdelay' = [send |-> pdelay_req_send_time, response |-> responseTimes,
                  followUp |-> f.n, entered |-> pEntered]
    BY <1>7 DEF handlePDelayRespFollowUp, updatePeerDelay
  <2>4. pdelay' \in PeerTimes
    BY <1>0, <2>1, <2>3, MaxPReqAssumption DEF PeerIInv, PeerTypeOK, PeerTimes
  <2>5. PeerTypeOK'
    BY <2>2, <2>4 DEF PeerIInv, PeerTypeOK
  <2>6. PeerNotAhead'
    BY <1>0, <2>1, <2>2, <2>3 DEF PeerIInv, PeerNotAhead
  <2>7. QED
    BY <2>2, <2>5, <2>6 DEF PeerIInv, PeerNumbered, Copied, OnePending, Id
<1>8. CASE UNCHANGED peerVars
  BY <1>8 DEF peerVars, requester, results, peer, PeerIInv, PeerTypeOK, PeerNumbered, Copied,
     OnePending, PeerNotAhead, Id
<1>9. QED
  BY <1>1, <1>2, <1>3, <1>4, <1>5, <1>6, <1>7, <1>8 DEF PeerNext

THEOREM PeerInductiveInvariant == ASSUME Prompt PROVE PeerSpec => []PeerIInv
<1>1. PeerInit => PeerIInv
  BY PeerInitially
<1>2. QED
  BY <1>1, PeerInductive, PTL DEF PeerSpec

(* Every variable of the peer delay exchange keeps its type, the sequence    *)
(* ids their width.                                                          *)
THEOREM PeerTypeCorrect == ASSUME Prompt PROVE PeerSpec => []PeerTypeOK
<1>1. PeerIInv => PeerTypeOK
  BY DEF PeerIInv
<1>2. QED
  BY <1>1, PeerInductiveInvariant, PTL

-------------------------------------------------------------------------------
LEMMA TimesInductive ==
    PeerIInv /\ TimesAreLast /\ [PeerNext]_peerVars => TimesAreLast'
<1> SUFFICES ASSUME PeerIInv, TimesAreLast, [PeerNext]_peerVars
             PROVE  TimesAreLast'
  OBVIOUS
<1>0. /\ pRequested \in Nat /\ answered \in 0 .. pRequested
      /\ pEntered \in 0 .. pRequested /\ pLooped \in 0 .. pRequested
  BY MaxPReqAssumption DEF PeerIInv, PeerTypeOK
<1>1. ASSUME NEW state \in State, pdelayToState(state)
      PROVE  TimesAreLast'
  <2>1. UNCHANGED <<pRequested, pLooped, answered>> /\ pState' = state
        /\ \/ pEntered' = pRequested
           \/ pEntered' = pEntered /\ pState \in Measuring
              /\ UNCHANGED <<pdelay_req_send_time, responseTimes>>
    BY <1>1 DEF pdelayToState, Measuring
  <2>2. CASE pEntered' = pRequested
    BY <1>0, <2>1, <2>2 DEF TimesAreLast
  <2>3. QED
    BY <2>1, <2>2 DEF TimesAreLast
<1>2. CASE OwnPDelayReq
  BY <1>2 DEF OwnPDelayReq, TimesAreLast, results, Measuring, Answering
<1>3. ASSUME NEW r \in responses, handlePDelayResp(r)
      PROVE  TimesAreLast'
  BY <1>3, ResponseTaken DEF handlePDelayResp, TimesAreLast, requester
<1>4. CASE UNCHANGED <<pState, pLooped, pEntered, pdelay_req_send_time,
                       answered, responseTimes>>
  BY <1>4 DEF TimesAreLast
<1>5. QED
  BY <1>1, <1>2, <1>3, <1>4 DEF PeerNext, peerToState, issuePDelayReq,
     handlePDelayReq, issuePDelayRespFollowUp, handlePDelayRespFollowUp,
     requester, results, peerVars

LEMMA PeerDelayInductive ==
    ASSUME InOrder
    PROVE  PeerIInv /\ TimesAreLast /\ PeerDelayFromOneExchange
           /\ [PeerNext]_peerVars
              => PeerDelayFromOneExchange'
<1> SUFFICES ASSUME PeerIInv, TimesAreLast, PeerDelayFromOneExchange, [PeerNext]_peerVars
             PROVE  PeerDelayFromOneExchange'
  OBVIOUS
<1>0. /\ pRequested \in Nat /\ answered \in 0 .. pRequested
      /\ pEntered \in 0 .. pRequested /\ pLooped \in 0 .. pRequested
  BY MaxPReqAssumption DEF PeerIInv, PeerTypeOK
<1>1. ASSUME NEW r \in responses, handlePDelayResp(r)
      PROVE  PeerDelayFromOneExchange'
  <2>1. twoStep' = twoStep /\ (twoStep => pdelay' = pdelay)
    BY <1>1 DEF handlePDelayResp, peer
  <2>2. QED
    BY <2>1 DEF PeerDelayFromOneExchange
<1>2. ASSUME NEW f \in followUps, handlePDelayRespFollowUp(f)
      PROVE  PeerDelayFromOneExchange'
  <2>1. f.n = pRequested
    BY <1>2, FollowUpTaken DEF handlePDelayRespFollowUp
  <2>2. pLooped = pRequested /\ answered = pRequested
        /\ pState \in Measuring
    BY <1>0, <1>2, <2>1 DEF handlePDelayRespFollowUp, MayReadPeerGeneral
  <2>3. pRequested > pEntered => pdelay_req_send_time = pRequested
                               /\ responseTimes = pRequested
    BY <2>2 DEF TimesAreLast
  <2>4. pdelay' = [send |-> pdelay_req_send_time, response |-> responseTimes,
                  followUp |-> f.n, entered |-> pEntered]
    BY <1>2 DEF handlePDelayRespFollowUp, updatePeerDelay
  <2>5. QED
    BY <2>1, <2>3, <2>4 DEF PeerDelayFromOneExchange
<1>3. CASE UNCHANGED <<pdelay, twoStep>>
  BY <1>3 DEF PeerDelayFromOneExchange
<1>4. QED
  BY <1>1, <1>2, <1>3 DEF PeerNext, pdelayToState, peerToState, issuePDelayReq,
     OwnPDelayReq, handlePDelayReq, issuePDelayRespFollowUp, results, peer, peerVars

(* With a prompt two step peer and a link that keeps PdelayResps in order    *)
(* the four times of a peer delay are of one exchange, unless it began       *)
(* before the port could measure.                                            *)
THEOREM PeerDelayIsOfOneExchange ==
    ASSUME Prompt, InOrder PROVE PeerSpec => []PeerDelayFromOneExchange
<1>1. PeerInit => PeerIInv /\ TimesAreLast /\ PeerDelayFromOneExchange
  BY PeerInitially
<1>2. QED
  BY <1>1, PeerInductive, TimesInductive, PeerDelayInductive, PTL DEF PeerSpec

-------------------------------------------------------------------------------
(* Every step of the exchange is a step of Measurement or none.              *)
PeerDeparted == [m \in {"peer"} |-> pRequested]
PeerMeasured == [m \in {"peer"} |-> LastMeasured]

LEMMA PeerStepMeasures ==
    PeerIInv /\ [PeerNext]_peerVars => [PeerPromise!Next]_<<PeerDeparted, PeerMeasured>>
<1> SUFFICES ASSUME PeerIInv, [PeerNext]_peerVars
             PROVE  [PeerPromise!Next]_<<PeerDeparted, PeerMeasured>>
  OBVIOUS
<1>0. /\ pRequested \in Nat /\ answered \in 0 .. pRequested
      /\ pEntered \in 0 .. pRequested
      /\ pdelay_req_send_time \in 0 .. MaxPReq
      /\ responseTimes \in 0 .. MaxPReq
  BY MaxPReqAssumption DEF PeerIInv, PeerTypeOK
<1>1. LastMeasured \in 0 .. pRequested
      /\ (~twoStep => LastMeasured <= answered)
  BY <1>0, MaxPReqAssumption
     DEF PeerIInv, PeerTypeOK, PeerTimes, PeerNotAhead, LastMeasured
<1>2. CASE UNCHANGED <<pRequested, pdelay, twoStep>>
  BY <1>2 DEF PeerDeparted, PeerMeasured, LastMeasured
<1>3. CASE issuePDelayReq
  <2>1. pRequested' = pRequested + 1 /\ LastMeasured' = LastMeasured
    BY <1>3 DEF issuePDelayReq, results, peer, LastMeasured
  <2>2. PeerPromise!Depart("peer")
    BY <2>1 DEF PeerPromise!Depart, PeerDeparted, PeerMeasured
  <2>3. QED
    BY <2>2 DEF PeerPromise!Next, PeerDeparted, PeerMeasured
<1>4. ASSUME pRequested' = pRequested,
             LastMeasured' \in LastMeasured + 1 .. pRequested
      PROVE  [PeerPromise!Next]_<<PeerDeparted, PeerMeasured>>
  <2>1. PeerPromise!Measure("peer")
    BY <1>4 DEF PeerPromise!Measure, PeerDeparted, PeerMeasured
  <2>2. QED
    BY <2>1 DEF PeerPromise!Next, PeerDeparted, PeerMeasured
<1>5. ASSUME NEW r \in responses, handlePDelayResp(r)
      PROVE  [PeerPromise!Next]_<<PeerDeparted, PeerMeasured>>
  <2>1. r.n \in 1 .. pRequested /\ r.n \in 1 .. MaxPReq /\ answered < r.n
    BY <1>0, <1>5, ResponseTaken DEF handlePDelayResp, Arrives
  <2>2. pRequested' = pRequested /\ twoStep' = twoStep
    BY <1>5 DEF handlePDelayResp, requester, peer
  <2>3. \/ pdelay' = pdelay
        \/ /\ ~twoStep
           /\ pdelay' = [send |-> pdelay_req_send_time, response |-> r.n,
                        followUp |-> 0, entered |-> pEntered]
    BY <1>5 DEF handlePDelayResp, updatePeerDelay
  <2>4. CASE pdelay' # pdelay
    <3>1. pdelay' \in PeerTimes
      BY <1>0, <2>1, <2>3, <2>4, MaxPReqAssumption DEF PeerIInv, PeerTypeOK, PeerTimes
    <3>2. LastMeasured' = r.n
      BY <2>2, <2>3, <2>4, <3>1, NotMeasuredAssumption DEF LastMeasured
    <3>3. LastMeasured' \in LastMeasured + 1 .. pRequested
      BY <1>0, <1>1, <2>1, <2>3, <2>4, <3>2
    <3>4. QED
      BY <1>4, <2>2, <3>3
  <2>5. QED
    BY <1>2, <2>2, <2>4
<1>6. ASSUME NEW f \in followUps, handlePDelayRespFollowUp(f)
      PROVE  [PeerPromise!Next]_<<PeerDeparted, PeerMeasured>>
  <2>1. f.n = pRequested /\ pRequested \in 1 .. MaxPReq
    BY <1>6, FollowUpTaken DEF handlePDelayRespFollowUp
  <2>2. pRequested' = pRequested /\ twoStep' = twoStep
    BY <1>6 DEF handlePDelayRespFollowUp, requester, peer
  <2>3. pdelay' = [send |-> pdelay_req_send_time, response |-> responseTimes,
                  followUp |-> f.n, entered |-> pEntered]
    BY <1>6 DEF handlePDelayRespFollowUp, updatePeerDelay
  <2>4. pdelay' \in PeerTimes
    BY <1>0, <2>1, <2>3, MaxPReqAssumption DEF PeerIInv, PeerTypeOK, PeerTimes
  <2>5. twoStep
    BY DEF PeerIInv, Copied
  <2>6. LastMeasured' = pRequested
    BY <2>1, <2>2, <2>3, <2>4, <2>5, NotMeasuredAssumption DEF LastMeasured
  <2>7. CASE LastMeasured = pRequested
    BY <2>2, <2>6, <2>7 DEF PeerDeparted, PeerMeasured
  <2>8. CASE LastMeasured # pRequested
    <3>1. LastMeasured' \in LastMeasured + 1 .. pRequested
      BY <1>0, <1>1, <2>6, <2>8
    <3>2. QED
      BY <1>4, <2>2, <3>1
  <2>9. QED
    BY <2>7, <2>8
<1>7. QED
  BY <1>2, <1>3, <1>5, <1>6 DEF PeerNext, pdelayToState, peerToState, OwnPDelayReq,
     handlePDelayReq, issuePDelayRespFollowUp, requester, results, peer, peerVars

(* The exchange implements Measurement.                                      *)
THEOREM PeerImplementsMeasurement ==
    ASSUME Prompt PROVE PeerSpec => PeerMeasuresInOrder
<1>1. PeerInit => PeerPromise!Init
  BY DEF PeerInit, PeerPromise!Init, LastMeasured
<1>2. QED
  BY <1>1, PeerStepMeasures, PeerInductiveInvariant, PTL
     DEF PeerSpec, PeerMeasuresInOrder, PeerPromise!Spec, PeerDeparted, PeerMeasured

(* Of a port that has both mechanisms each theorem of DelayProofs and those  *)
(* above hold as they stand: its behaviours are behaviours of the exchange   *)
(* of either mechanism, the other one being at rest.                         *)
THEOREM MechanismRunsEither == MechanismSpec => Spec /\ PeerSpec
<1>1. MechanismInit => Init /\ PeerInit
  BY DEF MechanismInit
<1>2. [MechanismNext]_<<E2E_mode, vars, peerVars>> => [Next]_vars
  BY DEF MechanismNext
<1>3. [MechanismNext]_<<E2E_mode, vars, peerVars>> => [PeerNext]_peerVars
  BY DEF MechanismNext
<1>4. QED
  BY <1>1, <1>2, <1>3, PTL DEF MechanismSpec, Spec, PeerSpec
================================================================================
