------------------------------- MODULE SyncExchange -------------------------------
(*****************************************************************************)
(* The two step Sync exchange of protocol.c between master ports and one     *)
(* slave: a master learns the departure time of its Sync from the looped     *)
(* back copy of it (software time stamps) or from the error queue of the     *)
(* socket by way of NetPath.tx_stack (hardware time stamps), and sends it in *)
(* a FollowUp; the slave pairs it with the arrival time of the Sync.         *)
(*                                                                           *)
(* Times are told apart by the Sync they belong to: the t-th Sync of a       *)
(* master departs at t. Syncs reach the slave in order or not at all; a      *)
(* FollowUp may be lost, late, overtaken and duplicated. The port states and *)
(* the parent change as Port.tla lets them, here at any time.                *)
(*****************************************************************************)
EXTENDS Integers, Sequences

CONSTANTS
    Masters,         \* ports the slave may follow
    Kinds,           \* what they may be
    Prompt,          \* a looped back Sync is read before the next one is sent
    MaxSequenceId,   \* of a UInteger16: 65535
    FirstSeq,        \* sequence id of each master's first Sync
    MaxSync,         \* bound: Syncs of each master
    NULL             \* no parent, no time recorded

(* Software time stamps over UDP, hardware time stamps over raw sockets, or  *)
(* a one step clock, which is another program.                               *)
Kind == { "software", "hardware", "one step" }

SequenceId == 0 .. MaxSequenceId

ASSUME MastersAssumption ==
    NULL \notin Masters /\ Kinds \subseteq [Masters -> Kind]
ASSUME PromptAssumption == Prompt \in BOOLEAN
ASSUME FirstSeqAssumption == FirstSeq \in [Masters -> SequenceId]
ASSUME MaxSyncAssumption ==
    MaxSequenceId \in Nat /\ MaxSync \in 1 .. MaxSequenceId

(* What updateOffset() may be given.                                         *)
Times == [origin : 1 .. MaxSync, received : 1 .. MaxSync]
ASSUME NoTimesAssumption == NULL \notin Times

VARIABLES
    kind,                \* of each master
    pc,                  \* "issue", "handle" or "exited", of each master
    portState,           \* of each master
    sentSyncSequenceId,
    departed,            \* Syncs sent
    tx_stack,            \* stamped packets to be handled as if received
    looped,              \* looped back Syncs read or lost, of those departed
    syncs,               \* Syncs on the network
    followUps,           \* FollowUps on the network
    parent,              \* the slave: its parent, NULL when not in SLAVE
    heard,               \* the last Sync of each master the slave has read
    waitingForFollow,
    recvSyncSequenceId,
    sync_receive_time,   \* the Sync that arrived then
    offset,              \* times last given to updateOffset(), by parent and
                         \* by the master whose Sync had arrived
    updates              \* how often it was called with a Sync of the parent

master == <<kind, pc, portState, sentSyncSequenceId, departed, tx_stack,
            looped>>
slave  == <<parent, heard, waitingForFollow, recvSyncSequenceId,
            sync_receive_time, offset, updates>>
vars   == <<master, syncs, followUps, slave>>

TX_STACK_SIZE == 2

Init ==
    /\ kind \in Kinds
    /\ pc = [m \in Masters |-> "issue"]
    /\ portState = [m \in Masters |-> "LISTENING"]
    /\ sentSyncSequenceId = FirstSeq
    /\ departed = [m \in Masters |-> 0]
    /\ tx_stack = [m \in Masters |-> <<>>]
    /\ looped = [m \in Masters |-> 0]
    /\ syncs = {} /\ followUps = {}
    /\ parent = NULL
    /\ heard = [m \in Masters |-> 0]
    /\ waitingForFollow = FALSE
    /\ recvSyncSequenceId = 0
    /\ sync_receive_time = NULL
    /\ offset = [m \in Masters |-> [r \in Masters |-> NULL]]
    /\ updates = [m \in Masters |-> 0]

-------------------------------------------------------------------------------
(* A master                                                                  *)

(* The state decision, timeouts and faults of Port.tla. PASSIVE is as        *)
(* LISTENING, FAULTY as SLAVE to handleSync().                               *)
toState(m, state) ==
    /\ pc[m] = "issue"
    /\ portState' = [portState EXCEPT ![m] = state]
    /\ UNCHANGED <<kind, pc, sentSyncSequenceId, departed, tx_stack, looped,
                   syncs, followUps, slave>>

(* doInit() after a fault opens new sockets; the stack is kept.              *)
netInit(m) ==
    /\ pc[m] = "issue"
    /\ portState' = [portState EXCEPT ![m] = "LISTENING"]
    /\ looped' = [looped EXCEPT ![m] = departed[m]]
    /\ UNCHANGED <<kind, pc, sentSyncSequenceId, departed, tx_stack,
                   syncs, followUps, slave>>

(* txTimestamp() ends the daemon when the stack is full.                     *)
txTimestamp(m, packet, next) ==
    IF Len(tx_stack[m]) = TX_STACK_SIZE
    THEN pc' = [pc EXCEPT ![m] = "exited"] /\ UNCHANGED tx_stack
    ELSE /\ tx_stack' = [tx_stack EXCEPT ![m] = Append(@, packet)]
         /\ pc' = [pc EXCEPT ![m] = next]

(* Mutant: the id is wider than the 16 bits of the message.                  *)
NextSequenceIdWide(n) == n + 1

NextSequenceId(n) == IF n = MaxSequenceId THEN 0 ELSE n + 1
PrevSequenceId(n) == IF n = 0 THEN MaxSequenceId ELSE n - 1

TwoStep(m) == kind[m] # "one step"

issueSync(m) ==
    /\ pc[m] = "issue" /\ portState[m] = "MASTER"
    /\ departed[m] < MaxSync
    /\ Prompt => looped[m] = departed[m]
    /\ departed' = [departed EXCEPT ![m] = @ + 1]
    /\ syncs' = syncs \cup {[src |-> m, sequenceId |-> sentSyncSequenceId[m],
                             t |-> departed'[m],
                             twoStep |-> TwoStep(m)]}
    /\ sentSyncSequenceId' =
          [sentSyncSequenceId EXCEPT ![m] = NextSequenceId(@)]
    /\ IF kind[m] = "hardware"
       THEN /\ txTimestamp(m, [type |-> "SYNC", t |-> departed'[m]], "handle")
            /\ looped' = [looped EXCEPT ![m] = departed'[m]]
       ELSE pc' = [pc EXCEPT ![m] = "handle"] /\ UNCHANGED <<tx_stack, looped>>
    /\ UNCHANGED <<kind, portState, followUps, slave>>

(* The Sync timer has not expired, or the port is no master.                 *)
NoSync(m) ==
    /\ pc[m] = "issue"
    /\ pc' = [pc EXCEPT ![m] = "handle"]
    /\ UNCHANGED <<kind, portState, sentSyncSequenceId, departed, tx_stack,
                   looped, syncs, followUps, slave>>

(* Mutant: the number of the next Sync.                                      *)
issueFollowupNext(m, t) ==
    followUps' = followUps \cup
        {[src |-> m, sequenceId |-> sentSyncSequenceId[m], t |-> t]}

(* "sentSyncSequenceId has already been incremented in issueSync".           *)
issueFollowup(m, t) ==
    followUps' = followUps \cup
        {[src |-> m, sequenceId |-> PrevSequenceId(sentSyncSequenceId[m]),
          t |-> t]}

(* handleSync() with isFromSelf.                                             *)
OwnSync(m, t) ==
    IF portState[m] = "SLAVE" \/ ~TwoStep(m) THEN UNCHANGED followUps
    ELSE issueFollowup(m, t)

(* netRecvRaw() and netRecvEvent() take the top of the stack before they     *)
(* look at a socket; netSelect() does not wait when there is one. The        *)
(* FollowUp of a PdelayResp is the concern of PeerDelay.tla.                 *)
PopStack(m) ==
    /\ pc[m] = "handle" /\ tx_stack[m] # <<>>
    /\ LET n == Len(tx_stack[m])
           top == tx_stack[m][n]
       IN  /\ tx_stack' = [tx_stack EXCEPT ![m] = SubSeq(@, 1, n - 1)]
           /\ IF top.type = "SYNC"
              THEN OwnSync(m, top.t) ELSE UNCHANGED followUps
    /\ pc' = [pc EXCEPT ![m] = "issue"]
    /\ UNCHANGED <<kind, portState, sentSyncSequenceId, departed, looped,
                   syncs, slave>>

(* The multicast loopback of a Sync; those before it were lost.              *)
ReadLoopback(m) ==
    /\ pc[m] = "handle" /\ tx_stack[m] = <<>>
    /\ \E t \in looped[m] + 1 .. departed[m] :
          /\ looped' = [looped EXCEPT ![m] = t]
          /\ OwnSync(m, t)
    /\ pc' = [pc EXCEPT ![m] = "issue"]
    /\ UNCHANGED <<kind, portState, sentSyncSequenceId, departed, tx_stack,
                   syncs, slave>>

(* The receive buffer of the event socket was full: no loopback comes.       *)
LoopbackLost(m) ==
    /\ looped[m] < departed[m]
    /\ looped' = [looped EXCEPT ![m] = departed[m]]
    /\ UNCHANGED <<kind, pc, portState, sentSyncSequenceId, departed, tx_stack,
                   syncs, followUps, slave>>

(* Mutant: the socket is read before the stack.                              *)
handlePDelayReqBeforeStack(m) ==
    /\ pc[m] = "handle"
    /\ kind[m] = "hardware"
    /\ txTimestamp(m, [type |-> "PDELAY_RESP", t |-> 0], "issue")
    /\ UNCHANGED <<kind, portState, sentSyncSequenceId, departed, looped,
                   syncs, followUps, slave>>

(* The PdelayResp sent in answer to a PdelayReq is stamped as well.          *)
handlePDelayReq(m) ==
    /\ pc[m] = "handle" /\ tx_stack[m] = <<>>
    /\ kind[m] = "hardware"
    /\ txTimestamp(m, [type |-> "PDELAY_RESP", t |-> 0], "issue")
    /\ UNCHANGED <<kind, portState, sentSyncSequenceId, departed, looped,
                   syncs, followUps, slave>>

(* No message, or one that concerns other components.                        *)
HandleOther(m) ==
    /\ pc[m] = "handle" /\ tx_stack[m] = <<>>
    /\ pc' = [pc EXCEPT ![m] = "issue"]
    /\ UNCHANGED <<kind, portState, sentSyncSequenceId, departed, tx_stack,
                   looped, syncs, followUps, slave>>

-------------------------------------------------------------------------------
(* The slave                                                                 *)

(* s1() or a change of state: turning SLAVE ends the wait for a FollowUp, a  *)
(* new parent of a SLAVE does not.                                           *)
NewParent(p) ==
    /\ parent' = p
    /\ waitingForFollow' = (waitingForFollow /\ (parent = NULL => p = NULL))
    /\ UNCHANGED <<master, syncs, followUps, heard, recvSyncSequenceId,
                   sync_receive_time, offset, updates>>

updateOffset(m, origin, received) ==
    /\ offset' = [offset EXCEPT ![m][received.src] =
                     [origin |-> origin, received |-> received.t]]
    /\ updates' = IF m = received.src THEN [updates EXCEPT ![m] = @ + 1]
                  ELSE updates

(* Mutant: the id of the last Sync is kept.                                  *)
handleSyncKeepsId(s) ==
    /\ s.t > heard[s.src]
    /\ heard' = [heard EXCEPT ![s.src] = s.t]
    /\ IF s.src # parent
       THEN UNCHANGED <<waitingForFollow, sync_receive_time, offset, updates>>
       ELSE /\ sync_receive_time' = [src |-> s.src, t |-> s.t]
            /\ waitingForFollow' = s.twoStep
            /\ IF s.twoStep THEN UNCHANGED <<offset, updates>>
               ELSE updateOffset(s.src, s.t, sync_receive_time')
    /\ UNCHANGED <<master, syncs, followUps, parent, recvSyncSequenceId>>

(* Only the Syncs of the parent are recorded.                                *)
handleSync(s) ==
    /\ s.t > heard[s.src]
    /\ heard' = [heard EXCEPT ![s.src] = s.t]
    /\ IF s.src # parent
       THEN UNCHANGED <<waitingForFollow, recvSyncSequenceId,
                        sync_receive_time, offset, updates>>
       ELSE /\ sync_receive_time' = [src |-> s.src, t |-> s.t]
            /\ waitingForFollow' = s.twoStep
            /\ IF s.twoStep
               THEN /\ recvSyncSequenceId' = s.sequenceId
                    /\ UNCHANGED <<offset, updates>>
               ELSE /\ updateOffset(s.src, s.t, sync_receive_time')
                    /\ UNCHANGED recvSyncSequenceId
    /\ UNCHANGED <<master, syncs, followUps, parent>>

(* Mutant: the slave goes on waiting.                                        *)
handleFollowUpWaitsOn(f) ==
    /\ f.src = parent
    /\ waitingForFollow
    /\ recvSyncSequenceId = f.sequenceId
    /\ updateOffset(f.src, f.t, sync_receive_time)
    /\ UNCHANGED <<master, syncs, followUps, parent, heard, waitingForFollow,
                   recvSyncSequenceId, sync_receive_time>>

(* Mutant: the sequence id is not compared.                                  *)
handleFollowUpAnySequence(f) ==
    /\ f.src = parent
    /\ waitingForFollow
    /\ waitingForFollow' = FALSE
    /\ updateOffset(f.src, f.t, sync_receive_time)
    /\ UNCHANGED <<master, syncs, followUps, parent, heard, recvSyncSequenceId,
                   sync_receive_time>>

(* A FollowUp that is not taken changes nothing.                             *)
handleFollowUp(f) ==
    /\ f.src = parent
    /\ waitingForFollow
    /\ recvSyncSequenceId = f.sequenceId
    /\ waitingForFollow' = FALSE
    /\ updateOffset(f.src, f.t, sync_receive_time)
    /\ UNCHANGED <<master, syncs, followUps, parent, heard, recvSyncSequenceId,
                   sync_receive_time>>

-------------------------------------------------------------------------------
MasterStep(m) ==
    \/ \E state \in {"MASTER", "LISTENING", "SLAVE"} : toState(m, state)
    \/ netInit(m) \/ issueSync(m) \/ NoSync(m)
    \/ PopStack(m) \/ ReadLoopback(m) \/ LoopbackLost(m)
    \/ handlePDelayReq(m) \/ HandleOther(m)

SlaveStep ==
    \/ \E p \in Masters \cup {NULL} : NewParent(p)
    \/ \E s \in syncs : handleSync(s)
    \/ \E f \in followUps : handleFollowUp(f)

Next == (\E m \in Masters : MasterStep(m)) \/ SlaveStep
Spec == Init /\ [][Next]_vars

-------------------------------------------------------------------------------
(* Properties                                                                *)

Packet  == [type : {"SYNC", "PDELAY_RESP"}, t : 0 .. MaxSync]
Arrival == [src : Masters, t : 1 .. MaxSync]

MasterTypeOK ==
    /\ kind \in Kinds
    /\ pc \in [Masters -> {"issue", "handle", "exited"}]
    /\ portState \in [Masters -> {"MASTER", "LISTENING", "SLAVE"}]
    /\ sentSyncSequenceId \in [Masters -> SequenceId]
    /\ departed \in [Masters -> 0 .. MaxSync]
    /\ tx_stack \in [Masters -> Seq(Packet)]
    /\ looped \in [Masters -> 0 .. MaxSync]

NetworkTypeOK ==
    /\ syncs \subseteq [src : Masters, sequenceId : SequenceId,
                        t : 1 .. MaxSync, twoStep : BOOLEAN]
    /\ followUps \subseteq [src : Masters, sequenceId : SequenceId,
                            t : 1 .. MaxSync]

SlaveTypeOK ==
    /\ parent \in Masters \cup {NULL}
    /\ heard \in [Masters -> 0 .. MaxSync]
    /\ waitingForFollow \in BOOLEAN
    /\ recvSyncSequenceId \in SequenceId
    /\ sync_receive_time \in Arrival \cup {NULL}
    /\ offset \in [Masters -> [Masters -> Times \cup {NULL}]]
    /\ updates \in [Masters -> Nat]

TypeOK == MasterTypeOK /\ NetworkTypeOK /\ SlaveTypeOK

(* tx_stack has two places and a full one ends the daemon. It never is: all  *)
(* that is stamped is handled before the next packet is read.                *)
StackNeverOverflows == \A m \in Masters : pc[m] # "exited"

(* A FollowUp carries the departure time of the Sync it names: it is sent    *)
(* under the number issueSync() used last, for a time stamp that is found    *)
(* later and by another path. Needs Prompt, or hardware time stamps.         *)
FollowUpNamesItsSync ==
    \A f \in followUps : \E s \in syncs :
        s.src = f.src /\ s.sequenceId = f.sequenceId /\ s.t = f.t

(* While the parent stays, the offset is measured with the arrival and the   *)
(* departure of the same Sync, whatever is lost, late or duplicated. (After  *)
(* a change of parent waitingForFollow is still set, and the FollowUp of the *)
(* new parent may meet the Sync of the old one.)                             *)
OffsetFromOneSync ==
    \A m \in Masters :
        offset[m][m] # NULL => offset[m][m].origin = offset[m][m].received

(* A Sync is measured with once at most, also when its FollowUp is           *)
(* duplicated and the parent changes to and fro: the number of measurements  *)
(* never exceeds the number of Syncs up to the last one measured with.       *)
MeasuredOnce ==
    \A m \in Masters :
        IF offset[m][m] = NULL THEN updates[m] = 0
        ELSE updates[m] <= offset[m][m].origin

(* Measurements follow the order of departure.                               *)
measured == [m \in Masters |->
                IF offset[m][m] = NULL THEN 0 ELSE offset[m][m].origin]
Promise  == INSTANCE Measurement
MeasuresInOrder == Promise!Spec
================================================================================
