---------------------------------- MODULE Port ----------------------------------
(*****************************************************************************)
(* One port of the daemon: the engine of protocol.c (protocol, toState,      *)
(* doInit, doState, handle, handleAnnounce, addForeign) with the state       *)
(* decision of bmc.c and the timers of timer.c.                              *)
(*                                                                           *)
(* doState() is cut where a signal or a packet can change what the next      *)
(* statement sees: at each timerExpired(), at handle() and at each turn of   *)
(* the loop of bmc(). pc names the statement about to run. The other ports   *)
(* are the environment: whenever handle() reads, the announce of any of them *)
(* that has not fallen silent may be there.                                  *)
(*****************************************************************************)
EXTENDS Bmc, IntervalTimer

CONSTANTS
    SlaveOnly,         \* what -g may say
    E2E_mode,          \* end to end delay mechanism, else peer to peer
    EthernetMode,      \* raw 802.3 frames, else UDP
    MaxForeign,        \* rtOpts->max_foreign_records (-M)
    Own,               \* the data set the local clock announces
    Announce,          \* what other ports may announce
    Length,            \* seconds each timer is started with
    Errors,            \* sockets may fail, messages may be malformed
    InitMayFail,       \* netInit() may fail
    Punctual,          \* masters whose announces come every second, none lost
    MaxElapsed,        \* bound: SIGALRMs not yet accounted for
    NULL               \* a slot of the foreign table never written

ASSUME ModeAssumption ==
    /\ SlaveOnly \subseteq BOOLEAN
    /\ {E2E_mode, EthernetMode, Errors, InitMayFail} \subseteq BOOLEAN
ASSUME MaxForeignAssumption == MaxForeign \in Nat \ {0}
ASSUME OwnAssumption == Own \in AnnounceRecord /\ Own.portNumber = 0
ASSUME AnnounceAssumption ==
    /\ Announce \subseteq AnnounceRecord
    /\ \A m \in Announce : m.clockIdentity # Own.clockIdentity
    /\ NULL \notin AnnounceRecord
    /\ Punctual \subseteq Announce
ASSUME LengthAssumption == Length \in [Timer -> UInteger16]
ASSUME MaxElapsedAssumption == MaxElapsed \in Nat \ {0}

VARIABLES
    slaveOnly,            \* rtOpts->slaveOnly
    pc,
    portState,
    parentDS,             \* parent data set and stepsRemoved
    foreign,              \* ForeignMasterRecord table
    number_foreign_records,
    foreign_record_i,     \* slot the next new master goes to
    foreign_record_best,  \* slot bmc() chose last
    record_update,        \* an announce waits for a state decision
    itimer,
    elapsed,              \* seconds counted by catch_alarm()
    message_activity,
    scan, best,           \* locals of bmc(): i and best
    alive,                \* environment: masters that still announce
    due                   \* environment: announces to come before the next second

dataSets == <<parentDS, record_update>>
table    == <<foreign, number_foreign_records, foreign_record_i>>
timers   == <<itimer, elapsed>>
locals   == <<foreign_record_best, scan, best>>
world    == <<slaveOnly, alive, due>>
vars     == <<pc, portState, dataSets, table, timers, message_activity, locals,
              world>>

PortState == { "INITIALIZING", "FAULTY", "LISTENING", "MASTER", "PASSIVE", "SLAVE" }
Step == { "loop", "bmc", "fault", "handle", "receipt", "delay",
          "sync", "announce", "pdelay", "mhandle", "demote", "stopped" }
Slot == 0 .. MaxForeign - 1

-------------------------------------------------------------------------------
(* toState()                                                                 *)

(* The timers a state starts when it is entered and stops when it is left.   *)
DelayTimer == IF E2E_mode THEN "DELAYREQ" ELSE "PDELAYREQ"
(* Mutants: LISTENING starts no receipt timer; MASTER no sync timer.         *)
TimersOfDeafListening(state) ==
    IF state = "MASTER" THEN {"SYNC", "ANNOUNCE", "PDELAYREQ"}
    ELSE IF state = "PASSIVE" THEN {"ANNOUNCE_RECEIPT", "PDELAYREQ"}
    ELSE IF state = "SLAVE" THEN {"ANNOUNCE_RECEIPT", DelayTimer}
    ELSE {}
TimersOfMuteMaster(state) ==
    IF state = "MASTER" THEN {"ANNOUNCE", "PDELAYREQ"}
    ELSE IF state = "LISTENING" THEN {"ANNOUNCE_RECEIPT"}
    ELSE IF state = "PASSIVE" THEN {"ANNOUNCE_RECEIPT", "PDELAYREQ"}
    ELSE IF state = "SLAVE" THEN {"ANNOUNCE_RECEIPT", DelayTimer}
    ELSE {}

TimersOf(state) ==
    IF state = "MASTER" THEN {"SYNC", "ANNOUNCE", "PDELAYREQ"}
    ELSE IF state = "LISTENING" THEN {"ANNOUNCE_RECEIPT"}
    ELSE IF state = "PASSIVE" THEN {"ANNOUNCE_RECEIPT", "PDELAYREQ"}
    ELSE IF state = "SLAVE" THEN {"ANNOUNCE_RECEIPT", DelayTimer}
    ELSE {}

(* Mutant: the state left keeps its timers.                                  *)
toStateKeepsTimers(state, tm) ==
    /\ portState' = state
    /\ message_activity' = TRUE
    /\ itimer' = TimerStart(TimersOf(state), Length, tm)

(* Move to state, the timer array being tm when toState() is called.         *)
toState(state, tm) ==
    /\ portState' = state
    /\ message_activity' = TRUE
    /\ itimer' = TimerStart(TimersOf(state), Length,
                            TimerStop(TimersOf(portState), tm))

(* toState() unless the port is in that state already.                       *)
toOtherState(state, tm) ==
    IF state = portState
    THEN itimer' = tm /\ UNCHANGED <<portState, message_activity>>
    ELSE toState(state, tm)

(* Where the second switch of doState() goes.                                *)
Branch(state) ==
    IF state = "FAULTY" THEN "fault"
    ELSE IF state = "MASTER" THEN "sync"
    ELSE "handle"

-------------------------------------------------------------------------------
(* protocol() and doInit()                                                   *)

Init ==
    /\ slaveOnly \in SlaveOnly
    /\ pc = "loop"
    /\ portState = "INITIALIZING"
    /\ parentDS = NULL
    /\ foreign = [j \in Slot |-> NULL]
    /\ number_foreign_records = 0
    /\ foreign_record_i = 0
    /\ foreign_record_best = 0
    /\ record_update = FALSE
    /\ itimer = Zeroed
    /\ elapsed = 0
    /\ message_activity = TRUE
    /\ scan = 0 /\ best = 0
    /\ alive = Announce /\ due = {}

(* initData() empties the table by its count only: the slots, the insertion  *)
(* index, the best index and record_update survive a fault.                  *)
doInit ==
    /\ pc = "loop" /\ portState = "INITIALIZING"
    /\ number_foreign_records' = 0
    /\ elapsed' = 0
    /\ parentDS' = Own
    /\ toState("LISTENING", itimer)
    /\ UNCHANGED <<pc, foreign, foreign_record_i, record_update, locals, world>>

(* netInit() fails and the daemon ends.                                      *)
doInitFails ==
    /\ InitMayFail
    /\ pc = "loop" /\ portState = "INITIALIZING"
    /\ toState("FAULTY", itimer)
    /\ pc' = "stopped"
    /\ UNCHANGED <<dataSets, table, elapsed, locals, world>>

-------------------------------------------------------------------------------
(* doState(): the state decision                                             *)

(* Mutant: the case label of MASTER is missing.                              *)
DecisionPendingNotMaster ==
    record_update /\ portState \in {"LISTENING", "PASSIVE", "SLAVE"}

DecisionPending ==
    record_update /\ portState \in {"LISTENING", "PASSIVE", "SLAVE", "MASTER"}

NoDecision ==
    /\ pc = "loop" /\ portState # "INITIALIZING" /\ ~DecisionPending
    /\ message_activity' = FALSE
    /\ pc' = Branch(portState)
    /\ UNCHANGED <<portState, dataSets, table, timers, locals, world>>

(* bmc() on an empty table in MASTER: m1() and stay.                         *)
KeepMaster ==
    /\ pc = "loop" /\ DecisionPending
    /\ number_foreign_records = 0 /\ portState = "MASTER"
    /\ message_activity' = FALSE
    /\ record_update' = FALSE
    /\ parentDS' = Own
    /\ pc' = Branch(portState)
    /\ UNCHANGED <<portState, table, timers, locals, world>>

StartBmc ==
    /\ pc = "loop" /\ DecisionPending
    /\ number_foreign_records > 0 \/ portState # "MASTER"
    /\ message_activity' = FALSE
    /\ record_update' = FALSE
    /\ scan' = 1 /\ best' = 0
    /\ pc' = "bmc"
    /\ UNCHANGED <<portState, parentDS, table, timers, foreign_record_best, world>>

Better(A, B) == bmcDataSetComparison(A, B, parentDS.clockIdentity) < 0

(* Mutant: the operands of the comparison are swapped.                       *)
ScanForeignSwapped ==
    /\ pc = "bmc" /\ scan < number_foreign_records
    /\ best' = IF Better(foreign[best], foreign[scan]) THEN scan ELSE best
    /\ scan' = scan + 1
    /\ UNCHANGED <<pc, portState, dataSets, table, timers, message_activity,
                   foreign_record_best, world>>

ScanForeign ==
    /\ pc = "bmc" /\ scan < number_foreign_records
    /\ best' = IF Better(foreign[scan], foreign[best]) THEN scan ELSE best
    /\ scan' = scan + 1
    /\ UNCHANGED <<pc, portState, dataSets, table, timers, message_activity,
                   foreign_record_best, world>>

(* The state to take on the record m and the parent data set that goes with  *)
(* it: m1() for MASTER, s1() for SLAVE and PASSIVE.                          *)
bmcStateDecision(m) ==
    IF slaveOnly THEN [state |-> "SLAVE", ds |-> s1(m)]
    ELSE IF number_foreign_records = 0 /\ portState = "LISTENING"
    THEN [state |-> "LISTENING", ds |-> parentDS]
    ELSE LET c == bmcDataSetComparison(Own, m, parentDS.clockIdentity)
             follower == IF Own.clockClass < 128 THEN "PASSIVE" ELSE "SLAVE"
         IN  IF c < 0 THEN [state |-> "MASTER", ds |-> Own]
             ELSE IF c > 0 THEN [state |-> follower, ds |-> s1(m)]
             ELSE [state |-> "FAULTY", ds |-> parentDS]

Decide ==
    /\ pc = "bmc" /\ scan >= number_foreign_records
    /\ LET d == bmcStateDecision(foreign[best])
       IN  /\ parentDS' = d.ds
           /\ pc' = Branch(d.state)
           /\ toOtherState(d.state, itimer)
    /\ foreign_record_best' = best
    /\ UNCHANGED <<record_update, table, elapsed, scan, best, world>>

FaultCleared ==
    /\ pc = "fault"
    /\ toState("INITIALIZING", itimer)
    /\ pc' = "loop"
    /\ UNCHANGED <<dataSets, table, elapsed, locals, world>>

-------------------------------------------------------------------------------
(* handle() and handleAnnounce()                                             *)

(* handle() is called from the branch of the listening states and, last,     *)
(* from the branch of MASTER.                                                *)
AfterHandle ==
    \/ pc = "handle"  /\ pc' = "receipt"
    \/ pc = "mhandle" /\ pc' = "demote"

(* catch_alarm(): one more second has passed. A punctual master has sent its *)
(* announce of the last second by then, and handle() has read it.            *)
catch_alarm ==
    /\ due = {}
    /\ elapsed' = elapsed + 1
    /\ due' = alive \cap Punctual
    /\ UNCHANGED <<slaveOnly, alive>>

(* netSelect() blocks until a SIGALRM interrupts it.                         *)
HandleInterrupted ==
    /\ ~message_activity
    /\ AfterHandle
    /\ catch_alarm
    /\ UNCHANGED <<portState, dataSets, table, itimer, message_activity, locals>>

(* Mutant: a raw socket with no frame is a message too short as well.        *)
HandleEmptyFaults ==
    /\ AfterHandle
    /\ message_activity
    /\ toState("FAULTY", itimer)
    /\ UNCHANGED <<dataSets, table, elapsed, locals, world>>

(* message_activity, set by a toState() of this same doState(), skips        *)
(* netSelect(), and nothing has arrived. A raw socket with no frame is left  *)
(* alone, as is a frame that is not PTP; on UDP the length 0 counts as a     *)
(* message shorter than a header.                                            *)
HandleEmpty ==
    /\ AfterHandle
    /\ \/ EthernetMode /\ UNCHANGED <<portState, itimer, message_activity>>
       \/ ~EthernetMode /\ message_activity /\ toState("FAULTY", itimer)
    /\ UNCHANGED <<dataSets, table, elapsed, locals, world>>

(* recvmsg() fails, an event arrives without a time stamp, or a message is   *)
(* shorter than its type asks for.                                           *)
HandleError ==
    /\ Errors
    /\ AfterHandle
    /\ toState("FAULTY", itimer)
    /\ UNCHANGED <<dataSets, table, elapsed, locals, world>>

(* Any message that is no foreign announce: other versions and domains, the  *)
(* port's own announces, synchronization and delay messages. None of them    *)
(* changes the port state, the parent or the foreign masters.                *)
HandleOther ==
    /\ AfterHandle
    /\ message_activity' = TRUE
    /\ UNCHANGED <<portState, dataSets, table, timers, locals, world>>

(* The k-th slot addForeign() looks at.                                      *)
Probe(k) ==
    IF k = 0 THEN foreign_record_best
    ELSE (foreign_record_best + k) % number_foreign_records

Known(m) ==
    {k \in 0 .. number_foreign_records - 1 : SamePort(foreign[Probe(k)], m)}

(* Mutants: the count has no limit; the index is advanced before its use.    *)
addForeignUnbounded(m) ==
    /\ Known(m) = {}
    /\ foreign' = [foreign EXCEPT ![foreign_record_i] = m]
    /\ number_foreign_records' = number_foreign_records + 1
    /\ foreign_record_i' = (foreign_record_i + 1) % MaxForeign
addForeignAdvancesFirst(m) ==
    /\ Known(m) = {}
    /\ foreign_record_i' = (foreign_record_i + 1) % MaxForeign
    /\ foreign' = [foreign EXCEPT ![foreign_record_i'] = m]
    /\ number_foreign_records' =
          IF number_foreign_records < MaxForeign
          THEN number_foreign_records + 1 ELSE number_foreign_records

(* The first slot that holds the sender is refreshed; a new sender goes to   *)
(* slot foreign_record_i, over the oldest one when the table is full.        *)
addForeign(m) ==
    \/ \E k \in Known(m) :
          /\ \A l \in Known(m) : k <= l
          /\ foreign' = [foreign EXCEPT ![Probe(k)] = m]
          /\ UNCHANGED <<number_foreign_records, foreign_record_i>>
    \/ /\ Known(m) = {}
       /\ foreign' = [foreign EXCEPT ![foreign_record_i] = m]
       /\ number_foreign_records' =
             IF number_foreign_records < MaxForeign
             THEN number_foreign_records + 1 ELSE number_foreign_records
       /\ foreign_record_i' = (foreign_record_i + 1) % MaxForeign

(* Mutant: an announce of the parent does not restart the receipt timer.     *)
handleAnnounceParentUntimed(m) ==
    /\ AfterHandle
    /\ message_activity' = TRUE
    /\ record_update' = TRUE
    /\ IF portState = "SLAVE" /\ SamePort(parentDS, m)
       THEN parentDS' = s1(m) /\ UNCHANGED <<table, itimer>>
       ELSE addForeign(m) /\ UNCHANGED <<parentDS, itimer>>
    /\ due' = due \ {m}
    /\ UNCHANGED <<slaveOnly, portState, elapsed, locals, alive>>

(* In SLAVE any announce restarts the receipt timer; one of the current      *)
(* parent updates the parent data set and not the foreign table.             *)
handleAnnounce(m) ==
    /\ AfterHandle
    /\ message_activity' = TRUE
    /\ record_update' = TRUE
    /\ IF portState = "SLAVE" /\ SamePort(parentDS, m)
       THEN parentDS' = s1(m) /\ UNCHANGED table
       ELSE addForeign(m) /\ UNCHANGED parentDS
    /\ itimer' = IF portState = "SLAVE"
                 THEN TimerStart({"ANNOUNCE_RECEIPT"}, Length, itimer)
                 ELSE itimer
    /\ due' = due \ {m}
    /\ UNCHANGED <<slaveOnly, portState, elapsed, locals, alive>>

-------------------------------------------------------------------------------
(* doState(): the timers                                                     *)

(* timerExpired(): the seconds counted so far are charged to every timer.    *)
Charged == TimerUpdate(elapsed, itimer)
Expired(t) == Charged[t].expire

(* Mutants: a slave only clock is not told apart; m1() is not called.        *)
AnnounceReceiptAnyMaster ==
    /\ pc = "receipt" /\ pc' = "delay"
    /\ elapsed' = 0
    /\ IF Expired("ANNOUNCE_RECEIPT")
       THEN parentDS' = Own /\ toState("MASTER", Consume("ANNOUNCE_RECEIPT", Charged))
       ELSE itimer' = Charged /\ UNCHANGED <<portState, parentDS, message_activity>>
    /\ UNCHANGED <<table, record_update, locals, world>>
AnnounceReceiptKeepsParent ==
    /\ pc = "receipt" /\ pc' = "delay"
    /\ elapsed' = 0
    /\ IF Expired("ANNOUNCE_RECEIPT")
       THEN toState("MASTER", Consume("ANNOUNCE_RECEIPT", Charged))
       ELSE itimer' = Charged /\ UNCHANGED <<portState, message_activity>>
    /\ UNCHANGED <<parentDS, table, record_update, locals, world>>
AnnounceReceipt ==
    /\ pc = "receipt" /\ pc' = "delay"
    /\ elapsed' = 0
    /\ IF Expired("ANNOUNCE_RECEIPT")
       THEN /\ number_foreign_records' = 0
            /\ foreign_record_i' = 0
            /\ LET tm == Consume("ANNOUNCE_RECEIPT", Charged)
               IN  IF ~slaveOnly /\ Own.clockClass # 255
                   THEN parentDS' = Own /\ toState("MASTER", tm)
                   ELSE UNCHANGED parentDS /\ toOtherState("LISTENING", tm)
       ELSE /\ itimer' = Charged
            /\ UNCHANGED <<portState, parentDS, message_activity,
                           number_foreign_records, foreign_record_i>>
    /\ UNCHANGED <<foreign, record_update, locals, world>>

(* A timer whose expiry makes the port send one message; what the send call  *)
(* returns on failure (-1) is taken for success.                             *)
Issue(t) ==
    /\ elapsed' = 0
    /\ itimer' = Consume(t, Charged)
    /\ UNCHANGED <<portState, dataSets, table, message_activity, locals, world>>

issueDelay  == pc = "delay" /\ pc' = "loop" /\ Issue(DelayTimer)
issueSync   == pc = "sync" /\ pc' = "announce" /\ Issue("SYNC")
issueAnnounce ==
    /\ pc = "announce" /\ pc' = IF E2E_mode THEN "mhandle" ELSE "pdelay"
    /\ Issue("ANNOUNCE")
issuePDelay == pc = "pdelay" /\ pc' = "mhandle" /\ Issue("PDELAYREQ")

(* A clock that may not be master leaves MASTER at the end of doState().     *)
Demote ==
    /\ pc = "demote" /\ pc' = "loop"
    /\ IF slaveOnly \/ Own.clockClass = 255
       THEN toState("LISTENING", itimer)
       ELSE UNCHANGED <<portState, itimer, message_activity>>
    /\ UNCHANGED <<dataSets, table, elapsed, locals, world>>

-------------------------------------------------------------------------------
(* A SIGALRM at any other point of the engine, once initTimer() has run.     *)
Tick ==
    /\ portState # "INITIALIZING" /\ pc # "stopped"
    /\ elapsed < MaxElapsed
    /\ catch_alarm
    /\ UNCHANGED <<pc, portState, dataSets, table, itimer, message_activity, locals>>

(* The environment: a foreign master is switched off or cut off.             *)
FallSilent(m) ==
    /\ alive' = alive \ {m}
    /\ due' = due \ {m}
    /\ UNCHANGED <<slaveOnly, pc, portState, dataSets, table, timers,
                   message_activity, locals>>

Stopped == pc = "stopped" /\ UNCHANGED vars

Decision == NoDecision \/ KeepMaster \/ StartBmc \/ ScanForeign \/ Decide
Receive  == \/ HandleInterrupted \/ HandleEmpty \/ HandleError \/ HandleOther
            \/ \E m \in alive : handleAnnounce(m)
Timeouts == \/ AnnounceReceipt \/ issueDelay
            \/ issueSync \/ issueAnnounce \/ issuePDelay \/ Demote

Engine == doInit \/ doInitFails \/ Decision \/ FaultCleared \/ Receive \/ Timeouts

Next ==
    \/ Engine
    \/ Tick
    \/ \E m \in alive : FallSilent(m)
    \/ Stopped

(* setitimer() keeps the signals coming, so a blocked netSelect() returns,   *)
(* and the announces of punctual masters do arrive.                          *)
Fairness ==
    /\ WF_vars(Engine) /\ WF_vars(Tick)
    /\ \A m \in Punctual : SF_vars(m \in due /\ handleAnnounce(m))

Spec     == Init /\ [][Next]_vars
FairSpec == Spec /\ Fairness

-------------------------------------------------------------------------------
(* Properties                                                                *)

TypeOK ==
    /\ slaveOnly \in SlaveOnly
    /\ pc \in Step
    /\ portState \in PortState
    /\ parentDS \in AnnounceRecord \cup {NULL}
    /\ foreign \in [Slot -> Announce \cup {NULL}]
    /\ number_foreign_records \in 0 .. MaxForeign
    /\ foreign_record_i \in Slot
    /\ foreign_record_best \in Slot
    /\ record_update \in BOOLEAN
    /\ itimer \in TimerArray
    /\ elapsed \in Nat
    /\ message_activity \in BOOLEAN
    /\ scan \in 0 .. MaxForeign
    /\ best \in Slot
    /\ alive \subseteq Announce /\ due \subseteq alive

(* bmc() compares, and addForeign() searches, only slots some announce was   *)
(* stored in: a fault empties the table by its count alone while the         *)
(* insertion index, the best index and record_update keep their old values.  *)
ReadsWrittenSlots ==
    /\ pc = "bmc" => foreign[best] # NULL
    /\ pc = "bmc" /\ scan < number_foreign_records => foreign[scan] # NULL
    /\ pc \in {"handle", "mhandle"} =>
          \A k \in 0 .. number_foreign_records - 1 : foreign[Probe(k)] # NULL

(* A state decision is taken on every announce before the next message is    *)
(* handled, so foreign_record_best points into the table whenever            *)
(* addForeign() starts its search there.                                     *)
DecidedBeforeNextMessage ==
    pc \in {"handle", "mhandle"} =>
        /\ ~record_update
        /\ number_foreign_records > 0 => foreign_record_best < number_foreign_records

(* While bmc() runs through the table no record passed so far is better than *)
(* the one it holds as best.                                                 *)
BestSoFar ==
    pc = "bmc" =>
        \A j \in 0 .. scan - 1 :
            j < number_foreign_records => ~Better(foreign[j], foreign[best])

(* Exactly the timers of the port state run, whatever path led to it: no     *)
(* state is left waiting for a timer that was never started, and none is     *)
(* disturbed by a timer of the state before it.                              *)
TimersMatchState ==
    \A t \in Timer :
        itimer[t].interval = IF t \in TimersOf(portState) THEN Length[t] ELSE 0

(* A master announces its own data set (msgPackAnnounce() sends the parent   *)
(* data set), and a port that follows has a foreign parent.                  *)
ParentMatchesState ==
    /\ portState = "MASTER" => parentDS = Own
    /\ portState \in {"SLAVE", "PASSIVE"} =>
          parentDS # NULL /\ parentDS.clockIdentity # Own.clockIdentity

(* -g: a slave only clock never becomes master and never turns passive.      *)
SlaveOnlyObeyed == slaveOnly => portState \notin {"MASTER", "PASSIVE"}

(* When sockets work and messages are well formed, the port is not faulty.   *)
HealthyPortNeverFaults == ~Errors /\ ~InitMayFail => portState # "FAULTY"

(* On a network gone quiet a clock that may be master ends up master, and    *)
(* one that may not ends up listening.                                       *)
QuietNetworkLeadsToMaster ==
    <>[](alive = {}) =>
        <>[](portState = IF slaveOnly \/ Own.clockClass = 255
                         THEN "LISTENING" ELSE "MASTER")

Follows(m) ==
    portState = "SLAVE" /\ parentDS.clockIdentity = m.clockIdentity

(* A slave does not follow a master fallen silent for ever.                  *)
SilentParentIsLeft ==
    \A m \in Announce : [](m \notin alive => <>~Follows(m))

(* While the parent announces punctually, no sequence of decisions, timeouts *)
(* and announces of others, punctual or not, makes the port give up SLAVE.   *)
SlaveIsSteady ==
    [][\A m \in alive \cap Punctual :
          portState = "SLAVE" /\ SamePort(parentDS, m)
              => portState' = "SLAVE"]_vars

(* The port as Election sees it.                                             *)
Elector ==
    [ slaveOnly |-> slaveOnly, portState |-> portState, parentDS |-> parentDS,
      known |-> {foreign[j] : j \in 0 .. number_foreign_records - 1},
      pending |-> record_update \/ pc = "bmc" ]
Promise == INSTANCE Election WITH port <- Elector

(* The port keeps the promise of Election: it elects one of the masters it   *)
(* has heard since it last forgot them, one no other of them is better than, *)
(* and decides on each announce before it hears the next. The table of       *)
(* foreign masters, searched from the best index on and filled in a ring, is *)
(* the set of those masters and bmc()'s loop over it one decision.           *)
KeepsPromise == Promise!Spec

(* A port that stays master keeps sending Sync and Announce messages.        *)
MasterKeepsSending ==
    <>[](portState = "MASTER") =>
        /\ []<><<issueSync /\ Expired("SYNC")>>_vars
        /\ []<><<issueAnnounce /\ Expired("ANNOUNCE")>>_vars
================================================================================
