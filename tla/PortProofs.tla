------------------------------- MODULE PortProofs -------------------------------
(*****************************************************************************)
(* The safety of the port engine for every choice of its constants.          *)
(*                                                                           *)
(* The foreign master table decides what can go wrong: a fault and a receipt *)
(* timeout forget its records by their count alone, so that the count, the   *)
(* insertion index and the slots written so far have to be related whatever  *)
(* came before. IInv is that relation, together with what record_update and  *)
(* the position in doState() say about the first slot and the best index.    *)
(*****************************************************************************)
EXTENDS Port, BmcProofs, FiniteSetTheorems

(* Slots below the count and below the insertion index have been written;    *)
(* while one has not, the next new record goes to or above the count.        *)
TableFilled ==
    /\ \A j \in Slot : j < number_foreign_records => foreign[j] # NULL
    /\ \A j \in Slot : j < foreign_record_i => foreign[j] # NULL
    /\ (\E j \in Slot : foreign[j] = NULL) =>
          number_foreign_records <= foreign_record_i

(* A pending decision, a decision under way and SLAVE all have a record to   *)
(* fall back on: slot 0, which bmc() reads even when the table is empty.     *)
FirstRecorded ==
    record_update \/ pc = "bmc" \/ portState = "SLAVE" => foreign[0] # NULL

(* best stays in the table while bmc() runs.                                 *)
BestInTable == pc = "bmc" => best = 0 \/ best < number_foreign_records

(* From the decision on until the next handle() no announce is pending.      *)
NothingPending ==
    pc \in {"bmc", "handle", "sync", "announce", "pdelay", "mhandle"} =>
        ~record_update

(* Unless a decision is pending or under way, foreign_record_best is one of  *)
(* the records.                                                              *)
BestIndexInTable ==
    pc # "bmc" /\ ~record_update /\ number_foreign_records > 0 =>
        foreign_record_best < number_foreign_records

IInv == /\ TypeOK
        /\ TableFilled
        /\ FirstRecorded
        /\ BestInTable
        /\ NothingPending
        /\ BestIndexInTable

-------------------------------------------------------------------------------
(* Charging a timer keeps its fields in range.                               *)
LEMMA ChargedTimer ==
    ASSUME NEW r \in [interval : Nat, left : Nat, expire : BOOLEAN],
           NEW d \in Nat
    PROVE  /\ r.left > d =>
                 [r EXCEPT !.left = @ - d]
                     \in [interval : Nat, left : Nat, expire : BOOLEAN]
           /\ [r EXCEPT !.left = r.interval, !.expire = TRUE]
                 \in [interval : Nat, left : Nat, expire : BOOLEAN]
<1>1. r.left > d => r.left - d \in Nat
  OBVIOUS
<1>2. r.left > d => [r EXCEPT !.left = @ - d]
                       \in [interval : Nat, left : Nat, expire : BOOLEAN]
  BY <1>1
<1>3. [r EXCEPT !.left = r.interval, !.expire = TRUE]
         \in [interval : Nat, left : Nat, expire : BOOLEAN]
  BY Zenon
<1>4. QED
  BY <1>2, <1>3

(* The timer operations keep the array an array of timers.                   *)
LEMMA TimerOperationsTyped ==
    ASSUME NEW tm \in TimerArray
    PROVE  /\ \A S : TimerStop(S, tm) \in TimerArray
           /\ \A S : TimerStart(S, Length, tm) \in TimerArray
           /\ \A d \in Nat : TimerUpdate(d, tm) \in TimerArray
           /\ \A t \in Timer : Consume(t, tm) \in TimerArray
<1>1. ASSUME NEW t \in Timer
      PROVE  /\ tm[t] \in [interval : Nat, left : Nat, expire : BOOLEAN]
             /\ Length[t] \in Nat
  BY LengthAssumption DEF TimerArray, UInteger16
<1>2. \A S : TimerStop(S, tm) \in TimerArray
  BY <1>1 DEF TimerStop, TimerArray
<1>3. \A S : TimerStart(S, Length, tm) \in TimerArray
  BY <1>1 DEF TimerStart, TimerArray
<1>4. ASSUME NEW d \in Nat
      PROVE  TimerUpdate(d, tm) \in TimerArray
  BY <1>1, ChargedTimer, Zenon DEF TimerUpdate, TimerArray
<1>5. ASSUME NEW t \in Timer
      PROVE  Consume(t, tm) \in TimerArray
  BY DEF Consume, TimerArray
<1>6. QED
  BY <1>2, <1>3, <1>4, <1>5

(* toState() keeps the types, whatever state it is asked for.                *)
LEMMA ToStateTyped ==
    ASSUME NEW state \in PortState, NEW tm \in TimerArray,
           toState(state, tm)
    PROVE  /\ portState' \in PortState
           /\ message_activity' \in BOOLEAN
           /\ itimer' \in TimerArray
<1>1. TimerStop(TimersOf(portState), tm) \in TimerArray
  BY TimerOperationsTyped
<1>2. QED
  BY <1>1, TimerOperationsTyped DEF toState

(* The data set s1() installs is one, and differs from NULL.                 *)
LEMMA ParentOfRecord ==
    ASSUME NEW m \in Announce
    PROVE  /\ s1(m) \in AnnounceRecord
           /\ s1(m) # NULL
           /\ s1(m).clockIdentity # Own.clockIdentity
<1>1. m \in AnnounceRecord
  BY AnnounceAssumption
<1>2. (m.stepsRemoved + 1) % 65536 \in UInteger16
  BY <1>1 DEF AnnounceRecord, UInteger16
<1>3. s1(m) \in AnnounceRecord
  BY <1>1, <1>2 DEF s1, AnnounceRecord
<1>4. s1(m).clockIdentity = m.clockIdentity
  BY <1>1 DEF s1, AnnounceRecord
<1>5. QED
  BY <1>3, <1>4, AnnounceAssumption

(* A record below the count, and slot 0 once it is needed, is an announce.   *)
LEMMA RecordsAreAnnounces ==
    ASSUME IInv
    PROVE  /\ 0 \in Slot
           /\ \A j \in Slot : foreign[j] # NULL => foreign[j] \in Announce
           /\ pc = "bmc" => foreign[best] \in Announce
           /\ \A j \in Nat : j < number_foreign_records =>
                 j \in Slot /\ foreign[j] \in Announce
<1>1. 0 \in Slot
  BY MaxForeignAssumption DEF Slot
<1>2. \A j \in Slot : foreign[j] # NULL => foreign[j] \in Announce
  BY DEF IInv, TypeOK
<1>3. \A j \in Nat : j < number_foreign_records => j \in Slot
  BY MaxForeignAssumption DEF IInv, TypeOK, Slot
<1>4. pc = "bmc" => foreign[best] # NULL
  BY DEF IInv, TypeOK, TableFilled, FirstRecorded, BestInTable
<1>5. QED
  BY <1>1, <1>2, <1>3, <1>4 DEF IInv, TypeOK, TableFilled

(* Only three actions change the table of foreign masters.                   *)
LEMMA TableActions ==
    ASSUME [Next]_vars
    PROVE  \/ UNCHANGED table
           \/ doInit
           \/ \E m \in alive : handleAnnounce(m)
           \/ AnnounceReceipt
  BY DEF Next, Engine, Decision, Receive, Timeouts, doInitFails, NoDecision,
         KeepMaster, StartBmc, ScanForeign, Decide, FaultCleared,
         HandleInterrupted, HandleEmpty, HandleError, HandleOther, issueDelay,
         issueSync, issueAnnounce, issuePDelay, Issue, Demote, Tick, FallSilent,
         Stopped, vars, table

-------------------------------------------------------------------------------
(* POWERUP: the table is empty and nothing is pending.                       *)
LEMMA InitEstablishes == Init => IInv
<1>1. Zeroed \in TimerArray
  BY DEF Zeroed, TimerArray
<1>2. ASSUME Init
      PROVE  TypeOK
  <2>1. 0 \in 0 .. MaxForeign /\ 0 \in Slot
    BY MaxForeignAssumption DEF Slot
  <2>2. foreign \in [Slot -> Announce \cup {NULL}]
    BY <1>2 DEF Init
  <2>3. pc \in Step /\ portState \in PortState /\ parentDS = NULL
        /\ record_update \in BOOLEAN /\ message_activity \in BOOLEAN
        /\ itimer \in TimerArray /\ elapsed \in Nat /\ slaveOnly \in SlaveOnly
    BY <1>1, <1>2 DEF Init, Step, PortState
  <2>4. /\ number_foreign_records = 0 /\ foreign_record_i = 0
        /\ foreign_record_best = 0 /\ scan = 0 /\ best = 0
        /\ alive = Announce /\ due = {}
    BY <1>2 DEF Init
  <2>5. QED
    BY <2>1, <2>2, <2>3, <2>4 DEF TypeOK
<1>3. ASSUME Init
      PROVE  TableFilled /\ FirstRecorded /\ BestInTable /\ NothingPending
             /\ BestIndexInTable
  BY <1>3 DEF Init, TableFilled, FirstRecorded, BestInTable, NothingPending,
              BestIndexInTable, Slot
<1>4. QED
  BY <1>2, <1>3 DEF IInv

(* Every step keeps the types. That the parent data set stays one needs the  *)
(* rest of IInv: bmc() decides on a slot that was written.                   *)
LEMMA TypeStep == IInv /\ [Next]_vars => TypeOK'
<1> SUFFICES ASSUME IInv, [Next]_vars
             PROVE  TypeOK'
  OBVIOUS
<1> USE DEF IInv, TypeOK
<1>0. /\ {"INITIALIZING", "FAULTY", "LISTENING", "MASTER", "PASSIVE", "SLAVE"}
            = PortState
      /\ \A st \in PortState : Branch(st) \in Step
      /\ 0 \in Slot /\ 0 \in 0 .. MaxForeign /\ 1 \in 0 .. MaxForeign
      /\ Own \in AnnounceRecord
      /\ Charged \in TimerArray
      /\ \A t \in Timer : Consume(t, Charged) \in TimerArray
  <2>1. Charged \in TimerArray
    BY TimerOperationsTyped DEF Charged
  <2>2. QED
    BY <2>1, TimerOperationsTyped, RecordsAreAnnounces, OwnAssumption,
       MaxForeignAssumption DEF PortState, Branch, Step
<1>1. CASE doInit
  <2>1. portState' \in PortState /\ message_activity' \in BOOLEAN
        /\ itimer' \in TimerArray
    BY <1>1, ToStateTyped DEF doInit, PortState
  <2>2. QED
    BY <1>0, <1>1, <2>1 DEF doInit, locals, world
<1>2. CASE doInitFails
  BY <1>0, <1>2, ToStateTyped
     DEF doInitFails, dataSets, table, locals, world, Step
<1>3. CASE NoDecision
  BY <1>0, <1>3 DEF NoDecision, dataSets, table, timers, locals, world
<1>4. CASE KeepMaster
  BY <1>0, <1>4 DEF KeepMaster, table, timers, locals, world
<1>5. CASE StartBmc
  <2>1. scan' \in 0 .. MaxForeign /\ best' \in Slot /\ pc' \in Step
    BY <1>0, <1>5 DEF StartBmc, Step
  <2>2. QED
    BY <1>5, <2>1 DEF StartBmc, table, timers, world
<1>6. CASE ScanForeign
  <2>1. scan \in Slot /\ scan + 1 \in 0 .. MaxForeign
    BY <1>6, MaxForeignAssumption DEF ScanForeign, Slot
  <2>2. best' \in Slot
    BY <1>6, <2>1 DEF ScanForeign
  <2>3. QED
    BY <1>6, <2>1, <2>2 DEF ScanForeign, dataSets, table, timers, world
<1>7. CASE Decide
  <2> DEFINE d == bmcStateDecision(foreign[best])
  <2>1. foreign[best] \in Announce
    BY <1>7, RecordsAreAnnounces DEF Decide
  <2>2. d.state \in PortState /\ d.ds \in AnnounceRecord \cup {NULL}
    BY <1>0, <2>1, ParentOfRecord DEF bmcStateDecision, PortState
  <2>3. /\ parentDS' = d.ds /\ pc' = Branch(d.state)
        /\ toOtherState(d.state, itimer)
    BY <1>7 DEF Decide
  <2> HIDE DEF d
  <2>4. portState' \in PortState /\ message_activity' \in BOOLEAN
        /\ itimer' \in TimerArray
    BY <2>2, <2>3, ToStateTyped DEF toOtherState
  <2>5. QED
    BY <1>0, <1>7, <2>2, <2>3, <2>4 DEF Decide, table, world
<1>8. CASE FaultCleared
  BY <1>0, <1>8, ToStateTyped
     DEF FaultCleared, dataSets, table, locals, world, Step, PortState
<1>9. CASE Receive
  <2>0. AfterHandle => pc' \in Step
    BY DEF AfterHandle, Step
  <2>1. catch_alarm => elapsed' \in Nat /\ alive' \subseteq Announce
                       /\ due' \subseteq alive' /\ slaveOnly' = slaveOnly
    BY DEF catch_alarm
  <2>2. CASE HandleInterrupted
    BY <2>0, <2>1, <2>2 DEF HandleInterrupted, dataSets, table, locals
  <2>3. CASE HandleEmpty
    BY <1>0, <2>0, <2>3, ToStateTyped
       DEF HandleEmpty, dataSets, table, locals, world, PortState
  <2>4. CASE HandleError
    BY <1>0, <2>0, <2>4, ToStateTyped
       DEF HandleError, dataSets, table, locals, world, PortState
  <2>5. CASE HandleOther
    BY <2>0, <2>5 DEF HandleOther, dataSets, table, timers, locals, world
  <2>6. ASSUME NEW m \in alive, handleAnnounce(m)
        PROVE  TypeOK'
    <3>1. m \in Announce
      OBVIOUS
    <3>2. itimer' \in TimerArray
      BY <2>6, TimerOperationsTyped DEF handleAnnounce
    <3>3. parentDS' \in AnnounceRecord \cup {NULL}
      BY <2>6, <3>1, ParentOfRecord DEF handleAnnounce
    <3>4. CASE UNCHANGED table
      BY <2>0, <2>6, <3>2, <3>3, <3>4 DEF handleAnnounce, table, locals
    <3>5. CASE addForeign(m)
      <4>1. foreign' \in [Slot -> Announce \cup {NULL}]
        BY <3>1, <3>5 DEF addForeign
      <4>2. number_foreign_records' \in 0 .. MaxForeign
        BY <3>5, MaxForeignAssumption DEF addForeign
      <4>3. (foreign_record_i + 1) % MaxForeign \in Slot
        BY MaxForeignAssumption DEF Slot
      <4>4. foreign_record_i' \in Slot
        BY <3>5, <4>3 DEF addForeign
      <4>5. QED
        BY <2>0, <2>6, <3>2, <3>3, <4>1, <4>2, <4>4 DEF handleAnnounce, locals
    <3>6. QED
      BY <2>6, <3>4, <3>5 DEF handleAnnounce
  <2>7. QED
    BY <1>9, <2>2, <2>3, <2>4, <2>5, <2>6 DEF Receive
<1>10. CASE AnnounceReceipt
  <2>1. CASE Expired("ANNOUNCE_RECEIPT")
    <3> DEFINE tm == Consume("ANNOUNCE_RECEIPT", Charged)
    <3>1. tm \in TimerArray
      BY <1>0 DEF Timer
    <3>2. \/ parentDS' = Own /\ toState("MASTER", tm)
          \/ UNCHANGED parentDS /\ toOtherState("LISTENING", tm)
      BY <1>10, <2>1 DEF AnnounceReceipt
    <3> HIDE DEF tm
    <3>3. portState' \in PortState /\ message_activity' \in BOOLEAN
          /\ itimer' \in TimerArray
      BY <1>0, <3>1, <3>2, ToStateTyped DEF toOtherState
    <3>4. QED
      BY <1>0, <1>10, <2>1, <3>2, <3>3, MaxForeignAssumption
         DEF AnnounceReceipt, locals, world, Step
  <2>2. CASE ~Expired("ANNOUNCE_RECEIPT")
    BY <1>0, <1>10, <2>2 DEF AnnounceReceipt, locals, world, Step
  <2>3. QED
    BY <2>1, <2>2
<1>11. CASE issueDelay \/ issueSync \/ issueAnnounce \/ issuePDelay
  BY <1>0, <1>11
     DEF issueDelay, issueSync, issueAnnounce, issuePDelay, Issue, Step,
         DelayTimer, Timer, dataSets, table, locals, world
<1>12. CASE Demote
  BY <1>0, <1>12, ToStateTyped
     DEF Demote, dataSets, table, locals, world, Step, PortState
<1>13. CASE Tick
  BY <1>13 DEF Tick, catch_alarm, dataSets, table, locals
<1>14. ASSUME NEW m \in alive, FallSilent(m)
       PROVE  TypeOK'
  BY <1>14 DEF FallSilent, dataSets, table, timers, locals
<1>15. CASE Stopped \/ UNCHANGED vars
  BY <1>15 DEF Stopped, vars, dataSets, table, timers, locals, world
<1>16. QED
  BY <1>1, <1>2, <1>3, <1>4, <1>5, <1>6, <1>7, <1>8, <1>9, <1>10, <1>11, <1>12,
     <1>13, <1>14, <1>15
     DEF Next, Engine, Decision, Timeouts

(* A new record extends the table or, once every slot has been written,      *)
(* replaces one.                                                             *)
LEMMA TableStep == IInv /\ [Next]_vars => TableFilled'
<1> SUFFICES ASSUME IInv, [Next]_vars
             PROVE  TableFilled'
  OBVIOUS
<1> USE DEF TableFilled
<1>0. /\ foreign \in [Slot -> Announce \cup {NULL}]
      /\ number_foreign_records \in 0 .. MaxForeign
      /\ foreign_record_i \in Slot
      /\ MaxForeign \in Nat \ {0} /\ Slot = 0 .. MaxForeign - 1
      /\ TableFilled
  BY MaxForeignAssumption DEF IInv, TypeOK, Slot
<1>1. CASE UNCHANGED table
  BY <1>0, <1>1 DEF table
<1>2. CASE doInit
  BY <1>0, <1>2 DEF doInit
<1>3. CASE AnnounceReceipt
  BY <1>0, <1>3 DEF AnnounceReceipt
<1>4. ASSUME NEW m \in alive, handleAnnounce(m)
      PROVE  TableFilled'
  <2>1. m # NULL
    BY AnnounceAssumption DEF IInv, TypeOK
  <2>2. ASSUME NEW k \in Known(m), foreign' = [foreign EXCEPT ![Probe(k)] = m],
               UNCHANGED <<number_foreign_records, foreign_record_i>>
        PROVE  TableFilled'
    <3>1. \A j \in Slot : foreign'[j] = m \/ foreign'[j] = foreign[j]
      BY <1>0, <2>2
    <3>2. QED
      BY <1>0, <2>1, <2>2, <3>1
  <2>3. ASSUME foreign' = [foreign EXCEPT ![foreign_record_i] = m],
               number_foreign_records' =
                  IF number_foreign_records < MaxForeign
                  THEN number_foreign_records + 1 ELSE number_foreign_records,
               foreign_record_i' = (foreign_record_i + 1) % MaxForeign
        PROVE  TableFilled'
    <3>1. \A j \in Slot : foreign'[j] =
             IF j = foreign_record_i THEN m ELSE foreign[j]
      BY <1>0, <2>3
    <3>2. foreign_record_i' = IF foreign_record_i = MaxForeign - 1
                             THEN 0 ELSE foreign_record_i + 1
      BY <1>0, <2>3
    <3>3. QED
      BY <1>0, <2>1, <2>3, <3>1, <3>2
  <2>4. QED
    BY <1>1, <2>2, <2>3, <1>4 DEF handleAnnounce, addForeign
<1>5. QED
  BY <1>1, <1>2, <1>3, <1>4, TableActions

(* Slot 0 is never erased, and an announce that asks for a decision leaves   *)
(* it written: it goes into a table that then has a record, or it comes from *)
(* the parent of a SLAVE.                                                    *)
LEMMA FirstRecordedStep == IInv /\ [Next]_vars => FirstRecorded'
<1> SUFFICES ASSUME IInv, [Next]_vars
             PROVE  FirstRecorded'
  OBVIOUS
<1>0. 0 \in Slot /\ foreign \in [Slot -> Announce \cup {NULL}]
  BY RecordsAreAnnounces DEF IInv, TypeOK
<1>1. foreign[0] # NULL => foreign'[0] # NULL
  <2>1. CASE UNCHANGED foreign
    BY <2>1
  <2>2. ASSUME NEW m \in alive, handleAnnounce(m)
        PROVE  foreign[0] # NULL => foreign'[0] # NULL
    <3>1. m # NULL
      BY AnnounceAssumption DEF IInv, TypeOK
    <3>2. UNCHANGED foreign \/ \E j : foreign' = [foreign EXCEPT ![j] = m]
      BY <2>2 DEF handleAnnounce, addForeign, table
    <3>3. QED
      BY <1>0, <3>1, <3>2
  <2>3. QED
    BY <2>1, <2>2, TableActions DEF table, doInit, AnnounceReceipt
<1>2. ASSUME NEW m \in alive, handleAnnounce(m)
      PROVE  foreign'[0] # NULL
  <2>1. CASE portState = "SLAVE"
    BY <1>1, <2>1 DEF IInv, FirstRecorded
  <2>2. CASE portState # "SLAVE"
    <3>1. addForeign(m)
      BY <1>2, <2>2 DEF handleAnnounce
    <3>2. number_foreign_records' > 0
      BY <3>1, MaxForeignAssumption DEF addForeign, Known, IInv, TypeOK
    <3>3. TableFilled'
      BY TableStep
    <3>4. QED
      BY <1>0, <3>2, <3>3 DEF TableFilled
  <2>3. QED
    BY <2>1, <2>2
<1>3. ASSUME record_update' \/ pc' = "bmc" \/ portState' = "SLAVE",
             \A m \in alive : ~handleAnnounce(m)
      PROVE  record_update \/ pc = "bmc" \/ portState = "SLAVE"
  BY <1>3
     DEF Next, Engine, Decision, Receive, Timeouts, doInit, doInitFails,
         NoDecision, KeepMaster, StartBmc, ScanForeign, Decide, FaultCleared,
         HandleInterrupted, HandleEmpty, HandleError, HandleOther, AfterHandle,
         AnnounceReceipt, issueDelay, issueSync, issueAnnounce, issuePDelay,
         Issue, Demote, Tick, FallSilent, Stopped, vars, dataSets, toState,
         toOtherState, DecisionPending, Branch
<1>4. QED
  BY <1>1, <1>2, <1>3 DEF IInv, FirstRecorded

(* bmc() moves best only to slots it has looked at.                          *)
LEMMA BestInTableStep == IInv /\ [Next]_vars => BestInTable'
<1> SUFFICES ASSUME IInv, [Next]_vars, pc' = "bmc"
             PROVE  best' = 0 \/ best' < number_foreign_records'
  BY DEF BestInTable
<1>1. \/ StartBmc
      \/ ScanForeign
      \/ pc = "bmc" /\ UNCHANGED <<best, number_foreign_records>>
  BY DEF Next, Engine, Decision, Receive, Timeouts, doInit, doInitFails,
         NoDecision, KeepMaster, Decide, FaultCleared, HandleInterrupted,
         HandleEmpty, HandleError, HandleOther, handleAnnounce, AfterHandle,
         AnnounceReceipt, issueDelay, issueSync, issueAnnounce, issuePDelay,
         Issue, Demote, Tick, FallSilent, Stopped, vars, table, locals, Branch
<1>2. CASE StartBmc
  BY <1>2 DEF StartBmc
<1>3. CASE ScanForeign
  BY <1>3 DEF ScanForeign, IInv, BestInTable, table
<1>4. QED
  BY <1>1, <1>2, <1>3 DEF IInv, BestInTable

(* handle() is reached only past the decision of the same doState().         *)
LEMMA NothingPendingStep == IInv /\ [Next]_vars => NothingPending'
<1> DEFINE Before == {"bmc", "handle", "sync", "announce", "pdelay", "mhandle"}
<1> SUFFICES ASSUME IInv, [Next]_vars, pc' \in Before
             PROVE  ~record_update'
  BY DEF NothingPending
<1>1. pc \in Before => ~record_update
  BY DEF IInv, NothingPending
<1>2. portState \in PortState /\ record_update \in BOOLEAN
  BY DEF IInv, TypeOK
<1>3. CASE NoDecision
  BY <1>2, <1>3 DEF NoDecision, DecisionPending, Branch, PortState, dataSets
<1>4. CASE KeepMaster \/ StartBmc
  BY <1>4 DEF KeepMaster, StartBmc
<1>5. CASE ~NoDecision /\ ~KeepMaster /\ ~StartBmc
  BY <1>1, <1>5
     DEF Next, Engine, Decision, Receive, Timeouts, doInit, doInitFails,
         ScanForeign, Decide, FaultCleared, HandleInterrupted,
         HandleEmpty, HandleError, HandleOther, handleAnnounce, AfterHandle,
         AnnounceReceipt, issueDelay, issueSync, issueAnnounce, issuePDelay,
         Issue, Demote, Tick, FallSilent, Stopped, vars, dataSets
<1>6. QED
  BY <1>3, <1>4, <1>5

(* The best index is renewed whenever a decision ends with records left.     *)
LEMMA BestIndexStep == IInv /\ [Next]_vars => BestIndexInTable'
<1> SUFFICES ASSUME IInv, [Next]_vars,
                    pc' # "bmc", ~record_update', number_foreign_records' > 0
             PROVE  foreign_record_best' < number_foreign_records'
  BY DEF BestIndexInTable
<1>1. \/ Decide
      \/ /\ pc # "bmc" /\ ~record_update /\ number_foreign_records > 0
         /\ UNCHANGED <<foreign_record_best, number_foreign_records>>
  BY DEF Next, Engine, Decision, Receive, Timeouts, doInit, doInitFails,
         NoDecision, KeepMaster, StartBmc, ScanForeign, FaultCleared,
         HandleInterrupted, HandleEmpty, HandleError, HandleOther,
         handleAnnounce, AfterHandle, AnnounceReceipt, issueDelay, issueSync,
         issueAnnounce, issuePDelay, Issue, Demote, Tick, FallSilent, Stopped,
         vars, dataSets, table, locals
<1>2. CASE Decide
  BY <1>2 DEF Decide, IInv, BestInTable, table
<1>3. QED
  BY <1>1, <1>2 DEF IInv, BestIndexInTable

(* IInv is an invariant of the port engine.                                  *)
THEOREM InductiveInvariant == Spec => []IInv
<1>1. IInv /\ [Next]_vars => IInv'
  BY TypeStep, TableStep, FirstRecordedStep, BestInTableStep,
     NothingPendingStep, BestIndexStep DEF IInv
<1>2. QED
  BY InitEstablishes, <1>1, PTL DEF Spec

-------------------------------------------------------------------------------
(* Every variable of the port keeps its type.                                *)
THEOREM TypeCorrect == Spec => []TypeOK
  BY InductiveInvariant, PTL DEF IInv

(* bmc() and addForeign() never look at a slot no announce was stored in.    *)
THEOREM OnlyWrittenSlotsRead == Spec => []ReadsWrittenSlots
<1>1. ASSUME IInv
      PROVE  ReadsWrittenSlots
  <2>1. pc = "bmc" => foreign[best] # NULL
    BY <1>1, RecordsAreAnnounces, AnnounceAssumption
  <2>2. \A j \in Nat : j < number_foreign_records => foreign[j] # NULL
    BY <1>1, RecordsAreAnnounces, AnnounceAssumption
  <2>3. scan \in Nat /\ number_foreign_records \in Nat
        /\ foreign_record_best \in Nat
    BY <1>1, MaxForeignAssumption DEF IInv, TypeOK, Slot
  <2>4. ASSUME pc \in {"handle", "mhandle"},
               NEW k \in 0 .. number_foreign_records - 1
        PROVE  foreign[Probe(k)] # NULL
    <3>1. foreign_record_best < number_foreign_records
      BY <1>1, <2>3, <2>4 DEF IInv, NothingPending, BestIndexInTable
    <3>2. Probe(k) \in Nat /\ Probe(k) < number_foreign_records
      BY <2>3, <2>4, <3>1 DEF Probe
    <3>3. QED
      BY <2>2, <3>2
  <2>5. QED
    BY <2>1, <2>2, <2>3, <2>4 DEF ReadsWrittenSlots
<1>2. QED
  BY <1>1, InductiveInvariant, PTL

(* Every announce is decided on before the next message is handled.          *)
THEOREM DecisionsAreTimely == Spec => []DecidedBeforeNextMessage
<1>1. IInv => DecidedBeforeNextMessage
  BY DEF IInv, NothingPending, BestIndexInTable, DecidedBeforeNextMessage
<1>2. QED
  BY <1>1, InductiveInvariant, PTL

-------------------------------------------------------------------------------
(* What toState() does to the intervals of the timers.                       *)
LEMMA ToStateMatches ==
    ASSUME NEW state, NEW tm \in TimerArray, toState(state, tm),
           \A t \in Timer :
              tm[t].interval = IF t \in TimersOf(portState) THEN Length[t] ELSE 0
    PROVE  TimersMatchState'
<1>1. portState' = state
  BY DEF toState
<1>2. ASSUME NEW t \in Timer
      PROVE  itimer'[t].interval = IF t \in TimersOf(state) THEN Length[t] ELSE 0
  <2> DEFINE stopped == TimerStop(TimersOf(portState), tm)
  <2>1. tm[t] \in [interval : Nat, left : Nat, expire : BOOLEAN]
    BY DEF TimerArray
  <2>2. stopped[t].interval = 0
    BY <2>1 DEF TimerStop
  <2>3. itimer' = TimerStart(TimersOf(state), Length, stopped)
    BY DEF toState
  <2> HIDE DEF stopped
  <2>4. QED
    BY <2>2, <2>3 DEF TimerStart
<1>3. TimersOf(state)' = TimersOf(state)
  BY DEF TimersOf, DelayTimer
<1>4. QED
  BY <1>1, <1>2 DEF TimersMatchState, TimersOf, DelayTimer

(* Charging and consuming a timer leave its interval alone.                  *)
LEMMA IntervalsKept ==
    ASSUME NEW tm \in TimerArray, NEW d \in Nat, NEW u \in Timer,
           NEW t \in Timer
    PROVE  /\ TimerUpdate(d, tm)[t].interval = tm[t].interval
           /\ Consume(u, tm)[t].interval = tm[t].interval
<1>1. \A r \in [interval : Nat, left : Nat, expire : BOOLEAN] : \A x, y :
         /\ [r EXCEPT !.left = x].interval = r.interval
         /\ [r EXCEPT !.left = x, !.expire = y].interval = r.interval
         /\ [r EXCEPT !.expire = y].interval = r.interval
  BY Zenon
<1>2. tm[t] \in [interval : Nat, left : Nat, expire : BOOLEAN]
  BY DEF TimerArray
<1>3. TimerUpdate(d, tm)[t].interval = tm[t].interval
  BY <1>1, <1>2, Zenon DEF TimerUpdate
<1>4. Consume(u, tm)[t] = IF t = u THEN [tm[t] EXCEPT !.expire = FALSE] ELSE tm[t]
  BY DEF Consume, TimerArray
<1>5. Consume(u, tm)[t].interval = tm[t].interval
  BY <1>1, <1>2, <1>4, Zenon
<1>6. QED
  BY <1>3, <1>5

(* The timers that run are those of the port state, after every step.        *)
LEMMA TimersStep ==
    IInv /\ TimersMatchState /\ [Next]_vars => TimersMatchState'
<1> SUFFICES ASSUME IInv, TimersMatchState, [Next]_vars
             PROVE  TimersMatchState'
  OBVIOUS
<1> DEFINE Matches(tm) ==
       \A t \in Timer :
          tm[t].interval = IF t \in TimersOf(portState) THEN Length[t] ELSE 0
<1>1. itimer \in TimerArray /\ elapsed \in Nat /\ Matches(itimer)
  BY DEF IInv, TypeOK, TimersMatchState
<1>2. Charged \in TimerArray /\ Matches(Charged)
  BY <1>1, TimerOperationsTyped, IntervalsKept DEF Charged
<1>3. ASSUME NEW u \in Timer
      PROVE  Consume(u, Charged) \in TimerArray /\ Matches(Consume(u, Charged))
  BY <1>2, TimerOperationsTyped, IntervalsKept
<1>4. ASSUME NEW state, NEW tm \in TimerArray, Matches(tm), toState(state, tm)
      PROVE  TimersMatchState'
  BY <1>4, ToStateMatches
<1>5. ASSUME UNCHANGED portState, Matches(itimer')
      PROVE  TimersMatchState'
  BY <1>5 DEF TimersMatchState, TimersOf, DelayTimer
<1>6. CASE UNCHANGED <<portState, itimer>>
  BY <1>1, <1>5, <1>6
<1>7. ASSUME NEW state, toState(state, itimer)
      PROVE  TimersMatchState'
  BY <1>1, <1>4, <1>7
<1>8. ASSUME NEW m, handleAnnounce(m)
      PROVE  TimersMatchState'
  <2>1. portState = "SLAVE" => "ANNOUNCE_RECEIPT" \in TimersOf(portState)
    BY DEF TimersOf
  <2>2. \A t \in Timer : t # "ANNOUNCE_RECEIPT" \/ portState # "SLAVE" =>
           itimer'[t].interval = itimer[t].interval
    BY <1>8 DEF handleAnnounce, TimerStart
  <2>3. portState = "SLAVE" =>
           itimer'["ANNOUNCE_RECEIPT"].interval = Length["ANNOUNCE_RECEIPT"]
    BY <1>8 DEF handleAnnounce, TimerStart, Timer
  <2>4. Matches(itimer')
    BY <1>1, <2>1, <2>2, <2>3
  <2>5. QED
    BY <1>5, <1>8, <2>4 DEF handleAnnounce
<1>9. CASE AnnounceReceipt
  <2>1. "ANNOUNCE_RECEIPT" \in Timer
    BY DEF Timer
  <2> DEFINE tm == Consume("ANNOUNCE_RECEIPT", Charged)
  <2>2. tm \in TimerArray /\ Matches(tm)
    BY <1>3, <2>1
  <2> HIDE DEF tm
  <2>3. \/ \E state : toState(state, tm)
        \/ UNCHANGED portState /\ itimer' \in {tm, Charged}
    BY <1>9 DEF AnnounceReceipt, toOtherState, tm
  <2>4. QED
    BY <1>2, <1>4, <1>5, <2>2, <2>3
<1>10. CASE issueDelay \/ issueSync \/ issueAnnounce \/ issuePDelay
  <2>1. PICK u \in Timer : Issue(u)
    BY <1>10
       DEF issueDelay, issueSync, issueAnnounce, issuePDelay, DelayTimer, Timer
  <2>2. QED
    BY <1>3, <1>5, <2>1 DEF Issue
<1>11. \/ UNCHANGED <<portState, itimer>>
       \/ \E state : toState(state, itimer)
       \/ \E m : handleAnnounce(m)
       \/ AnnounceReceipt
       \/ issueDelay \/ issueSync \/ issueAnnounce \/ issuePDelay
  BY DEF Next, Engine, Decision, Receive, Timeouts, doInit, doInitFails,
         NoDecision, KeepMaster, StartBmc, ScanForeign, Decide, toOtherState,
         FaultCleared, HandleInterrupted, HandleEmpty, HandleError, HandleOther,
         Demote, Tick, FallSilent, Stopped, vars, timers
<1>12. QED
  BY <1>6, <1>7, <1>8, <1>9, <1>10, <1>11

(* Exactly the timers of the port state run, whatever the path to it.        *)
THEOREM TimersFollowState == Spec => []TimersMatchState
<1>1. Init => TimersMatchState
  BY DEF Init, TimersMatchState, Zeroed, TimersOf
<1>2. IInv /\ TimersMatchState /\ [Next]_vars => TimersMatchState'
  BY TimersStep
<1>3. QED
  BY <1>1, <1>2, InductiveInvariant, PTL DEF Spec

-------------------------------------------------------------------------------
(* Where the port state and the parent data set come from in one step.       *)
LEMMA StateActions ==
    ASSUME [Next]_vars
    PROVE  \/ UNCHANGED <<portState, parentDS>>
           \/ doInit \/ KeepMaster \/ Decide \/ AnnounceReceipt
           \/ \E m \in alive : handleAnnounce(m)
           \/ /\ portState' \in {"FAULTY", "INITIALIZING", "LISTENING"}
              /\ UNCHANGED parentDS
  BY DEF Next, Engine, Decision, Receive, Timeouts, doInitFails, NoDecision,
         StartBmc, ScanForeign, FaultCleared, HandleInterrupted, HandleEmpty,
         HandleError, HandleOther, issueDelay, issueSync, issueAnnounce,
         issuePDelay, Issue, Demote, Tick, FallSilent, Stopped, vars, dataSets,
         toState

(* A state decision installs the parent data set that goes with the state.   *)
LEMMA DecisionInstallsParent ==
    ASSUME IInv, Decide
    PROVE  LET d == bmcStateDecision(foreign[best])
           IN  /\ portState' = d.state /\ parentDS' = d.ds
               /\ d.state \in {"MASTER", "SLAVE", "PASSIVE", "LISTENING", "FAULTY"}
               /\ d.state = "MASTER" => ~slaveOnly /\ d.ds = Own
               /\ d.state = "PASSIVE" => ~slaveOnly
               /\ d.state \in {"SLAVE", "PASSIVE"} =>
                     d.ds # NULL /\ d.ds.clockIdentity # Own.clockIdentity
               /\ d.state = "FAULTY" =>
                     bmcDataSetComparison(Own, foreign[best],
                                          parentDS.clockIdentity) \in {0}
<1> DEFINE d == bmcStateDecision(foreign[best])
           c == bmcDataSetComparison(Own, foreign[best], parentDS.clockIdentity)
<1>1. foreign[best] \in Announce
  BY RecordsAreAnnounces DEF Decide
<1>2. s1(foreign[best]) # NULL
      /\ s1(foreign[best]).clockIdentity # Own.clockIdentity
  BY <1>1, ParentOfRecord
<1>3. portState' = d.state /\ parentDS' = d.ds
  BY DEF Decide, toOtherState, toState
<1>4. c \in {-1, 0, 1}
  BY <1>1, ComparisonRange, OwnAssumption, AnnounceAssumption
<1> HIDE DEF c
<1>5. /\ d.state \in {"MASTER", "SLAVE", "PASSIVE", "LISTENING", "FAULTY"}
      /\ d.state = "MASTER" => ~slaveOnly /\ d.ds = Own
      /\ d.state = "PASSIVE" => ~slaveOnly
      /\ d.state \in {"SLAVE", "PASSIVE"} => d.ds = s1(foreign[best])
      /\ d.state = "FAULTY" => ~(c < 0) /\ ~(c > 0)
  BY DEF bmcStateDecision, c
<1> HIDE DEF d
<1>6. ~(c < 0) /\ ~(c > 0) => c \in {0}
  BY <1>4
<1>7. QED
  BY <1>2, <1>3, <1>5, <1>6 DEF d, c

(* A master announces its own data set and a follower has a foreign parent.  *)
THEOREM ParentFollowsState == Spec => []ParentMatchesState
<1>1. Init => ParentMatchesState
  BY DEF Init, ParentMatchesState
<1>2. ASSUME IInv, ParentMatchesState, [Next]_vars
      PROVE  ParentMatchesState'
  <2> USE DEF ParentMatchesState
  <2>1. CASE UNCHANGED <<portState, parentDS>>
    BY <1>2, <2>1
  <2>2. CASE doInit
    BY <2>2 DEF doInit, toState
  <2>3. CASE KeepMaster
    BY <2>3 DEF KeepMaster
  <2>4. CASE Decide
    BY <1>2, <2>4, DecisionInstallsParent
  <2>5. CASE AnnounceReceipt
    BY <1>2, <2>5 DEF AnnounceReceipt, toState, toOtherState
  <2>6. ASSUME NEW m \in alive, handleAnnounce(m)
        PROVE  ParentMatchesState'
    <3>1. m \in Announce
      BY <1>2 DEF IInv, TypeOK
    <3>2. portState' = portState
      BY <2>6 DEF handleAnnounce
    <3>3. CASE portState = "SLAVE" /\ SamePort(parentDS, m)
      <4>1. parentDS' = s1(m)
        BY <2>6, <3>3 DEF handleAnnounce
      <4>2. QED
        BY <3>1, <3>2, <3>3, <4>1, ParentOfRecord
    <3>4. CASE ~(portState = "SLAVE" /\ SamePort(parentDS, m))
      <4>1. parentDS' = parentDS
        BY <2>6, <3>4 DEF handleAnnounce
      <4>2. QED
        BY <1>2, <3>2, <4>1
    <3>5. QED
      BY <3>3, <3>4
  <2>7. CASE portState' \in {"FAULTY", "INITIALIZING", "LISTENING"}
    BY <2>7
  <2>8. QED
    BY <1>2, <2>1, <2>2, <2>3, <2>4, <2>5, <2>6, <2>7, StateActions
<1>3. QED
  BY <1>1, <1>2, InductiveInvariant, PTL DEF Spec

(* The command line is read once.                                            *)
LEMMA OptionKept == [Next]_vars => slaveOnly' = slaveOnly
  BY DEF Next, Engine, Decision, Receive, Timeouts, doInit, doInitFails,
         NoDecision, KeepMaster, StartBmc, ScanForeign, Decide, FaultCleared,
         HandleInterrupted, HandleEmpty, HandleError, HandleOther,
         handleAnnounce, catch_alarm, AnnounceReceipt, issueDelay, issueSync,
         issueAnnounce, issuePDelay, Issue, Demote, Tick, FallSilent, Stopped,
         vars, world

(* A slave only clock never is MASTER or PASSIVE.                            *)
THEOREM SlaveOnlyNeverMaster == Spec => []SlaveOnlyObeyed
<1>1. Init => SlaveOnlyObeyed
  BY DEF Init, SlaveOnlyObeyed
<1>2. ASSUME IInv, SlaveOnlyObeyed, [Next]_vars
      PROVE  SlaveOnlyObeyed'
  <2> USE DEF SlaveOnlyObeyed
  <2>0. slaveOnly' = slaveOnly
    BY <1>2, OptionKept
  <2>1. CASE UNCHANGED <<portState, parentDS>>
    BY <1>2, <2>0, <2>1
  <2>2. CASE doInit
    BY <2>0, <2>2 DEF doInit, toState
  <2>3. CASE KeepMaster
    BY <1>2, <2>0, <2>3 DEF KeepMaster
  <2>4. CASE Decide
    BY <1>2, <2>0, <2>4, DecisionInstallsParent
  <2>5. CASE AnnounceReceipt
    BY <1>2, <2>0, <2>5 DEF AnnounceReceipt, toState, toOtherState
  <2>6. CASE \E m \in alive : handleAnnounce(m)
    BY <1>2, <2>0, <2>6 DEF handleAnnounce
  <2>7. CASE portState' \in {"FAULTY", "INITIALIZING", "LISTENING"}
    BY <2>0, <2>7
  <2>8. QED
    BY <1>2, <2>1, <2>2, <2>3, <2>4, <2>5, <2>6, <2>7, StateActions
<1>3. QED
  BY <1>1, <1>2, InductiveInvariant, PTL DEF Spec

-------------------------------------------------------------------------------
(* On raw Ethernet the only way a healthy port could fault is a foreign      *)
(* clock that compares equal to the local one.                               *)
ToldFromOwn ==
    \A m \in Announce : \A p : bmcDataSetComparison(Own, m, p) # 0

(* With raw frames and no such clock, a port whose sockets work and whose    *)
(* messages are well formed is never faulty.                                 *)
THEOREM RawPortHealthy ==
    ASSUME EthernetMode, ToldFromOwn
    PROVE  Spec => []HealthyPortNeverFaults
<1>1. Init => HealthyPortNeverFaults
  BY DEF Init, HealthyPortNeverFaults
<1>2. ASSUME IInv, HealthyPortNeverFaults, [Next]_vars
      PROVE  HealthyPortNeverFaults'
  <2> SUFFICES ASSUME ~Errors, ~InitMayFail
               PROVE  portState' # "FAULTY"
    BY DEF HealthyPortNeverFaults
  <2>1. portState # "FAULTY"
    BY <1>2 DEF HealthyPortNeverFaults
  <2>2. CASE Decide
    <3>1. bmcDataSetComparison(Own, foreign[best], parentDS.clockIdentity) # 0
      BY <1>2, <2>2, RecordsAreAnnounces DEF Decide, ToldFromOwn
    <3>2. QED
      BY <1>2, <2>2, <3>1, DecisionInstallsParent
  <2>3. CASE ~Decide
    BY <1>2, <2>1, <2>3
       DEF Next, Engine, Decision, Receive, Timeouts, doInit, doInitFails,
           NoDecision, KeepMaster, StartBmc, ScanForeign, FaultCleared,
           HandleInterrupted, HandleEmpty, HandleError, HandleOther,
           handleAnnounce, AnnounceReceipt, issueDelay, issueSync,
           issueAnnounce, issuePDelay, Issue, Demote, Tick, FallSilent, Stopped,
           vars, toState, toOtherState
  <2>4. QED
    BY <2>2, <2>3
<1>3. QED
  BY <1>1, <1>2, InductiveInvariant, PTL DEF Spec

-------------------------------------------------------------------------------
(* What the order needs of a network: ordinary clocks, one data set each.    *)
OrdinaryNetwork ==
    /\ \A m \in Announce : OrdinaryClock(m)
    /\ \A m, n \in Announce : m.clockIdentity = n.clockIdentity => m = n

(* On a network of ordinary clocks no record bmc() has passed is better than *)
(* the one it holds as best: the loop finds an undominated record although   *)
(* it compares each record with a single other one.                          *)
THEOREM ScanHoldsBest ==
    ASSUME OrdinaryNetwork
    PROVE  Spec => []BestSoFar
<1>1. Init => BestSoFar
  BY DEF Init, BestSoFar
<1>2. ASSUME IInv, BestSoFar, [Next]_vars
      PROVE  BestSoFar'
  <2> DEFINE p == parentDS.clockIdentity
             F(j) == foreign[j]
  <2>0. \A m, n : Better(m, n) <=> bmcDataSetComparison(m, n, p) < 0
    BY DEF Better
  <2>1. \A j \in Nat : j < number_foreign_records => F(j) \in Announce
    BY <1>2, RecordsAreAnnounces
  <2>2. scan \in Nat /\ number_foreign_records \in Nat
    BY <1>2 DEF IInv, TypeOK
  <2>3. \A m \in Announce : ~Better(m, m)
    BY <2>0, ComparisonAntisymmetric, ComparisonRange, AnnounceAssumption
  <2>4. ASSUME NEW l \in Announce, NEW m \in Announce, NEW n \in Announce,
               Better(l, m), Better(m, n)
        PROVE  Better(l, n)
    BY <2>0, <2>4, BetterTransitive, AnnounceAssumption DEF OrdinaryNetwork
  <2>5. CASE ScanForeign
    <3>1. /\ pc = "bmc" /\ scan < number_foreign_records
          /\ scan' = scan + 1
          /\ best' = IF Better(F(scan), F(best)) THEN scan ELSE best
          /\ UNCHANGED <<foreign, number_foreign_records, parentDS>>
      BY <2>5 DEF ScanForeign, table, dataSets
    <3>2. F(best) \in Announce /\ F(scan) \in Announce
      BY <1>2, <2>1, <2>2, <3>1, RecordsAreAnnounces
    <3>3. ASSUME NEW j \in 0 .. scan, j < number_foreign_records
          PROVE  ~Better(F(j), F(best'))
      <4>1. F(j) \in Announce
        BY <2>1, <2>2, <3>3
      <4>2. CASE Better(F(scan), F(best))
        <5>1. best' = scan
          BY <3>1, <4>2
        <5>2. CASE j = scan
          BY <2>3, <3>2, <5>1, <5>2
        <5>3. CASE j # scan
          <6>1. ~Better(F(j), F(best))
            BY <1>2, <2>2, <3>1, <3>3, <5>3 DEF BestSoFar
          <6>2. QED
            BY <2>4, <3>2, <4>1, <4>2, <5>1, <6>1
        <5>4. QED
          BY <5>2, <5>3
      <4>3. CASE ~Better(F(scan), F(best))
        <5>1. best' = best
          BY <3>1, <4>3
        <5>2. CASE j = scan
          BY <4>3, <5>1, <5>2
        <5>3. CASE j # scan
          BY <1>2, <2>2, <3>1, <3>3, <5>1, <5>3 DEF BestSoFar
        <5>4. QED
          BY <5>2, <5>3
      <4>4. QED
        BY <4>2, <4>3
    <3>4. \A m, n : Better(m, n)' <=> bmcDataSetComparison(m, n, p) < 0
      BY <3>1 DEF Better
    <3>5. QED
      BY <2>0, <2>2, <3>1, <3>3 DEF BestSoFar, Better
  <2>6. CASE StartBmc
    <3>1. foreign[0] \in Announce
      BY <1>2, <2>6, RecordsAreAnnounces
         DEF StartBmc, DecisionPending, IInv, FirstRecorded
    <3>2. /\ scan' = 1 /\ best' = 0
          /\ UNCHANGED <<foreign, number_foreign_records, parentDS>>
      BY <2>6 DEF StartBmc, table
    <3>3. \A j \in 0 .. scan' - 1 : j = 0
      BY <3>2
    <3>4. ~Better(foreign[0], foreign[0])
      BY <2>3, <3>1
    <3>5. QED
      BY <3>2, <3>3, <3>4 DEF BestSoFar, Better
  <2>7. CASE /\ pc' = "bmc" => pc = "bmc"
             /\ pc' = "bmc" => UNCHANGED <<foreign, number_foreign_records,
                                           parentDS, scan, best>>
    BY <1>2, <2>7 DEF BestSoFar, Better
  <2>8. \/ StartBmc \/ ScanForeign
        \/ pc' # "bmc"
        \/ pc = "bmc" /\ UNCHANGED <<foreign, number_foreign_records, parentDS,
                                     scan, best>>
    BY <1>2
       DEF Next, Engine, Decision, Receive, Timeouts, doInit, doInitFails,
           NoDecision, KeepMaster, Decide, FaultCleared, HandleInterrupted,
           HandleEmpty, HandleError, HandleOther, handleAnnounce, AfterHandle,
           AnnounceReceipt, issueDelay, issueSync, issueAnnounce, issuePDelay,
           Issue, Demote, Tick, FallSilent, Stopped, vars, table, dataSets,
           locals, Branch
  <2>9. QED
    BY <2>5, <2>6, <2>7, <2>8
<1>3. QED
  BY <1>1, <1>2, InductiveInvariant, PTL DEF Spec

-------------------------------------------------------------------------------
(* The port implements Election, on a reliable network with room for all     *)
(* masters. IInv is not enough for it: that bmc() elects one of the masters  *)
(* heard needs the records to be these masters, and that it has one to elect *)
(* needs the port state to be tied to the position in doState().             *)

(* Every master there is has room in the table.                              *)
RoomForAll == IsFiniteSet(Announce) /\ Cardinality(Announce) <= MaxForeign

(* Where in doState() a port that does not fault can be in which state.      *)
StateAtStep ==
    /\ portState # "FAULTY" /\ pc \notin {"fault", "stopped"}
    /\ portState = "INITIALIZING" => pc = "loop" /\ number_foreign_records = 0
    /\ pc \in {"handle", "receipt"} => portState \in {"LISTENING", "PASSIVE", "SLAVE"}
    /\ pc \in {"sync", "announce", "pdelay", "mhandle", "demote"} =>
          portState = "MASTER"
    /\ pc = "bmc" => number_foreign_records > 0 \/ portState # "MASTER"

(* A port that follows by choice has a record to choose.                     *)
FollowerHasRecord ==
    portState \in {"SLAVE", "PASSIVE"} => slaveOnly \/ number_foreign_records > 0

(* The records are the masters heard, one each, from slot 0 on.              *)
OneRecordEach ==
    /\ foreign_record_i =
          IF number_foreign_records < MaxForeign THEN number_foreign_records ELSE 0
    /\ \A j, k \in 0 .. number_foreign_records - 1 :
          foreign[j] = foreign[k] => j = k

Healthy == StateAtStep /\ FollowerHasRecord /\ OneRecordEach

(* addForeign() looks at every record wherever it starts.                    *)
LEMMA ProbesAllRecords ==
    ASSUME IInv, pc \in {"handle", "mhandle"},
           NEW j \in 0 .. number_foreign_records - 1
    PROVE  \E k \in 0 .. number_foreign_records - 1 : Probe(k) = j
<1> DEFINE n == number_foreign_records
           b == foreign_record_best
<1>1. n \in Nat /\ b \in Nat /\ n > 0 /\ b < n /\ j \in Nat /\ j < n
  BY MaxForeignAssumption
     DEF IInv, TypeOK, Slot, NothingPending, BestIndexInTable
<1> HIDE DEF n, b
<1>2. CASE j = b
  BY <1>1, <1>2 DEF Probe, n, b
<1>3. CASE j > b
  <2>1. (b + (j - b)) % n = j
    BY <1>1, <1>3
  <2>2. Probe(j - b) = j
    BY <1>1, <1>3, <2>1 DEF Probe, n, b
  <2>3. j - b \in 0 .. n - 1
    BY <1>1, <1>3
  <2>4. QED
    BY <2>2, <2>3 DEF n
<1>4. CASE j < b
  <2>1. (j + n) % n = j
    BY <1>1
  <2>2. b + (j - b + n) = j + n /\ j - b + n # 0
    BY <1>1, <1>4
  <2>3. Probe(j - b + n) = j
    BY <2>1, <2>2 DEF Probe, n, b
  <2>4. j - b + n \in 0 .. n - 1
    BY <1>1, <1>4
  <2>5. QED
    BY <2>3, <2>4 DEF n
<1>5. QED
  BY <1>1, <1>2, <1>3, <1>4

(* The sender of an announce is known if and only if it has a record, and it *)
(* has one if the table is full.                                             *)
LEMMA SenderRecorded ==
    ASSUME IInv, Healthy, OrdinaryNetwork, RoomForAll,
           pc \in {"handle", "mhandle"}, NEW m \in Announce
    PROVE  /\ \A k \in Known(m) :
                 /\ Probe(k) \in 0 .. number_foreign_records - 1
                 /\ foreign[Probe(k)] = m
           /\ Known(m) = {} =>
                 /\ \A j \in 0 .. number_foreign_records - 1 : foreign[j] # m
                 /\ number_foreign_records < MaxForeign
<1> DEFINE n == number_foreign_records
           b == foreign_record_best
<1>1. n \in Nat /\ n <= MaxForeign /\ b \in Nat /\ MaxForeign \in Nat
      /\ (n > 0 => b < n)
  BY MaxForeignAssumption
     DEF IInv, TypeOK, Slot, NothingPending, BestIndexInTable
<1>2. \A j \in 0 .. n - 1 : foreign[j] \in Announce
  BY <1>1, RecordsAreAnnounces
<1> HIDE DEF n, b
<1>3. ASSUME NEW k \in 0 .. n - 1
      PROVE  Probe(k) \in 0 .. n - 1
  BY <1>1, <1>3 DEF Probe, n, b
<1>4. ASSUME NEW k \in Known(m)
      PROVE  Probe(k) \in 0 .. n - 1 /\ foreign[Probe(k)] = m
  <2>1. k \in 0 .. n - 1 /\ SamePort(foreign[Probe(k)], m)
    BY <1>4 DEF Known, n
  <2>2. Probe(k) \in 0 .. n - 1
    BY <1>3, <2>1
  <2>3. QED
    BY <1>2, <2>1, <2>2 DEF SamePort, OrdinaryNetwork
<1>5. ASSUME Known(m) = {}
      PROVE  \A j \in 0 .. n - 1 : foreign[j] # m
  <2>1. SUFFICES ASSUME NEW j \in 0 .. n - 1, foreign[j] = m
                 PROVE  FALSE
    OBVIOUS
  <2>2. PICK k \in 0 .. n - 1 : Probe(k) = j
    BY ProbesAllRecords DEF n
  <2>3. k \in Known(m)
    BY <2>1, <2>2 DEF Known, SamePort, n
  <2>4. QED
    BY <1>5, <2>3
<1>6. ASSUME Known(m) = {}
      PROVE  n < MaxForeign
  <2>1. SUFFICES ASSUME n = MaxForeign
                 PROVE  FALSE
    BY <1>1
  <2> DEFINE f == [j \in 0 .. n |-> IF j = n THEN m ELSE foreign[j]]
  <2>2. f \in [0 .. n -> Announce]
    BY <1>1, <1>2
  <2>3. IsFiniteSet(0 .. n) /\ Cardinality(0 .. n) = n + 1
    BY <1>1, FS_Interval
  <2>4. Cardinality(Announce) < Cardinality(0 .. n)
    BY <1>1, <2>1, <2>3, FS_CardinalityType DEF RoomForAll
  <2>5. PICK x \in 0 .. n, y \in 0 .. n : x # y /\ f[x] = f[y]
    <3> HIDE DEF f
    <3>1. QED
      BY <2>2, <2>3, <2>4, FS_PigeonHole DEF RoomForAll
  <2>6. \A j, k \in 0 .. n - 1 : foreign[j] = foreign[k] => j = k
    BY DEF Healthy, OneRecordEach, n
  <2>7. QED
    BY <1>1, <1>5, <1>6, <2>5, <2>6
<1>7. QED
  BY <1>4, <1>5, <1>6 DEF n

-------------------------------------------------------------------------------
(* Sockets and messages are in order, and the network is one the decision    *)
(* and the table can tell apart and hold.                                    *)
Reliable ==
    /\ EthernetMode /\ ~Errors /\ ~InitMayFail
    /\ ToldFromOwn /\ OrdinaryNetwork /\ RoomForAll

(* What addForeign() does to the table: nothing, or a new record at its end. *)
LEMMA AddForeignExtends ==
    ASSUME IInv, Healthy, Reliable,
           pc \in {"handle", "mhandle"}, NEW m \in Announce, addForeign(m)
    PROVE  LET n == number_foreign_records
           IN  \/ UNCHANGED table /\ \E j \in 0 .. n - 1 : foreign[j] = m
               \/ /\ \A j \in 0 .. n - 1 : foreign[j] # m /\ foreign'[j] = foreign[j]
                  /\ foreign'[n] = m
                  /\ n < MaxForeign
                  /\ number_foreign_records' = n + 1
                  /\ foreign_record_i' = IF n + 1 < MaxForeign THEN n + 1 ELSE 0
<1> DEFINE n == number_foreign_records
<1>1. /\ n \in Nat /\ n <= MaxForeign /\ MaxForeign \in Nat /\ MaxForeign > 0
      /\ foreign \in [Slot -> Announce \cup {NULL}]
      /\ \A j \in 0 .. n - 1 : j \in Slot
  BY MaxForeignAssumption DEF IInv, TypeOK, Slot
<1>2. foreign_record_i = IF n < MaxForeign THEN n ELSE 0
  BY DEF Healthy, OneRecordEach
<1> HIDE DEF n
<1>3. CASE Known(m) = {}
  <2>1. n < MaxForeign /\ \A j \in 0 .. n - 1 : foreign[j] # m
    BY <1>3, SenderRecorded DEF Reliable, n
  <2>2. /\ foreign' = [foreign EXCEPT ![n] = m]
        /\ number_foreign_records' = n + 1
        /\ foreign_record_i' = (n + 1) % MaxForeign
    BY <1>2, <1>3, <2>1 DEF addForeign, n
  <2>3. (n + 1) % MaxForeign = IF n + 1 < MaxForeign THEN n + 1 ELSE 0
    BY <1>1, <2>1
  <2>4. n \in Slot
    BY <1>1, <2>1 DEF Slot
  <2>5. foreign'[n] = m /\ \A j \in 0 .. n - 1 : foreign'[j] = foreign[j]
    BY <1>1, <2>2, <2>4
  <2>6. QED
    BY <2>1, <2>2, <2>3, <2>5 DEF n
<1>4. CASE Known(m) # {}
  <2>1. PICK k \in Known(m) : /\ foreign' = [foreign EXCEPT ![Probe(k)] = m]
                              /\ UNCHANGED <<number_foreign_records, foreign_record_i>>
    BY <1>4 DEF addForeign
  <2>2. Probe(k) \in 0 .. n - 1 /\ foreign[Probe(k)] = m
    BY SenderRecorded DEF Reliable, n
  <2>3. foreign' = foreign
    BY <1>1, <2>1, <2>2
  <2>4. QED
    BY <2>1, <2>2, <2>3 DEF table, n
<1>5. QED
  BY <1>3, <1>4

(* Healthy is kept by every step of a reliable port.                         *)
LEMMA HealthyStep ==
    ASSUME Reliable, IInv, Healthy, [Next]_vars
    PROVE  Healthy'
<1> USE DEF Healthy
<1>0. portState \in PortState /\ pc \in Step /\ slaveOnly' = slaveOnly
      /\ number_foreign_records \in Nat
  BY OptionKept DEF IInv, TypeOK
<1>1. CASE doInit
  <2>1. StateAtStep' /\ FollowerHasRecord'
    BY <1>1 DEF doInit, toState, StateAtStep, FollowerHasRecord
  <2>2. OneRecordEach'
    BY <1>1, MaxForeignAssumption DEF doInit, StateAtStep, OneRecordEach
  <2>3. QED
    BY <2>1, <2>2
<1>2. CASE AnnounceReceipt
  <2>1. StateAtStep' /\ FollowerHasRecord'
    BY <1>0, <1>2
       DEF AnnounceReceipt, toState, toOtherState, StateAtStep,
           FollowerHasRecord
  <2>2. OneRecordEach'
    BY <1>2, MaxForeignAssumption DEF AnnounceReceipt, OneRecordEach
  <2>3. QED
    BY <2>1, <2>2
<1>3. CASE Decide
  <2> DEFINE d == bmcStateDecision(foreign[best])
             c == bmcDataSetComparison(Own, foreign[best], parentDS.clockIdentity)
  <2>1. /\ portState' = d.state /\ pc' = Branch(d.state) /\ pc = "bmc"
        /\ UNCHANGED table
    BY <1>3, DecisionInstallsParent DEF Decide
  <2>2. c # 0
    BY <1>3, RecordsAreAnnounces DEF Decide, Reliable, ToldFromOwn
  <2>3. /\ d.state \in {"MASTER", "SLAVE", "PASSIVE", "LISTENING"}
        /\ d.state = "PASSIVE" => ~slaveOnly
    BY <1>3, <2>2, DecisionInstallsParent
  <2>4. ~slaveOnly /\ d.state \in {"SLAVE", "PASSIVE"} =>
           ~(number_foreign_records = 0 /\ portState = "LISTENING")
    BY DEF bmcStateDecision
  <2> HIDE DEF d, c
  <2>5. StateAtStep'
    BY <2>1, <2>3 DEF StateAtStep, Branch
  <2>6. FollowerHasRecord'
    BY <1>0, <2>1, <2>3, <2>4
       DEF FollowerHasRecord, StateAtStep, table, PortState
  <2>7. OneRecordEach'
    BY <2>1 DEF OneRecordEach, table
  <2>8. QED
    BY <2>5, <2>6, <2>7
<1>4. ASSUME NEW m \in alive, handleAnnounce(m)
      PROVE  Healthy'
  <2>1. m \in Announce /\ pc \in {"handle", "mhandle"}
    BY <1>4 DEF IInv, TypeOK, handleAnnounce, AfterHandle
  <2>2. portState' = portState
    BY <1>4 DEF handleAnnounce
  <2>3. UNCHANGED table \/ addForeign(m)
    BY <1>4 DEF handleAnnounce
  <2>4. number_foreign_records > 0 => number_foreign_records' > 0
    BY <1>0, <2>1, <2>3, AddForeignExtends DEF table
  <2>5. StateAtStep' /\ FollowerHasRecord'
    BY <1>0, <1>4, <2>1, <2>2, <2>4
       DEF handleAnnounce, AfterHandle, StateAtStep, FollowerHasRecord
  <2>6. CASE UNCHANGED table
    BY <2>5, <2>6 DEF OneRecordEach, table
  <2>7. CASE ~UNCHANGED table
    <3> DEFINE n == number_foreign_records
    <3>1. /\ \A j \in 0 .. n - 1 : foreign[j] # m /\ foreign'[j] = foreign[j]
          /\ foreign'[n] = m
          /\ number_foreign_records' = n + 1
          /\ foreign_record_i' = IF n + 1 < MaxForeign THEN n + 1 ELSE 0
      BY <2>1, <2>3, <2>7, AddForeignExtends
    <3>2. \A j, k \in 0 .. n - 1 : foreign[j] = foreign[k] => j = k
      BY DEF OneRecordEach
    <3>3. \A j \in 0 .. n : j = n \/ j \in 0 .. n - 1
      BY <1>0
    <3> HIDE DEF n
    <3>4. \A j, k \in 0 .. n : foreign'[j] = foreign'[k] => j = k
      BY <3>1, <3>2, <3>3
    <3>5. OneRecordEach'
      BY <1>0, <3>1, <3>4 DEF OneRecordEach, n
    <3>6. QED
      BY <2>5, <3>5
  <2>8. QED
    BY <2>6, <2>7
<1>5. CASE UNCHANGED table /\ ~doInit /\ ~AnnounceReceipt /\ ~Decide
           /\ \A m \in alive : ~handleAnnounce(m)
  <2>1. SUFFICES StateAtStep' /\ FollowerHasRecord'
    BY <1>5 DEF OneRecordEach, table
  <2>2. number_foreign_records' = number_foreign_records
    BY <1>5 DEF table
  <2>3. CASE Decision
    <3>1. CASE NoDecision
      BY <1>0, <2>2, <3>1
         DEF NoDecision, Branch, PortState, StateAtStep, FollowerHasRecord
    <3>2. CASE KeepMaster
      BY <1>0, <2>2, <3>2
         DEF KeepMaster, Branch, StateAtStep, FollowerHasRecord
    <3>3. CASE StartBmc \/ ScanForeign
      BY <1>0, <2>2, <3>3
         DEF StartBmc, ScanForeign, DecisionPending, StateAtStep,
             FollowerHasRecord
    <3>4. QED
      BY <1>5, <2>3, <3>1, <3>2, <3>3 DEF Decision
  <2>4. CASE Receive
    BY <1>0, <1>5, <2>2, <2>4
       DEF Receive, HandleInterrupted, HandleEmpty, HandleError, HandleOther,
           AfterHandle, Reliable, StateAtStep, FollowerHasRecord
  <2>5. CASE Timeouts
    BY <1>0, <1>5, <2>2, <2>5
       DEF Timeouts, issueDelay, issueSync, issueAnnounce, issuePDelay, Issue,
           Demote, toState, StateAtStep, FollowerHasRecord
  <2>6. CASE doInitFails \/ FaultCleared \/ UNCHANGED <<pc, portState>>
    BY <1>0, <2>2, <2>6
       DEF doInitFails, FaultCleared, Reliable, StateAtStep, FollowerHasRecord
  <2>7. QED
    BY <1>5, <2>3, <2>4, <2>5, <2>6
       DEF Next, Engine, Tick, FallSilent, Stopped, vars
<1>6. QED
  BY <1>1, <1>2, <1>3, <1>4, <1>5, TableActions

-------------------------------------------------------------------------------
(* The definitions Election takes from Bmc are those of Port.                *)
LEMMA RolesAgree ==
    /\ \A A, B, p : Promise!bmcDataSetComparison(A, B, p)
                       = bmcDataSetComparison(A, B, p)
    /\ \A m : Promise!s1(m) = s1(m)
    /\ \A m, n : Promise!SamePort(m, n) <=> SamePort(m, n)
<1>1. \A A, B, p : Promise!bmcDataSetComparison(A, B, p)
                     = bmcDataSetComparison(A, B, p)
  BY DEF Promise!bmcDataSetComparison, bmcDataSetComparison,
         Promise!SameGrandmaster, SameGrandmaster, Promise!OtherGrandmaster,
         OtherGrandmaster, Promise!Lex, Lex, Promise!memcmp, memcmp
<1>2. QED
  BY <1>1 DEF Promise!s1, s1, Promise!SamePort, SamePort

(* The masters a port knows are those of its records, and a decision is      *)
(* pending until bmc() has ended its loop.                                   *)
Heard == {foreign[j] : j \in 0 .. number_foreign_records - 1}
Pending == record_update \/ pc = "bmc"

ElectorRecord ==
    [ slaveOnly : BOOLEAN, portState : PortState,
      parentDS : AnnounceRecord \cup {NULL}, known : SUBSET Announce,
      pending : BOOLEAN ]

LEMMA ElectorTyped == IInv => Elector \in ElectorRecord
<1> SUFFICES ASSUME IInv
             PROVE  Elector \in ElectorRecord
  OBVIOUS
<1>1. Heard \subseteq Announce
  BY RecordsAreAnnounces DEF Heard, IInv, TypeOK
<1>2. slaveOnly \in BOOLEAN /\ portState \in PortState
      /\ parentDS \in AnnounceRecord \cup {NULL}
  BY ModeAssumption DEF IInv, TypeOK
<1>3. Pending \in BOOLEAN
  BY DEF Pending
<1>4. QED
  BY <1>1, <1>2, <1>3 DEF Elector, ElectorRecord, Heard, Pending

LEMMA ElectorFields ==
    /\ Elector.slaveOnly = slaveOnly /\ Elector.portState = portState
    /\ Elector.parentDS = parentDS /\ Elector.known = Heard
    /\ Elector.pending = Pending
  BY DEF Elector, Heard, Pending

LEMMA ElectorTypedNext ==
    ASSUME IInv'
    PROVE  Elector' \in ElectorRecord
<1>1. (Elector \in ElectorRecord)'
  BY ElectorTyped, PTL
<1>2. QED
  BY <1>1 DEF ElectorRecord

(* A port is told by these fields.                                           *)
LEMMA SameElector ==
    ASSUME NEW s \in ElectorRecord, NEW t \in ElectorRecord,
           s.slaveOnly = t.slaveOnly, s.portState = t.portState,
           s.parentDS = t.parentDS, s.known = t.known, s.pending = t.pending
    PROVE  s = t
  BY DEF ElectorRecord

(* The decision of bmc() is one of those Election allows.                    *)
LEMMA DecisionPromised ==
    ASSUME Reliable, IInv, IInv', Healthy, BestSoFar, Decide
    PROVE  Promise!Decide
<1> DEFINE m == foreign[best]
           d == bmcStateDecision(m)
           c == bmcDataSetComparison(Own, m, parentDS.clockIdentity)
           s == Elector
<1>1. /\ portState' = d.state /\ parentDS' = d.ds /\ pc' = Branch(d.state)
      /\ pc = "bmc" /\ scan >= number_foreign_records
      /\ UNCHANGED <<slaveOnly, foreign, number_foreign_records, record_update>>
  BY DecisionInstallsParent DEF Decide, table, world
<1>2. m \in Announce /\ Pending = TRUE /\ Pending' = FALSE
  BY <1>1, RecordsAreAnnounces DEF IInv, NothingPending, Branch, Pending
<1>3. Heard' = Heard
  BY <1>1 DEF Heard
<1>4. /\ s.slaveOnly = slaveOnly /\ s.portState = portState
      /\ s.parentDS = parentDS /\ s.known = Heard /\ s.pending
  BY <1>2, ElectorFields
<1>5. /\ Elector' = [s EXCEPT !.pending = FALSE, !.portState = d.state,
                              !.parentDS = d.ds]
      /\ d.state = portState /\ d.ds = parentDS =>
            Elector' = [s EXCEPT !.pending = FALSE]
  <2> DEFINE t == [s EXCEPT !.pending = FALSE, !.portState = d.state,
                            !.parentDS = d.ds]
             u == [s EXCEPT !.pending = FALSE]
  <2>1. s \in ElectorRecord /\ Elector' \in ElectorRecord
    BY ElectorTyped, ElectorTypedNext
  <2>2. /\ Elector'.slaveOnly = s.slaveOnly /\ Elector'.portState = d.state
        /\ Elector'.parentDS = d.ds /\ Elector'.known = s.known
        /\ Elector'.pending = FALSE
    BY <1>1, <1>2, <1>3, <1>4 DEF Elector, Heard, Pending
  <2>3. d.state \in PortState /\ d.ds \in AnnounceRecord \cup {NULL}
    BY <1>1 DEF IInv, TypeOK
  <2> HIDE DEF s, d
  <2>4. /\ t \in ElectorRecord /\ t.slaveOnly = s.slaveOnly
        /\ t.portState = d.state /\ t.parentDS = d.ds
        /\ t.known = s.known /\ t.pending = FALSE
    BY <2>1, <2>3 DEF ElectorRecord
  <2>5. /\ u \in ElectorRecord /\ u.slaveOnly = s.slaveOnly
        /\ u.portState = s.portState /\ u.parentDS = s.parentDS
        /\ u.known = s.known /\ u.pending = FALSE
    BY <2>1 DEF ElectorRecord
  <2> HIDE DEF t, u
  <2>6. Elector' = t
    BY <2>1, <2>2, <2>4, SameElector
  <2>7. d.state = portState /\ d.ds = parentDS => Elector' = u
    BY <1>4, <2>1, <2>2, <2>5, SameElector
  <2>8. QED
    BY <2>6, <2>7 DEF t, u
<1>6. portState \in Promise!Deciding
  BY <1>1 DEF Healthy, StateAtStep, IInv, TypeOK, PortState, Promise!Deciding
<1>7. number_foreign_records \in Nat /\ best \in Nat
  BY MaxForeignAssumption DEF IInv, TypeOK, Slot
<1>8. c # 0
  BY <1>2 DEF Reliable, ToldFromOwn
<1> HIDE DEF s, m, c
<1>9. CASE number_foreign_records > 0
  <2>1. best \in 0 .. number_foreign_records - 1
    BY <1>1, <1>7, <1>9 DEF IInv, BestInTable
  <2>2. m \in Heard
    BY <2>1 DEF Heard, m
  <2>3. ASSUME NEW k \in Heard
        PROVE  ~(bmcDataSetComparison(k, m, parentDS.clockIdentity) < 0)
    <3>1. PICK j \in 0 .. number_foreign_records - 1 : k = foreign[j]
      BY <2>3 DEF Heard
    <3>2. j \in 0 .. scan - 1 /\ j < number_foreign_records
      BY <1>1, <1>7, <3>1 DEF IInv, TypeOK
    <3>3. QED
      BY <1>1, <3>1, <3>2 DEF BestSoFar, Better, m
  <2>4. m \in Promise!Undominated(s)
    BY <1>4, <2>2, <2>3, RolesAgree DEF Promise!Undominated
  <2>5. /\ slaveOnly => d.state = "SLAVE" /\ d.ds = s1(m)
        /\ ~slaveOnly /\ c < 0 => d.state = "MASTER" /\ d.ds = Own
        /\ ~slaveOnly /\ ~(c < 0) /\ c > 0 =>
              /\ d.state = IF Own.clockClass < 128 THEN "PASSIVE" ELSE "SLAVE"
              /\ d.ds = s1(m)
    BY <1>7, <1>9 DEF bmcStateDecision, c
  <2>6. c < 0 \/ c > 0
    BY <1>2, <1>8, ComparisonRange, OwnAssumption, AnnounceAssumption DEF c
  <2> HIDE DEF d
  <2>7. Elector' \in Promise!decidedOn(Own, s, m)
    BY <1>4, <1>5, <2>5, <2>6, RolesAgree
       DEF Promise!decidedOn, Promise!follow, c
  <2>8. QED
    BY <1>4, <1>6, <2>2, <2>4, <2>7 DEF Promise!Decide, Promise!decided, s
<1>10. CASE number_foreign_records = 0
  <2>1. Heard = {}
    BY <1>10 DEF Heard
  <2>2. portState # "MASTER" /\ (~slaveOnly => portState = "LISTENING")
    BY <1>1, <1>6, <1>10
       DEF Healthy, StateAtStep, FollowerHasRecord, Promise!Deciding
  <2>3. /\ slaveOnly => d.state = "SLAVE" /\ d.ds = s1(m)
        /\ ~slaveOnly => d.state = "LISTENING" /\ d.ds = parentDS
    BY <1>10, <2>2 DEF bmcStateDecision
  <2> HIDE DEF d
  <2>4. CASE slaveOnly
    <3>1. Elector' = Promise!follow(s, "SLAVE", m)
      BY <1>5, <2>3, <2>4, RolesAgree DEF Promise!follow
    <3>2. QED
      BY <1>2, <1>4, <1>6, <2>1, <2>2, <2>4, <3>1
         DEF Promise!Decide, Promise!decided, s
  <2>5. CASE ~slaveOnly
    <3>1. Elector' = [s EXCEPT !.pending = FALSE]
      BY <1>5, <2>2, <2>3, <2>5
    <3>2. QED
      BY <1>4, <1>6, <2>1, <2>2, <2>5, <3>1
         DEF Promise!Decide, Promise!decided, s
  <2>6. QED
    BY <2>4, <2>5
<1>11. QED
  BY <1>7, <1>9, <1>10

(* doInit() starts the port with no master known.                            *)
LEMMA StartPromised ==
    ASSUME IInv, IInv', doInit
    PROVE  Promise!Start
<1> DEFINE s == Elector
           t == [s EXCEPT !.portState = "LISTENING", !.parentDS = Own, !.known = {}]
<1>1. s \in ElectorRecord /\ Elector' \in ElectorRecord
  BY ElectorTyped, ElectorTypedNext
<1>2. s.portState = "INITIALIZING"
  BY ElectorFields DEF doInit
<1>3. /\ Elector'.slaveOnly = s.slaveOnly /\ Elector'.portState = "LISTENING"
      /\ Elector'.parentDS = Own /\ Elector'.known = {}
      /\ Elector'.pending = s.pending
  BY DEF doInit, toState, world, Elector
<1> HIDE DEF s
<1>4. t \in ElectorRecord /\ t.slaveOnly = s.slaveOnly
      /\ t.portState = "LISTENING" /\ t.parentDS = Own /\ t.known = {}
      /\ t.pending = s.pending
  BY <1>1, OwnAssumption DEF ElectorRecord, PortState
<1> HIDE DEF t
<1>5. Elector' = t
  BY <1>1, <1>3, <1>4, SameElector
<1>6. QED
  BY <1>2, <1>5 DEF Promise!Start, Promise!started, s, t

(* KeepMaster is the decision of a master that knows no other.               *)
LEMMA MasterPromised ==
    ASSUME IInv, IInv', KeepMaster
    PROVE  Promise!Decide
<1> DEFINE s == Elector
           t == [s EXCEPT !.pending = FALSE, !.parentDS = Own]
<1>1. s \in ElectorRecord /\ Elector' \in ElectorRecord
  BY ElectorTyped, ElectorTypedNext
<1>2. s.portState = "MASTER" /\ s.pending /\ s.known = {}
  <2>1. Heard = {} /\ Pending /\ portState = "MASTER"
    BY DEF KeepMaster, DecisionPending, Heard, Pending
  <2>2. QED
    BY <2>1, ElectorFields
<1>3. /\ Elector'.slaveOnly = s.slaveOnly /\ Elector'.portState = s.portState
      /\ Elector'.parentDS = Own /\ Elector'.known = s.known
      /\ Elector'.pending = FALSE
  BY DEF KeepMaster, Branch, table, world, Elector
<1> HIDE DEF s
<1>4. t \in ElectorRecord /\ t.slaveOnly = s.slaveOnly
      /\ t.portState = s.portState /\ t.parentDS = Own /\ t.known = s.known
      /\ t.pending = FALSE
  BY <1>1, OwnAssumption DEF ElectorRecord
<1> HIDE DEF t
<1>5. Elector' = t
  BY <1>1, <1>3, <1>4, SameElector
<1>6. QED
  BY <1>2, <1>5
     DEF Promise!Decide, Promise!decided, Promise!Deciding, s, t

(* handleAnnounce() adds the sender to the masters known.                    *)
LEMMA HearingPromised ==
    ASSUME Reliable, IInv, IInv', Healthy, NEW m \in alive, handleAnnounce(m)
    PROVE  Promise!Hear
<1> DEFINE s == Elector
           t == [s EXCEPT !.pending = TRUE, !.parentDS = s1(m)]
           u == [s EXCEPT !.pending = TRUE, !.known = @ \cup {m}]
<1>1. s \in ElectorRecord /\ Elector' \in ElectorRecord
  BY ElectorTyped, ElectorTypedNext
<1>2. m \in Announce /\ s1(m) \in AnnounceRecord
  BY ParentOfRecord DEF IInv, TypeOK
<1>3. pc \in {"handle", "mhandle"} /\ pc' # "bmc" /\ record_update'
  BY DEF handleAnnounce, AfterHandle
<1>4. s.portState \in Promise!Deciding /\ ~s.pending
  BY <1>3
     DEF Healthy, StateAtStep, IInv, NothingPending, Promise!Deciding, Elector
<1>5. /\ Elector'.slaveOnly = s.slaveOnly /\ Elector'.portState = s.portState
      /\ Elector'.pending = TRUE /\ Elector'.parentDS = parentDS'
      /\ Elector'.known = Heard' /\ s.known = Heard
      /\ s.portState = portState /\ s.parentDS = parentDS
  BY <1>3 DEF handleAnnounce, Elector, Heard
<1> HIDE DEF s
<1>6. /\ t \in ElectorRecord /\ t.slaveOnly = s.slaveOnly
      /\ t.portState = s.portState /\ t.parentDS = s1(m) /\ t.known = s.known
      /\ t.pending = TRUE
  BY <1>1, <1>2 DEF ElectorRecord
<1>7. /\ u \in ElectorRecord /\ u.slaveOnly = s.slaveOnly
      /\ u.portState = s.portState /\ u.parentDS = s.parentDS
      /\ u.known = s.known \cup {m} /\ u.pending = TRUE
  BY <1>1, <1>2 DEF ElectorRecord
<1> HIDE DEF t, u
<1>8. CASE portState = "SLAVE" /\ SamePort(parentDS, m)
  <2>1. parentDS' = s1(m) /\ Heard' = Heard
    BY <1>8 DEF handleAnnounce, table, Heard
  <2>2. Elector' = t
    BY <1>1, <1>5, <1>6, <2>1, SameElector
  <2>3. QED
    BY <1>2, <1>4, <1>5, <1>8, <2>2, RolesAgree
       DEF Promise!Hear, Promise!heard, s, t
<1>9. CASE ~(portState = "SLAVE" /\ SamePort(parentDS, m))
  <2>1. parentDS' = parentDS /\ addForeign(m)
    BY <1>9 DEF handleAnnounce
  <2>2. Heard' = Heard \cup {m}
    <3> DEFINE n == number_foreign_records
    <3>1. n \in Nat
      BY DEF IInv, TypeOK
    <3>2. CASE UNCHANGED table /\ \E j \in 0 .. n - 1 : foreign[j] = m
      BY <3>2 DEF table, Heard
    <3>3. CASE ~(UNCHANGED table /\ \E j \in 0 .. n - 1 : foreign[j] = m)
      <4>1. /\ \A j \in 0 .. n - 1 : foreign'[j] = foreign[j]
            /\ foreign'[n] = m
            /\ number_foreign_records' = n + 1
        BY <1>2, <1>3, <2>1, <3>3, AddForeignExtends
      <4>2. 0 .. n + 1 - 1 = (0 .. n - 1) \cup {n}
        BY <3>1
      <4> HIDE DEF n
      <4>3. QED
        BY <4>1, <4>2 DEF Heard, n
    <3>4. QED
      BY <3>2, <3>3
  <2>3. Elector' = u
    BY <1>1, <1>5, <1>7, <2>1, <2>2, SameElector
  <2>4. QED
    BY <1>2, <1>4, <1>5, <1>9, <2>3, RolesAgree
       DEF Promise!Hear, Promise!heard, s, u
<1>10. QED
  BY <1>8, <1>9

(* The receipt timeout makes the port forget the masters.                    *)
LEMMA TimeoutPromised ==
    ASSUME IInv, IInv', Healthy, AnnounceReceipt, Expired("ANNOUNCE_RECEIPT")
    PROVE  Promise!TimeOut
<1> DEFINE s == Elector
           t == [s EXCEPT !.portState = "MASTER", !.parentDS = Own, !.known = {}]
           u == [s EXCEPT !.portState = "LISTENING", !.known = {}]
           leads == ~slaveOnly /\ Own.clockClass # 255
<1>1. s \in ElectorRecord /\ Elector' \in ElectorRecord
  BY ElectorTyped, ElectorTypedNext
<1>2. s.portState \in Promise!Deciding \ {"MASTER"}
      /\ (Promise!MayBeMaster(Own, s) <=> leads)
  BY ElectorFields
     DEF AnnounceReceipt, Healthy, StateAtStep, Promise!Deciding,
         Promise!MayBeMaster
<1>3. /\ Elector'.slaveOnly = s.slaveOnly /\ Elector'.known = {}
      /\ Elector'.pending = s.pending
      /\ leads => Elector'.portState = "MASTER" /\ Elector'.parentDS = Own
      /\ ~leads => Elector'.portState = "LISTENING"
                   /\ Elector'.parentDS = s.parentDS
  BY DEF AnnounceReceipt, toOtherState, toState, world, Elector
<1> HIDE DEF s, leads
<1>4. /\ t \in ElectorRecord /\ t.slaveOnly = s.slaveOnly
      /\ t.portState = "MASTER" /\ t.parentDS = Own /\ t.known = {}
      /\ t.pending = s.pending
  BY <1>1, OwnAssumption DEF ElectorRecord, PortState
<1>5. /\ u \in ElectorRecord /\ u.slaveOnly = s.slaveOnly
      /\ u.portState = "LISTENING" /\ u.parentDS = s.parentDS /\ u.known = {}
      /\ u.pending = s.pending
  BY <1>1 DEF ElectorRecord, PortState
<1> HIDE DEF t, u
<1>6. leads => Elector' = t
  BY <1>1, <1>3, <1>4, SameElector
<1>7. ~leads => Elector' = u
  BY <1>1, <1>3, <1>5, SameElector
<1>8. QED
  BY <1>2, <1>6, <1>7 DEF Promise!TimeOut, Promise!timedOut, s, t, u

(* The end of doState() in MASTER.                                           *)
LEMMA DemotionPromised ==
    ASSUME IInv, IInv', Healthy, Demote, slaveOnly \/ Own.clockClass = 255
    PROVE  Promise!Demote
<1> DEFINE s == Elector
           t == [s EXCEPT !.portState = "LISTENING"]
<1>1. s \in ElectorRecord /\ Elector' \in ElectorRecord
  BY ElectorTyped, ElectorTypedNext
<1>2. s.portState = "MASTER" /\ ~Promise!MayBeMaster(Own, s)
  BY ElectorFields DEF Demote, Healthy, StateAtStep, Promise!MayBeMaster
<1>3. /\ Elector'.slaveOnly = s.slaveOnly /\ Elector'.portState = "LISTENING"
      /\ Elector'.parentDS = s.parentDS /\ Elector'.known = s.known
      /\ Elector'.pending = s.pending
  BY DEF Demote, toState, dataSets, table, world, Elector
<1> HIDE DEF s
<1>4. /\ t \in ElectorRecord /\ t.slaveOnly = s.slaveOnly
      /\ t.portState = "LISTENING" /\ t.parentDS = s.parentDS
      /\ t.known = s.known /\ t.pending = s.pending
  BY <1>1 DEF ElectorRecord, PortState
<1> HIDE DEF t
<1>5. Elector' = t
  BY <1>1, <1>3, <1>4, SameElector
<1>6. QED
  BY <1>2, <1>5 DEF Promise!Demote, Promise!demoted, s, t

(* All other steps of the port Election does not see.                        *)
LEMMA RestUnseen ==
    ASSUME Reliable, IInv, Healthy, [Next]_vars,
           ~doInit, ~KeepMaster, ~Decide, \A m \in alive : ~handleAnnounce(m),
           AnnounceReceipt => ~Expired("ANNOUNCE_RECEIPT"),
           Demote => ~(slaveOnly \/ Own.clockClass = 255)
    PROVE  UNCHANGED Elector
<1>1. UNCHANGED <<slaveOnly, portState, parentDS, foreign,
                  number_foreign_records>>
      /\ (Pending' <=> Pending)
  <2>1. CASE Decision
    BY <2>1
       DEF Decision, NoDecision, StartBmc, ScanForeign, Branch, dataSets, table,
           world, DecisionPending, Pending
  <2>2. CASE Receive
    BY <2>2
       DEF Receive, HandleInterrupted, HandleEmpty, HandleError, HandleOther,
           AfterHandle, catch_alarm, Reliable, dataSets, table, world, Pending
  <2>3. CASE Timeouts
    BY <2>3
       DEF Timeouts, AnnounceReceipt, issueDelay, issueSync, issueAnnounce,
           issuePDelay, Issue, Demote, dataSets, table, world, Pending
  <2>4. CASE doInitFails \/ FaultCleared \/ Tick
             \/ (\E m \in alive : FallSilent(m)) \/ UNCHANGED vars
    BY <2>4
       DEF doInitFails, FaultCleared, Tick, catch_alarm, FallSilent, vars,
           Reliable, Healthy, StateAtStep, dataSets, table, world, Pending
  <2>5. QED
    BY <2>1, <2>2, <2>3, <2>4 DEF Next, Engine, Stopped
<1>2. QED
  BY <1>1 DEF Elector, Pending

(* Every step of the port is one of Election or leaves it alone.             *)
LEMMA PromiseStep ==
    ASSUME Reliable, IInv, IInv', Healthy, BestSoFar, [Next]_vars
    PROVE  [Promise!Next]_Elector
<1>1. CASE doInit
  BY <1>1, StartPromised DEF Promise!Next
<1>2. CASE KeepMaster \/ Decide
  BY <1>2, MasterPromised, DecisionPromised DEF Promise!Next
<1>3. CASE \E m \in alive : handleAnnounce(m)
  BY <1>3, HearingPromised DEF Promise!Next
<1>4. CASE AnnounceReceipt /\ Expired("ANNOUNCE_RECEIPT")
  BY <1>4, TimeoutPromised DEF Promise!Next
<1>5. CASE Demote /\ (slaveOnly \/ Own.clockClass = 255)
  BY <1>5, DemotionPromised DEF Promise!Next
<1>6. QED
  BY <1>1, <1>2, <1>3, <1>4, <1>5, RestUnseen

(* Both start alike.                                                         *)
LEMMA PromiseInit == Init => Promise!Init
<1> SUFFICES ASSUME Init
             PROVE  Elector = Promise!NewPort(slaveOnly)
  BY DEF Promise!Init, Init
<1>1. {foreign[j] : j \in 0 .. 0 - 1} = {}
  OBVIOUS
<1>2. QED
  BY <1>1 DEF Init, Elector, Promise!NewPort

(* Healthy is an invariant of a reliable port.                               *)
LEMMA ReliablePortHealthy == ASSUME Reliable PROVE Spec => []Healthy
<1>1. Init => Healthy
  BY MaxForeignAssumption
     DEF Init, Healthy, StateAtStep, FollowerHasRecord, OneRecordEach
<1>2. QED
  BY <1>1, HealthyStep, InductiveInvariant, PTL DEF Spec

(* A port that does not fault implements Election: whatever the order of     *)
(* announces, timeouts and decisions, it elects as if its table were the set *)
(* of the masters heard.                                                     *)
THEOREM ElectionKept ==
    ASSUME Reliable PROVE Spec => KeepsPromise
<1>1. Spec => []BestSoFar
  BY ScanHoldsBest DEF Reliable
<1>2. QED
  BY <1>1, PromiseInit, PromiseStep, ReliablePortHealthy, InductiveInvariant,
     PTL DEF Spec, KeepsPromise, Promise!Spec

-------------------------------------------------------------------------------
(* Seconds of the current statement of doState() that may not be charged yet *)
(* when the punctual masters have announced all they owe.                    *)
Backlog(step) ==
    IF step \in {"announce", "pdelay", "mhandle", "delay"} THEN 0
    ELSE IF step = "receipt" THEN 2
    ELSE 1

(* No second passes before the announces of the last one have been handled,  *)
(* so the timers are never charged many seconds at once.                     *)
ChargedSoon ==
    \A m \in alive \cap Punctual :
        elapsed <= Backlog(pc) + (IF m \in due THEN 1 ELSE 0)

(* The receipt timer of a slave outlasts the seconds to charge, and one more *)
(* after the next announce.                                                  *)
ReceiptInTime ==
    portState = "SLAVE" =>
        \A m \in alive \cap Punctual :
            /\ ~itimer["ANNOUNCE_RECEIPT"].expire
            /\ itimer["ANNOUNCE_RECEIPT"].left
                  >= elapsed + (IF m \in due THEN 1 ELSE 2)

(* A slave by choice has heard a master better than its own clock.           *)
BetterThanOwn(m) ==
    OtherGrandmaster(Own, m) > 0 /\ m.grandmasterIdentity # Own.grandmasterIdentity
BetterHeard ==
    portState = "SLAVE" /\ ~slaveOnly =>
        Own.clockClass >= 128 /\ \E m \in Heard : BetterThanOwn(m)

(* The seconds to charge stay few.                                           *)
LEMMA ChargedSoonStep ==
    ASSUME IInv, ChargedSoon, [Next]_vars
    PROVE  ChargedSoon'
<1>1. elapsed \in Nat /\ \A st \in Step : Backlog(st) \in {0, 1, 2}
  BY DEF IInv, TypeOK, Backlog
<1>2. pc \in Step /\ pc' \in Step
  BY TypeStep DEF IInv, TypeOK
<1>3. ASSUME elapsed' = 0
      PROVE  ChargedSoon'
  BY <1>1, <1>2, <1>3 DEF ChargedSoon
<1>4. ASSUME UNCHANGED <<elapsed, alive, due>>, Backlog(pc) <= Backlog(pc')
      PROVE  ChargedSoon'
  <2> SUFFICES ASSUME NEW m \in alive \cap Punctual
               PROVE  elapsed <= Backlog(pc') + (IF m \in due THEN 1 ELSE 0)
    BY <1>4 DEF ChargedSoon
  <2>1. elapsed <= Backlog(pc) + (IF m \in due THEN 1 ELSE 0)
    BY DEF ChargedSoon
  <2>2. QED
    BY <1>1, <1>2, <1>4, <2>1
<1>5. ASSUME catch_alarm, Backlog(pc) <= Backlog(pc')
      PROVE  ChargedSoon'
  <2>1. /\ due = {} /\ elapsed' = elapsed + 1
        /\ due' = alive \cap Punctual /\ alive' = alive
    BY <1>5 DEF catch_alarm
  <2> SUFFICES ASSUME NEW m \in alive \cap Punctual
               PROVE  elapsed' <= Backlog(pc') + (IF m \in due' THEN 1 ELSE 0)
    BY <2>1 DEF ChargedSoon
  <2>2. elapsed <= Backlog(pc) + (IF m \in due THEN 1 ELSE 0)
    BY DEF ChargedSoon
  <2>3. QED
    BY <1>1, <1>2, <1>5, <2>1, <2>2
<1>6. ASSUME NEW x \in alive, handleAnnounce(x)
      PROVE  ChargedSoon'
  <2>1. elapsed' = elapsed /\ alive' = alive /\ due' = due \ {x}
        /\ Backlog(pc') = Backlog(pc) + 1
    BY <1>6 DEF handleAnnounce, AfterHandle, Backlog
  <2> SUFFICES ASSUME NEW m \in alive \cap Punctual
               PROVE  elapsed <= Backlog(pc') + (IF m \in due' THEN 1 ELSE 0)
    BY <2>1 DEF ChargedSoon
  <2>2. elapsed <= Backlog(pc) + (IF m \in due THEN 1 ELSE 0)
    BY DEF ChargedSoon
  <2>3. QED
    BY <1>1, <1>2, <2>1, <2>2
<1>7. ASSUME NEW x \in alive, FallSilent(x)
      PROVE  ChargedSoon'
  <2>1. elapsed' = elapsed /\ pc' = pc /\ alive' = alive \ {x}
        /\ due' = due \ {x}
    BY <1>7 DEF FallSilent, timers
  <2>2. \A m \in alive' : m \in alive /\ (m \in due' <=> m \in due)
    BY <2>1
  <2>3. QED
    BY <2>1, <2>2 DEF ChargedSoon
<1>8. CASE Decision \/ doInitFails \/ FaultCleared \/ Demote
  <2>1. UNCHANGED <<elapsed, alive, due>> /\ Backlog(pc) <= Backlog(pc')
    BY <1>8
       DEF Decision, NoDecision, KeepMaster, StartBmc, ScanForeign, Decide,
           doInitFails, FaultCleared, Demote, Branch, Backlog, timers, world
  <2>2. QED
    BY <1>4, <2>1
<1>9. CASE HandleInterrupted \/ HandleEmpty \/ HandleError \/ HandleOther
  <2>1. Backlog(pc) <= Backlog(pc')
    BY <1>9
       DEF HandleInterrupted, HandleEmpty, HandleError, HandleOther,
           AfterHandle, Backlog
  <2>2. catch_alarm \/ UNCHANGED <<elapsed, alive, due>>
    BY <1>9
       DEF HandleInterrupted, HandleEmpty, HandleError, HandleOther, timers,
           world
  <2>3. QED
    BY <1>4, <1>5, <2>1, <2>2
<1>10. CASE doInit \/ AnnounceReceipt \/ issueDelay \/ issueSync
            \/ issueAnnounce \/ issuePDelay
  BY <1>3, <1>10
     DEF doInit, AnnounceReceipt, issueDelay, issueSync, issueAnnounce,
         issuePDelay, Issue
<1>11. CASE Tick \/ UNCHANGED vars
  <2>1. pc' = pc /\ (catch_alarm \/ UNCHANGED <<elapsed, alive, due>>)
    BY <1>11 DEF Tick, vars, timers, world
  <2>2. QED
    BY <1>1, <1>2, <1>4, <1>5, <2>1
<1>12. QED
  BY <1>6, <1>7, <1>8, <1>9, <1>10, <1>11
     DEF Next, Engine, Receive, Timeouts, Stopped

(* Charging the receipt timer leaves it running when it has more to run than *)
(* is charged.                                                               *)
LEMMA ReceiptCharged ==
    ASSUME IInv, NEW k \in Nat \ {0},
           ~itimer["ANNOUNCE_RECEIPT"].expire,
           itimer["ANNOUNCE_RECEIPT"].left >= elapsed + k
    PROVE  /\ ~Charged["ANNOUNCE_RECEIPT"].expire
           /\ Charged["ANNOUNCE_RECEIPT"].left >= k
           /\ \A t \in Timer \ {"ANNOUNCE_RECEIPT"} :
                 Consume(t, Charged)["ANNOUNCE_RECEIPT"]
                    = Charged["ANNOUNCE_RECEIPT"]
<1> DEFINE r == itimer["ANNOUNCE_RECEIPT"]
<1>1. "ANNOUNCE_RECEIPT" \in Timer /\ elapsed \in Nat
      /\ r \in [interval : Nat, left : Nat, expire : BOOLEAN]
      /\ Charged \in TimerArray
  BY TimerOperationsTyped DEF IInv, TypeOK, TimerArray, Timer, Charged
<1>2. Charged["ANNOUNCE_RECEIPT"] = r
      \/ Charged["ANNOUNCE_RECEIPT"] = [r EXCEPT !.left = @ - elapsed]
  <2>1. r.left > elapsed
    BY <1>1
  <2>2. QED
    BY <1>1, <2>1 DEF Charged, TimerUpdate
<1>3. [r EXCEPT !.left = @ - elapsed].left = r.left - elapsed
      /\ [r EXCEPT !.left = @ - elapsed].expire = r.expire
  BY <1>1
<1>4. \A t \in Timer \ {"ANNOUNCE_RECEIPT"} :
         Consume(t, Charged)["ANNOUNCE_RECEIPT"] = Charged["ANNOUNCE_RECEIPT"]
  BY <1>1 DEF Consume, TimerArray
<1> HIDE DEF r
<1>5. r.left >= elapsed + k /\ ~r.expire
  BY DEF r
<1>6. QED
  BY <1>1, <1>2, <1>3, <1>4, <1>5

(* The receipt timer of a slave is started anew before it runs out.          *)
LEMMA ReceiptInTimeStep ==
    ASSUME Length["ANNOUNCE_RECEIPT"] >= 4, Reliable, IInv, IInv', Healthy,
           ChargedSoon, ReceiptInTime, [Next]_vars
    PROVE  ReceiptInTime'
<1> DEFINE R == "ANNOUNCE_RECEIPT"
<1>1. /\ elapsed \in Nat /\ elapsed' \in Nat /\ Length[R] \in Nat
      /\ \A st \in Step : Backlog(st) \in {0, 1, 2}
      /\ pc \in Step /\ R \in Timer
      /\ due \subseteq alive
  BY LengthAssumption DEF IInv, TypeOK, Backlog, UInteger16, Timer
<1>2. itimer[R].left \in Nat
  BY <1>1 DEF IInv, TypeOK, TimerArray
<1> SUFFICES ASSUME portState' = "SLAVE", NEW m \in alive' \cap Punctual
             PROVE  /\ ~itimer'[R].expire
                    /\ itimer'[R].left >= elapsed' + (IF m \in due' THEN 1 ELSE 2)
  BY DEF ReceiptInTime
<1>3. m \in alive \cap Punctual
  BY DEF Next, Engine, Decision, Receive, Timeouts, doInit, doInitFails,
         NoDecision, KeepMaster, StartBmc, ScanForeign, Decide, FaultCleared,
         HandleInterrupted, HandleEmpty, HandleError, HandleOther,
         handleAnnounce, AnnounceReceipt, issueDelay, issueSync, issueAnnounce,
         issuePDelay, Issue, Demote, Tick, catch_alarm, FallSilent, Stopped,
         vars, world
<1>4. elapsed <= Backlog(pc) + (IF m \in due THEN 1 ELSE 0)
  BY <1>3 DEF ChargedSoon
<1>5. portState = "SLAVE" =>
         /\ ~itimer[R].expire
         /\ itimer[R].left >= elapsed + (IF m \in due THEN 1 ELSE 2)
  BY <1>3 DEF ReceiptInTime
<1>6. ASSUME toState("SLAVE", itimer) \/ itimer' = TimerStart({R}, Length, itimer)
      PROVE  ~itimer'[R].expire /\ itimer'[R].left >= 4
  <2>1. \A S : \A tm : R \in S =>
           /\ ~TimerStart(S, Length, tm)[R].expire
           /\ TimerStart(S, Length, tm)[R].left >= 4
    BY <1>1 DEF TimerStart
  <2>2. R \in TimersOf("SLAVE")
    BY DEF TimersOf
  <2>3. QED
    BY <1>6, <2>1, <2>2 DEF toState
<1>7. CASE Decide
  <2>1. elapsed' = elapsed /\ due' = due /\ pc = "bmc"
    BY <1>7 DEF Decide, world
  <2>2. toOtherState("SLAVE", itimer)
    BY <1>7, DecisionInstallsParent DEF Decide
  <2>3. CASE portState = "SLAVE"
    BY <1>5, <2>1, <2>2, <2>3 DEF toOtherState
  <2>4. CASE portState # "SLAVE"
    <3>1. itimer'[R].left >= 4 /\ ~itimer'[R].expire
      BY <1>6, <2>2, <2>4 DEF toOtherState
    <3>2. itimer'[R].left \in Nat
      BY <1>1 DEF IInv, TypeOK, TimerArray
    <3>3. elapsed <= 1 + (IF m \in due THEN 1 ELSE 0)
      BY <1>4, <2>1 DEF Backlog
    <3>4. QED
      BY <1>1, <2>1, <3>1, <3>2, <3>3
  <2>5. QED
    BY <2>3, <2>4
<1>8. ASSUME NEW x \in alive, handleAnnounce(x)
      PROVE  /\ ~itimer'[R].expire
             /\ itimer'[R].left >= elapsed' + (IF m \in due' THEN 1 ELSE 2)
  <2>1. /\ elapsed' = elapsed /\ due' = due \ {x} /\ portState = "SLAVE"
        /\ itimer' = TimerStart({R}, Length, itimer)
        /\ pc \in {"handle", "mhandle"}
    BY <1>8 DEF handleAnnounce, AfterHandle
  <2>2. itimer'[R].left >= 4 /\ ~itimer'[R].expire
    BY <1>6, <2>1
  <2>3. itimer'[R].left \in Nat
    BY <1>1 DEF IInv, TypeOK, TimerArray
  <2>4. elapsed <= 1 + (IF m \in due THEN 1 ELSE 0)
    BY <1>1, <1>4, <2>1 DEF Backlog
  <2>5. QED
    BY <1>1, <2>1, <2>2, <2>3, <2>4
<1>9. ASSUME portState = "SLAVE", elapsed' = 0, due' = due,
             \/ itimer' = Charged
             \/ \E t \in Timer \ {R} : itimer' = Consume(t, Charged)
      PROVE  /\ ~itimer'[R].expire
             /\ itimer'[R].left >= elapsed' + (IF m \in due' THEN 1 ELSE 2)
  <2> DEFINE k == IF m \in due THEN 1 ELSE 2
  <2>1. k \in Nat \ {0} /\ itimer[R].left >= elapsed + k /\ ~itimer[R].expire
    BY <1>5, <1>9
  <2>2. /\ ~Charged[R].expire
        /\ Charged[R].left >= k
        /\ \A t \in Timer \ {R} : Consume(t, Charged)[R] = Charged[R]
    BY <2>1, ReceiptCharged
  <2>3. itimer'[R] = Charged[R]
    BY <1>9, <2>2
  <2>4. elapsed' + (IF m \in due' THEN 1 ELSE 2) = k
    BY <1>9
  <2> HIDE DEF k
  <2>5. QED
    BY <2>2, <2>3, <2>4
<1>10. CASE AnnounceReceipt \/ issueDelay \/ issueSync \/ issueAnnounce
            \/ issuePDelay
  <2>1. elapsed' = 0 /\ due' = due
    BY <1>10
       DEF AnnounceReceipt, issueDelay, issueSync, issueAnnounce, issuePDelay,
           Issue, world
  <2>2. CASE AnnounceReceipt
    BY <1>9, <2>1, <2>2 DEF AnnounceReceipt, toState, toOtherState
  <2>3. CASE \E t \in Timer \ {R} : Issue(t)
    BY <1>9, <2>1, <2>3 DEF Issue
  <2>4. {"SYNC", "ANNOUNCE", "PDELAYREQ", DelayTimer} \subseteq Timer \ {R}
    BY DEF Timer, DelayTimer
  <2>5. QED
    BY <1>10, <2>2, <2>3, <2>4
       DEF issueDelay, issueSync, issueAnnounce, issuePDelay
<1>11. ASSUME catch_alarm, itimer' = itimer, portState = "SLAVE"
       PROVE  /\ ~itimer'[R].expire
              /\ itimer'[R].left >= elapsed' + (IF m \in due' THEN 1 ELSE 2)
  <2>1. due = {} /\ elapsed' = elapsed + 1 /\ m \in due'
    BY <1>3, <1>11 DEF catch_alarm
  <2>2. QED
    BY <1>1, <1>2, <1>5, <1>11, <2>1
<1>12. ASSUME UNCHANGED <<itimer, portState, elapsed>>, m \in due' <=> m \in due
       PROVE  /\ ~itimer'[R].expire
              /\ itimer'[R].left >= elapsed' + (IF m \in due' THEN 1 ELSE 2)
  BY <1>1, <1>2, <1>5, <1>12
<1>13. CASE Decision /\ ~Decide
  BY <1>12, <1>13
     DEF Decision, NoDecision, KeepMaster, StartBmc, ScanForeign, timers, world
<1>14. CASE HandleInterrupted \/ Tick
  BY <1>11, <1>14 DEF HandleInterrupted, Tick
<1>15. CASE HandleEmpty \/ HandleError \/ HandleOther \/ UNCHANGED vars
  BY <1>12, <1>15
     DEF HandleEmpty, HandleError, HandleOther, Reliable, vars, timers, world
<1>16. ASSUME NEW x \in alive, FallSilent(x)
       PROVE  /\ ~itimer'[R].expire
              /\ itimer'[R].left >= elapsed' + (IF m \in due' THEN 1 ELSE 2)
  <2>1. m # x /\ UNCHANGED <<itimer, portState, elapsed>> /\ due' = due \ {x}
    BY <1>16 DEF FallSilent, timers
  <2>2. QED
    BY <1>12, <2>1
<1>17. CASE doInit \/ doInitFails \/ FaultCleared \/ Demote
  BY <1>12, <1>17
     DEF doInit, doInitFails, FaultCleared, Demote, Reliable, toState, Healthy,
         StateAtStep
<1>18. QED
  BY <1>7, <1>8, <1>10, <1>13, <1>14, <1>15, <1>16, <1>17
     DEF Next, Engine, Receive, Timeouts, Stopped, Decision

(* Ordinary clocks of different identity are told apart by their fields,     *)
(* whoever the parent is.                                                    *)
LEMMA OrdinaryComparison ==
    ASSUME Reliable, OrdinaryClock(Own), NEW m \in Announce, NEW p
    PROVE  /\ m \in AnnounceRecord /\ OrdinaryClock(m)
           /\ BetterThanOwn(m) <=> bmcDataSetComparison(Own, m, p) > 0
           /\ BetterThanOwn(m) <=> bmcDataSetComparison(m, Own, p) < 0
<1>1. m \in AnnounceRecord /\ OrdinaryClock(m) /\ Own \in AnnounceRecord
      /\ m.grandmasterIdentity # Own.grandmasterIdentity
  BY OwnAssumption, AnnounceAssumption
     DEF Reliable, OrdinaryNetwork, OrdinaryClock
<1>2. BetterThanOwn(m) <=> bmcDataSetComparison(Own, m, p) > 0
  BY <1>1 DEF BetterThanOwn, bmcDataSetComparison
<1>3. bmcDataSetComparison(Own, m, p) = -bmcDataSetComparison(m, Own, p)
      /\ bmcDataSetComparison(m, Own, p) \in {-1, 0, 1}
  BY <1>1, ComparisonAntisymmetric, ComparisonRange
<1>4. QED
  BY <1>1, <1>2, <1>3

(* With a master better than its own clock among the records, the port       *)
(* decides for one that is.                                                  *)
LEMMA DecidesForBetter ==
    ASSUME Reliable, OrdinaryClock(Own), IInv, BestSoFar, Decide,
           NEW x \in Heard, BetterThanOwn(x)
    PROVE  bmcDataSetComparison(Own, foreign[best], parentDS.clockIdentity) > 0
<1> DEFINE m == foreign[best]
           p == parentDS.clockIdentity
<1>1. PICK j \in 0 .. number_foreign_records - 1 : x = foreign[j]
  BY DEF Heard
<1>2. pc = "bmc" /\ scan >= number_foreign_records /\ m \in Announce
      /\ x \in Announce
  BY <1>1, RecordsAreAnnounces DEF Decide, IInv, TypeOK
<1>3. ~(bmcDataSetComparison(x, m, p) < 0)
  <2>1. j \in 0 .. scan - 1 /\ j < number_foreign_records
    BY <1>1, <1>2 DEF IInv, TypeOK
  <2>2. QED
    BY <1>1, <1>2, <2>1 DEF BestSoFar, Better
<1>4. bmcDataSetComparison(Own, m, p) # 0
      /\ bmcDataSetComparison(Own, m, p) \in {-1, 0, 1}
  BY <1>2, ComparisonRange, OwnAssumption, AnnounceAssumption
     DEF Reliable, ToldFromOwn
<1>5. ASSUME bmcDataSetComparison(Own, m, p) < 0
      PROVE  FALSE
  <2>1. bmcDataSetComparison(x, Own, p) < 0
    BY <1>2, OrdinaryComparison
  <2>2. x \in AnnounceRecord /\ OrdinaryClock(x)
        /\ m \in AnnounceRecord /\ OrdinaryClock(m)
    BY <1>2, OrdinaryComparison
  <2>3. x.clockIdentity = m.clockIdentity => x = m
    BY <1>2 DEF Reliable, OrdinaryNetwork
  <2> HIDE DEF m, p
  <2>4. bmcDataSetComparison(x, m, p) < 0
    BY <1>5, <2>1, <2>2, <2>3, BetterTransitive, OwnAssumption
  <2>5. QED
    BY <1>3, <2>4
<1>6. QED
  BY <1>4, <1>5

(* A slave by choice stays one in every decision, having heard a master      *)
(* better than its own clock.                                                *)
LEMMA DecisionKeepsSlave ==
    ASSUME Reliable, OrdinaryClock(Own), IInv, Healthy, BestSoFar, BetterHeard,
           Decide, portState = "SLAVE"
    PROVE  portState' = "SLAVE"
<1>1. portState' = bmcStateDecision(foreign[best]).state
  BY DecisionInstallsParent
<1>2. CASE slaveOnly
  BY <1>1, <1>2 DEF bmcStateDecision
<1>3. CASE ~slaveOnly
  <2>1. Own.clockClass >= 128 /\ Own.clockClass \in Nat
        /\ \E m \in Heard : BetterThanOwn(m)
    BY <1>3, OwnAssumption, RecordFields DEF BetterHeard
  <2>2. bmcDataSetComparison(Own, foreign[best], parentDS.clockIdentity) > 0
    BY <2>1, DecidesForBetter
  <2>3. bmcDataSetComparison(Own, foreign[best], parentDS.clockIdentity)
           \in {-1, 0, 1}
    BY RecordsAreAnnounces, ComparisonRange, OwnAssumption, AnnounceAssumption
       DEF Decide
  <2>4. QED
    BY <1>1, <1>3, <2>1, <2>2, <2>3 DEF bmcStateDecision
<1>4. QED
  BY <1>2, <1>3

(* A slave has heard a better master as long as it is one.                   *)
LEMMA BetterHeardStep ==
    ASSUME Reliable, OrdinaryClock(Own), IInv, Healthy, BestSoFar, BetterHeard,
           [Next]_vars
    PROVE  BetterHeard'
<1> SUFFICES ASSUME portState' = "SLAVE", ~slaveOnly'
             PROVE  Own.clockClass >= 128 /\ \E m \in Heard' : BetterThanOwn(m)
  BY DEF BetterHeard, BetterThanOwn
<1>1. ~slaveOnly
  BY OptionKept
<1>2. CASE Decide
  <2>1. Heard' = Heard
    BY <1>2 DEF Decide, table, Heard
  <2>2. CASE portState = "SLAVE"
    BY <1>1, <2>1, <2>2 DEF BetterHeard
  <2>3. CASE portState # "SLAVE"
    <3> DEFINE m == foreign[best]
               c == bmcDataSetComparison(Own, m, parentDS.clockIdentity)
    <3>1. bmcStateDecision(m).state = "SLAVE"
      BY <1>2, DecisionInstallsParent
    <3>2. /\ ~(number_foreign_records = 0 /\ portState = "LISTENING")
          /\ ~(Own.clockClass < 128) /\ c > 0
      BY <1>1, <3>1 DEF bmcStateDecision, c
    <3>3. number_foreign_records > 0
      BY <1>1, <1>2, <2>3, <3>2
         DEF Decide, Healthy, StateAtStep, FollowerHasRecord, IInv, TypeOK,
             PortState
    <3>4. m \in Heard
      BY <1>2, <3>3 DEF IInv, TypeOK, BestInTable, Decide, Heard, Slot
    <3>5. BetterThanOwn(m)
      BY <1>2, <3>2, OrdinaryComparison, RecordsAreAnnounces DEF Decide
    <3>6. Own.clockClass >= 128
      BY <3>2, OwnAssumption, RecordFields
    <3>7. QED
      BY <2>1, <3>4, <3>5, <3>6
  <2>4. QED
    BY <2>2, <2>3
<1>3. ASSUME NEW x \in alive, handleAnnounce(x)
      PROVE  Own.clockClass >= 128 /\ \E m \in Heard' : BetterThanOwn(m)
  <2>1. x \in Announce /\ pc \in {"handle", "mhandle"} /\ portState = "SLAVE"
    BY <1>3 DEF IInv, TypeOK, handleAnnounce, AfterHandle
  <2>2. UNCHANGED table \/ addForeign(x)
    BY <1>3 DEF handleAnnounce
  <2>3. Heard \subseteq Heard'
    <3>1. CASE UNCHANGED table
      BY <3>1 DEF table, Heard
    <3>2. CASE ~UNCHANGED table
      <4>1. /\ \A j \in 0 .. number_foreign_records - 1 : foreign'[j] = foreign[j]
            /\ number_foreign_records' = number_foreign_records + 1
        BY <2>1, <2>2, <3>2, AddForeignExtends
      <4>2. number_foreign_records \in Nat
        BY DEF IInv, TypeOK
      <4>3. QED
        BY <4>1, <4>2 DEF Heard
    <3>3. QED
      BY <3>1, <3>2
  <2>4. QED
    BY <1>1, <2>1, <2>3 DEF BetterHeard
<1>4. CASE ~Decide /\ \A x \in alive : ~handleAnnounce(x)
  <2>1. portState = "SLAVE"
    BY <1>4, StateActions
       DEF doInit, KeepMaster, AnnounceReceipt, toState, toOtherState
  <2>2. UNCHANGED table
    BY <1>4, <2>1, TableActions
       DEF doInit, AnnounceReceipt, toState, toOtherState, table
  <2>3. QED
    BY <1>1, <2>1, <2>2 DEF BetterHeard, table, Heard
<1>5. QED
  BY <1>2, <1>3, <1>4

(* A punctual parent keeps a slave, whatever the other masters send and      *)
(* whenever the seconds are charged: the receipt timer does not run out, and *)
(* every decision finds a master better than the own clock.                  *)
THEOREM PunctualParentKeepsSlave ==
    ASSUME Reliable, OrdinaryClock(Own), Length["ANNOUNCE_RECEIPT"] >= 4
    PROVE  Spec => SlaveIsSteady
<1> DEFINE Steady == ChargedSoon /\ ReceiptInTime /\ BetterHeard
<1>1. Init => Steady
  BY DEF Init, ChargedSoon, ReceiptInTime, BetterHeard, Backlog
<1>2. ASSUME IInv, IInv', Healthy, BestSoFar, Steady, [Next]_vars
      PROVE  Steady'
  BY <1>2, ChargedSoonStep, ReceiptInTimeStep, BetterHeardStep
<1>3. ASSUME IInv, Healthy, BestSoFar, Steady, [Next]_vars,
             NEW m \in alive \cap Punctual, portState = "SLAVE"
      PROVE  portState' = "SLAVE"
  <2>1. CASE Decide
    BY <1>3, <2>1, DecisionKeepsSlave
  <2>2. CASE AnnounceReceipt
    <3> DEFINE k == IF m \in due THEN 1 ELSE 2
    <3>1. k \in Nat \ {0}
      OBVIOUS
    <3>2. ~itimer["ANNOUNCE_RECEIPT"].expire
          /\ itimer["ANNOUNCE_RECEIPT"].left >= elapsed + k
      BY <1>3 DEF ReceiptInTime
    <3>3. ~Expired("ANNOUNCE_RECEIPT")
      BY <1>3, <3>1, <3>2, ReceiptCharged DEF Expired
    <3>4. QED
      BY <1>3, <2>2, <3>3 DEF AnnounceReceipt
  <2>3. CASE ~Decide /\ ~AnnounceReceipt
    BY <1>3, <2>3
       DEF Next, Engine, Decision, Receive, Timeouts, doInit, doInitFails,
           NoDecision, KeepMaster, StartBmc, ScanForeign, FaultCleared,
           HandleInterrupted, HandleEmpty, HandleError, HandleOther,
           handleAnnounce, issueDelay, issueSync, issueAnnounce, issuePDelay,
           Issue, Demote, Tick, FallSilent, Stopped, vars, Reliable, Healthy,
           StateAtStep
  <2>4. QED
    BY <2>1, <2>2, <2>3
<1>4. ASSUME IInv, Healthy, BestSoFar, Steady, [Next]_vars
      PROVE  [\A m \in alive \cap Punctual :
                 portState = "SLAVE" /\ SamePort(parentDS, m)
                     => portState' = "SLAVE"]_vars
  BY <1>3, <1>4
<1>5. Spec => []BestSoFar
  BY ScanHoldsBest DEF Reliable
<1> HIDE DEF Steady
<1>6. QED
  BY <1>1, <1>2, <1>4, <1>5, ReliablePortHealthy, InductiveInvariant, PTL
     DEF Spec, SlaveIsSteady
================================================================================
