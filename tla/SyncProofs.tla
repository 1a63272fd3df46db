------------------------------- MODULE SyncProofs -------------------------------
(*****************************************************************************)
(* The Sync exchange for any number of masters of any kinds, any number of   *)
(* Syncs that fits the sequence ids and any first ids.                       *)
(*                                                                           *)
(* StackOrdered says where the time stamp of a Sync can be: on top of the    *)
(* stack, between issueSync() and the handle() that follows. Hence the stack *)
(* never overflows, and the FollowUp is numbered when the Sync is the last   *)
(* one sent. At the slave Fresh relates what it waits for to what it has     *)
(* measured with.                                                            *)
(*****************************************************************************)
EXTENDS SyncExchange, SequenceTheorems, TLAPS

(* The id of the n-th Sync of m.                                             *)
Id(m, n) == IF FirstSeq[m] + n - 1 <= MaxSequenceId THEN FirstSeq[m] + n - 1
            ELSE FirstSeq[m] + n - 1 - (MaxSequenceId + 1)

NumberedFor(m) == sentSyncSequenceId[m] = Id(m, departed[m] + 1)

Numbered ==
    /\ \A m \in Masters : NumberedFor(m)
    /\ \A s \in syncs : s.t <= departed[s.src] /\ s.sequenceId = Id(s.src, s.t)

(* Every Sync that has departed is on the network.                           *)
AllDeparted ==
    \A m \in Masters : \A t \in 1 .. departed[m] :
        \E s \in syncs : s.src = m /\ s.t = t

StackOrderedFor(m) ==
    /\ pc[m] # "exited"
    /\ Len(tx_stack[m]) <= 2
    /\ pc[m] = "issue" => Len(tx_stack[m]) <= 1
    /\ \A i \in 1 .. Len(tx_stack[m]) : tx_stack[m][i].type = "SYNC" =>
          /\ pc[m] = "handle" /\ i = Len(tx_stack[m])
          /\ tx_stack[m][i].t = departed[m] /\ departed[m] >= 1

StackOrdered == \A m \in Masters : StackOrderedFor(m)

MasterInv == MasterTypeOK /\ NetworkTypeOK /\ Numbered /\ AllDeparted
             /\ StackOrdered

(* At most the last Sync has not been looped back.                           *)
OneLoopback == \A m \in Masters : departed[m] <= looped[m] + 1

-------------------------------------------------------------------------------
(* Ids of at most MaxSequenceId Syncs in a row differ.                       *)
LEMMA IdsDiffer ==
    ASSUME NEW m \in Masters, NEW i \in 1 .. MaxSync, NEW j \in 1 .. MaxSync,
           Id(m, i) = Id(m, j)
    PROVE  i = j
  BY FirstSeqAssumption, MaxSyncAssumption DEF Id, SequenceId

(* Ids are those of the message and follow each other.                       *)
LEMMA IdsTyped ==
    ASSUME NEW m \in Masters, NEW n \in 1 .. MaxSync
    PROVE  /\ Id(m, n) \in SequenceId
           /\ Id(m, n + 1) \in SequenceId
           /\ NextSequenceId(Id(m, n)) = Id(m, n + 1)
           /\ PrevSequenceId(Id(m, n + 1)) = Id(m, n)
  BY FirstSeqAssumption, MaxSyncAssumption
     DEF Id, SequenceId, NextSequenceId, PrevSequenceId

(* Pushing a packet keeps those below it.                                    *)
LEMMA Pushed ==
    ASSUME NEW st \in Seq(Packet), NEW p \in Packet
    PROVE  /\ Append(st, p) \in Seq(Packet)
           /\ Len(Append(st, p)) = Len(st) + 1
           /\ \A i \in 1 .. Len(st) : Append(st, p)[i] = st[i]
           /\ Append(st, p)[Len(st) + 1] = p
  BY AppendProperties

(* Taking the top off keeps those below it.                                  *)
LEMMA Popped ==
    ASSUME NEW st \in Seq(Packet), st # <<>>
    PROVE  /\ SubSeq(st, 1, Len(st) - 1) \in Seq(Packet)
           /\ Len(SubSeq(st, 1, Len(st) - 1)) = Len(st) - 1
           /\ \A i \in 1 .. Len(st) - 1 :
                 SubSeq(st, 1, Len(st) - 1)[i] = st[i]
           /\ Len(st) \in Nat /\ Len(st) >= 1
           /\ st[Len(st)] \in Packet
<1>1. Len(st) \in Nat /\ Len(st) >= 1
  BY EmptySeq
<1>2. st[Len(st)] \in Packet
  BY <1>1, ElementOfSeq
<1>3. \A i \in 1 .. Len(st) - 1 : st[i] \in Packet
  BY <1>1, ElementOfSeq
<1>4. /\ SubSeq(st, 1, Len(st) - 1) \in Seq(Packet)
      /\ Len(SubSeq(st, 1, Len(st) - 1)) =
            IF 1 <= Len(st) - 1 THEN Len(st) - 1 - 1 + 1 ELSE 0
      /\ \A i \in 1 .. Len(st) - 1 - 1 + 1 :
            SubSeq(st, 1, Len(st) - 1)[i] = st[1 + i - 1]
  BY <1>1, <1>3, SubSeqProperties
<1>5. /\ Len(SubSeq(st, 1, Len(st) - 1)) = Len(st) - 1
      /\ \A i \in 1 .. Len(st) - 1 : SubSeq(st, 1, Len(st) - 1)[i] = st[i]
  <2> DEFINE sub == SubSeq(st, 1, Len(st) - 1)
             n   == Len(st)
  <2>1. /\ n \in Nat /\ n >= 1
        /\ Len(sub) = IF 1 <= n - 1 THEN n - 1 - 1 + 1 ELSE 0
        /\ \A i \in 1 .. n - 1 - 1 + 1 : sub[i] = st[1 + i - 1]
    BY <1>1, <1>4
  <2> HIDE DEF sub, n
  <2>2. Len(sub) = n - 1 /\ \A i \in 1 .. n - 1 : sub[i] = st[i]
    BY <2>1
  <2>3. QED
    BY <2>2 DEF sub, n
<1>6. QED
  BY <1>1, <1>2, <1>4, <1>5

-------------------------------------------------------------------------------
(* A Sync departs: the variables of the master and of the network.           *)
LEMMA SyncDeparts ==
    ASSUME MasterInv, NEW m \in Masters, issueSync(m)
    PROVE  /\ departed[m] \in Nat
           /\ departed[m] + 1 \in 1 .. MaxSync
           /\ departed' = [departed EXCEPT ![m] = departed[m] + 1]
           /\ departed'[m] = departed[m] + 1
           /\ sentSyncSequenceId[m] = Id(m, departed[m] + 1)
           /\ sentSyncSequenceId' =
                 [sentSyncSequenceId EXCEPT ![m] = Id(m, departed[m] + 2)]
           /\ \E b \in BOOLEAN : syncs' = syncs \cup
                 {[src |-> m, sequenceId |-> Id(m, departed[m] + 1),
                   t |-> departed[m] + 1, twoStep |-> b]}
           /\ UNCHANGED <<kind, portState, followUps, slave>>
           /\ pc[m] = "issue"
           /\ Prompt => looped[m] = departed[m]
           /\ \/ /\ pc' = [pc EXCEPT ![m] = "handle"]
                 /\ UNCHANGED <<tx_stack, looped>>
              \/ /\ looped' = [looped EXCEPT ![m] = departed[m] + 1]
                 /\ txTimestamp(m, [type |-> "SYNC", t |-> departed[m] + 1],
                                "handle")
<1>1. departed[m] \in Nat /\ departed[m] < MaxSync
      /\ departed \in [Masters -> 0 .. MaxSync]
  BY MaxSyncAssumption DEF issueSync, MasterInv, MasterTypeOK
<1>2. departed[m] + 1 \in 1 .. MaxSync
  BY <1>1, MaxSyncAssumption
<1>3. departed' = [departed EXCEPT ![m] = departed[m] + 1]
  BY DEF issueSync
<1>4. departed'[m] = departed[m] + 1
  BY <1>1, <1>3
<1>5. sentSyncSequenceId[m] = Id(m, departed[m] + 1)
  BY DEF MasterInv, Numbered, NumberedFor
<1>6. NextSequenceId(sentSyncSequenceId[m]) = Id(m, departed[m] + 2)
  <2>1. NextSequenceId(Id(m, departed[m] + 1)) = Id(m, departed[m] + 1 + 1)
    BY <1>2, IdsTyped
  <2>2. departed[m] + 1 + 1 = departed[m] + 2
    BY <1>1
  <2>3. QED
    BY <1>5, <2>1, <2>2
<1>7. sentSyncSequenceId' =
         [sentSyncSequenceId EXCEPT ![m] = Id(m, departed[m] + 2)]
  BY <1>6 DEF issueSync
<1>8. \E b \in BOOLEAN : syncs' = syncs \cup
          {[src |-> m, sequenceId |-> Id(m, departed[m] + 1),
            t |-> departed[m] + 1, twoStep |-> b]}
  <2>1. TwoStep(m) \in BOOLEAN
    BY DEF TwoStep
  <2>2. syncs' = syncs \cup
           {[src |-> m, sequenceId |-> Id(m, departed[m] + 1),
             t |-> departed[m] + 1, twoStep |-> TwoStep(m)]}
    BY <1>4, <1>5, Zenon DEF issueSync
  <2>3. QED
    BY <2>1, <2>2, Zenon
<1>9. QED
  BY <1>1, <1>2, <1>3, <1>4, <1>5, <1>7, <1>8, Zenon DEF issueSync

(* What is sent for a Sync of one's own: nothing, or a FollowUp with the     *)
(* number of the last Sync.                                                  *)
LEMMA OwnSyncSends ==
    ASSUME MasterInv, NEW m \in Masters, NEW t, OwnSync(m, t),
           departed[m] >= 1
    PROVE  /\ Id(m, departed[m]) \in SequenceId
           /\ \/ UNCHANGED followUps
              \/ followUps' = followUps \cup
                    {[src |-> m, sequenceId |-> Id(m, departed[m]), t |-> t]}
<1>1. departed[m] \in 1 .. MaxSync
  BY MaxSyncAssumption DEF MasterInv, MasterTypeOK
<1>2. sentSyncSequenceId[m] = Id(m, departed[m] + 1)
  BY DEF MasterInv, Numbered, NumberedFor
<1>3. PrevSequenceId(sentSyncSequenceId[m]) = Id(m, departed[m])
      /\ Id(m, departed[m]) \in SequenceId
  BY <1>1, <1>2, IdsTyped
<1>4. QED
  BY <1>3, Zenon DEF OwnSync, issueFollowup

-------------------------------------------------------------------------------
(* What departed before keeps its number.                                    *)
LEMMA NumbersKept ==
    ASSUME MasterInv, UNCHANGED <<sentSyncSequenceId, departed, syncs>>
    PROVE  Numbered' /\ AllDeparted'
  BY DEF MasterInv, Numbered, NumberedFor, AllDeparted, Id

LEMMA SyncNumbered ==
    ASSUME MasterInv, NEW m \in Masters, issueSync(m)
    PROVE  Numbered' /\ AllDeparted'
<1>1. /\ departed[m] \in Nat
      /\ departed' = [departed EXCEPT ![m] = departed[m] + 1]
      /\ sentSyncSequenceId' =
            [sentSyncSequenceId EXCEPT ![m] = Id(m, departed[m] + 2)]
  BY SyncDeparts
<1>2. PICK b \in BOOLEAN : syncs' = syncs \cup
          {[src |-> m, sequenceId |-> Id(m, departed[m] + 1),
            t |-> departed[m] + 1, twoStep |-> b]}
  BY SyncDeparts
<1>3. departed \in [Masters -> 0 .. MaxSync]
      /\ sentSyncSequenceId \in [Masters -> SequenceId]
      /\ \A s \in syncs : s.src \in Masters /\ s.t \in Nat
  BY MaxSyncAssumption DEF MasterInv, MasterTypeOK, NetworkTypeOK
<1>4. \A n \in Masters : departed'[n] \in Nat /\ departed[n] \in Nat
        /\ departed'[n] = IF n = m THEN departed[n] + 1 ELSE departed[n]
  BY <1>1, <1>3, MaxSyncAssumption
<1>5. ASSUME NEW n \in Masters PROVE NumberedFor(n)'
  <2>1. sentSyncSequenceId[n] = Id(n, departed[n] + 1)
    BY DEF MasterInv, Numbered, NumberedFor
  <2>2. sentSyncSequenceId'[n] = IF n = m THEN Id(m, departed[m] + 2)
                                 ELSE sentSyncSequenceId[n]
    BY <1>1, <1>3
  <2>3. departed[m] + 1 + 1 = departed[m] + 2
    BY <1>1
  <2>4. sentSyncSequenceId'[n] = Id(n, departed'[n] + 1)
    BY <1>4, <2>1, <2>2, <2>3
  <2>5. QED
    BY <2>4 DEF NumberedFor, Id
<1>6. ASSUME NEW s \in syncs'
      PROVE  s.t <= departed'[s.src] /\ s.sequenceId = Id(s.src, s.t)
  <2>1. CASE s \in syncs
    BY <1>3, <1>4, <2>1 DEF MasterInv, Numbered
  <2>2. CASE s \notin syncs
    <3>1. s.src = m /\ s.t = departed[m] + 1
          /\ s.sequenceId = Id(m, departed[m] + 1)
      BY <1>2, <2>2
    <3>2. QED
      BY <1>4, <3>1
  <2>3. QED
    BY <2>1, <2>2
<1>7. ASSUME NEW n \in Masters, NEW t \in 1 .. departed'[n]
      PROVE  \E s \in syncs' : s.src = n /\ s.t = t
  <2>1. CASE t <= departed[n]
    BY <1>2, <1>4, <2>1 DEF MasterInv, AllDeparted
  <2>2. CASE ~(t <= departed[n])
    <3>1. n = m /\ t = departed[m] + 1
      BY <1>4, <2>2
    <3> DEFINE s == [src |-> m, sequenceId |-> Id(m, departed[m] + 1),
                     t |-> departed[m] + 1, twoStep |-> b]
    <3>2. s \in syncs' /\ s.src = n /\ s.t = t
      BY <1>2, <3>1
    <3>3. QED
      BY <3>2
  <2>3. QED
    BY <2>1, <2>2
<1>8. QED
  BY <1>5, <1>6, <1>7 DEF Numbered, AllDeparted, Id

(* Pushing at the start of a loop, or to an empty stack, never ends the      *)
(* daemon.                                                                   *)
LEMMA PushOrdered ==
    ASSUME MasterInv, NEW m \in Masters, NEW p \in Packet, NEW next,
           Len(tx_stack[m]) <= 1, txTimestamp(m, p, next)
    PROVE  /\ pc' = [pc EXCEPT ![m] = next]
           /\ tx_stack' = [tx_stack EXCEPT ![m] = Append(tx_stack[m], p)]
           /\ tx_stack'[m] = Append(tx_stack[m], p)
           /\ Append(tx_stack[m], p) \in Seq(Packet)
           /\ Len(tx_stack'[m]) = Len(tx_stack[m]) + 1
           /\ tx_stack'[m][Len(tx_stack[m]) + 1] = p
           /\ \A i \in 1 .. Len(tx_stack[m]) :
                 tx_stack'[m][i] = tx_stack[m][i]
<1>1. tx_stack \in [Masters -> Seq(Packet)] /\ tx_stack[m] \in Seq(Packet)
  BY DEF MasterInv, MasterTypeOK
<1>2. Len(tx_stack[m]) # TX_STACK_SIZE
  <2>1. Len(tx_stack[m]) \in Nat
    BY <1>1, LenProperties
  <2>2. \A n \in Nat : n <= 1 => n # 2
    OBVIOUS
  <2>3. QED
    BY <2>1, <2>2, Zenon DEF TX_STACK_SIZE
<1>3. pc' = [pc EXCEPT ![m] = next]
      /\ tx_stack' = [tx_stack EXCEPT ![m] = Append(tx_stack[m], p)]
  BY <1>2 DEF txTimestamp
<1>4. tx_stack'[m] = Append(tx_stack[m], p)
  BY <1>1, <1>3
<1>5. QED
  BY <1>1, <1>3, <1>4, Pushed

(* The other masters keep their stacks.                                      *)
LEMMA OthersOrdered ==
    ASSUME MasterInv, NEW m \in Masters,
           \A n \in Masters \ {m} :
              /\ pc'[n] = pc[n] /\ tx_stack'[n] = tx_stack[n]
              /\ departed'[n] = departed[n],
           StackOrderedFor(m)'
    PROVE  StackOrdered'
  BY DEF MasterInv, StackOrdered, StackOrderedFor

-------------------------------------------------------------------------------
(* The actions of a master keep MasterInv.                                   *)
LEMMA ToStateKeeps ==
    ASSUME MasterInv, NEW m \in Masters,
           NEW state \in {"MASTER", "LISTENING", "SLAVE"},
           toState(m, state) \/ netInit(m) \/ LoopbackLost(m)
    PROVE  MasterInv'
<1>1. UNCHANGED <<kind, pc, sentSyncSequenceId, departed, tx_stack, syncs,
                  followUps>>
  BY DEF toState, netInit, LoopbackLost
<1>2. /\ portState' \in [Masters -> {"MASTER", "LISTENING", "SLAVE"}]
      /\ looped' \in [Masters -> 0 .. MaxSync]
  BY DEF toState, netInit, LoopbackLost, MasterInv, MasterTypeOK
<1>3. MasterTypeOK' /\ NetworkTypeOK'
  BY <1>1, <1>2 DEF MasterInv, MasterTypeOK, NetworkTypeOK
<1>4. StackOrdered'
  BY <1>1 DEF MasterInv, StackOrdered, StackOrderedFor
<1>5. QED
  BY <1>1, <1>3, <1>4, NumbersKept DEF MasterInv

LEMMA NothingHandledKeeps ==
    ASSUME MasterInv, NEW m \in Masters, NoSync(m) \/ HandleOther(m)
    PROVE  MasterInv'
<1>1. UNCHANGED <<kind, portState, sentSyncSequenceId, departed, tx_stack,
                  looped, syncs, followUps>>
  BY DEF NoSync, HandleOther
<1>2. \/ pc[m] = "issue" /\ pc' = [pc EXCEPT ![m] = "handle"]
      \/ tx_stack[m] = <<>> /\ pc' = [pc EXCEPT ![m] = "issue"]
  BY DEF NoSync, HandleOther
<1>3. pc \in [Masters -> {"issue", "handle", "exited"}]
  BY DEF MasterInv, MasterTypeOK
<1>4. MasterTypeOK' /\ NetworkTypeOK'
  BY <1>1, <1>2, <1>3 DEF MasterInv, MasterTypeOK, NetworkTypeOK
<1>5. StackOrderedFor(m)
  BY DEF MasterInv, StackOrdered
<1>6. StackOrderedFor(m)'
  <2>1. CASE pc[m] = "issue" /\ pc' = [pc EXCEPT ![m] = "handle"]
    BY <1>1, <1>3, <1>5, <2>1 DEF StackOrderedFor
  <2>2. CASE tx_stack[m] = <<>> /\ pc' = [pc EXCEPT ![m] = "issue"]
    <3>1. Len(tx_stack'[m]) = 0 /\ pc'[m] = "issue"
      BY <1>1, <1>3, <2>2
    <3>2. QED
      BY <3>1 DEF StackOrderedFor
  <2>3. QED
    BY <1>2, <2>1, <2>2
<1>7. StackOrdered'
  BY <1>1, <1>2, <1>3, <1>6, OthersOrdered
<1>8. QED
  BY <1>1, <1>4, <1>7, NumbersKept DEF MasterInv

LEMMA SyncKeeps ==
    ASSUME MasterInv, NEW m \in Masters, issueSync(m)
    PROVE  MasterInv'
<1> DEFINE p == [type |-> "SYNC", t |-> departed[m] + 1]
<1>1. /\ departed[m] + 1 \in 1 .. MaxSync
      /\ departed' = [departed EXCEPT ![m] = departed[m] + 1]
      /\ departed'[m] = departed[m] + 1
      /\ UNCHANGED <<kind, portState, followUps>>
      /\ pc[m] = "issue"
  BY SyncDeparts
<1>2. /\ pc \in [Masters -> {"issue", "handle", "exited"}]
      /\ tx_stack \in [Masters -> Seq(Packet)]
      /\ looped \in [Masters -> 0 .. MaxSync]
      /\ departed \in [Masters -> 0 .. MaxSync]
      /\ sentSyncSequenceId \in [Masters -> SequenceId]
  BY DEF MasterInv, MasterTypeOK
<1>3. StackOrderedFor(m)
  BY DEF MasterInv, StackOrdered
<1>4. Len(tx_stack[m]) <= 1 /\ Len(tx_stack[m]) \in Nat
      /\ \A i \in 1 .. Len(tx_stack[m]) : tx_stack[m][i].type # "SYNC"
  BY <1>1, <1>2, <1>3, LenProperties DEF StackOrderedFor
<1>5. p \in Packet
  BY <1>1, MaxSyncAssumption DEF Packet
<1>6. /\ pc' = [pc EXCEPT ![m] = "handle"]
      /\ tx_stack' \in [Masters -> Seq(Packet)]
      /\ looped' \in [Masters -> 0 .. MaxSync]
      /\ \A n \in Masters \ {m} : tx_stack'[n] = tx_stack[n]
      /\ StackOrderedFor(m)'
  <2>1. CASE pc' = [pc EXCEPT ![m] = "handle"] /\ UNCHANGED <<tx_stack, looped>>
    BY <1>2, <1>4, <2>1 DEF StackOrderedFor
  <2>2. CASE /\ looped' = [looped EXCEPT ![m] = departed[m] + 1]
             /\ txTimestamp(m, p, "handle")
    <3>1. /\ pc' = [pc EXCEPT ![m] = "handle"]
          /\ tx_stack' = [tx_stack EXCEPT ![m] = Append(tx_stack[m], p)]
          /\ Append(tx_stack[m], p) \in Seq(Packet)
          /\ Len(tx_stack'[m]) = Len(tx_stack[m]) + 1
          /\ tx_stack'[m][Len(tx_stack[m]) + 1] = p
          /\ \A i \in 1 .. Len(tx_stack[m]) :
                tx_stack'[m][i] = tx_stack[m][i]
      BY <1>4, <1>5, <2>2, PushOrdered
    <3>2. tx_stack' \in [Masters -> Seq(Packet)]
          /\ \A n \in Masters \ {m} : tx_stack'[n] = tx_stack[n]
      BY <1>2, <3>1
    <3>3. looped' \in [Masters -> 0 .. MaxSync]
      BY <1>1, <1>2, <2>2, MaxSyncAssumption
    <3>4. ASSUME NEW i \in 1 .. Len(tx_stack'[m]),
                 tx_stack'[m][i].type = "SYNC"
          PROVE  i = Len(tx_stack'[m]) /\ tx_stack'[m][i].t = departed'[m]
      <4>1. i \notin 1 .. Len(tx_stack[m])
        BY <1>4, <3>1, <3>4
      <4>2. i = Len(tx_stack[m]) + 1
        BY <1>4, <3>1, <4>1
      <4>3. QED
        BY <1>1, <3>1, <4>2
    <3>5. pc'[m] = "handle" /\ departed'[m] >= 1
      BY <1>1, <1>2, <3>1
    <3>6. Len(tx_stack'[m]) <= 2
      BY <1>4, <3>1
    <3>7. StackOrderedFor(m)'
      BY <3>4, <3>5, <3>6 DEF StackOrderedFor
    <3>8. QED
      BY <3>1, <3>2, <3>3, <3>7
  <2>3. QED
    BY <2>1, <2>2, SyncDeparts
<1>7. StackOrdered'
  BY <1>1, <1>2, <1>6, OthersOrdered
<1>8. departed' \in [Masters -> 0 .. MaxSync]
  BY <1>1, <1>2, MaxSyncAssumption
<1>9. sentSyncSequenceId' \in [Masters -> SequenceId]
  <2>1. Id(m, departed[m] + 1 + 1) \in SequenceId
    BY <1>1, IdsTyped
  <2>2. departed[m] + 1 + 1 = departed[m] + 2
    BY <1>2, MaxSyncAssumption
  <2>3. sentSyncSequenceId' =
           [sentSyncSequenceId EXCEPT ![m] = Id(m, departed[m] + 2)]
    BY SyncDeparts
  <2>4. QED
    BY <1>2, <2>1, <2>2, <2>3
<1>10. syncs' \subseteq [src : Masters, sequenceId : SequenceId,
                         t : 1 .. MaxSync, twoStep : BOOLEAN]
  <2>1. PICK b \in BOOLEAN : syncs' = syncs \cup
            {[src |-> m, sequenceId |-> Id(m, departed[m] + 1),
              t |-> departed[m] + 1, twoStep |-> b]}
    BY SyncDeparts
  <2>2. Id(m, departed[m] + 1) \in SequenceId
    BY <1>1, IdsTyped
  <2>3. [src |-> m, sequenceId |-> Id(m, departed[m] + 1),
         t |-> departed[m] + 1, twoStep |-> b]
           \in [src : Masters, sequenceId : SequenceId,
                t : 1 .. MaxSync, twoStep : BOOLEAN]
    BY <1>1, <2>2, Zenon
  <2>4. QED
    BY <2>1, <2>3, Zenon DEF MasterInv, NetworkTypeOK
<1>11. MasterTypeOK' /\ NetworkTypeOK'
  <2>1. pc' \in [Masters -> {"issue", "handle", "exited"}]
    BY <1>2, <1>6
  <2>2. QED
    BY <1>1, <1>6, <1>8, <1>9, <1>10, <2>1
       DEF MasterInv, MasterTypeOK, NetworkTypeOK
<1>12. QED
  BY <1>7, <1>11, SyncNumbered DEF MasterInv

LEMMA HandlePDelayReqKeeps ==
    ASSUME MasterInv, NEW m \in Masters, handlePDelayReq(m)
    PROVE  MasterInv'
<1> DEFINE p == [type |-> "PDELAY_RESP", t |-> 0]
<1>1. /\ UNCHANGED <<kind, portState, sentSyncSequenceId, departed, looped,
                     syncs, followUps>>
      /\ tx_stack[m] = <<>> /\ txTimestamp(m, p, "issue")
  BY DEF handlePDelayReq
<1>2. /\ pc \in [Masters -> {"issue", "handle", "exited"}]
      /\ tx_stack \in [Masters -> Seq(Packet)]
  BY DEF MasterInv, MasterTypeOK
<1>3. p \in Packet
  BY MaxSyncAssumption DEF Packet
<1>4. Len(tx_stack[m]) = 0
  BY <1>1
<1>5. /\ pc' = [pc EXCEPT ![m] = "issue"]
      /\ tx_stack' = [tx_stack EXCEPT ![m] = Append(tx_stack[m], p)]
      /\ Append(tx_stack[m], p) \in Seq(Packet)
      /\ Len(tx_stack'[m]) = 1 /\ tx_stack'[m][1] = p
  <2>1. Len(tx_stack[m]) <= 1
    BY <1>4
  <2>2. /\ pc' = [pc EXCEPT ![m] = "issue"]
        /\ tx_stack' = [tx_stack EXCEPT ![m] = Append(tx_stack[m], p)]
        /\ Append(tx_stack[m], p) \in Seq(Packet)
        /\ Len(tx_stack'[m]) = Len(tx_stack[m]) + 1
        /\ tx_stack'[m][Len(tx_stack[m]) + 1] = p
    <3> HIDE DEF p
    <3>1. QED
      BY <1>1, <1>3, <2>1, PushOrdered
  <2> HIDE DEF p
  <2>3. Len(tx_stack[m]) + 1 = 1
    BY <1>4
  <2>4. QED
    BY <2>2, <2>3
<1>6. StackOrderedFor(m)'
  <2>1. \A i \in 1 .. Len(tx_stack'[m]) : tx_stack'[m][i].type # "SYNC"
    BY <1>5
  <2>2. pc'[m] = "issue" /\ Len(tx_stack'[m]) <= 1
    BY <1>2, <1>5
  <2>3. QED
    BY <2>1, <2>2, <1>5 DEF StackOrderedFor
<1>7. StackOrdered'
  BY <1>1, <1>2, <1>5, <1>6, OthersOrdered
<1>8. /\ pc' \in [Masters -> {"issue", "handle", "exited"}]
      /\ tx_stack' \in [Masters -> Seq(Packet)]
  BY <1>2, <1>5
<1>9. MasterTypeOK' /\ NetworkTypeOK'
  BY <1>1, <1>8 DEF MasterInv, MasterTypeOK, NetworkTypeOK
<1>10. QED
  BY <1>1, <1>7, <1>9, NumbersKept DEF MasterInv

(* The top of the stack is taken off, and a FollowUp sent if it is the Sync  *)
(* sent last.                                                                *)
LEMMA PopStackSends ==
    ASSUME MasterInv, NEW m \in Masters, PopStack(m)
    PROVE  \/ UNCHANGED followUps
           \/ /\ departed[m] \in 1 .. MaxSync
              /\ Id(m, departed[m]) \in SequenceId
              /\ followUps' = followUps \cup
                    {[src |-> m, sequenceId |-> Id(m, departed[m]),
                      t |-> departed[m]]}
<1> DEFINE n == Len(tx_stack[m])
<1>1. tx_stack[m] \in Seq(Packet) /\ tx_stack[m] # <<>>
  BY DEF PopStack, MasterInv, MasterTypeOK
<1>2. n \in 1 .. n
  BY <1>1, Popped
<1>3. CASE tx_stack[m][n].type # "SYNC"
  BY <1>3 DEF PopStack
<1>4. CASE tx_stack[m][n].type = "SYNC"
  <2>1. tx_stack[m][n].t = departed[m] /\ departed[m] >= 1
    BY <1>2, <1>4 DEF MasterInv, StackOrdered, StackOrderedFor
  <2>2. OwnSync(m, departed[m])
    BY <1>4, <2>1 DEF PopStack
  <2>3. departed[m] \in 1 .. MaxSync
    BY <2>1, MaxSyncAssumption DEF MasterInv, MasterTypeOK
  <2>4. QED
    BY <2>1, <2>2, <2>3, OwnSyncSends
<1>5. QED
  BY <1>3, <1>4

LEMMA FollowUpTyped ==
    ASSUME MasterInv, NEW m \in Masters, NEW t \in 1 .. MaxSync,
           NEW id \in SequenceId,
           followUps' = followUps \cup {[src |-> m, sequenceId |-> id, t |-> t]}
    PROVE  followUps' \subseteq [src : Masters, sequenceId : SequenceId,
                                 t : 1 .. MaxSync]
  BY DEF MasterInv, NetworkTypeOK

LEMMA PopStackKeeps ==
    ASSUME MasterInv, NEW m \in Masters, PopStack(m)
    PROVE  MasterInv'
<1> DEFINE n   == Len(tx_stack[m])
           sub == SubSeq(tx_stack[m], 1, n - 1)
<1>1. /\ UNCHANGED <<kind, portState, sentSyncSequenceId, departed, looped,
                     syncs>>
      /\ pc[m] = "handle" /\ tx_stack[m] # <<>>
      /\ pc' = [pc EXCEPT ![m] = "issue"]
      /\ tx_stack' = [tx_stack EXCEPT ![m] = sub]
  BY DEF PopStack
<1>2. /\ pc \in [Masters -> {"issue", "handle", "exited"}]
      /\ tx_stack \in [Masters -> Seq(Packet)]
  BY DEF MasterInv, MasterTypeOK
<1>3. /\ sub \in Seq(Packet) /\ Len(sub) = n - 1
      /\ \A i \in 1 .. n - 1 : sub[i] = tx_stack[m][i]
      /\ n \in Nat /\ n >= 1
  BY <1>1, <1>2, Popped
<1>4. StackOrderedFor(m)
  BY DEF MasterInv, StackOrdered
<1>5. n <= 2
      /\ \A i \in 1 .. n : tx_stack[m][i].type = "SYNC" => i = n
  BY <1>4 DEF StackOrderedFor
<1>6. tx_stack'[m] = sub /\ pc'[m] = "issue"
  BY <1>1, <1>2
<1> HIDE DEF n, sub
<1>7. Len(sub) <= 1 /\ \A i \in 1 .. Len(sub) : sub[i].type # "SYNC"
  <2>1. Len(sub) <= 1
    BY <1>3, <1>5
  <2>2. ASSUME NEW i \in 1 .. Len(sub) PROVE sub[i].type # "SYNC"
    <3>1. i \in 1 .. n - 1 /\ i \in 1 .. n /\ i # n
      BY <1>3
    <3>2. QED
      BY <1>3, <1>5, <3>1 DEF n
  <2>3. QED
    BY <2>1, <2>2
<1>8. StackOrderedFor(m)'
  <2>1. Len(sub) \in Nat
    BY <1>3
  <2>2. QED
    BY <1>6, <1>7, <2>1 DEF StackOrderedFor
<1>9. StackOrdered'
  BY <1>1, <1>2, <1>8, OthersOrdered
<1>10. /\ pc' \in [Masters -> {"issue", "handle", "exited"}]
       /\ tx_stack' \in [Masters -> Seq(Packet)]
  BY <1>1, <1>2, <1>3
<1>11. followUps' \subseteq [src : Masters, sequenceId : SequenceId,
                             t : 1 .. MaxSync]
  <2>1. CASE UNCHANGED followUps
    BY <2>1 DEF MasterInv, NetworkTypeOK
  <2>2. QED
    BY <2>1, PopStackSends, FollowUpTyped
<1>12. MasterTypeOK' /\ NetworkTypeOK'
  BY <1>1, <1>10, <1>11 DEF MasterInv, MasterTypeOK, NetworkTypeOK
<1>13. QED
  BY <1>1, <1>9, <1>12, NumbersKept DEF MasterInv

LEMMA ReadLoopbackKeeps ==
    ASSUME MasterInv, NEW m \in Masters, ReadLoopback(m)
    PROVE  MasterInv'
<1>1. /\ UNCHANGED <<kind, portState, sentSyncSequenceId, departed, tx_stack,
                     syncs>>
      /\ tx_stack[m] = <<>> /\ pc' = [pc EXCEPT ![m] = "issue"]
  BY DEF ReadLoopback
<1>2. PICK t \in looped[m] + 1 .. departed[m] :
         looped' = [looped EXCEPT ![m] = t] /\ OwnSync(m, t)
  BY DEF ReadLoopback
<1>3. /\ pc \in [Masters -> {"issue", "handle", "exited"}]
      /\ looped \in [Masters -> 0 .. MaxSync]
      /\ departed \in [Masters -> 0 .. MaxSync]
  BY DEF MasterInv, MasterTypeOK
<1>4. t \in 1 .. MaxSync /\ departed[m] >= 1
  BY <1>2, <1>3, MaxSyncAssumption
<1>5. looped' \in [Masters -> 0 .. MaxSync]
      /\ pc' \in [Masters -> {"issue", "handle", "exited"}]
  BY <1>1, <1>2, <1>3, <1>4, MaxSyncAssumption
<1>6. StackOrderedFor(m)'
  <2>1. Len(tx_stack'[m]) = 0 /\ pc'[m] = "issue"
    BY <1>1, <1>3
  <2>2. QED
    BY <2>1 DEF StackOrderedFor
<1>7. StackOrdered'
  BY <1>1, <1>3, <1>6, OthersOrdered
<1>8. followUps' \subseteq [src : Masters, sequenceId : SequenceId,
                            t : 1 .. MaxSync]
  <2>1. CASE UNCHANGED followUps
    BY <2>1 DEF MasterInv, NetworkTypeOK
  <2>2. CASE ~UNCHANGED followUps
    BY <1>2, <1>4, <2>2, OwnSyncSends, FollowUpTyped
  <2>3. QED
    BY <2>1, <2>2
<1>9. MasterTypeOK' /\ NetworkTypeOK'
  BY <1>1, <1>5, <1>8 DEF MasterInv, MasterTypeOK, NetworkTypeOK
<1>10. QED
  BY <1>1, <1>7, <1>9, NumbersKept DEF MasterInv

(* The slave sends nothing.                                                  *)
LEMMA SlaveSends ==
    ASSUME SlaveStep \/ UNCHANGED vars
    PROVE  UNCHANGED <<kind, pc, portState, sentSyncSequenceId, departed,
                       tx_stack, looped, syncs, followUps>>
  BY DEF SlaveStep, vars, master, NewParent, handleSync, handleFollowUp

LEMMA MasterInvInductive == MasterInv /\ [Next]_vars => MasterInv'
<1> SUFFICES ASSUME MasterInv, [Next]_vars PROVE MasterInv'
  OBVIOUS
<1>1. ASSUME NEW m \in Masters, MasterStep(m) PROVE MasterInv'
  BY <1>1, ToStateKeeps, NothingHandledKeeps, SyncKeeps, HandlePDelayReqKeeps,
     PopStackKeeps, ReadLoopbackKeeps, Zenon DEF MasterStep
<1>2. CASE SlaveStep \/ UNCHANGED vars
  <2>1. UNCHANGED <<kind, pc, portState, sentSyncSequenceId, departed,
                    tx_stack, looped, syncs, followUps>>
    BY <1>2, SlaveSends
  <2>2. MasterTypeOK' /\ NetworkTypeOK'
    BY <2>1 DEF MasterInv, MasterTypeOK, NetworkTypeOK
  <2>3. StackOrdered'
    BY <2>1 DEF MasterInv, StackOrdered, StackOrderedFor
  <2>4. QED
    BY <2>1, <2>2, <2>3, NumbersKept DEF MasterInv
<1>3. QED
  BY <1>1, <1>2 DEF Next

LEMMA MasterInvInitially == Init => MasterInv
<1> SUFFICES ASSUME Init PROVE MasterInv
  OBVIOUS
<1>1. MasterTypeOK
  <2>1. 0 \in 0 .. MaxSync /\ <<>> \in Seq(Packet)
    BY MaxSyncAssumption
  <2>2. QED
    BY <2>1, FirstSeqAssumption, Zenon DEF Init, MasterTypeOK
<1>2. NetworkTypeOK
  BY DEF Init, NetworkTypeOK
<1>3. ASSUME NEW m \in Masters PROVE NumberedFor(m)
  BY FirstSeqAssumption, MaxSyncAssumption
     DEF Init, NumberedFor, Id, SequenceId
<1>4. Numbered /\ AllDeparted
  BY <1>3 DEF Init, Numbered, AllDeparted
<1>5. ASSUME NEW m \in Masters PROVE StackOrderedFor(m)
  <2>1. pc[m] = "issue" /\ Len(tx_stack[m]) = 0
    BY DEF Init
  <2>2. QED
    BY <2>1 DEF StackOrderedFor
<1>6. QED
  BY <1>1, <1>2, <1>4, <1>5 DEF MasterInv, StackOrdered

THEOREM MasterInvariant == Spec => []MasterInv
  BY MasterInvInitially, MasterInvInductive, PTL DEF Spec

(* Whatever is sent, received and answered, for any masters of any kinds,    *)
(* txTimestamp() never finds the stack of stamped packets full, and so never *)
(* ends the daemon.                                                          *)
THEOREM StackHolds == Spec => []StackNeverOverflows
<1>1. MasterInv => StackNeverOverflows
  <2>1. \A m \in Masters : StackOrderedFor(m) => pc[m] # "exited"
    BY Zenon DEF StackOrderedFor
  <2>2. QED
    BY <2>1, Zenon DEF MasterInv, StackOrdered, StackNeverOverflows
<1>2. QED
  BY <1>1, MasterInvariant, PTL

-------------------------------------------------------------------------------
(* A FollowUp has the number of its Sync.                                    *)
FollowUpNumbered ==
    \A f \in followUps : f.t <= departed[f.src] /\ f.sequenceId = Id(f.src, f.t)

PromptInv == MasterInv /\ OneLoopback /\ FollowUpNumbered

LEMMA OneLoopbackInductive ==
    ASSUME Prompt, MasterInv, OneLoopback, [Next]_vars
    PROVE  OneLoopback'
<1>1. looped \in [Masters -> 0 .. MaxSync]
      /\ departed \in [Masters -> 0 .. MaxSync]
      /\ \A n \in 0 .. MaxSync : n \in Nat
  BY MaxSyncAssumption DEF MasterInv, MasterTypeOK
<1>2. ASSUME NEW m \in Masters, issueSync(m) PROVE OneLoopback'
  <2>1. /\ departed' = [departed EXCEPT ![m] = departed[m] + 1]
        /\ looped[m] = departed[m]
        /\ \/ UNCHANGED looped
           \/ looped' = [looped EXCEPT ![m] = departed[m] + 1]
    BY <1>2, SyncDeparts
  <2>2. QED
    BY <1>1, <2>1 DEF OneLoopback
<1>3. ASSUME NEW m \in Masters,
             netInit(m) \/ LoopbackLost(m) \/ ReadLoopback(m)
      PROVE  OneLoopback'
  <2>1. UNCHANGED departed
        /\ \E t \in 0 .. MaxSync :
              looped' = [looped EXCEPT ![m] = t]
              /\ t <= departed[m] /\ departed[m] <= t + 1
    <3>1. CASE netInit(m) \/ LoopbackLost(m)
      BY <1>1, <3>1 DEF netInit, LoopbackLost
    <3>2. CASE ReadLoopback(m)
      <4>1. PICK t \in looped[m] + 1 .. departed[m] :
               looped' = [looped EXCEPT ![m] = t]
        BY <3>2 DEF ReadLoopback
      <4>2. t \in 0 .. MaxSync /\ t <= departed[m] /\ departed[m] <= t + 1
        BY <1>1, <4>1, MaxSyncAssumption DEF OneLoopback
      <4>3. QED
        BY <3>2, <4>1, <4>2 DEF ReadLoopback
    <3>3. QED
      BY <1>3, <3>1, <3>2
  <2>2. QED
    BY <1>1, <2>1 DEF OneLoopback
<1>4. CASE UNCHANGED <<looped, departed>>
  BY <1>4 DEF OneLoopback
<1>5. QED
  BY <1>2, <1>3, <1>4 DEF Next, MasterStep, toState, NoSync, PopStack,
     handlePDelayReq, HandleOther, SlaveStep, NewParent, handleSync,
     handleFollowUp, vars, master

LEMMA FollowUpNumberedInductive ==
    ASSUME Prompt, PromptInv, [Next]_vars
    PROVE  FollowUpNumbered'
<1>1. departed \in [Masters -> 0 .. MaxSync]
      /\ looped \in [Masters -> 0 .. MaxSync]
      /\ \A f \in followUps : f.src \in Masters /\ f.t \in Nat
      /\ \A n \in 0 .. MaxSync : n \in Nat
  BY MaxSyncAssumption DEF PromptInv, MasterInv, MasterTypeOK, NetworkTypeOK
<1>2. ASSUME NEW m \in Masters, issueSync(m) PROVE FollowUpNumbered'
  <2>1. departed' = [departed EXCEPT ![m] = departed[m] + 1]
        /\ UNCHANGED followUps
    BY <1>2, SyncDeparts DEF PromptInv
  <2>2. QED
    BY <1>1, <2>1 DEF PromptInv, FollowUpNumbered, Id
<1>3. ASSUME NEW m \in Masters, PopStack(m) \/ ReadLoopback(m)
      PROVE  FollowUpNumbered'
  <2>1. UNCHANGED departed
    BY <1>3 DEF PopStack, ReadLoopback
  <2>2. \/ UNCHANGED followUps
        \/ followUps' = followUps \cup
              {[src |-> m, sequenceId |-> Id(m, departed[m]),
                t |-> departed[m]]}
    <3>1. CASE PopStack(m)
      BY <3>1, PopStackSends DEF PromptInv
    <3>2. CASE ReadLoopback(m)
      <4>1. PICK t \in looped[m] + 1 .. departed[m] : OwnSync(m, t)
        BY <3>2 DEF ReadLoopback
      <4>2. t = departed[m] /\ departed[m] >= 1
        BY <1>1, <4>1 DEF PromptInv, OneLoopback
      <4>3. QED
        BY <4>1, <4>2, OwnSyncSends DEF PromptInv
    <3>3. QED
      BY <1>3, <3>1, <3>2
  <2>3. QED
    BY <1>1, <2>1, <2>2 DEF PromptInv, FollowUpNumbered, Id
<1>4. CASE UNCHANGED <<followUps, departed>>
  BY <1>4 DEF PromptInv, FollowUpNumbered, Id
<1>5. QED
  BY <1>2, <1>3, <1>4 DEF Next, MasterStep, toState, netInit, NoSync,
     LoopbackLost, handlePDelayReq, HandleOther, SlaveStep, NewParent,
     handleSync, handleFollowUp, vars, master

LEMMA PromptInvInductive ==
    ASSUME Prompt PROVE PromptInv /\ [Next]_vars => PromptInv'
<1>1. SUFFICES ASSUME PromptInv, [Next]_vars PROVE PromptInv'
  OBVIOUS
<1>2. QED
  BY <1>1, MasterInvInductive, OneLoopbackInductive, FollowUpNumberedInductive
     DEF PromptInv

LEMMA PromptInvInitially == Init => PromptInv
<1> SUFFICES ASSUME Init PROVE PromptInv
  OBVIOUS
<1>1. OneLoopback /\ FollowUpNumbered
  BY DEF Init, OneLoopback, FollowUpNumbered
<1>2. QED
  BY <1>1, MasterInvInitially DEF PromptInv

(* When every looped back Sync is read before the next is sent, the number   *)
(* and the departure time of a FollowUp are those of one Sync.               *)
THEOREM FollowUpIsOfItsSync ==
    ASSUME Prompt PROVE Spec => []FollowUpNamesItsSync
<1>1. PromptInv => FollowUpNamesItsSync
  <2> SUFFICES ASSUME PromptInv, NEW f \in followUps
               PROVE  \E s \in syncs : s.src = f.src
                          /\ s.sequenceId = f.sequenceId /\ s.t = f.t
    BY DEF FollowUpNamesItsSync
  <2>1. f.src \in Masters /\ f.t \in 1 .. departed[f.src]
        /\ f.sequenceId = Id(f.src, f.t)
    BY DEF PromptInv, FollowUpNumbered, MasterInv, NetworkTypeOK, MasterTypeOK
  <2>2. PICK s \in syncs : s.src = f.src /\ s.t = f.t
    BY <2>1 DEF PromptInv, MasterInv, AllDeparted
  <2>3. s.sequenceId = Id(s.src, s.t)
    BY DEF PromptInv, MasterInv, Numbered
  <2>4. QED
    BY <2>1, <2>2, <2>3
<1>2. QED
  BY <1>1, PromptInvInitially, PromptInvInductive, PTL DEF Spec

-------------------------------------------------------------------------------
(* The slave, when every looped back Sync is read before the next one is     *)
(* sent. Fresh is what makes the pairing of Sync and FollowUp work: what the *)
(* slave waits for is the FollowUp of the Sync that sync_receive_time        *)
(* belongs to, and that Sync is newer than the one measured with last.       *)


(* What is read has departed, what is measured with has been read.           *)
InOrder == \A m \in Masters : heard[m] <= departed[m] /\ measured[m] <= heard[m]

Fresh ==
    waitingForFollow =>
        /\ sync_receive_time \in Arrival
        /\ recvSyncSequenceId =
              Id(sync_receive_time.src, sync_receive_time.t)
        /\ measured[sync_receive_time.src] < sync_receive_time.t
        /\ sync_receive_time.t <= heard[sync_receive_time.src]

UpdatesBounded == \A m \in Masters : updates[m] <= measured[m]

SlaveInv == SlaveTypeOK /\ InOrder /\ Fresh /\ UpdatesBounded
            /\ OffsetFromOneSync

SyncInv == PromptInv /\ SlaveInv

-------------------------------------------------------------------------------
(* An offset from the Sync and the time of departure of the same Sync of m,  *)
(* newer than the last.                                                      *)
LEMMA OffsetOfOneSync ==
    ASSUME SlaveInv, NEW m \in Masters, NEW t \in 1 .. MaxSync,
           measured[m] < t,
           offset' = [offset EXCEPT ![m][m] = [origin |-> t, received |-> t]],
           updates' = [updates EXCEPT ![m] = @ + 1]
    PROVE  /\ offset' \in [Masters -> [Masters -> Times \cup {NULL}]]
           /\ updates' \in [Masters -> Nat]
           /\ measured' = [measured EXCEPT ![m] = t]
           /\ UpdatesBounded' /\ OffsetFromOneSync'
<1> DEFINE o == [origin |-> t, received |-> t]
<1>1. o \in Times /\ o # NULL /\ o.origin = t /\ o.received = t
  BY NoTimesAssumption DEF Times
<1>2. /\ offset \in [Masters -> [Masters -> Times \cup {NULL}]]
      /\ updates \in [Masters -> Nat]
  BY DEF SlaveInv, SlaveTypeOK
<1> HIDE DEF o
<1>3. offset' = [offset EXCEPT ![m][m] = o]
  BY DEF o
<1>4. offset' \in [Masters -> [Masters -> Times \cup {NULL}]]
      /\ updates' \in [Masters -> Nat]
  BY <1>1, <1>2, <1>3
<1>5. \A n \in Masters : offset'[n][n] = IF n = m THEN o ELSE offset[n][n]
  BY <1>2, <1>3
<1>6. measured' = [measured EXCEPT ![m] = t]
  <2>1. \A n \in Masters :
           (IF offset'[n][n] = NULL THEN 0 ELSE offset'[n][n].origin)
              = IF n = m THEN t ELSE measured[n]
    BY <1>1, <1>5 DEF measured
  <2>2. measured' = [n \in Masters |-> IF n = m THEN t ELSE measured[n]]
    BY <2>1, Zenon DEF measured
  <2>3. [measured EXCEPT ![m] = t]
           = [n \in Masters |-> IF n = m THEN t ELSE measured[n]]
    BY DEF measured
  <2>4. QED
    BY <2>2, <2>3
<1>7. OffsetFromOneSync'
  BY <1>1, <1>5 DEF SlaveInv, OffsetFromOneSync
<1>8. UpdatesBounded'
  <2>1. \A n \in Masters : measured[n] \in Nat
    BY <1>2, MaxSyncAssumption DEF measured, Times
  <2>2. \A n \in Masters : measured'[n] = IF n = m THEN t ELSE measured[n]
    BY <1>6 DEF measured
  <2>3. \A n \in Masters : updates'[n] = IF n = m THEN updates[n] + 1
                                         ELSE updates[n]
    BY <1>2
  <2>4. \A n \in Masters : updates[n] <= measured[n] /\ updates[n] \in Nat
    BY <1>2 DEF SlaveInv, UpdatesBounded
  <2>5. \A n \in Masters : updates'[n] <= measured'[n]
    BY <2>1, <2>2, <2>3, <2>4
  <2>6. QED
    BY <2>5 DEF UpdatesBounded, measured
<1>9. QED
  BY <1>4, <1>6, <1>7, <1>8

(* A FollowUp of another port than the one whose Sync has arrived: the mixed *)
(* offset of a change of parent, which the properties leave alone.           *)
LEMMA OffsetOfTwoPorts ==
    ASSUME SlaveInv, NEW m \in Masters, NEW r \in Masters, m # r,
           NEW t \in 1 .. MaxSync, NEW u \in 1 .. MaxSync,
           offset' = [offset EXCEPT ![m][r] = [origin |-> t, received |-> u]],
           UNCHANGED updates
    PROVE  /\ offset' \in [Masters -> [Masters -> Times \cup {NULL}]]
           /\ updates' \in [Masters -> Nat]
           /\ measured' = measured
           /\ UpdatesBounded' /\ OffsetFromOneSync'
<1> DEFINE o == [origin |-> t, received |-> u]
<1>1. o \in Times
  BY DEF Times
<1>2. /\ offset \in [Masters -> [Masters -> Times \cup {NULL}]]
      /\ updates \in [Masters -> Nat]
  BY DEF SlaveInv, SlaveTypeOK
<1> HIDE DEF o
<1>3. offset' = [offset EXCEPT ![m][r] = o]
  BY DEF o
<1>4. offset' \in [Masters -> [Masters -> Times \cup {NULL}]]
  BY <1>1, <1>2, <1>3
<1>5. \A n \in Masters : offset'[n][n] = offset[n][n]
  BY <1>2, <1>3
<1>6. measured' = measured
  BY <1>5 DEF measured
<1>7. OffsetFromOneSync'
  BY <1>5 DEF SlaveInv, OffsetFromOneSync
<1>8. UpdatesBounded'
  BY <1>6 DEF SlaveInv, UpdatesBounded
<1>9. QED
  BY <1>2, <1>4, <1>6, <1>7, <1>8

LEMMA NothingMeasured ==
    ASSUME SlaveInv, UNCHANGED <<offset, updates>>
    PROVE  /\ offset' \in [Masters -> [Masters -> Times \cup {NULL}]]
           /\ updates' \in [Masters -> Nat]
           /\ measured' = measured
           /\ UpdatesBounded' /\ OffsetFromOneSync'
  BY DEF SlaveInv, SlaveTypeOK, UpdatesBounded, OffsetFromOneSync, measured

-------------------------------------------------------------------------------
LEMMA MeasuredTyped ==
    ASSUME SyncInv
    PROVE  /\ \A n \in Masters : /\ heard[n] \in Nat
                                 /\ departed[n] \in Nat
                                 /\ measured[n] \in Nat
           /\ \A n \in 0 .. MaxSync : n \in Nat
<1>1. /\ heard \in [Masters -> 0 .. MaxSync]
      /\ departed \in [Masters -> 0 .. MaxSync]
      /\ offset \in [Masters -> [Masters -> Times \cup {NULL}]]
  BY DEF SyncInv, PromptInv, MasterInv, MasterTypeOK, SlaveInv, SlaveTypeOK
<1>2. \A n \in Masters : measured[n] \in Nat
  BY <1>1, MaxSyncAssumption DEF measured, Times
<1>3. QED
  BY <1>1, <1>2, MaxSyncAssumption

LEMMA MasterStepKeeps ==
    ASSUME SyncInv, NEW m \in Masters, MasterStep(m)
    PROVE  SlaveInv'
<1>1. UNCHANGED slave
  BY DEF MasterStep, toState, netInit, issueSync, NoSync, PopStack,
     ReadLoopback, LoopbackLost, handlePDelayReq, HandleOther
<1>2. UNCHANGED <<parent, heard, waitingForFollow, recvSyncSequenceId,
                  sync_receive_time, offset, updates>>
  BY <1>1 DEF slave
<1>3. \A n \in Masters : departed'[n] >= departed[n] /\ departed'[n] \in Nat
  <2>1. departed \in [Masters -> 0 .. MaxSync]
        /\ \A n \in 0 .. MaxSync : n \in Nat
    BY MaxSyncAssumption DEF SyncInv, PromptInv, MasterInv, MasterTypeOK
  <2>2. \/ departed' = departed
        \/ departed' = [departed EXCEPT ![m] = departed[m] + 1]
    BY DEF MasterStep, toState, netInit, issueSync, NoSync, PopStack,
       ReadLoopback, LoopbackLost, handlePDelayReq, HandleOther
  <2>3. QED
    BY <2>1, <2>2
<1>4. measured' = measured
  BY <1>2 DEF measured
<1>5. InOrder'
  <2>1. \A n \in Masters : heard'[n] <= departed'[n]
                           /\ measured'[n] <= heard'[n]
    BY <1>2, <1>3, <1>4, MeasuredTyped DEF SyncInv, SlaveInv, InOrder
  <2>2. QED
    BY <2>1 DEF InOrder, measured
<1>6. Fresh'
  BY <1>2, <1>4 DEF SyncInv, SlaveInv, Fresh, Id
<1>7. QED
  BY <1>2, <1>5, <1>6, NothingMeasured
     DEF SyncInv, SlaveInv, SlaveTypeOK

LEMMA NewParentKeeps ==
    ASSUME SyncInv, NEW p \in Masters \cup {NULL}, NewParent(p)
    PROVE  SlaveInv'
<1>1. /\ UNCHANGED <<departed, heard, recvSyncSequenceId, sync_receive_time,
                     offset, updates>>
      /\ parent' = p
      /\ waitingForFollow' \in BOOLEAN
      /\ waitingForFollow' => waitingForFollow
  BY DEF NewParent, master, SyncInv, SlaveInv, SlaveTypeOK
<1>2. measured' = measured
  BY <1>1 DEF measured
<1>3. InOrder'
  BY <1>1 DEF SyncInv, SlaveInv, InOrder, measured
<1>4. Fresh'
  BY <1>1, <1>2 DEF SyncInv, SlaveInv, Fresh, Id
<1>5. QED
  BY <1>1, <1>3, <1>4, NothingMeasured DEF SyncInv, SlaveInv, SlaveTypeOK

LEMMA HandleSyncKeeps ==
    ASSUME SyncInv, NEW s \in syncs, handleSync(s)
    PROVE  /\ SlaveInv'
           /\ \/ measured' = measured
              \/ /\ s.src \in Masters
                 /\ s.t \in measured[s.src] + 1 .. departed[s.src]
                 /\ measured' = [measured EXCEPT ![s.src] = s.t]
<1>1. /\ s.src \in Masters /\ s.t \in 1 .. MaxSync
      /\ s.sequenceId \in SequenceId /\ s.twoStep \in BOOLEAN
      /\ s.t <= departed[s.src] /\ s.sequenceId = Id(s.src, s.t)
      /\ s.t \in Nat
  BY MaxSyncAssumption
     DEF SyncInv, PromptInv, MasterInv, NetworkTypeOK, Numbered
<1>2. /\ UNCHANGED <<departed, parent>>
      /\ heard[s.src] < s.t
      /\ heard' = [heard EXCEPT ![s.src] = s.t]
  <2>1. heard[s.src] \in Nat
    BY <1>1, MeasuredTyped
  <2>2. QED
    BY <1>1, <2>1 DEF handleSync, master
<1>3. heard' \in [Masters -> 0 .. MaxSync]
      /\ \A n \in Masters : heard'[n] = IF n = s.src THEN s.t ELSE heard[n]
  BY <1>1, <1>2 DEF SyncInv, SlaveInv, SlaveTypeOK
<1>4. measured[s.src] < s.t
  BY <1>1, <1>2, MeasuredTyped DEF SyncInv, SlaveInv, InOrder
<1>5. CASE s.src # parent
  <2>1. UNCHANGED <<waitingForFollow, recvSyncSequenceId, sync_receive_time,
                    offset, updates>>
    BY <1>5 DEF handleSync
  <2>2. measured' = measured
    BY <2>1 DEF measured
  <2>3. InOrder'
    <3>1. \A n \in Masters : heard'[n] <= departed[n]
                             /\ measured[n] <= heard'[n]
      BY <1>1, <1>3, <1>4, MeasuredTyped DEF SyncInv, SlaveInv, InOrder
    <3>2. QED
      BY <1>2, <2>1, <3>1 DEF InOrder, measured
  <2>4. Fresh'
    <3>1. SUFFICES ASSUME waitingForFollow'
                   PROVE  Fresh'
      BY DEF Fresh
    <3>2. /\ sync_receive_time \in Arrival
          /\ recvSyncSequenceId =
                Id(sync_receive_time.src, sync_receive_time.t)
          /\ measured[sync_receive_time.src] < sync_receive_time.t
          /\ sync_receive_time.t <= heard[sync_receive_time.src]
      BY <2>1, <3>1 DEF SyncInv, SlaveInv, Fresh
    <3>3. sync_receive_time.t <= heard'[sync_receive_time.src]
      <4>1. sync_receive_time.src \in Masters /\ sync_receive_time.t \in Nat
        BY <3>2, MaxSyncAssumption DEF Arrival
      <4>2. QED
        BY <1>1, <1>2, <1>3, <3>2, <4>1, MeasuredTyped
    <3>4. QED
      BY <2>1, <2>2, <3>2, <3>3 DEF Fresh, Id
  <2>5. QED
    BY <1>2, <1>3, <2>1, <2>2, <2>3, <2>4, NothingMeasured
       DEF SyncInv, SlaveInv, SlaveTypeOK
<1>6. CASE s.src = parent /\ s.twoStep
  <2>1. /\ sync_receive_time' = [src |-> s.src, t |-> s.t]
        /\ recvSyncSequenceId' = s.sequenceId
        /\ waitingForFollow' = s.twoStep
        /\ UNCHANGED <<offset, updates>>
    BY <1>6 DEF handleSync
  <2>2. measured' = measured
    BY <2>1 DEF measured
  <2>3. InOrder'
    <3>1. \A n \in Masters : heard'[n] <= departed[n]
                             /\ measured[n] <= heard'[n]
      BY <1>1, <1>3, <1>4, MeasuredTyped DEF SyncInv, SlaveInv, InOrder
    <3>2. QED
      BY <1>2, <2>1, <3>1 DEF InOrder, measured
  <2>4. sync_receive_time' \in Arrival /\ sync_receive_time'.src = s.src
        /\ sync_receive_time'.t = s.t
    BY <1>1, <2>1 DEF Arrival
  <2>5. Fresh'
    <3>1. heard'[s.src] = s.t
      BY <1>1, <1>3
    <3>2. measured'[s.src] < s.t
      BY <1>4, <2>2
    <3>3. QED
      BY <1>1, <2>1, <2>4, <3>1, <3>2 DEF Fresh, Id
  <2>6. QED
    BY <1>1, <1>2, <1>3, <2>1, <2>2, <2>3, <2>4, <2>5, NothingMeasured
       DEF SyncInv, SlaveInv, SlaveTypeOK
<1>7. CASE s.src = parent /\ ~s.twoStep
  <2>1. /\ sync_receive_time' = [src |-> s.src, t |-> s.t]
        /\ waitingForFollow' = FALSE
        /\ recvSyncSequenceId' = recvSyncSequenceId
        /\ updateOffset(s.src, s.t, sync_receive_time')
    BY <1>7 DEF handleSync
  <2>2. sync_receive_time' \in Arrival /\ sync_receive_time'.src = s.src
        /\ sync_receive_time'.t = s.t
    BY <1>1, <2>1 DEF Arrival
  <2>3. /\ offset' = [offset EXCEPT ![s.src][s.src] =
                         [origin |-> s.t, received |-> s.t]]
        /\ updates' = [updates EXCEPT ![s.src] = @ + 1]
    BY <2>1, <2>2 DEF updateOffset
  <2>4. /\ offset' \in [Masters -> [Masters -> Times \cup {NULL}]]
        /\ updates' \in [Masters -> Nat]
        /\ measured' = [measured EXCEPT ![s.src] = s.t]
        /\ UpdatesBounded' /\ OffsetFromOneSync'
    BY <1>1, <1>4, <2>3, OffsetOfOneSync DEF SyncInv
  <2>5. \A n \in Masters : measured'[n] = IF n = s.src THEN s.t
                                           ELSE measured[n]
    BY <2>4 DEF measured
  <2>6. \A n \in Masters : heard'[n] <= departed'[n]
                           /\ measured'[n] <= heard'[n]
    BY <1>1, <1>2, <1>3, <2>5, MeasuredTyped DEF SyncInv, SlaveInv, InOrder
  <2>7. InOrder'
    BY <2>6 DEF InOrder, measured
  <2>8. Fresh'
    BY <2>1 DEF Fresh
  <2>9. s.t \in measured[s.src] + 1 .. departed[s.src]
    BY <1>1, <1>4, MeasuredTyped
  <2>10. QED
    BY <1>1, <1>2, <1>3, <2>1, <2>2, <2>4, <2>7, <2>8, <2>9
       DEF SyncInv, SlaveInv, SlaveTypeOK
<1>8. QED
  BY <1>1, <1>5, <1>6, <1>7

LEMMA HandleFollowUpKeeps ==
    ASSUME SyncInv, NEW f \in followUps, handleFollowUp(f)
    PROVE  /\ SlaveInv'
           /\ \/ measured' = measured
              \/ /\ f.src \in Masters
                 /\ f.t \in measured[f.src] + 1 .. departed[f.src]
                 /\ measured' = [measured EXCEPT ![f.src] = f.t]
<1> DEFINE m == f.src
           r == sync_receive_time.src
           u == sync_receive_time.t
<1>1. /\ m \in Masters /\ f.t \in 1 .. MaxSync
      /\ f.t <= departed[m] /\ f.sequenceId = Id(m, f.t)
  BY DEF SyncInv, PromptInv, MasterInv, NetworkTypeOK, FollowUpNumbered
<1>2. /\ UNCHANGED <<departed, parent, heard, recvSyncSequenceId,
                     sync_receive_time>>
      /\ waitingForFollow /\ waitingForFollow' = FALSE
      /\ recvSyncSequenceId = f.sequenceId
      /\ updateOffset(m, f.t, sync_receive_time)
  BY DEF handleFollowUp, master
<1>3. /\ r \in Masters /\ u \in 1 .. MaxSync
      /\ recvSyncSequenceId = Id(r, u)
      /\ measured[r] < u /\ u <= heard[r]
  BY <1>2 DEF SyncInv, SlaveInv, Fresh, Arrival
<1>4. Fresh'
  BY <1>2 DEF Fresh
<1>5. CASE m = r
  <2>1. f.t = u
    BY <1>1, <1>2, <1>3, <1>5, IdsDiffer
  <2>2. /\ offset' = [offset EXCEPT ![m][m] =
                         [origin |-> u, received |-> u]]
        /\ updates' = [updates EXCEPT ![m] = @ + 1]
    BY <1>2, <1>5, <2>1 DEF updateOffset
  <2>3. /\ offset' \in [Masters -> [Masters -> Times \cup {NULL}]]
        /\ updates' \in [Masters -> Nat]
        /\ measured' = [measured EXCEPT ![m] = u]
        /\ UpdatesBounded' /\ OffsetFromOneSync'
    BY <1>1, <1>3, <1>5, <2>2, OffsetOfOneSync DEF SyncInv
  <2>4. \A n \in Masters : measured'[n] = IF n = m THEN u ELSE measured[n]
    BY <2>3 DEF measured
  <2>5. \A n \in Masters : heard'[n] <= departed'[n]
                           /\ measured'[n] <= heard'[n]
    BY <1>2, <1>3, <1>5, <2>4, MeasuredTyped DEF SyncInv, SlaveInv, InOrder
  <2>6. InOrder'
    BY <2>5 DEF InOrder, measured
  <2>7. u \in measured[m] + 1 .. departed[m]
    BY <1>1, <1>3, <1>5, <2>1, MeasuredTyped
  <2>8. QED
    BY <1>1, <1>2, <1>4, <2>1, <2>3, <2>6, <2>7
       DEF SyncInv, SlaveInv, SlaveTypeOK
<1>6. CASE m # r
  <2>1. /\ offset' = [offset EXCEPT ![m][r] =
                         [origin |-> f.t, received |-> u]]
        /\ UNCHANGED updates
    BY <1>2, <1>6 DEF updateOffset
  <2>2. /\ offset' \in [Masters -> [Masters -> Times \cup {NULL}]]
        /\ updates' \in [Masters -> Nat]
        /\ measured' = measured
        /\ UpdatesBounded' /\ OffsetFromOneSync'
    BY <1>1, <1>3, <1>6, <2>1, OffsetOfTwoPorts DEF SyncInv
  <2>3. InOrder'
    <3>1. \A n \in Masters : heard'[n] <= departed'[n]
                             /\ measured'[n] <= heard'[n]
      BY <1>2, <2>2 DEF SyncInv, SlaveInv, InOrder
    <3>2. QED
      BY <3>1 DEF InOrder, measured
  <2>4. QED
    BY <1>2, <1>4, <2>2, <2>3 DEF SyncInv, SlaveInv, SlaveTypeOK
<1>7. QED
  BY <1>5, <1>6

-------------------------------------------------------------------------------
LEMMA SyncInvInductive ==
    ASSUME Prompt PROVE SyncInv /\ [Next]_vars => SyncInv'
<1>1. SUFFICES ASSUME SyncInv, [Next]_vars PROVE SyncInv'
  OBVIOUS
<1>2. PromptInv'
  BY <1>1, PromptInvInductive DEF SyncInv
<1>3. CASE UNCHANGED vars
  <2>1. UNCHANGED <<departed, parent, heard, waitingForFollow,
                    recvSyncSequenceId, sync_receive_time, offset, updates>>
    BY <1>3 DEF vars, master, slave
  <2>2. SlaveInv'
    BY <1>1, <2>1 DEF SyncInv, SlaveInv, SlaveTypeOK, InOrder, Fresh, Id,
       UpdatesBounded, OffsetFromOneSync, measured
  <2>3. QED
    BY <1>2, <2>2 DEF SyncInv
<1>4. CASE SlaveStep
  BY <1>1, <1>2, <1>4, NewParentKeeps, HandleSyncKeeps, HandleFollowUpKeeps
     DEF SlaveStep, SyncInv
<1>5. QED
  BY <1>1, <1>2, <1>3, <1>4, MasterStepKeeps DEF Next, SyncInv

LEMMA SyncInvInitially == Init => SyncInv
<1> SUFFICES ASSUME Init PROVE SyncInv
  OBVIOUS
<1>1. SlaveTypeOK
  <2>1. 0 \in 0 .. MaxSync /\ 0 \in SequenceId /\ 0 \in Nat
    BY MaxSyncAssumption DEF SequenceId
  <2>2. QED
    BY <2>1, Zenon DEF Init, SlaveTypeOK
<1>2. InOrder /\ UpdatesBounded
  BY DEF Init, InOrder, UpdatesBounded, measured
<1>3. Fresh /\ OffsetFromOneSync
  BY DEF Init, Fresh, OffsetFromOneSync
<1>4. QED
  BY <1>1, <1>2, <1>3, PromptInvInitially DEF SyncInv, SlaveInv

THEOREM SyncInvariant == ASSUME Prompt PROVE Spec => []SyncInv
  BY SyncInvInitially, SyncInvInductive, PTL DEF Spec

(* Every variable of the Sync exchange keeps its type, the ids their width.  *)
THEOREM SyncTypeCorrect == ASSUME Prompt PROVE Spec => []TypeOK
<1>1. SyncInv => TypeOK
  BY DEF SyncInv, PromptInv, MasterInv, SlaveInv, TypeOK
<1>2. QED
  BY <1>1, SyncInvariant, PTL

(* For any masters, kinds and first ids: the offset from a parent is always  *)
(* measured with the arrival and the departure of one and the same Sync.     *)
THEOREM OffsetIsOfOneSync == ASSUME Prompt PROVE Spec => []OffsetFromOneSync
<1>1. SyncInv => OffsetFromOneSync
  BY DEF SyncInv, SlaveInv
<1>2. QED
  BY <1>1, SyncInvariant, PTL

(* No Sync is measured with twice, whatever is duplicated.                   *)
THEOREM EachMeasuredOnce == ASSUME Prompt PROVE Spec => []MeasuredOnce
<1>1. ASSUME SyncInv, NEW m \in Masters
      PROVE  IF offset[m][m] = NULL THEN updates[m] = 0
             ELSE updates[m] <= offset[m][m].origin
  <2>1. updates[m] \in Nat
    BY <1>1 DEF SyncInv, SlaveInv, SlaveTypeOK
  <2>2. updates[m] <= measured[m]
    BY <1>1 DEF SyncInv, SlaveInv, UpdatesBounded
  <2>3. QED
    BY <2>1, <2>2 DEF measured
<1>2. SyncInv => MeasuredOnce
  BY <1>1, Zenon DEF MeasuredOnce
<1>3. QED
  BY <1>2, SyncInvariant, PTL

-------------------------------------------------------------------------------
(* Every step departs a Sync, measures with one that departed after the last *)
(* one measured with, or is none of Measurement.                             *)
LEMMA StepMeasures ==
    SyncInv /\ [Next]_vars => [Promise!Next]_<<departed, measured>>
<1> SUFFICES ASSUME SyncInv, [Next]_vars
             PROVE  [Promise!Next]_<<departed, measured>>
  OBVIOUS
<1>1. ASSUME NEW m \in Masters, MasterStep(m)
      PROVE  [Promise!Next]_<<departed, measured>>
  <2>1. UNCHANGED offset
    BY <1>1 DEF MasterStep, toState, netInit, issueSync, NoSync, PopStack,
       ReadLoopback, LoopbackLost, handlePDelayReq, HandleOther, slave
  <2>2. measured' = measured
    BY <2>1 DEF measured
  <2>3. \/ departed' = departed
        \/ departed' = [departed EXCEPT ![m] = departed[m] + 1]
    BY <1>1 DEF MasterStep, toState, netInit, issueSync, NoSync, PopStack,
       ReadLoopback, LoopbackLost, handlePDelayReq, HandleOther
  <2>4. QED
    BY <2>2, <2>3 DEF Promise!Next, Promise!Depart
<1>2. ASSUME NEW m \in Masters, NEW t \in measured[m] + 1 .. departed[m],
             measured' = [measured EXCEPT ![m] = t], UNCHANGED departed
      PROVE  [Promise!Next]_<<departed, measured>>
  BY <1>2 DEF Promise!Next, Promise!Measure
<1>3. ASSUME NEW s \in syncs, handleSync(s)
      PROVE  [Promise!Next]_<<departed, measured>>
  <2>1. UNCHANGED departed
    BY <1>3 DEF handleSync, master
  <2>2. QED
    BY <1>2, <1>3, <2>1, HandleSyncKeeps
<1>4. ASSUME NEW f \in followUps, handleFollowUp(f)
      PROVE  [Promise!Next]_<<departed, measured>>
  <2>1. UNCHANGED departed
    BY <1>4 DEF handleFollowUp, master
  <2>2. QED
    BY <1>2, <1>4, <2>1, HandleFollowUpKeeps
<1>5. CASE UNCHANGED <<departed, offset>>
  BY <1>5 DEF measured
<1>6. QED
  BY <1>1, <1>3, <1>4, <1>5 DEF Next, SlaveStep, NewParent, vars, master,
     slave

(* The exchange implements Measurement.                                      *)
THEOREM SyncImplementsMeasurement ==
    ASSUME Prompt PROVE Spec => MeasuresInOrder
<1>1. Init => Promise!Init
  BY DEF Init, Promise!Init, measured
<1>2. QED
  BY <1>1, StepMeasures, SyncInvariant, PTL
     DEF Spec, MeasuresInOrder, Promise!Spec
================================================================================
