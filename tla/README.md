# A TLA+ model of ptpd2

`ptpd` is a daemon for IEEE 1588-2008 (PTP version 2): one single-threaded
process with one port that elects a master clock, measures its own offset from
it and disciplines the local clock. This directory models the logic of the
daemon, checks it with TLC on small instances and proves its safety with TLAPS
for all instances.

What the model says in short:

* the table of foreign masters, the state decision and the timers hold together
  over every sequence of announces, timeouts, faults and re-initialisations
  (proved);
* a port that does not fault elects as if its table were the set of the masters
  it has heard (an abstract specification that the port implements; proved), and
  a slave whose parent announces every second stays one (proved);
* several such ports never follow one another in a ring, whatever announces are
  lost and whichever of them are switched off (proved), and settle on one master
  once announces are timely (checked); the best clock keeps the mastership it has
  won, and loses followers by their receipt timeouts only (proved);
* the three exchanges of time stamps combine times of one exchange, once and in
  order, across loss, delay and duplication, under assumptions this document
  names (proved);
* the servo computes with times in normal form and its delay filter never
  overflows; in a closed loop with the clock, if no more than a stated number of
  seconds passes without a Sync, the path delay it subtracts is one of the path, it
  sets the clock only when that is off by a second and, end to end, never again
  once it was not (all proved), and it settles (checked);
* although all messages are packed into one buffer, their receivers read what was
  meant (proved);
* four things the code does differ from what its documents and comments say;
  each has a run that shows it (see *Divergences*).

## 1. The system

All paths below are under `src/src/`. The process has one loop and one signal
handler that matters: `protocol()` calls `doState()` for ever, and `SIGALRM`,
once per second, adds to a counter.

| component | code | state it keeps | operations |
|---|---|---|---|
| port engine | `protocol.c` | port state, `record_update`, `message_activity` | `protocol`, `doInit`, `doState`, `toState`, `handle` and the `handle*`, `issue*` functions |
| foreign masters | `protocol.c` (`addForeign`), `bmc.c` | the table `foreign[]`, its count, the insertion index `foreign_record_i`, the best index `foreign_record_best` | `addForeign`, `bmc`, the receipt timeout, `initData` |
| best master clock | `bmc.c` | parent data set | `bmcDataSetComparison`, `bmcStateDecision`, `bmc`, `m1`, `s1` |
| interval timers | `dep/timer.c` | `itimer[]` (interval, left, expire), `elapsed` | `initTimer`, `timerStart`, `timerStop`, `timerExpired`, `catch_alarm` |
| Sync and FollowUp | `protocol.c`, `dep/msg.c`, `dep/net.c` | `sentSyncSequenceId`, `waitingForFollow`, `recvSyncSequenceId`, `sync_receive_time`, `tx_stack` | `issueSync`, `issueFollowup`, `handleSync`, `handleFollowUp` |
| delay requests | the same | `sentDelayReqSequenceId`, `delay_req_send_time`, `delay_req_receive_time` | `issueDelayReq`, `handleDelayReq`, `issueDelayResp`, `handleDelayResp` |
| peer delay | the same | `sentPDelayReqSequenceId`, t1 to t4, `PdelayReqHeader` | `issuePDelayReq`, `issuePDelayResp`, `issuePDelayRespFollowUp` and their handlers |
| network | `dep/net.c` | sockets, `tx_stack` | `netInit`, `netSelect`, `netRecvEvent`, `netRecvGeneral`, `netRecvRaw`, `txTimestamp` |
| message formats | `dep/msg.c` | the one output buffer `msgObuf`, `PdelayReqHeader` | `msgPack*`, `msgUnpack*` |
| servo | `dep/servo.c` | filters, observed drift, `offset_first_updated`, mean path delay, offset | `initClock`, `updateOffset`, `updateDelay`, `updatePeerDelay`, `updateClock` |
| arithmetic | `arith.c` | none | `addTime`, `subTime`, `divTime`, `normalizeTime`, conversions |
| process | `ptpd.c`, `dep/startup.c`, `dep/sys.c`, `dep/phc.c`, `setclock.c`, `display.c` | options, log files | start, signals, system clock, printing |

How they interact. `doState()` first runs `bmc()` if an announce has come, which
may call `toState()`; then it switches on the port state *again* and, for most
states, calls `handle()`, which waits in `netSelect()` unless
`message_activity` is set, reads the event socket and, if that is empty, the
general socket, and calls one handler. The timers are read after that. Time
stamps of one's own messages arrive through the same sockets: an event message
is looped back by the multicast group (software time stamps), or its stamp is
read from the error queue right after sending and the packet is put on
`tx_stack`, from where the next receive call takes it (hardware time stamps).

What is hard here:

* **Order within one `doState()`.** The state changes in the middle of it, by
  the decision, by `handle()`, by a timer; the code after it runs in the new
  state with tests made for the old one.
* **Stale state.** A re-initialisation or a receipt timeout empties the foreign
  table by its count alone. Timers keep their `expire` flag when stopped. A
  change of parent keeps `waitingForFollow`.
* **Pairing.** Each measurement combines times stored by two to four handlers,
  of which usually one compares a 16 bit sequence id that wraps.
* **An unreliable network.** Every message can be lost, and general messages
  late and duplicated; other masters and slaves send with equal ids.
* **Time.** Seconds are counted by a signal and charged to the timers when one
  of them is next looked at.
* **One buffer.** `msgPackHeader()` fills the header once, in `doInit()`; every
  message overwrites some fields and sends whatever stands in the others.
* **Feedback.** The servo measures with the clock it steers. Signed seconds and
  nanoseconds carry into each other, one division is unsigned, and a filter's
  stiffness depends on what it holds.

What makes each component correct:

| component | properties |
|---|---|
| best master clock | the comparison is antisymmetric, transitive where the election needs it, and follows the order of the attributes |
| foreign masters | no slot is read that was not written; every announce is decided on before the next; the loop of `bmc()` ends with a record no other beats; table, indices and loop implement the choice of a best element of a set |
| port engine and timers | exactly the timers of the state run; a master carries its own data set; a slave only clock is never master; a healthy port is never faulty; a quiet network leads to MASTER; a slave is steady |
| exchanges | the times of a measurement belong to one exchange; each is used once and in order; `tx_stack` never overflows |
| servo, arithmetic | times keep one sign in both fields; the filter fits its word; the path delay is plausible; the clock is set only when it is off by a second; it comes close to the master and stays there |
| network of daemons | no ports follow one another in a ring; once all run the best clock is the only master and the rest follow it; whoever is left when some are off has one master |
| message formats | a receiver reads what the sender meant, whatever was packed before; a FollowUp carries no correction field from before its Sync |

`PROJECT.json` lists the hazards at their lines with the properties that
cover them.

## 2. The modules

    IntervalTimer       Bmc ---- BmcOrder          Measurement
          \            /   \        |         (abstract exchange)
           \          /   Roles  MCBmcOrder  /         |         \
            \        /    /   \         SyncExchange DelayEx. PeerDelay
             \      / Election Network       |          \       /  (both over
              Port ----/ (abstract)  |  MCSyncExchange  DelayMechanism  SequenceIds)
               |                     |
             MCPort             MCNetwork         TimeArith
                                                  /       \
                                               Servo     Messages
                                                 |          |
                                              MCServo   MCMessages

    proofs: BmcProofs, BmcOrderProofs, PortProofs and NetworkProofs (both use
            BmcProofs), SyncProofs, DelayProofs (about DelayMechanism and its
            two exchanges), ServoProofs (with TimeArith), MessagesProofs

`Bmc`, `BmcOrder`. The comparison and `s1()` as operators over data sets, field
by field as in the code, including its comparison of `clockClass` where two sets
differ in their variance. Attributes and identities are numbers, since
`memcmp()` only orders them. `BmcOrder` picks any three data sets of a sample.

`IntervalTimer`. The timer array as pure operators. `Port` composes it with the
engine: every `timerExpired()` in the code is `Charged` (all seconds counted
are charged to all timers) followed by `Consume` of one flag.

`Port`. `doState()` is cut into steps where something outside can intervene:
`pc` is the statement about to run. `loop` is the head (the test of
`record_update`), `bmc` one turn of the loop over the table, then one step per
`timerExpired()` and one per `handle()`. After `handle` come `receipt` and
`delay` (LISTENING, PASSIVE, SLAVE); MASTER runs `sync`, `announce`, `pdelay`,
`mhandle`, `demote`. Crucially the steps after a state change still run, as in
the code: the port state may be FAULTY at `receipt`. The other ports are the
environment: any of them may be heard whenever `handle()` reads, until it falls
silent (`alive`). The masters in `Punctual` announce once per second and
`handle()` finds it (`due`), while the others may do as they like. `Tick` is
`SIGALRM`; a signal lost between the read and the reset of `elapsed` in
`timerUpdate()` is a `Tick` that does not happen. Lengths of timers are constants
(the code may change that of DELAYREQ by a DelayResp).

`Roles`. What a port makes of the announces it hears, with everything left out
that is not seen from outside: a record of its option, state, parent, the *set* of
masters it knows and whether a decision is due. Each operator gives the states a
step may lead to; a decision takes any known master that no other known one is
better than.

`Election`. One such port: the abstract specification of `Port`. `Elector` of
`Port` is the refinement mapping (the records below the count, as a set), and
`PROPERTY KeepsPromise` says that `Port` implements it. What it hides is what is
easily wrong: a ring of slots with an insertion index, a search from the best
index on, a count that is reset without them, a loop that compares each record
with one other, and a decision that spans many steps.

`Network`. Any number of such ports on one segment. A master announces itself,
and each other port hears it or not, perhaps when its sender is master no more.
Daemons are switched off and started again with nothing left of their state
(`Crash`, `Restart`; `MaxCrashes` bounds how often). `Network` uses the operators
of `Roles` that `Election` consists of, so that what `Port` is shown to implement
is what `Network` composes.

`SyncExchange`. Any number of masters, each of one of three kinds (software
stamps over UDP, hardware stamps over raw sockets, one step clock), and one
slave. A master alternates between `issue` and `handle`, as the engine does.
Times are told apart by the Sync they belong to: the t-th Sync departs at t.
`sync_receive_time` keeps the Sync whose arrival it is. Syncs reach the slave in
order or not at all (they are event messages of one sender in one queue);
FollowUps are never removed from the network, so that they may be lost, late and
duplicated. `toState()`, `netInit()` and `NewParent` may happen at any time,
which is more than `Port` does.

`DelayExchange`. The slave, masters that answer any request or not, and another
slave whose requests may carry the same ids. `MayReadGeneral` is the order in
which `handle()` reads its sockets: the general one when no event message waits.

`PeerDelay`. One link: a port that asks, and a peer of either kind that answers.
Both change state at any time; `toState(PTP_SLAVE)` clears the times.

`DelayMechanism`. A port has one of the two delay mechanisms, as `E2E_mode`
says. The two share only the width of their ids (`SequenceIds`).

`Measurement`. What the three exchanges promise, in two variables: messages
depart, and a measurement is made with a departed message later than the last
one. `PROPERTY MeasuresInOrder` (`PeerMeasuresInOrder`) of each exchange is this
specification under a refinement mapping.

`TimeArith`. `arith.c` on pairs of seconds and nanoseconds, with C's truncating
division and the unsigned dividend of `divTime()`. How many nanoseconds a second
has and how wide the words are is a parameter, so that carries and wraps happen
with small numbers.

`Servo`. The functions of `servo.c` with every limit, option and early return,
closed into a loop by one number `theta`, how far the slave's clock is ahead. A
second passes (`theta` gains the error of the oscillator and `freq`) with any
number of Syncs handled in it, or none: Syncs and FollowUps are lost, or sent less
often than once a second (`-y`). `silence` counts the seconds since the last one
and stays within `MaxSilence`. A request is sent, answered or lost at any moment,
so that the clock may be steered, set or left slewing in between. The port leaves
SLAVE and comes back, decides to be MASTER, faults and is initialised:
`leaveSlave`, `toMaster`, `toSlave` and `doInit` are what `toState()`, `m1()` and
`initData()` do to the servo, which besides `initClock()` is to zero the offset
and one delay or both. Another master's time may differ (`Jump`). Each measurement
has the times of one exchange: that is what the exchanges above guarantee.

`Messages`. The output buffer as a function of its fields. Each `msgPack*` is the
record of the fields it writes, and `Over` puts them on top of what an earlier
message has left. `meant` is what the sender wants its receiver to read in the
fields the receiver does read. Time stamps pass `fromInternalTime()` and
`toInternalTime()`, with the uninitialised time stamp the first leaves for a
negative time (`Garbage`).

Each definition is mapped to its lines in `PROJECT.json`. Operators whose comment
begins with *Mutant* are faulty variants of the definition below them (a missing
guard, a swapped operand): they are not part of any specification, and each
property is known to fail when a variant replaces the definition.

## 3. The runs

| run | module | what it asks | bounds |
|---|---|---|---|
| `bmc_order` | `MCBmcOrder` | antisymmetry, transitivity, order of the attributes | 49 data sets: four qualities of clock, one grandmaster heard over two boundary clocks at 1, 2, 3 and 65535 steps; every triple and every parent |
| `bmc_variance` | `MCBmcOrder` | *violated:* two grandmasters never compare equal | clocks that differ in variance |
| `port_udp` | `MCPort` | six invariants of table, decision, timers and parent | slave only or not; three masters (better, worse, equal but for variance), a table of 2 slots, errors and failing `netInit()` |
| `port_raw` | `MCPort` | no fault, a slave only port is never master, the port implements `Election`, a slave keeps a punctual parent, MASTER (or LISTENING) on a quiet network, MASTER keeps sending | slave only or not; three masters, two of them punctual (one better and one worse than the port), three slots, no errors, raw frames, fairness |
| `port_spurious_fault` | `MCPort` | *violated:* a healthy UDP port never faults | |
| `port_failover` | `MCPort` | *violated:* a silent parent is left | two better masters, fairness |
| `network` | `MCNetwork` | no ring, the best clock wins, one master remains | three daemons with priorities 0, 100 and 200, the best or the worst of them slave only or none, switched off twice at most, fairness |
| `sync` | `MCSyncExchange` | stack, FollowUps, pairing, once, order | a software master with a hardware or one step one, two Syncs each, ids 65535 and 0 |
| `delays` | `DelayMechanism` | pairing and order of both delay mechanisms | end to end: two masters, another slave with equal ids, five requests from id 65534; peer to peer: both kinds of peer, three requests from id 65534 |
| `servo` | `MCServo` | normal times, filter, path delay, when the clock is set, that it settles | a second of 52 units, a filter word of 6 bits, path delay 12, an oscillator 1 unit per second fast and at most 2 units of adjustment per second; up to two seconds without a Sync, any number of Syncs in others; both mechanisms, end to end with the filter; starts 28 behind and 80 ahead; by peer to peer also residence times and a master 50 off |
| `servo_reset` | `MCServo` | *violated:* the clock is set only when off | the same end to end, with path delay 3, 8 units of adjustment per second and a Sync in every one |
| `messages` | `MCMessages` | what receivers read, correction field of a FollowUp | two ports in two domains, correction fields 0 and 5, ids 0 and 1, times in range, past the last second read back and before 1970 |

Why the bounds are enough to be of interest. A table of two slots with three
masters overflows and wraps its index, and the best index is left in a slot the
next count excludes. `ANNOUNCE_RECEIPT` lasts 4 seconds and the others 1, so the
receipt timer can be missed, restarted and expired with announces in between;
`MaxElapsed` (1, in `port_raw` 2) bounds the seconds that pile up unaccounted *between* two
reads of the timers (`catch_alarm` in `netSelect()` adds to them). Sequence ids
start just below the wrap, and each exchange passes it. With both masters at the
same ids a FollowUp of the new parent can meet the id of the old one's Sync.
Five delay requests let the answer to an id be late by one, by two and by the
wrap. In `servo` both starts matter: 80 units are more than a second, so that the
clock is set, and 28 are less than one but many times what can be made up in a
second, so that it is slewed over a long stretch in which the integral term
saturates; the filter has to lower its stiffness for a delay of a path. Two
seconds without a Sync are enough for a measurement to combine a request with a
Sync of before the clock was slewed twice, within a change of state or not. The
instance satisfies what the theorems assume of it (`InstanceIsTame`), so that each
is an instance of them. In `messages` any two
messages may follow each other, so that each unwritten field is met with all the
contents it can have; all data are small because nothing is computed with them.

Assumptions of the passing runs, and what happens without them:

* `port_raw`, `SlaveIsSteady`: with a receipt length of 3 (2 if no more than one
  second piles up), or a table smaller than the number of masters, the property
  fails: seconds charged late, those counted before the port turned SLAVE
  included, or the parent's record overwritten, make a slave give up.
* `sync`, `Prompt`: a looped back Sync is read before the next Sync is sent. If
  not, the FollowUp takes the id of the newer Sync (`sentSyncSequenceId - 1`) and
  the time of the older. The engine handles one message per loop, so that
  enough other traffic can cause this. Hardware stamps do not need it.
* `delays`, `LoopbackLoss = FALSE`: the event socket never drops a looped back
  DelayReq. Otherwise the departure of an earlier request is used.
  `HwTimestamping = FALSE`: with hardware stamps the departure of a DelayReq is
  never recorded, as `txTimestamp()` keeps those of Sync and PdelayResp only.
* `delays`, `InOrder`: a link does not lose a PdelayResp and deliver its
  PdelayRespFollowUp. `Prompt`: the peer reads its loopback before the next
  PdelayReq. A one step peer is excluded from `PeerDelayFromOneExchange`, since
  `handlePDelayResp()` takes late responses.
* `servo`, `MaxSilence`: the longest time, in seconds, without a Sync handled, be it
  that Syncs or FollowUps are lost, that the master sends them less often (`-y`), or
  that the port is not in SLAVE. Before the first Sync nothing is adjusted and,
  end to end, no delay computed, and `Start` is the distance of the clocks no more than `MaxSilence`
  seconds before it. The code has no such limit: after a longer silence,
  `updateDelay()` adds a `delayMS` (`servo.c:78`) that is off by all the clock has
  slewed since, also in a port that comes back to SLAVE and reads an answer before
  its first Sync. The mean is then wrong by half of that or, the sum being
  negative, by years (divergence 4).
* `servo`, `Tame`: end to end, a path takes at least half of what a clock is slewed
  by from Sync to Sync, `Drift = MaxSilence * (AdjFreqMax + |Skew|) <= 2 * d`;
  divergence 4 is what happens otherwise. The divisor `ai` is small enough for the
  integral term to stop a clock within a second (`Tames`), and no correction field
  stands in a Sync, which `delayMS` would keep (`servo.c:233`). With the code's
  defaults (`ai` 1000, `ADJ_FREQ_MAX` 512000) and an error of 100 ppm that means
  paths of 0.31 ms for each second of `MaxSilence`. With a Sync in every second
  (and paths up to 1 ms) the start is to be nearer than 0.998 s or farther than
  1 s, a path and 0.1 ms; with one in ten seconds paths take at least 3.1 ms, and
  (up to 10 ms) the start is nearer than 0.98 s or farther than 1 s, a path and
  1 ms. On a shorter path one lost Sync is enough to leave what is proved.
  None of this is asked of peer to peer.
* `servo`, `Prompt`: an answer comes within the second of its request, before the
  next Sync is handled and before SLAVE is entered, or is lost. Without it
  `SetOnlyWhenOff` fails, as a clock set in between (`servo.c:307`) enters the
  delay. A change of master's time occurs by peer to peer only: end to end,
  `updateDelay()` adds the `delayMS` measured with the former master
  (`servo.c:74`), and `PathDelayPlausible` and `Settles` fail. The limits
  `maxDelay`, `maxReset` and the options `noResetClock` and `noAdjust` are in the
  model and in the proofs, but off in the run: with them the clock need not settle.
* `servo`, `Settles`: `Synchronizing` says what the network and the engine have to
  do for it: from some time on one Sync is handled in each second, answers keep
  coming and the port stays a slave. Before that time all may be lost that
  `MaxSilence` lets be lost, and the bound is reached whatever that has done. The
  bound is one path because in this instance a path is longer than the offsets too
  small to be steered against and what the loop overshoots by. It is the
  antecedent of the property, not fairness of the specification, as nothing in
  the code guarantees it. The antecedent is met: the mutant of `Settles` has a
  behaviour that satisfies it and does not settle.
* `network`: the ports are those of `Election`, so `port_raw` and `ElectionKept`
  say when the engine is one (it does not fault, each master announces one data
  set, the table has room for all). Classes are 128 to 254: a PASSIVE port does
  not restart its receipt timer (`protocol.c:611`) and turns MASTER at each
  expiry. Two priorities are more than 127
  apart, so that a comparison by subtraction into a byte would be noticed.
* `network`, `Timely`: in the model a SLAVE may time out at any moment, as in
  `protocol.c:299`, be it that announces are lost or that two slaves do so together
  when their master dies. Each such port turns MASTER beside the one that runs, until
  it hears a better one. If that goes on for ever no state is the last, so the two
  liveness properties ask that from some time on a slave times out only while no
  other master is up (every announce, of any master, restarts its timer):
  `SlaveIsSteady` is what the engine does for that when announces are punctual.
  `NoRing` asks nothing.
* `network`, `OneMasterRemains`: the one that remains need not be the best of
  those that run. When the best clock dies, one that has not yet noticed can hear
  a worse one announce, and stays a slave of the dead one for as long as it does:
  divergence 3, seen in a network.
* `messages`: times up to the last second of a signed 32 bit word
  (`Representable`). That second itself, INT_MAX, is packed and not read back.
* The three exchanges assume fewer messages than there are ids (`MaxSync`,
  `MaxReq` up to 65535), so that an id does not come round while an old message
  is still under way.

**Fairness.** `FairSpec` is `WF(Engine) /\ WF(Tick)`, and for each punctual master
`SF` of reading its announce when one is due. The engine is one loop without a
blocking call other than `netSelect()`, which a signal interrupts, and
`setitimer()` re-arms itself, so the signals keep coming. Strong fairness says of
the network what "punctual" means, that an announce that is sent is not lost for
ever; `Punctual` is empty where silence is at issue (`port_failover`), and in
`port_raw` a punctual master may fall silent. Nothing is assumed of other ports or
of any single message. In `Network` the engine is `WF(Start \/ Decide)` of each
daemon, and its timer `WF(Unheard /\ TimeOut)`: it must expire in LISTENING, which
does not restart it, and in a SLAVE that hears no master, and may at any other
time; `SF(Hear)` for each pair says that
of the announces one sends again and again another hears some. `Crash` and
`Restart` are without fairness. The exchanges, `Servo` and `Messages` are without
fairness: a measurement cannot be promised on a network that may lose everything.

Deadlock is checked in every run but those of `Servo`, where the clocks may drift
apart until `MaxTheta` stops the model. `doInitFails` ends the daemon, and `Stopped`
lets it rest there; a master that overflowed its stack would be `exited` while
the slave goes on.

### Divergences

1. `bmc_variance`: sets that first differ in `offsetScaledLogVariance` compare
   equal (`bmc.c:253` compares `clockClass`), and the decision on them is FAULTY.
2. `port_spurious_fault`: a `toState()` in the same `doState()` makes `handle()`
   skip `netSelect()`; the length 0 read from empty UDP sockets then counts as
   a message too short, and a healthy port turns FAULTY.
3. `port_failover`: in SLAVE an announce of *any* master restarts the receipt
   timer and records do not age, so a port can follow a silent parent for ever.
4. `servo_reset`: while a clock is slewed, a delay request on a short path can
   find `delaySM + delayMS` negative. `divTime()` takes it for unsigned
   (`arith.c:193`), the mean path delay becomes years, and the next Sync sets a
   clock that was right to a nonsensical time. `ptpd.8:74` gives being off by a
   second as the reason for a reset.

## 4. The proofs

All proofs are of the specifications the runs check, for every value of the
constants under the named `ASSUME`s.

**Best master clock** (`BmcProofs`, `BmcOrderProofs`). The comparison is
antisymmetric for all data sets; "better" is transitive on ordinary clocks (those
that announce themselves); for equal variances it is the lexicographic order.
`OnlyVarianceConfuses` and `OnlyParentConfuses` say exactly which data sets compare
equal, those on which a port turns FAULTY: of two grandmasters, the ones of
divergence 1 and no others.

**Port engine** (`PortProofs`). `IInv` is the conjunction of the type invariant
and five relations. `ReadsWrittenSlots` is not inductive: after a fault the
count is 0 while the insertion index, the slots and a pending `record_update`
stay. `TableFilled` says that all slots below the count *and* below the index
have been written and that, while one has not, the index is not below the
count; `FirstRecorded` that slot 0 is written whenever a decision is pending;
`BestInTable`, `NothingPending` and `BestIndexInTable` tie the loop variable and
the best index to the position in `doState()`. From `IInv` follow type
correctness, `ReadsWrittenSlots` and `DecidedBeforeNextMessage`. With it are
proved `TimersMatchState`, `ParentMatchesState`, `SlaveOnlyObeyed` (each itself
inductive), `HealthyPortNeverFaults` (raw frames, and no foreign clock that
compares equal to the local one: the two causes of divergences 1 and 2) and
`BestSoFar` (a network of ordinary clocks, by transitivity).

`ElectionKept` is the refinement of `Election`, under `Reliable`: raw frames, no
errors, ordinary clocks none of which compares equal to the local one, and no more
of them than slots. It needs more than `IInv`. `Healthy` says that the records are
distinct and lie below an index that wraps only when the table is full
(`OneRecordEach`), in which state the port can be at each step of `doState()`
(`StateAtStep`), and that a port which follows by choice has a record
(`FollowerHasRecord`: else `bmc()` would decide on a forgotten one).
`ProbesAllRecords` says that the search of `addForeign()` reaches every record
wherever it starts, and `SenderRecorded`, by the pigeon hole principle, that a
full table knows every sender, so that no record is ever overwritten. Then there
is one lemma for each action `Election` sees, and `RestUnseen` for the others.

`PunctualParentKeepsSlave` is `SlaveIsSteady` for a `Reliable` ordinary clock whose
receipt timer lasts at least 4 seconds. Two things could end SLAVE. The receipt
timer: `ChargedSoon` bounds the seconds waiting to be charged at each statement of
`doState()` while a punctual master owes no announce, and `ReceiptInTime` says
that what is left of the timer exceeds them, by one second more once the announce
has come. A decision: `BetterHeard` says that one of the records is better than
the own clock, so by transitivity what `bmc()` elects is better as well.

**Network** (`NetworkProofs`). `NetInv`: a slave's parent is the announce of
another clock that may be master and, if the slave may be master itself, a better
one; what a port knows are such clocks. A ring of followers would be a set of
clocks none of which is best. But of any set of clocks one is least in priority,
of those with that priority one is least in class, and so on through the fields
that are compared: that the natural numbers are well founded, applied six times,
yields `NoRing` for any number of clocks, with no bound on `MaxCrashes`, in any
order of announces, losses and timeouts.

`BestIsElected`, `BestIsNeverDeposed` and `FollowersAreKept` are the safety half
of `BestClockWins`. A port that knows the best clock follows it at its next
decision, a master included. While the best runs it stays master, whoever else
announces; and a port that follows it leaves it by its receipt timeout only,
whatever worse masters it hears or remembers (`DecisionIsBest`). So where timeouts
are timely the end that the liveness property promises is never left again, and
where they are not a port that has left is back at its next decision on an
announce of the best. What is left to TLC is that announces are heard, decisions
taken, and what is known not forgotten for ever. The three assume `AllTold`, that
no two clocks compare equal, which is what divergence 1 denies. The invariant has
to say that a slave which may be master knows its parent (`WellParented`). Of a
slave only daemon this is false: after a timeout it can decide on a master it has
forgotten, and `FollowsBest` asks for it.

**Sync** (`SyncProofs`). `MasterInv`: Syncs are numbered from
the first id on, those departed are on the network, and the stamp of a Sync lies
on `tx_stack` only on top and only between its departure and the `handle()` that
follows, when it is the last Sync. So the stack never overflows, for any number
of masters of any kinds and without `Prompt`. With `Prompt` at most the last
Sync is not looped back, hence every FollowUp names its Sync. For the slave,
`Fresh`: what it waits for is the FollowUp of the Sync whose arrival it keeps,
and that Sync is newer than the one last measured with. This gives
`OffsetFromOneSync`, `MeasuredOnce` and the refinement of `Measurement`; the
bound on the number of Syncs enters only where two ids are compared.

**Delay requests** (`DelayProofs`). The id of a request gives its number, and an
answer that is taken is to the last request (`AnswerTaken`); `SendTimeIsLast`
says that the departure recorded in SLAVE is that of the last loopback read.
Since the general socket is read last, both are the same request. The refinement
of `Measurement` needs no assumption on loopback or stamps.

**Peer delay** (`DelayProofs` as well). Everything on the network copies a request,
as a prompt peer follows up before it answers again (`OnePending`); an answer is
always "taken" and a follow-up only for the last request; `TimesAreLast` is the
analogue of `SendTimeIsLast` for t1 and for t2 with t4. `MechanismRunsEither`
carries the theorems of either exchange over to the port with both mechanisms,
which is what the run checks.

**Arithmetic and servo** (`ServoProofs`). `normalizeTime()` keeps the value of a
time and gives both fields one sign; sums and differences are exact. `ServoInv`
adds to the type and to `NormalTimes` that the filters hold less than a second
and what the delay filter's exponent has to do with its contents
(`FilterBounded`): the exponent may stem from a stiffer filter, and only then can
the next product grow. `FilterNeverOverflows` follows for every stiffness. The
one assumption beyond those of the modules is `WidthFits`, that a second's
nanoseconds fit a positive word (10^9 <= 2^31 in the code). All options, limits
and worlds are covered, with or without `Prompt`.

`PathDelayIsPlausible`, `ClockSetOnlyWhenOff` and `ClockIsNeverSetAgain` need the
loop and not only its parts, and `Tame`, with any `MaxSilence` for which it holds.
`Asked` says that a request under way was sent at the distance the clocks have
now. By peer to peer that is enough: the distance cancels out, half of the round
trip lies between 0 and the longest path, and so does any mean the filter makes of
such halves, whatever the clock does (`PeerPath`; `PeerDelayIsPlausible` needs
`Prompt` and nothing else of the world). End to end the delay holds the drift
since the last Sync, `silence * Slew` at most, and is only right while that Sync
did not set the clock. So the invariant has to say how far off the clock can get.
`Fresh` describes the loop until an offset is less than a second: nothing learnt,
and the clock near enough to be held or far enough to be set. `Running` describes
it from then on: the last delay and the last offset are those of the last Sync,
and the clock is held until the next one. `Held`, for some `K` and `M`, is `|K *
theta - Drift * observed_drift| <= K * M`; and `HeldOn` asks it not only of the
distance now but of every one the rest of the silence may lead to, in any number
of seconds with the present `freq` and of seconds with `-observed_drift`, which is
what `initClock()` puts in its place when the state changes (`Move`). The offset
alone has no bound that a step keeps, since a clock that is far off with the wrong
drift gets farther at first. But while it is `K * ai` off or more each Sync moves
the drift by `K`, which pays for the slewing until the next, or the drift is at
its limit and the clock comes nearer (`OneSideHeld`). `Held` keeps the clock less
than a second off (`HeldIsNear`), at every step of any silence, hence
`ClockIsNeverSetAgain`: its statement is that only time moves the clock, so that
no Sync sets it.

**Messages** (`MessagesProofs`). `HeaderKept` says that no message leaves another
domain, flag or port in the header: the answers copy the domain of the request,
but only requests of one's own domain are answered. `CorrectionKnown` says what
can stand in the correction field: zero or what was copied since the last Sync,
and zero while the stamp of a Sync is on `tx_stack`. With them the lemma
`MessageRead`, that fields written or kept are read as meant, settles each action.

**Only model-checked:** all liveness (`QuietNetworkLeadsToMaster`,
`MasterKeepsSending`, `BestClockWins`, `OneMasterRemains`, `Settles`), out of the
prover's reach. Every invariant and every action property is proved.

## 5. What is not modelled

* `integer64_to_internalTime()`, which converts correction fields with a detour
  over `float`: its rounding is a matter of the floating point unit.
* Bytes: byte order, the offsets of octets within a field and the dumps. A message
  too short for its type is `HandleError`.
* A failing `sendto()`: the functions return -1, which the callers take for
  success, so in the exchanges it is a message that everybody loses. With
  hardware stamps `txTimestamp()` then polls for a stamp that never comes.
* Intervals below a second, which `timerStart()` truncates to 0.
* Start of the sockets, multicast groups and extraction of receive time stamps:
  system calls that succeed or fail, and `netInit()` may fail in `Port`.
* Options, files, statistics, signals other than SIGALRM, logging, printing and
  system clock calls: no protocol state.

## 6. Plan

Done, in this order: the comparison, timers and port engine with their runs and
proofs; the three exchanges, their abstract specification and proofs; arithmetic
and servo; the message buffer; the abstract election, the port's refinement of it
and the network of such ports.

What is left of the model:

1. A parent whose quality changes: in SLAVE its announces renew the parent data
   set but not its record in the table (`protocol.c:584`), so that the port goes
   on electing it by the old record. `Election` would have to keep, for each
   master, what it announced when it was last added.
2. PASSIVE ports in `Network`, which turn MASTER at every receipt timeout.
3. A decision on a discarded record after a fault (`bmc.c:84`): `Election` is
   stated for ports that do not fault.
4. Runs for the assumptions above whose failure contradicts a comment of the
   source (a late loopback, a one step peer, a change of parent between Sync and
   FollowUp), in place of runs that ask less.
