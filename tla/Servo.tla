--------------------------------- MODULE Servo ---------------------------------
(*****************************************************************************)
(* The clock servo of servo.c in a closed loop with the clock it steers.     *)
(*                                                                           *)
(* The world is one number, theta: how far the slave's clock is ahead of the *)
(* master's. Seconds pass (theta moves by the error of the oscillator and    *)
(* the frequency set), Syncs are handled in some of them, a delay is         *)
(* measured at any moment in between, and the port leaves SLAVE and comes    *)
(* back. Messages are those the exchanges let through: each measurement      *)
(* combines the times of one exchange (SyncExchange, DelayExchange,          *)
(* PeerDelay).                                                               *)
(*****************************************************************************)
EXTENDS TimeArith

CONSTANTS
    Options,           \* what the command line may ask for (rtOpts)
    AdjFreqMax,        \* ADJ_FREQ_MAX
    IntBits,           \* bits of a positive Integer32: 31
    Epochs,            \* times at which the master sends, in nanoseconds
    Start,             \* theta when the daemon starts
    PathDelay,         \* of a message, in either direction
    MaxPathDelay,      \* the longest of them
    Residence,         \* time in a transparent clock, told as correction, by E2E_mode
    Skew,              \* what the local clock gains in a second
    Jumps,             \* by which another master's time may differ, by E2E_mode
    Prompt,            \* an answer comes within its second and before the next Sync
    MaxSilence,        \* seconds within which a Sync is handled
    MaxTheta           \* bound: how far the clocks are apart

RunTimeOpts ==
    [E2E_mode : BOOLEAN, noResetClock : BOOLEAN, noAdjust : BOOLEAN,
     maxDelay : Nat, maxReset : Nat, ap : Int, ai : Int, s : 0 .. IntBits]

ASSUME OptionsAssumption == Options \subseteq RunTimeOpts /\ IntBits \in Nat
ASSUME PowersOfTwo ==
    \A i \in 0 .. IntBits :
        2 ^ i \in Nat \ {0} /\ 2 ^ i * 2 ^ (IntBits - i) = 2 ^ IntBits
ASSUME AdjFreqMaxAssumption == AdjFreqMax \in Nat
ASSUME WorldAssumption ==
    /\ MaxPathDelay \in Nat /\ PathDelay \subseteq 0 .. MaxPathDelay
    /\ \A e \in BOOLEAN : Residence[e] \subseteq Nat /\ Jumps[e] \subseteq Int
    /\ Epochs \subseteq Nat /\ Start \subseteq Int
    /\ Skew \in Int /\ Prompt \in BOOLEAN
    /\ MaxSilence \in Nat \ {0} /\ MaxTheta \in Nat

VARIABLES
    rtOpts,
    offset_first_updated,
    delayMS,
    meanPathDelay,        \* end to end
    peerMeanPathDelay,    \* peer to peer
    offsetFromMaster,
    observed_drift,
    owd_filt,             \* one_way_delay_filter
    ofm_prev,             \* nsec_prev of offset_from_master_filter
    freq,                 \* frequency adjustment in force, in nanoseconds per second
    theta,                \* the slave's clock minus the master's, in nanoseconds
    slave,                \* portState = PTP_SLAVE
    silence,              \* seconds since a Sync was handled
    measuring,            \* times of the delay exchange under way
    jumped                \* the master's time has changed

delays == <<delayMS, meanPathDelay, peerMeanPathDelay>>
clock  == <<observed_drift, freq>>
world  == <<slave, silence, jumped>>
vars   == <<rtOpts, offset_first_updated, delays, offsetFromMaster, clock, owd_filt,
            ofm_prev, theta, measuring, world>>

Zero == Time(0, 0)
ToTime(ns) == Time(ns \div Billion, ns % Billion)
NoExchange == [t1 |-> Zero, t2 |-> Zero, stage |-> "idle", correction |-> 0]
Answered == [NoExchange EXCEPT !.stage = "answered"]

Init ==
    /\ rtOpts \in Options
    /\ offset_first_updated = FALSE
    /\ delayMS = Zero /\ meanPathDelay = Zero /\ peerMeanPathDelay = Zero
    /\ offsetFromMaster = Zero
    /\ observed_drift = 0 /\ freq = 0
    /\ owd_filt = [nsec_prev |-> 0, y |-> 0, s_exp |-> 0]
    /\ ofm_prev = 0
    /\ theta \in Start
    /\ slave = FALSE /\ silence = 0 /\ measuring = NoExchange /\ jumped = FALSE

-------------------------------------------------------------------------------
(* updateDelay() and updatePeerDelay()                                       *)

(* rtOpts->maxDelay: a delay of a second or more, or too many nanoseconds.   *)
TooLong(d) ==
    rtOpts.maxDelay # 0 /\ (d.seconds # 0 \/ d.nanoseconds > rtOpts.maxDelay)

(* Mutant: the stiffness asked for, whatever the filter holds.               *)
StiffnessAsked(y) == rtOpts.s

(* "avoid overflowing filter": the largest stiffness up to rtOpts->s that    *)
(* leaves the sign bit alone.                                                *)
Stiffness(y) ==
    CHOOSE s \in 0 .. rtOpts.s :
        /\ Abs(y) < 2 ^ (IntBits - s)
        /\ s = rtOpts.s \/ Abs(y) >= 2 ^ (IntBits - s - 1)

NextExp(e, s) ==
    IF e < 1 THEN 1
    ELSE IF e < 2 ^ s THEN e + 1
    ELSE IF e > 2 ^ s THEN 2 ^ s
    ELSE e

(* What the filter makes of x nanoseconds.                                   *)
Filtered(f, x) ==
    LET e == NextExp(f.s_exp, Stiffness(f.y))
    IN  [ s_exp |-> e, nsec_prev |-> x,
          y |-> Quot((e - 1) * f.y, e) + Quot(Quot(x, 2) + Quot(f.nsec_prev, 2), e) ]

(* The mean as it is kept: in nanoseconds it is filtered, with seconds it    *)
(* clears the filter.                                                        *)
FilterDelay(mean) ==
    IF mean.seconds # 0
    THEN owd_filt' = [nsec_prev |-> 0, y |-> owd_filt.y, s_exp |-> 0]
    ELSE owd_filt' = Filtered(owd_filt, mean.nanoseconds)
FilteredDelay(mean) ==
    IF mean.seconds # 0 THEN mean ELSE Time(0, owd_filt'.y)

(* Mutant: a delay is computed before any offset has been.                   *)
updateDelayAnytime(receive_time, send_time, correctionField) ==
    LET delaySM == subTime(receive_time, send_time)
        sum  == subTime(addTime(delaySM, delayMS), correctionField)
        mean == divTime(sum, 2)
    IN  IF TooLong(delaySM)
        THEN UNCHANGED <<delays, owd_filt>>
        ELSE /\ FilterDelay(mean)
             /\ meanPathDelay' = FilteredDelay(mean)
             /\ UNCHANGED <<delayMS, peerMeanPathDelay>>

updateDelay(receive_time, send_time, correctionField) ==
    LET delaySM == subTime(receive_time, send_time)
        sum  == subTime(addTime(delaySM, delayMS), correctionField)
        mean == divTime(sum, 2)
    IN  IF TooLong(delaySM) \/ ~offset_first_updated
        THEN UNCHANGED <<delays, owd_filt>>
        ELSE /\ FilterDelay(mean)
             /\ meanPathDelay' = FilteredDelay(mean)
             /\ UNCHANGED <<delayMS, peerMeanPathDelay>>

Halved(t) == Time(Quot(t.seconds, 2), Quot(t.nanoseconds, 2))

(* Two step: the delays of both directions, else the time of the round trip. *)
updatePeerDelay(roundTrip, correctionField) ==
    LET mean == Halved(subTime(roundTrip, correctionField))
    IN  /\ FilterDelay(mean)
        /\ peerMeanPathDelay' = FilteredDelay(mean)
        /\ UNCHANGED <<delayMS, meanPathDelay>>

-------------------------------------------------------------------------------
(* updateOffset()                                                            *)

(* A delay beyond the limit leaves everything as it was. Seconds clear the   *)
(* filter of the offset and are no reason to measure the delay.              *)
updateOffset(send_time, recv_time, correctionField) ==
    LET ms     == subTime(recv_time, send_time)
        path   == IF rtOpts.E2E_mode THEN meanPathDelay ELSE peerMeanPathDelay
        offset == subTime(subTime(ms, correctionField), path)
        ns     == offset.nanoseconds
    IN  IF TooLong(ms)
        THEN UNCHANGED <<delays, offsetFromMaster, ofm_prev, offset_first_updated>>
        ELSE /\ delayMS' = ms
             /\ UNCHANGED <<meanPathDelay, peerMeanPathDelay>>
             /\ IF offset.seconds # 0
                THEN /\ offsetFromMaster' = offset
                     /\ ofm_prev' = 0
                     /\ UNCHANGED offset_first_updated
                ELSE /\ offsetFromMaster' = Time(0, Quot(ns, 2) + Quot(ofm_prev, 2))
                     /\ ofm_prev' = ns
                     /\ offset_first_updated' = TRUE

-------------------------------------------------------------------------------
(* updateClock()                                                             *)

Clamp(a) ==
    IF a > AdjFreqMax THEN AdjFreqMax
    ELSE IF a < -AdjFreqMax THEN -AdjFreqMax ELSE a

AtLeastOne(a) == IF a < 1 THEN 1 ELSE a

adjFreq(adj) == freq' = Clamp(adj)

(* The integral term outlives the reset of the rest.                         *)
initClock ==
    /\ owd_filt' = [owd_filt EXCEPT !.s_exp = 0]
    /\ IF rtOpts.noAdjust THEN UNCHANGED freq ELSE adjFreq(-observed_drift)

(* adjOffset() of sys.c: the clock is set.                                   *)
adjOffset(offset) == theta' = theta - Value(offset)

BeyondReset(o) ==
    rtOpts.maxReset # 0 /\ (o.seconds # 0 \/ o.nanoseconds > rtOpts.maxReset)

ResetClock(o) ==
    /\ UNCHANGED observed_drift
    /\ IF rtOpts.noAdjust THEN UNCHANGED <<theta, freq, owd_filt>>
       ELSE IF ~rtOpts.noResetClock THEN adjOffset(o) /\ initClock
       ELSE /\ adjFreq(IF o.nanoseconds > 0 THEN -AdjFreqMax ELSE AdjFreqMax)
            /\ UNCHANGED <<theta, owd_filt>>

(* Mutant: the frequency is worked out and set only where it must not be.    *)
SteerClockIdle(o) ==
    /\ observed_drift' =
          Clamp(observed_drift + Quot(o.nanoseconds, AtLeastOne(rtOpts.ai)))
    /\ IF ~rtOpts.noAdjust THEN UNCHANGED freq
       ELSE adjFreq(-(Quot(o.nanoseconds, AtLeastOne(rtOpts.ap)) + observed_drift'))
    /\ UNCHANGED <<theta, owd_filt>>

(* The PI controller.                                                        *)
SteerClock(o) ==
    /\ observed_drift' =
          Clamp(observed_drift + Quot(o.nanoseconds, AtLeastOne(rtOpts.ai)))
    /\ IF rtOpts.noAdjust THEN UNCHANGED freq
       ELSE adjFreq(-(Quot(o.nanoseconds, AtLeastOne(rtOpts.ap)) + observed_drift'))
    /\ UNCHANGED <<theta, owd_filt>>

updateClock ==
    LET o == offsetFromMaster'
    IN  IF BeyondReset(o) THEN UNCHANGED <<theta, clock, owd_filt>>
        ELSE IF o.seconds # 0 THEN ResetClock(o)
        ELSE SteerClock(o)

-------------------------------------------------------------------------------
(* The world                                                                 *)

(* A second passes. An answer still under way comes later or never.          *)
Second ==
    /\ silence < MaxSilence /\ silence' = silence + 1
    /\ theta' = theta + Skew + freq
    /\ Abs(theta') <= MaxTheta
    /\ measuring' \in IF ~Prompt /\ measuring.stage = "asked"
                       THEN {measuring, NoExchange} ELSE {NoExchange}
    /\ UNCHANGED <<rtOpts, offset_first_updated, delays, offsetFromMaster, clock,
                   owd_filt, ofm_prev, slave, jumped>>

(* handleSync() of a one step clock, handleFollowUp() of any other: in some  *)
(* seconds more than one, in others none.                                    *)
handleSync(sent, d, c) ==
    /\ slave /\ (Prompt => measuring.stage # "asked")
    /\ silence' = 0
    /\ updateOffset(ToTime(sent), ToTime(sent + d + c + theta), ToTime(c))
    /\ updateClock
    /\ UNCHANGED <<rtOpts, measuring, slave, jumped>>

(* issueDelayReq() and issuePDelayReq(): the departure on the slave's clock  *)
(* and the arrival on the other one. Only a slave notes the first.           *)
issueRequest(sent, d, c) ==
    /\ measuring.stage = "idle" /\ (rtOpts.E2E_mode => slave)
    /\ measuring' = [t1 |-> ToTime(sent + theta), t2 |-> ToTime(sent + d + c),
                     stage |-> "asked", correction |-> c]
    /\ UNCHANGED <<rtOpts, offset_first_updated, delays, offsetFromMaster, clock,
                   owd_filt, ofm_prev, theta, world>>

handleDelayResp ==
    /\ rtOpts.E2E_mode /\ slave /\ measuring.stage = "asked"
    /\ updateDelay(measuring.t2, measuring.t1, ToTime(measuring.correction))
    /\ measuring' = Answered
    /\ UNCHANGED <<rtOpts, offset_first_updated, offsetFromMaster, clock, ofm_prev,
                   theta, world>>

(* The way back at once, with its times in the PdelayRespFollowUp or, of a   *)
(* one step clock, without; the corrections of both ways are known by then.  *)
handlePDelayResp(d, c, twoStep) ==
    /\ ~rtOpts.E2E_mode /\ measuring.stage = "asked"
    /\ LET t3 == measuring.t2
           t4 == ToTime(Value(t3) + d + c + theta)
           there == subTime(measuring.t2, measuring.t1)
           roundTrip == IF twoStep THEN addTime(subTime(t4, t3), there)
                        ELSE subTime(t4, measuring.t1)
       IN  updatePeerDelay(roundTrip, addTime(ToTime(measuring.correction), ToTime(c)))
    /\ measuring' = Answered
    /\ UNCHANGED <<rtOpts, offset_first_updated, offsetFromMaster, clock, ofm_prev,
                   theta, world>>

(* m1() *)
m1 == meanPathDelay' = Zero /\ offsetFromMaster' = Zero

(* toState() from SLAVE to LISTENING, PASSIVE or FAULTY.                     *)
leaveSlave ==
    /\ slave /\ slave' = FALSE
    /\ initClock
    /\ UNCHANGED <<rtOpts, offset_first_updated, delays, offsetFromMaster,
                   observed_drift, ofm_prev, theta, measuring, silence, jumped>>

(* The port turns MASTER or, with every decision, stays it.                  *)
toMaster ==
    /\ m1 /\ slave' = FALSE
    /\ IF slave THEN initClock ELSE UNCHANGED <<freq, owd_filt>>
    /\ UNCHANGED <<rtOpts, offset_first_updated, delayMS, peerMeanPathDelay,
                   observed_drift, ofm_prev, theta, measuring, silence, jumped>>

(* toState() to SLAVE, which clears the times of the peer to peer exchange.  *)
toSlave ==
    /\ ~slave /\ slave' = TRUE /\ (Prompt => measuring.stage # "asked")
    /\ initClock
    /\ measuring' = IF ~rtOpts.E2E_mode /\ measuring.stage = "asked"
                    THEN [measuring EXCEPT !.t1 = Zero] ELSE measuring
    /\ UNCHANGED <<rtOpts, offset_first_updated, delays, offsetFromMaster,
                   observed_drift, ofm_prev, theta, silence, jumped>>

(* doInit() after a fault: initData(), then initPtpClock(), which may fail.   *)
doInit ==
    /\ ~slave /\ peerMeanPathDelay' = Zero
    /\ \/ initClock /\ m1
       \/ UNCHANGED <<freq, owd_filt, meanPathDelay, offsetFromMaster>>
    /\ UNCHANGED <<rtOpts, offset_first_updated, delayMS, observed_drift, ofm_prev,
                   theta, measuring, world>>

(* The master's time is set, or another master is elected.                   *)
Jump(j) ==
    /\ ~jumped /\ jumped' = TRUE
    /\ Prompt => measuring.stage # "asked"
    /\ theta' = theta + j
    /\ UNCHANGED <<rtOpts, offset_first_updated, delays, offsetFromMaster, clock,
                   owd_filt, ofm_prev, slave, silence, measuring>>

AnySync == \E sent \in Epochs, d \in PathDelay, c \in Residence[rtOpts.E2E_mode] :
               handleSync(sent, d, c)
AnyRequest == \E sent \in Epochs, d \in PathDelay, c \in Residence[rtOpts.E2E_mode] :
                  issueRequest(sent, d, c)
AnyPDelayResp ==
    \E d \in PathDelay, c \in Residence[FALSE], twoStep \in BOOLEAN :
        handlePDelayResp(d, c, twoStep)

StateChange == leaveSlave \/ toMaster \/ toSlave \/ doInit

Next ==
    \/ Second
    \/ AnySync \/ AnyRequest \/ handleDelayResp \/ AnyPDelayResp
    \/ StateChange
    \/ \E j \in Jumps[rtOpts.E2E_mode] : Jump(j)

Spec == Init /\ [][Next]_vars

-------------------------------------------------------------------------------
(* Properties                                                                *)

TypeOK ==
    /\ rtOpts \in Options
    /\ offset_first_updated \in BOOLEAN
    /\ {delayMS, meanPathDelay, peerMeanPathDelay, offsetFromMaster}
           \subseteq TimeInternal
    /\ {observed_drift, freq} \subseteq -AdjFreqMax .. AdjFreqMax
    /\ owd_filt \in [nsec_prev : Int, y : Int, s_exp : Nat]
    /\ {ofm_prev, theta} \subseteq Int
    /\ {slave, jumped} \subseteq BOOLEAN /\ silence \in 0 .. MaxSilence
    /\ measuring \in [t1 : TimeInternal, t2 : TimeInternal,
                       stage : {"idle", "asked", "answered"}, correction : Nat]

(* "TimeInternal always has both fields with the same sign" (phc.c, which    *)
(* ends the daemon when the offset breaks it): the offset by which the clock *)
(* is set, and the delays it is made of, keep the form normalizeTime() gives *)
(* through differences, the filters and the halving.                         *)
NormalTimes ==
    \A t \in {offsetFromMaster, delayMS, peerMeanPathDelay} : IsNormal(t)

(* "avoid overflowing filter": the product the next update computes from the *)
(* filter's state fits an Integer32, although the state may stem from a time *)
(* with a stiffer filter.                                                    *)
FilterFits ==
    (NextExp(owd_filt.s_exp, Stiffness(owd_filt.y)) - 1) * Abs(owd_filt.y)
        < 2 ^ IntBits

Mean == IF rtOpts.E2E_mode THEN meanPathDelay ELSE peerMeanPathDelay

(* What the clocks may drift apart in a second, and from Sync to Sync.       *)
Slew  == AdjFreqMax + Abs(Skew)
Drift == MaxSilence * Slew

(* A start from which the clock is held within M, or else set at once.       *)
NearOrFar(M, s) ==
    \/ Abs(s) + 2 * (MaxSilence * Abs(Skew)) <= M
    \/ Abs(s) >= Billion + MaxPathDelay + MaxSilence * Abs(Skew)

(* A controller that lets no clock run away: while the offset is K times ai  *)
(* or more, a Sync moves the drift by K or the clock no further off; so a    *)
(* clock that starts within M is never a second off again.                   *)
Tames(K, M, ai) ==
    /\ K * (K * ai + MaxPathDelay + 2 * Drift) + Drift * AdjFreqMax <= K * M
    /\ K * M + Drift * AdjFreqMax + K * MaxPathDelay < K * Billion
    /\ \A s \in Start : NearOrFar(M, s)

Plain(o) == ~o.noResetClock /\ ~o.noAdjust /\ o.maxDelay = 0 /\ o.maxReset = 0

(* The options and the world in which the servo keeps what it promises: no   *)
(* limit on delays and, end to end, no master but one, no transparent clock, *)
(* paths longer than what the clocks drift apart from Sync to Sync, and a    *)
(* controller that tames the clock.                                          *)
Tame ==
    /\ Prompt /\ \A o \in Options : o.maxDelay = 0
    /\ \A o \in Options : o.E2E_mode =>
          /\ Plain(o) /\ Residence[TRUE] = {0} /\ Jumps[TRUE] = {}
          /\ \A d \in PathDelay : Drift <= 2 * d
          /\ Abs(Skew) <= AdjFreqMax /\ 2 * MaxPathDelay + Drift < Word64
          /\ \E K, M \in 1 .. Billion : Tames(K, M, AtLeastOne(o.ai))

(* The path delay the servo subtracts from every offset is never negative,   *)
(* nor longer than the path and, end to end, the drift since the last Sync:  *)
(* Syncs being lost, the clock being set, the filter being cleared, the port *)
(* leaving SLAVE or another master being elected do not make a delay out of  *)
(* the distance of two clocks.                                               *)
PathDelayPlausible ==
    2 * Value(Mean) \in
        0 .. 2 * MaxPathDelay + (IF rtOpts.E2E_mode THEN Drift ELSE 0)

(* "do not reset the clock if off by more than one second" (-x) excepts the  *)
(* reset that is the rule: a Sync sets the clock when it is off by a second, *)
(* less the delay of one path, and leaves it off by no more than that delay. *)
SetOnlyWhenOff ==
    [][silence' <= silence /\ jumped' = jumped /\ theta' # theta =>
          /\ Abs(theta) >= Billion - MaxPathDelay
          /\ Abs(theta') <= MaxPathDelay]_vars

(* From some time on one Sync is handled in every second and the port stays  *)
(* a slave; delays are measured again and again.                             *)
Synchronizing ==
    /\ []<>(silence = 0) /\ []<>(silence # 0) /\ <>[](silence <= 1)
    /\ <>[][AnySync => silence # 0]_vars /\ <>[][~StateChange]_vars
    /\ []<>(measuring.stage = "answered")

(* With no limits set, the clock comes within the delay of a path of its     *)
(* master and stays there once a Sync is handled in every second, whatever   *)
(* it was off at the start, whatever drift was learnt before, however many   *)
(* Syncs were lost until then and wherever another master took over.         *)
Settles ==
    Synchronizing => <>[](Abs(theta) <= MaxPathDelay)
================================================================================
