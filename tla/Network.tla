--------------------------------- MODULE Network ---------------------------------
(*****************************************************************************)
(* Several daemons on one network segment, each of which is a port as        *)
(* Election describes it. Masters announce themselves, and any announce may  *)
(* be lost on its way to any other; a daemon may be switched off and started *)
(* again.                                                                    *)
(*****************************************************************************)
EXTENDS Roles

CONSTANTS
    Clocks,            \* the data sets the daemons announce as masters
    SlaveOnly,         \* which of them may have been started with -g
    MaxCrashes         \* bound: how often a daemon is switched off

ASSUME ClocksAssumption ==
    /\ Clocks \subseteq AnnounceRecord /\ SlaveOnly \subseteq SUBSET Clocks
    /\ \A p \in Clocks : OrdinaryClock(p) /\ p.clockClass \in 128 .. 254
    /\ \A p, q \in Clocks : p.clockIdentity = q.clockIdentity => p = q
    /\ NULL \notin AnnounceRecord
ASSUME MaxCrashesAssumption == MaxCrashes \in Nat

VARIABLES
    ports,             \* the state of each daemon
    alive,             \* daemons that are running
    crashes

vars == <<ports, alive, crashes>>

(* copyD0(): the local data set bears no port number.                        *)
Own(p) == [p EXCEPT !.portNumber = 0]

(* The clocks that may be master.                                            *)
Leaders == {p \in Clocks : ~ports[p].slaveOnly}

Master(p) == ports[p].portState = "MASTER"
Follows(p, q) ==
    ports[p].portState = "SLAVE"
        /\ ports[p].parentDS.clockIdentity = q.clockIdentity

Init ==
    /\ \E S \in SlaveOnly : ports = [p \in Clocks |-> NewPort(p \in S)]
    /\ alive = Clocks
    /\ crashes = 0

(* A step of the port of p.                                                  *)
Becomes(p, states) ==
    /\ p \in alive
    /\ \E s \in states : ports' = [ports EXCEPT ![p] = s]
    /\ UNCHANGED <<alive, crashes>>

Start(p)  == Becomes(p, started(Own(p), ports[p]))
Decide(p) == Becomes(p, decided(Own(p), Leaders \ {p}, ports[p]))

(* The receipt timer expires whenever announces have been late or lost for   *)
(* long enough, whoever is master.                                           *)
TimeOut(p) == Becomes(p, timedOut(Own(p), ports[p]))

(* It must expire where nothing restarts it: a LISTENING port restarts it    *)
(* for no announce, a SLAVE for that of any master.                          *)
Unheard(p) == ports[p].portState = "SLAVE" => \A q \in alive \ {p} : ~Master(q)

(* issueAnnounce() of p, and handleAnnounce() of q unless it is lost. The    *)
(* decision on it may be taken when p is master no more.                     *)
Hear(p, q) == p \in alive /\ Master(p) /\ p # q /\ Becomes(q, heard(ports[q], p))

(* The environment: a daemon is switched off, and started with nothing left  *)
(* of its state.                                                             *)
Crash(p) ==
    /\ p \in alive /\ crashes < MaxCrashes
    /\ alive' = alive \ {p}
    /\ crashes' = crashes + 1
    /\ ports' = [ports EXCEPT ![p] = NewPort(ports[p].slaveOnly)]

Restart(p) ==
    /\ p \notin alive
    /\ alive' = alive \cup {p}
    /\ UNCHANGED <<ports, crashes>>

Next ==
    \/ \E p \in Clocks : \/ Start(p) \/ Decide(p) \/ TimeOut(p)
                         \/ Crash(p) \/ Restart(p)
    \/ \E p, q \in Clocks : Hear(p, q)

(* The engines run and their timers with them, and of the announces that a   *)
(* master keeps sending some are heard.                                      *)
Fairness ==
    /\ \A p \in Clocks : WF_vars(Start(p) \/ Decide(p))
                         /\ WF_vars(Unheard(p) /\ TimeOut(p))
    /\ \A p, q \in Clocks : p # q => SF_vars(Hear(p, q))

Spec     == Init /\ [][Next]_vars
FairSpec == Spec /\ Fairness

-------------------------------------------------------------------------------
(* Properties                                                                *)

Better(p, q) == bmcDataSetComparison(Own(p), q, p.clockIdentity) < 0
Best == CHOOSE p \in Leaders : \A q \in Leaders \ {p} : Better(p, q)

(* No ports follow one another in a ring, each steering its clock by the     *)
(* next: a port only ever follows a clock better than its own, out of        *)
(* whatever announces it heard or missed, and the order has no cycles.       *)
NoRing ==
    \A S \in SUBSET Clocks :
        S # {} => \E p \in S : \A q \in S : ~Follows(p, q)

(* Announces are timely in the end: from some time on, no slave misses those *)
(* of all masters for as long as its receipt timer lasts. Until then any     *)
(* number may be lost, and slaves may turn masters beside one another.       *)
Timely == <>[][\A p \in Clocks : TimeOut(p) => Unheard(p)]_vars

(* When the daemons that run no longer change and all of them do, the best   *)
(* clock ends up as the only master and all others follow it, whatever they  *)
(* followed, whoever timed out and whichever daemons were restarted before.  *)
BestClockWins ==
    Timely /\ <>[](alive = Clocks) =>
        <>[](Master(Best) /\ \A p \in Clocks \ {Best} : Follows(p, Best))

(* Whenever daemons have been switched off, one of those left that may be    *)
(* master ends up as the only one, though not always the best of them (see   *)
(* SilentParentIsLeft of Port). Several slaves of a master that is gone may  *)
(* time out before any of them is heard. MaxCrashes sees to it that daemons  *)
(* come and go finitely often.                                               *)
OneMasterRemains ==
    Timely => <>[](alive \cap Leaders # {} =>
                      \E p \in alive : Master(p) /\ \A q \in alive \ {p} : ~Master(q))
================================================================================
