---------------------------------- MODULE Roles ----------------------------------
(*****************************************************************************)
(* What a port makes of the announces it hears, as a relation between its    *)
(* states before and after: the foreign masters are a set, and a decision    *)
(* takes one that no other is better than. Election is one port of this      *)
(* kind, which Port implements, and Network is several.                      *)
(*                                                                           *)
(* The port is healthy, has room for every master in its table, and a master *)
(* does not change what it announces.                                        *)
(*****************************************************************************)
EXTENDS Bmc

CONSTANT NULL         \* no parent yet

NewPort(slaveOnly) ==
    [slaveOnly |-> slaveOnly, portState |-> "INITIALIZING", parentDS |-> NULL,
     known |-> {}, pending |-> FALSE]

Deciding == {"LISTENING", "PASSIVE", "SLAVE", "MASTER"}

MayBeMaster(own, s) == ~s.slaveOnly /\ own.clockClass # 255

(* doInit()                                                                  *)
started(own, s) ==
    IF s.portState = "INITIALIZING"
    THEN {[s EXCEPT !.portState = "LISTENING", !.parentDS = own, !.known = {}]}
    ELSE {}

(* Mutant: a SLAVE disregards masters other than its parent.                 *)
heardFromParentOnly(s, m) ==
    IF s.portState \notin Deciding \/ s.pending THEN {}
    ELSE IF s.portState # "SLAVE" THEN {[s EXCEPT !.pending = TRUE, !.known = @ \cup {m}]}
    ELSE IF SamePort(s.parentDS, m)
    THEN {[s EXCEPT !.pending = TRUE, !.parentDS = s1(m)]} ELSE {}

(* handleAnnounce(): every announce asks for a decision, and the next one is *)
(* not looked at before. That of a SLAVE's parent renews the parent data set *)
(* only.                                                                     *)
heard(s, m) ==
    IF s.portState \notin Deciding \/ s.pending THEN {}
    ELSE IF s.portState = "SLAVE" /\ SamePort(s.parentDS, m)
    THEN {[s EXCEPT !.pending = TRUE, !.parentDS = s1(m)]}
    ELSE {[s EXCEPT !.pending = TRUE, !.known = @ \cup {m}]}

(* The masters known that no other one known is better than.                 *)
Undominated(s) ==
    {m \in s.known : \A k \in s.known :
        ~(bmcDataSetComparison(k, m, s.parentDS.clockIdentity) < 0)}

follow(s, state, m) ==
    [s EXCEPT !.pending = FALSE, !.portState = state, !.parentDS = s1(m)]

(* bmcStateDecision() on m.                                                  *)
decidedOn(own, s, m) ==
    LET c == bmcDataSetComparison(own, m, s.parentDS.clockIdentity)
    IN  IF s.slaveOnly THEN {follow(s, "SLAVE", m)}
        ELSE IF c < 0
        THEN {[s EXCEPT !.pending = FALSE, !.portState = "MASTER", !.parentDS = own]}
        ELSE IF c > 0
        THEN {follow(s, IF own.clockClass < 128 THEN "PASSIVE" ELSE "SLAVE", m)}
        ELSE {}

(* bmc(): with no master known all stays as it is, unless the port is slave  *)
(* only: it then follows one of those it has forgotten.                      *)
decided(own, others, s) ==
    IF s.portState \notin Deciding \/ ~s.pending THEN {}
    ELSE IF s.known # {} THEN UNION {decidedOn(own, s, m) : m \in Undominated(s)}
    ELSE IF s.portState = "MASTER"
    THEN {[s EXCEPT !.pending = FALSE, !.parentDS = own]}
    ELSE IF s.slaveOnly THEN {follow(s, "SLAVE", m) : m \in others}
    ELSE IF s.portState = "LISTENING" THEN {[s EXCEPT !.pending = FALSE]}
    ELSE {}

(* Mutant: the masters are not forgotten.                                    *)
timedOutRemembers(own, s) ==
    IF s.portState \notin Deciding \ {"MASTER"} THEN {}
    ELSE IF MayBeMaster(own, s)
    THEN {[s EXCEPT !.portState = "MASTER", !.parentDS = own]}
    ELSE {[s EXCEPT !.portState = "LISTENING"]}

(* ANNOUNCE_RECEIPT_TIMEOUT_EXPIRES: the masters are forgotten. A decision   *)
(* that is due stays so.                                                     *)
timedOut(own, s) ==
    IF s.portState \notin Deciding \ {"MASTER"} THEN {}
    ELSE IF MayBeMaster(own, s)
    THEN {[s EXCEPT !.portState = "MASTER", !.parentDS = own, !.known = {}]}
    ELSE {[s EXCEPT !.portState = "LISTENING", !.known = {}]}

(* A clock that may not be master gives up MASTER.                           *)
demoted(own, s) ==
    IF s.portState = "MASTER" /\ ~MayBeMaster(own, s)
    THEN {[s EXCEPT !.portState = "LISTENING"]} ELSE {}
================================================================================
