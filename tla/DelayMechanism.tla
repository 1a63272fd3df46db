----------------------------- MODULE DelayMechanism -----------------------------
(*****************************************************************************)
(* The delay mechanism of a port: end to end (DelayExchange) or peer to peer *)
(* (PeerDelay), as the command line says (rtOpts->E2E_mode). Every test of   *)
(* E2E_mode in protocol.c chooses between the two, which share no variable.  *)
(* Their properties are stated in the two modules.                           *)
(*****************************************************************************)
EXTENDS DelayExchange, PeerDelay

VARIABLE E2E_mode

MechanismInit == E2E_mode \in BOOLEAN /\ Init /\ PeerInit

MechanismNext ==
    \/ E2E_mode /\ Next /\ UNCHANGED <<E2E_mode, peerVars>>
    \/ ~E2E_mode /\ PeerNext /\ UNCHANGED <<E2E_mode, vars>>

MechanismSpec ==
    MechanismInit /\ [][MechanismNext]_<<E2E_mode, vars, peerVars>>
================================================================================
