---------------------------- MODULE MCMembership ----------------------------
(* One person, one reconciling worker and one handler, so that Telegram's   *)
(* events, checks and cycles race for the same row.  Evidence holds for two *)
(* ticks.                                                                   *)
EXTENDS Membership
(* The person is stored at first; a deleted one may be stored anew.         *)
MCInit == Init /\ \A u \in Users : user[u].state = "active"
MCSpec == MCInit /\ [][Next]_vars
=============================================================================
