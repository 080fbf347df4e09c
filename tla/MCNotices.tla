----------------------------- MODULE MCNotices -----------------------------
(* Instance of Notices: a user and a group, one or two requests.           *)
EXTENDS Notices
CONSTANTS u1, g1, s1, s2, a1
OneUser == {u1}
OneGroup == {g1}
Choice == {{u1}, {u1, g1}}
OneSession == {s1}
TwoSessions == {s1, s2}
SameActor == [s \in Sessions |-> a1]
(* Release notes and announcements meet only in the worker's pages: to     *)
(* keep the instance small, a release is due only while no administrator   *)
(* has authority, which a change may give back.                            *)
MCInit ==
  /\ Init /\ revisions = <<{u1}>>
  /\ release = [marker |-> "current", notes |-> TRUE, listed |-> {}] \/ admins = {}
MCSpec == MCInit /\ [][Next]_vars /\ Fairness
=============================================================================
