----------------------------- MODULE MCIdentity -----------------------------
(* Instance of Identity: an administrator, another person, the two ids of  *)
(* a group, a name, and requests that overlap.                             *)
EXTENDS Identity, TLC
CONSTANTS p1, p2, c1, c2, n1, n2, s1, s2
TwoPersons == {p1, p2}
OnePerson == {p1}
TwoChats == {c1, c2}
OneName == {n1}
OneSession == {s1}
TwoSessions == {s1, s2}
Interchangeable == Permutations({s1, s2})
(* States a few changes after Init: both persons are known, the second     *)
(* perhaps deleted, and the group has come.                                *)
Later == [User(p2, "user", 1) EXCEPT !.live = FALSE, !.gen = 2]
MCInit ==
  /\ users \in {<<User(p1, "admin", 1), x>> : x \in {User(p2, "user", 1), Later}}
  /\ groups = <<Group(c1, 1)>>
  /\ route = [c \in Chats |-> 0] /\ bans = {} /\ handles = [n \in Names |-> Nobody]
  /\ session = [s \in Sessions |-> Idle] /\ changes = 0
MCSpec == MCInit /\ [][Next]_vars
=============================================================================
