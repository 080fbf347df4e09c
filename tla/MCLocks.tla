------------------------------ MODULE MCLocks -------------------------------
(* An instance of the transactions for TLC: an administrator, a user who may *)
(* be unknown, and one group of the number 1 that may move to the number 2.  *)
EXTENDS Locks, TLC

CONSTANTS t1, t2

TwoTxns == {t1, t2}

Row(i, u, admin) ==
  [id |-> i, tg |-> u, live |-> TRUE, admin |-> admin, trusted |-> FALSE, by |-> "ingest"]
Administrator == Row(1, 1, TRUE)
KnownOrNot == {{Administrator}, {Administrator, Row(2, 2, FALSE)}}
OneGroup == {[id |-> 1, number |-> 1, live |-> TRUE]}

OneOrNoRequest == {{}, {[id |-> 1, group |-> 1, user |-> 2, status |-> "pending"]}}

OfUser(op, u, by) == [op |-> op, user |-> u, chat |-> None, by |-> by]
OfChat(op, n, by) == [op |-> op, user |-> None, chat |-> n, by |-> by]

EveryCall ==
  {OfUser(op, 2, None) : op \in {"ingest", "member", "worker"}}
  \union {OfUser("delete", 2, 1), OfUser("role", 1, Cli), OfUser("role", 2, Cli), OfUser("delete", 1, Cli),
          OfUser("trust", 2, 1), OfUser("ban", 2, 1), OfUser("ban", 1, Cli),
          OfUser("entitle", 2, 1), OfUser("override", 2, 1), OfUser("prefer", 2, None),
          OfChat("entitle", 1, 1), OfChat("answer", 1, None),
          OfUser("request", 2, 2), OfChat("decide", None, 1), OfChat("withdraw", None, 2),
          OfChat("approve", None, 1), OfChat("migrate", None, None),
          OfChat("system", None, Cli), OfChat("emergency", None, 1)}
  \union {OfChat(op, n, None) : op \in {"open", "observe"}, n \in {1, 2}}
  \union {OfChat("remove", 1, None)}

(* A user who is known has asked for the group.                            *)
MCInit == LocksInit /\ (requests = {} <=> Cardinality(users) = 1)
MCSpec == MCInit /\ [][LocksNext]_lockVars

Interchangeable == Permutations(Txns)
=============================================================================
