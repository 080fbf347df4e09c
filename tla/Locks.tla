------------------------------- MODULE Locks --------------------------------
(***************************************************************************)
(* The transactions of the stores and the locks they declare:              *)
(* infrastructure/persistence/locking.py, audited_transaction.py and the   *)
(* mutations of the stores that use them.                                  *)
(*                                                                         *)
(* A transaction resolves the parents it names to their Telegram numbers,  *)
(* takes the advisory gates of these numbers in sorted order, then the     *)
(* rows of its users and of its chats by primary key, reads its facts, and *)
(* writes what follows from them.  The database runs at READ COMMITTED:    *)
(* each statement sees what is committed when it starts, and what a        *)
(* transaction wrote is seen from its commit on.  Locks are released when  *)
(* the transaction ends.  A transaction that is chosen as the victim of a  *)
(* deadlock is run again from its start, three times in all, but for the   *)
(* worker's, whose decorator waits for another family of errors.           *)
(*                                                                         *)
(* Left out: the waits of a unique index for an uncommitted insert, the    *)
(* hash of the gates' names, serialization failures (none occur at READ    *)
(* COMMITTED), and the contents of audit events, evidence, policies and    *)
(* settings.                                                               *)
(***************************************************************************)
EXTENDS Naturals, FiniteSets, Relation

CONSTANTS Txns,        \* sessions that may be open at the same time
          Calls,       \* the calls that may be made
          FirstUsers,  \* rows of users at the start
          FirstChats,  \* rows of chats at the start
          FirstRequests, \* requests at the start, of known users
          MaxCalls     \* bound on the calls that are made

VARIABLES users, chats, routes, banned, requests, approved, stored, flags,
          call, phase, named, todo, held, view, attempts, begun

store == <<users, chats, routes, banned, requests, approved, stored, flags>>
session == <<call, phase, named, todo, held, view, attempts>>
lockVars == <<store, session, begun>>

\* A call names no user, no chat or no operator by None; Cli is the command line.
None == 0
Cli == 100

\* What a call is about: a user, a user or the group, a number, or neither.
OfUsers == {"ingest", "member", "worker", "delete", "role", "trust", "ban", "request"}
Configures == {"entitle", "override", "prefer", "answer"}
OfChats == {"open", "observe", "remove"}
OfOthers == {"migrate", "decide", "withdraw", "approve", "system", "emergency"}
CallRecord == [op : OfUsers \union Configures \union OfChats \union OfOthers, user : Nat, chat : Nat, by : Nat]

UserRecord == [id : Nat \ {0}, tg : Nat \ {None}, live : BOOLEAN, admin : BOOLEAN, trusted : BOOLEAN,
               by : {"ingest", "member", "worker", "role"}]
ChatRecord == [id : Nat \ {0}, number : Nat, live : BOOLEAN]
RequestRecord == [id : Nat \ {0}, group : {1}, user : Nat, status : {"pending", "approved", "rejected", "deleted"}]

Numbered(rows) == /\ IsFiniteSet(rows) /\ \A r \in rows : r.id <= Cardinality(rows)
                  /\ \A r, s \in rows : r.id = s.id => r = s

\* The group of the calls is stored, and no user is live twice.
ASSUME LocksAssumption ==
  /\ MaxCalls \in Nat
  /\ Calls \subseteq CallRecord
  /\ \A c \in Calls : /\ c.op \in OfUsers => c.user # None
                      /\ c.op \in OfChats \union OfOthers => c.user = None
  /\ FirstChats \subseteq ChatRecord /\ Numbered(FirstChats) /\ \E r \in FirstChats : r.id = 1
  /\ \A rows \in FirstUsers : /\ rows \subseteq UserRecord /\ Numbered(rows)
                              /\ \A r, s \in rows : r.live /\ s.live /\ r.tg = s.tg => r = s
  /\ \A rows \in FirstRequests : /\ rows \subseteq RequestRecord /\ IsFiniteSet(rows)
                                 /\ rows # {} => \E r \in rows : r.id = 1

NoCall == [op |-> "none", user |-> None, chat |-> None, by |-> None]
NoKeys == [k \in {} |-> "x"]
NoNames == [users |-> {}, actors |-> {}, groups |-> {}, numbers |-> {}]
NoView == [users |-> {}, chats |-> {}, routed |-> {}, may |-> FALSE,
           requests |-> {}, approved |-> {}, stored |-> {}, flag |-> 0]

(***************************************************************************)
(* Locks.  A key is a class and an identity; the classes are numbered in   *)
(* the order of the gates' names and of the rows that follow them.         *)
(***************************************************************************)
FeatureGate == <<1, 1>>
SystemGate == <<2, 1>>
ChatGate(n) == <<3, n>>
UserGate(u) == <<4, u>>
UserRow(i) == <<5, i>>
ChatRow(i) == <<6, i>>

Before(k, l) == k[1] < l[1] \/ (k[1] = l[1] /\ k[2] < l[2])

\* Exclusive locks admit no other, shared ones and those of a foreign key
\* admit each other.
Compatible(m, n) == m # "x" /\ n # "x"

Due(t) == CHOOSE k \in DOMAIN todo[t] :
            \A l \in DOMAIN todo[t] : k = l \/ Before(k, l)

Holders(t) == {u \in Txns \ {t} : /\ Due(t) \in DOMAIN held[u]
                                  /\ ~Compatible(held[u][Due(t)], todo[t][Due(t)])}

Waits == [p \in Txns \X Txns |-> /\ todo[p[1]] # NoKeys
                                 /\ p[2] \in Holders(p[1])]
Cycle(t) == {u \in Txns : /\ TransitiveClosure(Waits, Txns)[<<t, u>>]
                          /\ TransitiveClosure(Waits, Txns)[<<u, t>>]}

(***************************************************************************)
(* What each call declares before it reads: exclusive users and chats,     *)
(* shared actors, and parents named by a request.                          *)
(***************************************************************************)
Requested(c) == IF c.op \in {"decide", "withdraw"} THEN {r \in requests : r.id = 1} ELSE {}

TargetUsers(c) ==
  IF c.op \in {"ingest", "delete", "role", "trust", "ban", "member"} \union Configures
  THEN {c.user} \ {None} ELSE {}

Actors(c) ==
  (IF c.op \in {"trust", "ban", "entitle", "override", "request", "decide", "withdraw", "approve"}
   THEN {c.by} \ {None, Cli} ELSE {})
  \union (IF c.op = "request" THEN {c.user} ELSE {})
  \union {u.tg : u \in {u \in users : \E r \in Requested(c) : r.user = u.id}}

TargetGroups(c) ==
  (IF c.op \in {"member", "worker", "request", "approve"} \/ (c.op \in Configures /\ c.user = None)
   THEN {1} ELSE {})
  \union {r.group : r \in Requested(c)}

TargetChats(c) ==
  IF c.op = "migrate" THEN {1, 2}
  ELSE IF c.op \in {"open", "observe", "remove"} THEN {c.chat}
  ELSE {}

NamesWithoutActors(c) ==
  [users |-> TargetUsers(c),
   actors |-> {},
   groups |-> TargetGroups(c),
   numbers |-> TargetChats(c) \union {r.number : r \in {r \in chats : r.id \in TargetGroups(c)}}]

Names(c) == [users |-> TargetUsers(c),
             actors |-> Actors(c),
             groups |-> TargetGroups(c),
             numbers |-> TargetChats(c) \union
                         {r.number : r \in {r \in chats : r.id \in TargetGroups(c)}}]

GatesWithoutChats(c, n) ==
  [k \in {UserGate(u) : u \in n.users \union n.actors} |->
     IF k \in {UserGate(u) : u \in n.users} THEN "x" ELSE "s"]

\* Scoped advisory gates, one for each number and named key.
Gates(c, n) ==
  LET shared == {UserGate(u) : u \in n.actors \ n.users}
      exclusive == {ChatGate(m) : m \in n.numbers} \union {UserGate(u) : u \in n.users}
                   \union (IF c.op = "system" THEN {SystemGate} ELSE {})
                   \union (IF c.op = "emergency" THEN {FeatureGate} ELSE {})
  IN  [k \in shared \union exclusive |-> IF k \in shared THEN "s" ELSE "x"]

(***************************************************************************)
(* What the body of a call reads.                                          *)
(***************************************************************************)
UserRows(u) == {r \in users : r.tg = u}
LiveOf(rows) == {r \in rows : r.live}
ChatRows(n) == {r \in chats : r.number = n \/ <<n, r.id>> \in routes}

\* _authorize, _validate_authority, require_private_administrator.
Authorised == {"trust", "ban", "entitle", "override", "emergency"}
May(b) == b = Cli \/ (b \notin banned /\ \E r \in LiveOf(UserRows(b)) : r.admin)

Subject(c) == <<c.user, c.chat>>

ViewOf(c) ==
  [users |-> IF c.user # None THEN UserRows(c.user)
             ELSE {u \in users : \E r \in Requested(c) : r.user = u.id},
   chats |-> (UNION {ChatRows(n) : n \in TargetChats(c)})
             \union {r \in chats : r.id \in TargetGroups(c)},
   routed |-> {p \in routes : p[1] \in TargetChats(c)},
   may |-> c.op \in Authorised /\ May(c.by),
   requests |-> {r \in requests : r.group \in TargetGroups(c)},
   approved |-> approved \intersect TargetGroups(c),
   stored |-> {s \in stored : s.what = c.op /\ s.subject = Subject(c)},
   flag |-> IF c.op \in DOMAIN flags THEN flags[c.op] ELSE 0]

(***************************************************************************)
(* A transaction up to its write.                                          *)
(***************************************************************************)
Begin(t, c) ==
  /\ phase[t] = "idle"
  /\ begun < MaxCalls
  /\ c.op \in {"decide", "withdraw"} => requests # {}
  /\ begun' = begun + 1
  /\ call' = [call EXCEPT ![t] = c]
  /\ phase' = [phase EXCEPT ![t] = "start"]
  /\ UNCHANGED <<store, named, todo, held, view, attempts>>

\* _prepare_lock_keys, with a fresh session for every attempt.
Prepare(t) ==
  /\ phase[t] = "start"
  /\ phase' = [phase EXCEPT ![t] = "gates"]
  /\ attempts' = [attempts EXCEPT ![t] = @ + 1]
  /\ named' = [named EXCEPT ![t] = Names(call[t])]
  /\ todo' = [todo EXCEPT ![t] = Gates(call[t], Names(call[t]))]
  /\ UNCHANGED <<store, begun, call, held, view>>

\* The next lock in the order, when no holder conflicts.
Acquire(t) ==
  /\ todo[t] # NoKeys
  /\ Holders(t) = {}
  /\ todo' = [todo EXCEPT ![t] = [k \in DOMAIN @ \ {Due(t)} |-> @[k]]]
  /\ held' = [held EXCEPT ![t] = [k \in DOMAIN @ \union {Due(t)} |->
                                    IF k \in DOMAIN @ THEN @[k] ELSE todo[t][k]]]
  /\ UNCHANGED <<store, begun, call, phase, named, view, attempts>>

\* The rows of the numbers, asked for after the gates are held; rows of
\* actors are shared.
ResolveUsers(t) ==
  /\ phase[t] = "gates" /\ todo[t] = NoKeys
  /\ LET n == named[t] IN
     todo' = [todo EXCEPT ![t] =
       [k \in {UserRow(r.id) : r \in {r \in users : r.tg \in n.users \union n.actors}} |->
          IF \E r \in users : UserRow(r.id) = k /\ r.tg \in n.users THEN "x" ELSE "s"]]
  /\ phase' = [phase EXCEPT ![t] = "users"]
  /\ UNCHANGED <<store, begun, call, named, held, view, attempts>>

\* The chats of the numbers, of their former routes and of the named parents.
ResolveChats(t) ==
  /\ phase[t] = "users" /\ todo[t] = NoKeys
  /\ LET n == named[t]
         rows == (UNION {ChatRows(m) : m \in n.numbers}) \union {r \in chats : r.id \in n.groups}
     IN todo' = [todo EXCEPT ![t] = [k \in {ChatRow(r.id) : r \in rows} |-> "x"]]
  /\ phase' = [phase EXCEPT ![t] = "chats"]
  /\ UNCHANGED <<store, begun, call, named, held, view, attempts>>

\* The facts are read under the locks.  The evidence that the worker then
\* inserts refers to the row of a user it did not declare.
Read(t) ==
  /\ phase[t] = "chats" /\ todo[t] = NoKeys
  /\ view' = [view EXCEPT ![t] = ViewOf(call[t])]
  /\ phase' = [phase EXCEPT ![t] = "write"]
  /\ todo' = [todo EXCEPT ![t] =
       IF call[t].op = "worker" /\ LiveOf(ViewOf(call[t]).chats) # {}
       THEN [k \in {UserRow(r.id) : r \in LiveOf(ViewOf(call[t]).users)} |-> "k"]
       ELSE NoKeys]
  /\ UNCHANGED <<store, begun, call, named, held, attempts>>

Ended(t) ==
  /\ call' = [call EXCEPT ![t] = NoCall]
  /\ phase' = [phase EXCEPT ![t] = "idle"]
  /\ named' = [named EXCEPT ![t] = NoNames]
  /\ todo' = [todo EXCEPT ![t] = NoKeys]
  /\ held' = [held EXCEPT ![t] = NoKeys]
  /\ view' = [view EXCEPT ![t] = NoView]
  /\ attempts' = [attempts EXCEPT ![t] = 0]

\* PostgreSQL aborts one transaction of a cycle.  execute runs the whole
\* attempt again; the decorator of the worker waits for psycopg's errors
\* and sees those of the session that wraps them.
Again(t) ==
  /\ phase' = [phase EXCEPT ![t] = "start"]
  /\ named' = [named EXCEPT ![t] = NoNames]
  /\ todo' = [todo EXCEPT ![t] = NoKeys]
  /\ held' = [held EXCEPT ![t] = NoKeys]
  /\ view' = [view EXCEPT ![t] = NoView]
  /\ UNCHANGED <<call, attempts>>

Retried(t) == call[t].op # "worker" /\ attempts[t] < 3

Victim(t) ==
  /\ Cycle(t) # {}
  /\ IF Retried(t) THEN Again(t) ELSE Ended(t)
  /\ UNCHANGED <<store, begun>>

(***************************************************************************)
(* The writes, each from what its transaction read.  A refusal raises and  *)
(* leaves the store as it is.                                              *)
(***************************************************************************)
Writes(t, op) ==
  /\ phase[t] = "write" /\ todo[t] = NoKeys
  /\ call[t].op = op
  /\ Ended(t)
  /\ UNCHANGED begun

NewUser(u, admin, op) ==
  [id |-> Cardinality(users) + 1, tg |-> u, live |-> TRUE, admin |-> admin, trusted |-> FALSE,
   by |-> op]

\* The unique index on live users refuses a second live row; the error is
\* not retried.
Inserted(u, admin, op) ==
  IF LiveOf(UserRows(u)) # {} THEN users ELSE users \union {NewUser(u, admin, op)}

\* Ingestion by a message, never beside a tombstone.
IngestUser(t) ==
  /\ Writes(t, "ingest")
  /\ users' = IF view[t].users = {} THEN Inserted(call[t].user, FALSE, "ingest") ELSE users
  /\ UNCHANGED <<chats, routes, banned, requests, approved, stored, flags>>

\* Evidence that a user administers the group brings the user in; the evidence
\* itself is left out.
Verify(t) ==
  \E op \in {"member", "worker"} :
    /\ Writes(t, op)
    /\ users' = IF view[t].users = {} /\ LiveOf(view[t].chats) # {}
                THEN Inserted(call[t].user, FALSE, op) ELSE users
    /\ UNCHANGED <<chats, routes, banned, requests, approved, stored, flags>>

\* Protected administrators are deleted by the command line alone.
DeleteUser(t) ==
  /\ Writes(t, "delete")
  /\ users' = {IF r \in LiveOf(view[t].users) /\ (r.admin => call[t].by = Cli)
               THEN [r EXCEPT !.live = FALSE] ELSE r : r \in users}
  /\ UNCHANGED <<chats, routes, banned, requests, approved, stored, flags>>

SetRole(t) ==
  /\ Writes(t, "role")
  /\ users' = IF view[t].users = {} THEN Inserted(call[t].user, TRUE, "role")
              ELSE {IF r \in LiveOf(view[t].users) THEN [r EXCEPT !.admin = ~@] ELSE r : r \in users}
  /\ UNCHANGED <<chats, routes, banned, requests, approved, stored, flags>>

SetTrust(t) ==
  /\ Writes(t, "trust")
  /\ users' = {IF view[t].may /\ r \in LiveOf(view[t].users)
               THEN [r EXCEPT !.trusted = ~@] ELSE r : r \in users}
  /\ UNCHANGED <<chats, routes, banned, requests, approved, stored, flags>>

\* Administrators are restricted by the command line alone.
SetBan(t) ==
  /\ Writes(t, "ban")
  /\ banned' = IF /\ view[t].may
                  /\ \E r \in LiveOf(view[t].users) : r.admin => call[t].by = Cli
               THEN banned \union {call[t].user} ELSE banned
  /\ UNCHANGED <<users, chats, routes, requests, approved, stored, flags>>

\* The exact generation and number the subject was named by.
Exact(t) ==
  IF call[t].user # None THEN LiveOf(view[t].users) # {}
  ELSE \E r \in LiveOf(view[t].chats) : r.number = call[t].chat

Stored(t, value) == [what |-> call[t].op, subject |-> Subject(call[t]), value |-> value]

Configure(t, op) ==
  /\ Writes(t, op)
  /\ UNCHANGED <<users, chats, routes, banned, requests, approved, flags>>

\* set_grant: granted once, or revoked.
Entitle(t) ==
  /\ Configure(t, "entitle")
  /\ \E granted \in BOOLEAN :
       stored' = IF view[t].may /\ Exact(t)
                 THEN (stored \ view[t].stored) \union (IF granted THEN {Stored(t, TRUE)} ELSE {})
                 ELSE stored

\* set_policy: inserted, changed in place, or retired.
Override(t) ==
  /\ Configure(t, "override")
  /\ \E limit \in {0, 1, 2} :
       stored' = IF view[t].may /\ Exact(t)
                 THEN (stored \ view[t].stored) \union (IF limit = 0 THEN {} ELSE {Stored(t, limit)})
                 ELSE stored

\* A switch of notices or the answer to a beta prompt, by the subject's own
\* menus: no operator is read.
Choose(t) ==
  \E op \in {"prefer", "answer"}, on \in BOOLEAN :
    /\ Configure(t, op)
    /\ stored' = IF Exact(t) THEN (stored \ view[t].stored) \union {Stored(t, on)} ELSE stored

NewChat(n) == [id |-> Cardinality(chats) + 1, number |-> n, live |-> TRUE]

\* Status, languages, salt and creation: an absent chat is inserted, a
\* former route of an unavailable one is refused.
OpenChat(t) ==
  /\ Writes(t, "open")
  /\ chats' = IF LiveOf(view[t].chats) = {} /\ view[t].routed = {}
              THEN chats \union {NewChat(call[t].chat)} ELSE chats
  /\ UNCHANGED <<users, routes, banned, requests, approved, stored, flags>>

\* Evidence of a group respects its tombstones.
ObserveChat(t) ==
  /\ Writes(t, "observe")
  /\ chats' = IF view[t].chats = {} THEN chats \union {NewChat(call[t].chat)} ELSE chats
  /\ UNCHANGED <<users, routes, banned, requests, approved, stored, flags>>

RemoveChat(t) ==
  /\ Writes(t, "remove")
  /\ chats' = {IF r \in LiveOf(view[t].chats) THEN [r EXCEPT !.live = FALSE] ELSE r : r \in chats}
  /\ UNCHANGED <<users, routes, banned, requests, approved, stored, flags>>

\* The group of the old number takes the new one, unless anything has it.
Migrate(t) ==
  /\ Writes(t, "migrate")
  /\ LET source == {r \in LiveOf(view[t].chats) : r.number = 1}
         moves == /\ \A r \in view[t].chats : r.number # 2
                  /\ \A p \in view[t].routed : p[1] # 2
     IN IF moves
        THEN /\ chats' = {IF r \in source THEN [r EXCEPT !.number = 2] ELSE r : r \in chats}
             /\ routes' = routes \union {<<1, r.id>> : r \in source}
        ELSE UNCHANGED <<chats, routes>>
  /\ UNCHANGED <<users, banned, requests, approved, stored, flags>>

\* One pending request of a group, whoever asks.
Request(t) ==
  /\ Writes(t, "request")
  /\ LET pending == {r \in view[t].requests : r.status = "pending"} IN
     requests' = IF LiveOf(view[t].chats) # {} /\ pending = {}
                 THEN requests \union {[id |-> Cardinality(requests) + 1, group |-> 1,
                                        user |-> u.id, status |-> "pending"] :
                                       u \in LiveOf(view[t].users)}
                 ELSE requests
  /\ UNCHANGED <<users, chats, routes, banned, approved, stored, flags>>

\* A decision and its approval in one transaction.
Decide(t) ==
  /\ Writes(t, "decide")
  /\ LET pending == {r \in view[t].requests : r.id = 1 /\ r.status = "pending"} IN
     IF pending # {} /\ LiveOf(view[t].chats) # {} /\ LiveOf(view[t].users) # {}
     THEN \E status \in {"approved", "rejected"} :
            /\ requests' = {IF r \in pending THEN [r EXCEPT !.status = status] ELSE r : r \in requests}
            /\ approved' = IF status = "approved" THEN approved \union {1} ELSE approved
     ELSE UNCHANGED <<requests, approved>>
  /\ UNCHANGED <<users, chats, routes, banned, stored, flags>>

\* delete_request hides a request, whatever was decided.
Withdraw(t) ==
  /\ Writes(t, "withdraw")
  /\ requests' = IF LiveOf(view[t].chats) = {} THEN requests
                 ELSE {IF r.id = 1 THEN [r EXCEPT !.status = "deleted"] ELSE r : r \in requests}
  /\ UNCHANGED <<users, chats, routes, banned, approved, stored, flags>>

\* approve and revoke_approval.
Approve(t) ==
  /\ Writes(t, "approve")
  /\ approved' = IF LiveOf(view[t].chats) = {} THEN approved
                 ELSE {1} \ view[t].approved
  /\ UNCHANGED <<users, chats, routes, banned, requests, stored, flags>>

\* The value of a setting, read and updated or inserted.
SetValue(t) ==
  /\ Writes(t, "system")
  /\ flags' = [flags EXCEPT !.system = view[t].flag + 1]
  /\ UNCHANGED <<users, chats, routes, banned, requests, approved, stored>>

\* The next epoch of a feature's emergency switch.
SwitchFeature(t) ==
  /\ Writes(t, "emergency")
  /\ flags' = IF view[t].may THEN [flags EXCEPT !.emergency = view[t].flag + 1] ELSE flags
  /\ UNCHANGED <<users, chats, routes, banned, requests, approved, stored>>

LocksInit ==
  /\ users \in FirstUsers
  /\ chats = FirstChats
  /\ requests \in FirstRequests
  /\ \A r \in requests : \E u \in users : u.id = r.user
  /\ routes = {} /\ banned = {} /\ approved = {} /\ stored = {}
  /\ flags = [system |-> 0, emergency |-> 0]
  /\ call = [t \in Txns |-> NoCall]
  /\ phase = [t \in Txns |-> "idle"]
  /\ named = [t \in Txns |-> NoNames]
  /\ todo = [t \in Txns |-> NoKeys]
  /\ held = [t \in Txns |-> NoKeys]
  /\ view = [t \in Txns |-> NoView]
  /\ attempts = [t \in Txns |-> 0]
  /\ begun = 0

\* The calls of the bound are over.
Over == begun = MaxCalls /\ (\A t \in Txns : phase[t] = "idle") /\ UNCHANGED lockVars

Write(t) ==
  \/ IngestUser(t) \/ Verify(t) \/ DeleteUser(t) \/ SetRole(t) \/ SetTrust(t) \/ SetBan(t)
  \/ Entitle(t) \/ Override(t) \/ Choose(t) \/ OpenChat(t) \/ ObserveChat(t) \/ RemoveChat(t) \/ Migrate(t)
  \/ Request(t) \/ Decide(t) \/ Withdraw(t) \/ Approve(t)
  \/ SetValue(t) \/ SwitchFeature(t)

Step(t) ==
  \/ Prepare(t) \/ Acquire(t) \/ ResolveUsers(t) \/ ResolveChats(t) \/ Read(t)
  \/ Victim(t) \/ Write(t)

LocksNext ==
  \/ Over
  \/ \E t \in Txns : Step(t) \/ \E c \in Calls : Begin(t, c)

LocksSpec == LocksInit /\ [][LocksNext]_lockVars

(***************************************************************************)
(* Properties.                                                             *)
(***************************************************************************)

\* What is read now, but for what no lock of the call holds still: the absence
\* of a user, which the worker has no gate for and does not respect, and the
\* authority behind the switch of a feature, whose transaction locks the
\* feature alone.
Locked(c, v, now) ==
  [now EXCEPT !.users = IF c.op = "worker" THEN v.users
                        ELSE {r \in @ : r.by = "worker" => r \in v.users},
              !.may = IF c.op = "emergency" THEN v.may ELSE @]

\* Rows, calls and the modes of locks.
LocksTypeOK ==
  /\ \A u \in users : u.id \in Nat \ {0} /\ {u.live, u.admin, u.trusted} \subseteq BOOLEAN
  /\ \A r \in chats : r.id \in Nat \ {0} /\ r.live \in BOOLEAN
  /\ \A r \in requests : r.status \in {"pending", "approved", "rejected", "deleted"}
  /\ flags \in [system : 0..MaxCalls, emergency : 0..MaxCalls]
  /\ phase \in [Txns -> {"idle", "start", "gates", "users", "chats", "write"}]
  /\ \A t \in Txns :
       /\ call[t] \in Calls \cup {NoCall} /\ attempts[t] \in 0..3
       /\ \A k \in DOMAIN held[t] : held[t][k] \in {"x", "s", "k"}
  /\ begun \in 0..MaxCalls

\* What a transaction read under its locks is still so when it commits: no
\* identity appears, nobody loses authority, is deleted or restricted, and no
\* request, route or setting changes between its reading and its writing.
FactsHold ==
  /\ LocksTypeOK
  /\ \A t \in Txns : phase[t] = "write" =>
       view[t] = Locked(call[t], view[t], ViewOf(call[t]))

\* The transactions wait for each other only after a migration between the
\* preparation of one of them and its gates.
CyclesNeedMigration ==
  \A t \in Txns : \A u \in Cycle(t) :
    \E w \in Cycle(t) \union {u} : \E r \in chats :
      r.id \in named[w].groups /\ r.number \notin named[w].numbers
=============================================================================
