------------------------------ MODULE Identity ------------------------------
(***************************************************************************)
(* Identities: the rows of users and groups, each a generation of a        *)
(* Telegram id, with roles, trust, restrictions, public names, group       *)
(* routes, deletion and recovery.  A transaction locks its subjects and is *)
(* one step; what a service reads before its transaction is remembered by  *)
(* a session, and other sessions, the command line and Telegram act in     *)
(* between.                                                                *)
(***************************************************************************)
EXTENDS Naturals, Sequences, FiniteSets, FiniteSetsExt

CONSTANTS
  Persons, Chats,     \* Telegram ids of users and of groups
  Owners,             \* persons the command line made administrators at first
  Names,              \* public handles
  Sessions,           \* requests and updates being processed
  MaxRows,            \* bound: rows of a table
  MaxChanges          \* bound: requests, evidence and commands

Cli == "cli"
Nobody == <<"none", "none">>
Nameless == "nameless"
Idle == [pc |-> "idle"]

ASSUME IdentityAssumption ==
  /\ Owners \subseteq Persons /\ IsFiniteSet(Owners) /\ MaxRows \in Nat /\ MaxChanges \in Nat

VARIABLES
  users,      \* rows: id, role, trust, generation, not deleted
  groups,     \* rows: current chat id, approval, generation, not deleted
  route,      \* former chat id -> row of its group, 0 when none
  bans,       \* active restrictions, by kind and Telegram id
  handles,    \* public handle -> the kind and Telegram id it names
  session,    \* what each request remembers
  changes

vars == <<users, groups, route, bans, handles, session, changes>>

User(t, role, gen) == [tid |-> t, role |-> role, trusted |-> FALSE, gen |-> gen, live |-> TRUE]
Group(c, gen) == [chat |-> c, approved |-> FALSE, gen |-> gen, live |-> TRUE]

(* active_user and active_chat: a chat id also finds the group that moved. *)
LiveUser(t) == {i \in DOMAIN users : users[i].tid = t /\ users[i].live}
LiveGroup(c) == {i \in DOMAIN groups : (groups[i].chat = c \/ route[c] = i) /\ groups[i].live}
DeadUser(t) == {i \in DOMAIN users : users[i].tid = t /\ ~users[i].live}
DeadGroup(c) == {i \in DOMAIN groups : groups[i].chat = c /\ ~groups[i].live}

IsAdmin(t) == \E i \in LiveUser(t) : users[i].role = "admin"
Banned(t) == <<"user", t>> \in bans
Administrator(a) == a = Cli \/ (IsAdmin(a) /\ ~Banned(a))

Init ==
  /\ \E f \in [1 .. Cardinality(Owners) -> Owners] :
       /\ Cardinality({f[i] : i \in DOMAIN f}) = Cardinality(Owners)
       /\ users = [i \in DOMAIN f |-> User(f[i], "admin", 1)]
  /\ groups = << >>
  /\ route = [c \in Chats |-> 0]
  /\ bans = {}
  /\ handles = [n \in Names |-> Nobody]
  /\ session = [s \in Sessions |-> Idle]
  /\ changes = 0

Changed == changes < MaxChanges /\ changes' = changes + 1
----------------------------------------------------------------------------
(* Evidence of Telegram updates.                                           *)

(* ingest: a deleted identity is not created again.                        *)
Ingested(t) ==
  IF LiveUser(t) # {} \/ DeadUser(t) # {} THEN users ELSE Append(users, User(t, "user", 1))

(* sync_handle: the name leaves whoever had it, the target its old name.   *)
Synced(target, name) ==
  [n \in Names |-> IF n = name THEN target
                   ELSE IF handles[n] = target THEN Nobody ELSE handles[n]]

(* An update of a chat that moved is dropped before anything is observed.  *)
UpdateArrives(s, t, c, name, named) ==
  /\ session[s].pc = "idle" /\ Changed
  /\ \A i \in LiveGroup(c) : groups[i].chat = c
  /\ session' = [session EXCEPT ![s] =
       [pc |-> "user", person |-> t, chat |-> c,
        own |-> IF named = "user" THEN name ELSE Nameless,
        shared |-> IF named = "group" THEN name ELSE Nameless]]
  /\ UNCHANGED <<users, groups, route, bans, handles>>

ObserveUser(s) ==
  LET t == session[s].person IN
  /\ session[s].pc = "user"
  /\ Len(users) < MaxRows
  /\ users' = Ingested(t)
  /\ session' = [session EXCEPT ![s] = IF LiveUser(t) = {} /\ DeadUser(t) # {} THEN Idle
                                       ELSE [@ EXCEPT !.pc = "named"]]
  /\ UNCHANGED <<groups, route, bans, handles, changes>>

SyncUser(s) ==
  /\ session[s].pc = "named"
  /\ handles' = Synced(<<"user", session[s].person>>, session[s].own)
  /\ session' = [session EXCEPT ![s].pc = "group"]
  /\ UNCHANGED <<users, groups, route, bans, changes>>

(* ingest_group: neither a deleted group nor a former id is created.       *)
ObserveGroup(s) ==
  LET c == session[s].chat
      gone == DeadGroup(c) # {} \/ route[c] # 0
      moved == \E i \in LiveGroup(c) : groups[i].chat # c
  IN
  /\ session[s].pc = "group"
  /\ Cardinality(LiveGroup(c)) <= 1 /\ Len(groups) < MaxRows
  /\ groups' = IF LiveGroup(c) = {} /\ ~gone THEN Append(groups, Group(c, 1)) ELSE groups
  /\ session' = [session EXCEPT ![s] = IF moved \/ (LiveGroup(c) = {} /\ gone) THEN Idle
                                       ELSE [@ EXCEPT !.pc = "titled"]]
  /\ UNCHANGED <<users, route, bans, handles, changes>>

SyncGroup(s) ==
  /\ session[s].pc = "titled"
  /\ handles' = Synced(<<"group", session[s].chat>>, session[s].shared)
  /\ session' = [session EXCEPT ![s].pc = "handler"]
  /\ UNCHANGED <<users, groups, route, bans, changes>>

(* The handler of the message: get_or_create_chat asks whether the id is a *)
(* former one, and not whether it was deleted.                             *)
HandlerCreates(s) ==
  LET c == session[s].chat IN
  /\ session[s].pc = "handler" /\ Len(groups) < MaxRows
  /\ groups' = IF LiveGroup(c) = {} /\ route[c] = 0 THEN Append(groups, Group(c, 1)) ELSE groups
  /\ session' = [session EXCEPT ![s] = Idle]
  /\ UNCHANGED <<users, route, bans, handles, changes>>

(* A service message: the group keeps its row and takes what is kept under *)
(* its old id along; an id that anything is known of is refused.           *)
Conflict(c) == \/ \E i \in DOMAIN groups : groups[i].chat = c
               \/ route[c] # 0
               \/ \E n \in Names : handles[n] = <<"group", c>>
\* Fault: restrictions stay under the old id.
MigrateLeavingBans(old, new) ==
  /\ Changed /\ old # new
  /\ \E i \in LiveGroup(old) :
       /\ LiveGroup(old) = {i} /\ groups[i].chat = old
       /\ route[old] = 0 /\ ~Conflict(new)
       /\ groups' = [groups EXCEPT ![i].chat = new]
       /\ route' = [route EXCEPT ![old] = i]
  /\ handles' = [n \in Names |-> IF handles[n] = <<"group", old>> THEN <<"group", new>> ELSE handles[n]]
  /\ UNCHANGED <<users, session, bans>>

Migrate(old, new) ==
  /\ Changed /\ old # new
  /\ \E i \in LiveGroup(old) :
       /\ LiveGroup(old) = {i} /\ groups[i].chat = old
       /\ route[old] = 0 /\ ~Conflict(new)
       /\ groups' = [groups EXCEPT ![i].chat = new]
       /\ route' = [route EXCEPT ![old] = i]
  /\ bans' = {IF b = <<"group", old>> THEN <<"group", new>> ELSE b : b \in bans}
  /\ handles' = [n \in Names |-> IF handles[n] = <<"group", old>> THEN <<"group", new>> ELSE handles[n]]
  /\ UNCHANGED <<users, session>>

----------------------------------------------------------------------------
(* The command line.                                                       *)

SetRole(t, role) ==
  /\ Changed /\ Len(users) < MaxRows
  /\ LET rows == Ingested(t) IN
     \E i \in DOMAIN rows :
       /\ rows[i].tid = t /\ rows[i].live /\ rows[i].role # role
       /\ users' = [rows EXCEPT ![i].role = role]
  /\ UNCHANGED <<groups, route, bans, handles, session>>

(* The handle is released under the number of the row, though handles are  *)
(* kept under Telegram ids: none is found.                                 *)
Released(kind, row) == [n \in Names |-> IF handles[n] = <<kind, row>> THEN Nobody ELSE handles[n]]

DeleteUser(t) ==
  /\ Changed
  /\ \E i \in LiveUser(t) :
       /\ users' = [users EXCEPT ![i].live = FALSE, ![i].gen = @ + 1]
       /\ handles' = Released("user", i)
  /\ UNCHANGED <<groups, route, bans, session>>

DeleteGroup(c) ==
  /\ Changed
  /\ \E i \in LiveGroup(c) :
       /\ LiveGroup(c) = {i}
       /\ groups' = [groups EXCEPT ![i].live = FALSE, ![i].gen = @ + 1]
       /\ handles' = Released("group", i)
  /\ UNCHANGED <<users, route, bans, session>>

----------------------------------------------------------------------------
(* Trust and restrictions: the request is authorized and its target is     *)
(* compared with the preview, then a transaction looks again at the        *)
(* operator, and finds the target by its Telegram id.                      *)

(* A name is resolved while its target is active.                          *)
Resolved(n) == {x \in {handles[n]} : \/ x[1] = "user" /\ LiveUser(x[2]) # {}
                                     \/ x[1] = "group" /\ LiveGroup(x[2]) # {}}
Referred(ref) == IF ref \in Names THEN {x[2] : x \in {y \in Resolved(ref) : y[1] = "user"}} ELSE {ref}

AdminTrust(s, a, ref, value) ==
  /\ session[s].pc = "idle" /\ Administrator(a) /\ Changed
  /\ \E t \in Referred(ref) :
       /\ LiveUser(t) # {}
       /\ session' = [session EXCEPT ![s] = [pc |-> "trust", actor |-> a, person |-> t, value |-> value]]
  /\ UNCHANGED <<users, groups, route, bans, handles>>

SetTrust(s) ==
  /\ session[s].pc = "trust"
  /\ users' = IF ~Administrator(session[s].actor) THEN users
              ELSE [i \in DOMAIN users |-> IF i \in LiveUser(session[s].person)
                      THEN [users[i] EXCEPT !.trusted = session[s].value] ELSE users[i]]
  /\ session' = [session EXCEPT ![s] = Idle]
  /\ UNCHANGED <<groups, route, bans, handles, changes>>

AdminBan(s, a, target, active) ==
  /\ session[s].pc = "idle" /\ (a = Cli \/ IsAdmin(a)) /\ Changed
  /\ IF target[1] = "user" THEN LiveUser(target[2]) # {}
     ELSE \E i \in LiveGroup(target[2]) : groups[i].chat = target[2] /\ LiveGroup(target[2]) = {i}
  /\ session' = [session EXCEPT ![s] = [pc |-> "ban", actor |-> a, target |-> target, active |-> active]]
  /\ UNCHANGED <<users, groups, route, bans, handles>>

\* Fault: the protection of the target is checked with the request only.
MayRestrictAny(a, target) ==
  /\ IF target[1] = "user" THEN LiveUser(target[2]) # {}
     ELSE \E i \in DOMAIN groups : groups[i].chat = target[2] /\ groups[i].live
  /\ Administrator(a)

(* Only the command line restricts an administrator, or frees one.         *)
MayRestrict(a, target) ==
  /\ IF target[1] = "user" THEN LiveUser(target[2]) # {}
     ELSE \E i \in DOMAIN groups : groups[i].chat = target[2] /\ groups[i].live
  /\ Administrator(a)
  /\ a = Cli \/ target[1] = "group" \/ ~IsAdmin(target[2])

SetBan(s) ==
  LET r == session[s] IN
  /\ r.pc = "ban"
  /\ bans' = IF ~MayRestrict(r.actor, r.target) THEN bans
             ELSE IF r.active THEN bans \cup {r.target} ELSE bans \ {r.target}
  /\ session' = [session EXCEPT ![s] = Idle]
  /\ UNCHANGED <<users, groups, route, handles, changes>>

----------------------------------------------------------------------------
(* Recovery of a deleted identity: authority, the latest deleted           *)
(* generation and the role it held are read first.                         *)

LatestUser(t) == {i \in DeadUser(t) : \A k \in DeadUser(t) : users[i].gen >= users[k].gen}
LatestGroup(c) ==
  LET rows == IF \E i \in DOMAIN groups : groups[i].chat = c THEN DeadGroup(c)
              ELSE {i \in {route[c]} \cap DOMAIN groups : ~groups[i].live}
  IN {i \in rows : \A k \in rows : groups[i].gen >= groups[k].gen}

\* Fault: any administrator restores any role.
RecoverUserAnyRole(s, a, t, option) ==
  /\ session[s].pc = "idle" /\ Administrator(a) /\ Changed
  /\ \E i \in LatestUser(t) :
       session' = [session EXCEPT ![s] = [pc |-> option, actor |-> a, kind |-> "user",
                                          key |-> t, revision |-> users[i].gen]]
  /\ UNCHANGED <<users, groups, route, bans, handles>>

RecoverUser(s, a, t, option) ==
  /\ session[s].pc = "idle" /\ Administrator(a) /\ Changed
  /\ \E i \in LatestUser(t) :
       /\ option = "restore" /\ users[i].role = "admin" => a = Cli
       /\ session' = [session EXCEPT ![s] = [pc |-> option, actor |-> a, kind |-> "user",
                                             key |-> t, revision |-> users[i].gen]]
  /\ UNCHANGED <<users, groups, route, bans, handles>>

RecoverGroup(s, a, c, option) ==
  /\ session[s].pc = "idle" /\ Administrator(a) /\ Changed
  /\ \E i \in LatestGroup(c) :
       session' = [session EXCEPT ![s] = [pc |-> option, actor |-> a, kind |-> "group",
                                          key |-> c, revision |-> groups[i].gen]]
  /\ UNCHANGED <<users, groups, route, bans, handles>>

(* The store takes the last row, and a unique index refuses a second       *)
(* active one.                                                             *)
RestoreUser(s) ==
  LET i == Max(DeadUser(session[s].key) \cup {0}) IN
  /\ session[s].pc = "restore" /\ session[s].kind = "user"
  /\ users' = IF i # 0 /\ users[i].gen = session[s].revision /\ LiveUser(session[s].key) = {}
              THEN [users EXCEPT ![i].live = TRUE, ![i].gen = @ + 1] ELSE users
  /\ session' = [session EXCEPT ![s] = Idle]
  /\ UNCHANGED <<groups, route, bans, handles, changes>>

FreshUser(s) ==
  LET t == session[s].key IN
  /\ session[s].pc = "fresh" /\ session[s].kind = "user" /\ Len(users) < MaxRows
  /\ users' = IF LiveUser(t) # {} THEN users
              ELSE Append(users, User(t, "user", Max({users[i].gen : i \in DeadUser(t)} \cup {0}) + 1))
  /\ session' = [session EXCEPT ![s] = Idle]
  /\ UNCHANGED <<groups, route, bans, handles, changes>>

RestoreGroup(s) ==
  LET c == session[s].key
      i == IF DeadGroup(c) # {} THEN Max(DeadGroup(c)) ELSE route[c]
  IN
  /\ session[s].pc = "restore" /\ session[s].kind = "group"
  /\ groups' = IF /\ i # 0 /\ ~groups[i].live /\ groups[i].gen = session[s].revision
                  /\ \A k \in DOMAIN groups : groups[k].live => groups[k].chat # groups[i].chat
               THEN [groups EXCEPT ![i].live = TRUE, ![i].gen = @ + 1] ELSE groups
  /\ session' = [session EXCEPT ![s] = Idle]
  /\ UNCHANGED <<users, route, bans, handles, changes>>

FreshGroup(s) ==
  LET c == session[s].key
      rows == {i \in DOMAIN groups : groups[i].chat = c}
  IN
  /\ session[s].pc = "fresh" /\ session[s].kind = "group" /\ Len(groups) < MaxRows
  /\ groups' = IF \E i \in rows : groups[i].live THEN groups
               ELSE Append(groups, Group(c, Max({groups[i].gen : i \in rows} \cup {0}) + 1))
  /\ session' = [session EXCEPT ![s] = Idle]
  /\ UNCHANGED <<users, route, bans, handles, changes>>

(* A request that fails or whose process dies.                             *)
SessionLost(s) ==
  /\ session[s].pc # "idle"
  /\ session' = [session EXCEPT ![s] = Idle]
  /\ UNCHANGED <<users, groups, route, bans, handles, changes>>
----------------------------------------------------------------------------
Actors == Persons \cup {Cli}
Options == {"restore", "fresh"}
Targets == ({"user"} \X Persons) \cup ({"group"} \X Chats)

Observe(s) == ObserveUser(s) \/ SyncUser(s) \/ ObserveGroup(s) \/ SyncGroup(s) \/ HandlerCreates(s)
Recover(s) == RestoreUser(s) \/ FreshUser(s) \/ RestoreGroup(s) \/ FreshGroup(s)

Next ==
  \/ \E s \in Sessions :
       \/ \E t \in Persons : \E c \in Chats : \E n \in Names \cup {Nameless} :
            \E k \in {"user", "group"} : UpdateArrives(s, t, c, n, k)
       \/ Observe(s) \/ SetTrust(s) \/ SetBan(s) \/ Recover(s) \/ SessionLost(s)
       \/ \E a \in Actors :
            \/ \E t \in Persons \cup Names : \E v \in BOOLEAN : AdminTrust(s, a, t, v)
            \/ \E x \in Targets : \E v \in BOOLEAN : AdminBan(s, a, x, v)
            \/ \E t \in Persons : \E o \in Options : RecoverUser(s, a, t, o)
            \/ \E c \in Chats : \E o \in Options : RecoverGroup(s, a, c, o)
  \/ \E old, new \in Chats : Migrate(old, new)
  \/ \E t \in Persons : DeleteUser(t) \/ \E r \in {"user", "admin"} : SetRole(t, r)
  \/ \E c \in Chats : DeleteGroup(c)

Spec == Init /\ [][Next]_vars
----------------------------------------------------------------------------
(* The rows of a person are generations in order, and no row but the last  *)
(* is ever active, whatever deletions and recoveries meet: the tombstone   *)
(* the recovery service previews, by generation, is the one the store      *)
(* restores, by row (RecoveryPreviewService, SQLAlchemyRecoveryStore).     *)
GenerationsOrdered ==
  \A i, k \in DOMAIN users :
    i < k /\ users[i].tid = users[k].tid => users[i].gen < users[k].gen /\ ~users[i].live

(* A restriction is never left on an id that no row carries, a target has  *)
(* one name, and a name leads to a known identity, at worst through the    *)
(* former id of a group: migration moves restrictions and names, updates   *)
(* that were under way may still write a name for the former id            *)
(* (SQLAlchemyGroupMigrationStore, SQLAlchemyPublicHandleStore).           *)
Known(target) == IF target[1] = "user" THEN \E i \in DOMAIN users : users[i].tid = target[2]
                 ELSE \E i \in DOMAIN groups : groups[i].chat = target[2]
NothingStranded ==
  /\ \A b \in bans : Known(b)
  /\ \A n \in Names : handles[n] # Nobody =>
       /\ Known(handles[n]) \/ route[handles[n][2]] \in DOMAIN groups
       /\ \A m \in Names \ {n} : handles[m] # handles[n]

(* Authority to administer the bot is gained, lost, deleted and recovered  *)
(* by the command line alone, though a recovery checks the role of what it *)
(* restores before its transaction (RecoveryPreviewService.execute_user).  *)
Commanded ==
  \/ \E t \in Persons : DeleteUser(t) \/ \E r \in {"user", "admin"} : SetRole(t, r)
  \/ \E s \in Sessions : Recover(s) /\ session[s].actor = Cli
AuthorityProtected ==
  [][(\E t \in Persons : IsAdmin(t) # IsAdmin(t)') => Commanded]_vars

(* An active group that is restricted stays so until the restriction is    *)
(* revoked: not by a migration, a name, a deletion of another generation   *)
(* or a late message.                                                      *)
Restricted(i) == groups[i].live /\ <<"group", groups[i].chat>> \in bans
BanFollows ==
  [][\A i \in DOMAIN groups :
       Restricted(i) /\ groups'[i].live => Restricted(i)' \/ \E s \in Sessions : SetBan(s)]_vars

(* Trust and restrictions of Telegram's operators change only while the    *)
(* operator is an unrestricted administrator, and never for a protected    *)
(* person: a demotion or a promotion after the request was authorized      *)
(* counts (_execute_set_trust, _validate_authority).                       *)
Settled(s) == session[s].pc \in {"trust", "ban"} /\ session'[s].pc = "idle"
OperatorsCurrent ==
  [][\A s \in Sessions :
       Settled(s) /\ (users' # users \/ bans' # bans) /\ session[s].actor # Cli =>
         /\ IsAdmin(session[s].actor) /\ ~Banned(session[s].actor)
         /\ \A t \in Persons : <<"user", t>> \in (bans \ bans') \cup (bans' \ bans) => ~IsAdmin(t)]_vars

\* Rows, routes, restrictions and names; a route leads to a stored group.
TypeOK ==
  /\ users \in Seq([tid : Persons, role : {"user", "admin"}, trusted : BOOLEAN, gen : Nat \ {0}, live : BOOLEAN])
  /\ groups \in Seq([chat : Chats, approved : BOOLEAN, gen : Nat \ {0}, live : BOOLEAN])
  /\ route \in [Chats -> 0..Len(groups)]
  /\ bans \subseteq ({"user"} \X Persons) \cup ({"group"} \X Chats)
  /\ handles \in [Names -> {Nobody} \cup ({"user"} \X Persons) \cup ({"group"} \X Chats)]
  /\ \A s \in Sessions :
       session[s].pc \in {"idle", "user", "named", "group", "titled", "handler", "trust", "ban"} \cup Options
  /\ changes \in 0..MaxChanges

\* Deletion, recovery and migration leave one live row for each Telegram identity, newer than all
\* of its tombstones, and leave nothing behind that belongs to it (UserStore, GroupMigrationStore).
IdentitiesSound == TypeOK /\ GenerationsOrdered /\ NothingStranded

\* Neither recovery nor migration changes who may act: they raise no authority above that of
\* who asked, and lift no ban (RecoveryService, GroupMigrationStore).
AuthorityKept == AuthorityProtected /\ BanFollows
=============================================================================
