--------------------------- MODULE IdentityProofs ---------------------------
(***************************************************************************)
(* Proofs about identities, for any number of persons, groups, names,      *)
(* requests under way and changes.                                         *)
(***************************************************************************)
EXTENDS Identity, FiniteSetTheorems, SequenceTheorems, WellFoundedInduction, TLAPS

(***************************************************************************)
(* The inductive invariant.                                                *)
(***************************************************************************)

UserRow == [tid : Persons, role : {"user", "admin"}, trusted : BOOLEAN, gen : Nat \ {0}, live : BOOLEAN]
GroupRow == [chat : Chats, approved : BOOLEAN, gen : Nat \ {0}, live : BOOLEAN]

\* GenerationsOrdered, of any table of users.
Ordered(us) ==
  \A i, k \in DOMAIN us : i < k /\ us[i].tid = us[k].tid => us[i].gen < us[k].gen /\ ~us[i].live

\* What a request that previewed a restoration relies on: no row that was
\* deleted with that generation belongs to an administrator, and none will,
\* for a row of that generation or a later one is stored.
Previewed(us, t, revision) ==
  /\ \E i \in DOMAIN us : us[i].tid = t /\ us[i].gen >= revision
  /\ \A i \in DOMAIN us :
       us[i].tid = t /\ us[i].gen = revision /\ ~us[i].live => us[i].role # "admin"

Stored(us, t) == \E i \in DOMAIN us : us[i].tid = t

\* A chat id that is, or was, a group's.
Carried(gs, rt, c) == (\E i \in DOMAIN gs : gs[i].chat = c) \/ rt[c] \in DOMAIN gs

Steps == {"user", "named", "group", "titled", "handler"}
Update == [pc : Steps, person : Persons, chat : Chats,
           own : Names \cup {Nameless}, shared : Names \cup {Nameless}]

\* What a session remembers, and what of it stays true of the tables.
MemoOK(m, us, gs, rt) ==
  /\ m.pc \in {"idle", "trust", "ban"} \cup Steps \cup Options
  /\ m.pc \in Steps => m \in Update
  /\ m.pc = "named" => Stored(us, m.person)
  /\ m.pc = "titled" => Carried(gs, rt, m.chat)
  /\ m.pc = "trust" => m.person \in Persons /\ m.value \in BOOLEAN
  /\ m.pc = "ban" => m.target \in Targets
  /\ m.pc \in Options => \/ m.kind = "user" /\ m.key \in Persons
                         \/ m.kind = "group" /\ m.key \in Chats
  /\ m.pc \in Options => m.revision \in Nat
  /\ m.pc = "restore" /\ m.kind = "user" /\ m.actor # Cli => Previewed(us, m.key, m.revision)

UsersInv == users \in Seq(UserRow) /\ Ordered(users)

GroupsInv == groups \in Seq(GroupRow) /\ route \in [Chats -> 0..Len(groups)]

RestrictionsInv == bans \subseteq Targets /\ \A b \in bans : Known(b)

\* A name leads to a known identity.
Leads(target, us, gs, rt) ==
  \/ target = Nobody
  \/ target[1] = "user" /\ target[2] \in Persons /\ Stored(us, target[2])
  \/ target[1] = "group" /\ target[2] \in Chats /\ Carried(gs, rt, target[2])

HandlesInv ==
  /\ handles \in [Names -> {Nobody} \cup Targets]
  /\ \A n \in Names : Leads(handles[n], users, groups, route)
  /\ \A n, m \in Names : handles[n] # Nobody /\ handles[m] = handles[n] => m = n

SessionInv ==
  /\ session = [s \in Sessions |-> session[s]]
  /\ \A s \in Sessions : MemoOK(session[s], users, groups, route)

IInv == UsersInv /\ GroupsInv /\ RestrictionsInv /\ HandlesInv /\ SessionInv /\ changes \in 0..MaxChanges

----------------------------------------------------------------------------
(***************************************************************************)
(* Maxima and tables.                                                      *)
(***************************************************************************)

LEMMA MaxOf ==
  ASSUME NEW S, S \subseteq Nat, S # {}, NEW n \in Nat, \A x \in S : x <= n
  PROVE  Max(S) \in S /\ \A x \in S : Max(S) >= x
<1> DEFINE T == {m \in Nat : \A x \in S : x <= m}
           R == OpToRel(<, Nat)
<1>1. T \subseteq Nat /\ T # {}
  OBVIOUS
<1>2. IsWellFoundedOn(R, Nat)
  BY NatLessThanWellFounded
<1>3. \E m \in T : \A y \in T : ~(<<y, m>> \in R)
  <2> HIDE DEF T, R
  <2> QED BY <1>1, <1>2, WFMin
<1>4. PICK m \in T : \A y \in T : ~(<<y, m>> \in R)
  BY <1>3
<1>5. \A y \in T : ~(y < m)
  BY <1>4 DEF OpToRel
<1>6. m \in S
  <2> SUFFICES ASSUME m \notin S PROVE FALSE
    OBVIOUS
  <2>1. \A x \in S : x < m
    OBVIOUS
  <2>2. PICK x \in S : TRUE
    OBVIOUS
  <2>3. m - 1 \in Nat /\ \A y \in S : y <= m - 1
    BY <2>1, <2>2
  <2> QED BY <2>3, <1>5
<1>7. \E x \in S : \A y \in S : x >= y
  BY <1>6
<1> QED BY <1>7 DEF Max

\* The last of some rows of a table.
LEMMA MaxRow ==
  ASSUME NEW R, NEW us \in Seq(R), NEW S, S \subseteq DOMAIN us
  PROVE  /\ S # {} => Max(S) \in S /\ \A i \in S : Max(S) >= i
         /\ S # {} => Max(S \cup {0}) = Max(S)
         /\ S = {} => Max(S \cup {0}) = 0
<1>1. DOMAIN us = 1..Len(us) /\ Len(us) \in Nat
  OBVIOUS
<1>2. S \subseteq Nat /\ 0 \notin S /\ \A x \in S \cup {0} : x <= Len(us)
  BY <1>1
<1>3. Max(S \cup {0}) \in S \cup {0} /\ \A x \in S \cup {0} : Max(S \cup {0}) >= x
  <2>1. S \cup {0} \subseteq Nat /\ S \cup {0} # {}
    BY <1>2
  <2> DEFINE P == S \cup {0}
  <2>2. P \subseteq Nat /\ P # {} /\ \A x \in P : x <= Len(us)
    BY <1>2, <2>1
  <2> HIDE DEF P
  <2>3. Max(P) \in P /\ \A x \in P : Max(P) >= x
    BY <2>2, <1>1, MaxOf
  <2> QED BY <2>3 DEF P
<1>4. ASSUME S # {} PROVE Max(S) \in S /\ \A i \in S : Max(S) >= i
  BY <1>1, <1>2, <1>4, MaxOf
<1>5. ASSUME S # {} PROVE Max(S \cup {0}) = Max(S)
  <2>1. Max(S \cup {0}) \in S
    <3>1. PICK x \in S : TRUE
      BY <1>5
    <3>2. x \in Nat /\ x # 0 /\ Max(S \cup {0}) >= x
      BY <1>2, <1>3, <3>1
    <3>3. Max(S \cup {0}) # 0
      BY <3>2
    <3> QED BY <1>3, <3>3
  <2>2. Max(S) \in S /\ Max(S) >= Max(S \cup {0}) /\ Max(S \cup {0}) >= Max(S)
    BY <1>3, <1>4, <1>5, <2>1
  <2>3. Max(S) \in Nat /\ Max(S \cup {0}) \in Nat
    BY <1>2, <2>1, <2>2
  <2> QED BY <2>2, <2>3
<1>6. ASSUME S = {} PROVE Max(S \cup {0}) = 0
  BY <1>3, <1>6
<1> QED BY <1>4, <1>5, <1>6

\* What a change of the table of users keeps of what requests remember.
Keeps(us, vs) ==
  /\ \A t \in Persons : Stored(us, t) => Stored(vs, t)
  /\ \A t \in Persons, r \in Nat : Previewed(us, t, r) => Previewed(vs, t, r)

LEMMA KeepsTransitive ==
  ASSUME NEW us, NEW vs, NEW ws, Keeps(us, vs), Keeps(vs, ws)
  PROVE  Keeps(us, ws)
BY DEF Keeps

\* A row is added behind all of its person.
LEMMA AddUser ==
  ASSUME NEW us \in Seq(UserRow), Ordered(us), NEW row \in UserRow, row.live,
         \A i \in DOMAIN us : us[i].tid = row.tid => us[i].gen < row.gen /\ ~us[i].live
  PROVE  /\ Append(us, row) \in Seq(UserRow) /\ Ordered(Append(us, row))
         /\ Keeps(us, Append(us, row))
         /\ Stored(Append(us, row), row.tid)
<1> DEFINE vs == Append(us, row)
<1>1. /\ Len(us) \in Nat /\ DOMAIN us = 1..Len(us)
      /\ vs \in Seq(UserRow) /\ DOMAIN vs = 1..(Len(us) + 1)
      /\ \A i \in DOMAIN us : vs[i] = us[i]
      /\ vs[Len(us) + 1] = row
  OBVIOUS
<1> HIDE DEF vs
<1>2. Ordered(vs)
  <2> SUFFICES ASSUME NEW i \in DOMAIN vs, NEW k \in DOMAIN vs, i < k, vs[i].tid = vs[k].tid
               PROVE  vs[i].gen < vs[k].gen /\ ~vs[i].live
    BY DEF Ordered
  <2>1. i \in DOMAIN us
    BY <1>1
  <2>2. CASE k \in DOMAIN us
    BY <1>1, <2>1, <2>2 DEF Ordered
  <2>3. CASE k = Len(us) + 1
    BY <1>1, <2>1, <2>3
  <2> QED BY <1>1, <2>2, <2>3
<1>3. Keeps(us, vs)
  <2>1. ASSUME NEW t \in Persons, Stored(us, t) PROVE Stored(vs, t)
    BY <1>1, <2>1 DEF Stored
  <2>2. ASSUME NEW t \in Persons, NEW r \in Nat, Previewed(us, t, r) PROVE Previewed(vs, t, r)
    <3>1. \E i \in DOMAIN vs : vs[i].tid = t /\ vs[i].gen >= r
      BY <1>1, <2>2 DEF Previewed
    <3>2. ASSUME NEW i \in DOMAIN vs, vs[i].tid = t, vs[i].gen = r, ~vs[i].live
          PROVE  vs[i].role # "admin"
      <4>1. i \in DOMAIN us
        BY <1>1, <3>2
      <4> QED BY <1>1, <2>2, <3>2, <4>1 DEF Previewed
    <3> QED BY <3>1, <3>2 DEF Previewed
  <2> QED BY <2>1, <2>2 DEF Keeps
<1>4. Stored(vs, row.tid)
  BY <1>1 DEF Stored
<1> QED BY <1>1, <1>2, <1>3, <1>4 DEF vs

\* The last row of its person is changed: deleted or restored, which makes it
\* a later generation, or given a role while it is live.
LEMMA EditUser ==
  ASSUME NEW us \in Seq(UserRow), Ordered(us), NEW i \in DOMAIN us, NEW row \in UserRow,
         row.tid = us[i].tid, row.gen >= us[i].gen, row.gen > us[i].gen \/ row.live,
         \A k \in DOMAIN us : i < k => us[k].tid # us[i].tid
  PROVE  /\ [us EXCEPT ![i] = row] \in Seq(UserRow) /\ Ordered([us EXCEPT ![i] = row])
         /\ Keeps(us, [us EXCEPT ![i] = row])
<1> DEFINE vs == [us EXCEPT ![i] = row]
<1>1. /\ Len(us) \in Nat /\ DOMAIN us = 1..Len(us)
      /\ vs \in Seq(UserRow) /\ DOMAIN vs = DOMAIN us
      /\ \A k \in DOMAIN us : vs[k] = IF k = i THEN row ELSE us[k]
  <2>1. i \in 1..Len(us)
    OBVIOUS
  <2> QED BY <2>1, ExceptSeq
<1> HIDE DEF vs
<1>2. \A k \in DOMAIN us : us[k] \in UserRow /\ us[k].gen \in Nat /\ us[k].tid \in Persons
  <2> TAKE k \in DOMAIN us
  <2>1. us[k] \in UserRow
    OBVIOUS
  <2> QED BY <2>1 DEF UserRow
<1>3. row.gen \in Nat
  BY DEF UserRow
<1>4. Ordered(vs)
  <2> SUFFICES ASSUME NEW j \in DOMAIN vs, NEW k \in DOMAIN vs, j < k, vs[j].tid = vs[k].tid
               PROVE  vs[j].gen < vs[k].gen /\ ~vs[j].live
    BY DEF Ordered
  <2>1. us[j].tid = us[k].tid
    BY <1>1
  <2>2. j # i
    BY <1>1, <2>1
  <2>3. us[j].gen < us[k].gen /\ ~us[j].live
    BY <1>1, <2>1 DEF Ordered
  <2>4. vs[j] = us[j] /\ vs[k].gen >= us[k].gen
    BY <1>1, <1>2, <2>2
  <2>5. vs[k].gen \in Nat
    BY <1>1, <1>2, <1>3
  <2>6. us[j].gen < vs[k].gen
    BY <1>1, <1>2, <2>3, <2>4, <2>5
  <2> QED BY <2>3, <2>4, <2>6
<1>5. ASSUME NEW t \in Persons, Stored(us, t) PROVE Stored(vs, t)
  <2>1. PICK k \in DOMAIN us : us[k].tid = t
    BY <1>5 DEF Stored
  <2>2. vs[k].tid = t
    BY <1>1, <2>1
  <2> QED BY <1>1, <2>2 DEF Stored
<1>6. ASSUME NEW t \in Persons, NEW r \in Nat, Previewed(us, t, r) PROVE Previewed(vs, t, r)
  <2>1. PICK l \in DOMAIN us : us[l].tid = t /\ us[l].gen >= r
    BY <1>6 DEF Previewed
  <2>2. ASSUME NEW k \in DOMAIN vs, vs[k].tid = t, vs[k].gen = r, ~vs[k].live
        PROVE  vs[k].role # "admin"
    <3>1. CASE k # i
      BY <1>1, <1>6, <2>2, <3>1 DEF Previewed
    <3>2. CASE k = i
      <4>1. row.gen = r /\ row.gen > us[i].gen /\ us[i].tid = t
        BY <1>1, <2>2, <3>2
      <4>2. us[l].gen > us[i].gen
        BY <1>2, <1>3, <2>1, <4>1
      <4>3. ~(i < l)
        BY <2>1, <4>1
      <4>4. l # i
        BY <1>2, <4>2
      <4>5. l < i
        BY <1>1, <4>3, <4>4
      <4>6. us[l].gen < us[i].gen
        BY <2>1, <4>1, <4>5 DEF Ordered
      <4> QED BY <1>2, <4>2, <4>6
    <3> QED BY <3>1, <3>2
  <2>3. vs[l].tid = t
    BY <1>1, <2>1
  <2>4. vs[l].gen >= r
    <3>1. CASE l # i
      BY <1>1, <2>1, <3>1
    <3>2. CASE l = i
      <4>1. vs[l].gen = row.gen /\ us[l].gen <= row.gen
        BY <1>1, <1>2, <1>3, <3>2
      <4>2. CASE vs[l].gen = us[l].gen
        BY <2>1, <4>2
      <4>3. CASE vs[l].gen > us[l].gen
        BY <1>1, <1>2, <1>3, <2>1, <4>1, <4>3
      <4> QED BY <1>2, <1>3, <4>1, <4>2, <4>3
    <3> QED BY <3>1, <3>2
  <2> QED BY <1>1, <2>2, <2>3, <2>4 DEF Previewed
<1> QED BY <1>1, <1>4, <1>5, <1>6 DEF Keeps, vs

----------------------------------------------------------------------------
(***************************************************************************)
(* The operations on the table of users, and on who administers.           *)
(***************************************************************************)

LEMMA UserOf ==
  ASSUME UsersInv, NEW i \in DOMAIN users
  PROVE  /\ users[i] \in UserRow
         /\ users[i].tid \in Persons /\ users[i].role \in {"user", "admin"}
         /\ users[i].gen \in Nat \ {0} /\ users[i].live \in BOOLEAN /\ users[i].trusted \in BOOLEAN
<1>1. users[i] \in UserRow
  BY DEF UsersInv
<1> QED BY <1>1 DEF UserRow

\* A live row is the last of its person, so is the last row once none is live.
LEMMA LiveIsLast ==
  ASSUME UsersInv, NEW t, NEW i \in LiveUser(t), NEW k \in DOMAIN users, i < k
  PROVE  users[k].tid # users[i].tid
BY DEF UsersInv, Ordered, LiveUser

LEMMA DeadIsLast ==
  ASSUME UsersInv, NEW t \in Persons, LiveUser(t) = {}, NEW i \in DeadUser(t),
         i = Max(DeadUser(t) \cup {0})
  PROVE  \A k \in DOMAIN users : i < k => users[k].tid # users[i].tid
<1> SUFFICES ASSUME NEW k \in DOMAIN users, i < k, users[k].tid = users[i].tid PROVE FALSE
  OBVIOUS
<1>1. users \in Seq(UserRow) /\ DeadUser(t) \subseteq DOMAIN users
  BY DEF UsersInv, DeadUser
<1>2. i >= k
  <2>1. k \in DeadUser(t)
    BY DEF LiveUser, DeadUser
  <2>2. Max(DeadUser(t)) = i /\ Max(DeadUser(t)) >= k
    BY <1>1, <2>1, MaxRow
  <2> QED BY <2>2
<1>3. i \in Nat /\ k \in Nat
  BY <1>1
<1> QED BY <1>2, <1>3

\* What an update of the table does to the tables' invariant, to what
\* requests remember of it and to the roles.
UserStep == UsersInv' /\ Keeps(users, users')
RolesKept == \A t \in Persons : IsAdmin(t)' <=> IsAdmin(t)

LEMMA NewUser ==
  ASSUME NEW t \in Persons, NEW n \in Nat \ {0}
  PROVE  /\ User(t, "user", n) \in UserRow
         /\ User(t, "user", n).tid = t /\ User(t, "user", n).role = "user"
         /\ User(t, "user", n).gen = n /\ User(t, "user", n).live
BY DEF User, UserRow

\* A row that is added behind its person's deleted rows makes nobody an
\* administrator.
LEMMA AppendUser ==
  ASSUME UsersInv, NEW t \in Persons, NEW n \in Nat \ {0}, LiveUser(t) = {},
         \A i \in DeadUser(t) : users[i].gen < n,
         users' = Append(users, User(t, "user", n))
  PROVE  UserStep /\ RolesKept /\ Stored(users', t)
<1> DEFINE row == User(t, "user", n)
<1>1. users \in Seq(UserRow) /\ Ordered(users)
  BY DEF UsersInv
<1>2. row \in UserRow /\ row.tid = t /\ row.role = "user" /\ row.gen = n /\ row.live
  BY NewUser
<1> HIDE DEF row
<1>3. \A i \in DOMAIN users : users[i].tid = row.tid => users[i].gen < row.gen /\ ~users[i].live
  BY <1>2 DEF LiveUser, DeadUser
<1>4. users' = Append(users, row)
  BY DEF row
<1>5. UserStep /\ Stored(users', t)
  BY <1>1, <1>2, <1>3, <1>4, AddUser DEF UserStep, UsersInv
<1>6. RolesKept
  <2>1. /\ DOMAIN users = 1..Len(users) /\ DOMAIN users' = 1..(Len(users) + 1) /\ Len(users) \in Nat
        /\ \A i \in DOMAIN users : users'[i] = users[i]
        /\ users'[Len(users) + 1] = row
    BY <1>1, <1>2, <1>4
  <2> SUFFICES ASSUME NEW p \in Persons PROVE IsAdmin(p)' <=> IsAdmin(p)
    BY DEF RolesKept
  <2>2. \A i \in LiveUser(p) : i \in LiveUser(p)' /\ users'[i] = users[i]
    BY <2>1 DEF LiveUser
  <2>3. \A i \in LiveUser(p)' : users'[i].role = "admin" => i \in LiveUser(p) /\ users'[i] = users[i]
    <3> SUFFICES ASSUME NEW i \in LiveUser(p)', users'[i].role = "admin"
                 PROVE  i \in LiveUser(p) /\ users'[i] = users[i]
      OBVIOUS
    <3>1. i \in DOMAIN users' /\ users'[i].tid = p /\ users'[i].live
      BY DEF LiveUser
    <3>2. i # Len(users) + 1
      BY <1>2, <2>1
    <3>3. i \in DOMAIN users
      BY <2>1, <3>1, <3>2
    <3> QED BY <2>1, <3>1, <3>3 DEF LiveUser
  <2> QED BY <2>2, <2>3 DEF IsAdmin
<1> QED BY <1>5, <1>6

LEMMA IngestedInv ==
  ASSUME UsersInv, NEW t \in Persons, users' = Ingested(t)
  PROVE  UserStep /\ RolesKept /\ Stored(users', t)
<1>1. CASE LiveUser(t) # {} \/ DeadUser(t) # {}
  <2>1. users' = users
    BY <1>1 DEF Ingested
  <2>2. Stored(users, t)
    BY <1>1 DEF Stored, LiveUser, DeadUser
  <2> QED BY <2>1, <2>2 DEF UserStep, UsersInv, Keeps, RolesKept, IsAdmin, LiveUser
<1>2. CASE LiveUser(t) = {} /\ DeadUser(t) = {}
  <2>1. users' = Append(users, User(t, "user", 1))
    BY <1>2 DEF Ingested
  <2> QED BY <1>2, <2>1, AppendUser
<1> QED BY <1>1, <1>2

LEMMA IngestedTable ==
  ASSUME UsersInv, NEW t \in Persons
  PROVE  Ingested(t) \in Seq(UserRow) /\ Ordered(Ingested(t)) /\ Keeps(users, Ingested(t))
<1>1. users \in Seq(UserRow) /\ Ordered(users)
  BY DEF UsersInv
<1>2. CASE LiveUser(t) # {} \/ DeadUser(t) # {}
  BY <1>1, <1>2 DEF Ingested, Keeps
<1>3. CASE LiveUser(t) = {} /\ DeadUser(t) = {}
  <2> DEFINE row == User(t, "user", 1)
  <2>1. row \in UserRow /\ row.tid = t /\ row.live
    BY NewUser
  <2>2. Ingested(t) = Append(users, row)
    BY <1>3 DEF Ingested
  <2> HIDE DEF row
  <2>3. \A i \in DOMAIN users : users[i].tid = row.tid => users[i].gen < row.gen /\ ~users[i].live
    BY <1>3, <2>1 DEF LiveUser, DeadUser
  <2> QED BY <1>1, <2>1, <2>2, <2>3, AddUser
<1> QED BY <1>2, <1>3

LEMMA SetRoleUsers ==
  ASSUME UsersInv, NEW t \in Persons, NEW role \in {"user", "admin"}, SetRole(t, role)
  PROVE  UserStep
<1>0. PICK rows : rows = Ingested(t)
  OBVIOUS
<1>1. rows \in Seq(UserRow) /\ Ordered(rows) /\ Keeps(users, rows)
  BY <1>0, IngestedTable
<1>2. PICK i \in DOMAIN rows :
        rows[i].tid = t /\ rows[i].live /\ users' = [rows EXCEPT ![i].role = role]
  BY <1>0 DEF SetRole
<1>3. rows[i] \in UserRow
  BY <1>1
<1> DEFINE row == [rows[i] EXCEPT !.role = role]
<1>4. /\ row \in UserRow /\ row.tid = rows[i].tid /\ row.gen = rows[i].gen /\ row.live = rows[i].live
      /\ row.gen \in Nat
  BY <1>3 DEF UserRow
<1>5. users' = [rows EXCEPT ![i] = row]
  BY <1>2
<1> HIDE DEF row
<1>6. row.live /\ row.gen >= rows[i].gen
  BY <1>2, <1>4
<1>7. \A k \in DOMAIN rows : i < k => rows[k].tid # rows[i].tid
  BY <1>1, <1>2 DEF Ordered
<1>8. users' \in Seq(UserRow) /\ Ordered(users') /\ Keeps(rows, users')
  BY <1>1, <1>4, <1>5, <1>6, <1>7, EditUser
<1> QED BY <1>1, <1>8, KeepsTransitive DEF UserStep, UsersInv

\* A row that is the last of its person becomes its next generation.
LEMMA NextGeneration ==
  ASSUME UsersInv, NEW i \in DOMAIN users, NEW b \in BOOLEAN,
         \A k \in DOMAIN users : i < k => users[k].tid # users[i].tid,
         users' = [users EXCEPT ![i].live = b, ![i].gen = @ + 1]
  PROVE  UserStep
<1>1. users \in Seq(UserRow) /\ Ordered(users)
  BY DEF UsersInv
<1>2. users[i] \in UserRow /\ users[i].gen \in Nat \ {0}
  BY UserOf
<1> DEFINE row == [users[i] EXCEPT !.live = b, !.gen = users[i].gen + 1]
<1>3. row \in UserRow /\ row.tid = users[i].tid /\ row.gen = users[i].gen + 1
  BY <1>2 DEF UserRow
<1>4. users' = [users EXCEPT ![i] = row]
  OBVIOUS
<1> HIDE DEF row
<1>5. row.gen > users[i].gen /\ row.gen >= users[i].gen
  BY <1>2, <1>3
<1>6. row.tid = users[i].tid /\ row \in UserRow
  BY <1>3
<1>7. /\ [users EXCEPT ![i] = row] \in Seq(UserRow) /\ Ordered([users EXCEPT ![i] = row])
      /\ Keeps(users, [users EXCEPT ![i] = row])
  BY <1>1, <1>5, <1>6, EditUser
<1> QED BY <1>4, <1>7 DEF UserStep, UsersInv

LEMMA DeleteUserUsers ==
  ASSUME UsersInv, NEW t \in Persons, DeleteUser(t)
  PROVE  UserStep
<1>1. PICK i \in LiveUser(t) : users' = [users EXCEPT ![i].live = FALSE, ![i].gen = @ + 1]
  BY DEF DeleteUser
<1>2. i \in DOMAIN users
  BY DEF LiveUser
<1>3. \A k \in DOMAIN users : i < k => users[k].tid # users[i].tid
  BY <1>2, LiveIsLast
<1> QED BY <1>1, <1>2, <1>3, NextGeneration

LEMMA SetTrustUsers ==
  ASSUME UsersInv, NEW s \in Sessions, SetTrust(s),
         session[s].person \in Persons, session[s].value \in BOOLEAN
  PROVE  UserStep /\ RolesKept
<1>1. users \in Seq(UserRow) /\ Ordered(users) /\ DOMAIN users = 1..Len(users) /\ Len(users) \in Nat
  BY DEF UsersInv
<1>2. CASE users' = users
  BY <1>1, <1>2 DEF UserStep, UsersInv, Keeps, RolesKept, IsAdmin, LiveUser
<1>3. CASE users' = [i \in DOMAIN users |-> IF i \in LiveUser(session[s].person)
                       THEN [users[i] EXCEPT !.trusted = session[s].value] ELSE users[i]]
  <2> DEFINE e(i) == IF i \in LiveUser(session[s].person)
                     THEN [users[i] EXCEPT !.trusted = session[s].value] ELSE users[i]
  <2>1. \A i \in 1..Len(users) :
          /\ e(i) \in UserRow
          /\ e(i).tid = users[i].tid /\ e(i).gen = users[i].gen
          /\ e(i).live = users[i].live /\ e(i).role = users[i].role
    <3> TAKE i \in 1..Len(users)
    <3>1. users[i] \in UserRow
      BY <1>1
    <3> QED BY <3>1 DEF UserRow
  <2>2. users' = [i \in 1..Len(users) |-> e(i)]
    BY <1>1, <1>3
  <2> HIDE DEF e
  <2>3. users' \in Seq(UserRow)
    BY <1>1, <2>1, <2>2, IsASeq
  <2>4. DOMAIN users' = DOMAIN users /\ \A i \in DOMAIN users :
          /\ users'[i].tid = users[i].tid /\ users'[i].gen = users[i].gen
          /\ users'[i].live = users[i].live /\ users'[i].role = users[i].role
    BY <1>1, <2>1, <2>2
  <2>5. Ordered(users')
    BY <1>1, <2>4 DEF Ordered
  <2>6. Keeps(users, users')
    BY <2>4 DEF Keeps, Stored, Previewed
  <2>7. RolesKept
    BY <2>4 DEF RolesKept, IsAdmin, LiveUser
  <2> QED BY <2>3, <2>5, <2>6, <2>7 DEF UserStep, UsersInv
<1> QED BY <1>2, <1>3 DEF SetTrust

\* A request that is not the command line's restores a row that its preview
\* saw, whose role is not an administrator's.
LEMMA RestoreUserUsers ==
  ASSUME UsersInv, NEW s \in Sessions, RestoreUser(s), session[s].key \in Persons,
         session[s].actor # Cli => Previewed(users, session[s].key, session[s].revision)
  PROVE  UserStep /\ (session[s].actor # Cli => RolesKept)
<1> DEFINE t == session[s].key
           i == Max(DeadUser(t) \cup {0})
<1>1. CASE users' = users
  BY <1>1 DEF UserStep, UsersInv, Keeps, RolesKept, IsAdmin, LiveUser
<1>2. CASE users' # users
  <2>1. /\ i # 0 /\ users[i].gen = session[s].revision /\ LiveUser(t) = {}
        /\ users' = [users EXCEPT ![i].live = TRUE, ![i].gen = @ + 1]
    BY <1>2 DEF RestoreUser
  <2>2. users \in Seq(UserRow) /\ DeadUser(t) \subseteq DOMAIN users
    BY DEF UsersInv, DeadUser
  <2>3. i \in DeadUser(t)
    <3> HIDE DEF t
    <3>1. DeadUser(t) # {}
      BY <2>1, <2>2, MaxRow
    <3> QED BY <2>2, <3>1, MaxRow
  <2>4. i \in DOMAIN users /\ users[i].tid = t /\ ~users[i].live
    BY <2>3 DEF DeadUser
  <2>5. \A k \in DOMAIN users : i < k => users[k].tid # users[i].tid
    BY <2>1, <2>3, DeadIsLast
  <2>6. UserStep
    <3> HIDE DEF i
    <3> QED BY <2>1, <2>4, <2>5, NextGeneration
  <2>7. ASSUME session[s].actor # Cli PROVE RolesKept
    <3>1. users[i].role # "admin"
      BY <2>1, <2>4, <2>7 DEF Previewed
    <3> HIDE DEF i
    <3>2. users[i] \in UserRow
      BY <2>4, UserOf
    <3>3. /\ DOMAIN users' = DOMAIN users
          /\ \A k \in DOMAIN users : k # i => users'[k] = users[k]
          /\ users'[i].role = users[i].role
      BY <2>1, <2>2, <2>4, <3>2 DEF UserRow
    <3>4. ASSUME NEW p \in Persons, NEW k \in LiveUser(p), users[k].role = "admin"
          PROVE  k \in LiveUser(p)' /\ users'[k].role = "admin"
      BY <2>4, <3>3, <3>4 DEF LiveUser
    <3>5. ASSUME NEW p \in Persons, NEW k \in LiveUser(p)', users'[k].role = "admin"
          PROVE  k \in LiveUser(p) /\ users[k].role = "admin"
      BY <3>1, <3>3, <3>5 DEF LiveUser
    <3> QED BY <3>4, <3>5 DEF RolesKept, IsAdmin
  <2> QED BY <2>6, <2>7
<1> QED BY <1>1, <1>2

LEMMA FreshUserUsers ==
  ASSUME UsersInv, NEW s \in Sessions, FreshUser(s), session[s].key \in Persons
  PROVE  UserStep /\ RolesKept
<1> DEFINE t == session[s].key
           G == {users[i].gen : i \in DeadUser(t)} \cup {0}
<1>1. CASE users' = users
  BY <1>1 DEF UserStep, UsersInv, Keeps, RolesKept, IsAdmin, LiveUser
<1>2. CASE users' # users
  <2>1. LiveUser(t) = {} /\ users' = Append(users, User(t, "user", Max(G) + 1))
    BY <1>2 DEF FreshUser
  <2>2. users \in Seq(UserRow) /\ Ordered(users) /\ DeadUser(t) \subseteq DOMAIN users
    BY DEF UsersInv, DeadUser
  <2>3. G \subseteq Nat /\ G # {}
    <3>1. \A i \in DeadUser(t) : users[i].gen \in Nat
      BY <2>2, UserOf
    <3> QED BY <3>1
  <2>4. \E n \in Nat : \A x \in G : x <= n
    <3>1. CASE DeadUser(t) = {}
      BY <3>1
    <3>2. CASE DeadUser(t) # {}
      <4> DEFINE m == Max(DeadUser(t))
      <4>1. m \in DeadUser(t) /\ \A i \in DeadUser(t) : m >= i
        <5> HIDE DEF t
        <5> QED BY <2>2, <3>2, MaxRow
      <4> HIDE DEF m
      <4>2. users[m].gen \in Nat
        BY <2>2, <4>1, UserOf
      <4>3. ASSUME NEW i \in DeadUser(t) PROVE users[i].gen <= users[m].gen /\ users[i].gen \in Nat
        <5>1. users[i].gen \in Nat /\ i \in DOMAIN users /\ m \in DOMAIN users
          BY <2>2, <4>1, UserOf
        <5>2. users[i].tid = users[m].tid
          BY <4>1 DEF DeadUser
        <5>3. i = m \/ i < m
          BY <2>2, <4>1, <5>1
        <5>4. CASE i = m
          BY <4>2, <5>4
        <5>5. CASE i < m
          <6>1. users[i].gen < users[m].gen
            BY <2>2, <5>1, <5>2, <5>5 DEF Ordered
          <6> QED BY <4>2, <5>1, <6>1
        <5> QED BY <5>1, <5>3, <5>4, <5>5
      <4>4. \A x \in G : x <= users[m].gen
        BY <4>2, <4>3
      <4> QED BY <4>2, <4>4
    <3> QED BY <3>1, <3>2
  <2>5. Max(G) \in G /\ \A x \in G : Max(G) >= x
    <3> HIDE DEF G
    <3> QED BY <2>3, <2>4, MaxOf
  <2>6. Max(G) + 1 \in Nat \ {0} /\ \A i \in DeadUser(t) : users[i].gen < Max(G) + 1
    <3>1. Max(G) \in Nat
      BY <2>3, <2>5
    <3>2. ASSUME NEW i \in DeadUser(t) PROVE users[i].gen < Max(G) + 1
      <4>1. users[i].gen \in G
        OBVIOUS
      <4> HIDE DEF G
      <4>2. users[i].gen \in Nat /\ Max(G) >= users[i].gen
        BY <2>3, <2>5, <4>1
      <4> QED BY <3>1, <4>2
    <3> QED BY <3>1, <3>2
  <2>7. PICK n \in Nat \ {0} : n = Max(G) + 1
    BY <2>6
  <2> HIDE DEF G
  <2> QED BY <2>1, <2>6, <2>7, AppendUser
<1> QED BY <1>1, <1>2

----------------------------------------------------------------------------
(***************************************************************************)
(* The operations on the table of groups.                                  *)
(***************************************************************************)

\* Finitely many numbers have a bound.
LEMMA Bounded ==
  ASSUME NEW f, NEW n \in Nat, \A i \in 1..n : f[i] \in Nat
  PROVE  \E m \in Nat : \A i \in 1..n : f[i] <= m
<1> DEFINE P(k) == \E m \in Nat : \A i \in 1..k : f[i] <= m
           T == {k \in Nat : k <= n /\ ~P(k)}
           R == OpToRel(<, Nat)
<1> SUFFICES ASSUME ~P(n) PROVE FALSE
  OBVIOUS
<1>1. T \subseteq Nat /\ T # {}
  BY DEF T
<1>2. IsWellFoundedOn(R, Nat)
  BY NatLessThanWellFounded
<1>3. \E k \in T : \A y \in T : ~(<<y, k>> \in R)
  <2> HIDE DEF T, R
  <2> QED BY <1>1, <1>2, WFMin
<1>4. PICK k \in T : \A y \in T : ~(<<y, k>> \in R)
  BY <1>3
<1>5. k \in Nat /\ k <= n /\ ~P(k) /\ \A y \in T : ~(y < k)
  BY <1>4 DEF OpToRel
<1>6. k # 0
  <2>1. P(0)
    OBVIOUS
  <2> QED BY <1>5, <2>1
<1>7. P(k - 1)
  <2>1. k - 1 \in Nat /\ k - 1 < k /\ k - 1 <= n
    BY <1>5, <1>6
  <2>2. k - 1 \notin T
    <3> HIDE DEF T
    <3> QED BY <1>5, <2>1
  <2> HIDE DEF P
  <2> QED BY <2>1, <2>2
<1>8. PICK m \in Nat : \A i \in 1..(k - 1) : f[i] <= m
  BY <1>7
<1>9. f[k] \in Nat
  BY <1>5, <1>6
<1>10. \A i \in 1..k : i = k \/ i \in 1..(k - 1)
  BY <1>5, <1>6
<1>11. PICK b \in Nat : m <= b /\ f[k] <= b
  <2>1. CASE m <= f[k]
    BY <1>9, <2>1
  <2>2. CASE f[k] <= m
    BY <2>2
  <2> QED BY <1>9, <2>1, <2>2
<1>12. \A i \in 1..k : f[i] \in Nat /\ f[i] <= b
  <2> TAKE i \in 1..k
  <2>1. f[i] \in Nat
    BY <1>5
  <2>2. CASE i = k
    BY <1>11, <2>1, <2>2
  <2>3. CASE i \in 1..(k - 1)
    BY <1>8, <1>11, <2>1, <2>3
  <2> QED BY <1>10, <2>1, <2>2, <2>3
<1> QED BY <1>5, <1>12

LEMMA GroupOf ==
  ASSUME GroupsInv, NEW i \in DOMAIN groups
  PROVE  /\ groups[i] \in GroupRow
         /\ groups[i].chat \in Chats /\ groups[i].gen \in Nat \ {0} /\ groups[i].live \in BOOLEAN
<1>1. groups[i] \in GroupRow
  BY DEF GroupsInv
<1> QED BY <1>1 DEF GroupRow

LEMMA GroupsLen ==
  ASSUME GroupsInv
  PROVE  /\ Len(groups) \in Nat /\ DOMAIN groups = 1..Len(groups)
         /\ \A c \in Chats : route[c] \in Nat /\ (route[c] # 0 => route[c] \in DOMAIN groups)
<1>1. groups \in Seq(GroupRow) /\ Len(groups) \in Nat /\ DOMAIN groups = 1..Len(groups)
  BY DEF GroupsInv
<1>2. \A c \in Chats : route[c] \in 0..Len(groups)
  BY DEF GroupsInv
<1> QED BY <1>1, <1>2

\* The rows keep their chats; further ones may be added.
GroupStep ==
  /\ GroupsInv' /\ route' = route
  /\ DOMAIN groups \subseteq DOMAIN groups'
  /\ \A i \in DOMAIN groups : groups'[i].chat = groups[i].chat

LEMMA SameGroups == ASSUME GroupsInv, UNCHANGED <<groups, route>> PROVE GroupStep
BY DEF GroupStep, GroupsInv

LEMMA AppendGroup ==
  ASSUME GroupsInv, NEW c \in Chats, NEW n \in Nat \ {0}, groups' = Append(groups, Group(c, n)),
         route' = route
  PROVE  GroupStep /\ \E i \in DOMAIN groups' : groups'[i].chat = c
<1> DEFINE row == Group(c, n)
<1>1. row \in GroupRow /\ row.chat = c
  BY DEF Group, GroupRow
<1> HIDE DEF row
<1>2. groups \in Seq(GroupRow) /\ groups' = Append(groups, row)
  BY DEF GroupsInv, row
<1>3. /\ Len(groups) \in Nat /\ DOMAIN groups = 1..Len(groups)
      /\ groups' \in Seq(GroupRow) /\ DOMAIN groups' = 1..(Len(groups) + 1)
      /\ Len(groups') = Len(groups) + 1
      /\ \A i \in DOMAIN groups : groups'[i] = groups[i]
      /\ groups'[Len(groups) + 1] = row
  BY <1>1, <1>2
<1>4. GroupsInv'
  <2>1. \A c2 \in Chats : route[c2] \in 0..Len(groups')
    BY <1>3, GroupsLen
  <2>2. route \in [Chats -> 0..Len(groups')]
    BY <2>1 DEF GroupsInv
  <2> QED BY <1>3, <2>2 DEF GroupsInv
<1> QED BY <1>1, <1>3, <1>4 DEF GroupStep

LEMMA EditGroup ==
  ASSUME GroupsInv, NEW i \in DOMAIN groups, NEW b \in BOOLEAN, route' = route,
         groups' = [groups EXCEPT ![i].live = b, ![i].gen = @ + 1]
  PROVE  GroupStep
<1>1. groups \in Seq(GroupRow) /\ i \in 1..Len(groups)
  BY DEF GroupsInv
<1>2. groups[i] \in GroupRow /\ groups[i].gen \in Nat \ {0}
  BY GroupOf
<1>3. PICK row : row = [groups[i] EXCEPT !.live = b, !.gen = groups[i].gen + 1]
  OBVIOUS
<1>4. row \in GroupRow /\ row.chat = groups[i].chat
  BY <1>2, <1>3 DEF GroupRow
<1>5. groups' = [groups EXCEPT ![i] = row]
  BY <1>3
<1>6. /\ groups' \in Seq(GroupRow) /\ Len(groups') = Len(groups)
      /\ \A k \in 1..Len(groups) : groups'[k] = IF k = i THEN row ELSE groups[k]
  <2>1. /\ [groups EXCEPT ![i] = row] \in Seq(GroupRow)
        /\ Len([groups EXCEPT ![i] = row]) = Len(groups)
        /\ \A k \in 1..Len(groups) : [groups EXCEPT ![i] = row][k] = IF k = i THEN row ELSE groups[k]
    BY <1>1, <1>4, ExceptSeq
  <2> QED BY <1>5, <2>1
<1>7. DOMAIN groups = 1..Len(groups) /\ DOMAIN groups' = 1..Len(groups)
  BY <1>1, <1>6
<1>8. route' \in [Chats -> 0..Len(groups')]
  BY <1>6 DEF GroupsInv
<1> QED BY <1>4, <1>6, <1>7, <1>8 DEF GroupStep, GroupsInv

LEMMA RestoreGroupGroups ==
  ASSUME GroupsInv, NEW s \in Sessions, RestoreGroup(s), session[s].key \in Chats
  PROVE  GroupStep
<1> DEFINE c == session[s].key
           i == IF DeadGroup(c) # {} THEN Max(DeadGroup(c)) ELSE route[c]
<1>1. CASE groups' = groups
  BY <1>1, SameGroups DEF RestoreGroup
<1>2. CASE groups' # groups
  <2>1. i # 0 /\ groups' = [groups EXCEPT ![i].live = TRUE, ![i].gen = @ + 1] /\ route' = route
    BY <1>2 DEF RestoreGroup
  <2>2. i \in DOMAIN groups
    <3>1. CASE DeadGroup(c) # {}
      <4>1. groups \in Seq(GroupRow) /\ DeadGroup(c) \subseteq DOMAIN groups
        BY DEF GroupsInv, DeadGroup
      <4> HIDE DEF c
      <4>2. Max(DeadGroup(c)) \in DeadGroup(c)
        BY <3>1, <4>1, MaxRow
      <4> QED BY <3>1, <4>1, <4>2
    <3>2. CASE DeadGroup(c) = {}
      BY <2>1, <3>2, GroupsLen
    <3> QED BY <3>1, <3>2
  <2> HIDE DEF i
  <2> QED BY <2>1, <2>2, EditGroup
<1> QED BY <1>1, <1>2

LEMMA FreshGroupGroups ==
  ASSUME GroupsInv, NEW s \in Sessions, FreshGroup(s), session[s].key \in Chats
  PROVE  GroupStep
<1> DEFINE c == session[s].key
           rows == {i \in DOMAIN groups : groups[i].chat = c}
           G == {groups[i].gen : i \in rows} \cup {0}
<1>1. CASE groups' = groups
  BY <1>1, SameGroups DEF FreshGroup
<1>2. CASE groups' # groups
  <2>1. groups' = Append(groups, Group(c, Max(G) + 1)) /\ route' = route
    BY <1>2 DEF FreshGroup
  <2>2. PICK f : f = [i \in DOMAIN groups |-> groups[i].gen]
    OBVIOUS
  <2>3. Len(groups) \in Nat /\ \A i \in 1..Len(groups) : f[i] = groups[i].gen /\ f[i] \in Nat
    BY <2>2, GroupsLen, GroupOf
  <2>4. PICK m \in Nat : \A i \in 1..Len(groups) : f[i] <= m
    BY <2>3, Bounded
  <2>5. \A x \in G : x \in Nat /\ x <= m
    BY <2>3, <2>4, GroupsLen
  <2>6. Max(G) \in G
    <3>1. G # {}
      OBVIOUS
    <3> HIDE DEF G
    <3> QED BY <2>5, <3>1, MaxOf
  <2>7. Max(G) + 1 \in Nat \ {0}
    <3> HIDE DEF G
    <3> QED BY <2>5, <2>6
  <2>8. PICK n \in Nat \ {0} : n = Max(G) + 1
    BY <2>7
  <2> HIDE DEF G
  <2> QED BY <2>1, <2>8, AppendGroup
<1> QED BY <1>1, <1>2

----------------------------------------------------------------------------
(***************************************************************************)
(* Restrictions, names and sessions, as the tables change.                 *)
(***************************************************************************)

TablesKept ==
  /\ Keeps(users, users')
  /\ \A c \in Chats : Carried(groups, route, c) => Carried(groups', route', c)

Tables == UsersInv /\ GroupsInv /\ RestrictionsInv /\ HandlesInv

LEMMA SameUsers == ASSUME UsersInv, UNCHANGED users PROVE UserStep /\ RolesKept
BY DEF UserStep, UsersInv, Keeps, RolesKept, IsAdmin, LiveUser

LEMMA TargetIs ==
  ASSUME NEW b \in Targets
  PROVE  \/ b[1] = "user" /\ b[2] \in Persons /\ b = <<"user", b[2]>>
         \/ b[1] = "group" /\ b[2] \in Chats /\ b = <<"group", b[2]>>
BY DEF Targets

LEMMA KnownKept ==
  ASSUME UserStep, GroupStep, NEW b \in Targets, Known(b)
  PROVE  Known(b)'
<1>1. CASE b[1] = "user" /\ b[2] \in Persons
  <2>1. Stored(users, b[2])
    BY <1>1 DEF Known, Stored
  <2>2. Stored(users', b[2])
    BY <1>1, <2>1 DEF UserStep, Keeps
  <2> QED BY <1>1, <2>2 DEF Known, Stored
<1>2. CASE b[1] = "group"
  <2>1. PICK i \in DOMAIN groups : groups[i].chat = b[2]
    BY <1>2 DEF Known
  <2>2. i \in DOMAIN groups' /\ groups'[i].chat = b[2]
    BY <2>1 DEF GroupStep
  <2> QED BY <1>2, <2>2 DEF Known
<1> QED BY <1>1, <1>2, TargetIs

LEMMA CarriedKept ==
  ASSUME GroupStep, NEW c \in Chats, Carried(groups, route, c)
  PROVE  Carried(groups', route', c)
BY DEF GroupStep, Carried

LEMMA LeadsKept ==
  ASSUME TablesKept, NEW b, Leads(b, users, groups, route)
  PROVE  Leads(b, users', groups', route')
BY DEF TablesKept, Keeps, Leads

\* Rows change, restrictions are of known identities, names may be given up.
LEMMA StoreStep ==
  ASSUME Tables, UserStep, GroupStep, bans' \subseteq Targets,
         \A b \in bans' : b \in bans \/ Known(b),
         handles' \in [Names -> {Nobody} \cup Targets],
         \A n \in Names : handles'[n] = handles[n] \/ handles'[n] = Nobody
  PROVE  Tables' /\ TablesKept
<1>1. TablesKept
  BY CarriedKept DEF TablesKept, UserStep
<1>2. RestrictionsInv'
  <2>1. \A b \in bans' : b \in Targets /\ Known(b)
    BY DEF Tables, RestrictionsInv
  <2>2. \A b \in bans' : Known(b)'
    BY <2>1, KnownKept
  <2>3. (bans \subseteq Targets)'
    BY DEF Targets
  <2> QED BY <2>2, <2>3 DEF RestrictionsInv
<1>3. \A n \in Names : Leads(handles'[n], users', groups', route')
  <2> TAKE n \in Names
  <2>1. Leads(handles[n], users, groups, route)
    BY DEF Tables, HandlesInv
  <2>2. Leads(handles[n], users', groups', route')
    BY <1>1, <2>1, LeadsKept
  <2>3. Leads(Nobody, users', groups', route')
    BY DEF Leads
  <2> QED BY <2>2, <2>3
<1>4. \A n, m \in Names : handles'[n] # Nobody /\ handles'[m] = handles'[n] => m = n
  BY DEF Tables, HandlesInv
<1>5. HandlesInv'
  <2>1. (handles \in [Names -> {Nobody} \cup Targets])'
    BY DEF Targets
  <2> QED BY <1>3, <1>4, <2>1 DEF HandlesInv
<1> QED BY <1>1, <1>2, <1>5 DEF Tables, UserStep, GroupStep

LEMMA TablesSame ==
  ASSUME Tables, UNCHANGED <<users, groups, route, bans, handles>>
  PROVE  Tables' /\ TablesKept
<1>1. bans' \subseteq Targets /\ handles' \in [Names -> {Nobody} \cup Targets]
  BY DEF Tables, RestrictionsInv, HandlesInv
<1>2. UserStep /\ GroupStep
  BY SameUsers, SameGroups DEF Tables
<1> QED BY <1>1, <1>2, StoreStep

LEMMA MemoKept ==
  ASSUME TablesKept, NEW m, MemoOK(m, users, groups, route)
  PROVE  MemoOK(m, users', groups', route')
<1>0. m.pc \in Steps => m.person \in Persons /\ m.chat \in Chats
  BY DEF MemoOK, Update
<1>1. m.pc = "named" => Stored(users', m.person)
  BY <1>0 DEF TablesKept, Keeps, MemoOK, Steps
<1>2. m.pc = "titled" => Carried(groups', route', m.chat)
  BY <1>0 DEF TablesKept, MemoOK, Steps
<1>3. ASSUME m.pc = "restore" /\ m.kind = "user" /\ m.actor # Cli
      PROVE  Previewed(users', m.key, m.revision)
  <2>1. m.key \in Persons /\ m.revision \in Nat /\ Previewed(users, m.key, m.revision)
    BY <1>3 DEF MemoOK, Options, Steps
  <2> QED BY <2>1 DEF TablesKept, Keeps
<1> QED BY <1>1, <1>2, <1>3 DEF MemoOK

LEMMA SessionsKept ==
  ASSUME SessionInv, TablesKept, UNCHANGED session
  PROVE  SessionInv'
<1>1. \A s \in Sessions : MemoOK(session[s], users', groups', route')
  BY MemoKept DEF SessionInv
<1>2. session' = [s \in Sessions |-> session'[s]]
  BY DEF SessionInv
<1> QED BY <1>1, <1>2 DEF SessionInv

LEMMA SessionStep ==
  ASSUME SessionInv, TablesKept, NEW s \in Sessions, NEW m,
         MemoOK(m, users', groups', route'),
         session' = [session EXCEPT ![s] = m]
  PROVE  SessionInv'
<1>1. session = [x \in Sessions |-> session[x]]
  BY DEF SessionInv
<1>2. DOMAIN session = Sessions
  BY <1>1
<1>3. session' = [x \in Sessions |-> IF x = s THEN m ELSE session[x]]
  BY <1>1, <1>2
<1>4. \A x \in Sessions : MemoOK(session'[x], users', groups', route')
  BY <1>3, MemoKept DEF SessionInv
<1>5. session' = [x \in Sessions |-> session'[x]]
  BY <1>3
<1> QED BY <1>4, <1>5 DEF SessionInv

LEMMA IdleOK ==
  ASSUME NEW us, NEW gs, NEW rt
  PROVE  MemoOK(Idle, us, gs, rt)
BY DEF MemoOK, Idle, Options, Steps

LEMMA ChangedInv == ASSUME IInv, Changed PROVE changes' \in 0..MaxChanges
<1>1. MaxChanges \in Nat /\ changes \in 0..MaxChanges
  BY IdentityAssumption DEF IInv
<1> QED BY <1>1 DEF Changed

----------------------------------------------------------------------------
(***************************************************************************)
(* Telegram's updates.                                                     *)
(***************************************************************************)

LEMMA IInvParts ==
  ASSUME IInv, NEW s \in Sessions
  PROVE  /\ Tables /\ SessionInv /\ UsersInv /\ GroupsInv
         /\ MemoOK(session[s], users, groups, route)
         /\ changes \in 0..MaxChanges
BY DEF IInv, Tables, SessionInv

\* A step that changes neither restrictions nor names.
LEMMA RowsStep ==
  ASSUME IInv, UserStep, GroupStep, UNCHANGED <<bans, handles>>, changes' \in 0..MaxChanges,
         NEW s \in Sessions, NEW m, session' = [session EXCEPT ![s] = m],
         MemoOK(m, users', groups', route')
  PROVE  IInv'
<1>1. Tables /\ SessionInv
  BY DEF IInv, Tables
<1>2. bans' \subseteq Targets /\ handles' \in [Names -> {Nobody} \cup Targets]
  BY <1>1 DEF Tables, RestrictionsInv, HandlesInv
<1>3. Tables' /\ TablesKept
  BY <1>1, <1>2, StoreStep
<1>4. SessionInv'
  BY <1>1, <1>3, SessionStep
<1> QED BY <1>3, <1>4 DEF IInv, Tables

\* A step of a session that changes no table.
LEMMA MemoStep ==
  ASSUME IInv, UNCHANGED <<users, groups, route, bans, handles>>, changes' \in 0..MaxChanges,
         NEW s \in Sessions, NEW m, session' = [session EXCEPT ![s] = m],
         MemoOK(m, users, groups, route)
  PROVE  IInv'
<1>1. UserStep /\ GroupStep
  BY SameUsers, SameGroups DEF IInv
<1>2. MemoOK(m, users', groups', route')
  OBVIOUS
<1> QED BY <1>1, <1>2, RowsStep

LEMMA UpdateArrivesInv ==
  ASSUME IInv, NEW s \in Sessions, NEW t \in Persons, NEW c \in Chats,
         NEW name \in Names \cup {Nameless}, NEW named, UpdateArrives(s, t, c, name, named)
  PROVE  IInv'
<1>1. PICK m : m = [pc |-> "user", person |-> t, chat |-> c,
                    own |-> IF named = "user" THEN name ELSE Nameless,
                    shared |-> IF named = "group" THEN name ELSE Nameless]
  OBVIOUS
<1>2. m \in Update /\ m.pc = "user"
  BY <1>1 DEF Update, Steps
<1>3. MemoOK(m, users, groups, route)
  BY <1>2 DEF MemoOK, Options, Steps
<1>4. session' = [session EXCEPT ![s] = m]
  BY <1>1 DEF UpdateArrives
<1>5. UNCHANGED <<users, groups, route, bans, handles>> /\ changes' \in 0..MaxChanges
  BY ChangedInv DEF UpdateArrives
<1> QED BY <1>3, <1>4, <1>5, MemoStep

\* An update under way goes on.
LEMMA Onward ==
  ASSUME NEW m \in Update, NEW pc \in Steps, NEW us, NEW gs, NEW rt,
         pc = "named" => Stored(us, m.person),
         pc = "titled" => Carried(gs, rt, m.chat)
  PROVE  MemoOK([m EXCEPT !.pc = pc], us, gs, rt)
<1> DEFINE n == [m EXCEPT !.pc = pc]
<1>1. n \in Update /\ n.pc = pc /\ n.person = m.person /\ n.chat = m.chat
  BY DEF Update
<1> HIDE DEF n
<1>2. MemoOK(n, us, gs, rt)
  BY <1>1 DEF MemoOK, Options, Steps
<1> QED BY <1>2 DEF n

LEMMA UpdateOf ==
  ASSUME IInv, NEW s \in Sessions, session[s].pc \in Steps
  PROVE  /\ session[s] \in Update
         /\ session[s].person \in Persons /\ session[s].chat \in Chats
         /\ session[s].own \in Names \cup {Nameless} /\ session[s].shared \in Names \cup {Nameless}
<1>1. session[s] \in Update
  BY IInvParts DEF MemoOK
<1> QED BY <1>1 DEF Update

LEMMA ObserveUserInv ==
  ASSUME IInv, NEW s \in Sessions, ObserveUser(s)
  PROVE  IInv'
<1> DEFINE t == session[s].person
           m == IF LiveUser(t) = {} /\ DeadUser(t) # {} THEN Idle ELSE [session[s] EXCEPT !.pc = "named"]
<1>1. session[s] \in Update /\ t \in Persons
  BY UpdateOf DEF ObserveUser, Steps
<1>2. UserStep /\ Stored(users', t)
  <2> HIDE DEF t
  <2>1. users' = Ingested(t)
    BY DEF ObserveUser, t
  <2> QED BY <1>1, <2>1, IngestedInv, IInvParts
<1>3. GroupStep /\ changes' \in 0..MaxChanges /\ UNCHANGED <<bans, handles>>
  BY SameGroups, IInvParts DEF ObserveUser
<1>4. MemoOK(m, users', groups', route')
  <2>1. "named" \in Steps
    BY DEF Steps
  <2>2. MemoOK([session[s] EXCEPT !.pc = "named"], users', groups', route')
    BY <1>1, <1>2, <2>1, Onward
  <2> QED BY <2>2, IdleOK
<1>5. session' = [session EXCEPT ![s] = m]
  BY DEF ObserveUser
<1> HIDE DEF m
<1> QED BY <1>2, <1>3, <1>4, <1>5, RowsStep

\* A name is given to a target that is known, and taken from any other.
LEMMA SyncedInv ==
  ASSUME IInv, NEW target \in Targets, NEW name, Leads(target, users, groups, route),
         handles' = Synced(target, name), UNCHANGED <<users, groups, route, bans, changes>>,
         NEW s \in Sessions, NEW m, session' = [session EXCEPT ![s] = m],
         MemoOK(m, users, groups, route)
  PROVE  IInv'
<1>1. HandlesInv
  BY DEF IInv
<1>2. \A n \in Names :
        handles'[n] = IF n = name THEN target ELSE IF handles[n] = target THEN Nobody ELSE handles[n]
  BY DEF Synced
<1>3. handles' \in [Names -> {Nobody} \cup Targets]
  BY <1>1 DEF Synced, HandlesInv
<1>4. Leads(Nobody, users, groups, route)
  BY DEF Leads
<1>5. \A n \in Names : Leads(handles'[n], users', groups', route')
  BY <1>1, <1>2, <1>4 DEF HandlesInv
<1>6. \A n, k \in Names : handles'[n] # Nobody /\ handles'[k] = handles'[n] => k = n
  BY <1>1, <1>2 DEF HandlesInv
<1>7. HandlesInv'
  <2>1. (handles \in [Names -> {Nobody} \cup Targets])'
    BY <1>3 DEF Targets
  <2> QED BY <1>5, <1>6, <2>1 DEF HandlesInv
<1>8. UsersInv' /\ GroupsInv' /\ RestrictionsInv'
  BY DEF IInv, UsersInv, GroupsInv, RestrictionsInv, Known, Targets
<1>9. TablesKept
  BY DEF TablesKept, Keeps
<1>10. SessionInv'
  <2>1. MemoOK(m, users', groups', route')
    OBVIOUS
  <2> QED BY <1>9, <2>1, SessionStep DEF IInv
<1> QED BY <1>7, <1>8, <1>10 DEF IInv

LEMMA SyncUserInv ==
  ASSUME IInv, NEW s \in Sessions, SyncUser(s)
  PROVE  IInv'
<1>1. session[s] \in Update /\ session[s].person \in Persons
  BY UpdateOf DEF SyncUser, Steps
<1>2. Stored(users, session[s].person)
  BY IInvParts DEF SyncUser, MemoOK
<1>3. PICK target : target = <<"user", session[s].person>>
  OBVIOUS
<1>4. target \in Targets /\ Leads(target, users, groups, route)
  BY <1>1, <1>2, <1>3 DEF Targets, Leads
<1>5. MemoOK([session[s] EXCEPT !.pc = "group"], users, groups, route)
  <2>1. "group" \in Steps
    BY DEF Steps
  <2> QED BY <1>1, <2>1, Onward
<1>6. /\ handles' = Synced(target, session[s].own) /\ UNCHANGED <<users, groups, route, bans, changes>>
      /\ session' = [session EXCEPT ![s] = [session[s] EXCEPT !.pc = "group"]]
  BY <1>3 DEF SyncUser
<1> QED BY <1>4, <1>5, <1>6, SyncedInv

LEMMA SyncGroupInv ==
  ASSUME IInv, NEW s \in Sessions, SyncGroup(s)
  PROVE  IInv'
<1>1. session[s] \in Update /\ session[s].chat \in Chats
  BY UpdateOf DEF SyncGroup, Steps
<1>2. Carried(groups, route, session[s].chat)
  BY IInvParts DEF SyncGroup, MemoOK
<1>3. PICK target : target = <<"group", session[s].chat>>
  OBVIOUS
<1>4. target \in Targets /\ Leads(target, users, groups, route)
  BY <1>1, <1>2, <1>3 DEF Targets, Leads
<1>5. MemoOK([session[s] EXCEPT !.pc = "handler"], users, groups, route)
  <2>1. "handler" \in Steps
    BY DEF Steps
  <2> QED BY <1>1, <2>1, Onward
<1>6. /\ handles' = Synced(target, session[s].shared) /\ UNCHANGED <<users, groups, route, bans, changes>>
      /\ session' = [session EXCEPT ![s] = [session[s] EXCEPT !.pc = "handler"]]
  BY <1>3 DEF SyncGroup
<1> QED BY <1>4, <1>5, <1>6, SyncedInv

LEMMA ObserveGroupInv ==
  ASSUME IInv, NEW s \in Sessions, ObserveGroup(s)
  PROVE  IInv' /\ GroupStep
<1> DEFINE c == session[s].chat
           gone == DeadGroup(c) # {} \/ route[c] # 0
           moved == \E i \in LiveGroup(c) : groups[i].chat # c
           m == IF moved \/ (LiveGroup(c) = {} /\ gone) THEN Idle ELSE [session[s] EXCEPT !.pc = "titled"]
<1>1. session[s] \in Update /\ c \in Chats
  BY UpdateOf DEF ObserveGroup, Steps
<1>2. UserStep /\ changes' \in 0..MaxChanges /\ UNCHANGED <<bans, handles, route>>
  BY SameUsers, IInvParts DEF ObserveGroup
<1>3. session' = [session EXCEPT ![s] = m]
  BY DEF ObserveGroup
<1>4. CASE LiveGroup(c) = {} /\ ~gone
  <2>1. groups' = Append(groups, Group(c, 1))
    BY <1>4 DEF ObserveGroup
  <2>2. GroupStep /\ \E i \in DOMAIN groups' : groups'[i].chat = c
    <3> HIDE DEF c
    <3> QED BY <1>1, <1>2, <2>1, AppendGroup, IInvParts
  <2>3. Carried(groups', route', c)
    BY <2>2 DEF Carried
  <2>4. MemoOK(m, users', groups', route')
    <3>1. "titled" \in Steps
      BY DEF Steps
    <3>2. MemoOK([session[s] EXCEPT !.pc = "titled"], users', groups', route')
      BY <1>1, <2>3, <3>1, Onward
    <3> QED BY <3>2, IdleOK
  <2> HIDE DEF m
  <2>5. IInv'
    BY <1>2, <1>3, <2>2, <2>4, RowsStep
  <2> QED BY <2>2, <2>5
<1>5. CASE ~(LiveGroup(c) = {} /\ ~gone)
  <2>1. UNCHANGED groups /\ GroupStep
    BY <1>2, <1>5, SameGroups, IInvParts DEF ObserveGroup
  <2>2. MemoOK(m, users', groups', route')
    <3>1. CASE m = Idle
      BY <3>1, IdleOK
    <3>2. CASE ~moved /\ LiveGroup(c) # {}
      <4>1. Carried(groups', route', c)
        BY <2>1, <3>2 DEF Carried, LiveGroup
      <4>2. "titled" \in Steps
        BY DEF Steps
      <4>3. MemoOK([session[s] EXCEPT !.pc = "titled"], users', groups', route')
        BY <1>1, <4>1, <4>2, Onward
      <4> QED BY <3>2, <4>3
    <3> QED BY <1>5, <3>1, <3>2
  <2> HIDE DEF m
  <2>3. IInv'
    BY <1>2, <1>3, <2>1, <2>2, RowsStep
  <2> QED BY <2>1, <2>3
<1> QED BY <1>4, <1>5

LEMMA HandlerCreatesInv ==
  ASSUME IInv, NEW s \in Sessions, HandlerCreates(s)
  PROVE  IInv' /\ GroupStep
<1>1. session[s].chat \in Chats
  BY UpdateOf DEF HandlerCreates, Steps
<1>2. UserStep /\ changes' \in 0..MaxChanges /\ UNCHANGED <<bans, handles, route>>
  BY SameUsers, IInvParts DEF HandlerCreates
<1>3. GroupStep
  <2>1. CASE groups' = groups
    BY <1>2, <2>1, SameGroups, IInvParts
  <2>2. CASE groups' = Append(groups, Group(session[s].chat, 1))
    BY <1>1, <1>2, <2>2, AppendGroup, IInvParts
  <2> QED BY <2>1, <2>2 DEF HandlerCreates
<1>4. session' = [session EXCEPT ![s] = Idle]
  BY DEF HandlerCreates
<1>5. IInv'
  BY <1>2, <1>3, <1>4, IdleOK, RowsStep
<1> QED BY <1>3, <1>5

\* A migration takes restrictions and names along, and leaves a route behind.
LEMMA MigrateInv ==
  ASSUME IInv, NEW old \in Chats, NEW new \in Chats, Migrate(old, new)
  PROVE  IInv'
<1>1. PICK i \in LiveGroup(old) :
        /\ groups[i].chat = old /\ route[old] = 0 /\ ~Conflict(new)
        /\ groups' = [groups EXCEPT ![i].chat = new]
        /\ route' = [route EXCEPT ![old] = i]
  BY DEF Migrate
<1>2. /\ old # new /\ UNCHANGED <<users, session>> /\ changes' \in 0..MaxChanges
      /\ bans' = {IF b = <<"group", old>> THEN <<"group", new>> ELSE b : b \in bans}
      /\ handles' = [n \in Names |-> IF handles[n] = <<"group", old>> THEN <<"group", new>> ELSE handles[n]]
  BY ChangedInv DEF Migrate
<1>3. /\ groups \in Seq(GroupRow) /\ i \in 1..Len(groups) /\ DOMAIN groups = 1..Len(groups)
      /\ Len(groups) \in Nat /\ route \in [Chats -> 0..Len(groups)]
  BY DEF IInv, GroupsInv, LiveGroup
<1>4. PICK row : row = [groups[i] EXCEPT !.chat = new]
  OBVIOUS
<1>5. row \in GroupRow /\ row.chat = new
  <2>1. groups[i] \in GroupRow
    BY <1>3
  <2> QED BY <1>4, <2>1 DEF GroupRow
<1>6. /\ groups' \in Seq(GroupRow) /\ Len(groups') = Len(groups)
      /\ \A k \in 1..Len(groups) : groups'[k] = IF k = i THEN row ELSE groups[k]
  <2>1. /\ [groups EXCEPT ![i] = row] \in Seq(GroupRow)
        /\ Len([groups EXCEPT ![i] = row]) = Len(groups)
        /\ \A k \in 1..Len(groups) : [groups EXCEPT ![i] = row][k] = IF k = i THEN row ELSE groups[k]
    BY <1>3, <1>5, ExceptSeq
  <2>2. groups' = [groups EXCEPT ![i] = row]
    BY <1>1, <1>4
  <2> QED BY <2>1, <2>2
<1>7. DOMAIN groups' = 1..Len(groups)
  BY <1>6
<1>8. GroupsInv'
  <2>1. route' \in [Chats -> 0..Len(groups')]
    BY <1>1, <1>3, <1>6
  <2> QED BY <1>6, <2>1 DEF GroupsInv
<1>9. groups'[i].chat = new /\ \A k \in DOMAIN groups : groups[k].chat # old => groups'[k] = groups[k]
  BY <1>1, <1>3, <1>5, <1>6
<1>10. TablesKept
  <2>1. ASSUME NEW c \in Chats, Carried(groups, route, c) PROVE Carried(groups', route', c)
    <3>1. CASE c = old
      <4>1. route'[old] = i
        BY <1>1, <1>3
      <4> QED BY <1>3, <1>7, <3>1, <4>1 DEF Carried
    <3>2. CASE c # old
      <4>1. route'[c] = route[c]
        BY <1>1, <1>3, <3>2
      <4>2. CASE route[c] \in DOMAIN groups
        BY <1>3, <1>7, <4>1, <4>2 DEF Carried
      <4>3. CASE \E k \in DOMAIN groups : groups[k].chat = c
        <5>1. PICK k \in DOMAIN groups : groups[k].chat = c
          BY <4>3
        <5>2. groups'[k].chat = c /\ k \in DOMAIN groups'
          BY <1>3, <1>7, <1>9, <3>2, <5>1
        <5> QED BY <5>2 DEF Carried
      <4> QED BY <2>1, <4>2, <4>3 DEF Carried
    <3> QED BY <3>1, <3>2
  <2> QED BY <1>2, <2>1 DEF TablesKept, Keeps
<1>11. <<"group", new>> \in Targets /\ <<"group", new>> \in (Targets')
  BY DEF Targets
<1>12. RestrictionsInv'
  <2>1. ASSUME NEW b \in bans' PROVE b \in Targets /\ Known(b)'
    <3>1. CASE b = <<"group", new>>
      <4>1. \E k \in DOMAIN groups' : groups'[k].chat = b[2]
        BY <1>3, <1>7, <1>9, <3>1
      <4> QED BY <1>11, <3>1, <4>1 DEF Known
    <3>2. CASE b # <<"group", new>>
      <4>1. b \in bans /\ b # <<"group", old>>
        BY <1>2, <3>2
      <4>2. b \in Targets /\ Known(b)
        BY <4>1 DEF IInv, RestrictionsInv
      <4>3. CASE b[1] = "user"
        BY <1>2, <4>2, <4>3 DEF Known
      <4>4. CASE b[1] = "group" /\ b = <<"group", b[2]>>
        <5>1. PICK k \in DOMAIN groups : groups[k].chat = b[2]
          BY <4>2, <4>4 DEF Known
        <5>2. b[2] # old
          BY <4>1, <4>4
        <5>3. groups'[k].chat = b[2] /\ k \in DOMAIN groups'
          BY <1>3, <1>7, <1>9, <5>1, <5>2
        <5> QED BY <4>2, <4>4, <5>3 DEF Known
      <4> QED BY <4>2, <4>3, <4>4, TargetIs
    <3> QED BY <3>1, <3>2
  <2>2. Targets' = Targets
    BY DEF Targets
  <2> QED BY <2>1, <2>2 DEF RestrictionsInv
<1>13. HandlesInv'
  <2>1. HandlesInv
    BY DEF IInv
  <2>2. \A n \in Names : /\ handles[n] # <<"group", new>>
                         /\ handles'[n] = IF handles[n] = <<"group", old>> THEN <<"group", new>> ELSE handles[n]
    BY <1>1, <1>2 DEF Conflict
  <2>3. (handles \in [Names -> {Nobody} \cup Targets])'
    <3>1. handles' \in [Names -> {Nobody} \cup Targets]
      BY <1>2, <1>11, <2>1 DEF HandlesInv
    <3> QED BY <3>1 DEF Targets
  <2>4. Leads(<<"group", new>>, users', groups', route')
    <3>1. Carried(groups', route', new)
      BY <1>3, <1>7, <1>9 DEF Carried
    <3> QED BY <3>1 DEF Leads
  <2>5. \A n \in Names : Leads(handles[n], users', groups', route')
    BY <1>10, <2>1, LeadsKept DEF HandlesInv
  <2>6. \A n \in Names : Leads(handles'[n], users', groups', route')
    BY <2>2, <2>4, <2>5
  <2>7. <<"group", new>> # Nobody /\ <<"group", old>> # Nobody
    BY DEF Nobody
  <2>8. \A n, m \in Names : handles'[n] # Nobody /\ handles'[m] = handles'[n] => m = n
    <3> SUFFICES ASSUME NEW n \in Names, NEW m \in Names, handles'[n] # Nobody, handles'[m] = handles'[n]
                 PROVE  m = n
      OBVIOUS
    <3>1. handles[n] # Nobody /\ handles[m] = handles[n]
      BY <2>2, <2>7
    <3> QED BY <2>1, <3>1 DEF HandlesInv
  <2> QED BY <2>3, <2>6, <2>8 DEF HandlesInv
<1>14. UsersInv'
  BY <1>2 DEF IInv, UsersInv
<1>15. SessionInv'
  BY <1>2, <1>10, SessionsKept DEF IInv
<1> QED BY <1>2, <1>8, <1>12, <1>13, <1>14, <1>15 DEF IInv

----------------------------------------------------------------------------
(***************************************************************************)
(* Commands and administrators' requests.                                  *)
(***************************************************************************)

\* A command, or the transaction of a request: rows change, and names of
\* deleted rows may be given up.
LEMMA CommandStep ==
  ASSUME IInv, UserStep, GroupStep, UNCHANGED <<bans, session>>, changes' \in 0..MaxChanges,
         handles' \in [Names -> {Nobody} \cup Targets],
         \A n \in Names : handles'[n] = handles[n] \/ handles'[n] = Nobody
  PROVE  IInv'
<1>1. Tables /\ SessionInv
  BY DEF IInv, Tables
<1>2. bans' \subseteq Targets /\ \A b \in bans' : b \in bans
  BY <1>1 DEF Tables, RestrictionsInv
<1>3. Tables' /\ TablesKept
  BY <1>1, <1>2, StoreStep
<1>4. SessionInv'
  BY <1>1, <1>3, SessionsKept
<1> QED BY <1>3, <1>4 DEF IInv, Tables

LEMMA ReleasedInv ==
  ASSUME IInv, NEW kind, NEW row, handles' = Released(kind, row)
  PROVE  /\ handles' \in [Names -> {Nobody} \cup Targets]
         /\ \A n \in Names : handles'[n] = handles[n] \/ handles'[n] = Nobody
<1>1. handles \in [Names -> {Nobody} \cup Targets]
  BY DEF IInv, HandlesInv
<1>2. \A n \in Names : handles'[n] = handles[n] \/ handles'[n] = Nobody
  BY DEF Released
<1>3. handles' \in [Names -> {Nobody} \cup Targets]
  BY <1>1 DEF Released
<1> QED BY <1>2, <1>3

LEMMA SetRoleInv ==
  ASSUME IInv, NEW t \in Persons, NEW role \in {"user", "admin"}, SetRole(t, role)
  PROVE  IInv'
<1>1. UserStep
  BY SetRoleUsers DEF IInv
<1>2. UNCHANGED <<groups, route, bans, handles, session>> /\ changes' \in 0..MaxChanges
  BY ChangedInv DEF SetRole
<1>3. GroupStep
  BY <1>2, SameGroups DEF IInv
<1>4. handles' \in [Names -> {Nobody} \cup Targets]
  BY <1>2 DEF IInv, HandlesInv
<1> QED BY <1>1, <1>2, <1>3, <1>4, CommandStep

LEMMA DeleteUserInv ==
  ASSUME IInv, NEW t \in Persons, DeleteUser(t)
  PROVE  IInv'
<1>1. UserStep
  BY DeleteUserUsers DEF IInv
<1>2. UNCHANGED <<groups, route, bans, session>> /\ changes' \in 0..MaxChanges
  BY ChangedInv DEF DeleteUser
<1>3. GroupStep
  BY <1>2, SameGroups DEF IInv
<1>4. \E i : handles' = Released("user", i)
  BY DEF DeleteUser
<1>5. /\ handles' \in [Names -> {Nobody} \cup Targets]
      /\ \A n \in Names : handles'[n] = handles[n] \/ handles'[n] = Nobody
  BY <1>4, ReleasedInv
<1> QED BY <1>1, <1>2, <1>3, <1>5, CommandStep

LEMMA DeleteGroupInv ==
  ASSUME IInv, NEW c \in Chats, DeleteGroup(c)
  PROVE  IInv' /\ GroupStep
<1>1. PICK i \in LiveGroup(c) : /\ groups' = [groups EXCEPT ![i].live = FALSE, ![i].gen = @ + 1]
                                /\ handles' = Released("group", i)
  BY DEF DeleteGroup
<1>2. UNCHANGED <<users, route, bans, session>> /\ changes' \in 0..MaxChanges
  BY ChangedInv DEF DeleteGroup
<1>3. UserStep
  BY <1>2, SameUsers DEF IInv
<1>4. GroupStep
  <2>1. i \in DOMAIN groups
    BY DEF LiveGroup
  <2> QED BY <1>1, <1>2, <2>1, EditGroup DEF IInv
<1>5. /\ handles' \in [Names -> {Nobody} \cup Targets]
      /\ \A n \in Names : handles'[n] = handles[n] \/ handles'[n] = Nobody
  BY <1>1, ReleasedInv
<1>6. IInv'
  BY <1>2, <1>3, <1>4, <1>5, CommandStep
<1> QED BY <1>4, <1>6

LEMMA AdminTrustInv ==
  ASSUME IInv, NEW s \in Sessions, NEW a \in Actors, NEW ref \in Persons \cup Names,
         NEW value \in BOOLEAN, AdminTrust(s, a, ref, value)
  PROVE  IInv'
<1>1. PICK t \in Referred(ref) :
        session' = [session EXCEPT ![s] = [pc |-> "trust", actor |-> a, person |-> t, value |-> value]]
  BY DEF AdminTrust
<1>2. t \in Persons
  <2>1. CASE ref \in Names
    <3>1. handles[ref] \in {Nobody} \cup Targets
      BY <2>1 DEF IInv, HandlesInv
    <3>2. handles[ref][1] = "user" /\ t = handles[ref][2]
      BY <2>1 DEF Referred, Resolved
    <3>3. Nobody[1] # "user"
      BY DEF Nobody
    <3>4. handles[ref] \in Targets
      BY <3>1, <3>2, <3>3
    <3> QED BY <3>2, <3>4, TargetIs
  <2>2. CASE ref \notin Names
    BY <2>2 DEF Referred
  <2> QED BY <2>1, <2>2
<1>3. PICK m : m = [pc |-> "trust", actor |-> a, person |-> t, value |-> value]
  OBVIOUS
<1>4. MemoOK(m, users, groups, route)
  BY <1>2, <1>3 DEF MemoOK, Options, Steps
<1>5. UNCHANGED <<users, groups, route, bans, handles>> /\ changes' \in 0..MaxChanges
  BY ChangedInv DEF AdminTrust
<1> QED BY <1>1, <1>3, <1>4, <1>5, MemoStep

LEMMA SetTrustInv ==
  ASSUME IInv, NEW s \in Sessions, SetTrust(s)
  PROVE  IInv' /\ RolesKept
<1>1. session[s].person \in Persons /\ session[s].value \in BOOLEAN
  BY IInvParts DEF SetTrust, MemoOK
<1>2. UserStep /\ RolesKept
  BY <1>1, SetTrustUsers, IInvParts
<1>3. UNCHANGED <<groups, route, bans, handles>> /\ changes' \in 0..MaxChanges
  BY IInvParts DEF SetTrust
<1>4. GroupStep
  BY <1>3, SameGroups, IInvParts
<1>5. session' = [session EXCEPT ![s] = Idle]
  BY DEF SetTrust
<1> QED BY <1>2, <1>3, <1>4, <1>5, IdleOK, RowsStep

LEMMA AdminBanInv ==
  ASSUME IInv, NEW s \in Sessions, NEW a \in Actors, NEW target \in Targets,
         NEW active \in BOOLEAN, AdminBan(s, a, target, active)
  PROVE  IInv'
<1>1. PICK m : m = [pc |-> "ban", actor |-> a, target |-> target, active |-> active]
  OBVIOUS
<1>2. MemoOK(m, users, groups, route)
  BY <1>1 DEF MemoOK, Options, Steps
<1>3. session' = [session EXCEPT ![s] = m]
  BY <1>1 DEF AdminBan
<1>4. UNCHANGED <<users, groups, route, bans, handles>> /\ changes' \in 0..MaxChanges
  BY ChangedInv DEF AdminBan
<1> QED BY <1>2, <1>3, <1>4, MemoStep

LEMMA SetBanInv ==
  ASSUME IInv, NEW s \in Sessions, SetBan(s)
  PROVE  IInv'
<1> DEFINE r == session[s]
<1>1. r.target \in Targets
  BY IInvParts DEF SetBan, MemoOK
<1>2. UNCHANGED <<users, groups, route, handles>> /\ changes' \in 0..MaxChanges
  BY IInvParts DEF SetBan
<1>3. UserStep /\ GroupStep
  BY <1>2, SameUsers, SameGroups, IInvParts
<1>4. MayRestrict(r.actor, r.target) => Known(r.target)
  BY DEF MayRestrict, Known, LiveUser
<1>5. bans' \subseteq Targets /\ \A b \in bans' : b \in bans \/ Known(b)
  <2>1. bans \subseteq Targets
    BY DEF IInv, RestrictionsInv
  <2>2. \A b \in bans' : b \in bans \/ (MayRestrict(r.actor, r.target) /\ b = r.target)
    BY DEF SetBan
  <2> QED BY <1>1, <1>4, <2>1, <2>2
<1>6. handles' \in [Names -> {Nobody} \cup Targets]
  BY <1>2 DEF IInv, HandlesInv
<1>7. Tables' /\ TablesKept
  BY <1>2, <1>3, <1>5, <1>6, StoreStep, IInvParts
<1>8. SessionInv'
  <2>1. session' = [session EXCEPT ![s] = Idle]
    BY DEF SetBan
  <2> QED BY <1>7, <2>1, IdleOK, SessionStep, IInvParts
<1> QED BY <1>2, <1>7, <1>8 DEF IInv, Tables

LEMMA RecoverUserInv ==
  ASSUME IInv, NEW s \in Sessions, NEW a \in Actors, NEW t \in Persons, NEW option \in Options,
         RecoverUser(s, a, t, option)
  PROVE  IInv'
<1>1. PICK i \in LatestUser(t) :
        /\ option = "restore" /\ users[i].role = "admin" => a = Cli
        /\ session' = [session EXCEPT ![s] = [pc |-> option, actor |-> a, kind |-> "user",
                                              key |-> t, revision |-> users[i].gen]]
  BY DEF RecoverUser
<1>2. i \in DOMAIN users /\ users[i].tid = t /\ users[i].gen \in Nat
  <2>1. i \in DOMAIN users /\ users[i].tid = t
    BY DEF LatestUser, DeadUser
  <2> QED BY <2>1, UserOf DEF IInv
<1>3. PICK m : m = [pc |-> option, actor |-> a, kind |-> "user", key |-> t, revision |-> users[i].gen]
  OBVIOUS
<1>4. ASSUME option = "restore", a # Cli PROVE Previewed(users, t, users[i].gen)
  <2>1. users[i].role # "admin"
    BY <1>1, <1>4
  <2>2. ASSUME NEW k \in DOMAIN users, users[k].tid = t, users[k].gen = users[i].gen PROVE k = i
    <3>1. ~(i < k) /\ ~(k < i)
      BY <1>2, <2>2 DEF IInv, UsersInv, Ordered
    <3>2. i \in Nat /\ k \in Nat
      BY <1>2 DEF IInv, UsersInv
    <3> QED BY <3>1, <3>2
  <2>3. users[i].gen >= users[i].gen
    BY <1>2
  <2> QED BY <1>2, <2>1, <2>2, <2>3 DEF Previewed
<1>5. MemoOK(m, users, groups, route)
  <2>1. m.pc \in Options /\ m.pc \notin Steps /\ m.pc # "named" /\ m.pc # "titled" /\ m.pc # "trust" /\ m.pc # "ban"
    BY <1>3 DEF Options, Steps
  <2>2. m.kind = "user" /\ m.key = t /\ m.revision = users[i].gen /\ m.actor = a /\ m.pc = option
    BY <1>3
  <2> QED BY <1>2, <1>4, <2>1, <2>2 DEF MemoOK
<1>6. UNCHANGED <<users, groups, route, bans, handles>> /\ changes' \in 0..MaxChanges
  BY ChangedInv DEF RecoverUser
<1> QED BY <1>1, <1>3, <1>5, <1>6, MemoStep

LEMMA RecoverGroupInv ==
  ASSUME IInv, NEW s \in Sessions, NEW a \in Actors, NEW c \in Chats, NEW option \in Options,
         RecoverGroup(s, a, c, option)
  PROVE  IInv'
<1>1. PICK i \in LatestGroup(c) :
        session' = [session EXCEPT ![s] = [pc |-> option, actor |-> a, kind |-> "group",
                                           key |-> c, revision |-> groups[i].gen]]
  BY DEF RecoverGroup
<1>2. groups[i].gen \in Nat
  <2>1. i \in DOMAIN groups
    BY DEF LatestGroup, DeadGroup
  <2> QED BY <2>1, GroupOf DEF IInv
<1>3. PICK m : m = [pc |-> option, actor |-> a, kind |-> "group", key |-> c, revision |-> groups[i].gen]
  OBVIOUS
<1>4. MemoOK(m, users, groups, route)
  <2>1. m.pc \in Options /\ m.pc \notin Steps /\ m.pc # "named" /\ m.pc # "titled" /\ m.pc # "trust" /\ m.pc # "ban"
    BY <1>3 DEF Options, Steps
  <2>2. m.kind = "group" /\ m.key = c /\ m.revision = groups[i].gen
    BY <1>3
  <2> QED BY <1>2, <2>1, <2>2 DEF MemoOK
<1>5. UNCHANGED <<users, groups, route, bans, handles>> /\ changes' \in 0..MaxChanges
  BY ChangedInv DEF RecoverGroup
<1> QED BY <1>1, <1>3, <1>4, <1>5, MemoStep

LEMMA RestoreUserInv ==
  ASSUME IInv, NEW s \in Sessions, RestoreUser(s)
  PROVE  IInv' /\ (session[s].actor # Cli => RolesKept)
<1>1. session[s].key \in Persons
  BY IInvParts DEF RestoreUser, MemoOK, Options
<1>2. session[s].actor # Cli => Previewed(users, session[s].key, session[s].revision)
  BY IInvParts DEF RestoreUser, MemoOK
<1>3. UserStep /\ (session[s].actor # Cli => RolesKept)
  BY <1>1, <1>2, RestoreUserUsers, IInvParts
<1>4. UNCHANGED <<groups, route, bans, handles>> /\ changes' \in 0..MaxChanges
  BY IInvParts DEF RestoreUser
<1>5. GroupStep
  BY <1>4, SameGroups, IInvParts
<1>6. session' = [session EXCEPT ![s] = Idle]
  BY DEF RestoreUser
<1>7. IInv'
  BY <1>3, <1>4, <1>5, <1>6, IdleOK, RowsStep
<1> QED BY <1>3, <1>7

LEMMA FreshUserInv ==
  ASSUME IInv, NEW s \in Sessions, FreshUser(s)
  PROVE  IInv' /\ RolesKept
<1>1. session[s].key \in Persons
  BY IInvParts DEF FreshUser, MemoOK, Options
<1>2. UserStep /\ RolesKept
  BY <1>1, FreshUserUsers, IInvParts
<1>3. UNCHANGED <<groups, route, bans, handles>> /\ changes' \in 0..MaxChanges
  BY IInvParts DEF FreshUser
<1>4. GroupStep
  BY <1>3, SameGroups, IInvParts
<1>5. session' = [session EXCEPT ![s] = Idle]
  BY DEF FreshUser
<1> QED BY <1>2, <1>3, <1>4, <1>5, IdleOK, RowsStep

LEMMA RestoreGroupInv ==
  ASSUME IInv, NEW s \in Sessions, RestoreGroup(s)
  PROVE  IInv' /\ GroupStep
<1>1. session[s].key \in Chats
  BY IInvParts DEF RestoreGroup, MemoOK, Options
<1>2. GroupStep
  BY <1>1, RestoreGroupGroups, IInvParts
<1>3. UNCHANGED <<users, bans, handles>> /\ changes' \in 0..MaxChanges
  BY IInvParts DEF RestoreGroup
<1>4. UserStep
  BY <1>3, SameUsers, IInvParts
<1>5. session' = [session EXCEPT ![s] = Idle]
  BY DEF RestoreGroup
<1>6. IInv'
  BY <1>2, <1>3, <1>4, <1>5, IdleOK, RowsStep
<1> QED BY <1>2, <1>6

LEMMA FreshGroupInv ==
  ASSUME IInv, NEW s \in Sessions, FreshGroup(s)
  PROVE  IInv' /\ GroupStep
<1>1. session[s].key \in Chats
  BY IInvParts DEF FreshGroup, MemoOK, Options
<1>2. GroupStep
  BY <1>1, FreshGroupGroups, IInvParts
<1>3. UNCHANGED <<users, bans, handles>> /\ changes' \in 0..MaxChanges
  BY IInvParts DEF FreshGroup
<1>4. UserStep
  BY <1>3, SameUsers, IInvParts
<1>5. session' = [session EXCEPT ![s] = Idle]
  BY DEF FreshGroup
<1>6. IInv'
  BY <1>2, <1>3, <1>4, <1>5, IdleOK, RowsStep
<1> QED BY <1>2, <1>6

LEMMA SessionLostInv ==
  ASSUME IInv, NEW s \in Sessions, SessionLost(s)
  PROVE  IInv'
<1>1. UNCHANGED <<users, groups, route, bans, handles>> /\ changes' \in 0..MaxChanges
  BY IInvParts DEF SessionLost
<1>2. session' = [session EXCEPT ![s] = Idle]
  BY DEF SessionLost
<1> QED BY <1>1, <1>2, IdleOK, MemoStep

----------------------------------------------------------------------------
(***************************************************************************)
(* The invariant holds, and what a step does besides.                      *)
(***************************************************************************)

LEMMA InitInv == Init => IInv
<1> SUFFICES ASSUME Init PROVE IInv
  OBVIOUS
<1> DEFINE N == Cardinality(Owners)
<1>1. N \in Nat /\ IsFiniteSet(1..N) /\ Cardinality(1..N) = N
  <2>1. N \in Nat
    BY IdentityAssumption, FS_CardinalityType
  <2> HIDE DEF N
  <2>2. IsFiniteSet(1..N) /\ Cardinality(1..N) = IF 1 > N THEN 0 ELSE N - 1 + 1
    BY <2>1, FS_Interval
  <2> QED BY <2>1, <2>2
<1>2. PICK f \in [1..N -> Owners] :
        /\ Cardinality({f[i] : i \in DOMAIN f}) = N
        /\ users = [i \in DOMAIN f |-> User(f[i], "admin", 1)]
  BY DEF Init
<1> HIDE DEF N
<1>3. DOMAIN f = 1..N /\ \A i \in 1..N : f[i] \in Persons
  BY <1>2, IdentityAssumption
<1>4. \A i, k \in 1..N : f[i] = f[k] => i = k
  <2>1. PICK T : T = {f[i] : i \in 1..N}
    OBVIOUS
  <2>2. f \in Surjection(1..N, T)
    BY <1>2, <2>1 DEF Surjection
  <2>3. Cardinality(T) = Cardinality(1..N)
    BY <1>1, <1>2, <1>3, <2>1
  <2>4. f \in Injection(1..N, T)
    BY <1>1, <2>2, <2>3, FS_Surjection
  <2> QED BY <1>3, <2>4 DEF Injection, IsInjective
<1>5. \A i \in 1..N : User(f[i], "admin", 1) \in UserRow /\ User(f[i], "admin", 1).tid = f[i]
  BY <1>3 DEF User, UserRow
<1>6. users = [i \in 1..N |-> User(f[i], "admin", 1)]
  BY <1>2, <1>3
<1>7. users \in Seq(UserRow)
  BY <1>1, <1>5, <1>6, IsASeq
<1>8. Ordered(users)
  <2> SUFFICES ASSUME NEW i \in DOMAIN users, NEW k \in DOMAIN users, i < k,
                      users[i].tid = users[k].tid
               PROVE  FALSE
    BY DEF Ordered
  <2>1. i \in 1..N /\ k \in 1..N /\ f[i] = f[k]
    BY <1>5, <1>6
  <2>2. i = k
    BY <1>4, <2>1
  <2> QED BY <1>1, <2>1, <2>2
<1>9. groups \in Seq(GroupRow) /\ Len(groups) = 0
  <2>1. groups = << >>
    BY DEF Init
  <2> QED BY <2>1
<1>10. route \in [Chats -> 0..Len(groups)]
  BY <1>9 DEF Init
<1>11. RestrictionsInv
  BY DEF Init, RestrictionsInv
<1>12. HandlesInv
  BY DEF Init, HandlesInv, Leads
<1>13. SessionInv
  BY IdleOK DEF Init, SessionInv
<1>14. changes \in 0..MaxChanges
  BY IdentityAssumption DEF Init
<1> QED BY <1>7, <1>8, <1>9, <1>10, <1>11, <1>12, <1>13, <1>14 DEF IInv, UsersInv, GroupsInv

\* What every step keeps: the invariant; the roles, unless the command line
\* changes them; the chats of the groups and the restrictions, but for
\* migrations and transactions about restrictions.
Effect ==
  /\ IInv'
  /\ RolesKept \/ Commanded
  /\ \/ GroupStep /\ UNCHANGED bans
     \/ \E old, new \in Chats : Migrate(old, new)
     \/ \E s \in Sessions : SetBan(s)

LEMMA QuietStep ==
  ASSUME IInv, IInv', UNCHANGED <<users, groups, route, bans>> PROVE Effect
BY SameUsers, SameGroups DEF Effect, IInv

LEMMA UsersStep ==
  ASSUME IInv, IInv', UNCHANGED <<groups, route, bans>>, RolesKept \/ Commanded PROVE Effect
BY SameGroups DEF Effect, IInv

LEMMA GroupsStep ==
  ASSUME IInv, IInv', GroupStep, UNCHANGED <<users, bans>> PROVE Effect
BY SameUsers DEF Effect, IInv

LEMMA ObserveEffect == ASSUME IInv, NEW s \in Sessions, Observe(s) PROVE Effect
<1>1. CASE ObserveUser(s)
  <2>1. RolesKept
    <3>1. session[s].person \in Persons /\ users' = Ingested(session[s].person)
      BY <1>1, UpdateOf DEF ObserveUser, Steps
    <3> QED BY <3>1, IngestedInv, IInvParts
  <2> QED BY <1>1, <2>1, ObserveUserInv, UsersStep DEF ObserveUser
<1>2. CASE SyncUser(s)
  BY <1>2, SyncUserInv, QuietStep DEF SyncUser
<1>3. CASE ObserveGroup(s)
  BY <1>3, ObserveGroupInv, GroupsStep DEF ObserveGroup
<1>4. CASE SyncGroup(s)
  BY <1>4, SyncGroupInv, QuietStep DEF SyncGroup
<1>5. CASE HandlerCreates(s)
  BY <1>5, HandlerCreatesInv, GroupsStep DEF HandlerCreates
<1> QED BY <1>1, <1>2, <1>3, <1>4, <1>5 DEF Observe

\* A recovery that gives somebody a role back is the command line's.
LEMMA RecoverEffect == ASSUME IInv, NEW s \in Sessions, Recover(s) PROVE Effect
<1>1. CASE RestoreUser(s)
  <2>1. IInv' /\ UNCHANGED <<groups, route, bans>>
    BY <1>1, RestoreUserInv DEF RestoreUser
  <2>2. RolesKept \/ Commanded
    BY <1>1, RestoreUserInv DEF Commanded
  <2> QED BY <2>1, <2>2, UsersStep
<1>2. CASE FreshUser(s)
  BY <1>2, FreshUserInv, UsersStep DEF FreshUser
<1>3. CASE RestoreGroup(s)
  BY <1>3, RestoreGroupInv, GroupsStep DEF RestoreGroup
<1>4. CASE FreshGroup(s)
  BY <1>4, FreshGroupInv, GroupsStep DEF FreshGroup
<1> QED BY <1>1, <1>2, <1>3, <1>4 DEF Recover

LEMMA NextEffect == ASSUME IInv, Next PROVE Effect
<1>1. ASSUME NEW s \in Sessions, NEW t \in Persons, NEW c \in Chats, NEW n \in Names \cup {Nameless},
             NEW k \in {"user", "group"}, UpdateArrives(s, t, c, n, k)
      PROVE  Effect
  <2>1. IInv'
    BY <1>1, UpdateArrivesInv
  <2>2. UNCHANGED <<users, groups, route, bans>>
    BY <1>1 DEF UpdateArrives
  <2> QED BY <2>1, <2>2, QuietStep
<1>2. ASSUME NEW s \in Sessions, Observe(s) PROVE Effect
  BY <1>2, ObserveEffect
<1>3. ASSUME NEW s \in Sessions, SetTrust(s) PROVE Effect
  BY <1>3, SetTrustInv, UsersStep DEF SetTrust
<1>4. ASSUME NEW s \in Sessions, SetBan(s) PROVE Effect
  <2>1. UNCHANGED users
    BY <1>4 DEF SetBan
  <2>2. RolesKept
    BY <2>1, SameUsers DEF IInv
  <2> QED BY <1>4, <2>2, SetBanInv DEF Effect
<1>5. ASSUME NEW s \in Sessions, Recover(s) PROVE Effect
  BY <1>5, RecoverEffect
<1>6. ASSUME NEW s \in Sessions, SessionLost(s) PROVE Effect
  <2>1. IInv'
    BY <1>6, SessionLostInv
  <2>2. UNCHANGED <<users, groups, route, bans>>
    BY <1>6 DEF SessionLost
  <2> QED BY <2>1, <2>2, QuietStep
<1>7. ASSUME NEW s \in Sessions, NEW a \in Actors, NEW t \in Persons \cup Names, NEW v \in BOOLEAN,
             AdminTrust(s, a, t, v)
      PROVE  Effect
  <2>1. IInv'
    BY <1>7, AdminTrustInv
  <2>2. UNCHANGED <<users, groups, route, bans>>
    BY <1>7 DEF AdminTrust
  <2> QED BY <2>1, <2>2, QuietStep
<1>8. ASSUME NEW s \in Sessions, NEW a \in Actors, NEW x \in Targets, NEW v \in BOOLEAN,
             AdminBan(s, a, x, v)
      PROVE  Effect
  <2>1. IInv'
    BY <1>8, AdminBanInv
  <2>2. UNCHANGED <<users, groups, route, bans>>
    BY <1>8 DEF AdminBan
  <2> QED BY <2>1, <2>2, QuietStep
<1>9. ASSUME NEW s \in Sessions, NEW a \in Actors, NEW t \in Persons, NEW o \in Options,
             RecoverUser(s, a, t, o)
      PROVE  Effect
  <2>1. IInv'
    BY <1>9, RecoverUserInv
  <2>2. UNCHANGED <<users, groups, route, bans>>
    BY <1>9 DEF RecoverUser
  <2> QED BY <2>1, <2>2, QuietStep
<1>10. ASSUME NEW s \in Sessions, NEW a \in Actors, NEW c \in Chats, NEW o \in Options,
              RecoverGroup(s, a, c, o)
       PROVE  Effect
  <2>1. IInv'
    BY <1>10, RecoverGroupInv
  <2>2. UNCHANGED <<users, groups, route, bans>>
    BY <1>10 DEF RecoverGroup
  <2> QED BY <2>1, <2>2, QuietStep
<1>11. ASSUME NEW old \in Chats, NEW new \in Chats, Migrate(old, new) PROVE Effect
  <2>1. UNCHANGED users
    BY <1>11 DEF Migrate
  <2>2. RolesKept
    BY <2>1, SameUsers DEF IInv
  <2> QED BY <1>11, <2>2, MigrateInv DEF Effect
<1>12. ASSUME NEW t \in Persons, DeleteUser(t) PROVE Effect
  <2>1. Commanded
    BY <1>12 DEF Commanded
  <2> QED BY <1>12, <2>1, DeleteUserInv, UsersStep DEF DeleteUser
<1>13. ASSUME NEW t \in Persons, NEW r \in {"user", "admin"}, SetRole(t, r) PROVE Effect
  <2>1. Commanded
    BY <1>13 DEF Commanded
  <2> QED BY <1>13, <2>1, SetRoleInv, UsersStep DEF SetRole
<1>14. ASSUME NEW c \in Chats, DeleteGroup(c) PROVE Effect
  BY <1>14, DeleteGroupInv, GroupsStep DEF DeleteGroup
<1> QED BY <1>1, <1>2, <1>3, <1>4, <1>5, <1>6, <1>7, <1>8, <1>9, <1>10, <1>11, <1>12, <1>13, <1>14
     DEF Next

LEMMA StutterInv == ASSUME IInv, UNCHANGED vars PROVE IInv'
<1>1. Tables /\ UNCHANGED <<users, groups, route, bans, handles>> /\ UNCHANGED <<session, changes>>
  BY DEF IInv, Tables, vars
<1>2. Tables' /\ TablesKept
  BY <1>1, TablesSame
<1>3. SessionInv'
  BY <1>1, <1>2, SessionsKept DEF IInv
<1> QED BY <1>1, <1>2, <1>3 DEF IInv, Tables

\* Rows, routes, restrictions, names and what requests remember agree, after
\* any steps.
THEOREM Invariance == Spec => []IInv
<1>1. IInv /\ [Next]_vars => IInv'
  BY NextEffect, StutterInv DEF Effect
<1> QED BY <1>1, InitInv, PTL DEF Spec

\* Deletion, recovery and migration leave one live row for each Telegram
\* identity, newer than its tombstones, and nothing that belongs to it behind
\* (SQLAlchemyRecoveryStore, SQLAlchemyGroupMigrationStore).
THEOREM Identities == Spec => []IdentitiesSound
<1>1. ASSUME IInv PROVE IdentitiesSound
  <2>1. GenerationsOrdered
    BY <1>1 DEF IInv, UsersInv, Ordered, GenerationsOrdered
  <2>2. NothingStranded
    <3>1. \A b \in bans : Known(b)
      BY <1>1 DEF IInv, RestrictionsInv
    <3>2. ASSUME NEW n \in Names, handles[n] # Nobody
          PROVE  /\ Known(handles[n]) \/ route[handles[n][2]] \in DOMAIN groups
                 /\ \A m \in Names \ {n} : handles[m] # handles[n]
      <4>1. Leads(handles[n], users, groups, route)
        BY <1>1 DEF IInv, HandlesInv
      <4>2. Known(handles[n]) \/ route[handles[n][2]] \in DOMAIN groups
        BY <3>2, <4>1 DEF Leads, Known, Stored, Carried
      <4>3. \A m \in Names : handles[m] = handles[n] => m = n
        BY <1>1, <3>2 DEF IInv, HandlesInv
      <4> QED BY <4>2, <4>3
    <3> QED BY <3>1, <3>2 DEF NothingStranded
  <2>3. TypeOK
    <3>1. \A s \in Sessions :
            session[s].pc \in {"idle", "user", "named", "group", "titled", "handler", "trust", "ban"} \cup Options
      BY <1>1 DEF IInv, SessionInv, MemoOK, Steps
    <3> QED BY <1>1, <3>1 DEF IInv, UsersInv, GroupsInv, RestrictionsInv, HandlesInv, Targets,
              UserRow, GroupRow, TypeOK
  <2> QED BY <2>1, <2>2, <2>3 DEF IdentitiesSound
<1> QED BY <1>1, Invariance, PTL

----------------------------------------------------------------------------
(***************************************************************************)
(* What the steps may never do.                                            *)
(***************************************************************************)

LEMMA RolesCommanded ==
  ASSUME IInv, [Next]_vars, NEW t \in Persons, IsAdmin(t) # IsAdmin(t)'
  PROVE  Commanded
<1>1. ~(IsAdmin(t)' <=> IsAdmin(t))
  BY DEF IsAdmin
<1>2. ~RolesKept
  BY <1>1 DEF RolesKept
<1>3. CASE Next
  BY <1>2, <1>3, NextEffect DEF Effect
<1>4. CASE UNCHANGED vars
  <2>1. UsersInv /\ UNCHANGED users
    BY <1>4 DEF IInv, vars
  <2> QED BY <1>2, <2>1, SameUsers
<1> QED BY <1>3, <1>4

LEMMA RestrictionStays ==
  ASSUME IInv, [Next]_vars, NEW i \in DOMAIN groups, Restricted(i), groups'[i].live
  PROVE  Restricted(i)' \/ \E s \in Sessions : SetBan(s)
<1>1. ASSUME GroupStep, UNCHANGED bans PROVE Restricted(i)'
  BY <1>1 DEF GroupStep, Restricted
<1>2. ASSUME NEW old \in Chats, NEW new \in Chats, Migrate(old, new) PROVE Restricted(i)'
  <2>1. PICK k \in LiveGroup(old) :
          /\ LiveGroup(old) = {k} /\ groups[k].chat = old
          /\ groups' = [groups EXCEPT ![k].chat = new]
    BY <1>2 DEF Migrate
  <2>2. bans' = {IF b = <<"group", old>> THEN <<"group", new>> ELSE b : b \in bans}
    BY <1>2 DEF Migrate
  <2>3. groups[i].live /\ <<"group", groups[i].chat>> \in bans
    BY DEF Restricted
  <2>4. k \in DOMAIN groups /\ groups[k] \in GroupRow
    BY GroupOf DEF IInv, LiveGroup
  <2>5. CASE i = k
    <3>1. groups'[i].chat = new
      BY <2>1, <2>4, <2>5 DEF GroupRow
    <3>2. <<"group", new>> \in bans'
      BY <2>1, <2>2, <2>3, <2>5
    <3> QED BY <3>1, <3>2 DEF Restricted
  <2>6. CASE i # k
    <3>1. groups'[i] = groups[i]
      BY <2>1, <2>6
    <3>2. groups[i].chat # old
      BY <2>1, <2>3, <2>6 DEF LiveGroup
    <3>3. <<"group", groups[i].chat>> \in bans'
      BY <2>2, <2>3, <3>2
    <3> QED BY <3>1, <3>3 DEF Restricted
  <2> QED BY <2>5, <2>6
<1>3. CASE Next
  BY <1>1, <1>2, <1>3, NextEffect DEF Effect
<1>4. CASE UNCHANGED vars
  BY <1>4 DEF Restricted, vars
<1> QED BY <1>3, <1>4

\* Authority over the bot changes by the command line alone, and a group's
\* restriction goes with the group until it is revoked
\* (RecoveryPreviewService.execute_user, SQLAlchemyGroupMigrationStore).
THEOREM Authority == Spec => AuthorityKept
<1>1. IInv /\ [Next]_vars =>
        [(\E t \in Persons : IsAdmin(t) # IsAdmin(t)') => Commanded]_vars
  BY RolesCommanded
<1>2. IInv /\ [Next]_vars =>
        [\A i \in DOMAIN groups :
           Restricted(i) /\ groups'[i].live => Restricted(i)' \/ \E s \in Sessions : SetBan(s)]_vars
  BY RestrictionStays
<1> QED BY <1>1, <1>2, Invariance, PTL DEF Spec, AuthorityKept, AuthorityProtected, BanFollows

\* A request's transaction is the only step that ends it and changes trust
\* or restrictions.
LEMMA SettledBy ==
  ASSUME IInv, Next, NEW s \in Sessions, Settled(s), users' # users \/ bans' # bans
  PROVE  SetTrust(s) \/ SetBan(s)
<1>1. session = [x \in Sessions |-> session[x]]
  BY DEF IInv, SessionInv
<1>2. ASSUME NEW x \in Sessions, NEW m, session' = [session EXCEPT ![x] = m] PROVE x = s
  BY <1>1, <1>2 DEF Settled
<1>3. session' # session
  BY DEF Settled
<1>4. session[s].pc \in {"trust", "ban"}
  BY DEF Settled
<1>5. ASSUME NEW x \in Sessions, NEW t \in Persons, NEW c \in Chats, NEW n \in Names \cup {Nameless},
             NEW k \in {"user", "group"}, UpdateArrives(x, t, c, n, k)
      PROVE  FALSE
  BY <1>5 DEF UpdateArrives
<1>6. ASSUME NEW x \in Sessions, Observe(x) PROVE FALSE
  <2>1. \E m : session' = [session EXCEPT ![x] = m]
    <3>1. CASE ObserveUser(x)
      BY <3>1 DEF ObserveUser
    <3>2. CASE SyncUser(x)
      BY <3>2 DEF SyncUser
    <3>3. CASE ObserveGroup(x)
      BY <3>3 DEF ObserveGroup
    <3>4. CASE SyncGroup(x)
      BY <3>4 DEF SyncGroup
    <3>5. CASE HandlerCreates(x)
      BY <3>5 DEF HandlerCreates
    <3> QED BY <1>6, <3>1, <3>2, <3>3, <3>4, <3>5 DEF Observe
  <2>2. x = s
    BY <1>2, <2>1
  <2>3. session[x].pc \in Steps
    BY <1>6 DEF Observe, ObserveUser, SyncUser, ObserveGroup, SyncGroup, HandlerCreates, Steps
  <2> QED BY <1>4, <2>2, <2>3 DEF Steps
<1>7. ASSUME NEW x \in Sessions, SetTrust(x) PROVE SetTrust(s)
  BY <1>2, <1>7 DEF SetTrust
<1>8. ASSUME NEW x \in Sessions, SetBan(x) PROVE SetBan(s)
  <2>1. x = s
    BY <1>2, <1>8 DEF SetBan
  <2> QED BY <1>8, <2>1
<1>9. ASSUME NEW x \in Sessions, Recover(x) PROVE FALSE
  <2>1. session' = [session EXCEPT ![x] = Idle] /\ session[x].pc \in Options
    BY <1>9 DEF Recover, RestoreUser, FreshUser, RestoreGroup, FreshGroup, Options
  <2>2. x = s
    BY <1>2, <2>1
  <2> QED BY <1>4, <2>1, <2>2 DEF Options
<1>10. ASSUME NEW x \in Sessions, SessionLost(x) PROVE FALSE
  BY <1>10 DEF SessionLost
<1>11. ASSUME NEW x \in Sessions, NEW a \in Actors, NEW t \in Persons \cup Names, NEW v \in BOOLEAN,
              AdminTrust(x, a, t, v)
       PROVE  FALSE
  BY <1>11 DEF AdminTrust
<1>12. ASSUME NEW x \in Sessions, NEW a \in Actors, NEW y \in Targets, NEW v \in BOOLEAN,
              AdminBan(x, a, y, v)
       PROVE  FALSE
  BY <1>12 DEF AdminBan
<1>13. ASSUME NEW x \in Sessions, NEW a \in Actors, NEW t \in Persons, NEW o \in Options,
              RecoverUser(x, a, t, o)
       PROVE  FALSE
  BY <1>13 DEF RecoverUser
<1>14. ASSUME NEW x \in Sessions, NEW a \in Actors, NEW c \in Chats, NEW o \in Options,
              RecoverGroup(x, a, c, o)
       PROVE  FALSE
  BY <1>14 DEF RecoverGroup
<1>15. ASSUME NEW old \in Chats, NEW new \in Chats, Migrate(old, new) PROVE FALSE
  BY <1>3, <1>15 DEF Migrate
<1>16. ASSUME NEW t \in Persons, DeleteUser(t) PROVE FALSE
  BY <1>3, <1>16 DEF DeleteUser
<1>17. ASSUME NEW t \in Persons, NEW r \in {"user", "admin"}, SetRole(t, r) PROVE FALSE
  BY <1>3, <1>17 DEF SetRole
<1>18. ASSUME NEW c \in Chats, DeleteGroup(c) PROVE FALSE
  BY <1>3, <1>18 DEF DeleteGroup
<1> QED BY <1>5, <1>6, <1>7, <1>8, <1>9, <1>10, <1>11, <1>12, <1>13, <1>14, <1>15, <1>16, <1>17, <1>18
     DEF Next

Judged(s) ==
  Settled(s) /\ (users' # users \/ bans' # bans) /\ session[s].actor # Cli =>
    /\ IsAdmin(session[s].actor) /\ ~Banned(session[s].actor)
    /\ \A t \in Persons : <<"user", t>> \in (bans \ bans') \cup (bans' \ bans) => ~IsAdmin(t)

LEMMA JudgedStep ==
  ASSUME IInv, Next, NEW s \in Sessions
  PROVE  Judged(s)
<1> SUFFICES ASSUME Settled(s), users' # users \/ bans' # bans, session[s].actor # Cli
             PROVE  /\ IsAdmin(session[s].actor) /\ ~Banned(session[s].actor)
                    /\ \A t \in Persons : <<"user", t>> \in (bans \ bans') \cup (bans' \ bans) => ~IsAdmin(t)
  BY DEF Judged
<1>1. CASE SetTrust(s)
  <2>1. bans' = bans /\ users' # users
    BY <1>1 DEF SetTrust
  <2>2. Administrator(session[s].actor)
    BY <1>1, <2>1 DEF SetTrust
  <2> QED BY <2>1, <2>2 DEF Administrator
<1>2. CASE SetBan(s)
  <2> DEFINE r == session[s]
  <2>1. bans' # bans
    BY <1>2 DEF SetBan
  <2>2. /\ MayRestrict(r.actor, r.target)
        /\ bans' = IF r.active THEN bans \cup {r.target} ELSE bans \ {r.target}
    BY <1>2, <2>1 DEF SetBan
  <2>3. Administrator(r.actor) /\ (r.target[1] = "group" \/ ~IsAdmin(r.target[2]))
    BY <2>2 DEF MayRestrict
  <2>4. ASSUME NEW t \in Persons, <<"user", t>> \in (bans \ bans') \cup (bans' \ bans) PROVE ~IsAdmin(t)
    <3>1. <<"user", t>> = r.target
      BY <2>2, <2>4
    <3>2. r.target[1] = "user" /\ r.target[2] = t
      BY <3>1
    <3> QED BY <2>3, <3>2
  <2> QED BY <2>3, <2>4 DEF Administrator
<1> QED BY <1>1, <1>2, SettledBy

\* Whoever changes trust or a restriction through Telegram is an unrestricted
\* administrator when the transaction commits, and nobody protected is
\* restricted (_execute_set_trust, _validate_authority).
THEOREM Operators == Spec => OperatorsCurrent
<1>1. IInv /\ [Next]_vars => [\A s \in Sessions : Judged(s)]_vars
  BY JudgedStep
<1>2. Spec => [][\A s \in Sessions : Judged(s)]_vars
  BY <1>1, Invariance, PTL DEF Spec
<1> QED BY <1>2 DEF Judged, OperatorsCurrent

=============================================================================
