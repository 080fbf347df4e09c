----------------------------- MODULE Membership -----------------------------
(***************************************************************************)
(* The evidence of who administers a group, as the program stores it, and  *)
(* what Telegram knows.  Three writers hold answers of their own age: the  *)
(* worker's reconciliation, whose cycles may overlap when a lock expires,  *)
(* the handlers that check one person before a protected action, and the   *)
(* membership events, which arrive late, out of order or not at all.  The  *)
(* store keeps the newer fact, by the time the fact was asked for.         *)
(*                                                                         *)
(* Times are ages: ticks since the moment, at most Cap.  Evidence holds    *)
(* for Freshness ticks.  An answer or event is at most Delay old when it   *)
(* is applied, which may be later than it expires.                         *)
(*                                                                         *)
(* Every person is taken to be under a full restriction, so that Open is   *)
(* access of a group in which all of them are restricted; authority is     *)
(* read as for a person without one.                                       *)
(***************************************************************************)
EXTENDS Naturals, FiniteSets

CONSTANTS
  Users,        \* persons, by Telegram id
  Runners,      \* workers that reconcile, whose cycles may overlap
  Handlers,     \* handlers that verify a person
  Freshness,    \* ticks for which evidence holds
  Delay,        \* bound: age of an answer or event that is not yet applied
  MaxPending,   \* bound: events and handlers' checks under way
  MaxChanges,   \* bound: recoveries, migrations, crashes and events about the bot
  Failures      \* whether Telegram's calls may fail and events may be lost

ASSUME MembershipAssumption ==
  /\ {Freshness, Delay, MaxPending, MaxChanges} \subseteq Nat
  /\ Failures \in BOOLEAN
  /\ 0 < Freshness /\ Freshness <= Delay + 1

VARIABLES
  truth,      \* administrators in Telegram now
  updates,    \* events under way
  user,       \* the stored persons
  evidence,   \* the newest evidence row of each person's current row
  snapshot,   \* the stored administrator snapshot
  bot,        \* the stored bot capability
  present,    \* is_bot_present of the group
  route,      \* the canonical chat id of the group: 1, or 2 after migration
  locked,     \* the lock of a reconciliation cycle
  job,        \* what each cycle and handler is at
  changes,    \* disturbances so far
  was         \* ghost: for each person, ticks since they were, and were not, administrator

vars == <<truth, updates, user, evidence, snapshot, bot, present, route, locked, job, changes, was>>
stored == <<user, evidence, snapshot, bot, present, route>>

Actors == Runners \cup Handlers
Cap == Delay + 1
Older(a) == IF a < Cap THEN a + 1 ELSE Cap
Since(a) == IF a < Freshness THEN a + 1 ELSE Freshness      \* of a ghost

Nobody == [of |-> CHOOSE u \in Users : TRUE, id |-> 0]
Idle == [pc |-> "idle", who |-> Nobody, age |-> 0, route |-> 1, known |-> FALSE, seen |-> {}, todo |-> {}]
NoRow == [live |-> FALSE, status |-> "unknown", candidate |-> FALSE, unresolved |-> FALSE,
          lapsed |-> FALSE, age |-> Cap]

Init ==
  /\ truth \in SUBSET Users /\ updates = {}
  /\ user \in [Users -> {[state |-> s, id |-> 1, generation |-> 1, born |-> Cap, since |-> Freshness] :
                         s \in {"none", "active"}}]
  /\ evidence = [u \in Users |-> NoRow]
  /\ snapshot = [known |-> FALSE, age |-> Cap, lapsed |-> FALSE]
  /\ bot = [age |-> Cap, lapsed |-> FALSE]
  /\ present = TRUE /\ route = 1 /\ locked = FALSE
  /\ job = [a \in Actors |-> Idle] /\ changes = 0
  /\ was = [u \in Users |-> [admin |-> IF u \in truth THEN 0 ELSE Freshness,
                             other |-> IF u \in truth THEN Cap ELSE 0]]

----------------------------------------------------------------------------
(* What readers make of the stored facts.                                  *)

SnapshotFresh == snapshot.known /\ snapshot.age < Freshness /\ ~snapshot.lapsed
Current(u) == user[u].state = "active" /\ evidence[u].live
Candidate(u) == evidence[u].candidate \/ evidence[u].unresolved
Expired(row) == row.age >= Freshness \/ row.lapsed

\* A person holds the settings authority of a local administrator.
LocalAdmin(u) == SnapshotFresh /\ Current(u) /\ evidence[u].status = "admin" /\ ~Expired(evidence[u])

\* A person's support for a beta feature of the group counts.
Supports(u) == LocalAdmin(u) /\ ~evidence[u].unresolved

Proven(u) == Current(u) /\ Candidate(u) /\ evidence[u].status = "admin" /\ ~Expired(evidence[u])
Unclear(u) == Current(u) /\ Candidate(u) /\ (evidence[u].status = "unknown" \/ Expired(evidence[u]))

\* An approved group whose restricted persons do not suspend it.
Open == SnapshotFresh /\ \A u \in Users : ~Proven(u) /\ ~Unclear(u)

Due ==
  \/ snapshot.age >= Freshness \/ snapshot.lapsed
  \/ bot.age >= Freshness \/ bot.lapsed
  \/ \E u \in Users : Current(u) /\ Candidate(u) /\ Expired(evidence[u])

Relevant == {u \in Users : Current(u) /\ Candidate(u)}

----------------------------------------------------------------------------
(* The store.  An operation on evidence e = [of, status, age] is one       *)
(* transaction; id is 0 when the caller expects no particular row.         *)

Known(e) == IF user[e.of].state = "none" /\ e.status = "admin"
            THEN [user[e.of] EXCEPT !.state = "active", !.born = 0, !.since = 0]
            ELSE user[e.of]

Accepts(e, id) ==
  LET u == Known(e) IN
  /\ u.state = "active" /\ id \in {0, u.id}
  /\ e.age < evidence[e.of].age
  /\ u.generation > 1 => e.age <= u.born
  /\ evidence[e.of].live \/ e.status = "admin"

\* Fault: a call that fails counts as an answer that the person is no administrator.
AppliedAsAbsent(row, e) ==
  [live |-> e.status = "admin", status |-> e.status, candidate |-> e.status = "admin",
   unresolved |-> FALSE, lapsed |-> FALSE, age |-> e.age]

Applied(row, e) ==
  IF e.status = "unknown"
  THEN [row EXCEPT !.live = TRUE, !.status = "unknown", !.age = e.age, !.lapsed = FALSE]
  ELSE [live |-> e.status = "admin", status |-> e.status, candidate |-> e.status = "admin",
        unresolved |-> FALSE, lapsed |-> FALSE, age |-> e.age]

SaveMember(e, id) ==
  /\ evidence' = [evidence EXCEPT ![e.of] = IF Accepts(e, id) THEN Applied(@, e) ELSE @]
  /\ user' = [user EXCEPT ![e.of] = Known(e)]
  /\ UNCHANGED <<snapshot, bot, present, route>>

\* Candidates that a snapshot does not confirm become unknown, never absent.
Replaced(u, known, listed, age) ==
  IF Current(u) /\ Candidate(u) /\ age < evidence[u].age /\ (~known \/ u \notin listed)
  THEN [evidence[u] EXCEPT !.status = "unknown", !.age = age, !.lapsed = known, !.unresolved = TRUE,
                           !.candidate = @ /\ ~known]
  ELSE evidence[u]

\* Fault: a list that could not be read is kept as an empty one.
SaveAdminsUnread(known, listed, age) ==
  IF age < snapshot.age
  THEN /\ snapshot' = [known |-> TRUE, age |-> age, lapsed |-> FALSE]
       /\ evidence' = [u \in Users |->
            LET e == [of |-> u, status |-> "admin", age |-> age] IN
            IF u \in listed /\ Accepts(e, 0) THEN Applied(evidence[u], e) ELSE Replaced(u, TRUE, listed, age)]
       /\ user' = [u \in Users |-> IF u \in listed THEN Known([of |-> u, status |-> "admin"]) ELSE user[u]]
       /\ UNCHANGED <<bot, present, route>>
  ELSE UNCHANGED stored

SaveAdmins(known, listed, age) ==
  IF age < snapshot.age
  THEN /\ snapshot' = [known |-> known, age |-> age, lapsed |-> FALSE]
       /\ evidence' = [u \in Users |->
            LET e == [of |-> u, status |-> "admin", age |-> age] IN
            IF known /\ u \in listed /\ Accepts(e, 0) THEN Applied(evidence[u], e)
            ELSE Replaced(u, known, listed, age)]
       /\ user' = [u \in Users |-> IF known /\ u \in listed THEN Known([of |-> u, status |-> "admin"]) ELSE user[u]]
       /\ UNCHANGED <<bot, present, route>>
  ELSE UNCHANGED stored

SaveBot(status, age) ==
  IF age < bot.age
  THEN /\ bot' = [age |-> age, lapsed |-> FALSE]
       /\ present' = IF status = "unknown" THEN present ELSE status # "left"
       /\ UNCHANGED <<user, evidence, snapshot, route>>
  ELSE UNCHANGED stored

----------------------------------------------------------------------------
(* Telegram.                                                               *)

StatusOf(u) == IF u \in truth THEN "admin" ELSE "member"
Answers(u) == {StatusOf(u)} \cup (IF Failures THEN {"unknown"} ELSE {})
Pending == Cardinality(updates) + Cardinality({h \in Handlers : job[h].pc # "idle"})

\* Somebody is promoted or demoted; the event may be lost.
Turn(u) ==
  /\ truth' = IF u \in truth THEN truth \ {u} ELSE truth \cup {u}
  /\ was' = [was EXCEPT ![u] = IF u \in truth THEN [@ EXCEPT !.other = 0] ELSE [@ EXCEPT !.admin = 0]]
  /\ \/ Failures /\ UNCHANGED updates
     \/ /\ Pending < MaxPending
        /\ updates' = updates \cup {[of |-> u, status |-> IF u \in truth THEN "member" ELSE "admin",
                                    age |-> 0, route |-> route]}
  /\ UNCHANGED <<stored, locked, job, changes>>

\* A membership event is handled; one of a retired route is dropped.
Handle(e) ==
  /\ e \in updates /\ updates' = updates \ {e}
  /\ IF e.route = route THEN SaveMember([of |-> e.of, status |-> e.status, age |-> e.age], 0) ELSE UNCHANGED stored
  /\ UNCHANGED <<truth, locked, job, changes, was>>

\* An event about the bot itself, of any age.
HandleBot ==
  /\ changes < MaxChanges /\ changes' = changes + 1
  /\ \E s \in {"admin", "left", "unknown"}, age \in 0..Delay : SaveBot(s, age)
  /\ UNCHANGED <<truth, updates, locked, job, was>>

Aged(r) == [r EXCEPT !.age = Older(@)]

Tick ==
  /\ \A e \in updates : e.age < Delay
  /\ \A a \in Actors : job[a].pc # "idle" => job[a].age < Delay
  /\ updates' = {Aged(e) : e \in updates}
  /\ evidence' = [u \in Users |-> Aged(evidence[u])]
  /\ snapshot' = Aged(snapshot) /\ bot' = Aged(bot)
  /\ user' = [u \in Users |-> [user[u] EXCEPT !.born = Older(@), !.since = Since(@)]]
  /\ job' = [a \in Actors |-> IF job[a].pc = "idle" THEN Idle ELSE Aged(job[a])]
  /\ was' = [u \in Users |-> [admin |-> IF u \in truth THEN 0 ELSE Since(was[u].admin),
                              other |-> IF u \in truth THEN Older(was[u].other) ELSE 0]]
  /\ UNCHANGED <<truth, present, route, locked, changes>>

----------------------------------------------------------------------------
(* A reconciliation cycle.  All its evidence has the time of its start.    *)

Moves(a, r) == job' = [job EXCEPT ![a] = r]

CycleStart(r) ==
  /\ job[r].pc = "idle" /\ ~locked /\ Due
  /\ locked' = TRUE /\ Moves(r, [Idle EXCEPT !.pc = "bot", !.route = route])
  /\ UNCHANGED <<truth, updates, stored, changes, was>>

AskAdmins(r) ==
  /\ job[r].pc = "admins"
  /\ \E k \in IF Failures THEN BOOLEAN ELSE {TRUE} :
       Moves(r, [job[r] EXCEPT !.pc = "saveAdmins", !.known = k, !.seen = IF k THEN truth ELSE {}])
  /\ UNCHANGED <<truth, updates, stored, locked, changes, was>>

AskMember(r) ==
  /\ job[r].pc = "members"
  /\ \E w \in job[r].todo : \E s \in Answers(w.of) :
       Moves(r, [job[r] EXCEPT !.pc = "saveMember", !.who = w, !.seen = {s}])
  /\ UNCHANGED <<truth, updates, stored, locked, changes, was>>

\* The lock is deleted by whoever ends, even when another cycle holds it now.
Ends(r) == Moves(r, Idle) /\ locked' = FALSE

\* Evidence for a former route does not match the group: the cycle raises.
Mismatch(r) ==
  /\ job[r].pc \in {"bot", "saveAdmins", "saveMember"} /\ job[r].route # route
  /\ Ends(r) /\ UNCHANGED <<truth, updates, stored, changes, was>>

KeepBot(r) ==
  /\ job[r].pc = "bot" /\ job[r].route = route
  /\ \E s \in {"admin", "left", "unknown"} : SaveBot(s, job[r].age)
  /\ Moves(r, [job[r] EXCEPT !.pc = "admins"])
  /\ UNCHANGED <<truth, updates, locked, changes, was>>

KeepAdmins(r) ==
  /\ job[r].pc = "saveAdmins" /\ job[r].route = route
  /\ SaveAdmins(job[r].known, job[r].seen, job[r].age)
  /\ Moves(r, [job[r] EXCEPT !.pc = "list", !.seen = {}, !.known = FALSE])
  /\ UNCHANGED <<truth, updates, locked, changes, was>>

ListRelevant(r) ==
  /\ job[r].pc = "list"
  /\ Moves(r, [job[r] EXCEPT !.pc = "members", !.todo = {[of |-> u, id |-> user[u].id] : u \in Relevant}])
  /\ UNCHANGED <<truth, updates, stored, locked, changes, was>>

\* Fault: an answer is dated when it is stored.
AnsweredNow(a) == [of |-> job[a].who.of, status |-> CHOOSE s \in job[a].seen : TRUE, age |-> 0]

Answered(a) == [of |-> job[a].who.of, status |-> CHOOSE s \in job[a].seen : TRUE, age |-> job[a].age]

KeepMember(r) ==
  /\ job[r].pc = "saveMember" /\ job[r].route = route
  /\ SaveMember(Answered(r), job[r].who.id)
  /\ Moves(r, [job[r] EXCEPT !.pc = "members", !.seen = {}, !.who = Nobody, !.todo = @ \ {job[r].who}])
  /\ UNCHANGED <<truth, updates, locked, changes, was>>

CycleEnd(r) ==
  /\ job[r].pc = "members" /\ job[r].todo = {}
  /\ Ends(r) /\ UNCHANGED <<truth, updates, stored, changes, was>>

\* A worker dies; its lock stays until it expires.
Crash(r) ==
  /\ job[r].pc # "idle" /\ changes < MaxChanges /\ changes' = changes + 1
  /\ Moves(r, Idle) /\ UNCHANGED <<truth, updates, stored, locked, was>>

LockExpires == locked /\ locked' = FALSE /\ UNCHANGED <<truth, updates, stored, job, changes, was>>

----------------------------------------------------------------------------
(* A handler verifies a person before it lets them act.                    *)

Verify(h) ==
  /\ job[h].pc = "idle" /\ Pending < MaxPending
  /\ present
  /\ \E u \in Users :
       /\ user[u].state = "active"
       /\ Moves(h, [Idle EXCEPT !.pc = "ask", !.who = [of |-> u, id |-> user[u].id], !.route = route])
  /\ UNCHANGED <<truth, updates, stored, locked, changes, was>>

Answer(h) ==
  /\ job[h].pc = "ask"
  /\ \E s \in Answers(job[h].who.of) : Moves(h, [job[h] EXCEPT !.pc = "save", !.seen = {s}])
  /\ UNCHANGED <<truth, updates, stored, locked, changes, was>>

Verified(h) ==
  /\ job[h].pc = "save"
  /\ IF job[h].route = route
       THEN SaveMember(Answered(h), job[h].who.id) /\ Moves(h, [job[h] EXCEPT !.pc = "recheck"])
       ELSE Moves(h, Idle) /\ UNCHANGED stored
  /\ UNCHANGED <<truth, updates, locked, changes, was>>

\* Group, bot and person are looked up again: an answer about former ones proves nothing.
StillCurrent(h) ==
  LET asked == job[h].who IN
  /\ job[h].route = route /\ present
  /\ user[asked.of].state = "active" /\ user[asked.of].id = asked.id
  /\ job[h].seen = {"admin"}

Recheck(h) ==
  /\ job[h].pc = "recheck"
  /\ Moves(h, IF StillCurrent(h) /\ job[h].age < Freshness THEN [job[h] EXCEPT !.pc = "manage"] ELSE Idle)
  /\ UNCHANGED <<truth, updates, stored, locked, changes, was>>

\* The person was let manage the group, whatever they do.
Manage(h) ==
  /\ job[h].pc = "manage" /\ Moves(h, Idle)
  /\ UNCHANGED <<truth, updates, stored, locked, changes, was>>

----------------------------------------------------------------------------
(* What else changes the stored subjects.                                  *)

Change == changes < MaxChanges /\ changes' = changes + 1

Delete(u) ==
  /\ user[u].state = "active"
  /\ user' = [user EXCEPT ![u].state = "deleted"]
  /\ UNCHANGED <<truth, updates, evidence, snapshot, bot, present, route, locked, job, changes, was>>

\* A restored person keeps their row and its evidence.
Restore(u) ==
  /\ Change /\ user[u].state = "deleted"
  /\ user' = [user EXCEPT ![u] = [user[u] EXCEPT !.state = "active", !.generation = @ + 1, !.since = 0]]
  /\ UNCHANGED <<truth, updates, evidence, snapshot, bot, present, route, locked, job, was>>

Fresh(u) ==
  /\ Change /\ user[u].state = "deleted"
  /\ user' = [user EXCEPT ![u] = [state |-> "active", id |-> @.id + 1, generation |-> @.generation + 1,
                                  born |-> 0, since |-> 0]]
  /\ evidence' = [evidence EXCEPT ![u] = NoRow]
  /\ UNCHANGED <<truth, updates, snapshot, bot, present, route, locked, job, was>>

Migrate ==
  /\ Change /\ route = 1 /\ route' = 2
  /\ snapshot' = [snapshot EXCEPT !.known = FALSE, !.lapsed = TRUE]
  /\ bot' = [bot EXCEPT !.lapsed = TRUE]
  /\ UNCHANGED <<truth, updates, user, evidence, present, locked, job, was>>

----------------------------------------------------------------------------

Cycle(r) ==
  \/ CycleStart(r) \/ KeepBot(r) \/ AskAdmins(r) \/ KeepAdmins(r) \/ ListRelevant(r)
  \/ AskMember(r) \/ KeepMember(r) \/ Mismatch(r) \/ CycleEnd(r)

Check(h) == Verify(h) \/ Answer(h) \/ Verified(h) \/ Recheck(h) \/ Manage(h)

Next ==
  \/ \E u \in Users : Turn(u)
  \/ \E e \in updates : Handle(e)
  \/ HandleBot
  \/ \E r \in Runners : Cycle(r) \/ Crash(r)
  \/ \E h \in Handlers : Check(h)
  \/ \E u \in Users : Delete(u) \/ Restore(u) \/ Fresh(u)
  \/ Migrate \/ Tick \/ LockExpires

Spec == Init /\ [][Next]_vars

----------------------------------------------------------------------------

\* Whoever holds the authority of a group's administrator, or supports one of its features, was an
\* administrator within the time for which evidence holds: whatever was delayed, overtaken, retried
\* or recovered, no answer is given a time later than its question.
\* Whoever is let manage it by Telegram's own answer was one since the question.
AuthorityBounded ==
  /\ \A u \in Users : LocalAdmin(u) \/ Supports(u) => was[u].admin < Freshness
  /\ \A h \in Handlers : job[h].pc = "manage" => was[job[h].who.of].admin <= job[h].age

\* A restricted person who is an administrator suspends the group, at the latest when the evidence
\* of before their promotion, or recovery, expires: failed calls, overlapping cycles, migration and
\* evidence of other generations never open it.
BannedAdminSuspends ==
  Open => \A u \in Users : was[u].other < Freshness \/ user[u].since < Freshness \/ user[u].state # "active"

\* A former administrator leaves the records only by an answer that saw them to be none: neither an
\* unanswered call nor a list without them proves absence.
AbsenceObserved ==
  \A u \in Users : ~evidence[u].live /\ evidence[u].age < Cap => was[u].other <= evidence[u].age

\* A person who starts anew after deletion inherits no evidence: what was asked about their former
\* row, and events of before, are not applied to the new one.
FreshUnproven ==
  \A u \in Users : user[u].id > 1 /\ evidence[u].live => evidence[u].age <= user[u].born

\* Stored rows and their ages, which end at Cap.
TypeOK ==
  /\ truth \subseteq Users /\ present \in BOOLEAN /\ locked \in BOOLEAN /\ route \in {1, 2}
  /\ user \in [Users -> [state : {"none", "active", "deleted"}, id : Nat \ {0}, generation : Nat \ {0},
                         born : 0..Cap, since : 0..Freshness]]
  /\ evidence \in [Users -> [live : BOOLEAN, status : {"unknown", "admin", "member"}, candidate : BOOLEAN,
                             unresolved : BOOLEAN, lapsed : BOOLEAN, age : 0..Cap]]
  /\ snapshot \in [known : BOOLEAN, age : 0..Cap, lapsed : BOOLEAN]
  /\ bot \in [age : 0..Cap, lapsed : BOOLEAN]
  /\ was \in [Users -> [admin : 0..Cap, other : 0..Cap]]
  /\ changes \in 0..MaxChanges

\* What the records say of a person was observed of that person: absence by an answer, and never
\* about the row of a new start by what was asked of the former one.
EvidenceObserved == TypeOK /\ AbsenceObserved /\ FreshUnproven
=============================================================================
