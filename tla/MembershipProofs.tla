---------------------------- MODULE MembershipProofs ----------------------------
(***************************************************************************)
(* Proofs about membership evidence, for any persons, workers, handlers,   *)
(* validity, delays and numbers of events and changes.                     *)
(***************************************************************************)
EXTENDS Membership, TLAPS

(***************************************************************************)
(* The inductive invariant.                                                *)
(***************************************************************************)

Status == {"unknown", "admin", "member"}
Stored == [state : {"none", "active", "deleted"}, id : Nat \ {0}, generation : Nat \ {0},
           born : 0..Cap, since : 0..Freshness]
Row == [live : BOOLEAN, status : Status, candidate : BOOLEAN, unresolved : BOOLEAN, lapsed : BOOLEAN,
        age : 0..Cap]
Ghost == [admin : 0..Freshness, other : 0..Cap]
Observation == [of : Users, status : Status, age : 0..Cap]
Update == [of : Users, status : Status, age : 0..Cap, route : {1, 2}]
Asked == [of : Users, id : Nat]
Job == [pc : {"idle", "bot", "admins", "saveAdmins", "list", "members", "saveMember",
              "ask", "save", "recheck", "manage"},
        who : Asked \cup {Nobody}, age : 0..Cap, route : {1, 2}, known : BOOLEAN,
        seen : SUBSET (Users \cup Status), todo : SUBSET Asked]

\* The ghosts agree with Telegram.
WasOK(u, tru, g) == (u \in tru => g.admin = 0) /\ (u \notin tru => g.other = 0)
WasInv ==
  /\ truth \subseteq Users /\ was \in [Users -> Ghost]
  /\ \A u \in Users : WasOK(u, truth, was[u])

\* What was seen of a person was so when it was asked for, or since.
Saw(status, age, g) ==
  /\ status = "admin" => g.admin <= age
  /\ status = "member" => g.other <= age

\* Only a person that is stored anew has another row, and a later start.
PersonOK(r) ==
  /\ r.state = "none" => r.id = 1
  /\ r.id > 1 => r.generation > 1
  /\ r.since <= r.born

UserInv == user \in [Users -> Stored] /\ \A u \in Users : PersonOK(user[u])

\* A row says what was seen; a live one is a candidate to be suspected, and
\* one of a new start is of that start.
RowOK(row, r, g) ==
  /\ row.status = "admin" => g.admin <= row.age
  /\ ~row.live /\ row.age < Cap => g.other <= row.age
  /\ row.live => (row.candidate \/ row.unresolved) /\ row.status # "member"
  /\ row.live /\ r.id > 1 => row.age <= r.born

EvidenceInv ==
  /\ evidence \in [Users -> Row]
  /\ \A u \in Users : RowOK(evidence[u], user[u], was[u])

\* A snapshot of this age accounts for a person: they came since, were no
\* administrator since, or are suspected by evidence at least as new.
Covered(age, row, r, g) ==
  r.state = "active" => r.since <= age \/ g.other <= age \/ (row.live /\ row.age <= age)

SnapshotInv ==
  /\ snapshot \in [known : BOOLEAN, age : 0..Cap, lapsed : BOOLEAN]
  /\ bot \in [age : 0..Cap, lapsed : BOOLEAN]
  /\ SnapshotFresh => \A u \in Users : Covered(snapshot.age, evidence[u], user[u], was[u])

UpdatesInv == \A e \in updates : e \in Update /\ Saw(e.status, e.age, was[e.of])

\* What a cycle or a handler holds was seen when it started, or since.
JobOK(x, g) ==
  /\ x \in Job
  /\ x.pc \in {"saveMember", "ask", "save", "recheck", "manage"} => x.who \in Asked
  /\ x.pc \in {"saveMember", "save", "recheck", "manage"} =>
       \E s \in Status : x.seen = {s} /\ Saw(s, x.age, g[x.who.of])
  /\ x.pc = "manage" => x.seen = {"admin"}
  /\ x.pc = "saveAdmins" /\ x.known =>
       \A u \in Users : Saw(IF u \in x.seen THEN "admin" ELSE "member", x.age, g[u])

JobInv ==
  /\ job = [a \in Actors |-> job[a]]
  /\ \A a \in Actors : JobOK(job[a], was)

GroupInv == present \in BOOLEAN /\ locked \in BOOLEAN /\ route \in {1, 2} /\ changes \in 0..MaxChanges

IInv == /\ WasInv /\ UserInv /\ EvidenceInv /\ SnapshotInv /\ UpdatesInv /\ JobInv /\ GroupInv

\* The constants: a truth lasts no longer in the ghosts than evidence does.
LEMMA Bounds ==
  /\ Freshness \in Nat /\ Delay \in Nat /\ Cap \in Nat /\ MaxChanges \in Nat
  /\ 0 < Freshness /\ Freshness <= Cap /\ Cap = Delay + 1
BY MembershipAssumption DEF Cap

LEMMA IdleOK == Idle \in Job /\ Idle.pc = "idle" /\ \A g : JobOK(Idle, g)
<1>1. Idle \in Job /\ Idle.pc = "idle"
  BY Bounds DEF Idle, Job
<1> QED BY <1>1 DEF JobOK

LEMMA InitInv == Init => IInv
<1> SUFFICES ASSUME Init PROVE IInv
  OBVIOUS
<1>1. WasInv
  <2>1. truth \subseteq Users
    BY DEF Init
  <2>2. \A u \in Users : [admin |-> IF u \in truth THEN 0 ELSE Freshness,
                          other |-> IF u \in truth THEN Cap ELSE 0] \in Ghost
    BY Bounds DEF Ghost
  <2>3. was = [u \in Users |-> [admin |-> IF u \in truth THEN 0 ELSE Freshness,
                                other |-> IF u \in truth THEN Cap ELSE 0]]
    BY DEF Init
  <2> QED BY <2>1, <2>2, <2>3 DEF WasInv, WasOK
<1>2. \A u \in Users : /\ user[u] \in Stored /\ PersonOK(user[u]) /\ user[u].id = 1
  <2> SUFFICES ASSUME NEW u \in Users PROVE user[u] \in Stored /\ PersonOK(user[u]) /\ user[u].id = 1
    OBVIOUS
  <2>1. user[u] \in {[state |-> s, id |-> 1, generation |-> 1, born |-> Cap, since |-> Freshness] :
                     s \in {"none", "active"}}
    BY DEF Init
  <2>2. PICK s \in {"none", "active"} :
          user[u] = [state |-> s, id |-> 1, generation |-> 1, born |-> Cap, since |-> Freshness]
    BY <2>1
  <2> QED BY <2>2, Bounds DEF Stored, PersonOK
<1>3. UserInv
  BY <1>2 DEF Init, UserInv
<1>4. NoRow \in Row /\ NoRow.live = FALSE /\ NoRow.age = Cap /\ NoRow.status = "unknown"
  BY Bounds DEF NoRow, Row, Status
<1>5. evidence = [u \in Users |-> NoRow]
  BY DEF Init
<1>6. EvidenceInv
  BY <1>4, <1>5, Bounds DEF EvidenceInv, RowOK
<1>7. SnapshotInv
  BY Bounds DEF Init, SnapshotInv, SnapshotFresh
<1>8. UpdatesInv
  BY DEF Init, UpdatesInv
<1>9. JobInv
  BY IdleOK DEF Init, JobInv
<1>10. GroupInv
  <2>1. present = TRUE /\ route = 1 /\ locked = FALSE /\ changes = 0
    BY DEF Init
  <2>2. changes \in 0..MaxChanges /\ route \in {1, 2}
    BY <2>1, Bounds
  <2>3. present \in BOOLEAN /\ locked \in BOOLEAN
    BY <2>1
  <2> QED BY <2>2, <2>3 DEF GroupInv
<1> QED BY <1>1, <1>3, <1>6, <1>7, <1>8, <1>9, <1>10 DEF IInv

----------------------------------------------------------------------------
(***************************************************************************)
(* The store's operations, row by row.                                     *)
(***************************************************************************)

\* An answer about an administrator makes a person known, and changes no
\* person that is.
LEMMA KnownRow ==
  ASSUME UserInv, NEW e, e.of \in Users
  PROVE  /\ Known(e) \in Stored /\ PersonOK(Known(e))
         /\ Known(e) = user[e.of] \/ (Known(e).id = 1 /\ Known(e).since = 0)
<1>1. user[e.of] \in Stored /\ PersonOK(user[e.of])
  BY DEF UserInv
<1>2. CASE user[e.of].state = "none" /\ e.status = "admin"
  <2>1. Known(e) = [user[e.of] EXCEPT !.state = "active", !.born = 0, !.since = 0]
    BY <1>2 DEF Known
  <2>2. 0 \in 0..Cap /\ 0 \in 0..Freshness
    BY Bounds
  <2>3. user[e.of].id = 1
    BY <1>1, <1>2 DEF PersonOK
  <2>4. /\ Known(e) \in Stored /\ Known(e).state = "active" /\ Known(e).id = 1
        /\ Known(e).born = 0 /\ Known(e).since = 0
    BY <1>1, <2>1, <2>2, <2>3 DEF Stored
  <2>5. PersonOK(Known(e))
    BY <2>4 DEF PersonOK
  <2> QED BY <2>4, <2>5
<1>3. CASE ~(user[e.of].state = "none" /\ e.status = "admin")
  BY <1>1, <1>3 DEF Known
<1> QED BY <1>2, <1>3

\* The evidence of a person who was unknown stays in order.
LEMMA KnownKeeps ==
  ASSUME UserInv, NEW e, e.of \in Users, NEW row, NEW g, RowOK(row, user[e.of], g)
  PROVE  RowOK(row, Known(e), g)
BY KnownRow DEF RowOK

\* A row to which an answer is applied.
LEMMA AppliedRow ==
  ASSUME UserInv, EvidenceInv, NEW e \in Observation, NEW id, NEW g, Saw(e.status, e.age, g), Accepts(e, id)
  PROVE  /\ Applied(evidence[e.of], e) \in Row
         /\ Applied(evidence[e.of], e).age = e.age /\ e.age < evidence[e.of].age
         /\ Applied(evidence[e.of], e).live <=> e.status # "member"
         /\ e.status = "unknown" => evidence[e.of].live
         /\ RowOK(Applied(evidence[e.of], e), Known(e), g)
<1> DEFINE row == evidence[e.of]
           k == Known(e)
<1>1. e.of \in Users /\ e.status \in Status /\ e.age \in 0..Cap
  BY DEF Observation
<1>2. row \in Row /\ k \in Stored /\ PersonOK(k)
  BY <1>1, KnownRow DEF EvidenceInv
<1>3. /\ e.age < row.age /\ (k.generation > 1 => e.age <= k.born) /\ (row.live \/ e.status = "admin")
  BY DEF Accepts
<1>4. k.id > 1 => e.age <= k.born
  BY <1>2, <1>3 DEF PersonOK
<1>5. RowOK(row, user[e.of], was[e.of])
  BY <1>1 DEF EvidenceInv
<1> HIDE DEF k
<1>6. CASE e.status = "unknown"
  <2>1. Applied(row, e) = [row EXCEPT !.live = TRUE, !.status = "unknown", !.age = e.age, !.lapsed = FALSE]
    BY <1>6 DEF Applied
  <2> DEFINE n == [row EXCEPT !.live = TRUE, !.status = "unknown", !.age = e.age, !.lapsed = FALSE]
  <2> HIDE DEF row
  <2>2. /\ n \in Row /\ n.live = TRUE /\ n.status = "unknown" /\ n.age = e.age
        /\ n.candidate = row.candidate /\ n.unresolved = row.unresolved
    BY <1>1, <1>2 DEF Row, Status
  <2>3. row.live /\ (row.candidate \/ row.unresolved)
    BY <1>3, <1>5, <1>6 DEF RowOK, row
  <2> HIDE DEF n
  <2>4. RowOK(n, k, g)
    BY <1>4, <2>2, <2>3 DEF RowOK
  <2> QED BY <1>3, <1>6, <2>1, <2>2, <2>3, <2>4 DEF k, n, row
<1>7. CASE e.status # "unknown"
  <2> DEFINE n == [live |-> e.status = "admin", status |-> e.status, candidate |-> e.status = "admin",
                   unresolved |-> FALSE, lapsed |-> FALSE, age |-> e.age]
  <2>1. Applied(row, e) = n
    BY <1>7 DEF Applied
  <2>2. n \in Row /\ n.age = e.age /\ (n.live <=> e.status # "member") /\ n.status = e.status
        /\ (n.live => n.candidate)
    BY <1>1, <1>7 DEF Row, Status
  <2>3. e.status = "member" => g.other <= e.age
    BY DEF Saw
  <2>4. e.status = "admin" => g.admin <= e.age
    BY DEF Saw
  <2> HIDE DEF n, row
  <2>5. RowOK(n, k, g)
    BY <1>1, <1>4, <2>2, <2>3, <2>4 DEF RowOK
  <2> QED BY <1>3, <1>7, <2>1, <2>2, <2>5 DEF k, row
<1> QED BY <1>6, <1>7

\* A candidate that a snapshot does not confirm.
LEMMA ReplacedRow ==
  ASSUME UserInv, EvidenceInv, NEW u \in Users, NEW known \in BOOLEAN, NEW listed, NEW age \in 0..Cap
  PROVE  /\ Replaced(u, known, listed, age) \in Row
         /\ RowOK(Replaced(u, known, listed, age), user[u], was[u])
         /\ known /\ u \in listed => Replaced(u, known, listed, age) = evidence[u]
<1> DEFINE row == evidence[u]
           n == [row EXCEPT !.status = "unknown", !.age = age, !.lapsed = known, !.unresolved = TRUE,
                            !.candidate = row.candidate /\ ~known]
           changed == Current(u) /\ Candidate(u) /\ age < evidence[u].age /\ (~known \/ u \notin listed)
<1>1. row \in Row /\ RowOK(row, user[u], was[u])
  BY DEF EvidenceInv
<1>2. CASE changed
  <2>1. Replaced(u, known, listed, age) = n
    BY <1>2 DEF Replaced
  <2>2. row.live /\ age < row.age
    BY <1>2 DEF Current
  <2> HIDE DEF row
  <2>3. /\ n \in Row /\ n.live = row.live /\ n.status = "unknown" /\ n.age = age /\ n.unresolved
    BY <1>1 DEF Row, Status
  <2> HIDE DEF n
  <2>4. row.age \in Nat /\ age \in Nat /\ (user[u].id > 1 => user[u].born \in Nat)
    BY <1>1, Bounds DEF Row, UserInv, Stored
  <2>5. RowOK(n, user[u], was[u])
    BY <1>1, <2>2, <2>3, <2>4 DEF RowOK
  <2> QED BY <1>2, <2>1, <2>3, <2>5
<1>3. CASE ~changed
  BY <1>1, <1>3 DEF Replaced
<1> QED BY <1>2, <1>3

\* What the store holds is in order after a transaction.
StoreInv == UserInv /\ EvidenceInv /\ SnapshotInv /\ present \in BOOLEAN /\ route \in {1, 2}

LEMMA StoreSame == ASSUME IInv, UNCHANGED <<stored, was>> PROVE StoreInv'
BY DEF IInv, StoreInv, UserInv, EvidenceInv, SnapshotInv, SnapshotFresh, GroupInv, stored

LEMMA SaveMemberInv ==
  ASSUME IInv, NEW e \in Observation, NEW id, Saw(e.status, e.age, was[e.of]), SaveMember(e, id),
         UNCHANGED was
  PROVE  StoreInv'
<1> DEFINE n == IF Accepts(e, id) THEN Applied(evidence[e.of], e) ELSE evidence[e.of]
           k == Known(e)
<1>1. e.of \in Users /\ e.status \in Status /\ e.age \in 0..Cap
  BY DEF Observation
<1>2. UserInv /\ EvidenceInv /\ SnapshotInv
  BY DEF IInv
<1>3. /\ evidence' = [evidence EXCEPT ![e.of] = n] /\ user' = [user EXCEPT ![e.of] = k]
      /\ UNCHANGED <<snapshot, bot, present, route>>
  BY DEF SaveMember
<1>4. k \in Stored /\ PersonOK(k) /\ (k = user[e.of] \/ (k.id = 1 /\ k.since = 0))
  BY <1>1, <1>2, KnownRow
<1>5. n \in Row /\ RowOK(n, k, was[e.of])
  <2>1. CASE Accepts(e, id)
    BY <1>2, <2>1, AppliedRow
  <2>2. CASE ~Accepts(e, id)
    <3>1. evidence[e.of] \in Row /\ RowOK(evidence[e.of], user[e.of], was[e.of])
      BY <1>1, <1>2 DEF EvidenceInv
    <3>2. RowOK(evidence[e.of], k, was[e.of])
      BY <1>1, <1>2, <3>1, KnownKeeps
    <3> QED BY <2>2, <3>1, <3>2
  <2> QED BY <2>1, <2>2
<1>6. SnapshotFresh => Covered(snapshot.age, n, k, was[e.of])
  <2> SUFFICES ASSUME SnapshotFresh PROVE Covered(snapshot.age, n, k, was[e.of])
    OBVIOUS
  <2>0. snapshot.age \in Nat
    BY <1>2, Bounds DEF SnapshotInv
  <2>1. CASE k.since = 0
    BY <2>0, <2>1 DEF Covered
  <2>2. CASE k = user[e.of]
    <3>1. Covered(snapshot.age, evidence[e.of], k, was[e.of])
      BY <1>1, <1>2, <2>2 DEF SnapshotInv
    <3>2. CASE ~Accepts(e, id)
      BY <3>1, <3>2
    <3>3. CASE Accepts(e, id)
      <4>1. /\ n.age = e.age /\ e.age < evidence[e.of].age /\ (n.live <=> e.status # "member")
        BY <1>2, <3>3, AppliedRow
      <4>2. evidence[e.of] \in Row /\ was[e.of] \in Ghost
        BY <1>1, <1>2 DEF EvidenceInv, IInv, WasInv
      <4> HIDE DEF n
      <4>3. evidence[e.of].age \in Nat /\ e.age \in Nat /\ was[e.of].other \in Nat
        BY <1>1, <4>2, Bounds DEF Row, Ghost
      <4>4. e.status = "member" => was[e.of].other <= e.age
        BY DEF Saw
      <4> QED BY <2>0, <3>1, <4>1, <4>3, <4>4 DEF Covered
    <3> QED BY <3>2, <3>3
  <2> QED BY <1>4, <2>1, <2>2
<1> HIDE DEF n, k
<1>7. UserInv'
  BY <1>1, <1>2, <1>3, <1>4 DEF UserInv
<1>8. EvidenceInv'
  BY <1>1, <1>2, <1>3, <1>5 DEF EvidenceInv, UserInv
<1>9. SnapshotInv'
  BY <1>1, <1>2, <1>3, <1>6 DEF SnapshotInv, SnapshotFresh, EvidenceInv, UserInv
<1> QED BY <1>3, <1>7, <1>8, <1>9 DEF StoreInv, IInv, GroupInv

\* A snapshot that was read accounts for every person it lists, and for those
\* it does not; one that could not be read accounts for nobody.
LEMMA SaveAdminsInv ==
  ASSUME IInv, NEW known \in BOOLEAN, NEW listed, NEW age \in 0..Cap, SaveAdmins(known, listed, age),
         known => \A u \in Users : Saw(IF u \in listed THEN "admin" ELSE "member", age, was[u]),
         UNCHANGED was
  PROVE  StoreInv'
<1>0. CASE ~(age < snapshot.age)
  BY <1>0, StoreSame DEF SaveAdmins
<1>1. CASE age < snapshot.age
  <2> DEFINE e(u) == [of |-> u, status |-> "admin", age |-> age]
             n(u) == IF known /\ u \in listed /\ Accepts(e(u), 0) THEN Applied(evidence[u], e(u))
                     ELSE Replaced(u, known, listed, age)
             k(u) == IF known /\ u \in listed THEN Known([of |-> u, status |-> "admin"]) ELSE user[u]
  <2>1. /\ snapshot' = [known |-> known, age |-> age, lapsed |-> FALSE]
        /\ evidence' = [u \in Users |-> n(u)]
        /\ user' = [u \in Users |-> k(u)]
        /\ UNCHANGED <<bot, present, route>>
    BY <1>1 DEF SaveAdmins
  <2>2. UserInv /\ EvidenceInv /\ SnapshotInv /\ WasInv
    BY DEF IInv
  <2>3. ASSUME NEW u \in Users
        PROVE  /\ k(u) \in Stored /\ PersonOK(k(u)) /\ n(u) \in Row /\ RowOK(n(u), k(u), was[u])
               /\ known /\ age < Freshness => Covered(age, n(u), k(u), was[u])
    <3>1. e(u) \in Observation /\ e(u).of = u /\ e(u).status = "admin" /\ e(u).age = age
      BY DEF Observation, Status
    <3>2. user[u] \in Stored /\ PersonOK(user[u]) /\ evidence[u] \in Row /\ was[u] \in Ghost
          /\ RowOK(evidence[u], user[u], was[u])
      BY <2>2 DEF UserInv, EvidenceInv, WasInv
    <3>3. CASE known /\ u \in listed
      <4> DEFINE x == e(u)
      <4>1. Known([of |-> u, status |-> "admin"]) = Known(x) /\ k(u) = Known(x)
        BY <3>3 DEF Known
      <4>2. Known(x) \in Stored /\ PersonOK(Known(x)) /\ (Known(x) = user[u] \/ (Known(x).id = 1 /\ Known(x).since = 0))
        BY <2>2, <3>1, KnownRow
      <4>3. Saw("admin", age, was[u])
        BY <3>3
      <4>4. CASE Accepts(x, 0)
        <5>1. n(u) = Applied(evidence[u], x)
          BY <3>3, <4>4
        <5> HIDE DEF x
        <5>2. x \in Observation /\ x.of = u /\ x.status = "admin" /\ x.age = age
          BY <3>1 DEF x
        <5>3. /\ Applied(evidence[u], x) \in Row /\ Applied(evidence[u], x).age = age
              /\ Applied(evidence[u], x).live /\ RowOK(Applied(evidence[u], x), Known(x), was[u])
          BY <2>2, <4>3, <4>4, <5>2, AppliedRow
        <5> QED BY <4>1, <4>2, <5>1, <5>3 DEF Covered
      <4>5. CASE ~Accepts(x, 0)
        <5>1. n(u) = evidence[u]
          BY <2>2, <3>3, <4>5, ReplacedRow
        <5>2. RowOK(evidence[u], Known(x), was[u])
          BY <2>2, <3>1, <3>2, KnownKeeps
        <5>3. age < Freshness => Covered(age, evidence[u], Known(x), was[u])
          <6> SUFFICES ASSUME age < Freshness, Known(x).state = "active", ~(Known(x).since <= age)
                       PROVE  was[u].other <= age \/ (evidence[u].live /\ evidence[u].age <= age)
            BY DEF Covered
          <6>1. /\ age \in Nat /\ Known(x).since \in Nat /\ Known(x).born \in Nat /\ Known(x).since <= Known(x).born
                /\ evidence[u].age \in Nat /\ was[u].other \in Nat
            BY <3>2, <4>2, Bounds DEF Stored, Row, Ghost, PersonOK
          <6>2. evidence[u].age <= age
            BY <3>1, <4>5, <6>1 DEF Accepts
          <6>3. ~evidence[u].live => was[u].other <= evidence[u].age
            BY <3>2, <6>1, <6>2, Bounds DEF RowOK
          <6> QED BY <6>1, <6>2, <6>3
        <5> QED BY <3>2, <4>1, <4>2, <5>1, <5>2, <5>3
      <4> QED BY <4>4, <4>5
    <3>4. CASE ~(known /\ u \in listed)
      <4>1. n(u) = Replaced(u, known, listed, age) /\ k(u) = user[u]
        BY <3>4
      <4>2. Replaced(u, known, listed, age) \in Row /\ RowOK(Replaced(u, known, listed, age), user[u], was[u])
        BY <2>2, ReplacedRow
      <4>3. known => was[u].other <= age
        <5> SUFFICES ASSUME known PROVE was[u].other <= age
          OBVIOUS
        <5>1. Saw("member", age, was[u])
          BY <3>4
        <5> QED BY <5>1 DEF Saw
      <4> QED BY <3>2, <4>1, <4>2, <4>3 DEF Covered
    <3> QED BY <3>3, <3>4
  <2> HIDE DEF n, k
  <2>4. UserInv' /\ EvidenceInv'
    BY <2>1, <2>3 DEF UserInv, EvidenceInv
  <2>5. SnapshotInv'
    BY <2>1, <2>2, <2>3 DEF SnapshotInv, SnapshotFresh
  <2> QED BY <2>1, <2>4, <2>5 DEF StoreInv, IInv, GroupInv
<1> QED BY <1>0, <1>1

LEMMA SaveBotInv ==
  ASSUME IInv, NEW status, NEW age \in 0..Cap, SaveBot(status, age), UNCHANGED was
  PROVE  StoreInv'
<1>1. CASE ~(age < bot.age)
  BY <1>1, StoreSame DEF SaveBot
<1>2. CASE age < bot.age
  <2>1. bot' = [age |-> age, lapsed |-> FALSE] /\ UNCHANGED <<user, evidence, snapshot, route>>
    BY <1>2 DEF SaveBot
  <2>2. UserInv' /\ EvidenceInv' /\ SnapshotInv'
    BY <2>1 DEF IInv, UserInv, EvidenceInv, SnapshotInv, SnapshotFresh
  <2>3. present' = IF status = "unknown" THEN present ELSE status # "left"
    BY <1>2 DEF SaveBot
  <2>4. present' \in BOOLEAN
    BY <2>3 DEF IInv, GroupInv
  <2> QED BY <2>1, <2>2, <2>4 DEF StoreInv, IInv, GroupInv
<1> QED BY <1>1, <1>2

----------------------------------------------------------------------------
(***************************************************************************)
(* Telegram, and the events that arrive.                                   *)
(***************************************************************************)

LEMMA JobMoves ==
  ASSUME IInv, UNCHANGED was,
         UNCHANGED job \/ \E a \in Actors : \E x : JobOK(x, was) /\ Moves(a, x)
  PROVE  JobInv'
BY DEF IInv, JobInv, Moves

\* A transaction of the store, whoever asked for it.
LEMMA StoreStep ==
  ASSUME IInv, StoreInv', JobInv', UNCHANGED <<truth, was>>, updates' \subseteq updates,
         locked' \in BOOLEAN, changes' \in 0..MaxChanges
  PROVE  IInv'
BY DEF IInv, StoreInv, WasInv, UpdatesInv, GroupInv

LEMMA ChangeInv == ASSUME IInv, changes < MaxChanges, changes' = changes + 1 PROVE changes' \in 0..MaxChanges
BY Bounds DEF IInv, GroupInv

\* Ghosts that only fall keep what was seen.
Lower(g, h) == h.admin <= g.admin /\ h.other <= g.other
Sooner == \A u \in Users : was[u] \in Ghost /\ was'[u] \in Ghost /\ Lower(was[u], was'[u])

LEMMA SawKept ==
  ASSUME Sooner, NEW u \in Users, NEW status, NEW age \in Nat, Saw(status, age, was[u])
  PROVE  Saw(status, age, was'[u])
BY Bounds DEF Sooner, Lower, Saw, Ghost

LEMMA JobOKKept ==
  ASSUME Sooner, NEW x, JobOK(x, was)
  PROVE  JobOK(x, was')
<1>1. x \in Job /\ x.age \in Nat
  BY Bounds DEF JobOK, Job
<1>2. ASSUME x.pc \in {"saveMember", "save", "recheck", "manage"}
      PROVE  \E s \in Status : x.seen = {s} /\ Saw(s, x.age, was'[x.who.of])
  <2>1. x.who.of \in Users
    BY <1>2 DEF JobOK, Asked
  <2> QED BY <1>1, <1>2, <2>1, SawKept DEF JobOK
<1>3. ASSUME x.pc = "saveAdmins", x.known, NEW u \in Users
      PROVE  Saw(IF u \in x.seen THEN "admin" ELSE "member", x.age, was'[u])
  BY <1>1, <1>3, SawKept DEF JobOK
<1> QED BY <1>2, <1>3 DEF JobOK

LEMMA TurnInv == ASSUME IInv, NEW u \in Users, Turn(u) PROVE IInv'
<1> DEFINE g == IF u \in truth THEN [was[u] EXCEPT !.other = 0] ELSE [was[u] EXCEPT !.admin = 0]
<1>1. /\ truth' = IF u \in truth THEN truth \ {u} ELSE truth \cup {u}
      /\ was' = [was EXCEPT ![u] = g]
      /\ UNCHANGED <<user, evidence, snapshot, bot, present, route, locked, job, changes>>
  BY DEF Turn, stored
<1>2. WasInv /\ was[u] \in Ghost
  BY DEF IInv, WasInv
<1>3. g \in Ghost /\ Lower(was[u], g) /\ (u \in truth => g.other = 0) /\ (u \notin truth => g.admin = 0)
  BY <1>2, Bounds DEF Ghost, Lower
<1> HIDE DEF g
<1>4. WasInv'
  BY <1>1, <1>2, <1>3 DEF WasInv, WasOK
<1>5. Sooner
  <2> SUFFICES ASSUME NEW v \in Users
               PROVE  was[v] \in Ghost /\ was'[v] \in Ghost /\ Lower(was[v], was'[v])
    BY DEF Sooner
  <2>1. was[v] \in Ghost
    BY <1>2 DEF WasInv
  <2>2. Lower(was[v], was[v])
    BY <2>1, Bounds DEF Lower, Ghost
  <2> QED BY <1>1, <1>2, <1>3, <2>1, <2>2 DEF WasInv
<1>6. UserInv'
  BY <1>1 DEF IInv, UserInv
<1>7. EvidenceInv'
  <2> SUFFICES ASSUME NEW v \in Users PROVE RowOK(evidence[v], user[v], was'[v])
    BY <1>1 DEF IInv, EvidenceInv
  <2>1. RowOK(evidence[v], user[v], was[v]) /\ evidence[v].age \in Nat
    BY Bounds DEF IInv, EvidenceInv, Row
  <2>2. Lower(was[v], was'[v]) /\ was[v] \in Ghost /\ was'[v] \in Ghost
    BY <1>5 DEF Sooner
  <2> QED BY <2>1, <2>2, Bounds DEF RowOK, Lower, Ghost
<1>8. SnapshotInv'
  <2> SUFFICES ASSUME SnapshotFresh, NEW v \in Users PROVE Covered(snapshot.age, evidence[v], user[v], was'[v])
    BY <1>1 DEF IInv, SnapshotInv, SnapshotFresh
  <2>1. Covered(snapshot.age, evidence[v], user[v], was[v]) /\ snapshot.age \in Nat
    BY Bounds DEF IInv, SnapshotInv
  <2>2. Lower(was[v], was'[v]) /\ was[v] \in Ghost /\ was'[v] \in Ghost
    BY <1>5 DEF Sooner
  <2> QED BY <2>1, <2>2, Bounds DEF Covered, Lower, Ghost
<1>9. UpdatesInv'
  <2> DEFINE n == [of |-> u, status |-> IF u \in truth THEN "member" ELSE "admin", age |-> 0, route |-> route]
  <2>1. updates' \subseteq updates \cup {n}
    BY DEF Turn
  <2>2. n \in Update /\ Saw(n.status, n.age, was'[n.of])
    <3>1. was'[u] = g
      BY <1>1, <1>2 DEF WasInv
    <3>2. route \in {1, 2} /\ 0 \in 0..Cap
      BY Bounds DEF IInv, GroupInv
    <3> QED BY <1>3, <3>1, <3>2 DEF Update, Status, Saw
  <2>3. \A e \in updates : e \in Update /\ e.of \in Users /\ e.age \in Nat /\ Saw(e.status, e.age, was[e.of])
    BY Bounds DEF IInv, UpdatesInv, Update
  <2> HIDE DEF n
  <2> QED BY <1>5, <2>1, <2>2, <2>3, SawKept DEF UpdatesInv
<1>10. JobInv'
  BY <1>1, <1>5, JobOKKept DEF IInv, JobInv
<1> QED BY <1>1, <1>4, <1>6, <1>7, <1>8, <1>9, <1>10 DEF IInv, GroupInv

LEMMA HandleInv == ASSUME IInv, NEW e \in updates, Handle(e) PROVE IInv'
<1> DEFINE o == [of |-> e.of, status |-> e.status, age |-> e.age]
<1>1. e \in Update /\ Saw(e.status, e.age, was[e.of])
  BY DEF IInv, UpdatesInv
<1>2. o \in Observation /\ Saw(o.status, o.age, was[o.of])
  BY <1>1 DEF Update, Observation
<1>3. UNCHANGED <<truth, locked, job, changes, was>> /\ updates' \subseteq updates
      /\ (SaveMember(o, 0) \/ UNCHANGED stored)
  BY DEF Handle
<1> HIDE DEF o
<1>4. StoreInv'
  BY <1>2, <1>3, SaveMemberInv, StoreSame
<1>5. JobInv'
  BY <1>3, JobMoves
<1> QED BY <1>3, <1>4, <1>5, StoreStep DEF IInv, GroupInv

LEMMA HandleBotInv == ASSUME IInv, HandleBot PROVE IInv'
<1>1. UNCHANGED <<truth, updates, locked, job, was>> /\ changes' \in 0..MaxChanges
  BY ChangeInv DEF HandleBot
<1>2. PICK s \in {"admin", "left", "unknown"}, age \in 0..Delay : SaveBot(s, age)
  BY DEF HandleBot
<1>3. age \in 0..Cap
  BY Bounds
<1>4. StoreInv'
  BY <1>1, <1>2, <1>3, SaveBotInv
<1> QED BY <1>1, <1>4, JobMoves, StoreStep DEF IInv, GroupInv

----------------------------------------------------------------------------
(***************************************************************************)
(* Time.                                                                   *)
(***************************************************************************)

\* Ages and ghosts grow alike, up to their bounds.
LEMMA Ageing ==
  /\ \A n \in 0..Cap : Older(n) \in 0..Cap
  /\ \A n \in 0..Freshness : Since(n) \in 0..Freshness
  /\ \A m, n \in 0..Cap : m <= n => Older(m) <= Older(n)
  /\ \A m \in 0..Freshness, n \in 0..Cap : m <= n => Since(m) <= Older(n)
  /\ \A n \in 0..Cap : Older(n) < Cap => n < Cap
  /\ \A n \in 0..Cap : Older(n) < Freshness => n < Freshness
BY Bounds DEF Older, Since

\* A ghost after a tick.
Grows(g, h) == h \in Ghost /\ h.admin <= Since(g.admin) /\ h.other <= Older(g.other)

LEMMA SawOlder ==
  ASSUME NEW g \in Ghost, NEW h, Grows(g, h), NEW status, NEW age \in 0..Cap, Saw(status, age, g)
  PROVE  Saw(status, Older(age), h)
<1>1. /\ g.admin \in 0..Freshness /\ g.other \in 0..Cap /\ h.admin \in Nat /\ h.other \in Nat
      /\ Older(age) \in Nat /\ Since(g.admin) \in Nat /\ Older(g.other) \in Nat
  BY Ageing, Bounds DEF Ghost, Grows
<1>2. g.admin <= age => Since(g.admin) <= Older(age)
  BY <1>1, Ageing
<1>3. g.other <= age => Older(g.other) <= Older(age)
  BY <1>1, Ageing
<1> QED BY <1>1, <1>2, <1>3 DEF Saw, Grows

LEMMA AgedJob ==
  ASSUME IInv, \A u \in Users : Grows(was[u], was'[u]), NEW a \in Actors
  PROVE  JobOK(Aged(job[a]), was')
<1> DEFINE x == job[a]
           y == Aged(x)
<1>1. JobOK(x, was) /\ WasInv
  BY DEF IInv, JobInv
<1>2. x \in Job /\ x.age \in 0..Cap
  BY <1>1 DEF JobOK, Job
<1>3. /\ y \in Job /\ y.pc = x.pc /\ y.who = x.who /\ y.seen = x.seen /\ y.known = x.known
      /\ y.age = Older(x.age)
  BY <1>2, Ageing DEF Aged, Job
<1> HIDE DEF x, y
<1>4. ASSUME y.pc \in {"saveMember", "save", "recheck", "manage"}
      PROVE  \E s \in Status : y.seen = {s} /\ Saw(s, y.age, was'[y.who.of])
  <2>1. x.who.of \in Users
    BY <1>1, <1>3, <1>4 DEF JobOK, Asked
  <2>2. PICK s \in Status : x.seen = {s} /\ Saw(s, x.age, was[x.who.of])
    BY <1>1, <1>3, <1>4 DEF JobOK
  <2>3. Saw(s, Older(x.age), was'[x.who.of])
    BY <1>1, <1>2, <2>1, <2>2, SawOlder DEF WasInv
  <2> QED BY <1>3, <2>2, <2>3
<1>5. ASSUME y.pc = "saveAdmins", y.known, NEW u \in Users
      PROVE  Saw(IF u \in y.seen THEN "admin" ELSE "member", y.age, was'[u])
  <2>1. Saw(IF u \in x.seen THEN "admin" ELSE "member", x.age, was[u])
    BY <1>1, <1>3, <1>5 DEF JobOK
  <2>2. Saw(IF u \in x.seen THEN "admin" ELSE "member", Older(x.age), was'[u])
    BY <1>1, <1>2, <2>1, SawOlder DEF WasInv
  <2> QED BY <1>3, <2>2
<1> QED BY <1>1, <1>3, <1>4, <1>5 DEF JobOK, y, x

LEMMA TickInv == ASSUME IInv, Tick PROVE IInv'
<1>1. UNCHANGED <<truth, present, route, locked, changes>>
  BY DEF Tick
<1>2. WasInv /\ UserInv /\ EvidenceInv /\ SnapshotInv
  BY DEF IInv
<1>3. \A u \in Users : /\ Grows(was[u], was'[u]) /\ WasOK(u, truth', was'[u])
  <2> SUFFICES ASSUME NEW u \in Users PROVE Grows(was[u], was'[u]) /\ WasOK(u, truth', was'[u])
    OBVIOUS
  <2>1. was'[u] = [admin |-> IF u \in truth THEN 0 ELSE Since(was[u].admin),
                   other |-> IF u \in truth THEN Older(was[u].other) ELSE 0]
    BY DEF Tick
  <2>2. was[u].admin \in 0..Freshness /\ was[u].other \in 0..Cap
    BY <1>2 DEF WasInv, Ghost
  <2>3. Since(was[u].admin) \in 0..Freshness /\ Older(was[u].other) \in 0..Cap
    BY <2>2, Ageing
  <2> QED BY <1>1, <2>1, <2>3, Bounds DEF Grows, WasOK, Ghost
<1>4. WasInv'
  <2>1. was' = [u \in Users |-> was'[u]]
    BY DEF Tick
  <2> QED BY <1>1, <1>2, <1>3, <2>1 DEF WasInv, Grows
<1>5. \A u \in Users :
        /\ user'[u] \in Stored /\ user'[u].state = user[u].state /\ user'[u].id = user[u].id
        /\ user'[u].generation = user[u].generation
        /\ user'[u].born = Older(user[u].born) /\ user'[u].since = Since(user[u].since)
  <2> SUFFICES ASSUME NEW u \in Users
               PROVE  /\ user'[u] \in Stored /\ user'[u].state = user[u].state /\ user'[u].id = user[u].id
                      /\ user'[u].generation = user[u].generation
                      /\ user'[u].born = Older(user[u].born) /\ user'[u].since = Since(user[u].since)
    OBVIOUS
  <2>1. user'[u] = [user[u] EXCEPT !.born = Older(user[u].born), !.since = Since(user[u].since)]
    BY DEF Tick
  <2>2. user[u] \in Stored
    BY <1>2 DEF UserInv
  <2>3. Older(user[u].born) \in 0..Cap /\ Since(user[u].since) \in 0..Freshness
    BY <2>2, Ageing DEF Stored
  <2> QED BY <2>1, <2>2, <2>3 DEF Stored
<1>6. \A u \in Users :
        /\ evidence'[u] \in Row /\ evidence'[u].live = evidence[u].live
        /\ evidence'[u].status = evidence[u].status /\ evidence'[u].candidate = evidence[u].candidate
        /\ evidence'[u].unresolved = evidence[u].unresolved /\ evidence'[u].age = Older(evidence[u].age)
  <2> SUFFICES ASSUME NEW u \in Users
               PROVE  /\ evidence'[u] \in Row /\ evidence'[u].live = evidence[u].live
                      /\ evidence'[u].status = evidence[u].status
                      /\ evidence'[u].candidate = evidence[u].candidate
                      /\ evidence'[u].unresolved = evidence[u].unresolved
                      /\ evidence'[u].age = Older(evidence[u].age)
    OBVIOUS
  <2>1. evidence'[u] = [evidence[u] EXCEPT !.age = Older(evidence[u].age)]
    BY DEF Tick, Aged
  <2>2. evidence[u] \in Row /\ Older(evidence[u].age) \in 0..Cap
    BY <1>2, Ageing DEF EvidenceInv, Row
  <2> QED BY <2>1, <2>2 DEF Row
<1>7. UserInv'
  <2>1. user' = [u \in Users |-> user'[u]]
    BY DEF Tick
  <2>2. ASSUME NEW u \in Users PROVE PersonOK(user'[u])
    <3>1. PersonOK(user[u]) /\ user[u].born \in 0..Cap /\ user[u].since \in 0..Freshness
      BY <1>2 DEF UserInv, Stored
    <3> QED BY <1>5, <3>1, Ageing DEF PersonOK
  <2> QED BY <1>5, <2>1, <2>2 DEF UserInv
<1>8. EvidenceInv'
  <2>1. evidence' = [u \in Users |-> evidence'[u]]
    BY DEF Tick
  <2>2. ASSUME NEW u \in Users PROVE RowOK(evidence'[u], user'[u], was'[u])
    <3>1. /\ RowOK(evidence[u], user[u], was[u]) /\ evidence[u].age \in 0..Cap
          /\ user[u].born \in 0..Cap /\ was[u] \in Ghost
      BY <1>2 DEF EvidenceInv, UserInv, WasInv, Row, Stored
    <3>2. evidence[u].status = "admin" => was'[u].admin <= Older(evidence[u].age)
      BY <1>3, <3>1, SawOlder DEF RowOK, Saw
    <3>3. ~evidence[u].live /\ Older(evidence[u].age) < Cap => was'[u].other <= Older(evidence[u].age)
      <4> SUFFICES ASSUME ~evidence[u].live, Older(evidence[u].age) < Cap
                   PROVE  was'[u].other <= Older(evidence[u].age)
        OBVIOUS
      <4>1. Saw("member", evidence[u].age, was[u])
        BY <3>1, Ageing DEF RowOK, Saw
      <4>2. Saw("member", Older(evidence[u].age), was'[u])
        BY <1>3, <3>1, <4>1, SawOlder
      <4> QED BY <4>2 DEF Saw
    <3>4. evidence[u].live /\ user[u].id > 1 => Older(evidence[u].age) <= Older(user[u].born)
      BY <3>1, Ageing DEF RowOK
    <3> QED BY <1>5, <1>6, <3>1, <3>2, <3>3, <3>4 DEF RowOK
  <2> QED BY <1>6, <2>1, <2>2 DEF EvidenceInv
<1>9. SnapshotInv'
  <2>1. snapshot' = [snapshot EXCEPT !.age = Older(snapshot.age)] /\ bot' = [bot EXCEPT !.age = Older(bot.age)]
    BY DEF Tick, Aged
  <2>2. /\ snapshot \in [known : BOOLEAN, age : 0..Cap, lapsed : BOOLEAN] /\ snapshot.age \in 0..Cap
        /\ bot \in [age : 0..Cap, lapsed : BOOLEAN] /\ bot.age \in 0..Cap
    BY <1>2 DEF SnapshotInv
  <2>3. /\ snapshot' \in [known : BOOLEAN, age : 0..Cap, lapsed : BOOLEAN]
        /\ snapshot'.age = Older(snapshot.age) /\ snapshot'.known = snapshot.known
        /\ snapshot'.lapsed = snapshot.lapsed
        /\ bot' \in [age : 0..Cap, lapsed : BOOLEAN]
    BY <2>1, <2>2, Ageing
  <2>4. ASSUME SnapshotFresh', NEW u \in Users
        PROVE  Covered(snapshot'.age, evidence'[u], user'[u], was'[u])
    <3>1. SnapshotFresh
      BY <2>2, <2>3, <2>4, Ageing DEF SnapshotFresh
    <3>2. Covered(snapshot.age, evidence[u], user[u], was[u])
      BY <1>2, <3>1 DEF SnapshotInv
    <3>3. /\ user[u].since \in 0..Freshness /\ was[u].other \in 0..Cap /\ evidence[u].age \in 0..Cap
      BY <1>2 DEF UserInv, WasInv, EvidenceInv, Stored, Ghost, Row
    <3>4. user[u].since <= snapshot.age => user'[u].since <= snapshot'.age
      BY <1>5, <2>2, <2>3, <3>3, Ageing
    <3>5. was[u].other <= snapshot.age => was'[u].other <= snapshot'.age
      <4>1. was'[u].other <= Older(was[u].other) /\ was'[u].other \in 0..Cap
        BY <1>3 DEF Grows, Ghost
      <4>2. Older(was[u].other) \in 0..Cap /\ Older(snapshot.age) \in 0..Cap
        BY <2>2, <3>3, Ageing
      <4>3. was[u].other <= snapshot.age => Older(was[u].other) <= Older(snapshot.age)
        BY <2>2, <3>3, Ageing
      <4> QED BY <2>3, <4>1, <4>2, <4>3
    <3>6. evidence[u].age <= snapshot.age => evidence'[u].age <= snapshot'.age
      BY <1>6, <2>2, <2>3, <3>3, Ageing
    <3> QED BY <1>5, <1>6, <3>2, <3>4, <3>5, <3>6 DEF Covered
  <2> QED BY <2>3, <2>4 DEF SnapshotInv
<1>10. UpdatesInv'
  <2> SUFFICES ASSUME NEW e \in updates
               PROVE  Aged(e) \in Update /\ Saw(Aged(e).status, Aged(e).age, was'[Aged(e).of])
    BY DEF Tick, UpdatesInv
  <2>1. e \in Update /\ e.of \in Users /\ e.age \in 0..Cap /\ Saw(e.status, e.age, was[e.of])
    BY DEF IInv, UpdatesInv, Update
  <2>2. Aged(e) \in Update /\ Aged(e).of = e.of /\ Aged(e).status = e.status /\ Aged(e).age = Older(e.age)
    BY <2>1, Ageing DEF Aged, Update
  <2>3. Saw(e.status, Older(e.age), was'[e.of])
    BY <1>2, <1>3, <2>1, SawOlder DEF WasInv
  <2> QED BY <2>2, <2>3
<1>11. JobInv'
  <2>1. \A a \in Actors : job'[a] = IF job[a].pc = "idle" THEN Idle ELSE Aged(job[a])
    BY DEF Tick
  <2>2. job' = [a \in Actors |-> job'[a]]
    BY DEF Tick
  <2> QED BY <1>3, <2>1, <2>2, AgedJob, IdleOK DEF JobInv
<1> QED BY <1>1, <1>4, <1>7, <1>8, <1>9, <1>10, <1>11 DEF IInv, GroupInv

----------------------------------------------------------------------------
(***************************************************************************)
(* Cycles and handlers.                                                    *)
(***************************************************************************)

\* A step of one actor that leaves the store alone.
LEMMA ActorStep ==
  ASSUME IInv, NEW a \in Actors, NEW x, JobOK(x, was), Moves(a, x),
         UNCHANGED <<truth, updates, stored, was>>, locked' \in BOOLEAN, changes' \in 0..MaxChanges
  PROVE  IInv'
<1>1. JobInv' /\ StoreInv'
  BY JobMoves, StoreSame
<1> QED BY <1>1, StoreStep

LEMMA JobOf ==
  ASSUME IInv, NEW a \in Actors
  PROVE  /\ JobOK(job[a], was) /\ job[a] \in Job /\ job[a].age \in 0..Cap /\ job[a].age \in Nat
         /\ route \in {1, 2} /\ locked \in BOOLEAN /\ changes \in 0..MaxChanges
<1>1. JobOK(job[a], was) /\ job[a] \in Job
  BY DEF IInv, JobInv, JobOK
<1> QED BY <1>1, Bounds DEF IInv, GroupInv, Job

\* What Telegram says of a person now is so, whatever the age of the question.
LEMMA SeenNow ==
  ASSUME IInv, NEW u \in Users, NEW s \in Answers(u), NEW age \in Nat
  PROVE  s \in Status /\ Saw(s, age, was[u])
<1>1. WasOK(u, truth, was[u]) /\ (s = StatusOf(u) \/ s = "unknown")
  BY DEF IInv, WasInv, Answers
<1> QED BY <1>1 DEF WasOK, StatusOf, Saw, Status

LEMMA CycleStartInv == ASSUME IInv, NEW r \in Runners, CycleStart(r) PROVE IInv'
<1> DEFINE x == [Idle EXCEPT !.pc = "bot", !.route = route]
<1>1. r \in Actors /\ locked' = TRUE /\ UNCHANGED <<truth, updates, stored, changes, was>> /\ Moves(r, x)
  BY DEF CycleStart, Actors
<1>2. route \in {1, 2} /\ changes \in 0..MaxChanges
  BY DEF IInv, GroupInv
<1>3. x \in Job /\ x.pc = "bot"
  BY <1>2, IdleOK DEF Job
<1> HIDE DEF x
<1>4. JobOK(x, was)
  BY <1>3 DEF JobOK
<1> QED BY <1>1, <1>2, <1>4, ActorStep

LEMMA AskAdminsInv == ASSUME IInv, NEW r \in Runners, AskAdmins(r) PROVE IInv'
<1>1. r \in Actors /\ UNCHANGED <<truth, updates, stored, locked, changes, was>>
  BY DEF AskAdmins, Actors
<1>2. PICK k \in BOOLEAN :
        Moves(r, [job[r] EXCEPT !.pc = "saveAdmins", !.known = k, !.seen = IF k THEN truth ELSE {}])
  BY DEF AskAdmins
<1> DEFINE x == [job[r] EXCEPT !.pc = "saveAdmins", !.known = k, !.seen = IF k THEN truth ELSE {}]
<1>3. job[r] \in Job /\ job[r].age \in Nat /\ locked \in BOOLEAN /\ changes \in 0..MaxChanges
  BY <1>1, JobOf
<1>4. truth \subseteq Users /\ was \in [Users -> Ghost] /\ \A u \in Users : WasOK(u, truth, was[u])
  BY DEF IInv, WasInv
<1>5. /\ x \in Job /\ x.pc = "saveAdmins" /\ x.known = k /\ x.seen = (IF k THEN truth ELSE {})
      /\ x.age = job[r].age
  BY <1>3, <1>4 DEF Job
<1> HIDE DEF x
<1>6. ASSUME x.known, NEW u \in Users
      PROVE  Saw(IF u \in x.seen THEN "admin" ELSE "member", x.age, was[u])
  <2>1. x.seen = truth
    BY <1>5, <1>6
  <2> QED BY <1>3, <1>4, <1>5, <2>1 DEF Saw, WasOK
<1>7. JobOK(x, was)
  BY <1>5, <1>6 DEF JobOK
<1> QED BY <1>1, <1>2, <1>3, <1>7, ActorStep DEF x

LEMMA AskMemberInv == ASSUME IInv, NEW r \in Runners, AskMember(r) PROVE IInv'
<1>1. r \in Actors /\ UNCHANGED <<truth, updates, stored, locked, changes, was>>
  BY DEF AskMember, Actors
<1>2. job[r] \in Job /\ job[r].age \in Nat /\ locked \in BOOLEAN /\ changes \in 0..MaxChanges
  BY <1>1, JobOf
<1>3. PICK w \in job[r].todo : \E s \in Answers(w.of) :
        Moves(r, [job[r] EXCEPT !.pc = "saveMember", !.who = w, !.seen = {s}])
  BY DEF AskMember
<1>4. PICK s \in Answers(w.of) :
        Moves(r, [job[r] EXCEPT !.pc = "saveMember", !.who = w, !.seen = {s}])
  BY <1>3
<1> DEFINE x == [job[r] EXCEPT !.pc = "saveMember", !.who = w, !.seen = {s}]
<1>5. w \in Asked /\ w.of \in Users
  BY <1>2 DEF Job, Asked
<1>6. s \in Status /\ Saw(s, job[r].age, was[w.of])
  BY <1>2, <1>5, SeenNow
<1>7. x \in Job /\ x.pc = "saveMember" /\ x.who = w /\ x.seen = {s} /\ x.age = job[r].age
  BY <1>2, <1>5, <1>6 DEF Job
<1> HIDE DEF x
<1>8. JobOK(x, was)
  BY <1>5, <1>6, <1>7 DEF JobOK
<1> QED BY <1>1, <1>2, <1>4, <1>8, ActorStep DEF x

LEMMA EndsInv ==
  ASSUME IInv, NEW r \in Runners, Mismatch(r) \/ CycleEnd(r)
  PROVE  IInv'
<1>1. /\ r \in Actors /\ UNCHANGED <<truth, updates, stored, changes, was>> /\ Moves(r, Idle)
      /\ locked' = FALSE /\ changes \in 0..MaxChanges
  BY DEF Mismatch, CycleEnd, Ends, Actors, IInv, GroupInv
<1> QED BY <1>1, IdleOK, ActorStep

LEMMA CrashInv == ASSUME IInv, NEW r \in Runners, Crash(r) PROVE IInv'
<1>1. r \in Actors /\ UNCHANGED <<truth, updates, stored, locked, was>> /\ Moves(r, Idle)
      /\ changes' \in 0..MaxChanges
  BY ChangeInv DEF Crash, Actors
<1> QED BY <1>1, IdleOK, ActorStep DEF IInv, GroupInv

LEMMA KeepBotInv == ASSUME IInv, NEW r \in Runners, KeepBot(r) PROVE IInv'
<1> DEFINE x == [job[r] EXCEPT !.pc = "admins"]
<1>1. r \in Actors /\ UNCHANGED <<truth, updates, locked, changes, was>> /\ Moves(r, x)
  BY DEF KeepBot, Actors
<1>2. PICK s \in {"admin", "left", "unknown"} : SaveBot(s, job[r].age)
  BY DEF KeepBot
<1>3. job[r] \in Job /\ job[r].age \in 0..Cap /\ locked \in BOOLEAN /\ changes \in 0..MaxChanges
  BY <1>1, JobOf
<1>4. x \in Job /\ x.pc = "admins"
  BY <1>3 DEF Job
<1> HIDE DEF x
<1>5. JobOK(x, was)
  BY <1>4 DEF JobOK
<1>6. JobInv' /\ StoreInv'
  BY <1>1, <1>2, <1>3, <1>5, JobMoves, SaveBotInv
<1> QED BY <1>1, <1>3, <1>6, StoreStep

LEMMA KeepAdminsInv == ASSUME IInv, NEW r \in Runners, KeepAdmins(r) PROVE IInv'
<1> DEFINE x == [job[r] EXCEPT !.pc = "list", !.seen = {}, !.known = FALSE]
<1>1. r \in Actors /\ UNCHANGED <<truth, updates, locked, changes, was>> /\ Moves(r, x)
      /\ job[r].pc = "saveAdmins" /\ SaveAdmins(job[r].known, job[r].seen, job[r].age)
  BY DEF KeepAdmins, Actors
<1>2. /\ JobOK(job[r], was) /\ job[r] \in Job /\ job[r].age \in 0..Cap
      /\ locked \in BOOLEAN /\ changes \in 0..MaxChanges
  BY <1>1, JobOf
<1>3. x \in Job /\ x.pc = "list"
  BY <1>2 DEF Job
<1> HIDE DEF x
<1>4. JobOK(x, was)
  BY <1>3 DEF JobOK
<1>5. job[r].known \in BOOLEAN
      /\ (job[r].known => \A u \in Users : Saw(IF u \in job[r].seen THEN "admin" ELSE "member", job[r].age, was[u]))
  BY <1>1, <1>2 DEF JobOK, Job
<1>6. JobInv' /\ StoreInv'
  BY <1>1, <1>2, <1>4, <1>5, JobMoves, SaveAdminsInv
<1> QED BY <1>1, <1>2, <1>6, StoreStep

LEMMA ListRelevantInv == ASSUME IInv, NEW r \in Runners, ListRelevant(r) PROVE IInv'
<1> DEFINE todo == {[of |-> u, id |-> user[u].id] : u \in Relevant}
           x == [job[r] EXCEPT !.pc = "members", !.todo = todo]
<1>1. r \in Actors /\ UNCHANGED <<truth, updates, stored, locked, changes, was>> /\ Moves(r, x)
  BY DEF ListRelevant, Actors
<1>2. job[r] \in Job /\ locked \in BOOLEAN /\ changes \in 0..MaxChanges
  BY <1>1, JobOf
<1>3. todo \subseteq Asked
  BY DEF Relevant, Asked, IInv, UserInv, Stored
<1> HIDE DEF todo
<1>4. x \in Job /\ x.pc = "members"
  BY <1>2, <1>3 DEF Job
<1> HIDE DEF x
<1>5. JobOK(x, was)
  BY <1>4 DEF JobOK
<1> QED BY <1>1, <1>2, <1>5, ActorStep

\* What a cycle or a handler stores is what it was told of that person.
LEMMA AnsweredOK ==
  ASSUME IInv, NEW a \in Actors, job[a].pc \in {"saveMember", "save"}
  PROVE  /\ Answered(a) \in Observation
         /\ Saw(Answered(a).status, Answered(a).age, was[Answered(a).of])
<1>1. /\ JobOK(job[a], was) /\ job[a].age \in 0..Cap
  BY JobOf
<1>2. job[a].who \in Asked /\ job[a].who.of \in Users
  BY <1>1 DEF JobOK, Asked
<1>3. PICK s \in Status : job[a].seen = {s} /\ Saw(s, job[a].age, was[job[a].who.of])
  BY <1>1 DEF JobOK
<1>4. (CHOOSE t \in job[a].seen : TRUE) = s
  BY <1>3
<1>5. Answered(a) = [of |-> job[a].who.of, status |-> s, age |-> job[a].age]
  BY <1>4 DEF Answered
<1> QED BY <1>1, <1>2, <1>3, <1>5 DEF Observation

LEMMA KeepMemberInv == ASSUME IInv, NEW r \in Runners, KeepMember(r) PROVE IInv'
<1> DEFINE x == [job[r] EXCEPT !.pc = "members", !.seen = {}, !.who = Nobody,
                               !.todo = job[r].todo \ {job[r].who}]
<1>1. r \in Actors /\ UNCHANGED <<truth, updates, locked, changes, was>> /\ Moves(r, x)
      /\ job[r].pc = "saveMember" /\ SaveMember(Answered(r), job[r].who.id)
  BY DEF KeepMember, Actors
<1>2. job[r] \in Job /\ locked \in BOOLEAN /\ changes \in 0..MaxChanges
  BY <1>1, JobOf
<1>3. x \in Job /\ x.pc = "members"
  BY <1>2 DEF Job
<1> HIDE DEF x
<1>4. JobOK(x, was)
  BY <1>3 DEF JobOK
<1>5. JobInv'
  BY <1>1, <1>4, JobMoves
<1>6. StoreInv'
  BY <1>1, AnsweredOK, SaveMemberInv
<1> QED BY <1>1, <1>2, <1>5, <1>6, StoreStep

LEMMA VerifyInv == ASSUME IInv, NEW h \in Handlers, Verify(h) PROVE IInv'
<1>1. h \in Actors /\ UNCHANGED <<truth, updates, stored, locked, changes, was>>
      /\ route \in {1, 2} /\ locked \in BOOLEAN /\ changes \in 0..MaxChanges
  BY DEF Verify, Actors, IInv, GroupInv
<1>2. PICK u \in Users :
        Moves(h, [Idle EXCEPT !.pc = "ask", !.who = [of |-> u, id |-> user[u].id], !.route = route])
  BY DEF Verify
<1> DEFINE w == [of |-> u, id |-> user[u].id]
           x == [Idle EXCEPT !.pc = "ask", !.who = w, !.route = route]
<1>3. w \in Asked
  BY DEF Asked, IInv, UserInv, Stored
<1>4. Moves(h, x)
  BY <1>2
<1> HIDE DEF w
<1>5. x \in Job /\ x.pc = "ask" /\ x.who = w
  BY <1>1, <1>3, IdleOK DEF Job
<1> HIDE DEF x
<1>6. JobOK(x, was)
  BY <1>3, <1>5 DEF JobOK
<1> QED BY <1>1, <1>4, <1>6, ActorStep

LEMMA AnswerInv == ASSUME IInv, NEW h \in Handlers, Answer(h) PROVE IInv'
<1>1. h \in Actors /\ UNCHANGED <<truth, updates, stored, locked, changes, was>> /\ job[h].pc = "ask"
  BY DEF Answer, Actors
<1>2. /\ JobOK(job[h], was) /\ job[h] \in Job /\ job[h].age \in Nat
      /\ locked \in BOOLEAN /\ changes \in 0..MaxChanges
  BY <1>1, JobOf
<1>3. PICK s \in Answers(job[h].who.of) : Moves(h, [job[h] EXCEPT !.pc = "save", !.seen = {s}])
  BY DEF Answer
<1> DEFINE x == [job[h] EXCEPT !.pc = "save", !.seen = {s}]
<1>4. job[h].who \in Asked /\ job[h].who.of \in Users
  BY <1>1, <1>2 DEF JobOK, Asked
<1>5. s \in Status /\ Saw(s, job[h].age, was[job[h].who.of])
  BY <1>2, <1>4, SeenNow
<1>6. x \in Job /\ x.pc = "save" /\ x.who = job[h].who /\ x.seen = {s} /\ x.age = job[h].age
  BY <1>2, <1>5 DEF Job
<1> HIDE DEF x
<1>7. JobOK(x, was)
  BY <1>4, <1>5, <1>6 DEF JobOK
<1> QED BY <1>1, <1>2, <1>3, <1>7, ActorStep DEF x

\* A handler that goes on holds what it was told.
LEMMA GoesOn ==
  ASSUME IInv, NEW a \in Actors, NEW pc \in {"recheck", "manage"}, job[a].pc \in {"save", "recheck"},
         pc = "manage" => job[a].seen = {"admin"}
  PROVE  JobOK([job[a] EXCEPT !.pc = pc], was)
<1> DEFINE x == [job[a] EXCEPT !.pc = pc]
<1>1. JobOK(job[a], was) /\ job[a] \in Job
  BY JobOf
<1>2. /\ x \in Job /\ x.pc = pc /\ x.who = job[a].who /\ x.seen = job[a].seen /\ x.age = job[a].age
  BY <1>1 DEF Job
<1>3. /\ job[a].who \in Asked
      /\ \E s \in Status : job[a].seen = {s} /\ Saw(s, job[a].age, was[job[a].who.of])
  BY <1>1 DEF JobOK
<1> HIDE DEF x
<1>4. JobOK(x, was)
  BY <1>2, <1>3 DEF JobOK
<1> QED BY <1>4 DEF x

LEMMA VerifiedInv == ASSUME IInv, NEW h \in Handlers, Verified(h) PROVE IInv'
<1>1. h \in Actors /\ UNCHANGED <<truth, updates, locked, changes, was>> /\ job[h].pc = "save"
      /\ locked \in BOOLEAN /\ changes \in 0..MaxChanges
  BY DEF Verified, Actors, IInv, GroupInv
<1>2. CASE job[h].route = route
  <2>1. SaveMember(Answered(h), job[h].who.id) /\ Moves(h, [job[h] EXCEPT !.pc = "recheck"])
    BY <1>2 DEF Verified
  <2>2. JobOK([job[h] EXCEPT !.pc = "recheck"], was)
    BY <1>1, GoesOn
  <2>3. JobInv'
    BY <1>1, <2>1, <2>2, JobMoves
  <2>4. StoreInv'
    BY <1>1, <2>1, AnsweredOK, SaveMemberInv
  <2> QED BY <1>1, <2>3, <2>4, StoreStep
<1>3. CASE job[h].route # route
  <2>1. Moves(h, Idle) /\ UNCHANGED stored
    BY <1>3 DEF Verified
  <2> QED BY <1>1, <2>1, IdleOK, ActorStep
<1> QED BY <1>2, <1>3

LEMMA RecheckInv == ASSUME IInv, NEW h \in Handlers, Recheck(h) PROVE IInv'
<1>1. h \in Actors /\ UNCHANGED <<truth, updates, stored, locked, changes, was>> /\ job[h].pc = "recheck"
      /\ locked \in BOOLEAN /\ changes \in 0..MaxChanges
  BY DEF Recheck, Actors, IInv, GroupInv
<1>2. CASE StillCurrent(h) /\ job[h].age < Freshness
  <2>1. Moves(h, [job[h] EXCEPT !.pc = "manage"]) /\ job[h].seen = {"admin"}
    BY <1>2 DEF Recheck, StillCurrent
  <2>2. JobOK([job[h] EXCEPT !.pc = "manage"], was)
    BY <1>1, <2>1, GoesOn
  <2> QED BY <1>1, <2>1, <2>2, ActorStep
<1>3. CASE ~(StillCurrent(h) /\ job[h].age < Freshness)
  <2>1. Moves(h, Idle)
    BY <1>3 DEF Recheck
  <2> QED BY <1>1, <2>1, IdleOK, ActorStep
<1> QED BY <1>2, <1>3

LEMMA ManageInv == ASSUME IInv, NEW h \in Handlers, Manage(h) PROVE IInv'
<1>1. h \in Actors /\ UNCHANGED <<truth, updates, stored, locked, changes, was>> /\ Moves(h, Idle)
      /\ locked \in BOOLEAN /\ changes \in 0..MaxChanges
  BY DEF Manage, Actors, IInv, GroupInv
<1> QED BY <1>1, IdleOK, ActorStep

----------------------------------------------------------------------------
(***************************************************************************)
(* Deletion, recovery, a new start and migration.                          *)
(***************************************************************************)

\* One person's row changes to one that starts now, or is deleted.
LEMMA PersonStep ==
  ASSUME IInv, NEW u \in Users, NEW k \in Stored, PersonOK(k), k.state = "active" => k.since = 0,
         NEW row \in Row, RowOK(row, k, was[u]),
         user' = [user EXCEPT ![u] = k], evidence' = [evidence EXCEPT ![u] = row],
         UNCHANGED <<truth, updates, snapshot, bot, present, route, locked, job, was>>,
         changes' \in 0..MaxChanges
  PROVE  IInv'
<1>1. UserInv /\ EvidenceInv /\ SnapshotInv
  BY DEF IInv
<1>2. UserInv'
  BY <1>1 DEF UserInv
<1>3. EvidenceInv'
  BY <1>1 DEF EvidenceInv, UserInv
<1>4. SnapshotInv'
  <2> SUFFICES ASSUME SnapshotFresh, NEW v \in Users
               PROVE  Covered(snapshot.age, evidence'[v], user'[v], was[v])
    BY <1>1 DEF SnapshotInv, SnapshotFresh
  <2>1. snapshot.age \in Nat
    BY <1>1, Bounds DEF SnapshotInv
  <2>2. Covered(snapshot.age, row, k, was[u])
    BY <2>1 DEF Covered
  <2>3. Covered(snapshot.age, evidence[v], user[v], was[v])
    BY <1>1 DEF SnapshotInv
  <2> QED BY <1>1, <2>2, <2>3 DEF UserInv, EvidenceInv
<1>5. JobInv'
  BY JobMoves
<1> QED BY <1>2, <1>3, <1>4, <1>5, StoreStep DEF StoreInv, IInv, GroupInv

LEMMA PersonsInv ==
  ASSUME IInv, NEW u \in Users, Delete(u) \/ Restore(u) \/ Fresh(u)
  PROVE  IInv'
<1>1. /\ user[u] \in Stored /\ PersonOK(user[u]) /\ evidence[u] \in Row
      /\ RowOK(evidence[u], user[u], was[u]) /\ evidence = [evidence EXCEPT ![u] = evidence[u]]
  BY DEF IInv, UserInv, EvidenceInv
<1>2. UNCHANGED <<truth, updates, snapshot, bot, present, route, locked, job, was>>
  BY DEF Delete, Restore, Fresh
<1>3. CASE Delete(u)
  <2> DEFINE k == [user[u] EXCEPT !.state = "deleted"]
  <2>1. user' = [user EXCEPT ![u] = k] /\ evidence' = evidence /\ user[u].state = "active"
        /\ changes' \in 0..MaxChanges
    BY <1>3 DEF Delete, IInv, GroupInv
  <2>2. /\ k \in Stored /\ k.state = "deleted" /\ k.id = user[u].id /\ k.generation = user[u].generation
        /\ k.born = user[u].born /\ k.since = user[u].since
    BY <1>1 DEF Stored
  <2> HIDE DEF k
  <2>3. PersonOK(k) /\ RowOK(evidence[u], k, was[u])
    BY <1>1, <2>2 DEF PersonOK, RowOK
  <2> QED BY <1>1, <1>2, <2>1, <2>2, <2>3, PersonStep
<1>4. CASE Restore(u)
  <2> DEFINE k == [user[u] EXCEPT !.state = "active", !.generation = user[u].generation + 1, !.since = 0]
  <2>1. user' = [user EXCEPT ![u] = k] /\ evidence' = evidence /\ changes' \in 0..MaxChanges
    BY <1>4, ChangeInv DEF Restore, Change
  <2>2. 0 \in 0..Freshness /\ user[u].generation + 1 \in Nat \ {0} /\ user[u].generation + 1 > 1
        /\ user[u].born \in Nat
    BY <1>1, Bounds DEF Stored
  <2>3. /\ k \in Stored /\ k.state = "active" /\ k.id = user[u].id
        /\ k.generation = user[u].generation + 1 /\ k.born = user[u].born /\ k.since = 0
    BY <1>1, <2>2 DEF Stored
  <2> HIDE DEF k
  <2>4. PersonOK(k) /\ RowOK(evidence[u], k, was[u])
    BY <1>1, <2>2, <2>3 DEF PersonOK, RowOK
  <2> QED BY <1>1, <1>2, <2>1, <2>3, <2>4, PersonStep
<1>5. CASE Fresh(u)
  <2> DEFINE k == [state |-> "active", id |-> user[u].id + 1, generation |-> user[u].generation + 1,
                   born |-> 0, since |-> 0]
  <2>1. user' = [user EXCEPT ![u] = k] /\ evidence' = [evidence EXCEPT ![u] = NoRow]
        /\ changes' \in 0..MaxChanges
    BY <1>5, ChangeInv DEF Fresh, Change
  <2>2. 0 \in 0..Freshness /\ 0 \in 0..Cap /\ user[u].generation + 1 \in Nat \ {0}
        /\ user[u].generation + 1 > 1 /\ user[u].id + 1 \in Nat \ {0}
    BY <1>1, Bounds DEF Stored
  <2>3. k \in Stored /\ k.state = "active" /\ k.generation > 1 /\ k.born = 0 /\ k.since = 0
    BY <2>2 DEF Stored
  <2>4. PersonOK(k)
    BY <2>3 DEF PersonOK
  <2>5. NoRow \in Row /\ RowOK(NoRow, k, was[u])
    BY Bounds DEF NoRow, Row, RowOK, Status
  <2> HIDE DEF k
  <2> QED BY <1>2, <2>1, <2>3, <2>4, <2>5, PersonStep
<1> QED BY <1>3, <1>4, <1>5

LEMMA MigrateInv == ASSUME IInv, Migrate PROVE IInv'
<1>1. /\ UNCHANGED <<truth, updates, user, evidence, present, locked, job, was>> /\ route' = 2
      /\ snapshot' = [snapshot EXCEPT !.known = FALSE, !.lapsed = TRUE]
      /\ bot' = [bot EXCEPT !.lapsed = TRUE] /\ changes' \in 0..MaxChanges
  BY ChangeInv DEF Migrate, Change
<1>2. SnapshotInv'
  <2>1. /\ snapshot' \in [known : BOOLEAN, age : 0..Cap, lapsed : BOOLEAN] /\ snapshot'.lapsed
        /\ bot' \in [age : 0..Cap, lapsed : BOOLEAN]
    BY <1>1 DEF IInv, SnapshotInv
  <2> QED BY <2>1 DEF SnapshotInv, SnapshotFresh
<1>3. UserInv' /\ EvidenceInv'
  BY <1>1 DEF IInv, UserInv, EvidenceInv
<1>4. JobInv'
  BY <1>1, JobMoves
<1> QED BY <1>1, <1>2, <1>3, <1>4, StoreStep DEF StoreInv, IInv, GroupInv

LEMMA LockExpiresInv == ASSUME IInv, LockExpires PROVE IInv'
<1>1. UNCHANGED <<truth, updates, stored, job, changes, was>> /\ locked' = FALSE
  BY DEF LockExpires
<1>2. JobInv' /\ StoreInv'
  BY <1>1, JobMoves, StoreSame
<1> QED BY <1>1, <1>2, StoreStep DEF IInv, GroupInv

----------------------------------------------------------------------------
LEMMA NextInv == ASSUME IInv, Next PROVE IInv'
<1>1. CASE \E u \in Users : Turn(u)
  BY <1>1, TurnInv
<1>2. CASE \E e \in updates : Handle(e)
  BY <1>2, HandleInv
<1>3. CASE HandleBot
  BY <1>3, HandleBotInv
<1>4. CASE \E r \in Runners : Cycle(r) \/ Crash(r)
  BY <1>4, CycleStartInv, KeepBotInv, AskAdminsInv, KeepAdminsInv, ListRelevantInv, AskMemberInv,
     KeepMemberInv, EndsInv, CrashInv DEF Cycle
<1>5. CASE \E h \in Handlers : Check(h)
  BY <1>5, VerifyInv, AnswerInv, VerifiedInv, RecheckInv, ManageInv DEF Check
<1>6. CASE \E u \in Users : Delete(u) \/ Restore(u) \/ Fresh(u)
  BY <1>6, PersonsInv
<1>7. CASE Migrate \/ Tick \/ LockExpires
  BY <1>7, MigrateInv, TickInv, LockExpiresInv
<1> QED BY <1>1, <1>2, <1>3, <1>4, <1>5, <1>6, <1>7 DEF Next

LEMMA StutterInv == ASSUME IInv, UNCHANGED vars PROVE IInv'
<1>1. UNCHANGED <<truth, updates, stored, job, changes, locked, was>>
  BY DEF vars, stored
<1>2. JobInv' /\ StoreInv'
  BY <1>1, JobMoves, StoreSame
<1> QED BY <1>1, <1>2, StoreStep DEF IInv, GroupInv

----------------------------------------------------------------------------
\* Evidence, snapshot, answers under way and the ghosts stay in order, however
\* events, cycles, checks, deletions and migrations interleave.
THEOREM Invariance == Spec => []IInv
<1>1. IInv /\ [Next]_vars => IInv'
  BY NextInv, StutterInv
<1> QED BY <1>1, InitInv, PTL DEF Spec

\* Whoever holds an administrator's authority, or is let manage a group by
\* Telegram's answer, was one within the time for which evidence holds
\* (SQLAlchemyMembershipRepository.save_member, GroupManagementService.can_manage).
THEOREM Authority == Spec => []AuthorityBounded
<1>1. IInv => AuthorityBounded
  <2> SUFFICES ASSUME IInv PROVE AuthorityBounded
    OBVIOUS
  <2>1. ASSUME NEW u \in Users, LocalAdmin(u)
        PROVE  was[u].admin < Freshness
    <3>1. evidence[u].status = "admin" /\ ~(evidence[u].age >= Freshness)
      BY <2>1 DEF LocalAdmin, Expired
    <3>2. RowOK(evidence[u], user[u], was[u]) /\ evidence[u].age \in Nat /\ was[u].admin \in Nat
      BY Bounds DEF IInv, EvidenceInv, WasInv, Row, Ghost
    <3> QED BY <3>1, <3>2, Bounds DEF RowOK
  <2>2. ASSUME NEW h \in Handlers, job[h].pc = "manage"
        PROVE  was[job[h].who.of].admin <= job[h].age
    <3>1. h \in Actors
      BY DEF Actors
    <3>2. JobOK(job[h], was)
      BY <3>1, JobOf
    <3>3. job[h].seen = {"admin"} /\ \E s \in Status : job[h].seen = {s} /\ Saw(s, job[h].age, was[job[h].who.of])
      BY <2>2, <3>2 DEF JobOK
    <3>4. Saw("admin", job[h].age, was[job[h].who.of])
      BY <3>3
    <3> QED BY <3>4 DEF Saw
  <2> QED BY <2>1, <2>2 DEF AuthorityBounded, Supports
<1> QED BY <1>1, Invariance, PTL

\* A group in which a restricted person has been an administrator for as long
\* as evidence holds is not open (ChatStatusService.evaluate_access).
THEOREM Suspension == Spec => []BannedAdminSuspends
<1>1. IInv => BannedAdminSuspends
  <2> SUFFICES ASSUME IInv, Open, NEW u \in Users, user[u].state = "active"
               PROVE  was[u].other < Freshness \/ user[u].since < Freshness
    BY DEF BannedAdminSuspends
  <2>1. SnapshotFresh /\ ~Proven(u) /\ ~Unclear(u)
    BY DEF Open
  <2>2. /\ evidence[u] \in Row /\ RowOK(evidence[u], user[u], was[u]) /\ was[u] \in Ghost /\ user[u] \in Stored
        /\ Covered(snapshot.age, evidence[u], user[u], was[u]) /\ snapshot.age \in Nat
    BY <2>1, Bounds DEF IInv, EvidenceInv, WasInv, UserInv, SnapshotInv
  <2>3. ~evidence[u].live
    <3> SUFFICES ASSUME evidence[u].live PROVE FALSE
      OBVIOUS
    <3>1. Current(u) /\ Candidate(u) /\ evidence[u].status \in {"unknown", "admin"}
      BY <2>2 DEF RowOK, Current, Candidate, Row, Status
    <3> QED BY <2>1, <3>1 DEF Proven, Unclear
  <2>4. snapshot.age < Freshness
    BY <2>1 DEF SnapshotFresh
  <2>5. was[u].other \in Nat /\ user[u].since \in Nat
    BY <2>2, Bounds DEF Ghost, Stored
  <2> QED BY <2>2, <2>3, <2>4, <2>5, Bounds DEF Covered
<1> QED BY <1>1, Invariance, PTL

\* Absence was seen, and nothing about a person's former row counts for the
\* row of a new start (SQLAlchemyMembershipRepository.save_member).
THEOREM Evidence == Spec => []EvidenceObserved
<1>1. IInv => EvidenceObserved
  <2> SUFFICES ASSUME IInv PROVE TypeOK /\ AbsenceObserved /\ FreshUnproven
    BY DEF EvidenceObserved
  <2>1. TypeOK
    <3>1. Freshness \in 0..Cap
      BY Bounds
    <3>2. was \in [Users -> [admin : 0..Cap, other : 0..Cap]]
      BY Bounds DEF IInv, WasInv, Ghost
    <3> QED BY <3>2 DEF IInv, WasInv, UserInv, EvidenceInv, SnapshotInv, GroupInv, Stored, Row, Status, TypeOK
  <2>2. AbsenceObserved /\ FreshUnproven
    BY DEF IInv, EvidenceInv, RowOK, AbsenceObserved, FreshUnproven
  <2> QED BY <2>1, <2>2
<1> QED BY <1>1, Invariance, PTL

=============================================================================
