------------------------------ MODULE JobProofs ------------------------------
(****************************************************************************)
(* Proofs about the admission store and the job pipeline that runs on it,   *)
(* for every number of jobs, workers, subjects, ingress keys and lanes,     *)
(* every limit, deadline, cap and grace, and whatever fails, repeats or     *)
(* crashes.  The store first, for every caller.                             *)
(****************************************************************************)
EXTENDS FeatureJobs, FiniteSetTheorems, TLAPS

(****************************************************************************)
(* The inductive invariant.  RecordInv strengthens RecordsReadable: a       *)
(* reservation is only ever held from the first attempt on, which is what   *)
(* makes the record of a queued settlement readable.                        *)
(****************************************************************************)
RecordInv(j, r) ==
  /\ r.state # "ABSENT" => Readable(j, r)
  /\ r.state = "ABSENT" => r.settlement = NoIntent /\ r.outcome = "NONE"
  /\ r.reserved => r.attempt > 0
  /\ r.state = "TERMINAL" /\ r.reserved =>
       r.settlement # NoIntent /\ r.settlement.outcome = r.outcome
  /\ r.state \in {"ACCEPTED", "ENQUEUED"} => (r.attempt = 0 <=> r.stage = "MEDIA")
  /\ r.state = "WAITING" => r.attempt > 0

\* What one operation may do to the record of a ticket that stays stored.
RecordStep(o, r) ==
  /\ o.state \in OwnedStates /\ r.state \in OwnedStates => r.token = o.token
  /\ o.state = "CANCELLING" => r.state \in {"CANCELLING", "SETTLING", "TERMINAL"}
  /\ o.state = "DELIVERY_UNCERTAIN" => r.state \in {"DELIVERY_UNCERTAIN", "SETTLING"}
  /\ o.settlement # NoIntent => r.settlement = o.settlement
  /\ o.outcome # "NONE" => r.outcome = o.outcome

RecordsOK == \A j \in Jobs : RecordInv(j, ticket[j])

IndexesOK ==
  /\ pending = ActiveJobs
  /\ HandoffExact
  /\ LanesExact
  /\ DedupeExact
  /\ NoOrphanPayload

IInv == TypeOK /\ RecordsOK /\ IndexesOK

\* handoff follows the state of the ticket.
Indexed(j, r) == IF r.state = "ACCEPTED" THEN handoff \union {j} ELSE handoff \ {j}

Moves(j, r) == RecordInv(j, r) /\ RecordStep(ticket[j], r)

\* Every operation has one of six shapes.
Retains(j, r) ==
  Active(j) /\ r.state \in ActiveStates /\ Moves(j, r) /\ Retain(j, r, Indexed(j, r))
Releases(j, r) ==
  Active(j) /\ r.state = "TERMINAL" /\ Moves(j, r) /\ Release(j, r)
Annotates(j, r) ==
  ticket[j].state = "TERMINAL" /\ r.state = "TERMINAL" /\ Moves(j, r) /\ Annotate(j, r)

Shaped(j) ==
  \/ Admit(j)
  \/ \E r \in Record : Retains(j, r)
  \/ \E r \in Record : Releases(j, r)
  \/ \E r \in Record : Annotates(j, r)
  \/ Retire(j)
  \/ PayloadLapse(j)

\* The index an operation leaves alone is already the one its state calls for.
LEMMA SameIndex ==
  ASSUME IInv, NEW j \in Jobs, NEW r \in Record,
         r.state = "ACCEPTED" <=> ticket[j].state = "ACCEPTED"
  PROVE  Indexed(j, r) = handoff
BY DEF IInv, IndexesOK, HandoffExact, Indexed

USE DEF QueuedStates, OwnedStates, ActiveStates

\* Queued work that stops without running, cancelled or expired.
LEMMA QueuedTerminalShaped ==
  ASSUME IInv, NEW j \in Jobs, Queued(j), NEW o \in Outcomes, QueuedTerminal(j, o)
  PROVE  Shaped(j)
<1> USE DEF Moves, RecordInv, RecordStep, Readable
<1>0. ticket[j] \in Record /\ RecordInv(j, ticket[j])
  BY DEF IInv, TypeOK, RecordsOK
<1>1. CASE ticket[j].reserved
  <2> DEFINE r == [ticket[j] EXCEPT !.state = "SETTLING",
                                    !.token = RecoveryToken,
                                    !.settlement = [outcome |-> o,
                                                    actual |-> "zero"]]
  <2>1. [outcome |-> o, actual |-> "zero"] \in Intents
    BY DEF Intents
  <2>2. r \in Record
    BY <1>0, <2>1 DEF Record
  <2>3. Moves(j, r)
    BY <1>0, <1>1 DEF Queued, Record, Outcomes, NoIntent, NoToken, RecoveryToken
  <2>4. Retain(j, r, Indexed(j, r))
    BY <1>0, <1>1 DEF QueuedTerminal, Indexed, Record
  <2>5. Active(j) /\ r.state \in ActiveStates
    BY <1>0 DEF Queued, Active, Record
  <2> QED BY <2>2, <2>3, <2>4, <2>5 DEF Shaped, Retains
<1>2. CASE ~ticket[j].reserved
  <2> DEFINE r == [ticket[j] EXCEPT !.state = "TERMINAL",
                                    !.outcome = o,
                                    !.requested = @ \union {"TERMINAL"}]
  <2>2. r \in Record
    BY <1>0 DEF Record
  <2>3. Moves(j, r)
    BY <1>0, <1>2 DEF Queued, Record, Outcomes
  <2>4. Release(j, r)
    BY <1>2 DEF QueuedTerminal
  <2>5. Active(j) /\ r.state = "TERMINAL"
    BY <1>0 DEF Queued, Active, Record
  <2> QED BY <2>2, <2>3, <2>4, <2>5 DEF Shaped, Releases
<1> QED BY <1>1, <1>2

\* Every operation of the store has one of the shapes, keeps the record it
\* writes readable and steps it as RecordStep allows.
LEMMA OperationShaped ==
  ASSUME IInv, NEW j \in Jobs, Operation(j)
  PROVE  Shaped(j)
<1> USE DEF Moves, RecordInv, RecordStep, Readable
<1>0. ticket[j] \in Record /\ RecordInv(j, ticket[j])
  BY DEF IInv, TypeOK, RecordsOK
<1>1. ASSUME NEW t \in Schedules, Register(j, t)
     PROVE  Shaped(j)
  <2> DEFINE r == [ticket[j] EXCEPT !.registered = TRUE, !.notBefore = t]
  <2>1. r \in Record
    BY <1>0, <1>1, InputAssumption DEF Register, Record
  <2>2. Moves(j, r)
    BY <1>0, <1>1, InputAssumption, TimingAssumption DEF Register, Record
  <2>3. r.state = "ACCEPTED" <=> ticket[j].state = "ACCEPTED"
    BY <1>0, <1>1 DEF Register, Record
  <2>4. Retain(j, r, Indexed(j, r))
    BY <1>1, <2>1, <2>3, SameIndex DEF Register
  <2>5. Active(j) /\ r.state \in ActiveStates
    BY <1>0, <1>1 DEF Register, Active, Queued, Record
  <2> QED BY <2>1, <2>2, <2>4, <2>5 DEF Shaped, Retains
<1>2. ASSUME NEW s, NEW a, Published(j, s, a)
     PROVE  Shaped(j)
  <2> DEFINE r == [ticket[j] EXCEPT !.published = TRUE]
  <2>1. r \in Record
    BY <1>0, <1>2, InputAssumption DEF Published, Record
  <2>2. Moves(j, r)
    BY <1>0, <1>2, InputAssumption, TimingAssumption DEF Published, Active, Record
  <2>3. r.state = "ACCEPTED" <=> ticket[j].state = "ACCEPTED"
    BY <1>0, <1>2 DEF Published, Record
  <2>4. Retain(j, r, Indexed(j, r))
    BY <1>2, <2>1, <2>3, SameIndex DEF Published
  <2>5. Active(j) /\ r.state \in ActiveStates
    BY <1>0, <1>2 DEF Published, Active, Queued, Record
  <2> QED BY <2>1, <2>2, <2>4, <2>5 DEF Shaped, Retains
<1>3. ASSUME NEW s, NEW a, Enqueued(j, s, a)
     PROVE  Shaped(j)
  <2> DEFINE r == [ticket[j] EXCEPT !.state = "ENQUEUED"]
  <2>1. r \in Record
    BY <1>0, <1>3, InputAssumption DEF Enqueued, Record
  <2>2. Moves(j, r)
    BY <1>0, <1>3, InputAssumption, TimingAssumption DEF Enqueued, Record
  <2>4. Retain(j, r, Indexed(j, r))
    BY <1>0, <1>3 DEF Enqueued, Indexed, Record
  <2>5. Active(j) /\ r.state \in ActiveStates
    BY <1>0, <1>3 DEF Enqueued, Active, Queued, Record
  <2> QED BY <2>1, <2>2, <2>4, <2>5 DEF Shaped, Retains
<1>4. ASSUME NEW s, NEW a, Republish(j, s, a)
     PROVE  Shaped(j)
  <2> DEFINE r == [ticket[j] EXCEPT !.retryAt = now + RetryDelay]
  <2>1. r \in Record
    BY <1>0, <1>4, InputAssumption DEF Republish, Record, IInv, TypeOK
  <2>2. Moves(j, r)
    BY <1>0, <1>4, InputAssumption, TimingAssumption DEF Republish, Queued, Record
  <2>3. r.state = "ACCEPTED" <=> ticket[j].state = "ACCEPTED"
    BY <1>0, <1>4 DEF Republish, Record, IInv, TypeOK
  <2>4. Retain(j, r, Indexed(j, r))
    BY <1>4, <2>1, <2>3, SameIndex DEF Republish
  <2>5. Active(j) /\ r.state \in ActiveStates
    BY <1>0, <1>4 DEF Republish, Active, Queued, Record
  <2> QED BY <2>1, <2>2, <2>4, <2>5 DEF Shaped, Retains
<1>5. ASSUME Expire(j)
     PROVE  Shaped(j)
  BY <1>5, QueuedTerminalShaped DEF Expire, Outcomes
<1>6. ASSUME NEW s \in Stages, NEW t \in Tokens, Claim(j, s, t)
     PROVE  Shaped(j)
  <2> DEFINE r == [ticket[j] EXCEPT !.state = "RUNNING", !.token = t, !.attempt = @ + 1]
  <2>a. ticket[j].attempt \in Nat /\ ticket[j].attempt + 1 \in Nat
    BY <1>0 DEF Record
  <2>b. Queued(j)
    BY <1>6 DEF Claim
  <2>1. r \in Record
    BY <1>0, <2>a DEF Record
  <2>c. /\ r.state = "RUNNING" /\ r.token = t /\ r.attempt = ticket[j].attempt + 1
        /\ r.notBefore = ticket[j].notBefore /\ r.outcome = ticket[j].outcome
        /\ r.settlement = ticket[j].settlement /\ r.reserved = ticket[j].reserved
    BY <1>0 DEF Record
  <2>d. t # NoToken /\ ticket[j].attempt + 1 > 0
    BY <2>a, InputAssumption
  <2>2. Moves(j, r)
    BY <1>0, <2>b, <2>c, <2>d DEF Queued, Record
  <2>4. Retain(j, r, Indexed(j, r))
    BY <1>0, <1>6 DEF Claim, Indexed, Record
  <2>5. Active(j) /\ r.state \in ActiveStates
    BY <1>0, <1>6 DEF Claim, Active, Queued, Record
  <2> QED BY <2>1, <2>2, <2>4, <2>5 DEF Shaped, Retains
<1>7. ASSUME NEW t \in Tokens, Reserved(j, t)
     PROVE  Shaped(j)
  <2> DEFINE r == [ticket[j] EXCEPT !.reserved = TRUE]
  <2>1. r \in Record
    BY <1>0, <1>7, InputAssumption DEF Reserved, Record
  <2>2. Moves(j, r)
    BY <1>0, <1>7, InputAssumption, TimingAssumption DEF Reserved, Record
  <2>3. r.state = "ACCEPTED" <=> ticket[j].state = "ACCEPTED"
    BY <1>0, <1>7 DEF Reserved, Record
  <2>4. Retain(j, r, Indexed(j, r))
    BY <1>7, <2>1, <2>3, SameIndex DEF Reserved
  <2>5. Active(j) /\ r.state \in ActiveStates
    BY <1>0, <1>7 DEF Reserved, Active, Queued, Record
  <2> QED BY <2>1, <2>2, <2>4, <2>5 DEF Shaped, Retains
<1>8. ASSUME NEW t \in Tokens, NEW n \in Schedules, Defer(j, t, n)
     PROVE  Shaped(j)
  <2> DEFINE r == [ticket[j] EXCEPT !.state = "WAITING", !.token = NoToken,
                                    !.requested = @ \union {"DELAYED"},
                                    !.notBefore = n, !.published = FALSE,
                                    !.registered = FALSE, !.retryAt = 0]
  <2>1. r \in Record
    BY <1>0, <1>8, InputAssumption DEF Defer, Record
  <2>2. Moves(j, r)
    BY <1>0, <1>8, InputAssumption, TimingAssumption DEF Defer, Record
  <2>3. r.state = "ACCEPTED" <=> ticket[j].state = "ACCEPTED"
    BY <1>0, <1>8 DEF Defer, Record
  <2>4. Retain(j, r, Indexed(j, r))
    BY <1>8, <2>1, <2>3, SameIndex DEF Defer
  <2>5. Active(j) /\ r.state \in ActiveStates
    BY <1>0, <1>8 DEF Defer, Active, Queued, Record
  <2> QED BY <2>1, <2>2, <2>4, <2>5 DEF Shaped, Retains
<1>9. ASSUME NEW t \in Tokens, Handoff(j, t)
     PROVE  Shaped(j)
  <2> DEFINE r == [ticket[j] EXCEPT !.state = "ACCEPTED", !.stage = "BROWSER",
                                    !.token = NoToken, !.published = FALSE,
                                    !.registered = FALSE, !.retryAt = 0,
                                    !.notBefore = 0]
  <2>1. r \in Record
    BY <1>0, <1>9, InputAssumption DEF Handoff, Record, Stages
  <2>2. Moves(j, r)
    BY <1>0, <1>9, InputAssumption, TimingAssumption DEF Handoff, Record
  <2>4. Retain(j, r, Indexed(j, r))
    BY <1>0, <1>9 DEF Handoff, Indexed, Record
  <2>5. Active(j) /\ r.state \in ActiveStates
    BY <1>0, <1>9 DEF Handoff, Active, Queued, Record
  <2> QED BY <2>1, <2>2, <2>4, <2>5 DEF Shaped, Retains
<1>10. ASSUME NEW t \in Tokens, BeginDelivery(j, t)
     PROVE  Shaped(j)
  <2> DEFINE r == [ticket[j] EXCEPT !.state = "DELIVERY_UNCERTAIN"]
  <2>1. r \in Record
    BY <1>0, <1>10, InputAssumption DEF BeginDelivery, Record
  <2>2. Moves(j, r)
    BY <1>0, <1>10, InputAssumption, TimingAssumption DEF BeginDelivery, Record
  <2>3. r.state = "ACCEPTED" <=> ticket[j].state = "ACCEPTED"
    BY <1>0, <1>10 DEF BeginDelivery, Record
  <2>4. Retain(j, r, Indexed(j, r))
    BY <1>10, <2>1, <2>3, SameIndex DEF BeginDelivery
  <2>5. Active(j) /\ r.state \in ActiveStates
    BY <1>0, <1>10 DEF BeginDelivery, Active, Queued, Record
  <2> QED BY <2>1, <2>2, <2>4, <2>5 DEF Shaped, Retains
<1>11. ASSUME NEW t, NEW i \in Offered, Prepare(j, t, i)
     PROVE  Shaped(j)
  <2> DEFINE r == [ticket[j] EXCEPT !.state = "SETTLING", !.settlement = i]
  <2>1. r \in Record
    BY <1>0, <1>11, InputAssumption DEF Prepare, Record, Offered
  <2>2. Moves(j, r)
    BY <1>0, <1>11, InputAssumption, TimingAssumption DEF Prepare, Record, Offered, Intents, NoIntent, Outcomes
  <2>3. r.state = "ACCEPTED" <=> ticket[j].state = "ACCEPTED"
    BY <1>0, <1>11 DEF Prepare, Record, Offered
  <2>4. Retain(j, r, Indexed(j, r))
    BY <1>11, <2>1, <2>3, SameIndex DEF Prepare
  <2>5. Active(j) /\ r.state \in ActiveStates
    BY <1>0, <1>11 DEF Prepare, Active, Queued, Record
  <2> QED BY <2>1, <2>2, <2>4, <2>5 DEF Shaped, Retains
<1>12. ASSUME CancelRunning(j)
     PROVE  Shaped(j)
  <2> DEFINE r == [ticket[j] EXCEPT !.state = "CANCELLING"]
  <2>1. r \in Record
    BY <1>0, <1>12, InputAssumption DEF CancelRunning, Record
  <2>2. Moves(j, r)
    BY <1>0, <1>12, InputAssumption, TimingAssumption DEF CancelRunning, Record
  <2>3. r.state = "ACCEPTED" <=> ticket[j].state = "ACCEPTED"
    BY <1>0, <1>12 DEF CancelRunning, Record
  <2>4. Retain(j, r, Indexed(j, r))
    BY <1>12, <2>1, <2>3, SameIndex DEF CancelRunning
  <2>5. Active(j) /\ r.state \in ActiveStates
    BY <1>0, <1>12 DEF CancelRunning, Active, Queued, Record
  <2> QED BY <2>1, <2>2, <2>4, <2>5 DEF Shaped, Retains
<1>13. ASSUME CancelQueued(j)
      PROVE  Shaped(j)
  BY <1>13, QueuedTerminalShaped DEF CancelQueued, Outcomes
<1>14. ASSUME NEW o \in Results, NEW t, Finish(j, o, t)
      PROVE  Shaped(j)
  <2> DEFINE r == [ticket[j] EXCEPT !.state = "TERMINAL", !.outcome = o,
                                    !.requested = @ \union {"TERMINAL"}]
  <2>1. r \in Record
    BY <1>0, <1>14, InputAssumption DEF Record, Outcomes
  <2>2. Moves(j, r)
    BY <1>0, <1>14, InputAssumption DEF Finish, Active, Queued, Record, Outcomes
  <2>3. Release(j, r) /\ Active(j) /\ r.state = "TERMINAL"
    BY <1>0, <1>14 DEF Finish, Record
  <2> QED BY <2>1, <2>2, <2>3 DEF Shaped, Releases
<1>15. ASSUME NEW k \in Claimable, ClaimNotice(j, k)
      PROVE  Shaped(j)
  <2> DEFINE r == [ticket[j] EXCEPT !.claimed = @ \union {k}]
  <2>1. r \in Record
    BY <1>0, <1>15, InputAssumption DEF Record, NoticeKinds
  <2>2. Moves(j, r)
    BY <1>0 DEF Record
  <2>3. r.state = ticket[j].state
    BY <1>0 DEF Record
  <2>4. CASE ticket[j].state = "TERMINAL"
    <3>1. Annotate(j, r)
      BY <1>15, <2>4 DEF ClaimNotice, Noticed
    <3> QED BY <2>1, <2>2, <2>3, <2>4, <3>1 DEF Shaped, Annotates
  <2>5. CASE ticket[j].state # "TERMINAL"
    <3>1. Retain(j, r, Indexed(j, r))
      BY <1>15, <2>1, <2>3, <2>5, SameIndex DEF ClaimNotice, Noticed
    <3>2. Active(j)
      BY <1>15, <2>5 DEF ClaimNotice, NoticeDue, Active
    <3> QED BY <2>1, <2>2, <2>3, <3>1, <3>2 DEF Shaped, Retains, Active
  <2> QED BY <2>4, <2>5
<1> QED
  BY <1>1, <1>2, <1>3, <1>4, <1>5, <1>6, <1>7, <1>8, <1>9, <1>10, <1>11,
     <1>12, <1>13, <1>14, <1>15 DEF Operation, Cancel, Shaped

----------------------------------------------------------------------------
(****************************************************************************)
(* The shapes preserve the inductive invariant.                             *)
(****************************************************************************)

\* The keys a job is filed under are keys the store has.
LEMMA KeysExist ==
  ASSUME NEW j \in Jobs
  PROVE  /\ SubjectOf[j] \in Subjects /\ IngressOf[j] \in Ingresses
         /\ LaneOf[j] \in Lanes /\ DedupeOf[j] \in DedupeKeys
BY DEF Subjects, Ingresses, Lanes, DedupeKeys

LEMMA AbsentInRecord ==
  /\ Absent \in Record
  /\ [Absent EXCEPT !.state = "ACCEPTED"] \in Record
BY DEF Absent, Record, Stages

LEMMA ShapedType ==
  ASSUME IInv, NEW j \in Jobs, Shaped(j)
  PROVE  TypeOK'
<1> USE KeysExist DEF TypeOK
<1>1. CASE Admit(j)
  <2>1. SizeOf[j] \in Int
    BY SizeAssumption
  <2>2. ticket' \in [Jobs -> Record]
    BY <1>1, AbsentInRecord DEF IInv, Admit
  <2>3. totals' \in [count : Int, bytes : Int]
    BY <1>1, <2>1 DEF IInv, Admit
  <2>4. subject' \in [Subjects -> Int] /\ ingress' \in [Ingresses -> Int]
    BY <1>1 DEF IInv, Admit
  <2>5. dedupe' \in [DedupeKeys -> Jobs \union {NoJob}]
    BY <1>1 DEF IInv, Admit
  <2>6. rotation' \in SUBSET Lanes /\ lane' \in [Lanes -> SUBSET Jobs]
    BY <1>1 DEF IInv, Admit
  <2> QED BY <1>1, <2>2, <2>3, <2>4, <2>5, <2>6 DEF IInv, Admit
<1>2. ASSUME NEW r \in Record, Retains(j, r)
      PROVE  TypeOK'
  BY <1>2 DEF IInv, Retains, Retain, Indexed
<1>3. ASSUME NEW r \in Record, Releases(j, r)
      PROVE  TypeOK'
  <2>1. SizeOf[j] \in Int
    BY SizeAssumption
  <2>2. ticket' \in [Jobs -> Record]
    BY <1>3 DEF IInv, Releases, Release
  <2>3. totals' \in [count : Int, bytes : Int]
    BY <1>3, <2>1 DEF IInv, Releases, Release
  <2>4. subject' \in [Subjects -> Int] /\ ingress' \in [Ingresses -> Int]
    BY <1>3 DEF IInv, Releases, Release
  <2>6. rotation' \in SUBSET Lanes /\ lane' \in [Lanes -> SUBSET Jobs]
    BY <1>3 DEF IInv, Releases, Release
  <2> QED BY <1>3, <2>2, <2>3, <2>4, <2>6 DEF IInv, Releases, Release
<1>4. ASSUME NEW r \in Record, Annotates(j, r)
      PROVE  TypeOK'
  BY <1>4 DEF IInv, Annotates, Annotate
<1>5. CASE Retire(j)
  BY <1>5, AbsentInRecord DEF IInv, Retire
<1>6. CASE PayloadLapse(j)
  BY <1>6 DEF IInv, PayloadLapse
<1> QED BY <1>1, <1>2, <1>3, <1>4, <1>5, <1>6 DEF Shaped

LEMMA ShapedRecords ==
  ASSUME IInv, NEW j \in Jobs, Shaped(j)
  PROVE  RecordsOK'
<1> USE DEF IInv, TypeOK, RecordsOK
<1>1. CASE Admit(j)
  <2>1. 0 < Deadline[j]
    BY TimingAssumption
  <2>2. RecordInv(j, [Absent EXCEPT !.state = "ACCEPTED"])
    BY <2>1 DEF Absent, RecordInv, Readable, NoToken
  <2> QED BY <1>1, <2>2 DEF Admit
<1>2. ASSUME NEW r \in Record, Retains(j, r)
      PROVE  RecordsOK'
  BY <1>2 DEF Retains, Retain, Moves
<1>3. ASSUME NEW r \in Record, Releases(j, r)
      PROVE  RecordsOK'
  BY <1>3 DEF Releases, Release, Moves
<1>4. ASSUME NEW r \in Record, Annotates(j, r)
      PROVE  RecordsOK'
  BY <1>4 DEF Annotates, Annotate, Moves
<1>5. CASE Retire(j)
  BY <1>5 DEF Retire, Absent, RecordInv
<1>6. CASE PayloadLapse(j)
  BY <1>6 DEF PayloadLapse
<1> QED BY <1>1, <1>2, <1>3, <1>4, <1>5, <1>6 DEF Shaped

\* Only an admission adds active work, and only a release takes it away.
LEMMA ShapedActive ==
  ASSUME IInv, NEW j \in Jobs, Shaped(j)
  PROVE  \/ Admit(j) /\ j \notin ActiveJobs /\ ActiveJobs' = ActiveJobs \union {j}
         \/ /\ \E r \in Record : Releases(j, r)
            /\ j \in ActiveJobs /\ ActiveJobs' = ActiveJobs \ {j}
         \/ ActiveJobs' = ActiveJobs /\ UNCHANGED capacityVars
<1> USE DEF IInv, TypeOK, ActiveJobs, Active
<1>1. CASE Admit(j)
  BY <1>1 DEF Admit, Absent
<1>2. ASSUME NEW r \in Record, Retains(j, r)
      PROVE  ActiveJobs' = ActiveJobs /\ UNCHANGED capacityVars
  BY <1>2 DEF Retains, Retain, capacityVars
<1>3. ASSUME NEW r \in Record, Releases(j, r)
      PROVE  j \in ActiveJobs /\ ActiveJobs' = ActiveJobs \ {j}
  BY <1>3 DEF Releases, Release
<1>4. ASSUME NEW r \in Record, Annotates(j, r)
      PROVE  ActiveJobs' = ActiveJobs /\ UNCHANGED capacityVars
  BY <1>4 DEF Annotates, Annotate, capacityVars
<1>5. CASE Retire(j)
  BY <1>5 DEF Retire, Absent, capacityVars
<1>6. CASE PayloadLapse(j)
  BY <1>6 DEF PayloadLapse, capacityVars
<1> QED BY <1>1, <1>2, <1>3, <1>4, <1>5, <1>6 DEF Shaped

\* A lane leaves the rotation exactly when its last job is released.
LEMMA LastOfLane ==
  ASSUME IInv, NEW j \in ActiveJobs
  PROVE  Cardinality(lane[LaneOf[j]]) = 1 <=>
           \A k \in ActiveJobs : LaneOf[k] = LaneOf[j] => k = j
<1> DEFINE S == lane[LaneOf[j]]
<1>1. S = {k \in ActiveJobs : LaneOf[k] = LaneOf[j]} /\ j \in S
  BY KeysExist DEF IInv, IndexesOK, LanesExact, ActiveJobs
<1>2. IsFiniteSet(S)
  BY <1>1, FS_Subset, JobsAssumption DEF ActiveJobs
<1>3. Cardinality(S) = 1 <=> \E x : S = {x}
  BY <1>2, FS_Singleton
<1> QED BY <1>1, <1>3

LEMMA ShapedIndexes ==
  ASSUME IInv, NEW j \in Jobs, Shaped(j)
  PROVE  IndexesOK'
<1> USE KeysExist DEF TypeOK
<1>1. CASE Admit(j)
  <2> USE <1>1 DEF IInv, IndexesOK, Admit
  <2>1. j \notin ActiveJobs /\ ActiveJobs' = ActiveJobs \union {j}
    BY DEF ActiveJobs, Active, Absent
  <2>2. HandoffExact'
    BY DEF HandoffExact, Absent
  <2>3. LanesExact'
    BY <2>1 DEF LanesExact
  <2>4. DedupeExact'
    BY JobsAssumption DEF DedupeExact, Absent
  <2> QED BY <2>1, <2>2, <2>3, <2>4 DEF NoOrphanPayload
<1>2. ASSUME NEW r \in Record, Retains(j, r)
      PROVE  IndexesOK'
  <2> USE <1>2 DEF IInv, IndexesOK, Retains, Retain
  <2>1. ActiveJobs' = ActiveJobs
    BY DEF ActiveJobs, Active
  <2>2. HandoffExact'
    BY DEF HandoffExact, Indexed
  <2>3. LanesExact'
    BY <2>1 DEF LanesExact
  <2>4. DedupeExact'
    BY DEF DedupeExact, Active
  <2> QED BY <2>1, <2>2, <2>3, <2>4 DEF NoOrphanPayload
<1>3. ASSUME NEW r \in Record, Releases(j, r)
      PROVE  IndexesOK'
  <2> USE <1>3 DEF IInv, IndexesOK, Releases, Release
  <2>1. j \in ActiveJobs /\ ActiveJobs' = ActiveJobs \ {j}
    BY DEF ActiveJobs, Active
  <2>2. HandoffExact'
    BY DEF HandoffExact
  <2>3. LanesExact'
    <3>1. \A l \in Lanes : lane'[l] = {k \in ActiveJobs' : LaneOf[k] = l}
      BY <2>1 DEF LanesExact
    <3>2. rotation' = {LaneOf[k] : k \in ActiveJobs'}
      BY <2>1, LastOfLane DEF LanesExact
    <3> QED BY <3>1, <3>2 DEF LanesExact
  <2>4. DedupeExact'
    BY DEF DedupeExact, Active
  <2> QED BY <2>1, <2>2, <2>3, <2>4 DEF NoOrphanPayload
<1>4. ASSUME NEW r \in Record, Annotates(j, r)
      PROVE  IndexesOK'
  <2> USE <1>4 DEF IInv, IndexesOK, Annotates, Annotate
  <2>1. ActiveJobs' = ActiveJobs
    BY DEF ActiveJobs, Active
  <2>2. HandoffExact' /\ DedupeExact'
    BY DEF HandoffExact, DedupeExact
  <2> QED BY <2>1, <2>2 DEF LanesExact, NoOrphanPayload
<1>5. CASE Retire(j)
  <2> USE <1>5 DEF IInv, IndexesOK, Retire
  <2>1. ActiveJobs' = ActiveJobs
    BY DEF ActiveJobs, Active, Absent
  <2>2. HandoffExact'
    BY DEF HandoffExact, Absent
  <2>3. DedupeExact'
    BY JobsAssumption DEF DedupeExact, Absent
  <2> QED BY <2>1, <2>2, <2>3 DEF LanesExact, NoOrphanPayload
<1>6. CASE PayloadLapse(j)
  <2> USE <1>6 DEF IInv, IndexesOK, PayloadLapse
  <2>1. ActiveJobs' = ActiveJobs
    BY DEF ActiveJobs, Active
  <2>2. HandoffExact' /\ DedupeExact'
    BY DEF HandoffExact, DedupeExact
  <2> QED BY <2>1, <2>2 DEF LanesExact, NoOrphanPayload
<1> QED BY <1>1, <1>2, <1>3, <1>4, <1>5, <1>6 DEF Shaped

LEMMA InitIInv == Init => IInv
<1> SUFFICES ASSUME Init PROVE IInv
  OBVIOUS
<1> USE DEF Init
<1>1. TypeOK
  BY AbsentInRecord DEF TypeOK
<1>2. ActiveJobs = {}
  BY DEF ActiveJobs, Active, Absent
<1>3. RecordsOK
  BY DEF RecordsOK, RecordInv, Absent
<1>4. HandoffExact /\ LanesExact /\ NoOrphanPayload
  BY <1>2 DEF HandoffExact, LanesExact, NoOrphanPayload, Absent
<1>5. DedupeExact
  BY JobsAssumption, KeysExist DEF DedupeExact, Absent
<1> QED BY <1>1, <1>2, <1>3, <1>4, <1>5 DEF IInv, IndexesOK

\* A step of the clock, or none, changes nothing that IInv reads but now.
LEMMA QuietIInv ==
  ASSUME IInv, Tick \/ UNCHANGED vars
  PROVE  IInv'
<1>1. UNCHANGED storeVars /\ now' \in Nat
  BY DEF Tick, vars, storeVars, IInv, TypeOK
<1>2. TypeOK' /\ RecordsOK'
  BY <1>1 DEF storeVars, IInv, TypeOK, RecordsOK
<1>3. ActiveJobs' = ActiveJobs
  BY <1>1 DEF storeVars, ActiveJobs, Active
<1>4. IndexesOK'
  BY <1>1, <1>3 DEF storeVars, IInv, IndexesOK, HandoffExact, LanesExact,
                    DedupeExact, NoOrphanPayload
<1> QED BY <1>2, <1>4 DEF IInv

LEMMA StepIInv ==
  ASSUME IInv, [Next]_vars
  PROVE  IInv'
<1>1. ASSUME NEW j \in Jobs, Operation(j)
      PROVE  IInv'
  <2>1. Shaped(j)
    BY <1>1, OperationShaped
  <2> QED BY <2>1, ShapedType, ShapedRecords, ShapedIndexes DEF IInv
<1> QED BY <1>1, QuietIInv DEF Next

THEOREM Invariance == Spec => []IInv
<1>1. Init => IInv
  BY InitIInv
<1>2. IInv /\ [Next]_vars => IInv'
  BY StepIInv
<1> QED BY <1>1, <1>2, PTL DEF Spec

----------------------------------------------------------------------------
(****************************************************************************)
(* The counters.                                                            *)
(****************************************************************************)

\* The jobs of A filed under the key k.
Filed(A, F, k) == {i \in A : F[i] = k}
Count(A, F, k) == Cardinality(Filed(A, F, k))
One(F, j, k) == IF F[j] = k THEN 1 ELSE 0

\* Adding or removing one job changes the count of its own key by one.
LEMMA CountAdded ==
  ASSUME NEW A, A \subseteq Jobs, NEW F, NEW k, NEW j \in Jobs \ A
  PROVE  /\ Count(A, F, k) \in Nat
         /\ Count(A \union {j}, F, k) = Count(A, F, k) + One(F, j, k)
<1> DEFINE S == Filed(A, F, k)
<1>1. IsFiniteSet(S) /\ Cardinality(S) \in Nat
  BY FS_Subset, FS_CardinalityType, JobsAssumption DEF Filed
<1>2. CASE F[j] = k
  <2>1. Filed(A \union {j}, F, k) = S \union {j} /\ j \notin S
    BY <1>2 DEF Filed
  <2>2. Cardinality(S \union {j}) = Cardinality(S) + 1
    BY <1>1, <2>1, FS_AddElement
  <2> QED BY <1>1, <1>2, <2>1, <2>2 DEF Count, One
<1>3. CASE F[j] # k
  <2>1. Filed(A \union {j}, F, k) = S
    BY <1>3 DEF Filed
  <2>2. One(F, j, k) = 0
    BY <1>3 DEF One
  <2> HIDE DEF S
  <2> QED BY <1>1, <2>1, <2>2 DEF Count, S
<1> QED BY <1>2, <1>3

LEMMA CountRemoved ==
  ASSUME NEW A, A \subseteq Jobs, NEW F, NEW k, NEW j \in A
  PROVE  Count(A \ {j}, F, k) = Count(A, F, k) - One(F, j, k)
<1> DEFINE S == Filed(A, F, k)
<1>1. IsFiniteSet(S) /\ Cardinality(S) \in Nat
  BY FS_Subset, FS_CardinalityType, JobsAssumption DEF Filed
<1>2. CASE F[j] = k
  <2>1. Filed(A \ {j}, F, k) = S \ {j} /\ j \in S
    BY <1>2 DEF Filed
  <2>2. Cardinality(S \ {j}) = Cardinality(S) - 1
    BY <1>1, <2>1, FS_RemoveElement
  <2> QED BY <1>2, <2>1, <2>2 DEF Count, One
<1>3. CASE F[j] # k
  <2>1. Filed(A \ {j}, F, k) = S
    BY <1>3 DEF Filed
  <2>2. One(F, j, k) = 0
    BY <1>3 DEF One
  <2> HIDE DEF S
  <2> QED BY <1>1, <2>1, <2>2 DEF Count, S
<1> QED BY <1>2, <1>3

LEMMA ActiveFinite ==
  /\ ActiveJobs \in SUBSET Jobs
  /\ IsFiniteSet(ActiveJobs)
  /\ Cardinality(ActiveJobs) \in Nat
<1>1. ActiveJobs \in SUBSET Jobs
  BY DEF ActiveJobs
<1>2. IsFiniteSet(ActiveJobs)
  BY <1>1, FS_Subset, JobsAssumption
<1> QED BY <1>1, <1>2, FS_CardinalityType

LEMMA ReleasedCount ==
  ASSUME NEW j \in ActiveJobs, NEW F, NEW k
  PROVE  Count(ActiveJobs \ {j}, F, k) = Count(ActiveJobs, F, k) - One(F, j, k)
<1>1. j \in Jobs /\ ActiveJobs \subseteq Jobs
  BY ActiveFinite
<1> QED BY <1>1, CountRemoved

LEMMA ShapedCounts ==
  ASSUME IInv, CountsExact, NEW j \in Jobs, Shaped(j)
  PROVE  CountsExact'
<1> USE KeysExist, ActiveFinite DEF TypeOK, IInv, CountsExact
<1>1. CASE Admit(j) /\ j \notin ActiveJobs /\ ActiveJobs' = ActiveJobs \union {j}
  <2>1. totals'.count = Cardinality(ActiveJobs')
    <3>1. Cardinality(ActiveJobs \union {j}) = Cardinality(ActiveJobs) + 1
      BY <1>1, FS_AddElement
    <3>2. totals'.count = totals.count + 1
      BY <1>1 DEF Admit
    <3> QED BY <1>1, <3>1, <3>2
  <2>2. ASSUME NEW s \in Subjects
        PROVE  subject'[s] = Cardinality({i \in ActiveJobs' : SubjectOf[i] = s})
    <3>1. subject'[s] = subject[s] + One(SubjectOf, j, s)
      BY <1>1 DEF Admit, One
    <3>2. subject[s] = Count(ActiveJobs, SubjectOf, s)
      BY DEF Count, Filed
    <3>3. Count(ActiveJobs \union {j}, SubjectOf, s) = Count(ActiveJobs, SubjectOf, s) + One(SubjectOf, j, s)
      BY <1>1, CountAdded
    <3> QED BY <1>1, <3>1, <3>2, <3>3 DEF Count, Filed
  <2>3. ASSUME NEW s \in Ingresses
        PROVE  ingress'[s] = Cardinality({i \in ActiveJobs' : IngressOf[i] = s})
    <3>1. ingress'[s] = ingress[s] + One(IngressOf, j, s)
      BY <1>1 DEF Admit, One
    <3>2. ingress[s] = Count(ActiveJobs, IngressOf, s)
      BY DEF Count, Filed
    <3>3. Count(ActiveJobs \union {j}, IngressOf, s) = Count(ActiveJobs, IngressOf, s) + One(IngressOf, j, s)
      BY <1>1, CountAdded
    <3> QED BY <1>1, <3>1, <3>2, <3>3 DEF Count, Filed
  <2>4. pending' = ActiveJobs'
    BY <1>1 DEF Admit
  <2> QED BY <2>1, <2>2, <2>3, <2>4
<1>2. ASSUME NEW r \in Record, Releases(j, r),
             j \in ActiveJobs, ActiveJobs' = ActiveJobs \ {j}
      PROVE  CountsExact'
  <2>0. j \in ActiveJobs
    BY <1>2
  <2>1. totals'.count = Cardinality(ActiveJobs')
    <3>1. Cardinality(ActiveJobs \ {j}) = Cardinality(ActiveJobs) - 1
      BY <1>2, FS_RemoveElement
    <3>2. totals'.count = totals.count - 1
      BY <1>2 DEF Releases, Release
    <3> QED BY <1>2, <3>1, <3>2
  <2>2. ASSUME NEW s \in Subjects
        PROVE  subject'[s] = Cardinality({i \in ActiveJobs' : SubjectOf[i] = s})
    <3>1. subject'[s] = subject[s] - One(SubjectOf, j, s)
      BY <1>2 DEF Releases, Release, One
    <3>2. subject[s] = Count(ActiveJobs, SubjectOf, s)
      BY DEF Count, Filed
    <3>3. Count(ActiveJobs \ {j}, SubjectOf, s) = Count(ActiveJobs, SubjectOf, s) - One(SubjectOf, j, s)
      BY <2>0, ReleasedCount
    <3> QED BY <1>2, <3>1, <3>2, <3>3 DEF Count, Filed
  <2>3. ASSUME NEW s \in Ingresses
        PROVE  ingress'[s] = Cardinality({i \in ActiveJobs' : IngressOf[i] = s})
    <3>1. ingress'[s] = ingress[s] - One(IngressOf, j, s)
      BY <1>2 DEF Releases, Release, One
    <3>2. ingress[s] = Count(ActiveJobs, IngressOf, s)
      BY DEF Count, Filed
    <3>3. Count(ActiveJobs \ {j}, IngressOf, s) = Count(ActiveJobs, IngressOf, s) - One(IngressOf, j, s)
      BY <2>0, ReleasedCount
    <3> QED BY <1>2, <3>1, <3>2, <3>3 DEF Count, Filed
  <2>4. pending' = ActiveJobs'
    BY <1>2 DEF Releases, Release
  <2> QED BY <2>1, <2>2, <2>3, <2>4
<1>3. CASE ActiveJobs' = ActiveJobs /\ UNCHANGED capacityVars
  BY <1>3 DEF capacityVars
<1> QED BY <1>1, <1>2, <1>3, ShapedActive

LEMMA InitCounts == Init => CountsExact
<1> SUFFICES ASSUME Init PROVE CountsExact
  OBVIOUS
<1>1. ActiveJobs = {}
  BY DEF Init, ActiveJobs, Active, Absent
<1>2. Cardinality({}) = 0
  BY FS_EmptySet
<1>3. \A F, k : {i \in {} : F[i] = k} = {}
  OBVIOUS
<1> QED BY <1>1, <1>2, <1>3 DEF Init, CountsExact

LEMMA StepCounts ==
  ASSUME IInv, CountsExact, [Next]_vars
  PROVE  CountsExact'
<1>1. ASSUME NEW j \in Jobs, Operation(j)
      PROVE  CountsExact'
  BY <1>1, OperationShaped, ShapedCounts
<1>2. CASE Tick \/ UNCHANGED vars
  <2>1. UNCHANGED storeVars
    BY <1>2 DEF Tick, vars, storeVars
  <2>2. ActiveJobs' = ActiveJobs
    BY <2>1 DEF storeVars, ActiveJobs, Active
  <2> QED BY <2>1, <2>2 DEF storeVars, CountsExact
<1> QED BY <1>1, <1>2 DEF Next

----------------------------------------------------------------------------
(***************************************************************************)
(* The bytes, and the metadata that every operation reads first.            *)
(***************************************************************************)

\* Adding one job adds its size.
LEMMA BytesAdded ==
  ASSUME NEW A, A \subseteq Jobs, NEW j \in Jobs \ A
  PROVE  /\ IsFiniteSet(Bytes(A)) /\ Cardinality(Bytes(A)) \in Nat
         /\ Cardinality(Bytes(A \union {j})) = Cardinality(Bytes(A)) + SizeOf[j]
<1>1. ASSUME NEW i \in Jobs
      PROVE  IsFiniteSet({i} \X (1..SizeOf[i])) /\ Cardinality({i} \X (1..SizeOf[i])) = SizeOf[i]
  <2> DEFINE n == SizeOf[i]
  <2>1. n \in Nat /\ n > 0
    BY SizeAssumption
  <2> HIDE DEF n
  <2>2. IsFiniteSet(1..n) /\ Cardinality(1..n) = n
    BY <2>1, FS_Interval
  <2>3. IsFiniteSet({i}) /\ Cardinality({i}) = 1
    BY FS_Singleton
  <2>4. IsFiniteSet({i} \X (1..n)) /\ Cardinality({i} \X (1..n)) = 1 * n
    <3> DEFINE S == {i}
               T == 1..n
    <3>1. IsFiniteSet(S) /\ Cardinality(S) = 1 /\ IsFiniteSet(T) /\ Cardinality(T) = n
      BY <2>2, <2>3
    <3> HIDE DEF S, T
    <3>2. IsFiniteSet(S \X T) /\ Cardinality(S \X T) = Cardinality(S) * Cardinality(T)
      BY <3>1, FS_Product
    <3>3. IsFiniteSet(S \X T) /\ Cardinality(S \X T) = 1 * n
      BY <3>1, <3>2
    <3> QED BY <3>3 DEF S, T
  <2>5. 1 * n = n
    BY <2>1
  <2> QED BY <2>4, <2>5 DEF n
<1>2. IsFiniteSet(Bytes(A))
  <2> DEFINE F == {{i} \X (1..SizeOf[i]) : i \in A}
  <2>1. IsFiniteSet(A)
    BY FS_Subset, JobsAssumption
  <2>2. IsFiniteSet(F)
    <3> DEFINE f == [i \in A |-> {i} \X (1..SizeOf[i])]
    <3>1. f \in Surjection(A, F)
      BY DEF Surjection
    <3> HIDE DEF f, F
    <3> QED BY <2>1, <3>1, FS_Surjection
  <2>3. \A T \in F : IsFiniteSet(T)
    BY <1>1
  <2> HIDE DEF F
  <2>4. IsFiniteSet(UNION F)
    BY <2>2, <2>3, FS_UNION
  <2> QED BY <2>4 DEF Bytes, F
<1>3. Bytes(A \union {j}) = Bytes(A) \union ({j} \X (1..SizeOf[j]))
  BY DEF Bytes
<1>4. Bytes(A) \intersect ({j} \X (1..SizeOf[j])) = {}
  BY DEF Bytes
<1> DEFINE B == Bytes(A)
           C == {j} \X (1..SizeOf[j])
<1>5. IsFiniteSet(B) /\ IsFiniteSet(C) /\ B \intersect C = {} /\ Cardinality(C) = SizeOf[j]
      /\ Bytes(A \union {j}) = B \union C /\ SizeOf[j] \in Nat
  BY <1>1, <1>2, <1>3, <1>4, SizeAssumption
<1> HIDE DEF B, C
<1>6. Cardinality(B \union C) = Cardinality(B) + Cardinality(C) - Cardinality(B \intersect C)
  BY <1>5, FS_Union
<1>7. Cardinality(B \intersect C) = 0 /\ Cardinality(B) \in Nat
  BY <1>5, FS_EmptySet, FS_CardinalityType
<1>8. Cardinality(B \union C) = Cardinality(B) + SizeOf[j]
  BY <1>5, <1>6, <1>7
<1> QED BY <1>5, <1>7, <1>8 DEF B

\* Some member's payload is part of the whole.
LEMMA BytesOfOne ==
  ASSUME NEW j \in ActiveJobs
  PROVE  /\ Cardinality(Bytes(ActiveJobs)) >= SizeOf[j]
         /\ Cardinality(Bytes(ActiveJobs \ {j})) = Cardinality(Bytes(ActiveJobs)) - SizeOf[j]
<1> DEFINE A == ActiveJobs \ {j}
<1>1. A \subseteq Jobs /\ j \in Jobs \ A /\ A \union {j} = ActiveJobs
  BY ActiveFinite
<1> HIDE DEF A
<1>2. Cardinality(Bytes(A)) \in Nat /\ Cardinality(Bytes(ActiveJobs)) = Cardinality(Bytes(A)) + SizeOf[j]
  BY <1>1, BytesAdded
<1>3. SizeOf[j] \in Nat
  BY <1>1, SizeAssumption
<1> QED BY <1>2, <1>3 DEF A

LEMMA ShapedBytes ==
  ASSUME IInv, BytesExact, NEW j \in Jobs, Shaped(j)
  PROVE  BytesExact'
<1> USE DEF BytesExact
<1>1. CASE Admit(j) /\ j \notin ActiveJobs /\ ActiveJobs' = ActiveJobs \union {j}
  <2>1. totals'.bytes = totals.bytes + SizeOf[j]
    BY <1>1 DEF Admit
  <2>2. Cardinality(Bytes(ActiveJobs \union {j})) = Cardinality(Bytes(ActiveJobs)) + SizeOf[j]
    BY <1>1, ActiveFinite, BytesAdded
  <2>3. Bytes(ActiveJobs') = Bytes(ActiveJobs \union {j}) /\ Bytes(ActiveJobs)' = Bytes(ActiveJobs')
    BY <1>1 DEF Bytes
  <2> QED BY <2>1, <2>2, <2>3
<1>2. ASSUME NEW r \in Record, Releases(j, r), j \in ActiveJobs, ActiveJobs' = ActiveJobs \ {j}
      PROVE  BytesExact'
  <2>1. totals'.bytes = totals.bytes - SizeOf[j]
    BY <1>2 DEF Releases, Release
  <2>2. Cardinality(Bytes(ActiveJobs \ {j})) = Cardinality(Bytes(ActiveJobs)) - SizeOf[j]
    BY <1>2, BytesOfOne
  <2>3. Bytes(ActiveJobs') = Bytes(ActiveJobs \ {j}) /\ Bytes(ActiveJobs)' = Bytes(ActiveJobs')
    BY <1>2 DEF Bytes
  <2> QED BY <2>1, <2>2, <2>3
<1>3. CASE ActiveJobs' = ActiveJobs /\ UNCHANGED capacityVars
  <2>1. totals' = totals /\ Bytes(ActiveJobs)' = Bytes(ActiveJobs)
    BY <1>3 DEF capacityVars, Bytes
  <2> QED BY <2>1
<1> QED BY <1>1, <1>2, <1>3, ShapedActive

LEMMA InitBytes == Init => BytesExact
<1> SUFFICES ASSUME Init PROVE BytesExact
  OBVIOUS
<1>1. ActiveJobs = {}
  BY DEF Init, ActiveJobs, Active, Absent
<1>2. Bytes(ActiveJobs) = {}
  BY <1>1 DEF Bytes
<1> QED BY <1>2, FS_EmptySet DEF Init, BytesExact

LEMMA StepBytes ==
  ASSUME IInv, BytesExact, [Next]_vars
  PROVE  BytesExact'
<1>1. ASSUME NEW j \in Jobs, Operation(j)
      PROVE  BytesExact'
  BY <1>1, OperationShaped, ShapedBytes
<1>2. CASE Tick \/ UNCHANGED vars
  <2>1. UNCHANGED storeVars
    BY <1>2 DEF Tick, vars, storeVars
  <2>2. Bytes(ActiveJobs)' = Bytes(ActiveJobs)
    BY <2>1 DEF storeVars, ActiveJobs, Active, Bytes
  <2> QED BY <2>1, <2>2 DEF storeVars, BytesExact
<1> QED BY <1>1, <1>2 DEF Next

\* A count of an active job's key is at least one, and at most all active work.
LEMMA CountOfOne ==
  ASSUME NEW j \in ActiveJobs, NEW F
  PROVE  LET n == Cardinality({i \in ActiveJobs : F[i] = F[j]})
         IN  n \in Nat /\ n >= 1 /\ n <= Cardinality(ActiveJobs)
<1> DEFINE S == {i \in ActiveJobs : F[i] = F[j]}
<1>1. S \in SUBSET ActiveJobs /\ j \in S
  OBVIOUS
<1> HIDE DEF S
<1>2. IsFiniteSet(S) /\ Cardinality(S) <= Cardinality(ActiveJobs)
  BY <1>1, FS_Subset, ActiveFinite
<1>3. Cardinality(S) \in Nat /\ Cardinality(S) # 0
  BY <1>1, <1>2, FS_CardinalityType, FS_EmptySet
<1> QED BY <1>2, <1>3 DEF S

\* The metadata that every operation on an active ticket reads is usable.
LEMMA NothingWedged ==
  ASSUME IInv, CountsExact, BytesExact
  PROVE  NeverWedged
<1> SUFFICES ASSUME NEW j \in ActiveJobs PROVE RequireActive(j)
  BY DEF NeverWedged
<1>1. j \in Jobs /\ Active(j) /\ SubjectOf[j] \in Subjects /\ IngressOf[j] \in Ingresses
      /\ LaneOf[j] \in Lanes
  BY KeysExist DEF ActiveJobs
<1>2. /\ totals.count = Cardinality(ActiveJobs) /\ pending = ActiveJobs
      /\ subject[SubjectOf[j]] = Cardinality({i \in ActiveJobs : SubjectOf[i] = SubjectOf[j]})
      /\ ingress[IngressOf[j]] = Cardinality({i \in ActiveJobs : IngressOf[i] = IngressOf[j]})
  BY <1>1 DEF CountsExact
<1>3. totals.bytes >= SizeOf[j] /\ SizeOf[j] \in Nat \ {0} /\ totals.bytes \in Int
  BY <1>1, BytesOfOne, SizeAssumption DEF BytesExact, IInv, TypeOK
<1>4. /\ subject[SubjectOf[j]] \in Nat /\ subject[SubjectOf[j]] >= 1
      /\ subject[SubjectOf[j]] <= totals.count
  BY <1>2, CountOfOne
<1>5. /\ ingress[IngressOf[j]] \in Nat /\ ingress[IngressOf[j]] >= 1
      /\ ingress[IngressOf[j]] <= totals.count
  BY <1>2, CountOfOne
<1>6. totals.count \in Nat /\ totals.count >= 1
  BY <1>2, <1>4, ActiveFinite
<1>7. totals.count = Cardinality(pending)
  BY <1>2
<1>8. CapacityReadable(j)
  BY <1>3, <1>4, <1>5, <1>6, <1>7 DEF CapacityReadable
<1>9. dedupe[DedupeOf[j]] = j
  BY <1>1 DEF IInv, IndexesOK, DedupeExact, Active
<1>10. j \in pending /\ (ticket[j].state = "ACCEPTED" => j \in handoff)
  BY <1>1, <1>2 DEF IInv, IndexesOK, HandoffExact
<1>11. LaneOf[j] \in rotation /\ j \in lane[LaneOf[j]]
  BY <1>1 DEF IInv, IndexesOK, LanesExact
<1> QED BY <1>3, <1>4, <1>5, <1>6, <1>8, <1>9, <1>10, <1>11 DEF RequireActive

----------------------------------------------------------------------------
(****************************************************************************)
(* Safety.                                                                  *)
(****************************************************************************)

\* Every variable of the store keeps its type.
THEOREM TypeCorrect == Spec => []TypeOK
<1>1. IInv => TypeOK
  BY DEF IInv
<1> QED BY <1>1, Invariance, PTL

\* The counters of admission, subject and ingress always equal the active
\* tickets: no transaction leaks capacity or returns it twice.
THEOREM CapacityExact == Spec => []CountsExact
<1>1. Init => CountsExact
  BY InitCounts
<1>2. IInv /\ CountsExact /\ [Next]_vars => CountsExact'
  BY StepCounts
<1> QED BY <1>1, <1>2, Invariance, PTL DEF Spec

\* The byte total is what the active payloads occupy, and the store refuses no
\* active ticket for its counters or indexes: what AdmissionCapacity.require_active
\* and read_capacity reject is never written.
THEOREM MetadataSound == Spec => []MetadataUsable
<1>1. Init => BytesExact
  BY InitBytes
<1>2. IInv /\ BytesExact /\ [Next]_vars => BytesExact'
  BY StepBytes
<1>3. IInv /\ CountsExact /\ BytesExact => MetadataUsable
  BY NothingWedged DEF MetadataUsable
<1> QED BY <1>1, <1>2, <1>3, Invariance, CapacityExact, PTL DEF Spec

\* The handoff index, the recovery lanes, the dedupe slots and the payloads
\* agree with the tickets: accepted work can always be found again.
THEOREM IndexesExact == Spec => []IndexesAgree
<1>1. IInv => IndexesAgree
  BY DEF IInv, IndexesOK, IndexesAgree
<1> QED BY <1>1, Invariance, PTL

\* Every record the store writes passes its own validation when read back,
\* and no reservation is forgotten by a ticket that becomes terminal.
THEOREM RecordsSound == Spec => []TicketsSound
<1>1. IInv => TypeOK
  BY DEF IInv
<1>2. IInv => RecordsReadable /\ SettledBeforeRelease /\ FirstAttemptIsMedia
  BY DEF IInv, RecordsOK, RecordInv, RecordsReadable, SettledBeforeRelease,
         FirstAttemptIsMedia
<1>3. IInv => TicketsSound
  BY <1>1, <1>2 DEF TicketsSound
<1> QED BY <1>3, Invariance, PTL

----------------------------------------------------------------------------
(****************************************************************************)
(* What a step may never do.                                                *)
(****************************************************************************)

\* A step keeps every ticket, steps its record or retires it.
LEMMA TicketStep ==
  ASSUME IInv, Next, NEW k \in Jobs
  PROVE  \/ ticket'[k] = ticket[k]
         \/ RecordStep(ticket[k], ticket'[k])
         \/ ticket[k].state = "TERMINAL" /\ ticket'[k].state = "ABSENT"
<1> USE DEF IInv, TypeOK, RecordsOK
<1>1. CASE Tick
  BY <1>1 DEF Tick, storeVars
<1>2. ASSUME NEW j \in Jobs, Shaped(j)
      PROVE  \/ ticket'[k] = ticket[k]
             \/ RecordStep(ticket[k], ticket'[k])
             \/ ticket[k].state = "TERMINAL" /\ ticket'[k].state = "ABSENT"
  <2>1. CASE Admit(j)
    BY <2>1 DEF Admit, RecordInv, RecordStep, Absent
  <2>2. ASSUME NEW r \in Record, Retains(j, r)
        PROVE  ticket'[k] = ticket[k] \/ RecordStep(ticket[k], ticket'[k])
    BY <2>2 DEF Retains, Retain, Moves
  <2>3. ASSUME NEW r \in Record, Releases(j, r)
        PROVE  ticket'[k] = ticket[k] \/ RecordStep(ticket[k], ticket'[k])
    BY <2>3 DEF Releases, Release, Moves
  <2>4. ASSUME NEW r \in Record, Annotates(j, r)
        PROVE  ticket'[k] = ticket[k] \/ RecordStep(ticket[k], ticket'[k])
    BY <2>4 DEF Annotates, Annotate, Moves
  <2>5. CASE Retire(j)
    BY <2>5 DEF Retire, Absent
  <2>6. CASE PayloadLapse(j)
    BY <2>6 DEF PayloadLapse
  <2> QED BY <1>2, <2>1, <2>2, <2>3, <2>4, <2>5, <2>6 DEF Shaped
<1>3. ASSUME NEW j \in Jobs, Operation(j)
      PROVE  Shaped(j)
  BY <1>3, OperationShaped DEF IInv, TypeOK, RecordsOK
<1> QED BY <1>1, <1>2, <1>3 DEF Next

\* A ticket's execution owner cannot be replaced while it is owned.
THEOREM OwnersKept == Spec => OwnerKept
<1>1. IInv /\ [Next]_vars =>
        [\A j \in Jobs :
           ticket[j].state \in OwnedStates /\ ticket'[j].state \in OwnedStates
             => ticket'[j].token = ticket[j].token]_vars
  BY TicketStep DEF RecordStep
<1> QED BY <1>1, Invariance, PTL DEF Spec, OwnerKept

\* Cancelled running work is settled or finished, never run or queued again.
THEOREM CancellationSticks == Spec => CancelSticks
<1>1. IInv /\ [Next]_vars =>
        [\A j \in Jobs :
           ticket[j].state = "CANCELLING"
             => ticket'[j].state \in {"CANCELLING", "SETTLING", "TERMINAL"}]_vars
  BY TicketStep DEF RecordStep
<1> QED BY <1>1, Invariance, PTL DEF Spec, CancelSticks

\* Possible external effects stay held until their owner settles them.
THEOREM UncertainDeliveryHeld == Spec => UncertainHeld
<1>1. IInv /\ [Next]_vars =>
        [\A j \in Jobs :
           ticket[j].state = "DELIVERY_UNCERTAIN"
             => ticket'[j].state \in {"DELIVERY_UNCERTAIN", "SETTLING"}]_vars
  BY TicketStep DEF RecordStep
<1> QED BY <1>1, Invariance, PTL DEF Spec, UncertainHeld

\* Settlement facts and outcomes never change once recorded.
THEOREM SettlementsImmutable == Spec => SettlementImmutable
<1>1. IInv /\ [Next]_vars =>
        [\A j \in Jobs :
           ticket'[j].state # "ABSENT" =>
             /\ ticket[j].settlement # NoIntent
                  => ticket'[j].settlement = ticket[j].settlement
             /\ ticket[j].outcome # "NONE"
                  => ticket'[j].outcome = ticket[j].outcome]_vars
  BY TicketStep DEF RecordStep
<1> QED BY <1>1, Invariance, PTL DEF Spec, SettlementImmutable

\* No caller, however late or repeated, undoes what a ticket remembers: its
\* owner, its cancellation, a delivery that may have happened, its settlement.
THEOREM HistoryPreserved == Spec => HistoryKept
BY OwnersKept, CancellationSticks, UncertainDeliveryHeld, SettlementsImmutable
   DEF HistoryKept

----------------------------------------------------------------------------
(****************************************************************************)
(* The store implements the capacity contract.                              *)
(****************************************************************************)

LEMMA InitContract == Init => Contract!Init
BY TimingAssumption DEF Init, Contract!Init, ActiveJobs, Active, ClosedJobs, Absent

\* The instance counts as this module does.
LEMMA SameCardinality == \A S : Contract!Cardinality(S) = Cardinality(S)
BY DEF Contract!Cardinality, Cardinality

LEMMA StepContract ==
  ASSUME IInv, CountsExact, [Next]_vars
  PROVE  [Contract!Next]_(Contract!vars)
<1> USE DEF IInv, TypeOK
<1>1. ASSUME NEW j \in Jobs, Shaped(j)
      PROVE  \/ \E k \in Jobs : Contract!Open(k) \/ Contract!Close(k)
             \/ UNCHANGED Contract!vars
  <2>1. CASE Admit(j) /\ j \notin ActiveJobs /\ ActiveJobs' = ActiveJobs \union {j}
    <3>a. ticket' = [ticket EXCEPT ![j] = [Absent EXCEPT !.state = "ACCEPTED"]]
      BY <2>1 DEF Admit
    <3>e. ticket[j].state = "ABSENT" /\ now < Deadline[j] /\ now' = now
      BY <2>1 DEF Admit
    <3>f. now \in Nat /\ Deadline[j] \in Nat
      BY TimingAssumption
    <3>b. ~(now >= Deadline[j])
      BY <3>e, <3>f
    <3>c. [Absent EXCEPT !.state = "ACCEPTED"].state = "ACCEPTED"
      BY DEF Absent
    <3>1. j \notin ActiveJobs \union ClosedJobs
      BY <2>1, <3>e, <3>b DEF ClosedJobs
    <3>2. ClosedJobs' = ClosedJobs
      BY <3>a, <3>b, <3>c, <3>e DEF ClosedJobs
    <3>d. /\ totals.count < GlobalPending
          /\ subject[SubjectOf[j]] < SubjectPending
          /\ ingress[IngressOf[j]] < IngressPending
      BY <2>1, KeysExist, LimitAssumption DEF Admit, Full
    <3>g. /\ subject[SubjectOf[j]]
               = Cardinality({k \in ActiveJobs : SubjectOf[k] = SubjectOf[j]})
          /\ ingress[IngressOf[j]]
               = Cardinality({k \in ActiveJobs : IngressOf[k] = IngressOf[j]})
      BY KeysExist DEF CountsExact
    <3>h. totals.count = Cardinality(ActiveJobs)
      BY DEF CountsExact
    <3>3. Contract!HasRoom(j)
      <4> HIDE DEF IInv, TypeOK
      <4>1. Cardinality(ActiveJobs) < GlobalPending
        BY <3>d, <3>h
      <4>2. Cardinality({k \in ActiveJobs : SubjectOf[k] = SubjectOf[j]}) < SubjectPending
        BY <3>d, <3>g
      <4>3. Cardinality({k \in ActiveJobs : IngressOf[k] = IngressOf[j]}) < IngressPending
        BY <3>d, <3>g
      <4> QED BY <4>1, <4>2, <4>3, SameCardinality DEF Contract!HasRoom
    <3> QED BY <2>1, <3>1, <3>2, <3>3 DEF Contract!Open
  <2>2. ASSUME NEW r \in Record, Releases(j, r),
               j \in ActiveJobs, ActiveJobs' = ActiveJobs \ {j}
        PROVE  Contract!Close(j)
    <3>1. ClosedJobs' = ClosedJobs \union {j}
      BY <2>2 DEF Releases, Release, ClosedJobs
    <3> QED BY <2>2, <3>1 DEF Contract!Close
  <2>3. CASE ActiveJobs' = ActiveJobs /\ UNCHANGED capacityVars
    <3>1. ClosedJobs' = ClosedJobs
      <4>1. CASE Admit(j)
        BY <4>1, <2>3 DEF Admit, ActiveJobs, Active, Absent
      <4>2. ASSUME NEW r \in Record, Retains(j, r)
            PROVE  ClosedJobs' = ClosedJobs
        BY <4>2 DEF Retains, Retain, ClosedJobs, Active
      <4>3. ASSUME NEW r \in Record, Releases(j, r)
            PROVE  FALSE
        BY <4>3, <2>3 DEF Releases, Release, ActiveJobs, Active
      <4>4. ASSUME NEW r \in Record, Annotates(j, r)
            PROVE  ClosedJobs' = ClosedJobs
        BY <4>4 DEF Annotates, Annotate, ClosedJobs
      <4>5. CASE Retire(j)
        BY <4>5 DEF Retire, Absent, ClosedJobs
      <4>6. CASE PayloadLapse(j)
        BY <4>6 DEF PayloadLapse, ClosedJobs
      <4> QED BY <1>1, <4>1, <4>2, <4>3, <4>4, <4>5, <4>6 DEF Shaped
    <3> QED BY <2>3, <3>1 DEF Contract!vars
  <2> QED BY <1>1, <2>1, <2>2, <2>3, ShapedActive
<1>2. CASE Tick
  <2>1. ActiveJobs' = ActiveJobs
    BY <1>2 DEF Tick, storeVars, ActiveJobs, Active
  <2>2. ClosedJobs \subseteq ClosedJobs'
    BY <1>2, TimingAssumption DEF Tick, storeVars, ClosedJobs
  <2>3. ActiveJobs \intersect ClosedJobs' = {}
    BY <1>2 DEF Tick, storeVars, ClosedJobs, ActiveJobs, Active
  <2> DEFINE S == ClosedJobs' \ ClosedJobs
  <2>4. S \in SUBSET Jobs /\ Contract!Lapse(S)
    BY <2>1, <2>2, <2>3 DEF Contract!Lapse, ClosedJobs
  <2> QED BY <2>4 DEF Contract!Next
<1>3. CASE UNCHANGED vars
  BY <1>3 DEF vars, ActiveJobs, Active, ClosedJobs, Contract!vars
<1>4. ASSUME NEW j \in Jobs, Operation(j)
      PROVE  [Contract!Next]_(Contract!vars)
  BY <1>1, <1>4, OperationShaped DEF Contract!Next
<1> QED BY <1>2, <1>3, <1>4 DEF Next

\* The counters admit, hold and release work as the contract says: no job is
\* opened twice, none past a limit, and closed work stays closed.
THEOREM Refinement == Spec => ImplementsContract
<1>1. Init => Contract!Init
  BY InitContract
<1>2. IInv /\ CountsExact /\ [Next]_vars => [Contract!Next]_(Contract!vars)
  BY StepContract
<1> QED BY <1>1, <1>2, Invariance, CapacityExact, PTL
        DEF Spec, ImplementsContract, Contract!Spec

----------------------------------------------------------------------------
(* The pipeline.                                                            *)

(****************************************************************************)
(* The inductive invariant relates what each actor remembers to the ticket, *)
(* the reservation, the ledger and the deliveries of its job.               *)
(****************************************************************************)
Owning == Executing \union {"prepare"}
Settling == {"receipt", "consume", "release"}

\* What holds of a job whatever the actors are doing.
JobOK(j) ==
  LET r == ticket[j] IN
  /\ delivered[j] <= 1
  /\ charges[j] <= delivered[j]
  /\ delivered[j] = 1 =>
       \/ r.state = "DELIVERY_UNCERTAIN"
       \/ r.state \in {"SETTLING", "TERMINAL"} /\ r.settlement = Spent
  /\ r.settlement = Spent => delivered[j] = 1
  /\ r.state = "ABSENT" => budget[j] = "none"
  /\ budget[j] = "COMMITTED" => charges[j] = 1
  /\ budget[j] = "RESERVED" /\ ~r.reserved => r.state \in {"RUNNING", "CANCELLING"}
  /\ r.state = "TERMINAL" => budget[j] # "RESERVED" /\ charges[j] = delivered[j]

\* A worker that executes or prepares its settlement owns the ticket; it has a
\* live reservation once the ticket is marked.
OwnerOK(a) ==
  LET s == act[a]  r == ticket[s.job] IN
  /\ s.pc \in Owning => a \in Workers /\ r.token = a
  /\ s.pc \in Executing \ {"sending"} => r.state \in {"RUNNING", "CANCELLING"}
  /\ s.pc = "claimed" /\ budget[s.job] = "RESERVED" => r.reserved
  /\ s.pc \in Executing \ {"claimed"} => budget[s.job] = "RESERVED"
  /\ s.pc \in Executing \ {"claimed", "budgeted"} => r.reserved
  /\ s.pc = "sending" => r.state = "DELIVERY_UNCERTAIN" /\ delivered[s.job] = 0
  /\ s.pc = "prepare" =>
       /\ s.token = a
       /\ s.intent.actual # "none"
       /\ r.state \in {"RUNNING", "CANCELLING", "DELIVERY_UNCERTAIN"}
       /\ s.intent = Spent =>
            r.state = "DELIVERY_UNCERTAIN" /\ delivered[s.job] = 1
       /\ s.intent # Spent => delivered[s.job] = 0

\* An actor that settles holds the recorded intent, and settles it in order.
SettlerOK(a) ==
  LET s == act[a]  r == ticket[s.job] IN
  /\ s.pc \in Settling =>
       r.state \in {"SETTLING", "TERMINAL"} /\ r.settlement = s.intent
  /\ s.pc \in Settling \ {"receipt"} /\ s.intent = Spent => charges[s.job] = 1
  /\ s.pc = "release" => budget[s.job] # "RESERVED"

\* A task never outlives the grace of its reservation.
TimelyOK(a) ==
  a \in Workers /\ act[a].pc # "idle" => now < Deadline[act[a].job] + Grace

ActorOK(a) == OwnerOK(a) /\ SettlerOK(a) /\ TimelyOK(a)

StampOK == \A j \in Jobs : stamp[j] <= emergency.epoch

JInv ==
  /\ IInv
  /\ JobTypeOK
  /\ \A j \in Jobs : JobOK(j)
  /\ \A a \in Actors : ActorOK(a)
  /\ StampOK
  /\ now <= MaxTime
  /\ \A j \in Jobs : ticket[j].attempt <= MaxAttempt

----------------------------------------------------------------------------
(****************************************************************************)
(* The pipeline changes tickets by operations of the store alone.           *)
(****************************************************************************)
USE DEF QueuedStates, OwnedStates, ActiveStates

LEMMA ActorShape ==
  ASSUME JobTypeOK, NEW a \in Actors
  PROVE  /\ act[a].pc \in WorkerPcs => act[a] \in WorkSteps
         /\ act[a].pc \in SettlementPcs => act[a] \in SettlementSteps
         /\ act[a].pc = "notify" => act[a] \in NoticeSteps
         /\ act[a].pc = "settling" => act[a] \in SettlingSteps
         /\ act[a].pc = "queued" => act[a] \in QueuedSteps
         /\ act[a].pc # "idle" => act[a].job \in Jobs
<1>1. act[a] \in Steps
  BY DEF JobTypeOK
<1> QED BY <1>1 DEF Steps, Idle, WorkSteps, SettlementSteps, NoticeSteps,
              SettlingSteps, QueuedSteps, WorkerPcs, SettlementPcs

LEMMA ZeroIntent ==
  ASSUME NEW o \in Outcomes
  PROVE  /\ Zero(o) \in Intents /\ Spent \in Intents
         /\ Zero(o) # Spent /\ Zero(o).actual # "none" /\ Spent.actual # "none"
         /\ Zero(o) # NoIntent /\ Spent # NoIntent
BY DEF Zero, Spent, Intents, Outcomes, NoIntent

\* Every amount that is spent is spent on a completed job.
LEMMA SpentIntent ==
  ASSUME NEW i \in Intents
  PROVE  /\ i.actual = "spent" <=> i = Spent
         /\ i # NoIntent /\ i.outcome \in Outcomes
BY DEF Spent, Intents, Outcomes, NoIntent

\* A caller's stage and attempt that match the ticket's are ones it can hold.
LEMMA MatchCaptured ==
  ASSUME JInv, NEW j \in Jobs, NEW s, NEW n, Matches(j, s, n)
  PROVE  <<s, n>> \in Captured
<1>1. s \in Stages /\ n \in 0..MaxAttempt
  BY InputAssumption DEF JInv, IInv, TypeOK, Record, Matches
<1> QED BY <1>1, CallersAssumption

LEMMA BotOperation ==
  ASSUME JInv, NEW j \in Jobs, Bot(j)
  PROVE  Operation(j) \/ UNCHANGED vars
<1>1. CASE Accept(j)
  BY <1>1 DEF Accept, Operation
<1>2. CASE Enroll(j)
  <2>1. 0 \in Schedules
    BY InputAssumption, CallersAssumption
  <2> QED BY <1>2, <2>1 DEF Enroll, Operation
<1>3. CASE Acknowledge(j) /\ Published(j, bot[j].stage, bot[j].attempt)
  <2>1. <<bot[j].stage, bot[j].attempt>> \in Captured
    BY <1>3, MatchCaptured DEF Published
  <2>2. \E c \in Captured : Published(j, c[1], c[2])
    BY <1>3, <2>1
  <2> QED BY <2>2 DEF Operation
<1>4. CASE MarkEnqueued(j) /\ Enqueued(j, bot[j].stage, bot[j].attempt)
  <2>1. <<bot[j].stage, bot[j].attempt>> \in Captured
    BY <1>4, MatchCaptured DEF Enqueued
  <2>2. \E c \in Captured : Enqueued(j, c[1], c[2])
    BY <1>4, <2>1
  <2> QED BY <2>2 DEF Operation
<1> QED BY <1>1, <1>2, <1>3, <1>4
        DEF Bot, Stamp, BotPublish, Acknowledge, MarkEnqueued, BotLeaves, BotStops

\* Finishing, by whoever holds the ticket's token.
LEMMA FinishOperation ==
  ASSUME JInv, NEW j \in Jobs, NEW o \in Outcomes, NEW t, Finish(j, o, t)
  PROVE  Operation(j)
<1>1. t \in Tokens \union {NoToken, RecoveryToken}
  BY DEF JInv, IInv, TypeOK, Record, Finish
<1>2. o \in Results
  BY CallersAssumption
<1> QED BY <1>1, <1>2 DEF Operation

LEMMA FinishSafeOperation ==
  ASSUME JInv, NEW w \in Workers, act[w].job \in Jobs, NEW o \in Outcomes, NEW n,
         FinishTicketSafe(w, o, n)
  PROVE  Operation(act[w].job) \/ UNCHANGED vars
BY FinishOperation DEF FinishTicketSafe

LEMMA WorkerOperation ==
  ASSUME JInv, NEW w \in Workers, Worker(w)
  PROVE  (\E j \in Jobs : Operation(j)) \/ UNCHANGED vars
<1> DEFINE j == act[w].job
<1>0. w \in Tokens /\ w \in Actors
  BY WorkersAssumption DEF Actors
<1>1. act[w].pc # "idle" => j \in Jobs
  BY <1>0, ActorShape DEF JInv
<1>2. CASE Receive(w) \/ Reserve(w) \/ CheckEpoch(w) \/ Extract(w) \/ Deliver(w)
  BY <1>2 DEF Receive, Reserve, CheckEpoch, Extract, Deliver
<1>3. CASE ClaimTask(w)
  <2>1. CASE Claim(j, act[w].stage, w)
    <3>1. act[w].stage \in Stages /\ j \in Jobs
      BY <1>0, <1>1, <1>3, ActorShape DEF ClaimTask, Doing, WorkerPcs, WorkSteps, JInv
    <3> QED BY <1>0, <2>1, <3>1 DEF Operation
  <2> QED BY <1>3, <2>1 DEF ClaimTask
<1>4. CASE FinishExpiredUnclaimed(w)
  <2>1. j \in Jobs /\ "EXPIRED" \in Outcomes
    BY <1>1, <1>4 DEF FinishExpiredUnclaimed, Doing, Outcomes
  <2> QED BY <1>4, <2>1, FinishOperation DEF FinishExpiredUnclaimed
<1>5. CASE PayloadGone(w)
  <2>1. j \in Jobs /\ "EXPIRED" \in Outcomes /\ "PAYLOAD_UNAVAILABLE" \in Outcomes
    BY <1>1, <1>5 DEF PayloadGone, Doing, Outcomes
  <2> QED BY <1>5, <2>1, FinishSafeOperation DEF PayloadGone
<1>6. CASE Denied(w)
  <2>0. j \in Jobs /\ {"EXPIRED", "FAILED", "CANCELLED"} \subseteq Outcomes
    BY <1>1, <1>6 DEF Denied, Doing, Outcomes
  <2>1. CASE Defer(j, w, now + 1)
    <3>1. now + 1 \in Schedules
      BY CallersAssumption, InputAssumption DEF JInv, IInv, TypeOK
    <3> QED BY <1>0, <2>0, <2>1, <3>1 DEF Operation
  <2> QED BY <1>6, <2>0, <2>1, FinishSafeOperation DEF Denied, Wait
<1>7. CASE MarkReserved(w)
  <2>1. j \in Jobs
    BY <1>1, <1>7 DEF MarkReserved, Doing
  <2> QED BY <1>0, <1>7, <2>1 DEF MarkReserved, Operation
<1>8. CASE HandoffToBrowser(w)
  <2>1. j \in Jobs
    BY <1>1, <1>8 DEF HandoffToBrowser, Doing
  <2> QED BY <1>0, <1>8, <2>1 DEF HandoffToBrowser, Operation
<1>9. CASE StartDelivery(w)
  <2>1. j \in Jobs
    BY <1>1, <1>9 DEF StartDelivery, Doing
  <2> QED BY <1>0, <1>9, <2>1 DEF StartDelivery, Operation
<1>10. CASE PrepareSettlement(w)
  <2>1. act[w] \in SettlementSteps /\ act[w].token = w
    BY <1>0, <1>10, ActorShape
    DEF PrepareSettlement, Doing, SettlementPcs, JInv, ActorOK, OwnerOK
  <2>2. act[w].intent \in Offered
    BY <2>1, SpentIntent, CallersAssumption DEF SettlementSteps, Offered
  <2>3. Prepare(j, w, act[w].intent) /\ j \in Jobs
    BY <1>10, <2>1 DEF PrepareSettlement, SettlementSteps
  <2> QED BY <1>0, <2>2, <2>3 DEF Operation
<1> QED BY <1>2, <1>3, <1>4, <1>5, <1>6, <1>7, <1>8, <1>9, <1>10 DEF Worker

LEMMA SharedOperation ==
  ASSUME JInv, NEW a \in Actors, Shared(a)
  PROVE  (\E j \in Jobs : Operation(j)) \/ UNCHANGED vars
<1> DEFINE j == act[a].job
<1>1. CASE ReleaseTicket(a)
  <2>1. act[a] \in SettlementSteps
    BY <1>1, ActorShape DEF ReleaseTicket, Doing, SettlementPcs, JInv
  <2>2. j \in Jobs /\ act[a].intent.outcome \in Outcomes
    BY <2>1, SpentIntent DEF SettlementSteps
  <2> QED BY <1>1, <2>2, FinishOperation DEF ReleaseTicket
<1>2. CASE SendNotice(a)
  <2>1. act[a] \in NoticeSteps
    BY <1>2, ActorShape DEF SendNotice, Doing, JInv
  <2>2. j \in Jobs /\ KindOf(act[a].notice) \in Claimable
    BY <2>1, CallersAssumption DEF NoticeSteps, KindOf, NoticeKinds
  <2> QED BY <1>2, <2>2 DEF SendNotice, Operation
<1> QED BY <1>1, <1>2 DEF Shared, PublishStage, ApplyReceipt, Consume

LEMMA RecoverOperation ==
  ASSUME JInv, Recover
  PROVE  (\E j \in Jobs : Operation(j)) \/ UNCHANGED vars
<1> DEFINE j == act[Sweeper].job
<1>0. Sweeper \in Actors
  BY DEF Actors
<1>1. act[Sweeper].pc = "queued" => j \in Jobs
  BY <1>0, ActorShape DEF JInv
<1>2. CASE RecoverExpired
  BY <1>1, <1>2 DEF RecoverExpired, Doing, Operation
<1>3. CASE RecoverQueued /\ Republish(j, act[Sweeper].stage, act[Sweeper].attempt)
  <2>1. j \in Jobs
    BY <1>1, <1>3 DEF RecoverQueued, Doing
  <2>2. <<act[Sweeper].stage, act[Sweeper].attempt>> \in Captured
    BY <1>3, <2>1, MatchCaptured DEF Republish
  <2>3. \E c \in Captured : Republish(j, c[1], c[2])
    BY <1>3, <2>2
  <2> QED BY <2>1, <2>3 DEF Operation
<1> QED BY <1>2, <1>3 DEF Recover, RecoverSettling, RecoverQueued

LEMMA StoreStep ==
  ASSUME JInv, JobNext
  PROVE  [Next]_vars
<1>1. ASSUME NEW j \in Jobs,
             \/ Page(j) \/ NotifyExpired(j) \/ ClearCancel(j) \/ ClearDrop(j)
             \/ ExpireStale(j) \/ PayloadExpires(j)
      PROVE  Operation(j) \/ UNCHANGED vars
  BY <1>1 DEF Page, NotifyExpired, ClearCancel, ClearDrop, ExpireStale,
              PayloadExpires, PayloadLapse, Operation, vars
<1>2. ASSUME NEW w \in Workers, Raises(w)
      PROVE  UNCHANGED vars
  BY <1>2 DEF Raises
<1>3. ASSUME NEW a \in Crashing, Stops(a)
      PROVE  UNCHANGED vars
  BY <1>3 DEF Stops
<1>4. ASSUME NEW m \in broker, Lose(m)
      PROVE  UNCHANGED vars
  BY <1>4 DEF Lose
<1>5. Passes \/ SetEmergency => Tick \/ UNCHANGED vars
  BY DEF Passes, SetEmergency
<1> QED BY <1>1, <1>2, <1>3, <1>4, <1>5, BotOperation, WorkerOperation,
           SharedOperation, RecoverOperation DEF JobNext, Next

----------------------------------------------------------------------------
(****************************************************************************)
(* What each operation does to the part of a ticket the invariant is about. *)
(****************************************************************************)
Becomes(j, s, t, r, i) ==
  /\ ticket'[j].state = s /\ ticket'[j].token = t
  /\ ticket'[j].reserved = r /\ ticket'[j].settlement = i
  /\ \A k \in Jobs \ {j} : ticket'[k] = ticket[k]

\* Only the bookkeeping of publications, deferrals and notices.
Kept(j) ==
  Becomes(j, ticket[j].state, ticket[j].token, ticket[j].reserved,
          ticket[j].settlement)

\* Queued work that stops: settled by recovery if it holds a reservation.
Dropped(j, o) ==
  \/ ticket[j].reserved /\ Becomes(j, "SETTLING", RecoveryToken, TRUE, Zero(o))
  \/ ~ticket[j].reserved
     /\ Becomes(j, "TERMINAL", ticket[j].token, FALSE, ticket[j].settlement)

LEMMA EffectOfCallers ==
  ASSUME TypeOK, NEW j \in Jobs
  PROVE  /\ Admit(j) => ticket[j].state = "ABSENT"
                        /\ Becomes(j, "ACCEPTED", NoToken, FALSE, NoIntent)
         /\ \A t : Register(j, t) => Kept(j)
         /\ \A s, n : Published(j, s, n) => Kept(j)
         /\ \A s, n : Enqueued(j, s, n) =>
              /\ ticket[j].state = "ACCEPTED"
              /\ Becomes(j, "ENQUEUED", ticket[j].token, ticket[j].reserved,
                         ticket[j].settlement)
         /\ \A s, n : Republish(j, s, n) => Kept(j)
         /\ \A k : ClaimNotice(j, k) => Kept(j)
<1>0. ticket[j] \in Record
  BY DEF TypeOK
<1> USE <1>0 DEF Becomes, Kept, TypeOK, Record
<1>1. Admit(j) => ticket[j].state = "ABSENT"
                  /\ Becomes(j, "ACCEPTED", NoToken, FALSE, NoIntent)
  BY DEF Admit, Absent
<1>2. ASSUME NEW t, Register(j, t) PROVE Kept(j)
  BY <1>2 DEF Register, Retain
<1>3. ASSUME NEW s, NEW n, Published(j, s, n) PROVE Kept(j)
  BY <1>3 DEF Published, Retain
<1>4. ASSUME NEW s, NEW n, Enqueued(j, s, n)
      PROVE  /\ ticket[j].state = "ACCEPTED"
             /\ Becomes(j, "ENQUEUED", ticket[j].token, ticket[j].reserved,
                        ticket[j].settlement)
  BY <1>4 DEF Enqueued, Retain
<1>5. ASSUME NEW s, NEW n, Republish(j, s, n) PROVE Kept(j)
  BY <1>5 DEF Republish, Retain
<1>6. ASSUME NEW k, ClaimNotice(j, k) PROVE Kept(j)
  BY <1>6 DEF ClaimNotice, Noticed, Retain, Annotate
<1> QED BY <1>1, <1>2, <1>3, <1>4, <1>5, <1>6

LEMMA EffectOfStops ==
  ASSUME TypeOK, NEW j \in Jobs
  PROVE  /\ Expire(j) => Queued(j) /\ Dropped(j, "EXPIRED")
         /\ Cancel(j) =>
              \/ Queued(j) /\ Dropped(j, "CANCELLED")
              \/ /\ ticket[j].state = "RUNNING"
                 /\ Becomes(j, "CANCELLING", ticket[j].token, ticket[j].reserved,
                            ticket[j].settlement)
         /\ \A o, t : Finish(j, o, t) =>
              /\ ticket[j].reserved => ticket[j].state = "SETTLING"
              /\ Active(j) /\ ticket[j].state # "DELIVERY_UNCERTAIN"
              /\ Becomes(j, "TERMINAL", ticket[j].token, ticket[j].reserved,
                         ticket[j].settlement)
<1>0. ticket[j] \in Record
  BY DEF TypeOK
<1> USE <1>0 DEF Becomes, TypeOK, Record
<1>1. ASSUME NEW o, QueuedTerminal(j, o) PROVE Dropped(j, o)
  <2>1. CASE ticket[j].reserved
    <3> DEFINE r == [ticket[j] EXCEPT !.state = "SETTLING",
                                      !.token = RecoveryToken,
                                      !.settlement = [outcome |-> o,
                                                      actual |-> "zero"]]
    <3>1. ticket' = [ticket EXCEPT ![j] = r]
      BY <1>1, <2>1 DEF QueuedTerminal, Retain
    <3>2. ticket'[j] = r /\ \A k \in Jobs \ {j} : ticket'[k] = ticket[k]
      BY <3>1
    <3>3. r.state = "SETTLING" /\ r.token = RecoveryToken /\ r.reserved = TRUE
      BY <2>1
    <3>4. r.settlement = Zero(o)
      BY DEF Zero
    <3> HIDE DEF r
    <3> QED BY <2>1, <3>2, <3>3, <3>4 DEF Dropped
  <2>2. CASE ~ticket[j].reserved
    <3> DEFINE r == [ticket[j] EXCEPT !.state = "TERMINAL", !.outcome = o,
                                      !.requested = @ \union {"TERMINAL"}]
    <3>1. ticket' = [ticket EXCEPT ![j] = r]
      BY <1>1, <2>2 DEF QueuedTerminal, Release
    <3>2. ticket'[j] = r /\ \A k \in Jobs \ {j} : ticket'[k] = ticket[k]
      BY <3>1
    <3>3. /\ r.state = "TERMINAL" /\ r.reserved = FALSE
          /\ r.token = ticket[j].token /\ r.settlement = ticket[j].settlement
      BY <2>2
    <3> HIDE DEF r
    <3> QED BY <2>2, <3>2, <3>3 DEF Dropped
  <2> QED BY <2>1, <2>2
<1>2. Expire(j) => Queued(j) /\ Dropped(j, "EXPIRED")
  BY <1>1 DEF Expire
<1>3. CancelQueued(j) => Queued(j) /\ Dropped(j, "CANCELLED")
  BY <1>1 DEF CancelQueued
<1>4. CancelRunning(j) =>
        /\ ticket[j].state = "RUNNING"
        /\ Becomes(j, "CANCELLING", ticket[j].token, ticket[j].reserved,
                   ticket[j].settlement)
  BY DEF CancelRunning, Retain
<1>5. ASSUME NEW o, NEW t, Finish(j, o, t)
      PROVE  /\ ticket[j].reserved => ticket[j].state = "SETTLING"
             /\ Active(j) /\ ticket[j].state # "DELIVERY_UNCERTAIN"
             /\ Becomes(j, "TERMINAL", ticket[j].token, ticket[j].reserved,
                        ticket[j].settlement)
  BY <1>5 DEF Finish, Release
<1> QED BY <1>2, <1>3, <1>4, <1>5 DEF Cancel

LEMMA EffectOfOwners ==
  ASSUME TypeOK, NEW j \in Jobs, NEW t
  PROVE  /\ \A s : Claim(j, s, t) =>
              /\ Queued(j)
              /\ Becomes(j, "RUNNING", t, ticket[j].reserved, ticket[j].settlement)
         /\ Reserved(j, t) =>
              Becomes(j, ticket[j].state, ticket[j].token, TRUE, ticket[j].settlement)
         /\ \A n : Defer(j, t, n) =>
              /\ ~ticket[j].reserved /\ ticket[j].state = "RUNNING"
              /\ Becomes(j, "WAITING", NoToken, FALSE, ticket[j].settlement)
         /\ Handoff(j, t) =>
              /\ ticket[j].state = "RUNNING"
              /\ Becomes(j, "ACCEPTED", NoToken, ticket[j].reserved,
                         ticket[j].settlement)
         /\ BeginDelivery(j, t) =>
              /\ ticket[j].state = "RUNNING"
              /\ Becomes(j, "DELIVERY_UNCERTAIN", ticket[j].token,
                         ticket[j].reserved, ticket[j].settlement)
         /\ \A i : Prepare(j, t, i) =>
              /\ ticket[j].reserved <=> i.actual # "none"
              /\ Becomes(j, "SETTLING", ticket[j].token, ticket[j].reserved, i)
<1>0. ticket[j] \in Record
  BY DEF TypeOK
<1> USE <1>0 DEF Becomes, TypeOK, Record
<1>1. ASSUME NEW s, Claim(j, s, t)
      PROVE  /\ Queued(j)
             /\ Becomes(j, "RUNNING", t, ticket[j].reserved, ticket[j].settlement)
  BY <1>1 DEF Claim, Retain
<1>2. Reserved(j, t) =>
        Becomes(j, ticket[j].state, ticket[j].token, TRUE, ticket[j].settlement)
  BY DEF Reserved, Retain
<1>3. ASSUME NEW n, Defer(j, t, n)
      PROVE  /\ ~ticket[j].reserved /\ ticket[j].state = "RUNNING"
             /\ Becomes(j, "WAITING", NoToken, FALSE, ticket[j].settlement)
  BY <1>3 DEF Defer, Retain
<1>4. Handoff(j, t) =>
        /\ ticket[j].state = "RUNNING"
        /\ Becomes(j, "ACCEPTED", NoToken, ticket[j].reserved, ticket[j].settlement)
  BY DEF Handoff, Retain
<1>5. BeginDelivery(j, t) =>
        /\ ticket[j].state = "RUNNING"
        /\ Becomes(j, "DELIVERY_UNCERTAIN", ticket[j].token, ticket[j].reserved,
                   ticket[j].settlement)
  BY DEF BeginDelivery, Retain
<1>6. ASSUME NEW i, Prepare(j, t, i)
      PROVE  /\ ticket[j].reserved <=> i.actual # "none"
             /\ Becomes(j, "SETTLING", ticket[j].token, ticket[j].reserved, i)
  BY <1>6 DEF Prepare, Retain
<1> QED BY <1>1, <1>2, <1>3, <1>4, <1>5, <1>6

----------------------------------------------------------------------------
(****************************************************************************)
(* A change of one ticket, seen by the actors that do not make it.          *)
(****************************************************************************)
CoreOK == (\A j \in Jobs : JobOK(j)) /\ (\A a \in Actors : ActorOK(a))

\* Work that nobody owns changes, or its owner changes it, or a stop marks
\* running work, or settled work is released, or only bookkeeping is written.
Harmless(b, j) ==
  \/ Kept(j)
  \/ ticket[j].state \in QueuedStates \union {"ABSENT"}
  \/ ticket[j].state \in {"RUNNING", "CANCELLING", "DELIVERY_UNCERTAIN"}
     /\ ticket[j].token # b
  \/ /\ ticket[j].state = "RUNNING"
     /\ Becomes(j, "CANCELLING", ticket[j].token, ticket[j].reserved,
                ticket[j].settlement)
  \/ /\ ticket[j].state = "SETTLING"
     /\ Becomes(j, "TERMINAL", ticket[j].token, ticket[j].reserved,
                ticket[j].settlement)

LEMMA JobFacts ==
  ASSUME JInv, NEW j \in Jobs
  PROVE  /\ ticket[j] \in Record /\ JobOK(j)
         /\ charges[j] \in Nat /\ delivered[j] \in Nat
         /\ ticket[j].state \in QueuedStates => ticket[j].token = NoToken
         /\ ticket[j].state = "SETTLING" => ticket[j].settlement \in Intents
         /\ ticket[j].state \in QueuedStates \union {"ABSENT", "RUNNING", "CANCELLING"}
              => /\ delivered[j] = 0 /\ charges[j] = 0
                 /\ ticket[j].settlement = NoIntent
         /\ ticket[j].state = "DELIVERY_UNCERTAIN" => ticket[j].settlement = NoIntent
<1>1. ticket[j] \in Record /\ RecordInv(j, ticket[j]) /\ JobOK(j)
  BY DEF JInv, IInv, TypeOK, RecordsOK
<1>2. charges[j] \in Nat /\ delivered[j] \in Nat
  BY DEF JInv, JobTypeOK
<1>3. NoIntent # Spent
  BY DEF NoIntent, Spent
<1>4. /\ ticket[j].state \in QueuedStates => ticket[j].token = NoToken
      /\ ticket[j].state = "SETTLING" => ticket[j].settlement \in Intents
      /\ ticket[j].state \notin {"SETTLING", "TERMINAL"} => ticket[j].settlement = NoIntent
  <2>1. ticket[j].settlement \in Intents \union {NoIntent}
    BY <1>1 DEF Record
  <2> QED BY <1>1, <2>1 DEF RecordInv, Readable
<1>5. ASSUME ticket[j].state \in QueuedStates \union {"ABSENT", "RUNNING", "CANCELLING"}
      PROVE  delivered[j] = 0 /\ charges[j] = 0 /\ ticket[j].settlement = NoIntent
  BY <1>1, <1>2, <1>3, <1>4, <1>5 DEF JobOK
<1> QED BY <1>1, <1>2, <1>4, <1>5

LEMMA ActorFacts ==
  ASSUME JInv, NEW a \in Actors
  PROVE  /\ OwnerOK(a) /\ SettlerOK(a) /\ TimelyOK(a)
         /\ a = NoToken => a \notin Workers
         /\ act[a].pc # "idle" => act[a].job \in Jobs
         /\ act[a].pc \in SettlementPcs => act[a].intent \in Intents
BY ActorShape, InputAssumption, WorkersAssumption
   DEF JInv, ActorOK, SettlementSteps

LEMMA TicketOthers ==
  ASSUME JInv, NEW b \in Actors, act'[b] = act[b], NEW j \in Jobs,
         UNCHANGED <<budget, charges, delivered, now>>,
         \A k \in Jobs \ {j} : ticket'[k] = ticket[k], Harmless(b, j)
  PROVE  ActorOK(b)'
<1>1. /\ OwnerOK(b) /\ SettlerOK(b) /\ TimelyOK(b)
      /\ act[b].pc # "idle" => act[b].job \in Jobs
      /\ b = NoToken => b \notin Workers
  BY ActorFacts
<1>2. TimelyOK(b)'
  BY <1>1 DEF TimelyOK
<1>3. CASE act[b].pc = "idle"
  BY <1>2, <1>3 DEF ActorOK, OwnerOK, SettlerOK, Owning, Executing, Settling
<1>4. CASE act[b].pc # "idle" /\ act[b].job # j
  <2>1. ticket'[act[b].job] = ticket[act[b].job]
    BY <1>1, <1>4
  <2> QED BY <1>1, <1>2, <2>1 DEF ActorOK, OwnerOK, SettlerOK
<1>5. CASE act[b].pc # "idle" /\ act[b].job = j
  <2>0. ticket[j].state \in QueuedStates => ticket[j].token = NoToken
    BY JobFacts
  <2>1. OwnerOK(b)'
    BY <1>1, <1>5, <2>0
    DEF OwnerOK, Harmless, Kept, Becomes, Owning, Executing
  <2>2. SettlerOK(b)'
    BY <1>1, <1>5 DEF SettlerOK, Harmless, Kept, Becomes, Settling
  <2> QED BY <1>2, <2>1, <2>2 DEF ActorOK
<1> QED BY <1>3, <1>4, <1>5

LEMMA ChangeStep ==
  ASSUME JInv, NEW a \in Actors, NEW j \in Jobs,
         \A b \in Actors \ {a} : act'[b] = act[b] /\ Harmless(b, j),
         \A k \in Jobs \ {j} : ticket'[k] = ticket[k],
         UNCHANGED <<budget, charges, delivered, now>>,
         JobOK(j)', ActorOK(a)'
  PROVE  CoreOK'
<1>1. ASSUME NEW b \in Actors
      PROVE  ActorOK(b)'
  <2>1. CASE b # a
    <3>1. act'[b] = act[b] /\ Harmless(b, j)
      BY <2>1
    <3> QED BY <3>1, TicketOthers
  <2> QED BY <2>1
<1>2. ASSUME NEW k \in Jobs
      PROVE  JobOK(k)'
  <2>1. CASE k # j
    BY <2>1 DEF JInv, JobOK
  <2> QED BY <2>1
<1>3. CoreOK'
  BY <1>1, <1>2 DEF CoreOK
<1> QED BY <1>3

\* A step that leaves the store alone.
LEMMA QuietStep ==
  ASSUME JInv, NEW a \in Actors, \A b \in Actors \ {a} : act'[b] = act[b],
         UNCHANGED <<vars, budget, charges, delivered>>, ActorOK(a)'
  PROVE  CoreOK'
<1>1. ASSUME NEW k \in Jobs
      PROVE  JobOK(k)'
  BY DEF JInv, JobOK, vars
<1>2. ASSUME NEW b \in Actors \ {a}
      PROVE  ActorOK(b)'
  <2>1. ActorOK(b) /\ act'[b] = act[b]
    BY DEF JInv
  <2> QED BY <2>1 DEF vars, ActorOK, OwnerOK, SettlerOK, TimelyOK
<1> QED BY <1>1, <1>2 DEF CoreOK

\* An actor that rests, or only sends a notice about the job it worked on.
LEMMA Resting ==
  ASSUME JInv, NEW a \in Actors, now' = now,
         \/ act'[a] = Idle
         \/ /\ act'[a].pc \in {"notify", "publish", "received"}
            /\ act[a].pc # "idle" /\ act'[a].job = act[a].job
  PROVE  ActorOK(a)'
<1>1. act'[a].pc \in {"idle", "notify", "publish", "received"}
  BY DEF Idle
<1>2. TimelyOK(a)'
  BY ActorFacts DEF TimelyOK, Idle
<1> QED BY <1>1, <1>2 DEF ActorOK, OwnerOK, SettlerOK, Owning, Executing, Settling

LEMMA NotifyRests ==
  ASSUME JInv, NEW a \in Actors, act[a].pc # "idle", now' = now, NEW n,
         act'[a] = Notify(act[a].job, n)
  PROVE  ActorOK(a)'
BY Resting DEF Notify

----------------------------------------------------------------------------
(****************************************************************************)
(* Steps of the bot, of the stop, of time and of the broker.                *)
(****************************************************************************)
LEMMA AloneStep ==
  ASSUME JInv, NEW j \in Jobs, act' = act,
         \A k \in Jobs \ {j} : ticket'[k] = ticket[k],
         UNCHANGED <<budget, charges, delivered, now>>,
         \A b \in Actors : Harmless(b, j), JobOK(j)'
  PROVE  CoreOK'
<1>1. ASSUME NEW b \in Actors
      PROVE  ActorOK(b)'
  BY TicketOthers
<1>2. ASSUME NEW k \in Jobs
      PROVE  JobOK(k)'
  <2>1. CASE k # j
    BY <2>1 DEF JInv, JobOK
  <2> QED BY <2>1
<1> QED BY <1>1, <1>2 DEF CoreOK

LEMMA KeptJob ==
  ASSUME JInv, NEW j \in Jobs, Kept(j), UNCHANGED <<budget, charges, delivered>>
  PROVE  JobOK(j)' /\ \A k \in Jobs \ {j} : ticket'[k] = ticket[k]
BY JobFacts DEF JobOK, Kept, Becomes

LEMMA KeptAlone ==
  ASSUME JInv, NEW j \in Jobs, Kept(j), act' = act,
         UNCHANGED <<budget, charges, delivered, now>>
  PROVE  CoreOK'
BY KeptJob, AloneStep DEF Harmless

LEMMA StillCore ==
  ASSUME JInv, UNCHANGED <<vars, act, budget, charges, delivered>>
  PROVE  CoreOK'
<1>1. \A j \in Jobs : JobOK(j)'
  BY DEF JInv, JobOK, vars
<1>2. \A a \in Actors : ActorOK(a)'
  BY DEF JInv, ActorOK, OwnerOK, SettlerOK, TimelyOK, vars
<1> QED BY <1>1, <1>2 DEF CoreOK

LEMMA NowOf ==
  ASSUME NEW j \in Jobs
  PROVE  /\ Admit(j) => now' = now
         /\ \A t : Register(j, t) => now' = now
         /\ \A s, n : Published(j, s, n) => now' = now
         /\ \A s, n : Enqueued(j, s, n) => now' = now
         /\ \A s, n : Republish(j, s, n) => now' = now
         /\ \A k : ClaimNotice(j, k) => now' = now
         /\ Expire(j) => now' = now
         /\ Cancel(j) => now' = now
         /\ \A o, t : Finish(j, o, t) => now' = now
         /\ \A s, t : Claim(j, s, t) => now' = now
         /\ \A t : Reserved(j, t) => now' = now
         /\ \A t, n : Defer(j, t, n) => now' = now
         /\ \A t : Handoff(j, t) => now' = now
         /\ \A t : BeginDelivery(j, t) => now' = now
         /\ \A t, i : Prepare(j, t, i) => now' = now
<1>1. \A r, h : Retain(j, r, h) => now' = now
  BY DEF Retain
<1>2. \A r : Release(j, r) => now' = now
  BY DEF Release
<1>3. \A r : Annotate(j, r) => now' = now
  BY DEF Annotate
<1> USE <1>1, <1>2, <1>3
<1>4. \A o : QueuedTerminal(j, o) => now' = now
  BY DEF QueuedTerminal
<1>5. /\ Admit(j) => now' = now
      /\ \A t : Register(j, t) => now' = now
      /\ \A s, n : Published(j, s, n) => now' = now
      /\ \A s, n : Enqueued(j, s, n) => now' = now
      /\ \A s, n : Republish(j, s, n) => now' = now
      /\ \A k : ClaimNotice(j, k) => now' = now
  BY DEF Admit, Register, Published, Enqueued, Republish, ClaimNotice
<1>6. /\ Expire(j) => now' = now
      /\ Cancel(j) => now' = now
      /\ \A o, t : Finish(j, o, t) => now' = now
      /\ \A s, t : Claim(j, s, t) => now' = now
  BY <1>4 DEF Expire, Cancel, CancelRunning, CancelQueued, Finish, Claim
<1>7. /\ \A t : Reserved(j, t) => now' = now
      /\ \A t, n : Defer(j, t, n) => now' = now
      /\ \A t : Handoff(j, t) => now' = now
      /\ \A t : BeginDelivery(j, t) => now' = now
      /\ \A t, i : Prepare(j, t, i) => now' = now
  BY DEF Reserved, Defer, Handoff, BeginDelivery, Prepare
<1> QED BY <1>5, <1>6, <1>7

LEMMA BotCore ==
  ASSUME JInv, NEW j \in Jobs, Bot(j)
  PROVE  CoreOK'
<1>0. TypeOK
  BY DEF JInv, IInv
<1>1. UNCHANGED <<act, budget, charges, delivered>>
  BY DEF Bot, Stamp, Accept, Enroll, BotPublish, Acknowledge, MarkEnqueued,
         BotLeaves, BotStops, BotGoes
<1>2. CASE UNCHANGED vars
  BY <1>1, <1>2, StillCore
<1>3. CASE Accept(j)
  <2>1. /\ ticket[j].state = "ABSENT" /\ now' = now
        /\ Becomes(j, "ACCEPTED", NoToken, FALSE, NoIntent)
    BY <1>0, <1>3, EffectOfCallers, NowOf DEF Accept
  <2>2. JobOK(j)'
    BY <1>1, <2>1, JobFacts DEF JobOK, Becomes, NoIntent, Spent
  <2> QED BY <1>1, <2>1, <2>2, AloneStep DEF Harmless, Becomes
<1>4. CASE Enroll(j)
  BY <1>0, <1>1, <1>4, EffectOfCallers, NowOf, KeptAlone DEF Enroll
<1>5. CASE Published(j, bot[j].stage, bot[j].attempt)
  BY <1>0, <1>1, <1>5, EffectOfCallers, NowOf, KeptAlone
<1>6. CASE Enqueued(j, bot[j].stage, bot[j].attempt)
  <2>1. /\ ticket[j].state = "ACCEPTED" /\ now' = now
        /\ Becomes(j, "ENQUEUED", ticket[j].token, ticket[j].reserved,
                   ticket[j].settlement)
    BY <1>0, <1>6, EffectOfCallers, NowOf
  <2>2. JobOK(j)'
    BY <1>1, <2>1, JobFacts DEF JobOK, Becomes
  <2> QED BY <1>1, <2>1, <2>2, AloneStep DEF Harmless, Becomes
<1> QED BY <1>2, <1>3, <1>4, <1>5, <1>6
        DEF Bot, Stamp, BotPublish, Acknowledge, MarkEnqueued, BotLeaves, BotStops

\* Queued work that is dropped, by a sweep, a stop or a late message.
LEMMA DroppedJob ==
  ASSUME JInv, NEW j \in Jobs, Queued(j), NEW o \in Outcomes, Dropped(j, o),
         UNCHANGED <<budget, charges, delivered>>
  PROVE  JobOK(j)'
BY JobFacts, ZeroIntent DEF Queued, Dropped, JobOK, Becomes

LEMMA CancelCore ==
  ASSUME JInv, NEW j \in Jobs, ClearCancel(j)
  PROVE  CoreOK'
<1>0. TypeOK /\ "CANCELLED" \in Outcomes
  BY DEF JInv, IInv, Outcomes
<1>1. UNCHANGED <<act, budget, charges, delivered, now>>
  BY NowOf DEF ClearCancel, jobVars
<1>2. CASE Queued(j) /\ Dropped(j, "CANCELLED")
  BY <1>0, <1>1, <1>2, DroppedJob, AloneStep
     DEF Harmless, Queued, Dropped, Becomes
<1>3. CASE /\ ticket[j].state = "RUNNING"
           /\ Becomes(j, "CANCELLING", ticket[j].token, ticket[j].reserved,
                      ticket[j].settlement)
  <2>1. JobOK(j)'
    BY <1>1, <1>3, JobFacts DEF JobOK, Becomes
  <2> QED BY <1>1, <1>3, <2>1, AloneStep DEF Harmless, Becomes
<1> QED BY <1>0, <1>2, <1>3, EffectOfStops DEF ClearCancel

\* The expiry of a reservation comes after every task that could rely on it.
LEMMA ExpireStaleCore ==
  ASSUME JInv, NEW j \in Jobs, ExpireStale(j)
  PROVE  CoreOK'
<1>1. ASSUME NEW k \in Jobs
      PROVE  JobOK(k)'
  BY DEF JInv, JobTypeOK, ExpireStale, JobOK, vars
<1>2. ASSUME NEW a \in Actors
      PROVE  ActorOK(a)'
  <2>1. /\ OwnerOK(a) /\ SettlerOK(a) /\ TimelyOK(a)
        /\ act[a].pc # "idle" => act[a].job \in Jobs
    BY ActorFacts
  <2>2. now \in Nat /\ Deadline[j] \in Nat /\ Grace \in Nat
    BY TimingAssumption, JobBoundsAssumption DEF JInv, IInv, TypeOK
  <2>3. TimelyOK(a)'
    BY <2>1 DEF ExpireStale, TimelyOK, vars
  <2>4. CASE act[a].pc \in Executing
    <3>1. act[a].job # j
      BY <2>1, <2>2, <2>4 DEF OwnerOK, TimelyOK, Owning, Executing, ExpireStale
    <3> QED BY <2>1, <2>3, <2>4, <3>1
            DEF ExpireStale, vars, ActorOK, OwnerOK, SettlerOK, JInv, JobTypeOK,
                Executing, Settling
  <2>5. CASE act[a].pc \notin Executing
    BY <2>1, <2>3, <2>5
       DEF ExpireStale, vars, ActorOK, OwnerOK, SettlerOK, JInv, JobTypeOK,
           Executing, Settling
  <2> QED BY <2>4, <2>5
<1> QED BY <1>1, <1>2 DEF CoreOK

LEMMA OutsideCore ==
  ASSUME JInv,
         \/ Passes \/ SetEmergency
         \/ \E j \in Jobs : ClearDrop(j) \/ PayloadExpires(j)
         \/ \E m \in broker : Lose(m)
  PROVE  CoreOK'
<1>1. UNCHANGED <<ticket, act, budget, charges, delivered>>
  BY DEF Passes, Tick, storeVars, SetEmergency, ClearDrop, PayloadExpires,
         PayloadLapse, Lose, jobVars, vars
<1>2. \A j \in Jobs : JobOK(j)'
  BY <1>1 DEF JInv, JobOK
<1>3. ASSUME NEW a \in Actors
      PROVE  TimelyOK(a)'
  <2>1. CASE Passes
    BY <1>1, <2>1 DEF Passes, Tick, TimelyOK, Doing
  <2>2. CASE now' = now
    BY <1>1, <2>2, ActorFacts DEF TimelyOK
  <2> QED BY <2>1, <2>2 DEF SetEmergency, ClearDrop, PayloadExpires, PayloadLapse,
                            Lose, vars
<1> QED BY <1>1, <1>2, <1>3 DEF CoreOK, JInv, ActorOK, OwnerOK, SettlerOK

----------------------------------------------------------------------------
(****************************************************************************)
(* Steps of the workers.                                                    *)
(****************************************************************************)
LEMMA GoesFacts ==
  ASSUME JInv, NEW a \in Actors, NEW s, act' = [act EXCEPT ![a] = s]
  PROVE  act'[a] = s /\ \A b \in Actors \ {a} : act'[b] = act[b]
BY DEF JInv, JobTypeOK

LEMMA Exclusive ==
  ASSUME JInv, NEW a \in Actors, NEW b \in Actors, a # b,
         act[a].job = act[b].job, act[a].pc \in Owning
  PROVE  act[b].pc \notin Owning \union Settling
BY ActorFacts DEF OwnerOK, SettlerOK, Owning, Settling, Executing

\* An actor that neither owns nor settles work only has to be in time.
LEMMA LooseActor ==
  ASSUME JInv, NEW a \in Actors, act'[a].pc \notin Owning \union Settling, TimelyOK(a)'
  PROVE  ActorOK(a)'
BY DEF ActorOK, OwnerOK, SettlerOK, Owning, Settling, Executing

LEMMA LooseOther ==
  ASSUME JInv, NEW a \in Actors, act'[a] = act[a], now' = now,
         act[a].pc \notin Owning \union Settling
  PROVE  ActorOK(a)'
BY LooseActor, ActorFacts DEF TimelyOK

LEMMA GoesTimely ==
  ASSUME JInv, NEW a \in Actors, act[a].pc # "idle", now' = now,
         act'[a].job = act[a].job
  PROVE  TimelyOK(a)'
BY ActorFacts DEF TimelyOK

\* A change of its ticket by the owner does not concern the other actors.
LEMMA OwnerStep ==
  ASSUME JInv, NEW w \in Actors, act[w].pc \in Owning, NEW s,
         act' = [act EXCEPT ![w] = s], NEW j, act[w].job = j,
         UNCHANGED <<budget, charges, delivered, now>>,
         \A k \in Jobs \ {j} : ticket'[k] = ticket[k],
         JobOK(j)', ActorOK(w)'
  PROVE  CoreOK'
<1>1. j \in Jobs /\ OwnerOK(w)
  BY ActorFacts DEF Owning, Executing
<1>2. act'[w] = s /\ \A b \in Actors \ {w} : act'[b] = act[b]
  BY GoesFacts
<1>3. ASSUME NEW b \in Actors \ {w}
      PROVE  Harmless(b, j)
  BY <1>1 DEF OwnerOK, Harmless, Owning, Executing
<1> QED BY <1>1, <1>2, <1>3, ChangeStep

LEMMA ReceiveCore ==
  ASSUME JInv, NEW w \in Workers, Receive(w)
  PROVE  CoreOK'
<1>0. w \in Actors
  BY DEF Actors
<1>1. PICK m \in broker :
        /\ now < Deadline[m[1]]
        /\ act' = [act EXCEPT ![w] = [pc |-> "received", job |-> m[1], stage |-> m[2]]]
  BY DEF Receive
<1>2. act'[w] = [pc |-> "received", job |-> m[1], stage |-> m[2]]
      /\ \A b \in Actors \ {w} : act'[b] = act[b]
  BY <1>0, <1>1, GoesFacts
<1>3. m[1] \in Jobs /\ now \in Nat /\ Deadline[m[1]] \in Nat
  BY TimingAssumption DEF JInv, JobTypeOK, IInv, TypeOK
<1>4. UNCHANGED <<vars, budget, charges, delivered>> /\ now' = now
  BY DEF Receive, vars
<1>5. TimelyOK(w)'
  BY <1>1, <1>2, <1>3, <1>4, JobBoundsAssumption DEF TimelyOK
<1>6. ActorOK(w)'
  BY <1>0, <1>2, <1>5, LooseActor DEF Owning, Settling, Executing
<1> QED BY <1>0, <1>2, <1>4, <1>6, QuietStep

\* Steps of an actor that leave the store alone and give up its work.
LEMMA LeaveCore ==
  ASSUME JInv, NEW a \in Actors, NEW s, Goes(a, s), UNCHANGED vars,
         \/ s = Idle
         \/ act[a].pc # "idle" /\ \E n : s = Notify(act[a].job, n)
         \/ a = Sweeper /\ s.pc \notin Owning \union Settling
  PROVE  CoreOK'
<1>1. act'[a] = s /\ \A b \in Actors \ {a} : act'[b] = act[b]
  BY GoesFacts DEF Goes, GoesAlso
<1>2. now' = now
  BY DEF vars
<1>3. ActorOK(a)'
  <2>1. CASE s = Idle
    BY <1>1, <1>2, <2>1, Resting
  <2>2. CASE act[a].pc # "idle" /\ \E n : s = Notify(act[a].job, n)
    BY <1>1, <1>2, <2>2, NotifyRests
  <2>3. CASE a = Sweeper /\ s.pc \notin Owning \union Settling
    BY <1>1, <2>3, LooseActor, WorkersAssumption DEF TimelyOK
  <2> QED BY <2>1, <2>2, <2>3
<1>4. UNCHANGED <<budget, charges, delivered>>
  BY DEF Goes, GoesAlso
<1> QED BY <1>1, <1>3, <1>4, QuietStep DEF vars

LEMMA ClaimCore ==
  ASSUME JInv, NEW w \in Workers, ClaimTask(w), NEW j, act[w].job = j
  PROVE  CoreOK'
<1>0. /\ w \in Actors /\ TypeOK /\ act[w].pc = "received" /\ j \in Jobs
  BY ActorFacts DEF Actors, ClaimTask, Doing, JInv, IInv
<1>1. CASE Claim(j, act[w].stage, w) /\ Goes(w, Proceed(w, "claimed"))
  <2>1. /\ Queued(j) /\ now' = now
        /\ Becomes(j, "RUNNING", w, ticket[j].reserved, ticket[j].settlement)
    BY <1>0, <1>1, EffectOfOwners, NowOf
  <2>2. UNCHANGED <<budget, charges, delivered>>
    BY <1>1 DEF Goes, GoesAlso
  <2>3. act'[w] = Proceed(w, "claimed") /\ \A b \in Actors \ {w} : act'[b] = act[b]
    BY <1>0, <1>1, GoesFacts DEF Goes, GoesAlso
  <2>4. act'[w].pc = "claimed" /\ act'[w].job = j
    BY <2>3 DEF Proceed, At
  <2>5. JobOK(j)'
    BY <1>0, <2>1, <2>2, JobFacts DEF JobOK, Becomes, Queued
  <2>6. TimelyOK(w)'
    BY <1>0, <2>1, <2>4, GoesTimely
  <2>7. OwnerOK(w)'
    BY <1>0, <2>1, <2>2, <2>4, JobFacts
       DEF JobOK, OwnerOK, Becomes, Queued, Owning, Executing
  <2>8. ActorOK(w)'
    BY <2>4, <2>6, <2>7 DEF ActorOK, SettlerOK, Settling
  <2>9. \A b \in Actors \ {w} : Harmless(b, j)
    BY <2>1 DEF Harmless, Queued
  <2> QED BY <1>0, <2>1, <2>2, <2>3, <2>5, <2>8, <2>9, ChangeStep DEF Becomes
<1>2. CASE Goes(w, Idle) /\ UNCHANGED vars
  BY <1>0, <1>2, LeaveCore
<1> QED BY <1>1, <1>2 DEF ClaimTask

LEMMA FinishExpiredCore ==
  ASSUME JInv, NEW w \in Workers, FinishExpiredUnclaimed(w), NEW j, act[w].job = j
  PROVE  CoreOK'
<1>0. /\ w \in Actors /\ TypeOK /\ act[w].pc = "received" /\ j \in Jobs
      /\ Goes(w, Notify(j, "TIMEOUT"))
  BY ActorFacts DEF Actors, FinishExpiredUnclaimed, Doing, JInv, IInv
<1>1. CASE Queued(j) /\ Finish(j, "EXPIRED", NoToken)
  <2>1. /\ now' = now /\ ~ticket[j].reserved
        /\ Becomes(j, "TERMINAL", ticket[j].token, ticket[j].reserved,
                   ticket[j].settlement)
    BY <1>0, <1>1, EffectOfStops, NowOf DEF Queued
  <2>2. UNCHANGED <<budget, charges, delivered>>
    BY <1>0 DEF Goes, GoesAlso
  <2>3. /\ act'[w] = Notify(j, "TIMEOUT")
        /\ \A b \in Actors \ {w} : act'[b] = act[b]
    BY <1>0, GoesFacts DEF Goes, GoesAlso
  <2>4. JobOK(j)'
    BY <1>0, <1>1, <2>1, <2>2, JobFacts DEF JobOK, Becomes, Queued
  <2>5. ActorOK(w)'
    BY <1>0, <2>1, <2>3, NotifyRests
  <2>6. \A b \in Actors \ {w} : Harmless(b, j)
    BY <1>1 DEF Harmless, Queued
  <2> QED BY <1>0, <2>1, <2>2, <2>3, <2>4, <2>5, <2>6, ChangeStep DEF Becomes
<1>2. CASE UNCHANGED vars
  BY <1>0, <1>2, LeaveCore
<1> QED BY <1>1, <1>2 DEF FinishExpiredUnclaimed

\* What an owner knows of its job.
LEMMA OwnerFacts ==
  ASSUME JInv, NEW w \in Workers, NEW j, act[w].job = j, act[w].pc \in Owning
  PROVE  /\ w \in Actors /\ j \in Jobs /\ TypeOK
         /\ OwnerOK(w) /\ JobOK(j) /\ ticket[j].token = w
         /\ delivered[j] \in Nat /\ charges[j] \in Nat
BY ActorFacts, JobFacts DEF Actors, JInv, IInv, OwnerOK, Owning, Executing

\* An owner that has executed goes on to settle its work with nothing spent.
LEMMA CompleteZero ==
  ASSUME JInv, NEW w \in Workers, NEW j, act[w].job = j,
         NEW o \in Outcomes, NEW n, act'[w] = Complete(w, Zero(o), n),
         act[w].pc \in Owning, delivered'[j] = 0, now' = now,
         ticket'[j].token = w,
         ticket'[j].state \in {"RUNNING", "CANCELLING", "DELIVERY_UNCERTAIN"}
  PROVE  ActorOK(w)'
<1>1. act'[w].pc = "prepare" /\ act'[w].job = j /\ act'[w].token = w
      /\ act'[w].intent = Zero(o)
  BY DEF Complete
<1>2. TimelyOK(w)'
  BY <1>1, GoesTimely DEF Actors, Owning, Executing
<1>3. OwnerOK(w)'
  BY <1>1, ZeroIntent DEF OwnerOK, Owning, Executing
<1> QED BY <1>1, <1>2, <1>3 DEF ActorOK, SettlerOK, Settling

LEMMA FinishSafeCore ==
  ASSUME JInv, NEW w \in Workers, NEW j, act[w].job = j, act[w].pc = "claimed",
         NEW o \in Outcomes, NEW n, FinishTicketSafe(w, o, n)
  PROVE  CoreOK'
<1>0. /\ w \in Actors /\ j \in Jobs /\ TypeOK /\ OwnerOK(w)
      /\ ticket[j].token = w /\ ticket[j].state \in {"RUNNING", "CANCELLING"}
  BY OwnerFacts DEF OwnerOK, Owning, Executing
<1>1. UNCHANGED <<budget, charges, delivered>>
  BY DEF FinishTicketSafe, Goes, GoesAlso
<1>2. CASE ticket[j].reserved
  <2>1. UNCHANGED vars /\ now' = now /\ ticket' = ticket
    BY <1>2 DEF FinishTicketSafe, vars
  <2>2. act'[w] = Complete(w, Zero(o), n) /\ \A b \in Actors \ {w} : act'[b] = act[b]
    BY <1>0, <1>2, GoesFacts DEF FinishTicketSafe, Goes, GoesAlso
  <2>3. delivered'[j] = 0
    BY <1>0, <1>1, JobFacts
  <2>4. ActorOK(w)'
    BY <1>0, <2>1, <2>2, <2>3, CompleteZero DEF Owning, Executing
  <2> QED BY <1>0, <1>1, <2>1, <2>2, <2>4, QuietStep
<1>3. CASE ~ticket[j].reserved
  <2>1. /\ now' = now
        /\ Becomes(j, "TERMINAL", ticket[j].token, ticket[j].reserved,
                   ticket[j].settlement)
    BY <1>0, <1>3, EffectOfStops, NowOf DEF FinishTicketSafe
  <2>2. act' = [act EXCEPT ![w] = Notify(j, n)]
    BY <1>3 DEF FinishTicketSafe, Goes, GoesAlso
  <2>3. ActorOK(w)'
    <3>1. act'[w] = Notify(j, n)
      BY <1>0, <2>2, GoesFacts
    <3> QED BY <1>0, <2>1, <3>1, NotifyRests
  <2>4. budget[j] # "RESERVED"
    BY <1>0, <1>3 DEF OwnerOK
  <2>5. JobOK(j)'
    BY <1>0, <1>1, <2>1, <2>4, JobFacts DEF JobOK, Becomes
  <2> QED BY <1>0, <1>1, <2>1, <2>2, <2>3, <2>5, OwnerStep
          DEF Becomes, Owning, Executing
<1> QED BY <1>2, <1>3

LEMMA PayloadGoneCore ==
  ASSUME JInv, NEW w \in Workers, NEW j, act[w].job = j, PayloadGone(w)
  PROVE  CoreOK'
BY FinishSafeCore DEF PayloadGone, Doing, Outcomes

LEMMA ReserveCore ==
  ASSUME JInv, NEW w \in Workers, NEW j, act[w].job = j, Reserve(w)
  PROVE  CoreOK'
<1>0. act[w].pc = "claimed"
  BY DEF Reserve, Doing
<1>1. /\ w \in Actors /\ j \in Jobs /\ OwnerOK(w) /\ JobOK(j)
      /\ ticket[j].token = w /\ ticket[j].state \in {"RUNNING", "CANCELLING"}
  BY <1>0, OwnerFacts DEF OwnerOK, Owning, Executing
<1>2. /\ budget' = [budget EXCEPT ![j] = "RESERVED"]
      /\ UNCHANGED <<ticket, charges, delivered, now>>
      /\ act' = [act EXCEPT ![w] = Proceed(w, "budgeted")]
  BY DEF Reserve, GoesAlso, vars
<1>3. act'[w] = Proceed(w, "budgeted") /\ \A b \in Actors \ {w} : act'[b] = act[b]
  BY <1>1, <1>2, GoesFacts
<1>4. act'[w].pc = "budgeted" /\ act'[w].job = j
  BY <1>3 DEF Proceed, At
<1>5. /\ budget'[j] = "RESERVED" /\ \A k \in Jobs \ {j} : budget'[k] = budget[k]
  BY <1>1, <1>2 DEF JInv, JobTypeOK
<1>6. ASSUME NEW k \in Jobs
      PROVE  JobOK(k)'
  BY <1>1, <1>2, <1>5 DEF JInv, JobOK
<1>7. ActorOK(w)'
  <2>1. TimelyOK(w)'
    BY <1>0, <1>1, <1>2, <1>4, GoesTimely
  <2> QED BY <1>0, <1>1, <1>2, <1>4, <1>5, <2>1
          DEF ActorOK, OwnerOK, SettlerOK, Owning, Executing, Settling
<1>8. ASSUME NEW b \in Actors \ {w}
      PROVE  ActorOK(b)'
  <2>1. ActorOK(b) /\ act'[b] = act[b]
    BY <1>3 DEF JInv
  <2>2. CASE act[b].pc \in Owning \union Settling
    <3>1. act[b].job \in Jobs \ {j}
      BY <1>0, <1>1, <2>2, Exclusive, ActorFacts DEF Owning, Executing, Settling
    <3> QED BY <1>2, <1>5, <2>1, <3>1 DEF ActorOK, OwnerOK, SettlerOK, TimelyOK
  <2>3. CASE act[b].pc \notin Owning \union Settling
    BY <1>2, <2>1, <2>3, LooseOther
  <2> QED BY <2>2, <2>3
<1> QED BY <1>6, <1>7, <1>8 DEF CoreOK

LEMMA DeniedCore ==
  ASSUME JInv, NEW w \in Workers, NEW j, act[w].job = j, Denied(w)
  PROVE  CoreOK'
<1>0. act[w].pc = "claimed"
  BY DEF Denied, Doing
<1>1. /\ w \in Actors /\ j \in Jobs /\ TypeOK /\ OwnerOK(w) /\ JobOK(j)
      /\ ticket[j].token = w
  BY <1>0, OwnerFacts DEF Owning, Executing
<1>2. CASE Defer(j, w, now + 1) /\ Goes(w, Notify(j, "WAIT"))
  <2>1. /\ ~ticket[j].reserved /\ ticket[j].state = "RUNNING" /\ now' = now
        /\ Becomes(j, "WAITING", NoToken, FALSE, ticket[j].settlement)
    BY <1>1, <1>2, EffectOfOwners, NowOf
  <2>2. /\ act' = [act EXCEPT ![w] = Notify(j, "WAIT")]
        /\ UNCHANGED <<budget, charges, delivered>>
    BY <1>2 DEF Goes, GoesAlso
  <2>3. ActorOK(w)'
    BY <1>0, <1>1, <2>1, <2>2, GoesFacts, NotifyRests
  <2>4. JobOK(j)'
    BY <1>0, <1>1, <2>1, <2>2, JobFacts DEF JobOK, OwnerOK, Becomes
  <2> QED BY <1>0, <1>1, <2>1, <2>2, <2>3, <2>4, OwnerStep
          DEF Becomes, Owning, Executing
<1>3. ASSUME NEW o \in Outcomes, NEW n, FinishTicketSafe(w, o, n)
      PROVE  CoreOK'
  BY <1>0, <1>3, FinishSafeCore
<1> QED BY <1>2, <1>3 DEF Denied, Wait, Outcomes

LEMMA MarkReservedCore ==
  ASSUME JInv, NEW w \in Workers, NEW j, act[w].job = j, MarkReserved(w)
  PROVE  CoreOK'
<1>0. act[w].pc = "budgeted"
  BY DEF MarkReserved, Doing
<1>1. /\ w \in Actors /\ j \in Jobs /\ TypeOK /\ OwnerOK(w) /\ JobOK(j)
      /\ ticket[j].token = w /\ ticket[j].state \in {"RUNNING", "CANCELLING"}
      /\ budget[j] = "RESERVED"
  BY <1>0, OwnerFacts DEF OwnerOK, Owning, Executing
<1> DEFINE s == IF ticket[j].state = "CANCELLING"
                THEN Complete(w, Zero("CANCELLED"), "NONE")
                ELSE Proceed(w, "reserved")
<1>2. /\ Becomes(j, ticket[j].state, ticket[j].token, TRUE, ticket[j].settlement)
      /\ now' = now
  BY <1>1, EffectOfOwners, NowOf DEF MarkReserved
<1>3. act' = [act EXCEPT ![w] = s] /\ UNCHANGED <<budget, charges, delivered>>
  BY DEF MarkReserved, Goes, GoesAlso
<1>4. JobOK(j)'
  BY <1>1, <1>2, <1>3, JobFacts DEF JobOK, Becomes
<1>5. act'[w] = s
  <2> HIDE DEF s
  <2> QED BY <1>1, <1>3, GoesFacts
<1>6. ActorOK(w)'
  <2>1. CASE ticket[j].state = "CANCELLING"
    <3>1. act'[w] = Complete(w, Zero("CANCELLED"), "NONE") /\ delivered'[j] = 0
      BY <1>1, <1>3, <1>5, <2>1, JobFacts
    <3> QED BY <1>0, <1>1, <1>2, <2>1, <3>1, CompleteZero
            DEF Becomes, Owning, Executing, Outcomes
  <2>2. CASE ticket[j].state # "CANCELLING"
    <3>1. act'[w].pc = "reserved" /\ act'[w].job = j
      BY <1>5, <2>2 DEF Proceed, At
    <3>2. TimelyOK(w)'
      BY <1>0, <1>1, <1>2, <3>1, GoesTimely
    <3> QED BY <1>1, <1>2, <1>3, <3>1, <3>2
            DEF ActorOK, OwnerOK, SettlerOK, Becomes, Owning, Executing, Settling
  <2> QED BY <2>1, <2>2
<1> HIDE DEF s
<1> QED BY <1>0, <1>1, <1>2, <1>3, <1>4, <1>6, OwnerStep
        DEF Becomes, Owning, Executing

\* Execution that changes nothing but the worker: it goes on, or completes.
LEMMA ExecutionCore ==
  ASSUME JInv, NEW w \in Workers, NEW j, act[w].job = j,
         act[w].pc \in {"reserved", "extracting", "extracted"},
         UNCHANGED vars, NEW s, Goes(w, s),
         \/ s.pc \in {"extracting", "extracted"} /\ s.job = j
         \/ \E o \in Outcomes : \E n : s = Complete(w, Zero(o), n)
  PROVE  CoreOK'
<1>1. /\ w \in Actors /\ j \in Jobs /\ OwnerOK(w) /\ ticket[j].token = w
      /\ ticket[j].state \in {"RUNNING", "CANCELLING"}
  BY OwnerFacts DEF OwnerOK, Owning, Executing
<1>2. act'[w] = s /\ \A b \in Actors \ {w} : act'[b] = act[b]
  BY <1>1, GoesFacts DEF Goes, GoesAlso
<1>3. UNCHANGED <<ticket, now, budget, charges, delivered>>
  BY DEF vars, Goes, GoesAlso
<1>4. ActorOK(w)'
  <2>1. CASE s.pc \in {"extracting", "extracted"} /\ s.job = j
    <3>1. TimelyOK(w)'
      BY <1>1, <1>2, <1>3, <2>1, GoesTimely
    <3> QED BY <1>1, <1>2, <1>3, <2>1, <3>1
            DEF ActorOK, OwnerOK, SettlerOK, Owning, Executing, Settling
  <2>2. ASSUME NEW o \in Outcomes, NEW n, s = Complete(w, Zero(o), n)
        PROVE  ActorOK(w)'
    <3>1. delivered'[j] = 0
      BY <1>1, <1>3, JobFacts
    <3> QED BY <1>1, <1>2, <1>3, <2>2, <3>1, CompleteZero DEF Owning, Executing
  <2> QED BY <2>1, <2>2
<1> QED BY <1>1, <1>2, <1>3, <1>4, QuietStep DEF vars

LEMMA CheckEpochCore ==
  ASSUME JInv, NEW w \in Workers, NEW j, act[w].job = j, CheckEpoch(w)
  PROVE  CoreOK'
<1> DEFINE s == IF Current(j) THEN Proceed(w, "extracting")
                ELSE Complete(w, Zero("CANCELLED"), "NONE")
<1>1. Goes(w, s) /\ UNCHANGED vars /\ act[w].pc = "reserved"
  BY DEF CheckEpoch, Doing
<1>2. \/ s.pc = "extracting" /\ s.job = j
      \/ s = Complete(w, Zero("CANCELLED"), "NONE")
  BY DEF Proceed, At
<1>3. "CANCELLED" \in Outcomes
  BY DEF Outcomes
<1> HIDE DEF s
<1> QED BY <1>1, <1>2, <1>3, ExecutionCore

LEMMA ExtractCore ==
  ASSUME JInv, NEW w \in Workers, NEW j, act[w].job = j, Extract(w)
  PROVE  CoreOK'
<1>1. PICK s \in {Complete(w, Zero("EXPIRED"), "TIMEOUT"),
                  Complete(w, Zero("FAILED"), "EXTRACTION"),
                  Complete(w, Zero("COMPLETE"), "NONE"),
                  Proceed(w, "extracted")} : Goes(w, s)
  BY DEF Extract
<1>2. UNCHANGED vars /\ act[w].pc = "extracting"
  BY DEF Extract, Doing
<1>3. \/ s.pc = "extracted" /\ s.job = j
      \/ \E o \in Outcomes : \E n : s = Complete(w, Zero(o), n)
  BY DEF Proceed, At, Outcomes
<1> QED BY <1>1, <1>2, <1>3, ExecutionCore

LEMMA HandoffCore ==
  ASSUME JInv, NEW w \in Workers, NEW j, act[w].job = j, HandoffToBrowser(w)
  PROVE  CoreOK'
<1>0. act[w].pc = "extracting"
  BY DEF HandoffToBrowser, Doing
<1>1. /\ w \in Actors /\ j \in Jobs /\ TypeOK /\ OwnerOK(w) /\ JobOK(j)
      /\ ticket[j].token = w /\ ticket[j].reserved
  BY <1>0, OwnerFacts DEF OwnerOK, Owning, Executing
<1>2. CASE Handoff(j, w) /\ Goes(w, At(w, "publish", "BROWSER"))
  <2>1. /\ ticket[j].state = "RUNNING" /\ now' = now
        /\ Becomes(j, "ACCEPTED", NoToken, ticket[j].reserved, ticket[j].settlement)
    BY <1>1, <1>2, EffectOfOwners, NowOf
  <2>2. /\ act' = [act EXCEPT ![w] = At(w, "publish", "BROWSER")]
        /\ UNCHANGED <<budget, charges, delivered>>
    BY <1>2 DEF Goes, GoesAlso
  <2>3. act'[w].pc = "publish" /\ act'[w].job = j
    <3>1. act'[w] = At(w, "publish", "BROWSER")
      BY <1>1, <2>2, GoesFacts
    <3> QED BY <3>1 DEF At
  <2>4. ActorOK(w)'
    BY <1>0, <1>1, <2>1, <2>3, Resting
  <2>5. JobOK(j)'
    BY <1>1, <2>1, <2>2, JobFacts DEF JobOK, Becomes
  <2> QED BY <1>0, <1>1, <2>1, <2>2, <2>4, <2>5, OwnerStep
          DEF Becomes, Owning, Executing
<1>3. CASE Goes(w, Complete(w, Zero("CANCELLED"), "NONE")) /\ UNCHANGED vars
  BY <1>0, <1>3, ExecutionCore DEF Outcomes
<1> QED BY <1>2, <1>3 DEF HandoffToBrowser

LEMMA StartDeliveryCore ==
  ASSUME JInv, NEW w \in Workers, NEW j, act[w].job = j, StartDelivery(w)
  PROVE  CoreOK'
<1>0. act[w].pc = "extracted"
  BY DEF StartDelivery, Doing
<1>1. /\ w \in Actors /\ j \in Jobs /\ TypeOK /\ OwnerOK(w) /\ JobOK(j)
      /\ ticket[j].token = w /\ ticket[j].reserved /\ budget[j] = "RESERVED"
  BY <1>0, OwnerFacts DEF OwnerOK, Owning, Executing
<1>2. CASE BeginDelivery(j, w) /\ Goes(w, Proceed(w, "sending"))
  <2>1. /\ ticket[j].state = "RUNNING" /\ now' = now
        /\ Becomes(j, "DELIVERY_UNCERTAIN", ticket[j].token, ticket[j].reserved,
                   ticket[j].settlement)
    BY <1>1, <1>2, EffectOfOwners, NowOf
  <2>2. /\ act' = [act EXCEPT ![w] = Proceed(w, "sending")]
        /\ UNCHANGED <<budget, charges, delivered>>
    BY <1>2 DEF Goes, GoesAlso
  <2>3. act'[w].pc = "sending" /\ act'[w].job = j
    <3>1. act'[w] = Proceed(w, "sending")
      BY <1>1, <2>2, GoesFacts
    <3> QED BY <3>1 DEF Proceed, At
  <2>4. TimelyOK(w)'
    BY <1>0, <1>1, <2>1, <2>3, GoesTimely
  <2>5. delivered[j] = 0
    BY <1>1, <2>1, JobFacts
  <2>6. OwnerOK(w)'
    BY <1>1, <2>1, <2>2, <2>3, <2>5 DEF OwnerOK, Becomes, Owning, Executing
  <2>7. ActorOK(w)'
    BY <2>3, <2>4, <2>6 DEF ActorOK, SettlerOK, Settling
  <2>8. JobOK(j)'
    BY <1>1, <2>1, <2>2, JobFacts DEF JobOK, Becomes
  <2> QED BY <1>0, <1>1, <2>1, <2>2, <2>7, <2>8, OwnerStep
          DEF Becomes, Owning, Executing
<1>3. CASE Goes(w, Complete(w, Zero("CANCELLED"), "NONE")) /\ UNCHANGED vars
  BY <1>0, <1>3, ExecutionCore DEF Outcomes
<1> QED BY <1>2, <1>3 DEF StartDelivery

\* Telegram accepts the media, at most once, while the ticket says so.
LEMMA DeliverCore ==
  ASSUME JInv, NEW w \in Workers, NEW j, act[w].job = j, Deliver(w)
  PROVE  CoreOK'
<1>0. act[w].pc = "sending"
  BY DEF Deliver, Doing
<1>1. /\ w \in Actors /\ j \in Jobs /\ OwnerOK(w) /\ JobOK(j)
      /\ ticket[j].token = w /\ ticket[j].state = "DELIVERY_UNCERTAIN"
      /\ delivered[j] = 0 /\ charges[j] \in Nat
  BY <1>0, OwnerFacts DEF OwnerOK, Owning, Executing
<1>2. UNCHANGED <<ticket, now, budget, charges>>
  BY DEF Deliver, GoesAlso, vars
<1>3. PICK s : /\ act' = [act EXCEPT ![w] = s]
               /\ \/ s = Complete(w, Spent, "NONE") /\ delivered' = [delivered EXCEPT ![j] = @ + 1]
                  \/ s = Complete(w, Zero("FAILED"), "NONE") /\ delivered' = delivered
                  \/ s = Idle /\ delivered' \in {delivered, [delivered EXCEPT ![j] = @ + 1]}
  BY DEF Deliver, GoesAlso
<1>4. act'[w] = s /\ \A b \in Actors \ {w} : act'[b] = act[b]
  BY <1>1, <1>3, GoesFacts
<1>5. /\ delivered'[j] \in {0, 1}
      /\ \A k \in Jobs \ {j} : delivered'[k] = delivered[k]
  BY <1>1, <1>3 DEF JInv, JobTypeOK
<1>6. ASSUME NEW k \in Jobs
      PROVE  JobOK(k)'
  <2>1. CASE k = j
    <3>1. ticket[j].settlement # Spent
      BY <1>1 DEF JobOK
    <3> QED BY <1>1, <1>2, <1>5, <2>1, <3>1 DEF JobOK
  <2>2. CASE k # j
    BY <1>2, <1>5, <2>2 DEF JInv, JobOK
  <2> QED BY <2>1, <2>2
<1>7. ActorOK(w)'
  <2>1. CASE s = Idle
    BY <1>1, <1>2, <1>4, <2>1, Resting
  <2>2. CASE /\ s = Complete(w, Spent, "NONE")
             /\ delivered' = [delivered EXCEPT ![j] = @ + 1]
    <3>0. delivered'[j] = 1
      BY <1>1, <2>2 DEF JInv, JobTypeOK
    <3>1. /\ act'[w].pc = "prepare" /\ act'[w].job = j /\ act'[w].token = w
          /\ act'[w].intent = Spent
      BY <1>4, <2>2 DEF Complete
    <3>2. TimelyOK(w)'
      BY <1>0, <1>1, <1>2, <3>1, GoesTimely
    <3>3. Spent.actual # "none"
      BY DEF Spent
    <3>4. OwnerOK(w)'
      BY <1>1, <1>2, <3>0, <3>1, <3>3 DEF OwnerOK, Owning, Executing
    <3> QED BY <3>1, <3>2, <3>4 DEF ActorOK, SettlerOK, Settling
  <2>3. CASE s = Complete(w, Zero("FAILED"), "NONE") /\ delivered' = delivered
    BY <1>0, <1>1, <1>2, <1>4, <2>3, CompleteZero DEF Owning, Executing, Outcomes
  <2> QED BY <1>3, <2>1, <2>2, <2>3
<1>8. ASSUME NEW b \in Actors \ {w}
      PROVE  ActorOK(b)'
  <2>1. ActorOK(b) /\ act'[b] = act[b]
    BY <1>4 DEF JInv
  <2>2. CASE act[b].pc \in Owning \union Settling
    <3>1. act[b].job \in Jobs \ {j}
      BY <1>0, <1>1, <2>2, Exclusive, ActorFacts DEF Owning, Executing, Settling
    <3> QED BY <1>2, <1>5, <2>1, <3>1 DEF ActorOK, OwnerOK, SettlerOK, TimelyOK
  <2>3. CASE act[b].pc \notin Owning \union Settling
    BY <1>2, <2>1, <2>3, LooseOther
  <2> QED BY <2>2, <2>3
<1> QED BY <1>6, <1>7, <1>8 DEF CoreOK

----------------------------------------------------------------------------
(****************************************************************************)
(* Settlement, by the owner or by the sweep.                                *)
(****************************************************************************)
\* Settlement goes on with what it remembers.
LEMMA SettlementGoesOn ==
  ASSUME JInv, NEW a \in Actors, act[a].pc \in SettlementPcs, NEW p,
         act' = [act EXCEPT ![a] = [act[a] EXCEPT !.pc = p]]
  PROVE  /\ act'[a].pc = p /\ act'[a].job = act[a].job
         /\ act'[a].intent = act[a].intent
         /\ \A b \in Actors \ {a} : act'[b] = act[b]
<1>1. act[a] \in SettlementSteps
  BY ActorShape DEF JInv
<1>2. act'[a] = [act[a] EXCEPT !.pc = p] /\ \A b \in Actors \ {a} : act'[b] = act[b]
  BY DEF JInv, JobTypeOK
<1> QED BY <1>1, <1>2 DEF SettlementSteps

LEMMA PrepareCore ==
  ASSUME JInv, NEW w \in Workers, NEW j, act[w].job = j, PrepareSettlement(w)
  PROVE  CoreOK'
<1> DEFINE i == act[w].intent
<1>0. act[w].pc = "prepare"
  BY DEF PrepareSettlement, Doing
<1>1. /\ w \in Actors /\ j \in Jobs /\ TypeOK /\ OwnerOK(w) /\ JobOK(j)
      /\ ticket[j].token = w /\ i.actual # "none"
  BY <1>0, OwnerFacts DEF OwnerOK, Owning
<1>2. /\ ticket[j].reserved /\ now' = now
      /\ Becomes(j, "SETTLING", ticket[j].token, ticket[j].reserved, i)
  BY <1>1, EffectOfOwners, NowOf DEF PrepareSettlement
<1>3. /\ act' = [act EXCEPT ![w] = [act[w] EXCEPT !.pc = "receipt"]]
      /\ UNCHANGED <<budget, charges, delivered>>
  BY DEF PrepareSettlement, Goes, GoesAlso
<1>4. act'[w].pc = "receipt" /\ act'[w].job = j /\ act'[w].intent = i
  BY <1>0, <1>1, <1>3, SettlementGoesOn DEF SettlementPcs
<1>5. TimelyOK(w)'
  BY <1>0, <1>1, <1>2, <1>4, GoesTimely
<1>6. ActorOK(w)'
  BY <1>2, <1>4, <1>5 DEF ActorOK, OwnerOK, SettlerOK, Becomes, Owning, Executing, Settling
<1>7. JobOK(j)'
  <2>1. /\ delivered[j] = 1 => i = Spent
        /\ i = Spent => delivered[j] = 1
    BY <1>0, <1>1 DEF OwnerOK
  <2> HIDE DEF i
  <2> QED BY <1>1, <1>2, <1>3, <2>1 DEF JobOK, Becomes
<1> HIDE DEF i
<1> QED BY <1>0, <1>1, <1>2, <1>3, <1>6, <1>7, OwnerStep DEF Becomes, Owning

LEMMA SettlerFacts ==
  ASSUME JInv, NEW a \in Actors, NEW j, act[a].job = j, act[a].pc \in Settling
  PROVE  /\ j \in Jobs /\ TypeOK /\ SettlerOK(a) /\ JobOK(j)
         /\ ticket[j].state \in {"SETTLING", "TERMINAL"}
         /\ ticket[j].settlement = act[a].intent
         /\ act[a].intent.actual = "spent" <=> act[a].intent = Spent
         /\ delivered[j] \in Nat /\ charges[j] \in Nat
         /\ \A b \in Actors : act[b].job = j => act[b].pc \notin Owning
<1>1. /\ j \in Jobs /\ SettlerOK(a) /\ act[a].intent \in Intents
  BY ActorFacts DEF Settling, SettlementPcs
<1>2. \A b \in Actors : act[b].job = j => act[b].pc \notin Owning
  BY Exclusive DEF Owning, Settling, Executing
<1> QED BY <1>1, <1>2, JobFacts, SpentIntent DEF SettlerOK, JInv, IInv

LEMMA ReceiptCore ==
  ASSUME JInv, NEW a \in Actors, NEW j, act[a].job = j, ApplyReceipt(a)
  PROVE  CoreOK'
<1> DEFINE i == act[a].intent
<1>0. act[a].pc = "receipt"
  BY DEF ApplyReceipt, Doing
<1>1. /\ j \in Jobs /\ JobOK(j) /\ ticket[j].settlement = i
      /\ ticket[j].state \in {"SETTLING", "TERMINAL"}
      /\ i.actual = "spent" <=> i = Spent
      /\ delivered[j] \in Nat /\ charges[j] \in Nat
  BY <1>0, SettlerFacts DEF Settling
<1>2. /\ UNCHANGED <<ticket, now, budget, delivered>>
      /\ charges' = IF i = Spent /\ charges[j] = 0
                    THEN [charges EXCEPT ![j] = @ + 1] ELSE charges
      /\ act' = [act EXCEPT ![a] = [act[a] EXCEPT !.pc = "consume"]]
  BY <1>1 DEF ApplyReceipt, vars
<1>3. /\ act'[a].pc = "consume" /\ act'[a].job = j /\ act'[a].intent = i
      /\ \A b \in Actors \ {a} : act'[b] = act[b]
  BY <1>0, <1>2, SettlementGoesOn DEF SettlementPcs
<1>4. /\ \A k \in Jobs : k # j \/ i # Spent => charges'[k] = charges[k]
      /\ i = Spent => charges'[j] = 1
      /\ charges[j] = 1 => charges'[j] = 1
  <2>1. charges[j] \in {0, 1}
    BY <1>1 DEF JobOK
  <2>2. CASE i = Spent /\ charges[j] = 0
    BY <1>1, <1>2, <2>2 DEF JInv, JobTypeOK
  <2>3. CASE i # Spent \/ charges[j] # 0
    BY <1>2, <2>1, <2>3
  <2> QED BY <2>2, <2>3
<1> HIDE DEF i
<1>5. ASSUME NEW k \in Jobs
      PROVE  JobOK(k)'
  <2>1. CASE k = j /\ i = Spent
    BY <1>1, <1>2, <1>4, <2>1 DEF JobOK
  <2>2. CASE k # j \/ i # Spent
    BY <1>2, <1>4, <2>2 DEF JInv, JobOK
  <2> QED BY <2>1, <2>2
<1>6. ActorOK(a)'
  <2>1. TimelyOK(a)'
    BY <1>0, <1>2, <1>3, GoesTimely
  <2> QED BY <1>1, <1>2, <1>3, <1>4, <2>1
          DEF ActorOK, OwnerOK, SettlerOK, Owning, Executing, Settling
<1>7. ASSUME NEW b \in Actors \ {a}
      PROVE  ActorOK(b)'
  <2>1. /\ OwnerOK(b) /\ SettlerOK(b) /\ TimelyOK(b) /\ act'[b] = act[b]
        /\ act[b].pc # "idle" => act[b].job \in Jobs
    BY <1>3, ActorFacts
  <2>2. OwnerOK(b)' /\ TimelyOK(b)'
    BY <1>2, <2>1 DEF OwnerOK, TimelyOK
  <2>3. CASE act[b].pc \in Settling
    BY <1>2, <1>4, <2>1, <2>2, <2>3 DEF ActorOK, SettlerOK, Settling
  <2>4. CASE act[b].pc \notin Settling
    BY <2>1, <2>2, <2>4 DEF ActorOK, SettlerOK, Settling
  <2> QED BY <2>3, <2>4
<1> QED BY <1>5, <1>6, <1>7 DEF CoreOK

LEMMA ConsumeCore ==
  ASSUME JInv, NEW a \in Actors, NEW j, act[a].job = j, Consume(a)
  PROVE  CoreOK'
<1> DEFINE i == act[a].intent
<1>0. act[a].pc = "consume"
  BY DEF Consume, Doing
<1>1. /\ j \in Jobs /\ JobOK(j) /\ ticket[j].settlement = i
      /\ ticket[j].state \in {"SETTLING", "TERMINAL"}
      /\ i.actual = "spent" <=> i = Spent
      /\ i = Spent => charges[j] = 1
      /\ \A b \in Actors : act[b].job = j => act[b].pc \notin Owning
  BY <1>0, SettlerFacts DEF Settling, SettlerOK
<1>2. UNCHANGED <<ticket, now, charges, delivered>>
  BY DEF Consume, GoesAlso, vars
<1>3. CASE budget' = [budget EXCEPT ![j] = Settled(i)]
           /\ GoesAlso(a, [act[a] EXCEPT !.pc = "release"])
  <2>1. act' = [act EXCEPT ![a] = [act[a] EXCEPT !.pc = "release"]]
    BY <1>3 DEF GoesAlso
  <2>2. /\ act'[a].pc = "release" /\ act'[a].job = j /\ act'[a].intent = i
        /\ \A b \in Actors \ {a} : act'[b] = act[b]
    BY <1>0, <2>1, SettlementGoesOn DEF SettlementPcs
  <2>3. /\ budget'[j] # "RESERVED"
        /\ budget'[j] = "COMMITTED" => i = Spent
        /\ \A k \in Jobs \ {j} : budget'[k] = budget[k]
    BY <1>1, <1>3 DEF Settled, JInv, JobTypeOK
  <2> HIDE DEF i
  <2>4. ASSUME NEW k \in Jobs
        PROVE  JobOK(k)'
    <3>1. CASE k = j
      BY <1>1, <1>2, <2>3, <3>1 DEF JobOK
    <3>2. CASE k # j
      BY <1>2, <2>3, <3>2 DEF JInv, JobOK
    <3> QED BY <3>1, <3>2
  <2>5. ActorOK(a)'
    <3>1. TimelyOK(a)'
      BY <1>0, <1>2, <2>2, GoesTimely
    <3> QED BY <1>1, <1>2, <2>2, <2>3, <3>1
            DEF ActorOK, OwnerOK, SettlerOK, Owning, Executing, Settling
  <2>6. ASSUME NEW b \in Actors \ {a}
        PROVE  ActorOK(b)'
    <3>1. /\ OwnerOK(b) /\ SettlerOK(b) /\ TimelyOK(b) /\ act'[b] = act[b]
          /\ act[b].pc # "idle" => act[b].job \in Jobs
      BY <2>2, ActorFacts
    <3>2. CASE act[b].pc \in Settling
      BY <1>2, <2>3, <3>1, <3>2
         DEF ActorOK, OwnerOK, SettlerOK, TimelyOK, Settling, Owning, Executing
    <3>3. CASE act[b].pc \in Owning
      <4>1. act[b].job \in Jobs \ {j}
        BY <1>1, <3>1, <3>3 DEF Owning, Executing
      <4> QED BY <1>2, <2>3, <3>1, <4>1 DEF ActorOK, OwnerOK, SettlerOK, TimelyOK
    <3>4. CASE act[b].pc \notin Owning \union Settling
      BY <1>2, <3>1, <3>4, LooseOther
    <3> QED BY <3>2, <3>3, <3>4
  <2> QED BY <2>4, <2>5, <2>6 DEF CoreOK
<1>4. CASE GoesAlso(a, Idle) /\ UNCHANGED budget
  BY <1>4, LeaveCore DEF Consume, Goes
<1> QED BY <1>3, <1>4 DEF Consume

LEMMA ReleaseCore ==
  ASSUME JInv, NEW a \in Actors, NEW j, act[a].job = j, ReleaseTicket(a)
  PROVE  CoreOK'
<1>0. act[a].pc = "release" /\ Goes(a, Notify(j, act[a].notice))
  BY DEF ReleaseTicket, Doing
<1>1. CASE Finish(j, act[a].intent.outcome, act[a].token)
  <2>1. /\ j \in Jobs /\ TypeOK /\ JobOK(j) /\ SettlerOK(a)
        /\ ticket[j].state \in {"SETTLING", "TERMINAL"}
        /\ ticket[j].settlement = act[a].intent
        /\ delivered[j] \in Nat /\ charges[j] \in Nat
    BY <1>0, SettlerFacts DEF Settling
  <2>2. /\ ticket[j].state = "SETTLING" /\ now' = now
        /\ Becomes(j, "TERMINAL", ticket[j].token, ticket[j].reserved,
                   ticket[j].settlement)
    BY <1>1, <2>1, EffectOfStops, NowOf DEF Active
  <2>3. UNCHANGED <<budget, charges, delivered>>
    BY <1>0 DEF Goes, GoesAlso
  <2>4. /\ act'[a] = Notify(j, act[a].notice)
        /\ \A b \in Actors \ {a} : act'[b] = act[b]
    BY <1>0, GoesFacts DEF Goes, GoesAlso
  <2>5. ActorOK(a)'
    BY <1>0, <2>2, <2>4, NotifyRests
  <2>6. JobOK(j)'
    <3>1. budget[j] # "RESERVED" /\ charges[j] = delivered[j]
      BY <1>0, <2>1, <2>2 DEF SettlerOK, JobOK, Settling
    <3> QED BY <2>1, <2>2, <2>3, <3>1 DEF JobOK, Becomes
  <2>7. \A b \in Actors \ {a} : Harmless(b, j)
    BY <2>2 DEF Harmless
  <2> QED BY <2>1, <2>2, <2>3, <2>4, <2>5, <2>6, <2>7, ChangeStep DEF Becomes
<1>2. CASE UNCHANGED vars
  BY <1>0, <1>2, LeaveCore
<1> QED BY <1>1, <1>2 DEF ReleaseTicket

LEMMA NoticeCore ==
  ASSUME JInv, NEW a \in Actors, NEW j, act[a].job = j, SendNotice(a)
  PROVE  CoreOK'
<1>0. /\ act[a].pc = "notify" /\ act' = [act EXCEPT ![a] = Idle]
      /\ UNCHANGED <<budget, charges, delivered>>
  BY DEF SendNotice, Doing
<1>1. j \in Jobs /\ TypeOK
  BY <1>0, ActorFacts DEF JInv, IInv
<1>2. act'[a] = Idle /\ \A b \in Actors \ {a} : act'[b] = act[b]
  BY <1>0, GoesFacts
<1>3. CASE ClaimNotice(j, KindOf(act[a].notice))
  <2>1. Kept(j) /\ now' = now
    BY <1>1, <1>3, EffectOfCallers, NowOf
  <2>2. JobOK(j)' /\ \A k \in Jobs \ {j} : ticket'[k] = ticket[k]
    BY <1>0, <1>1, <2>1, KeptJob
  <2>3. ActorOK(a)'
    BY <1>2, <2>1, Resting
  <2> QED BY <1>0, <1>1, <1>2, <2>1, <2>2, <2>3, ChangeStep DEF Harmless
<1>4. CASE UNCHANGED vars
  <2>1. ActorOK(a)'
    BY <1>2, <1>4, Resting DEF vars
  <2> QED BY <1>0, <1>2, <1>4, <2>1, QuietStep DEF vars
<1> QED BY <1>3, <1>4 DEF SendNotice, vars

----------------------------------------------------------------------------
(****************************************************************************)
(* The sweep, failures and crashes.                                         *)
(****************************************************************************)
LEMMA PublishCore ==
  ASSUME JInv, NEW a \in Actors, PublishStage(a)
  PROVE  CoreOK'
<1>1. act' = [act EXCEPT ![a] = Idle]
      /\ UNCHANGED <<vars, budget, charges, delivered>>
  BY DEF PublishStage
<1>2. act'[a] = Idle /\ \A b \in Actors \ {a} : act'[b] = act[b]
  BY <1>1, GoesFacts
<1>3. ActorOK(a)'
  BY <1>1, <1>2, Resting DEF vars
<1> QED BY <1>1, <1>2, <1>3, QuietStep

LEMMA RaisesCore ==
  ASSUME JInv, NEW w \in Workers, Raises(w)
  PROVE  CoreOK'
BY LeaveCore DEF Raises, Actors

LEMMA StopsCore ==
  ASSUME JInv, NEW a \in Actors, Stops(a)
  PROVE  CoreOK'
BY LeaveCore DEF Stops

LEMMA PageCore ==
  ASSUME JInv, NEW j \in Jobs, Page(j) \/ NotifyExpired(j)
  PROVE  CoreOK'
<1>0. Sweeper \in Actors
  BY DEF Actors
<1>1. PICK s : Goes(Sweeper, s) /\ s.pc \notin Owning \union Settling
  <2>1. Notify(j, "TIMEOUT").pc \in {"idle", "notify"}
    BY DEF Notify, Idle
  <2>2. [pc |-> "settling", job |-> j].pc = "settling"
    OBVIOUS
  <2>3. [pc |-> "queued", job |-> j, stage |-> ticket[j].stage,
         attempt |-> ticket[j].attempt, notBefore |-> ticket[j].notBefore].pc
          = "queued"
    OBVIOUS
  <2> QED BY <2>1, <2>2, <2>3 DEF Page, NotifyExpired, Owning, Settling, Executing
<1>2. UNCHANGED vars
  BY DEF Page, NotifyExpired
<1> QED BY <1>0, <1>1, <1>2, LeaveCore

\* The sweep replays the settlement it has just read.
LEMMA ReplayCore ==
  ASSUME JInv, NEW j \in Jobs, ticket[j].state = "SETTLING",
         Goes(Sweeper, Replaying(j)), UNCHANGED vars
  PROVE  CoreOK'
<1>0. Sweeper \in Actors /\ Sweeper \notin Workers
  BY WorkersAssumption DEF Actors
<1>1. /\ act'[Sweeper] = Replaying(j)
      /\ \A b \in Actors \ {Sweeper} : act'[b] = act[b]
  BY <1>0, GoesFacts DEF Goes, GoesAlso
<1>2. /\ act'[Sweeper].pc = "receipt" /\ act'[Sweeper].job = j
      /\ act'[Sweeper].intent = ticket[j].settlement
  BY <1>1 DEF Replaying
<1>3. ActorOK(Sweeper)'
  BY <1>0, <1>2
     DEF ActorOK, OwnerOK, SettlerOK, TimelyOK, vars, Owning, Settling, Executing
<1>4. UNCHANGED <<budget, charges, delivered>>
  BY DEF Goes, GoesAlso
<1> QED BY <1>0, <1>1, <1>3, <1>4, QuietStep DEF vars

LEMMA RecoverExpiredCore ==
  ASSUME JInv, NEW j \in Jobs, act[Sweeper].job = j, RecoverExpired
  PROVE  CoreOK'
<1> DEFINE s == IF ticket[j].reserved
                THEN [pc |-> "receipt", job |-> j, token |-> RecoveryToken,
                      intent |-> Zero("EXPIRED"), notice |-> "NONE"]
                ELSE Idle
<1>0. Sweeper \in Actors /\ Sweeper \notin Workers /\ TypeOK
  BY WorkersAssumption DEF Actors, JInv, IInv
<1>1. CASE Expire(j) /\ Goes(Sweeper, s)
  <2>1. Queued(j) /\ Dropped(j, "EXPIRED") /\ now' = now
    BY <1>0, <1>1, EffectOfStops, NowOf
  <2>2. UNCHANGED <<budget, charges, delivered>>
    BY <1>1 DEF Goes, GoesAlso
  <2>3. JobOK(j)'
    BY <2>1, <2>2, DroppedJob DEF Outcomes
  <2>4. act'[Sweeper] = s /\ \A b \in Actors \ {Sweeper} : act'[b] = act[b]
    <3> HIDE DEF s
    <3> QED BY <1>0, <1>1, GoesFacts DEF Goes, GoesAlso
  <2>5. ActorOK(Sweeper)'
    <3>1. CASE ticket[j].reserved
      <4>1. /\ act'[Sweeper].pc = "receipt" /\ act'[Sweeper].job = j
            /\ act'[Sweeper].intent = Zero("EXPIRED")
        BY <2>4, <3>1
      <4> QED BY <1>0, <2>1, <3>1, <4>1
              DEF ActorOK, OwnerOK, SettlerOK, TimelyOK, Dropped, Becomes,
                  Owning, Settling, Executing
    <3>2. CASE ~ticket[j].reserved
      BY <1>0, <2>1, <2>4, <3>2, Resting
    <3> QED BY <3>1, <3>2
  <2>6. \A b \in Actors \ {Sweeper} : Harmless(b, j)
    BY <2>1 DEF Harmless, Queued
  <2>7. \A k \in Jobs \ {j} : ticket'[k] = ticket[k]
    BY <2>1 DEF Dropped, Becomes
  <2> HIDE DEF s
  <2> QED BY <1>0, <2>1, <2>2, <2>3, <2>4, <2>5, <2>6, <2>7, ChangeStep
<1>2. CASE UNCHANGED vars /\ Goes(Sweeper, IF ticket[j].state = "SETTLING"
                                           THEN Replaying(j) ELSE Idle)
  BY <1>0, <1>2, ReplayCore, LeaveCore
<1> QED BY <1>1, <1>2 DEF RecoverExpired

LEMMA RecoverCore ==
  ASSUME JInv, Recover
  PROVE  CoreOK'
<1>0. Sweeper \in Actors /\ TypeOK
  BY DEF Actors, JInv, IInv
<1>1. PICK j \in Jobs : act[Sweeper].job = j
  BY <1>0, ActorFacts DEF Recover, RecoverSettling, RecoverExpired, RecoverQueued, Doing
<1>2. CASE RecoverSettling
  BY <1>0, <1>1, <1>2, ReplayCore, LeaveCore DEF RecoverSettling
<1>3. CASE RecoverExpired
  BY <1>1, <1>3, RecoverExpiredCore
<1>4. CASE RecoverQueued
  <2>1. CASE /\ Republish(j, act[Sweeper].stage, act[Sweeper].attempt)
             /\ Goes(Sweeper, At(Sweeper, "publish", act[Sweeper].stage))
    <3>1. Kept(j) /\ now' = now
      BY <1>0, <2>1, EffectOfCallers, NowOf
    <3>2. UNCHANGED <<budget, charges, delivered>>
      BY <2>1 DEF Goes, GoesAlso
    <3>3. /\ act'[Sweeper] = At(Sweeper, "publish", act[Sweeper].stage)
          /\ \A b \in Actors \ {Sweeper} : act'[b] = act[b]
      BY <1>0, <2>1, GoesFacts DEF Goes, GoesAlso
    <3>4. act'[Sweeper].pc = "publish"
      BY <3>3 DEF At
    <3>5. ActorOK(Sweeper)'
      BY <1>0, <3>4, LooseActor, WorkersAssumption
         DEF TimelyOK, Owning, Settling, Executing
    <3>6. JobOK(j)' /\ \A k \in Jobs \ {j} : ticket'[k] = ticket[k]
      BY <3>1, <3>2, KeptJob
    <3> QED BY <1>0, <3>1, <3>2, <3>3, <3>5, <3>6, ChangeStep DEF Harmless
  <2>2. CASE Goes(Sweeper, Idle) /\ UNCHANGED vars
    BY <1>0, <2>2, LeaveCore
  <2> QED BY <1>1, <1>4, <2>1, <2>2 DEF RecoverQueued
<1> QED BY <1>2, <1>3, <1>4 DEF Recover

LEMMA StepCore ==
  ASSUME JInv, [JobNext]_allVars
  PROVE  CoreOK'
<1>1. ASSUME NEW w \in Workers, Worker(w)
      PROVE  CoreOK'
  <2>1. PICK j : act[w].job = j
    OBVIOUS
  <2> QED BY <1>1, <2>1, ReceiveCore, ClaimCore, FinishExpiredCore, PayloadGoneCore,
             ReserveCore, DeniedCore, MarkReservedCore, CheckEpochCore, HandoffCore,
             ExtractCore, StartDeliveryCore, DeliverCore, PrepareCore DEF Worker
<1>2. ASSUME NEW a \in Actors, Shared(a)
      PROVE  CoreOK'
  <2>1. PICK j : act[a].job = j
    OBVIOUS
  <2> QED BY <1>2, <2>1, PublishCore, ReceiptCore, ConsumeCore, ReleaseCore,
             NoticeCore DEF Shared
<1>3. ASSUME NEW j \in Jobs,
             \/ Bot(j) \/ Page(j) \/ NotifyExpired(j) \/ ClearCancel(j)
             \/ ExpireStale(j)
      PROVE  CoreOK'
  BY <1>3, BotCore, PageCore, CancelCore, ExpireStaleCore
<1>4. CASE UNCHANGED allVars
  BY <1>4, StillCore DEF allVars, jobVars, vars
<1>5. ASSUME NEW a \in Crashing, Stops(a)
      PROVE  CoreOK'
  BY <1>5, StopsCore, WorkersAssumption
<1> QED BY <1>1, <1>2, <1>3, <1>4, <1>5, OutsideCore, RaisesCore, RecoverCore
        DEF JobNext

----------------------------------------------------------------------------
(****************************************************************************)
(* The types of the pipeline.                                               *)
(****************************************************************************)
LEMMA StepTypes ==
  ASSUME NEW j \in Jobs
  PROVE  /\ Idle \in Steps
         /\ \A n \in Notices \union {"NONE"} : Notify(j, n) \in Steps
         /\ \A a \in Workers, i \in Intents, n \in Notices \union {"NONE"} :
              act[a].job = j => Complete(a, i, n) \in Steps
         /\ \A a \in Workers, p \in WorkerPcs, s \in Stages :
              act[a].job = j => At(a, p, s) \in Steps
<1>1. Idle \in Steps
  BY DEF Steps
<1>2. ASSUME NEW n \in Notices \union {"NONE"}
      PROVE  Notify(j, n) \in Steps
  <2>1. CASE n \in Notices
    <3>1. [pc |-> "notify", job |-> j, notice |-> n] \in NoticeSteps
      BY <2>1 DEF NoticeSteps
    <3> QED BY <1>1, <3>1 DEF Notify, Steps
  <2>2. CASE n = "NONE"
    BY <1>1, <2>2 DEF Notify
  <2> QED BY <2>1, <2>2
<1>3. ASSUME NEW a \in Workers, NEW k \in Intents, NEW n \in Notices \union {"NONE"},
             act[a].job = j
      PROVE  Complete(a, k, n) \in Steps
  <2>1. Complete(a, k, n) \in SettlementSteps
    BY <1>3, WorkersAssumption DEF Complete, SettlementSteps, SettlementPcs
  <2> QED BY <2>1 DEF Steps
<1>4. ASSUME NEW a \in Workers, NEW p \in WorkerPcs, NEW s \in Stages, act[a].job = j
      PROVE  At(a, p, s) \in Steps
  <2>1. At(a, p, s) \in WorkSteps
    BY <1>4 DEF At, WorkSteps
  <2> QED BY <2>1 DEF Steps
<1> QED BY <1>1, <1>2, <1>3, <1>4

LEMMA GoesTyped ==
  ASSUME JInv, NEW a \in Actors, NEW s \in Steps, act' = [act EXCEPT ![a] = s]
  PROVE  act' \in [Actors -> Steps]
BY DEF JInv, JobTypeOK

LEMMA WorkerTyped ==
  ASSUME JInv, NEW w \in Workers, Worker(w) \/ Raises(w)
  PROVE  act' \in [Actors -> Steps]
<1>0. /\ w \in Actors
      /\ act[w].pc \in WorkerPcs => act[w].job \in Jobs /\ act[w].stage \in Stages
      /\ act[w].pc # "idle" => act[w].job \in Jobs
  BY ActorShape DEF Actors, JInv, WorkSteps
<1>1. Idle \in Steps /\ {"NONE", "TIMEOUT", "LIMIT", "WAIT", "FAILURE", "EXTRACTION"}
                          \subseteq Notices \union {"NONE"}
  BY DEF Steps, Notices, TerminalNotices
<1>2. \A o \in Outcomes : Zero(o) \in Intents
  BY ZeroIntent
<1>3. Spent \in Intents
  BY DEF Spent, Intents, Outcomes
<1>4. CASE Receive(w)
  <2>1. PICK m \in broker :
          act' = [act EXCEPT ![w] = [pc |-> "received", job |-> m[1], stage |-> m[2]]]
    BY <1>4 DEF Receive
  <2>2. m[1] \in Jobs /\ m[2] \in Stages
    BY DEF JInv, JobTypeOK
  <2>3. [pc |-> "received", job |-> m[1], stage |-> m[2]] \in Steps
    BY <2>2 DEF Steps, WorkSteps, WorkerPcs
  <2> QED BY <1>0, <2>1, <2>3, GoesTyped
<1>5. ASSUME NEW s, Goes(w, s) \/ GoesAlso(w, s), act[w].pc # "idle",
             \/ s = Idle
             \/ \E n \in Notices \union {"NONE"} : s = Notify(act[w].job, n)
             \/ \E k \in Intents, n \in Notices \union {"NONE"} : s = Complete(w, k, n)
             \/ \E p \in WorkerPcs, g \in Stages : s = At(w, p, g)
      PROVE  act' \in [Actors -> Steps]
  <2>0. PICK j \in Jobs : act[w].job = j
    BY <1>0, <1>5
  <2>a. Notify(j, "NONE") = Idle /\ Idle \in Steps
    BY DEF Notify, Steps
  <2>b. \A n \in Notices \union {"NONE"} : Notify(j, n) \in Steps
    BY StepTypes
  <2>c. \A k \in Intents, n \in Notices \union {"NONE"} : Complete(w, k, n) \in Steps
    BY <2>0, StepTypes
  <2>d. \A p \in WorkerPcs, g \in Stages : At(w, p, g) \in Steps
    BY <2>0, StepTypes
  <2>1. s \in Steps
    BY <1>5, <2>0, <2>a, <2>b, <2>c, <2>d
  <2> QED BY <1>0, <1>5, <2>1, GoesTyped DEF Goes, GoesAlso
<1>6. ASSUME NEW o \in Outcomes, NEW n \in Notices \union {"NONE"},
             FinishTicketSafe(w, o, n), act[w].pc # "idle"
      PROVE  act' \in [Actors -> Steps]
  BY <1>2, <1>5, <1>6 DEF FinishTicketSafe
<1>7. CASE ClaimTask(w)
  BY <1>0, <1>5, <1>7 DEF ClaimTask, Doing, Proceed, WorkerPcs
<1>8. CASE FinishExpiredUnclaimed(w) \/ Raises(w)
  BY <1>1, <1>5, <1>8 DEF FinishExpiredUnclaimed, Raises, Doing
<1>9. CASE PayloadGone(w)
  BY <1>1, <1>6, <1>9 DEF PayloadGone, Doing, Outcomes
<1>10. CASE Reserve(w)
  BY <1>0, <1>5, <1>10 DEF Reserve, Doing, Proceed, WorkerPcs
<1>11. CASE Denied(w)
  BY <1>1, <1>5, <1>6, <1>11 DEF Denied, Wait, Doing, Outcomes
<1>12. CASE MarkReserved(w)
  <2>1. CASE Goes(w, Complete(w, Zero("CANCELLED"), "NONE"))
    BY <1>1, <1>2, <1>5, <1>12, <2>1 DEF MarkReserved, Doing, Outcomes
  <2>2. CASE Goes(w, Proceed(w, "reserved"))
    BY <1>0, <1>5, <1>12, <2>2 DEF MarkReserved, Doing, Proceed, WorkerPcs
  <2> QED BY <1>12, <2>1, <2>2 DEF MarkReserved
<1>13. CASE CheckEpoch(w)
  <2>1. CASE Goes(w, Complete(w, Zero("CANCELLED"), "NONE"))
    BY <1>1, <1>2, <1>5, <1>13, <2>1 DEF CheckEpoch, Doing, Outcomes
  <2>2. CASE Goes(w, Proceed(w, "extracting"))
    BY <1>0, <1>5, <1>13, <2>2 DEF CheckEpoch, Doing, Proceed, WorkerPcs
  <2> QED BY <1>13, <2>1, <2>2 DEF CheckEpoch
<1>14. CASE HandoffToBrowser(w)
  BY <1>0, <1>1, <1>2, <1>5, <1>14
     DEF HandoffToBrowser, Doing, Outcomes, WorkerPcs, Stages
<1>15. CASE Extract(w)
  BY <1>0, <1>1, <1>2, <1>5, <1>15 DEF Extract, Doing, Proceed, Outcomes, WorkerPcs
<1>16. CASE StartDelivery(w)
  BY <1>0, <1>1, <1>2, <1>5, <1>16
     DEF StartDelivery, Doing, Proceed, Outcomes, WorkerPcs
<1>17. CASE Deliver(w)
  BY <1>1, <1>2, <1>3, <1>5, <1>17 DEF Deliver, Doing, Outcomes
<1>18. CASE PrepareSettlement(w)
  <2>1. act[w] \in SettlementSteps
    BY <1>0, <1>18, ActorShape DEF PrepareSettlement, Doing, SettlementPcs, JInv
  <2>2. [act[w] EXCEPT !.pc = "receipt"] \in Steps
    BY <2>1 DEF SettlementSteps, SettlementPcs, Steps
  <2> QED BY <1>0, <1>18, <2>2, GoesTyped DEF PrepareSettlement, Goes, GoesAlso
<1> QED BY <1>4, <1>7, <1>8, <1>9, <1>10, <1>11, <1>12, <1>13, <1>14, <1>15,
           <1>16, <1>17, <1>18 DEF Worker

LEMMA SharedTyped ==
  ASSUME JInv, NEW a \in Actors, Shared(a) \/ Stops(a)
  PROVE  act' \in [Actors -> Steps]
<1>1. CASE PublishStage(a) \/ SendNotice(a) \/ Stops(a)
  <2>1. act' = [act EXCEPT ![a] = Idle] /\ Idle \in Steps
    BY <1>1 DEF PublishStage, SendNotice, Stops, Goes, GoesAlso, Steps
  <2> QED BY <2>1, GoesTyped
<1>2. CASE ApplyReceipt(a) \/ Consume(a) \/ ReleaseTicket(a)
  <2>0. act[a] \in SettlementSteps
    BY <1>2, ActorShape
       DEF ApplyReceipt, Consume, ReleaseTicket, Doing, SettlementPcs, JInv
  <2>1. ASSUME NEW p \in SettlementPcs
        PROVE  [act[a] EXCEPT !.pc = p] \in Steps
    BY <2>0, <2>1 DEF SettlementSteps, Steps
  <2>2. CASE ApplyReceipt(a)
    <3>1. act' = [act EXCEPT ![a] = [act[a] EXCEPT !.pc = "consume"]]
      BY <2>2 DEF ApplyReceipt
    <3> QED BY <2>1, <3>1, GoesTyped DEF SettlementPcs
  <2>3. CASE Consume(a)
    <3>1. \/ act' = [act EXCEPT ![a] = [act[a] EXCEPT !.pc = "release"]]
          \/ act' = [act EXCEPT ![a] = Idle]
      BY <2>3 DEF Consume, GoesAlso
    <3>2. [act[a] EXCEPT !.pc = "release"] \in Steps /\ Idle \in Steps
      BY <2>1 DEF SettlementPcs, Steps
    <3> QED BY <3>1, <3>2, GoesTyped
  <2>4. CASE ReleaseTicket(a)
    <3>1. act' = [act EXCEPT ![a] = Notify(act[a].job, act[a].notice)]
      BY <2>4 DEF ReleaseTicket, Goes, GoesAlso
    <3>2. Notify(act[a].job, act[a].notice) \in Steps
      BY <2>0, StepTypes DEF SettlementSteps
    <3> QED BY <3>1, <3>2, GoesTyped
  <2> QED BY <1>2, <2>2, <2>3, <2>4
<1> QED BY <1>1, <1>2 DEF Shared

LEMMA SweepTyped ==
  ASSUME JInv, Recover \/ \E j \in Jobs : Page(j) \/ NotifyExpired(j)
  PROVE  act' \in [Actors -> Steps]
<1>0. Sweeper \in Actors /\ Idle \in Steps
  BY DEF Actors, Steps
<1>1. ASSUME NEW j \in Jobs, ticket[j].state = "SETTLING"
      PROVE  Replaying(j) \in Steps
  <2>1. ticket[j] \in Record /\ ticket[j].settlement \in Intents
    BY <1>1, JobFacts
  <2>2. Replaying(j) \in SettlementSteps
    BY <2>1 DEF Replaying, Record, SettlementSteps, SettlementPcs
  <2> QED BY <2>2 DEF Steps
<1>2. ASSUME NEW j \in Jobs, Page(j)
      PROVE  act' \in [Actors -> Steps]
  <2>1. CASE Goes(Sweeper, [pc |-> "settling", job |-> j])
    <3>1. [pc |-> "settling", job |-> j] \in Steps
      BY DEF Steps, SettlingSteps
    <3> QED BY <1>0, <2>1, <3>1, GoesTyped DEF Goes, GoesAlso
  <2> DEFINE s == [pc |-> "queued", job |-> j, stage |-> ticket[j].stage,
                   attempt |-> ticket[j].attempt, notBefore |-> ticket[j].notBefore]
  <2>2. CASE Goes(Sweeper, s)
    <3>1. ticket[j] \in Record
      BY JobFacts
    <3>2. s \in QueuedSteps
      BY <3>1 DEF Record, QueuedSteps
    <3>3. s \in Steps
      BY <3>2 DEF Steps
    <3> HIDE DEF s
    <3> QED BY <1>0, <2>2, <3>3, GoesTyped DEF Goes, GoesAlso
  <2> HIDE DEF s
  <2> QED BY <1>2, <2>1, <2>2 DEF Page, s
<1>3. ASSUME NEW j \in Jobs, NotifyExpired(j)
      PROVE  act' \in [Actors -> Steps]
  <2>1. "TIMEOUT" \in Notices
    BY DEF Notices, TerminalNotices
  <2>2. Notify(j, "TIMEOUT") \in Steps
    BY <2>1, StepTypes
  <2> QED BY <1>0, <1>3, <2>2, GoesTyped DEF NotifyExpired, Goes, GoesAlso
<1>4. CASE Recover
  <2>0. act[Sweeper].pc \in {"settling", "queued"}
    BY <1>4 DEF Recover, RecoverSettling, RecoverExpired, RecoverQueued, Doing
  <2>1. PICK j \in Jobs : act[Sweeper].job = j
    BY <1>0, <2>0, ActorFacts
  <2>2. \/ act' = [act EXCEPT ![Sweeper] = Idle]
        \/ ticket[j].state = "SETTLING" /\ act' = [act EXCEPT ![Sweeper] = Replaying(j)]
        \/ act' = [act EXCEPT ![Sweeper] =
                     [pc |-> "receipt", job |-> j, token |-> RecoveryToken,
                      intent |-> Zero("EXPIRED"), notice |-> "NONE"]]
        \/ /\ act[Sweeper].pc = "queued"
           /\ act' = [act EXCEPT ![Sweeper] = At(Sweeper, "publish", act[Sweeper].stage)]
    BY <1>4, <2>1 DEF Recover, RecoverSettling, RecoverExpired, RecoverQueued, Doing,
                      Goes, GoesAlso
  <2>3. [pc |-> "receipt", job |-> j, token |-> RecoveryToken,
         intent |-> Zero("EXPIRED"), notice |-> "NONE"] \in Steps
    <3>1. Zero("EXPIRED") \in Intents
      BY ZeroIntent DEF Outcomes
    <3>2. [pc |-> "receipt", job |-> j, token |-> RecoveryToken,
           intent |-> Zero("EXPIRED"), notice |-> "NONE"] \in SettlementSteps
      BY <3>1 DEF SettlementSteps, SettlementPcs
    <3> QED BY <3>2 DEF Steps
  <2>4. ASSUME act[Sweeper].pc = "queued"
        PROVE  At(Sweeper, "publish", act[Sweeper].stage) \in Steps
    <3>1. act[Sweeper].stage \in Stages
      BY <1>0, <2>4, ActorShape DEF JInv, QueuedSteps
    <3>2. At(Sweeper, "publish", act[Sweeper].stage) \in WorkSteps
      BY <2>1, <3>1 DEF At, WorkSteps, WorkerPcs
    <3> QED BY <3>2 DEF Steps
  <2>5. PICK s \in Steps : act' = [act EXCEPT ![Sweeper] = s]
    BY <1>0, <1>1, <2>2, <2>3, <2>4
  <2> QED BY <1>0, <2>5, GoesTyped
<1> QED BY <1>2, <1>3, <1>4

LEMMA ActTyped ==
  ASSUME JInv, [JobNext]_allVars
  PROVE  act' \in [Actors -> Steps]
<1>1. act \in [Actors -> Steps]
  BY DEF JInv, JobTypeOK
<1>2. ASSUME NEW j \in Jobs,
             \/ Bot(j) \/ ClearCancel(j) \/ ClearDrop(j) \/ ExpireStale(j)
             \/ PayloadExpires(j)
      PROVE  act' = act
  BY <1>2 DEF Bot, Stamp, Accept, Enroll, BotPublish, Acknowledge, MarkEnqueued,
              BotLeaves, BotStops, BotGoes, ClearCancel, ClearDrop, ExpireStale,
              PayloadExpires, jobVars
<1>3. ASSUME Passes \/ SetEmergency \/ (\E m \in broker : Lose(m)) \/ UNCHANGED allVars
      PROVE  act' = act
  BY <1>3 DEF Passes, SetEmergency, Lose, allVars, jobVars
<1> QED BY <1>1, <1>2, <1>3, SweepTyped, WorkerTyped, SharedTyped, WorkersAssumption
        DEF JobNext

\* The types of what the actors share beside the store, and the epochs.
RestOK ==
  /\ broker \subseteq Jobs \X Stages
  /\ bot \in [Jobs -> BotSteps]
  /\ budget \in [Jobs -> {"none", "RESERVED", "COMMITTED", "RELEASED", "EXPIRED"}]
  /\ charges \in [Jobs -> Nat]
  /\ delivered \in [Jobs -> Nat]
  /\ told \in [Jobs -> SUBSET Notices]
  /\ emergency \in [disabled : BOOLEAN, epoch : Nat]
  /\ stamp \in [Jobs -> Nat]
  /\ StampOK

LEMMA RestHolds == JInv => RestOK
BY DEF JInv, JobTypeOK, RestOK

LEMMA StillRest ==
  ASSUME RestOK,
         UNCHANGED <<broker, bot, budget, charges, delivered, told, emergency, stamp>>
  PROVE  RestOK'
BY DEF RestOK, StampOK

LEMMA BotRest ==
  ASSUME JInv, NEW j \in Jobs, Bot(j)
  PROVE  RestOK'
<1>0. RestOK /\ "MEDIA" \in Stages
  BY RestHolds DEF Stages
<1>1. CASE Stamp(j)
  <2>1. /\ stamp' = [stamp EXCEPT ![j] = emergency.epoch]
        /\ bot' = [bot EXCEPT ![j] = [pc |-> "stamped"]]
        /\ UNCHANGED <<broker, budget, charges, delivered, told, emergency>>
    BY <1>1 DEF Stamp, BotGoes
  <2>2. [pc |-> "stamped"] \in BotSteps
    BY DEF BotSteps
  <2>3. stamp' \in [Jobs -> Nat] /\ StampOK'
    BY <1>0, <2>1 DEF RestOK, StampOK
  <2> QED BY <1>0, <2>1, <2>2, <2>3 DEF RestOK
<1>2. ASSUME NEW s \in BotSteps, BotGoes(j, s), UNCHANGED stamp
      PROVE  RestOK'
  <2>1. bot' \in [Jobs -> BotSteps]
    BY <1>0, <1>2 DEF RestOK, BotGoes
  <2> QED BY <1>0, <1>2, <2>1 DEF RestOK, BotGoes, StampOK
<1>3. {[pc |-> "accepted"], [pc |-> "done"]} \subseteq BotSteps
  BY DEF BotSteps
<1>4. CASE Accept(j) \/ MarkEnqueued(j) \/ BotLeaves(j) \/ BotStops(j)
  BY <1>2, <1>3, <1>4 DEF Accept, MarkEnqueued, BotLeaves, BotStops
<1>5. CASE Enroll(j)
  <2>1. ticket[j] \in Record
    BY JobFacts
  <2>2. [pc |-> "publish", stage |-> ticket[j].stage, attempt |-> ticket[j].attempt]
          \in BotSteps
    BY <2>1 DEF Record, BotSteps
  <2> QED BY <1>2, <1>5, <2>2 DEF Enroll
<1>6. ASSUME NEW p \in {"publish", "ack", "mark"}, bot[j].pc \in {"publish", "ack", "mark"}
      PROVE  [bot[j] EXCEPT !.pc = p] \in BotSteps
  <2>1. bot[j] \in [pc : {"publish", "ack", "mark"}, stage : Stages, attempt : Nat]
    BY <1>0, <1>6 DEF RestOK, BotSteps
  <2>2. [bot[j] EXCEPT !.pc = p] \in [pc : {"publish", "ack", "mark"}, stage : Stages,
                                      attempt : Nat]
    BY <2>1
  <2> QED BY <2>2 DEF BotSteps
<1>7. CASE BotPublish(j)
  <2>1. /\ broker' = broker \union {<<j, "MEDIA">>}
        /\ bot' = [bot EXCEPT ![j] = [bot[j] EXCEPT !.pc = "ack"]]
        /\ UNCHANGED <<budget, charges, delivered, told, emergency, stamp>>
        /\ bot[j].pc = "publish"
    BY <1>0, <1>7 DEF BotPublish, RestOK
  <2>2. bot' \in [Jobs -> BotSteps]
    BY <1>0, <1>6, <2>1 DEF RestOK
  <2>3. broker' \subseteq Jobs \X Stages
    BY <1>0, <2>1 DEF RestOK
  <2> QED BY <1>0, <2>1, <2>2, <2>3 DEF RestOK, StampOK
<1>8. CASE Acknowledge(j)
  BY <1>2, <1>6, <1>8 DEF Acknowledge
<1> QED BY <1>1, <1>4, <1>5, <1>7, <1>8 DEF Bot


LEMMA WorkerRest ==
  ASSUME JInv, NEW w \in Workers, Worker(w) \/ Raises(w)
  PROVE  RestOK'
<1>0. RestOK
  BY RestHolds
<1>1. ASSUME NEW s, Goes(w, s)
      PROVE  RestOK'
  BY <1>0, <1>1, StillRest DEF Goes, GoesAlso
<1>2. CASE Receive(w)
  <2>1. broker' \subseteq broker
    BY <1>2 DEF Receive
  <2> QED BY <1>0, <1>2, <2>1 DEF Receive, RestOK, StampOK
<1>3. CASE Reserve(w)
  <2>1. budget' \in [Jobs -> {"none", "RESERVED", "COMMITTED", "RELEASED", "EXPIRED"}]
    BY <1>0, <1>3 DEF Reserve, RestOK
  <2> QED BY <1>0, <1>3, <2>1 DEF Reserve, GoesAlso, RestOK, StampOK
<1>4. CASE Deliver(w)
  <2>1. delivered' \in [Jobs -> Nat]
    BY <1>0, <1>4 DEF Deliver, RestOK
  <2> QED BY <1>0, <1>4, <2>1 DEF Deliver, GoesAlso, RestOK, StampOK
<1>5. \A o, n : FinishTicketSafe(w, o, n) => RestOK'
  BY <1>1 DEF FinishTicketSafe
<1>6. CASE \/ ClaimTask(w) \/ FinishExpiredUnclaimed(w) \/ PayloadGone(w) \/ Denied(w)
           \/ MarkReserved(w) \/ CheckEpoch(w) \/ HandoffToBrowser(w) \/ Extract(w)
           \/ StartDelivery(w) \/ PrepareSettlement(w) \/ Raises(w)
  BY <1>1, <1>5, <1>6
     DEF ClaimTask, FinishExpiredUnclaimed, PayloadGone, Denied, Wait, MarkReserved,
         CheckEpoch, HandoffToBrowser, Extract, StartDelivery, PrepareSettlement, Raises
<1> QED BY <1>2, <1>3, <1>4, <1>6 DEF Worker

LEMMA SharedRest ==
  ASSUME JInv, NEW a \in Actors, Shared(a) \/ Stops(a)
  PROVE  RestOK'
<1>0. RestOK
  BY RestHolds
<1>1. ASSUME NEW s, Goes(a, s)
      PROVE  RestOK'
  BY <1>0, <1>1, StillRest DEF Goes, GoesAlso
<1>2. CASE PublishStage(a)
  <2>1. act[a].job \in Jobs /\ act[a].stage \in Stages
    BY <1>2, ActorShape DEF PublishStage, Doing, WorkerPcs, WorkSteps, JInv
  <2>2. broker' \subseteq Jobs \X Stages
    BY <1>0, <1>2, <2>1 DEF PublishStage, RestOK
  <2> QED BY <1>0, <1>2, <2>2 DEF PublishStage, RestOK, StampOK
<1>3. CASE ApplyReceipt(a)
  <2>0. PICK j \in Jobs : act[a].job = j
    BY <1>3, ActorFacts DEF ApplyReceipt, Doing
  <2>a. charges \in [Jobs -> Nat] /\ charges[j] + 1 \in Nat
    BY <1>0 DEF RestOK
  <2>b. charges' \in {charges, [charges EXCEPT ![j] = charges[j] + 1]}
    BY <1>3, <2>0, <2>a DEF ApplyReceipt
  <2>1. charges' \in [Jobs -> Nat]
    BY <2>a, <2>b
  <2> QED BY <1>0, <1>3, <2>1 DEF ApplyReceipt, RestOK, StampOK
<1>4. CASE Consume(a)
  <2>1. budget' \in [Jobs -> {"none", "RESERVED", "COMMITTED", "RELEASED", "EXPIRED"}]
    BY <1>0, <1>4 DEF Consume, Settled, RestOK
  <2> QED BY <1>0, <1>4, <2>1 DEF Consume, GoesAlso, RestOK, StampOK
<1>5. CASE SendNotice(a)
  <2>1. act[a] \in NoticeSteps
    BY <1>5, ActorShape DEF SendNotice, Doing, JInv
  <2>2. told' \in [Jobs -> SUBSET Notices]
    BY <1>0, <1>5, <2>1 DEF SendNotice, NoticeSteps, RestOK
  <2> QED BY <1>0, <1>5, <2>2 DEF SendNotice, RestOK, StampOK
<1>6. CASE ReleaseTicket(a) \/ Stops(a)
  BY <1>1, <1>6 DEF ReleaseTicket, Stops
<1> QED BY <1>2, <1>3, <1>4, <1>5, <1>6 DEF Shared

LEMMA StepRest ==
  ASSUME JInv, [JobNext]_allVars
  PROVE  RestOK'
<1>0. RestOK
  BY RestHolds
<1>1. ASSUME NEW s, Goes(Sweeper, s)
      PROVE  RestOK'
  BY <1>0, <1>1, StillRest DEF Goes, GoesAlso
<1>2. ASSUME NEW j \in Jobs,
             \/ Page(j) \/ NotifyExpired(j) \/ ClearCancel(j) \/ ClearDrop(j)
             \/ PayloadExpires(j)
      PROVE  RestOK'
  BY <1>0, <1>1, <1>2, StillRest
     DEF Page, NotifyExpired, ClearCancel, ClearDrop, PayloadExpires, jobVars
<1>3. CASE Recover
  BY <1>1, <1>3 DEF Recover, RecoverSettling, RecoverExpired, RecoverQueued
<1>4. CASE Passes \/ UNCHANGED allVars
  BY <1>0, <1>4, StillRest DEF Passes, allVars, jobVars
<1>5. CASE SetEmergency
  <2>1. emergency.epoch \in Nat /\ emergency'.epoch = emergency.epoch + 1
        /\ emergency' \in [disabled : BOOLEAN, epoch : Nat]
    BY <1>0, <1>5 DEF SetEmergency, RestOK
  <2>2. StampOK'
    BY <1>0, <1>5, <2>1 DEF SetEmergency, RestOK, StampOK
  <2> QED BY <1>0, <1>5, <2>1, <2>2 DEF SetEmergency, RestOK
<1>6. ASSUME NEW m \in broker, Lose(m)
      PROVE  RestOK'
  BY <1>0, <1>6 DEF Lose, RestOK, StampOK
<1>7. ASSUME NEW j \in Jobs, ExpireStale(j)
      PROVE  RestOK'
  <2>1. budget' \in [Jobs -> {"none", "RESERVED", "COMMITTED", "RELEASED", "EXPIRED"}]
    BY <1>0, <1>7 DEF ExpireStale, RestOK
  <2> QED BY <1>0, <1>7, <2>1 DEF ExpireStale, RestOK, StampOK
<1> QED BY <1>2, <1>3, <1>4, <1>5, <1>6, <1>7, BotRest, WorkerRest, SharedRest,
           WorkersAssumption DEF JobNext

\* The clock and the attempts stay within their bounds.
LEMMA StoreBounds ==
  ASSUME JInv, [Next]_vars
  PROVE  now' <= MaxTime /\ \A k \in Jobs : ticket'[k].attempt <= MaxAttempt
<1>0. /\ now \in Nat /\ now <= MaxTime /\ MaxTime \in Nat /\ MaxAttempt \in Nat
      /\ \A k \in Jobs : ticket[k] \in Record /\ ticket[k].attempt <= MaxAttempt
      /\ ticket \in [Jobs -> Record]
  BY InputAssumption DEF JInv, IInv, TypeOK
<1>1. now' <= MaxTime
  <2>1. ASSUME NEW j \in Jobs, Operation(j)
        PROVE  now' = now
    BY <2>1, NowOf DEF Operation, Retire, PayloadLapse
  <2>2. Tick => now' <= MaxTime
    BY <1>0 DEF Tick
  <2> QED BY <1>0, <2>1, <2>2 DEF Next, vars
<1>2. ASSUME NEW j \in Jobs, NEW r, r.attempt <= MaxAttempt,
             ticket' = [ticket EXCEPT ![j] = r]
      PROVE  \A k \in Jobs : ticket'[k].attempt <= MaxAttempt
  BY <1>0, <1>2
<1>3. \A j, r, h : Retain(j, r, h) => ticket' = [ticket EXCEPT ![j] = r]
  BY DEF Retain
<1>4. \A j, r : Release(j, r) \/ Annotate(j, r) => ticket' = [ticket EXCEPT ![j] = r]
  BY DEF Release, Annotate
<1>5. ASSUME NEW j \in Jobs, Operation(j)
      PROVE  \A k \in Jobs : ticket'[k].attempt <= MaxAttempt
  <2> DEFINE Fits(r) == r.attempt <= MaxAttempt /\ ticket' = [ticket EXCEPT ![j] = r]
  <2> SUFFICES \/ \E r : Fits(r)
               \/ UNCHANGED ticket
    BY <1>0, <1>2
  <2>0. ticket[j] \in Record /\ ticket[j].attempt <= MaxAttempt
    BY <1>0
  <2>1. CASE Admit(j) \/ Retire(j)
    <3>1. Absent.attempt <= MaxAttempt /\ [Absent EXCEPT !.state = "ACCEPTED"].attempt <= MaxAttempt
      BY <1>0 DEF Absent
    <3> QED BY <2>1, <3>1 DEF Admit, Retire
  <2>2. ASSUME NEW t, Register(j, t)
        PROVE  \E r : Fits(r)
    <3>1. Fits([ticket[j] EXCEPT !.registered = TRUE, !.notBefore = t])
      BY <2>0, <2>2, <1>3 DEF Register, Record
    <3> QED BY <3>1
  <2>3. ASSUME NEW s, NEW n, Published(j, s, n)
        PROVE  \E r : Fits(r)
    <3>1. Fits([ticket[j] EXCEPT !.published = TRUE])
      BY <2>0, <2>3, <1>3 DEF Published, Record
    <3> QED BY <3>1
  <2>4. ASSUME NEW s, NEW n, Enqueued(j, s, n)
        PROVE  \E r : Fits(r)
    <3>1. Fits([ticket[j] EXCEPT !.state = "ENQUEUED"])
      BY <2>0, <2>4, <1>3 DEF Enqueued, Record
    <3> QED BY <3>1
  <2>5. ASSUME NEW s, NEW n, Republish(j, s, n)
        PROVE  \E r : Fits(r)
    <3>1. Fits([ticket[j] EXCEPT !.retryAt = now + RetryDelay])
      BY <2>0, <2>5, <1>3 DEF Republish, Record
    <3> QED BY <3>1
  <2>6. ASSUME NEW o, QueuedTerminal(j, o)
        PROVE  \E r : Fits(r)
    <3>1. \/ Fits([ticket[j] EXCEPT !.state = "SETTLING", !.token = RecoveryToken,
                     !.settlement = [outcome |-> o, actual |-> "zero"]])
          \/ Fits([ticket[j] EXCEPT !.state = "TERMINAL", !.outcome = o,
                     !.requested = @ \union {"TERMINAL"}])
      BY <2>0, <2>6, <1>3, <1>4 DEF QueuedTerminal, Record
    <3> QED BY <3>1
  <2>7. ASSUME NEW s, NEW t, Claim(j, s, t)
        PROVE  \E r : Fits(r)
    <3>1. Fits([ticket[j] EXCEPT !.state = "RUNNING", !.token = t, !.attempt = @ + 1])
      BY <1>0, <2>0, <2>7, <1>3 DEF Claim, Record
    <3> QED BY <3>1
  <2>8. ASSUME NEW t, Reserved(j, t)
        PROVE  \E r : Fits(r)
    <3>1. Fits([ticket[j] EXCEPT !.reserved = TRUE])
      BY <2>0, <2>8, <1>3 DEF Reserved, Record
    <3> QED BY <3>1
  <2>9. ASSUME NEW t, NEW n, Defer(j, t, n)
        PROVE  \E r : Fits(r)
    <3>1. Fits([ticket[j] EXCEPT !.state = "WAITING", !.token = NoToken,
                  !.requested = @ \union {"DELAYED"}, !.notBefore = n,
                  !.published = FALSE, !.registered = FALSE, !.retryAt = 0])
      BY <2>0, <2>9, <1>3 DEF Defer, Record
    <3> QED BY <3>1
  <2>10. ASSUME NEW t, Handoff(j, t)
         PROVE  \E r : Fits(r)
    <3>1. Fits([ticket[j] EXCEPT !.state = "ACCEPTED", !.stage = "BROWSER",
                  !.token = NoToken, !.published = FALSE, !.registered = FALSE,
                  !.retryAt = 0, !.notBefore = 0])
      BY <2>0, <2>10, <1>3 DEF Handoff, Record
    <3> QED BY <3>1
  <2>11. ASSUME NEW t, BeginDelivery(j, t)
         PROVE  \E r : Fits(r)
    <3>1. Fits([ticket[j] EXCEPT !.state = "DELIVERY_UNCERTAIN"])
      BY <2>0, <2>11, <1>3 DEF BeginDelivery, Record
    <3> QED BY <3>1
  <2>12. ASSUME NEW t, NEW i, Prepare(j, t, i)
         PROVE  \E r : Fits(r)
    <3>1. Fits([ticket[j] EXCEPT !.state = "SETTLING", !.settlement = i])
      BY <2>0, <2>12, <1>3 DEF Prepare, Record
    <3> QED BY <3>1
  <2>13. ASSUME CancelRunning(j)
         PROVE  \E r : Fits(r)
    <3>1. Fits([ticket[j] EXCEPT !.state = "CANCELLING"])
      BY <2>0, <2>13, <1>3 DEF CancelRunning, Record
    <3> QED BY <3>1
  <2>14. ASSUME NEW o, NEW t, Finish(j, o, t)
         PROVE  \E r : Fits(r)
    <3>1. Fits([ticket[j] EXCEPT !.state = "TERMINAL", !.outcome = o,
                  !.requested = @ \union {"TERMINAL"}])
      BY <2>0, <2>14, <1>4 DEF Finish, Record
    <3> QED BY <3>1
  <2>15. ASSUME NEW k, ClaimNotice(j, k)
         PROVE  \E r : Fits(r)
    <3>1. Fits(Noticed(j, k))
      BY <2>0, <2>15, <1>3, <1>4 DEF ClaimNotice, Noticed, Record
    <3> QED BY <3>1
  <2> HIDE DEF Fits
  <2> QED BY <1>5, <2>1, <2>2, <2>3, <2>4, <2>5, <2>6, <2>7, <2>8, <2>9, <2>10,
             <2>11, <2>12, <2>13, <2>14, <2>15
          DEF Operation, Expire, Cancel, CancelQueued, PayloadLapse
<1>6. CASE Tick \/ UNCHANGED vars
  BY <1>0, <1>6 DEF Tick, storeVars, vars
<1> QED BY <1>1, <1>5, <1>6 DEF Next

----------------------------------------------------------------------------
(****************************************************************************)
(* The invariant holds, and what follows from it.                           *)
(****************************************************************************)
LEMMA InitJInv == JobInit => JInv
<1> SUFFICES ASSUME JobInit PROVE JInv
  OBVIOUS
<1> USE DEF JobInit
<1>1. IInv
  BY InitIInv
<1>2. \A j \in Jobs : ticket[j] = Absent
  BY DEF Init
<1>3. JobTypeOK
  <2>1. act \in [Actors -> Steps]
    BY DEF Steps
  <2>2. bot \in [Jobs -> BotSteps]
    BY DEF BotSteps
  <2> QED BY <1>1, <2>1, <2>2 DEF IInv, JobTypeOK
<1>4. \A j \in Jobs : JobOK(j)
  BY <1>2 DEF JobOK, Absent, NoIntent, Spent
<1>5. \A a \in Actors : ActorOK(a)
  BY DEF ActorOK, OwnerOK, SettlerOK, TimelyOK, Idle, Owning, Executing, Settling
<1>6. StampOK /\ now <= MaxTime
  BY InputAssumption DEF StampOK, Init
<1>7. \A j \in Jobs : ticket[j].attempt <= MaxAttempt
  BY <1>2, InputAssumption DEF Absent
<1> QED BY <1>1, <1>3, <1>4, <1>5, <1>6, <1>7 DEF JInv

LEMMA StillStore == UNCHANGED allVars => UNCHANGED vars
BY DEF allVars

LEMMA StepJInv ==
  ASSUME JInv, [JobNext]_allVars
  PROVE  JInv'
<1>1. [Next]_vars
  BY StoreStep, StillStore
<1>2. IInv'
  BY <1>1, StepIInv DEF JInv
<1>3. CoreOK'
  BY StepCore
<1>4. act' \in [Actors -> Steps] /\ RestOK'
  BY ActTyped, StepRest
<1>5. JobTypeOK' /\ StampOK'
  BY <1>2, <1>4 DEF IInv, JobTypeOK, RestOK
<1>6. now' <= MaxTime /\ \A k \in Jobs : ticket'[k].attempt <= MaxAttempt
  BY <1>1, StoreBounds
<1> QED BY <1>2, <1>3, <1>5, <1>6 DEF JInv, CoreOK

\* The inductive invariant of the pipeline, under failures, crashes and
\* duplicate messages.
THEOREM JobInvariance == JobSpec => []JInv
<1>1. JobInit => JInv
  BY InitJInv
<1>2. JInv /\ [JobNext]_allVars => JInv'
  BY StepJInv
<1> QED BY <1>1, <1>2, PTL DEF JobSpec

\* Workers, bot, sweep and stop change tickets only by the transactions of the
\* admission store, so all that AdmissionProofs shows holds of their tickets.
THEOREM PipelineUsesStore == JobSpec => UsesStore
<1>1. JobInit => Init
  BY DEF JobInit
<1>2. JInv /\ [JobNext]_allVars => [Next]_vars
  BY StoreStep, StillStore
<1> QED BY <1>1, <1>2, JobInvariance, PTL DEF JobSpec, UsesStore, Spec

\* Crashes, retries and duplicate messages of the program's own actors neither
\* leak capacity nor return it twice, and pass no limit.
THEOREM PipelineCapacity == JobSpec => []CountsExact /\ ImplementsContract
BY PipelineUsesStore, CapacityExact, Refinement, PTL DEF UsesStore

\* The shared state and what each actor remembers keep their types.
THEOREM JobTypeCorrect == JobSpec => []JobTypeOK
<1>1. JInv => JobTypeOK
  BY DEF JInv
<1> QED BY <1>1, JobInvariance, PTL

\* A duplicate message, a republication or a browser handoff never puts a second
\* worker on a job that a worker executes, and the one there owns the ticket.
THEOREM SingleExecutor == JobSpec => []OneExecutor
<1>1. ASSUME JInv, NEW j \in Jobs, NEW w \in Executors(j)
      PROVE  /\ Executors(j) = {w}
             /\ ticket[j].state \in OwnedStates
             /\ ticket[j].token = w
  <2>1. ASSUME NEW v \in Executors(j)
        PROVE  ticket[j].state \in OwnedStates /\ ticket[j].token = v
    BY <1>1, <2>1 DEF Executors, JInv, ActorOK, OwnerOK, Owning, Executing, Actors
  <2> QED BY <2>1
<1>2. JInv => OneExecutor
  BY <1>1 DEF OneExecutor
<1> QED BY <1>2, JobInvariance, PTL

\* The media of a job reaches its target at most once, whatever is redelivered,
\* retried or recovered.
THEOREM DeliveredOnce == JobSpec => []AtMostOneDelivery
<1>1. JInv => AtMostOneDelivery
  BY DEF JInv, JobOK, AtMostOneDelivery
<1> QED BY <1>1, JobInvariance, PTL

\* Delivered media is never refunded and undelivered media is never charged:
\* until its settlement is recorded, a delivery leaves the ticket uncertain.
THEOREM EffectsKept == JobSpec => []EffectsAccounted
<1>1. JInv => EffectsAccounted
  BY DEF JInv, JobOK, EffectsAccounted
<1> QED BY <1>1, JobInvariance, PTL

\* Owner and sweep, even both at once, write the receipt before the reservation
\* is settled and settle the reservation before the capacity is given back.
THEOREM SettlementOrdered == JobSpec => []SettledInOrder
<1>1. JInv => SettledInOrder
  BY DEF JInv, JobOK, SettledInOrder
<1> QED BY <1>1, JobInvariance, PTL

\* A worker that extracts or delivers holds a live reservation: the reservation
\* outlives the task's hard time limit.
THEOREM RunsReserved == JobSpec => []ExecutionReserved
<1>1. JInv => ExecutionReserved
  BY DEF JInv, ActorOK, OwnerOK, ExecutionReserved, Executing, Actors
<1> QED BY <1>1, JobInvariance, PTL

\* One worker executes a job, and it does so under a live reservation.
THEOREM WorkersExclusive == JobSpec => []WorkersSound
<1>1. JobTypeOK /\ OneExecutor /\ ExecutionReserved => WorkersSound
  BY DEF WorkersSound
<1> QED BY <1>1, JobTypeCorrect, SingleExecutor, RunsReserved, PTL

\* Media arrives at most once and is charged as it was delivered, in order.
THEOREM DeliveryAccounted == JobSpec => []DeliverySound
<1>1. AtMostOneDelivery /\ EffectsAccounted /\ SettledInOrder => DeliverySound
  BY DEF DeliverySound
<1> QED BY <1>1, DeliveredOnce, EffectsKept, SettlementOrdered, PTL

\* Media is sent only by a worker whose ticket says that delivery may happen.
LEMMA DeliveryChange ==
  ASSUME JInv, JobNext, NEW j \in Jobs
  PROVE  \/ delivered'[j] = delivered[j]
         \/ \E w \in Workers : act[w].pc = "sending" /\ act[w].job = j
<1>1. ASSUME NEW w \in Workers, Deliver(w)
      PROVE  \/ delivered'[j] = delivered[j]
             \/ act[w].pc = "sending" /\ act[w].job = j
  <2>1. delivered \in [Jobs -> Nat]
    BY DEF JInv, JobTypeOK
  <2> QED BY <1>1, <2>1 DEF Deliver, Doing
<1>2. \A a, s : Goes(a, s) => delivered' = delivered
  BY DEF Goes
<1>3. ASSUME NEW w \in Workers, Worker(w), ~Deliver(w)
      PROVE  delivered' = delivered
  BY <1>2, <1>3
     DEF Worker, Receive, ClaimTask, FinishExpiredUnclaimed, PayloadGone, Reserve,
         Denied, Wait, FinishTicketSafe, MarkReserved, CheckEpoch, HandoffToBrowser,
         Extract, StartDelivery, PrepareSettlement
<1>4. ASSUME NEW a, Shared(a) \/ Stops(a) \/ Raises(a)
      PROVE  delivered' = delivered
  BY <1>2, <1>4 DEF Shared, PublishStage, ApplyReceipt, Consume, ReleaseTicket,
                    SendNotice, Stops, Raises
<1>5. ASSUME NEW k \in Jobs, Bot(k)
      PROVE  delivered' = delivered
  BY <1>5 DEF Bot, Stamp, Accept, Enroll, BotPublish, Acknowledge, MarkEnqueued,
              BotLeaves, BotStops, BotGoes
<1>6. ASSUME NEW k \in Jobs,
             \/ Page(k) \/ NotifyExpired(k) \/ ClearCancel(k) \/ ClearDrop(k)
             \/ ExpireStale(k) \/ PayloadExpires(k)
      PROVE  delivered' = delivered
  BY <1>2, <1>6 DEF Page, NotifyExpired, ClearCancel, ClearDrop, ExpireStale,
                    PayloadExpires, jobVars
<1>7. ASSUME Passes \/ SetEmergency \/ Recover \/ \E m \in broker : Lose(m)
      PROVE  delivered' = delivered
  BY <1>2, <1>7 DEF Passes, SetEmergency, Recover, RecoverSettling, RecoverExpired,
                    RecoverQueued, Lose, jobVars
<1> QED BY <1>1, <1>3, <1>4, <1>5, <1>6, <1>7 DEF JobNext

\* Once a job is cancelled, settling or finished, nothing more is sent for it.
THEOREM NothingSentLate == JobSpec => NoLateDelivery
<1>1. ASSUME JInv, JobNext, NEW j \in Jobs,
             ticket[j].state \in {"CANCELLING", "SETTLING", "TERMINAL"}
      PROVE  delivered'[j] = delivered[j]
  <2>1. ASSUME NEW w \in Workers, act[w].pc = "sending", act[w].job = j
        PROVE  FALSE
    BY <1>1, <2>1 DEF JInv, ActorOK, OwnerOK, Executing, Actors
  <2> QED BY <1>1, <2>1, DeliveryChange
<1>2. JInv /\ [JobNext]_allVars =>
        [\A j \in Jobs :
           ticket[j].state \in {"CANCELLING", "SETTLING", "TERMINAL"} =>
             delivered'[j] = delivered[j]]_allVars
  BY <1>1
<1> QED BY <1>2, JobInvariance, PTL DEF JobSpec, NoLateDelivery

\* A worker comes to extract only from the epoch check, and to what follows it
\* only from extraction.
BegunPcs == {"extracting", "extracted", "sending"}
Begins(w) ==
  \/ act'[w] = act[w]
  \/ act'[w].pc \notin BegunPcs
  \/ act[w].pc \in BegunPcs /\ act'[w].job = act[w].job
  \/ Current(act[w].job) /\ act'[w].job = act[w].job

LEMMA BeginsChange ==
  ASSUME JInv, JobNext, NEW w \in Workers
  PROVE  Begins(w)
<1>0. w \in Actors /\ act \in [Actors -> Steps]
  BY DEF Actors, JInv, JobTypeOK
<1>1. ASSUME NEW a, NEW s, act' = [act EXCEPT ![a] = s], s.pc \notin BegunPcs
      PROVE  Begins(w)
  BY <1>0, <1>1 DEF Begins
<1>2. /\ Idle.pc \notin BegunPcs
      /\ \A j, n : Notify(j, n).pc \notin BegunPcs
      /\ \A a, k, n : Complete(a, k, n).pc \notin BegunPcs
      /\ \A a, p, g : p \notin BegunPcs => At(a, p, g).pc \notin BegunPcs
      /\ \A j : Replaying(j).pc \notin BegunPcs
  BY DEF Idle, Notify, Complete, At, Replaying, BegunPcs
<1>3. ASSUME NEW a, NEW s, Goes(a, s) \/ GoesAlso(a, s), s.pc \notin BegunPcs
      PROVE  Begins(w)
  BY <1>1, <1>3 DEF Goes, GoesAlso
<1>4. ASSUME NEW v \in Workers, Worker(v)
      PROVE  Begins(w)
  <2>0. v \in Actors
    BY DEF Actors
  <2>1. CASE CheckEpoch(v)
    <3>1. CASE Goes(v, Complete(v, Zero("CANCELLED"), "NONE"))
      BY <1>2, <1>3, <3>1
    <3>2. CASE Current(act[v].job) /\ Goes(v, Proceed(v, "extracting"))
      <4>1. act' = [act EXCEPT ![v] = Proceed(v, "extracting")]
        BY <3>2 DEF Goes, GoesAlso
      <4>2. Proceed(v, "extracting").job = act[v].job
        BY DEF Proceed, At
      <4> QED BY <1>0, <3>2, <4>1, <4>2 DEF Begins
    <3> QED BY <2>1, <3>1, <3>2 DEF CheckEpoch
  <2>2. ASSUME NEW p \in {"extracted", "sending"}, Goes(v, Proceed(v, p)),
               act[v].pc \in BegunPcs
        PROVE  Begins(w)
    <3>1. act' = [act EXCEPT ![v] = Proceed(v, p)]
      BY <2>2 DEF Goes, GoesAlso
    <3>2. Proceed(v, p).job = act[v].job
      BY DEF Proceed, At
    <3> QED BY <1>0, <2>2, <3>1, <3>2 DEF Begins
  <2>3. CASE Extract(v) \/ StartDelivery(v)
    BY <1>2, <1>3, <2>2, <2>3 DEF Extract, StartDelivery, Doing, BegunPcs
  <2>4. CASE Deliver(v)
    BY <1>2, <1>3, <2>4 DEF Deliver
  <2>5. \A o, n : FinishTicketSafe(v, o, n) => Begins(w)
    BY <1>2, <1>3 DEF FinishTicketSafe
  <2>6. \A p \in {"claimed", "budgeted", "reserved"} : Proceed(v, p).pc \notin BegunPcs
    BY <1>2 DEF Proceed, BegunPcs
  <2>7. CASE ClaimTask(v) \/ Reserve(v) \/ MarkReserved(v)
    BY <1>2, <1>3, <2>6, <2>7 DEF ClaimTask, Reserve, MarkReserved
  <2>8. CASE FinishExpiredUnclaimed(v) \/ PayloadGone(v) \/ Denied(v)
    BY <1>2, <1>3, <2>5, <2>8 DEF FinishExpiredUnclaimed, PayloadGone, Denied, Wait
  <2>9. CASE HandoffToBrowser(v)
    BY <1>2, <1>3, <2>9 DEF HandoffToBrowser, BegunPcs
  <2>10. CASE Receive(v)
    <3>1. PICK m \in broker :
            act' = [act EXCEPT ![v] = [pc |-> "received", job |-> m[1], stage |-> m[2]]]
      BY <2>10 DEF Receive
    <3> QED BY <1>1, <3>1 DEF BegunPcs
  <2>11. CASE PrepareSettlement(v)
    <3>1. act[v] \in SettlementSteps
      BY <2>0, <2>11, ActorShape DEF PrepareSettlement, Doing, SettlementPcs, JInv
    <3>2. [act[v] EXCEPT !.pc = "receipt"].pc = "receipt"
      BY <3>1 DEF SettlementSteps
    <3> QED BY <1>3, <2>11, <3>2 DEF PrepareSettlement, BegunPcs
  <2> QED BY <1>4, <2>1, <2>3, <2>4, <2>7, <2>8, <2>9, <2>10, <2>11 DEF Worker
<1>5. ASSUME NEW a \in Actors, Shared(a) \/ Stops(a) \/ Raises(a)
      PROVE  Begins(w)
  <2>1. CASE PublishStage(a) \/ SendNotice(a) \/ Stops(a) \/ Raises(a) \/ ReleaseTicket(a)
    BY <1>1, <1>2, <1>3, <2>1 DEF PublishStage, SendNotice, Stops, Raises, ReleaseTicket
  <2>2. CASE ApplyReceipt(a) \/ Consume(a)
    <3>1. act[a] \in SettlementSteps
      BY <2>2, ActorShape DEF ApplyReceipt, Consume, Doing, SettlementPcs, JInv
    <3>2. \/ act' = [act EXCEPT ![a] = [act[a] EXCEPT !.pc = "consume"]]
          \/ act' = [act EXCEPT ![a] = [act[a] EXCEPT !.pc = "release"]]
          \/ act' = [act EXCEPT ![a] = Idle]
      BY <2>2 DEF ApplyReceipt, Consume, GoesAlso
    <3>3. /\ [act[a] EXCEPT !.pc = "consume"].pc \notin BegunPcs
          /\ [act[a] EXCEPT !.pc = "release"].pc \notin BegunPcs
      BY <3>1 DEF SettlementSteps, BegunPcs
    <3> QED BY <1>1, <1>2, <3>2, <3>3
  <2> QED BY <1>5, <2>1, <2>2 DEF Shared
<1>6. ASSUME NEW j \in Jobs, Page(j) \/ NotifyExpired(j)
      PROVE  Begins(w)
  BY <1>2, <1>3, <1>6 DEF Page, NotifyExpired, BegunPcs
<1>7. CASE Recover
  BY <1>2, <1>3, <1>7
     DEF Recover, RecoverSettling, RecoverExpired, RecoverQueued, BegunPcs
<1>8. ASSUME NEW j \in Jobs,
             \/ Bot(j) \/ ClearCancel(j) \/ ClearDrop(j) \/ ExpireStale(j)
             \/ PayloadExpires(j)
      PROVE  act' = act
  BY <1>8 DEF Bot, Stamp, Accept, Enroll, BotPublish, Acknowledge, MarkEnqueued,
              BotLeaves, BotStops, BotGoes, ClearCancel, ClearDrop, ExpireStale,
              PayloadExpires, jobVars
<1>9. ASSUME Passes \/ SetEmergency \/ \E m \in broker : Lose(m)
      PROVE  act' = act
  BY <1>9 DEF Passes, SetEmergency, Lose, jobVars
<1> QED BY <1>4, <1>5, <1>6, <1>7, <1>8, <1>9, WorkersAssumption
        DEF JobNext, Begins, Actors

\* The epoch never returns to an earlier one, and a job is stamped once.
LEMMA EpochChange ==
  ASSUME JInv, JobNext, NEW j \in Jobs, bot[j].pc # "new"
  PROVE  /\ bot'[j].pc # "new"
         /\ stamp'[j] = stamp[j]
         /\ emergency'.epoch \in Nat /\ emergency'.epoch >= emergency.epoch
<1>0. /\ bot \in [Jobs -> BotSteps] /\ stamp \in [Jobs -> Nat]
      /\ emergency.epoch \in Nat
  BY DEF JInv, JobTypeOK
<1>1. ASSUME NEW k \in Jobs, Bot(k)
      PROVE  bot'[j].pc # "new" /\ stamp'[j] = stamp[j] /\ emergency' = emergency
  <2>1. ASSUME NEW s, BotGoes(k, s), s.pc # "new"
        PROVE  bot'[j].pc # "new" /\ emergency' = emergency
    BY <1>0, <2>1 DEF BotGoes
  <2>2. CASE Stamp(k)
    BY <1>0, <2>1, <2>2 DEF Stamp
  <2>3. CASE Accept(k) \/ Enroll(k) \/ MarkEnqueued(k) \/ BotLeaves(k) \/ BotStops(k)
    BY <2>1, <2>3 DEF Accept, Enroll, MarkEnqueued, BotLeaves, BotStops
  <2>4. CASE BotPublish(k)
    <3>1. bot' = [bot EXCEPT ![k] = [bot[k] EXCEPT !.pc = "ack"]]
          /\ emergency' = emergency /\ stamp' = stamp
      BY <2>4 DEF BotPublish
    <3>2. [bot[k] EXCEPT !.pc = "ack"].pc = "ack"
      BY <1>0 DEF BotSteps
    <3> QED BY <1>0, <3>1, <3>2
  <2>5. CASE Acknowledge(k)
    <3>1. [bot[k] EXCEPT !.pc = "mark"].pc = "mark"
      BY <1>0 DEF BotSteps
    <3> QED BY <2>1, <2>5, <3>1 DEF Acknowledge
  <2> QED BY <1>1, <2>2, <2>3, <2>4, <2>5 DEF Bot
<1>2. \A a, s : Goes(a, s) \/ GoesAlso(a, s) =>
                  bot' = bot /\ stamp' = stamp /\ emergency' = emergency
  BY DEF Goes, GoesAlso
<1>3. ASSUME NEW a, Worker(a) \/ Shared(a) \/ Stops(a) \/ Raises(a)
      PROVE  bot' = bot /\ stamp' = stamp /\ emergency' = emergency
  BY <1>2, <1>3
     DEF Worker, Receive, ClaimTask, FinishExpiredUnclaimed, PayloadGone, Reserve,
         Denied, Wait, FinishTicketSafe, MarkReserved, CheckEpoch, HandoffToBrowser,
         Extract, StartDelivery, Deliver, PrepareSettlement, Shared, PublishStage,
         ApplyReceipt, Consume, ReleaseTicket, SendNotice, Stops, Raises
<1>4. ASSUME NEW k \in Jobs,
             \/ Page(k) \/ NotifyExpired(k) \/ ClearCancel(k) \/ ClearDrop(k)
             \/ ExpireStale(k) \/ PayloadExpires(k)
      PROVE  bot' = bot /\ stamp' = stamp /\ emergency' = emergency
  BY <1>2, <1>4 DEF Page, NotifyExpired, ClearCancel, ClearDrop, ExpireStale,
                    PayloadExpires, jobVars
<1>5. ASSUME Passes \/ Recover \/ \E m \in broker : Lose(m)
      PROVE  bot' = bot /\ stamp' = stamp /\ emergency' = emergency
  BY <1>2, <1>5 DEF Passes, Recover, RecoverSettling, RecoverExpired,
                    RecoverQueued, Lose, jobVars
<1>6. ASSUME SetEmergency
      PROVE  bot' = bot /\ stamp' = stamp /\ emergency'.epoch = emergency.epoch + 1
  BY <1>6 DEF SetEmergency
<1> QED BY <1>0, <1>1, <1>3, <1>4, <1>5, <1>6 DEF JobNext

\* Work whose epoch has passed and that nobody has begun to extract never is
\* extracted or delivered, not even after the feature is enabled again.
THEOREM StaleStaysStale == JobSpec => StaleNeverRuns
<1>1. ASSUME JInv, JobNext, NEW j \in Jobs, Stale(j)
      PROVE  Stale(j)'
  <2>1. stamp[j] \in Nat /\ emergency.epoch \in Nat /\ stamp[j] <= emergency.epoch
    BY <1>1 DEF JInv, JobTypeOK, StampOK
  <2>2. bot'[j].pc # "new" /\ emergency'.epoch # stamp'[j]
    BY <1>1, <2>1, EpochChange DEF Stale
  <2>3. ASSUME NEW w \in Workers, act'[w].pc \in BegunPcs, act'[w].job = j
        PROVE  FALSE
    <3>1. Begins(w)
      BY <1>1, BeginsChange
    <3>2. act[w].pc \in BegunPcs => act[w].job # j
      BY <1>1 DEF Stale, Begun, BegunPcs
    <3> QED BY <1>1, <2>3, <3>1, <3>2 DEF Begins, Current, Stale
  <2>4. ~Begun(j)'
    BY <2>3 DEF Begun, BegunPcs
  <2>5. delivered'[j] = 0
    BY <1>1, DeliveryChange DEF Stale, Begun
  <2> QED BY <2>2, <2>4, <2>5 DEF Stale
<1>2. JInv /\ [JobNext]_allVars => [\A j \in Jobs : Stale(j) => Stale(j)']_allVars
  BY <1>1
<1> QED BY <1>2, JobInvariance, PTL DEF JobSpec, StaleNeverRuns

==============================================================================
