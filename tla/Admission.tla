------------------------------ MODULE Admission ------------------------------
(****************************************************************************)
(* The admission store: tickets, capacity counters and indexes kept in      *)
(* Valkey.  admission_state.py computes a transition of one ticket from the *)
(* stored record; admission.py applies it and its capacity effects in one   *)
(* WATCH/MULTI/EXEC transaction, so an operation is one atomic action here. *)
(*                                                                          *)
(* The store serves callers it does not trust: every action takes the       *)
(* token, stage, attempt and facts the caller passes, and the guards below  *)
(* are what the code checks.  An operation the code answers with no write   *)
(* (a refusal, an idempotent replay, an error) is a stuttering step.        *)
(* FeatureJobs.tla composes these actions with the callers of the program.  *)
(****************************************************************************)
EXTENDS Integers, FiniteSets

CONSTANTS
  Jobs,                         \* job identities (JobEnvelope.job_id)
  SubjectOf, IngressOf, LaneOf, \* charged subject, ingress key, recovery lane
  DedupeOf,                     \* hash of the incoming action
  SizeOf,                       \* sealed payload bytes
  AcceptedAt, Deadline,         \* original timing, in ticks
  GlobalPending, TotalBytes, PayloadBytes, SubjectPending, IngressPending,
  RetryDelay,                   \* RECOVERY_RETRY_SECONDS
  NoJob,                        \* an empty deduplication slot
  Tokens,                       \* execution owner tokens of worker claims
  Schedules,                    \* publication and eligibility times asked for
  Captured,                     \* <<stage, attempt>> pairs callers captured
  Claimable,                    \* notice kinds callers claim
  Results,                      \* outcomes callers finish work with
  MaxTime, MaxAttempt           \* bounds of the clock and the attempt counter

Subjects == {SubjectOf[j] : j \in Jobs}
Ingresses == {IngressOf[j] : j \in Jobs}
Lanes == {LaneOf[j] : j \in Jobs}
DedupeKeys == {DedupeOf[j] : j \in Jobs}

NoToken == ""
RecoveryToken == "recovery"

ASSUME JobsAssumption == IsFiniteSet(Jobs) /\ NoJob \notin Jobs

ASSUME TimingAssumption ==
  /\ AcceptedAt \in [Jobs -> Nat]
  /\ Deadline \in [Jobs -> Nat]
  /\ \A j \in Jobs : AcceptedAt[j] < Deadline[j]

ASSUME SizeAssumption == SizeOf \in [Jobs -> Nat \ {0}]

ASSUME LimitAssumption ==
  /\ GlobalPending \in Nat \ {0}
  /\ TotalBytes \in Nat
  /\ PayloadBytes \in Nat
  /\ SubjectPending \in Nat \ {0}
  /\ IngressPending \in Nat \ {0}

ASSUME InputAssumption ==
  /\ NoToken \notin Tokens /\ RecoveryToken \notin Tokens
  /\ Schedules \subseteq Nat
  /\ Claimable \subseteq {"DELAYED", "TERMINAL", "FAILURE"}
  /\ Captured \subseteq {"MEDIA", "BROWSER"} \X Nat
  /\ Results \subseteq {"COMPLETE", "EXPIRED", "PAYLOAD_UNAVAILABLE", "FAILED",
                        "CANCELLED"}
  /\ RetryDelay \in Nat /\ MaxTime \in Nat /\ MaxAttempt \in Nat

QueuedStates == {"ACCEPTED", "ENQUEUED", "WAITING"}
OwnedStates == {"RUNNING", "CANCELLING", "SETTLING", "DELIVERY_UNCERTAIN"}
ActiveStates == QueuedStates \union OwnedStates
Stages == {"MEDIA", "BROWSER"}
Outcomes == {"COMPLETE", "EXPIRED", "PAYLOAD_UNAVAILABLE", "FAILED", "CANCELLED"}
NoticeKinds == {"DELAYED", "TERMINAL", "FAILURE"}

(****************************************************************************)
(* A settlement intent: the outcome, and the runtime amounts to consume:    *)
(* "none" is the empty tuple, "zero" a refund, "spent" a consumption.  The  *)
(* usage event is present exactly when the amounts are "spent".             *)
(****************************************************************************)
Intents == {i \in [outcome : Outcomes, actual : {"none", "zero", "spent"}] :
              i.actual = "spent" => i.outcome = "COMPLETE"}
Offered == {i \in Intents : i.outcome \in Results}
NoIntent == [outcome |-> "NONE", actual |-> "none"]

Record ==
  [state : ActiveStates \union {"ABSENT", "TERMINAL"},
   stage : Stages,
   attempt : Nat,
   token : Tokens \union {NoToken, RecoveryToken},
   published : BOOLEAN,
   registered : BOOLEAN,
   retryAt : Nat,
   notBefore : Nat,
   outcome : Outcomes \union {"NONE"},
   settlement : Intents \union {NoIntent},
   reserved : BOOLEAN,
   requested : SUBSET {"DELAYED", "TERMINAL"},
   claimed : SUBSET NoticeKinds]

Absent ==
  [state |-> "ABSENT", stage |-> "MEDIA", attempt |-> 0, token |-> NoToken,
   published |-> FALSE, registered |-> FALSE, retryAt |-> 0, notBefore |-> 0,
   outcome |-> "NONE", settlement |-> NoIntent, reserved |-> FALSE,
   requested |-> {}, claimed |-> {}]

VARIABLES
  ticket,     \* [Jobs -> Record], "ABSENT" when the key does not exist
  totals,     \* the count and bytes hash fields
  subject,    \* pending count of each charged subject
  ingress,    \* pending count of each ingress key
  dedupe,     \* the job each incoming action is bound to
  payload,    \* jobs whose sealed payload is stored
  handoff,    \* sorted set of accepted, unacknowledged work
  pending,    \* sorted set of all active work
  rotation,   \* lanes taking part in recovery
  lane,       \* jobs of each recovery lane
  now         \* the clock

capacityVars == <<totals, subject, ingress, pending, rotation, lane>>
storeVars == <<ticket, totals, subject, ingress, dedupe, payload, handoff,
               pending, rotation, lane>>
vars == <<ticket, totals, subject, ingress, dedupe, payload, handoff,
          pending, rotation, lane, now>>

Init ==
  /\ ticket = [j \in Jobs |-> Absent]
  /\ totals = [count |-> 0, bytes |-> 0]
  /\ subject = [s \in Subjects |-> 0]
  /\ ingress = [i \in Ingresses |-> 0]
  /\ dedupe = [d \in DedupeKeys |-> NoJob]
  /\ payload = {}
  /\ handoff = {}
  /\ pending = {}
  /\ rotation = {}
  /\ lane = [l \in Lanes |-> {}]
  /\ now = 0

----------------------------------------------------------------------------
(****************************************************************************)
(* Reading and writing the capacity metadata.                               *)
(****************************************************************************)

\* read_capacity: counters that disagree with the pending index are refused.
CapacityReadable(j) ==
  /\ totals.count = Cardinality(pending)
  /\ totals.count = 0 <=> totals.bytes = 0
  /\ subject[SubjectOf[j]] <= totals.count
  /\ ingress[IngressOf[j]] <= totals.count

\* Everything an active ticket needs before the store writes it again.
RequireActive(j) ==
  /\ CapacityReadable(j)
  /\ totals.count >= 1
  /\ totals.bytes >= SizeOf[j]
  /\ subject[SubjectOf[j]] >= 1
  /\ ingress[IngressOf[j]] >= 1
  /\ dedupe[DedupeOf[j]] = j
  /\ j \in pending
  /\ ticket[j].state = "ACCEPTED" => j \in handoff
  /\ LaneOf[j] \in rotation
  /\ j \in lane[LaneOf[j]]

\* Fault: limits compared with > admit one job too many.
FullPastLimit(j) ==
  \/ totals.count > GlobalPending
  \/ totals.bytes + SizeOf[j] > TotalBytes
  \/ SizeOf[j] > PayloadBytes
  \/ subject[SubjectOf[j]] > SubjectPending
  \/ ingress[IngressOf[j]] > IngressPending

Full(j) ==
  \/ totals.count >= GlobalPending
  \/ totals.bytes + SizeOf[j] > TotalBytes
  \/ SizeOf[j] > PayloadBytes
  \/ subject[SubjectOf[j]] >= SubjectPending
  \/ ingress[IngressOf[j]] >= IngressPending

\* _write_change without a release; index is handoff after the write.
Retain(j, record, index) ==
  /\ RequireActive(j)
  /\ ticket' = [ticket EXCEPT ![j] = record]
  /\ handoff' = index
  /\ UNCHANGED <<totals, subject, ingress, dedupe, payload, pending,
                 rotation, lane, now>>

\* Fault: the ingress counter is not returned.
ReleaseKeepingIngress(j, record) ==
  /\ RequireActive(j)
  /\ ticket' = [ticket EXCEPT ![j] = record]
  /\ totals' = [count |-> totals.count - 1, bytes |-> totals.bytes - SizeOf[j]]
  /\ subject' = [subject EXCEPT ![SubjectOf[j]] = @ - 1]
  /\ ingress' = [ingress EXCEPT ![IngressOf[j]] = @ - 0]
  /\ payload' = payload \ {j}
  /\ pending' = pending \ {j}
  /\ lane' = [lane EXCEPT ![LaneOf[j]] = @ \ {j}]
  /\ rotation' = IF Cardinality(lane[LaneOf[j]]) = 1
                 THEN rotation \ {LaneOf[j]} ELSE rotation
  /\ handoff' = handoff \ {j}
  /\ UNCHANGED <<dedupe, now>>

\* Fault: one byte is returned instead of the payload's size.
ReleaseOneByte(j, record) ==
  /\ RequireActive(j)
  /\ ticket' = [ticket EXCEPT ![j] = record]
  /\ totals' = [count |-> totals.count - 1, bytes |-> IF totals.count = 1 THEN 0 ELSE totals.bytes - 1]
  /\ subject' = [subject EXCEPT ![SubjectOf[j]] = @ - 1]
  /\ ingress' = [ingress EXCEPT ![IngressOf[j]] = @ - 1]
  /\ payload' = payload \ {j}
  /\ pending' = pending \ {j}
  /\ lane' = [lane EXCEPT ![LaneOf[j]] = @ \ {j}]
  /\ rotation' = IF Cardinality(lane[LaneOf[j]]) = 1
                 THEN rotation \ {LaneOf[j]} ELSE rotation
  /\ handoff' = handoff \ {j}
  /\ UNCHANGED <<dedupe, now>>

\* _write_change with a release: one job leaves every dimension at once.
Release(j, record) ==
  /\ RequireActive(j)
  /\ ticket' = [ticket EXCEPT ![j] = record]
  /\ totals' = [count |-> totals.count - 1, bytes |-> totals.bytes - SizeOf[j]]
  /\ subject' = [subject EXCEPT ![SubjectOf[j]] = @ - 1]
  /\ ingress' = [ingress EXCEPT ![IngressOf[j]] = @ - 1]
  /\ payload' = payload \ {j}
  /\ pending' = pending \ {j}
  /\ lane' = [lane EXCEPT ![LaneOf[j]] = @ \ {j}]
  /\ rotation' = IF Cardinality(lane[LaneOf[j]]) = 1
                 THEN rotation \ {LaneOf[j]} ELSE rotation
  /\ handoff' = handoff \ {j}
  /\ UNCHANGED <<dedupe, now>>

\* A write to a terminal ticket touches no capacity and reads none.
Annotate(j, record) ==
  /\ ticket' = [ticket EXCEPT ![j] = record]
  /\ UNCHANGED <<totals, subject, ingress, dedupe, payload, handoff, pending,
                 rotation, lane, now>>

Queued(j) == ticket[j].state \in QueuedStates
Active(j) == ticket[j].state \in ActiveStates

\* _queued_terminal: queued work that holds a reservation is settled first.
QueuedTerminal(j, outcome) ==
  \/ /\ ticket[j].reserved
     /\ Retain(j, [ticket[j] EXCEPT !.state = "SETTLING",
                                    !.token = RecoveryToken,
                                    !.settlement = [outcome |-> outcome,
                                                    actual |-> "zero"]],
               handoff \ {j})
  \/ /\ ~ticket[j].reserved
     /\ Release(j, [ticket[j] EXCEPT !.state = "TERMINAL",
                                     !.outcome = outcome,
                                     !.requested = @ \union {"TERMINAL"}])

----------------------------------------------------------------------------
(****************************************************************************)
(* The operations of the store.                                             *)
(****************************************************************************)

\* admit: acquires every dimension, the dedupe slot and the indexes at once.
Admit(j) ==
  /\ AcceptedAt[j] <= now
  /\ dedupe[DedupeOf[j]] = NoJob
  /\ ticket[j].state = "ABSENT"
  /\ now < Deadline[j]
  /\ CapacityReadable(j)
  /\ ~Full(j)
  /\ ticket' = [ticket EXCEPT ![j] = [Absent EXCEPT !.state = "ACCEPTED"]]
  /\ totals' = [count |-> totals.count + 1, bytes |-> totals.bytes + SizeOf[j]]
  /\ subject' = [subject EXCEPT ![SubjectOf[j]] = @ + 1]
  /\ ingress' = [ingress EXCEPT ![IngressOf[j]] = @ + 1]
  /\ dedupe' = [dedupe EXCEPT ![DedupeOf[j]] = j]
  /\ payload' = payload \union {j}
  /\ handoff' = handoff \union {j}
  /\ pending' = pending \union {j}
  /\ rotation' = rotation \union {LaneOf[j]}
  /\ lane' = [lane EXCEPT ![LaneOf[j]] = @ \union {j}]
  /\ UNCHANGED now

\* register_publication: the first schedule wins; replays write nothing.
Register(j, notBefore) ==
  /\ ticket[j].state = "ACCEPTED"
  /\ ~ticket[j].published
  /\ ~ticket[j].registered
  /\ notBefore < Deadline[j]
  /\ Retain(j, [ticket[j] EXCEPT !.registered = TRUE, !.notBefore = notBefore],
            handoff)

Matches(j, stage, attempt) ==
  ticket[j].stage = stage /\ ticket[j].attempt = attempt

\* ack_publication
Published(j, stage, attempt) ==
  /\ Active(j)
  /\ Matches(j, stage, attempt)
  /\ Retain(j, [ticket[j] EXCEPT !.published = TRUE], handoff)

\* mark_enqueued
Enqueued(j, stage, attempt) ==
  /\ ticket[j].state = "ACCEPTED"
  /\ Matches(j, stage, attempt)
  /\ Retain(j, [ticket[j] EXCEPT !.state = "ENQUEUED"], handoff \ {j})

\* allow_republication
Republish(j, stage, attempt) ==
  /\ Queued(j)
  /\ Matches(j, stage, attempt)
  /\ ticket[j].notBefore <= now
  /\ ticket[j].retryAt <= now
  /\ now < Deadline[j]
  /\ Retain(j, [ticket[j] EXCEPT !.retryAt = now + RetryDelay], handoff)

\* claim_stage past the deadline: queued work expires, owned work does not.
Expire(j) ==
  /\ Queued(j)
  /\ now >= Deadline[j]
  /\ QueuedTerminal(j, "EXPIRED")

\* Fault: running work may be claimed again.
ClaimRunning(j, stage, token) ==
  /\ Queued(j) \/ ticket[j].state = "RUNNING"
  /\ now < Deadline[j]
  /\ ticket[j].notBefore <= now
  /\ ticket[j].stage = stage
  /\ ticket[j].attempt < MaxAttempt
  /\ Retain(j, [ticket[j] EXCEPT !.state = "RUNNING", !.token = token,
                                 !.attempt = @ + 1],
            handoff \ {j})

\* claim_stage: one owner, counted by its attempt.
Claim(j, stage, token) ==
  /\ Queued(j)
  /\ now < Deadline[j]
  /\ ticket[j].notBefore <= now
  /\ ticket[j].stage = stage
  /\ ticket[j].attempt < MaxAttempt
  /\ Retain(j, [ticket[j] EXCEPT !.state = "RUNNING", !.token = token,
                                 !.attempt = @ + 1],
            handoff \ {j})

\* mark_reserved
Reserved(j, token) ==
  /\ ticket[j].state \in {"RUNNING", "CANCELLING"}
  /\ ticket[j].token = token
  /\ Retain(j, [ticket[j] EXCEPT !.reserved = TRUE], handoff)

\* defer: the owner gives its claim back until the quota is eligible.
Defer(j, token, notBefore) ==
  /\ ticket[j].state = "RUNNING"
  /\ ticket[j].token = token
  /\ ~ticket[j].reserved
  /\ AcceptedAt[j] <= notBefore
  /\ notBefore < Deadline[j]
  /\ Retain(j, [ticket[j] EXCEPT !.state = "WAITING", !.token = NoToken,
                                 !.requested = @ \union {"DELAYED"},
                                 !.notBefore = notBefore, !.published = FALSE,
                                 !.registered = FALSE, !.retryAt = 0],
            handoff)

\* Fault: the browser stage is not indexed for publication.
HandoffUnindexed(j, token) ==
  /\ ticket[j].state = "RUNNING"
  /\ ticket[j].token = token
  /\ ticket[j].stage = "MEDIA"
  /\ Retain(j, [ticket[j] EXCEPT !.state = "ACCEPTED", !.stage = "BROWSER",
                                 !.token = NoToken, !.published = FALSE,
                                 !.registered = FALSE, !.retryAt = 0,
                                 !.notBefore = 0],
            handoff)

\* handoff_stage: media to browser, keeping capacity, payload and reservation.
Handoff(j, token) ==
  /\ ticket[j].state = "RUNNING"
  /\ ticket[j].token = token
  /\ ticket[j].stage = "MEDIA"
  /\ Retain(j, [ticket[j] EXCEPT !.state = "ACCEPTED", !.stage = "BROWSER",
                                 !.token = NoToken, !.published = FALSE,
                                 !.registered = FALSE, !.retryAt = 0,
                                 !.notBefore = 0],
            handoff \union {j})

\* Fault: the ticket does not say that delivery begins.
BeginDeliveryUnmarked(j, token) ==
  /\ ticket[j].state = "RUNNING"
  /\ ticket[j].token = token
  /\ now < Deadline[j]
  /\ RequireActive(j)
  /\ UNCHANGED vars

\* begin_delivery: from here on a crash leaves the delivery uncertain.
BeginDelivery(j, token) ==
  /\ ticket[j].state = "RUNNING"
  /\ ticket[j].token = token
  /\ now < Deadline[j]
  /\ Retain(j, [ticket[j] EXCEPT !.state = "DELIVERY_UNCERTAIN"], handoff)

\* prepare_settlement: model_validate rejects amounts that disagree with the
\* reservation; a different intent on a settling ticket is a conflict.
Prepare(j, token, intent) ==
  /\ ticket[j].state \in OwnedStates
  /\ ticket[j].token = token
  /\ ticket[j].settlement \in {NoIntent, intent}
  /\ ticket[j].reserved <=> intent.actual # "none"
  /\ Retain(j, [ticket[j] EXCEPT !.state = "SETTLING", !.settlement = intent],
            handoff)

\* Fault: a delivery that has begun can be cancelled.
CancelUncertain(j) ==
  /\ ticket[j].state \in {"RUNNING", "DELIVERY_UNCERTAIN"}
  /\ Retain(j, [ticket[j] EXCEPT !.state = "CANCELLING"], handoff)

\* cancel of running work leaves its owner in place.
CancelRunning(j) ==
  /\ ticket[j].state = "RUNNING"
  /\ Retain(j, [ticket[j] EXCEPT !.state = "CANCELLING"], handoff)

CancelQueued(j) ==
  /\ Queued(j)
  /\ QueuedTerminal(j, "CANCELLED")

Cancel(j) == CancelRunning(j) \/ CancelQueued(j)

\* Fault: a reservation need not be settled before the ticket is finished.
FinishUnsettled(j, outcome, token) ==
  /\ Active(j)
  /\ ticket[j].state # "DELIVERY_UNCERTAIN"
  /\ ticket[j].settlement # NoIntent => ticket[j].settlement.outcome = outcome
  /\ IF Queued(j) THEN token = NoToken ELSE token = ticket[j].token
  /\ Release(j, [ticket[j] EXCEPT !.state = "TERMINAL", !.outcome = outcome,
                                  !.requested = @ \union {"TERMINAL"}])

\* Fault: an uncertain delivery is finished without settlement facts.
FinishUncertain(j, outcome, token) ==
  /\ Active(j)
  /\ ticket[j].reserved => ticket[j].state \in {"SETTLING", "DELIVERY_UNCERTAIN"}
  /\ ticket[j].settlement # NoIntent => ticket[j].settlement.outcome = outcome
  /\ IF Queued(j) THEN token = NoToken ELSE token = ticket[j].token
  /\ Release(j, [ticket[j] EXCEPT !.state = "TERMINAL", !.outcome = outcome,
                                  !.requested = @ \union {"TERMINAL"}])

\* finish: queued work by anyone without a token, owned work by its owner.
Finish(j, outcome, token) ==
  /\ Active(j)
  /\ ticket[j].state # "DELIVERY_UNCERTAIN"
  /\ ticket[j].reserved => ticket[j].state = "SETTLING"
  /\ ticket[j].settlement # NoIntent => ticket[j].settlement.outcome = outcome
  /\ IF Queued(j) THEN token = NoToken ELSE token = ticket[j].token
  /\ Release(j, [ticket[j] EXCEPT !.state = "TERMINAL", !.outcome = outcome,
                                  !.requested = @ \union {"TERMINAL"}])

\* claim_notice: whether the store grants the caller the right to send.
NoticeDue(j, kind) ==
  \/ /\ kind = "DELAYED"
     /\ ticket[j].state = "WAITING"
     /\ "DELAYED" \in ticket[j].requested \ ticket[j].claimed
  \/ /\ kind = "TERMINAL"
     /\ ticket[j].state = "TERMINAL"
     /\ "TERMINAL" \in ticket[j].requested \ ticket[j].claimed
  \/ /\ kind = "FAILURE"
     /\ ticket[j].claimed \intersect {"FAILURE", "TERMINAL"} = {}
     /\ ticket[j].state \in {"ACCEPTED", "ENQUEUED", "WAITING", "RUNNING",
                             "TERMINAL"}
     /\ ticket[j].outcome \notin {"COMPLETE", "CANCELLED"}

Noticed(j, kind) == [ticket[j] EXCEPT !.claimed = @ \union {kind}]

ClaimNotice(j, kind) ==
  /\ NoticeDue(j, kind)
  /\ \/ /\ ticket[j].state = "TERMINAL"
        /\ Annotate(j, Noticed(j, kind))
     \/ /\ ticket[j].state # "TERMINAL"
        /\ Retain(j, Noticed(j, kind), handoff)

\* The retention of a terminal ticket and its dedupe key ends together.  It
\* outlasts the longest deadline (3600 s against 300 s), hence the guard.
Retire(j) ==
  /\ ticket[j].state = "TERMINAL"
  /\ now >= Deadline[j]
  /\ ticket' = [ticket EXCEPT ![j] = Absent]
  /\ dedupe' = [dedupe EXCEPT ![DedupeOf[j]] = NoJob]
  /\ UNCHANGED <<totals, subject, ingress, payload, handoff, pending,
                 rotation, lane, now>>

\* The expiry of the payload key: never before the deadline.
PayloadLapse(j) ==
  /\ j \in payload
  /\ now >= Deadline[j]
  /\ payload' = payload \ {j}
  /\ UNCHANGED <<ticket, totals, subject, ingress, dedupe, handoff, pending,
                 rotation, lane, now>>

Tick ==
  /\ now < MaxTime
  /\ now' = now + 1
  /\ UNCHANGED storeVars

Operation(j) ==
  \/ Admit(j)
  \/ \E t \in Schedules : Register(j, t)
  \/ \E c \in Captured : Published(j, c[1], c[2])
  \/ \E c \in Captured : Enqueued(j, c[1], c[2])
  \/ \E c \in Captured : Republish(j, c[1], c[2])
  \/ Expire(j)
  \/ \E s \in Stages, t \in Tokens : Claim(j, s, t)
  \/ \E t \in Tokens : Reserved(j, t)
  \/ \E t \in Tokens, n \in Schedules : Defer(j, t, n)
  \/ \E t \in Tokens : Handoff(j, t)
  \/ \E t \in Tokens : BeginDelivery(j, t)
  \/ \E t \in Tokens \union {RecoveryToken}, i \in Offered : Prepare(j, t, i)
  \/ Cancel(j)
  \/ \E o \in Results, t \in Tokens \union {NoToken, RecoveryToken} :
       Finish(j, o, t)
  \/ \E k \in Claimable : ClaimNotice(j, k)
  \/ Retire(j)
  \/ PayloadLapse(j)

Next == Tick \/ \E j \in Jobs : Operation(j)

Spec == Init /\ [][Next]_vars

----------------------------------------------------------------------------
(****************************************************************************)
(* What the store promises.                                                 *)
(****************************************************************************)

TypeOK ==
  /\ ticket \in [Jobs -> Record]
  /\ totals \in [count : Int, bytes : Int]
  /\ subject \in [Subjects -> Int]
  /\ ingress \in [Ingresses -> Int]
  /\ dedupe \in [DedupeKeys -> Jobs \union {NoJob}]
  /\ payload \in SUBSET Jobs
  /\ handoff \in SUBSET Jobs
  /\ pending \in SUBSET Jobs
  /\ rotation \in SUBSET Lanes
  /\ lane \in [Lanes -> SUBSET Jobs]
  /\ now \in Nat

ActiveJobs == {j \in Jobs : Active(j)}

\* The counters of every dimension equal the active tickets they stand for,
\* after any order of admissions and of the releases of claim_stage, cancel
\* and finish: capacity is neither leaked nor returned twice.
CountsExact ==
  /\ pending = ActiveJobs
  /\ totals.count = Cardinality(ActiveJobs)
  /\ \A s \in Subjects :
       subject[s] = Cardinality({j \in ActiveJobs : SubjectOf[j] = s})
  /\ \A i \in Ingresses :
       ingress[i] = Cardinality({j \in ActiveJobs : IngressOf[j] = i})

\* The bytes of the payloads of a set of jobs, each byte an element.
Bytes(S) == UNION {{j} \X (1..SizeOf[j]) : j \in S}

\* The byte total is the size of all active payloads together.
BytesExact == totals.bytes = Cardinality(Bytes(ActiveJobs))

\* The handoff index holds exactly the accepted work that no publication has
\* acknowledged: recoverable() finds all of it and nothing else.
HandoffExact == handoff = {j \in Jobs : ticket[j].state = "ACCEPTED"}

\* Every active ticket is in its recovery lane, every nonempty lane rotates,
\* and nothing else does: no accepted work is invisible to recovery_page.
LanesExact ==
  /\ \A l \in Lanes : lane[l] = {j \in ActiveJobs : LaneOf[j] = l}
  /\ rotation = {LaneOf[j] : j \in ActiveJobs}

\* The dedupe slot of an incoming action names the one ticket, active or
\* still retained, that the action was admitted as.
DedupeExact ==
  \A j \in Jobs : ticket[j].state # "ABSENT" <=> dedupe[DedupeOf[j]] = j

\* The store never refuses an active ticket for its metadata: what the code
\* reports as "Active admission capacity metadata is unavailable" does not
\* arise from the store's own operations.
NeverWedged == \A j \in ActiveJobs : RequireActive(j)

\* No sealed payload outlives its work: ciphertext is stored for active
\* tickets only.
NoOrphanPayload == payload \subseteq ActiveJobs

\* Each stored record passes AdmissionRecord.validate_lifecycle again when it
\* is next read; model_copy does not validate, so a transition could write a
\* record no later operation would accept.
Readable(j, r) ==
  /\ r.notBefore < Deadline[j]
  /\ r.state \in OwnedStates => r.token # NoToken /\ r.attempt > 0
  /\ r.state \in QueuedStates => r.token = NoToken
  /\ r.state = "TERMINAL" <=> r.outcome # "NONE"
  /\ r.state = "SETTLING" => r.settlement # NoIntent
  /\ r.settlement # NoIntent =>
       /\ r.state \in {"SETTLING", "TERMINAL"}
       /\ r.reserved <=> r.settlement.actual # "none"

RecordsReadable ==
  \A j \in Jobs : ticket[j].state # "ABSENT" => Readable(j, ticket[j])

\* A ticket that acquired an execution budget never becomes terminal without
\* settlement facts that name what the budget is to be charged, and with the
\* outcome those facts carry.
SettledBeforeRelease ==
  \A j \in Jobs :
    ticket[j].state = "TERMINAL" /\ ticket[j].reserved =>
      /\ ticket[j].settlement # NoIntent
      /\ ticket[j].settlement.outcome = ticket[j].outcome

\* Queued work names its publication: the first media publication is attempt
\* 0, every later incarnation of a queued ticket has a larger attempt, so an
\* acknowledgement captured before a claim cannot match after it.
FirstAttemptIsMedia ==
  \A j \in Jobs :
    /\ ticket[j].state \in {"ACCEPTED", "ENQUEUED"} =>
         (ticket[j].attempt = 0 <=> ticket[j].stage = "MEDIA")
    /\ ticket[j].state = "WAITING" => ticket[j].attempt > 0

\* Who runs a ticket changes only through the queue: while a ticket is owned
\* the owner stays the same, whatever other callers try.
OwnerKept ==
  [][\A j \in Jobs :
       ticket[j].state \in OwnedStates /\ ticket'[j].state \in OwnedStates
         => ticket'[j].token = ticket[j].token]_vars

\* Cancelled running work can only be settled or finished by its owner: it is
\* never requeued and never begins a delivery.
CancelSticks ==
  [][\A j \in Jobs :
       ticket[j].state = "CANCELLING"
         => ticket'[j].state \in {"CANCELLING", "SETTLING", "TERMINAL"}]_vars

\* Possible external effects are never forgotten: a ticket whose delivery may
\* have happened leaves that state only through its owner's settlement facts.
UncertainHeld ==
  [][\A j \in Jobs :
       ticket[j].state = "DELIVERY_UNCERTAIN"
         => ticket'[j].state \in {"DELIVERY_UNCERTAIN", "SETTLING"}]_vars

\* Settlement facts, once recorded, are what is charged: they do not change
\* while the ticket is retained, and the outcome does not change either.
SettlementImmutable ==
  [][\A j \in Jobs :
       ticket'[j].state # "ABSENT" =>
         /\ ticket[j].settlement # NoIntent
              => ticket'[j].settlement = ticket[j].settlement
         /\ ticket[j].outcome # "NONE"
              => ticket'[j].outcome = ticket[j].outcome]_vars

\* Every record that is stored can be read again, and none becomes terminal
\* with a reservation that nothing settles (AdmissionRecord, finish).
TicketsSound == TypeOK /\ RecordsReadable /\ SettledBeforeRelease /\ FirstAttemptIsMedia

\* The indexes agree with the tickets: accepted work can be found again, once,
\* and what is finished is found nowhere (_write_change, admit, retention).
IndexesAgree == HandoffExact /\ LanesExact /\ DedupeExact /\ NoOrphanPayload

\* The metadata of every active ticket stays such that the store takes it: bytes
\* add up, and no legal order of operations leaves a ticket refused.
MetadataUsable == BytesExact /\ NeverWedged

\* What no caller can undo in a ticket: its owner, a cancellation, a delivery
\* that may have happened, and what it settles with.
HistoryKept == OwnerKept /\ CancelSticks /\ UncertainHeld /\ SettlementImmutable

----------------------------------------------------------------------------
(****************************************************************************)
(* The counters implement the sets of the contract: open work is the active *)
(* tickets, closed work has finished or can no longer be accepted.          *)
(****************************************************************************)
ClosedJobs == {j \in Jobs : \/ ticket[j].state = "TERMINAL"
                            \/ ticket[j].state = "ABSENT" /\ now >= Deadline[j]}

Contract == INSTANCE CapacityContract WITH open <- ActiveJobs, closed <- ClosedJobs

\* Accepting, finishing, expiring, cancelling and retiring tickets in any order
\* never opens a job twice, never closes one twice and never passes a limit.
ImplementsContract == Contract!Spec

=============================================================================
