----------------------------- MODULE FeatureJobs -----------------------------
(****************************************************************************)
(* A feature job from the bot to its settlement: the bot admits and          *)
(* publishes it, Celery hands it to a worker at most once or several times,  *)
(* the worker claims, reserves, extracts, delivers and settles, a recovery   *)
(* sweep republishes, expires and reconciles, and an emergency stop cancels. *)
(* The actors share the admission store (Admission.tla, whose actions are    *)
(* the store's transactions), the budget, the usage ledger and the broker.   *)
(* Any actor may stop between two steps; what it knew is lost.               *)
(*                                                                          *)
(* The horizon ends before a terminal ticket's retention does (3600 s after  *)
(* a deadline of at most 300 s), so Retire is not a step of the composition. *)
(****************************************************************************)
EXTENDS Admission

CONSTANTS
  Workers,      \* worker processes; a worker's name stands for its claim token
  Sweeper,      \* the recovery sweep
  Cap,          \* global execution concurrency
  Grace,        \* STALE_RESERVATION_GRACE_SECONDS
  MaxEpoch,     \* bound on emergency transitions
  MayFail,      \* whether calls fail and messages are lost
  Crashing,     \* actors that may be killed between two steps
  FeedbackAllowed \* whether the target may still be sent notices

Actors == Workers \union {Sweeper}

ASSUME WorkersAssumption ==
  /\ Tokens = Workers /\ Sweeper \notin Workers
  /\ Crashing \subseteq Actors

ASSUME JobBoundsAssumption ==
  /\ Cap \in Nat /\ Grace \in Nat /\ MaxEpoch \in Nat
  /\ MayFail \in BOOLEAN /\ FeedbackAllowed \in BOOLEAN

\* The callers of this program are among the callers the store is checked with.
ASSUME CallersAssumption ==
  /\ 0..(MaxTime + 1) \subseteq Schedules
  /\ Stages \X (0..MaxAttempt) \subseteq Captured
  /\ Claimable = NoticeKinds
  /\ Results = Outcomes

VARIABLES
  broker,     \* <<job, stage>> messages in the Celery queues
  act,        \* what each worker and the sweep is doing
  bot,        \* progress of the bot's handler for each job
  budget,     \* state of the execution reservation of each job
  charges,    \* debits of each job in the usage ledger
  delivered,  \* media deliveries of each job that Telegram accepted
  told,       \* notices sent about each job
  emergency,  \* the feature's emergency stop: disabled, epoch
  stamp       \* epoch stamped on each job's envelope

jobVars == <<broker, act, bot, budget, charges, delivered, told, emergency, stamp>>
allVars == <<vars, jobVars>>

Idle == [pc |-> "idle"]

\* Notices by the kind whose claim guards them.
TerminalNotices == {"TIMEOUT", "LIMIT", "EXTRACTION"}
KindOf(notice) == IF notice \in TerminalNotices THEN "TERMINAL"
                  ELSE IF notice = "WAIT" THEN "DELAYED" ELSE "FAILURE"

Spent == [outcome |-> "COMPLETE", actual |-> "spent"]
Zero(outcome) == [outcome |-> outcome, actual |-> "zero"]

JobInit ==
  /\ Init
  /\ broker = {}
  /\ act = [a \in Actors |-> Idle]
  /\ bot = [j \in Jobs |-> [pc |-> "new"]]
  /\ budget = [j \in Jobs |-> "none"]
  /\ charges = [j \in Jobs |-> 0]
  /\ delivered = [j \in Jobs |-> 0]
  /\ told = [j \in Jobs |-> {}]
  /\ emergency = [disabled |-> FALSE, epoch |-> 0]
  /\ stamp = [j \in Jobs |-> 0]

----------------------------------------------------------------------------
(****************************************************************************)
(* The bot: AdmissionService.admit, then handoff, one call after the other. *)
(****************************************************************************)
BotGoes(j, step) ==
  /\ bot' = [bot EXCEPT ![j] = step]
  /\ UNCHANGED <<broker, act, budget, charges, delivered, told, emergency>>

\* _admit_current reads the emergency state before the admission transaction.
Stamp(j) ==
  /\ bot[j].pc = "new"
  /\ ~emergency.disabled
  /\ stamp' = [stamp EXCEPT ![j] = emergency.epoch]
  /\ BotGoes(j, [pc |-> "stamped"])
  /\ UNCHANGED vars

Accept(j) ==
  /\ bot[j].pc = "stamped"
  /\ Admit(j)
  /\ BotGoes(j, [pc |-> "accepted"])
  /\ UNCHANGED stamp

\* handoff reads the ticket; enqueue registers the publication.  A ticket that
\* has moved on is left alone; a registered one is published again.
Enroll(j) ==
  /\ bot[j].pc = "accepted"
  /\ ticket[j].state = "ACCEPTED"
  /\ now < Deadline[j]
  /\ Register(j, 0)
  /\ BotGoes(j, [pc |-> "publish", stage |-> ticket[j].stage,
                 attempt |-> ticket[j].attempt])
  /\ UNCHANGED stamp

\* _publish of enqueue always addresses the media queue.
BotPublish(j) ==
  /\ bot[j].pc = "publish"
  /\ now < Deadline[j]
  /\ broker' = broker \union {<<j, "MEDIA">>}
  /\ bot' = [bot EXCEPT ![j].pc = "ack"]
  /\ UNCHANGED <<vars, act, budget, charges, delivered, told, emergency, stamp>>

\* ack_publication, then mark_enqueued, with the stage and attempt read at
\* first; both do nothing when the ticket has moved on.
Acknowledge(j) ==
  /\ bot[j].pc = "ack"
  /\ \/ Published(j, bot[j].stage, bot[j].attempt)
     \/ /\ ~(Active(j) /\ Matches(j, bot[j].stage, bot[j].attempt))
        /\ UNCHANGED vars
  /\ BotGoes(j, [bot[j] EXCEPT !.pc = "mark"])
  /\ UNCHANGED stamp

MarkEnqueued(j) ==
  /\ bot[j].pc = "mark"
  /\ \/ Enqueued(j, bot[j].stage, bot[j].attempt)
     \/ /\ ~(ticket[j].state = "ACCEPTED" /\ Matches(j, bot[j].stage, bot[j].attempt))
        /\ UNCHANGED vars
  /\ BotGoes(j, [pc |-> "done"])
  /\ UNCHANGED stamp

\* enqueue answers EXPIRED, or the ticket is no longer accepted.
BotLeaves(j) ==
  /\ \/ bot[j].pc = "accepted" /\ ~(ticket[j].state = "ACCEPTED" /\ now < Deadline[j])
     \/ bot[j].pc = "publish" /\ now >= Deadline[j]
  /\ BotGoes(j, [pc |-> "done"])
  /\ UNCHANGED <<vars, stamp>>

\* The handler is not resumed: a restart of the bot leaves the rest to the
\* recovery sweep.
BotStops(j) ==
  /\ MayFail
  /\ bot[j].pc \notin {"new", "done"}
  /\ BotGoes(j, [pc |-> "done"])
  /\ UNCHANGED <<vars, stamp>>

Bot(j) ==
  \/ Stamp(j) \/ Accept(j) \/ Enroll(j) \/ BotPublish(j)
  \/ Acknowledge(j) \/ MarkEnqueued(j) \/ BotLeaves(j) \/ BotStops(j)

----------------------------------------------------------------------------
(****************************************************************************)
(* The steps of an actor.  Goes(a, step) is all that most of them change     *)
(* outside the store.                                                       *)
(****************************************************************************)
GoesAlso(a, step) ==
  /\ act' = [act EXCEPT ![a] = step]
  /\ UNCHANGED <<broker, bot, charges, told, emergency, stamp>>

Goes(a, step) == GoesAlso(a, step) /\ UNCHANGED <<budget, delivered>>

\* WorkerLifecycleService.complete with an intent, and the notice that follows.
Complete(a, intent, notice) ==
  [pc |-> "prepare", job |-> act[a].job, token |-> a, intent |-> intent,
   notice |-> notice]

\* A target that lost its authorization gets no notice (feedback_allowed).
Notify(j, notice) ==
  IF notice = "NONE" \/ ~FeedbackAllowed THEN Idle
  ELSE [pc |-> "notify", job |-> j, notice |-> notice]

Doing(a, pc) == act[a].pc = pc
At(w, pc, stage) == [pc |-> pc, job |-> act[w].job, stage |-> stage]
Proceed(w, pc) == At(w, pc, act[w].stage)

\* Celery delivers a message before its expiry; a message is redelivered when
\* the acknowledgement is lost, so it may stay in the queue.
Receive(w) ==
  /\ Doing(w, "idle")
  /\ \E m \in broker :
       /\ now < Deadline[m[1]]
       /\ broker' \in {broker, broker \ {m}}
       /\ act' = [act EXCEPT ![w] = [pc |-> "received", job |-> m[1],
                                     stage |-> m[2]]]
  /\ UNCHANGED <<vars, bot, budget, charges, delivered, told, emergency, stamp>>

\* A message is lost with its broker, or dropped at its expiry.
Lose(m) ==
  /\ MayFail \/ now >= Deadline[m[1]]
  /\ broker' = broker \ {m}
  /\ UNCHANGED <<vars, act, bot, budget, charges, delivered, told, emergency, stamp>>

\* _parse_and_claim before the deadline: the claim, or nothing to do.
ClaimTask(w) ==
  LET j == act[w].job IN
  /\ Doing(w, "received")
  /\ now < Deadline[j]
  /\ \/ Claim(j, act[w].stage, w) /\ Goes(w, Proceed(w, "claimed"))
     \/ /\ ~(/\ Queued(j)
             /\ ticket[j].notBefore <= now
             /\ ticket[j].stage = act[w].stage)
        /\ Goes(w, Idle)
        /\ UNCHANGED vars

\* Fault: the outcome is written without the release of what the ticket holds.
FinishExpiredUnreleased(w) ==
  LET j == act[w].job IN
  /\ Doing(w, "received")
  /\ now >= Deadline[j]
  /\ Goes(w, Notify(j, "TIMEOUT"))
  /\ \/ /\ Queued(j)
        /\ Annotate(j, [ticket[j] EXCEPT !.state = "TERMINAL", !.outcome = "EXPIRED"])
     \/ (~Queued(j) \/ ticket[j].reserved) /\ UNCHANGED vars

\* _finish_expired_unclaimed: the failure of finish is logged and passed over.
FinishExpiredUnclaimed(w) ==
  LET j == act[w].job IN
  /\ Doing(w, "received")
  /\ now >= Deadline[j]
  /\ Goes(w, Notify(j, "TIMEOUT"))
  /\ \/ Queued(j) /\ Finish(j, "EXPIRED", NoToken)
     \/ (~Queued(j) \/ ticket[j].reserved) /\ UNCHANGED vars

\* _finish_ticket_safe, and the notice that follows.
FinishTicketSafe(w, outcome, notice) ==
  LET j == act[w].job IN
  \/ /\ ticket[j].reserved
     /\ Goes(w, Complete(w, Zero(outcome), notice))
     /\ UNCHANGED vars
  \/ /\ ~ticket[j].reserved
     /\ Finish(j, outcome, w)
     /\ Goes(w, Notify(j, notice))

\* _load_payload without a payload, or with one that cannot be read.
PayloadGone(w) ==
  /\ Doing(w, "claimed")
  /\ MayFail \/ act[w].job \notin payload
  /\ \E o \in {"EXPIRED", "PAYLOAD_UNAVAILABLE"} :
       FinishTicketSafe(w, o, "FAILURE")

Reservations == {j \in Jobs : budget[j] = "RESERVED"}

\* budgets.reserve: a new reservation, or the replay of the first stage's.
Reserve(w) ==
  LET j == act[w].job IN
  /\ Doing(w, "claimed")
  /\ j \in payload
  /\ now < Deadline[j]
  /\ \/ budget[j] = "none" /\ Cardinality(Reservations) < Cap
     \/ budget[j] = "RESERVED"
  /\ budget' = [budget EXCEPT ![j] = "RESERVED"]
  /\ GoesAlso(w, Proceed(w, "budgeted"))
  /\ UNCHANGED <<vars, delivered>>

\* _handle_denied_reservation of a reservation that must wait until retry.
Wait(w, retry) ==
  LET j == act[w].job IN
  /\ retry < Deadline[j]
  /\ \/ Defer(j, w, retry) /\ Goes(w, Notify(j, "WAIT"))
     \/ ticket[j].state = "CANCELLING" /\ FinishTicketSafe(w, "CANCELLED", "NONE")

\* A denial: the concurrency cap or a quota that frees up in time, a quota that
\* does not, an amount above the policy's burst, or a deadline that has passed.
Denied(w) ==
  LET j == act[w].job IN
  /\ Doing(w, "claimed")
  /\ j \in payload
  /\ \/ budget[j] = "none" /\ now < Deadline[j] /\ Wait(w, now + 1)
     \/ budget[j] = "none" /\ now < Deadline[j] /\ FinishTicketSafe(w, "EXPIRED", "LIMIT")
     \/ budget[j] = "none" /\ now < Deadline[j] /\ FinishTicketSafe(w, "FAILED", "LIMIT")
     \/ now >= Deadline[j] /\ FinishTicketSafe(w, "EXPIRED", "TIMEOUT")

MarkReserved(w) ==
  LET j == act[w].job IN
  /\ Doing(w, "budgeted")
  /\ Reserved(j, w)
  /\ Goes(w, IF ticket[j].state = "CANCELLING"
             THEN Complete(w, Zero("CANCELLED"), "NONE")
             ELSE Proceed(w, "reserved"))

\* Fault: only the present state of the stop is compared.
CurrentEnabled(j) == ~emergency.disabled

\* envelope_is_current
Current(j) == ~emergency.disabled /\ emergency.epoch = stamp[j]

CheckEpoch(w) ==
  /\ Doing(w, "reserved")
  /\ Goes(w, IF Current(act[w].job) THEN Proceed(w, "extracting")
             ELSE Complete(w, Zero("CANCELLED"), "NONE"))
  /\ UNCHANGED vars

\* Extraction needs a browser: the ticket is handed off, then published.
HandoffToBrowser(w) ==
  LET j == act[w].job IN
  /\ Doing(w, "extracting")
  /\ act[w].stage = "MEDIA"
  /\ \/ Handoff(j, w) /\ Goes(w, At(w, "publish", "BROWSER"))
     \/ /\ ticket[j].state = "CANCELLING"
        /\ Goes(w, Complete(w, Zero("CANCELLED"), "NONE"))
        /\ UNCHANGED vars

\* publish_stage: nothing is published past the deadline.
PublishStage(a) ==
  /\ Doing(a, "publish")
  /\ broker' = IF now < Deadline[act[a].job]
               THEN broker \union {<<act[a].job, act[a].stage>>} ELSE broker
  /\ act' = [act EXCEPT ![a] = Idle]
  /\ UNCHANGED <<vars, bot, budget, charges, delivered, told, emergency, stamp>>

\* Extraction ends: at the soft time limit, with an error, stopped by the gates
\* that are evaluated again before delivery, or with media to deliver.
Extract(w) ==
  /\ Doing(w, "extracting")
  /\ \E step \in {Complete(w, Zero("EXPIRED"), "TIMEOUT"),
                  Complete(w, Zero("FAILED"), "EXTRACTION"),
                  Complete(w, Zero("COMPLETE"), "NONE"),
                  Proceed(w, "extracted")} : Goes(w, step)
  /\ UNCHANGED vars

StartDelivery(w) ==
  LET j == act[w].job IN
  /\ Doing(w, "extracted")
  /\ \/ BeginDelivery(j, w) /\ Goes(w, Proceed(w, "sending"))
     \/ /\ ticket[j].state = "CANCELLING" \/ now >= Deadline[j]
        /\ Goes(w, Complete(w, Zero("CANCELLED"), "NONE"))
        /\ UNCHANGED vars

\* Telegram accepts the media, rejects it, or its answer is not known.
Deliver(w) ==
  LET j == act[w].job
      Accepted == delivered' = [delivered EXCEPT ![j] = @ + 1]
      Nothing == UNCHANGED delivered
  IN
  /\ Doing(w, "sending")
  /\ \/ Accepted /\ GoesAlso(w, Complete(w, Spent, "NONE"))
     \/ Nothing /\ GoesAlso(w, Complete(w, Zero("FAILED"), "NONE"))
     \/ MayFail /\ (Accepted \/ Nothing) /\ GoesAlso(w, Idle)
  /\ UNCHANGED <<vars, budget>>

----------------------------------------------------------------------------

(****************************************************************************)
(* Settlement: complete records the intent; reconcile replays the receipt,   *)
(* settles the reservation and releases the ticket.  The worker runs it      *)
(* after prepare, the sweep for any settling ticket, possibly both at once.  *)
(****************************************************************************)
PrepareSettlement(a) ==
  /\ Doing(a, "prepare")
  /\ Prepare(act[a].job, act[a].token, act[a].intent)
  /\ Goes(a, [act[a] EXCEPT !.pc = "receipt"])

\* apply_batch: an event already in the ledger is not charged again.
ApplyReceipt(a) ==
  LET j == act[a].job IN
  /\ Doing(a, "receipt")
  /\ charges' = IF act[a].intent.actual = "spent" /\ charges[j] = 0
                THEN [charges EXCEPT ![j] = @ + 1] ELSE charges
  /\ act' = [act EXCEPT ![a].pc = "consume"]
  /\ UNCHANGED <<vars, broker, bot, budget, delivered, told, emergency, stamp>>

Settled(intent) == IF intent.actual = "spent" THEN "COMMITTED" ELSE "RELEASED"

\* budgets.finish: a reservation that was expired meanwhile is a conflict.
Consume(a) ==
  LET j == act[a].job IN
  /\ Doing(a, "consume")
  /\ \/ /\ budget[j] \in {"RESERVED", Settled(act[a].intent)}
        /\ budget' = [budget EXCEPT ![j] = Settled(act[a].intent)]
        /\ GoesAlso(a, [act[a] EXCEPT !.pc = "release"])
     \/ /\ budget[j] = "EXPIRED"
        /\ GoesAlso(a, Idle)
        /\ UNCHANGED budget
  /\ UNCHANGED <<vars, delivered>>

\* finish of the settled ticket, or the replay of a finish already made.
ReleaseTicket(a) ==
  LET j == act[a].job IN
  /\ Doing(a, "release")
  /\ \/ Finish(j, act[a].intent.outcome, act[a].token)
     \/ ticket[j].state = "TERMINAL" /\ UNCHANGED vars
  /\ Goes(a, Notify(j, act[a].notice))

\* _notify: the claim, then the send, which may be lost.
SendNotice(a) ==
  LET j == act[a].job  notice == act[a].notice IN
  /\ Doing(a, "notify")
  /\ act' = [act EXCEPT ![a] = Idle]
  /\ \/ /\ ClaimNotice(j, KindOf(notice))
        /\ told' \in IF MayFail THEN {told, [told EXCEPT ![j] = @ \union {notice}]}
                     ELSE {[told EXCEPT ![j] = @ \union {notice}]}
     \/ /\ ~NoticeDue(j, KindOf(notice))
        /\ UNCHANGED <<vars, told>>
  /\ UNCHANGED <<broker, bot, budget, charges, delivered, emergency, stamp>>

\* A call fails: the exception ends the task with a failure notice.
Raises(w) ==
  /\ MayFail
  /\ act[w].pc \notin {"idle", "notify", "sending"}
  /\ Goes(w, Notify(act[w].job, "FAILURE"))
  /\ UNCHANGED vars

\* The process is killed, at its hard time limit or by a crash.
Stops(a) ==
  /\ ~Doing(a, "idle")
  /\ Goes(a, Idle)
  /\ UNCHANGED vars

Worker(w) ==
  \/ Receive(w) \/ ClaimTask(w) \/ FinishExpiredUnclaimed(w) \/ PayloadGone(w)
  \/ Reserve(w) \/ Denied(w) \/ MarkReserved(w) \/ CheckEpoch(w)
  \/ HandoffToBrowser(w) \/ Extract(w) \/ StartDelivery(w) \/ Deliver(w)
  \/ PrepareSettlement(w)

Shared(a) ==
  \/ PublishStage(a) \/ ApplyReceipt(a) \/ Consume(a) \/ ReleaseTicket(a)
  \/ SendNotice(a)

----------------------------------------------------------------------------
(****************************************************************************)
(* The recovery sweep.                                                      *)
(****************************************************************************)

\* recovery_page: the tickets of the page are read before any is recovered.
\* Owned work is passed over: its owner may still be running.
Page(j) ==
  /\ Doing(Sweeper, "idle")
  /\ j \in pending
  /\ \/ /\ ticket[j].state = "SETTLING"
        /\ Goes(Sweeper, [pc |-> "settling", job |-> j])
     \/ /\ Queued(j)
        /\ Goes(Sweeper, [pc |-> "queued", job |-> j, stage |-> ticket[j].stage,
                          attempt |-> ticket[j].attempt,
                          notBefore |-> ticket[j].notBefore])
  /\ UNCHANGED vars

\* reconcile reads the settlement again before it replays it.
Replaying(j) ==
  [pc |-> "receipt", job |-> j, token |-> ticket[j].token,
   intent |-> ticket[j].settlement, notice |-> "NONE"]

\* Fault: settlement is left to the owner, which may be gone.
LeaveSettling ==
  /\ Doing(Sweeper, "settling")
  /\ Goes(Sweeper, Idle)
  /\ UNCHANGED vars

RecoverSettling ==
  LET j == act[Sweeper].job IN
  /\ Doing(Sweeper, "settling")
  /\ Goes(Sweeper, IF ticket[j].state = "SETTLING" THEN Replaying(j) ELSE Idle)
  /\ UNCHANGED vars

\* claim_stage with the token "expiry", then the settlement it may need.
RecoverExpired ==
  LET j == act[Sweeper].job IN
  /\ Doing(Sweeper, "queued")
  /\ now >= Deadline[j]
  /\ \/ /\ Expire(j)
        /\ Goes(Sweeper, IF ticket[j].reserved
                         THEN [pc |-> "receipt", job |-> j, token |-> RecoveryToken,
                               intent |-> Zero("EXPIRED"), notice |-> "NONE"]
                         ELSE Idle)
     \/ /\ ~Queued(j)
        /\ Goes(Sweeper, IF ticket[j].state = "SETTLING" THEN Replaying(j) ELSE Idle)
        /\ UNCHANGED vars

RecoverQueued ==
  LET j == act[Sweeper].job IN
  /\ Doing(Sweeper, "queued")
  /\ now < Deadline[j]
  /\ \/ /\ act[Sweeper].notBefore <= now
        /\ Republish(j, act[Sweeper].stage, act[Sweeper].attempt)
        /\ Goes(Sweeper, At(Sweeper, "publish", act[Sweeper].stage))
     \/ /\ ~(/\ act[Sweeper].notBefore <= now
             /\ Queued(j)
             /\ Matches(j, act[Sweeper].stage, act[Sweeper].attempt)
             /\ ticket[j].notBefore <= now
             /\ ticket[j].retryAt <= now)
        /\ Goes(Sweeper, Idle)
        /\ UNCHANGED vars

\* _notify_expired_notices: feedback for queued work past its deadline.
NotifyExpired(j) ==
  /\ Doing(Sweeper, "idle")
  /\ Queued(j)
  /\ now >= Deadline[j]
  /\ Goes(Sweeper, Notify(j, "TIMEOUT"))
  /\ UNCHANGED vars

Recover == RecoverSettling \/ RecoverExpired \/ RecoverQueued

\* _clear_feature: cancel what can be, in every sweep while disabled.
ClearCancel(j) ==
  /\ emergency.disabled
  /\ Cancel(j)
  /\ UNCHANGED jobVars

\* A cancelled owner past its deadline loses its ciphertext; budgets.finish is
\* called with no amounts, which is refused, so its reservation stays.
ClearDrop(j) ==
  /\ emergency.disabled
  /\ ticket[j].state = "CANCELLING"
  /\ now >= Deadline[j]
  /\ payload' = payload \ {j}
  /\ UNCHANGED <<ticket, totals, subject, ingress, dedupe, handoff, pending,
                 rotation, lane, now, jobVars>>

\* budgets.expire_stale
ExpireStale(j) ==
  /\ budget[j] = "RESERVED"
  /\ now >= Deadline[j] + Grace
  /\ budget' = [budget EXCEPT ![j] = "EXPIRED"]
  /\ UNCHANGED <<vars, broker, act, bot, charges, delivered, told, emergency, stamp>>

----------------------------------------------------------------------------
\* An administrator stops or enables the feature; every transition advances the
\* epoch, one to the present state too.
SetEmergency ==
  /\ emergency.epoch < MaxEpoch
  /\ emergency' \in [disabled : BOOLEAN, epoch : {emergency.epoch + 1}]
  /\ UNCHANGED <<vars, broker, act, bot, budget, charges, delivered, told, stamp>>

\* The payload key expires on its own.
PayloadExpires(j) == PayloadLapse(j) /\ UNCHANGED jobVars

\* A task is killed by its hard time limit, min(execution, remaining) seconds
\* after it starts, which is before the grace of its reservation ends.
Passes ==
  /\ Tick
  /\ \A w \in Workers :
       ~Doing(w, "idle") => now + 1 < Deadline[act[w].job] + Grace
  /\ UNCHANGED jobVars

JobNext ==
  \/ Passes
  \/ SetEmergency
  \/ \E j \in Jobs :
       \/ Bot(j) \/ Page(j) \/ NotifyExpired(j) \/ ClearCancel(j) \/ ClearDrop(j)
       \/ ExpireStale(j) \/ PayloadExpires(j)
  \/ \E m \in broker : Lose(m)
  \/ \E w \in Workers : Worker(w) \/ Raises(w)
  \/ \E a \in Actors : Shared(a)
  \/ \E a \in Crashing : Stops(a)
  \/ Recover

JobSpec == JobInit /\ [][JobNext]_allVars

----------------------------------------------------------------------------
(****************************************************************************)
(* What the composition promises.                                           *)
(****************************************************************************)
Notices == TerminalNotices \union {"WAIT", "FAILURE"}

\* What an actor may be doing, with what it remembers.
WorkerPcs == {"received", "claimed", "budgeted", "reserved", "extracting",
              "extracted", "sending", "publish"}
SettlementPcs == {"prepare", "receipt", "consume", "release"}
WorkSteps == [pc : WorkerPcs, job : Jobs, stage : Stages]
SettlementSteps ==
  [pc : SettlementPcs, job : Jobs, token : Tokens \union {NoToken, RecoveryToken},
   intent : Intents, notice : Notices \union {"NONE"}]
NoticeSteps == [pc : {"notify"}, job : Jobs, notice : Notices]
SettlingSteps == [pc : {"settling"}, job : Jobs]
QueuedSteps ==
  [pc : {"queued"}, job : Jobs, stage : Stages, attempt : Nat, notBefore : Nat]
Steps == {Idle} \union WorkSteps \union SettlementSteps \union NoticeSteps
           \union SettlingSteps \union QueuedSteps
BotSteps == [pc : {"new", "stamped", "accepted", "done"}]
              \union [pc : {"publish", "ack", "mark"}, stage : Stages, attempt : Nat]

JobTypeOK ==
  /\ TypeOK
  /\ broker \subseteq Jobs \X Stages
  /\ act \in [Actors -> Steps]
  /\ bot \in [Jobs -> BotSteps]
  /\ budget \in [Jobs -> {"none", "RESERVED", "COMMITTED", "RELEASED", "EXPIRED"}]
  /\ charges \in [Jobs -> Nat]
  /\ delivered \in [Jobs -> Nat]
  /\ told \in [Jobs -> SUBSET Notices]
  /\ emergency \in [disabled : BOOLEAN, epoch : Nat]
  /\ stamp \in [Jobs -> Nat]

\* The actors change tickets only as the store's transactions allow: all that
\* is shown of Admission.tla holds of the tickets of this program.
UsesStore == Spec

Executing == {"claimed", "budgeted", "reserved", "extracting", "extracted", "sending"}
Executors(j) == {w \in Workers : act[w].pc \in Executing /\ act[w].job = j}

\* Duplicate messages, republication and browser handoff never put two workers
\* on one job, and the one there is owns the ticket.
OneExecutor ==
  \A j \in Jobs : \A w \in Executors(j) :
    /\ Executors(j) = {w}
    /\ ticket[j].state \in OwnedStates
    /\ ticket[j].token = w

\* Media is sent at most once for a job, whatever is redelivered or retried.
AtMostOneDelivery == \A j \in Jobs : delivered[j] <= 1

\* Media that reached Telegram is never refunded: until its settlement is
\* recorded the ticket says that delivery may have happened, and the settlement
\* consumes.  Nothing is charged that was not delivered.
EffectsAccounted ==
  \A j \in Jobs :
    /\ delivered[j] = 1 => \/ ticket[j].state = "DELIVERY_UNCERTAIN"
                           \/ ticket[j].settlement = Spent
    /\ charges[j] <= delivered[j]

\* Recovery and owner settle in one order: the receipt, the reservation, then
\* the capacity of the ticket.
SettledInOrder ==
  \A j \in Jobs :
    /\ budget[j] = "COMMITTED" => charges[j] = 1
    /\ ticket[j].state = "TERMINAL" => budget[j] # "RESERVED"
    /\ ticket[j].state = "TERMINAL" => charges[j] = delivered[j]

\* Extraction and delivery run only under a live reservation, so that the
\* concurrency cap bounds what is executed and not only what is counted.
ExecutionReserved ==
  \A w \in Workers :
    act[w].pc \in {"reserved", "extracting", "extracted", "sending"} =>
      budget[act[w].job] = "RESERVED"

\* Two workers never execute one job, and what executes holds a reservation.
WorkersSound == JobTypeOK /\ OneExecutor /\ ExecutionReserved

\* Delivered at most once and charged for what was delivered, in the order in
\* which recovery and owner settle, whatever crashes in between.
DeliverySound == AtMostOneDelivery /\ EffectsAccounted /\ SettledInOrder

\* Work whose epoch has passed and that no worker has begun to extract never is
\* extracted or delivered, not even after the feature is enabled again: neither
\* an admission that raced the stop nor a message still in the queue revives it.
Begun(j) ==
  \E w \in Workers : /\ act[w].pc \in {"extracting", "extracted", "sending"}
                     /\ act[w].job = j
Stale(j) ==
  /\ bot[j].pc # "new"
  /\ emergency.epoch # stamp[j]
  /\ ~Begun(j)
  /\ delivered[j] = 0

StaleNeverRuns == [][\A j \in Jobs : Stale(j) => Stale(j)']_allVars

\* Once a job is cancelled, settling or finished nothing more is sent for it.
NoLateDelivery ==
  [][\A j \in Jobs :
       ticket[j].state \in {"CANCELLING", "SETTLING", "TERMINAL"} =>
         delivered'[j] = delivered[j]]_allVars

----------------------------------------------------------------------------
(****************************************************************************)
(* Fairness: Beat starts sweeps forever and a sweep's page rotates through   *)
(* all pending tickets.  A worker's task ends: it is killed at its hard time *)
(* limit.                                                                    *)
(****************************************************************************)
JobFairness ==
  /\ WF_allVars(Passes)
  /\ \A w \in Workers : WF_allVars(Worker(w) \/ Shared(w))
  /\ WF_allVars(Recover \/ Shared(Sweeper))
  /\ \A j \in Jobs : SF_allVars(Page(j))
  /\ \A j \in Jobs : SF_allVars(NotifyExpired(j))

JobFairSpec == JobSpec /\ JobFairness

\* Accepted work does not stay queued or half settled: in the end it is
\* terminal, or held by an owner that stopped without recording its effects.
HeldStates == {"RUNNING", "CANCELLING", "DELIVERY_UNCERTAIN"}

Resolves ==
  \A j \in Jobs :
    Active(j) ~> [](ticket[j].state \in HeldStates \union {"TERMINAL"})

=============================================================================
