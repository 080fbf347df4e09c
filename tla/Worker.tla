------------------------------- MODULE Worker -------------------------------
(***************************************************************************)
(* The processes of the workers: how a child gets its resources and hooks, *)
(* what it finds of an encrypted payload, how it talks to Telegram when it *)
(* delivers, and the database transaction that charges what was delivered. *)
(*                                                                         *)
(* Tickets are Admission's, claims and recovery FeatureJobs'; of a job only*)
(* what these parts tell apart is kept here.                               *)
(***************************************************************************)
EXTENDS Naturals, Sequences, FiniteSets, SequencesExt

CONSTANTS
  Children,      \* worker processes
  Jobs,          \* feature jobs
  Content,       \* of each job: its media items and whether its text needs a message of its own
  Charges,       \* of each job: the amount, and the buckets in the order of the event
  Capacity,      \* the largest amount an aggregate can hold
  GroupSize,     \* media items in one request to Telegram
  BrowserEnabled,
  MaxAttempts,   \* attempts at one database transaction
  Deadline,      \* of every job, in half seconds
  Cleanup,       \* seconds for which a payload outlives its deadline
  Horizon,       \* bound: half seconds
  MaxForks       \* bound: children forked

Roles == {"media", "browser", "operations", "all"}
Buckets == UNION {ToSet(Charges[j].buckets) : j \in Jobs}

ASSUME WorkerAssumption ==
  /\ IsFiniteSet(Jobs)
  /\ \A j \in Jobs :
       /\ Content[j].items \in Nat /\ Content[j].videos \subseteq 1..Content[j].items
       /\ Content[j].separate \in BOOLEAN
       /\ Charges[j].amount \in 1..Capacity
       /\ Charges[j].buckets \in Seq(Buckets) \ {<< >>} /\ IsInjective(Charges[j].buckets)
  /\ {GroupSize, MaxAttempts, Deadline} \subseteq Nat \ {0}
  /\ {Capacity, Cleanup, Horizon, MaxForks} \subseteq Nat
  /\ BrowserEnabled \in BOOLEAN

VARIABLES
  now,
  child,      \* role, resources, hooks and the work of each process
  job,        \* of each job: where it is, its stage, whether a message is queued, its payload
  receipts,   \* jobs with a committed accounting receipt
  sums,       \* committed aggregates
  forks

vars == <<now, child, job, receipts, sums, forks>>

Idle == [at |-> "idle"]
Down == [role |-> "none", has |-> {}, hooks |-> {}, work |-> Idle]
NoJob == [at |-> "none", stage |-> "media", queued |-> FALSE, lapse |-> 0]
----------------------------------------------------------------------------
(* Resources, in the order in which they are opened for a role.            *)

FeatureRoles == {"media", "browser", "all"}
OperationsRoles == {"operations", "all"}

Opened(role) ==
  <<"database", "runtime", "http">>
  \o (IF role \in OperationsRoles THEN <<"operations">> ELSE << >>)
  \o (IF role = "browser" \/ (role = "all" /\ BrowserEnabled) THEN <<"browser">> ELSE << >>)
  \o (IF role \in FeatureRoles THEN <<"publisher", "runner">> ELSE << >>)

Hooks(role) ==
  {"recovery"} \cup (IF role \in FeatureRoles THEN {"features"} ELSE {})
               \cup (IF role \in OperationsRoles THEN {"operations"} ELSE {})

\* Fault: the hooks are set before the resources are opened.
InitialiseHooksFirst(c, role, n) ==
  child' = [child EXCEPT ![c] = [role |-> role, has |-> ToSet(SubSeq(Opened(role), 1, n)),
                                 hooks |-> Hooks(role), work |-> Idle]]

(* init_worker_child: a failure is logged by Celery, the process goes on   *)
(* and takes tasks, without a hook for any of them.                        *)
Initialise(c, role, n) ==
  child' = [child EXCEPT ![c] = [role |-> role, has |-> ToSet(SubSeq(Opened(role), 1, n)),
                                 hooks |-> IF n = Len(Opened(role)) THEN Hooks(role) ELSE {}, work |-> Idle]]

Fork(c, role, n) ==
  /\ child[c] = Down /\ n <= Len(Opened(role))
  /\ forks < MaxForks /\ forks' = forks + 1
  /\ Initialise(c, role, n)
  /\ UNCHANGED <<now, job, receipts, sums>>

(* Shut down between tasks; close does nothing for a context that was      *)
(* never fully opened, the process ends all the same.                      *)
Shutdown(c) ==
  /\ child[c] # Down /\ child[c].work = Idle
  /\ child' = [child EXCEPT ![c] = Down]
  /\ UNCHANGED <<now, job, receipts, sums, forks>>
----------------------------------------------------------------------------
(* The encrypted payload of a job.                                         *)

Ceil(half) == (half + 1) \div 2

(* Seconds a payload is kept, by the half seconds left to its deadline.    *)
Retention(left) == Ceil(left) + Cleanup

(* Sealed before its deadline only, and written once.                      *)
Seal(j) ==
  /\ job[j] = NoJob /\ now < Deadline
  /\ job' = [job EXCEPT ![j] = [at |-> "ready", stage |-> "media", queued |-> TRUE,
                                lapse |-> now + 2 * Retention(Deadline - now)]]
  /\ UNCHANGED <<now, child, receipts, sums, forks>>

Present(j) == now < job[j].lapse

(* A deadline that has passed is told from a record that is gone; the      *)
(* store may not answer, and a record may not be readable.                 *)
Loads(j) ==
  {"unavailable"} \cup
  IF ~Present(j) THEN {"missing"} ELSE IF Deadline <= now THEN {"expired"} ELSE {"ready", "unreadable"}
----------------------------------------------------------------------------
(* The tasks of a child.                                                   *)

Sets(c, work) == child' = [child EXCEPT ![c].work = work]
Becomes(j, at) == job' = [job EXCEPT ![j].at = at]
Stops(c, j, at) == Sets(c, Idle) /\ Becomes(j, at)

Serves(role, stage) == role \in {stage, "all"}

(* Acknowledged late, but acknowledged when the task raises: without a     *)
(* hook the message is gone and the job waits for the recovery.  A message *)
(* that is late is discarded by Celery, or its job is ended by the runner. *)
Take(c, j) ==
  /\ child[c].work = Idle /\ Serves(child[c].role, job[j].stage) /\ job[j].queued
  /\ IF "features" \notin child[c].hooks \/ job[j].at # "ready"
     THEN job' = [job EXCEPT ![j].queued = FALSE] /\ UNCHANGED child
     ELSE IF now >= Deadline
     THEN /\ \E at \in {"ready", "failed"} : job' = [job EXCEPT ![j].queued = FALSE, ![j].at = at]
          /\ UNCHANGED child
     ELSE /\ job' = [job EXCEPT ![j].queued = FALSE, ![j].at = "running"]
          /\ Sets(c, [at |-> "load", job |-> j])
  /\ UNCHANGED <<now, receipts, sums, forks>>

Load(c, state) ==
  /\ child[c].work.at = "load"
  /\ LET j == child[c].work.job IN
     /\ state \in Loads(j)
     /\ IF state = "ready" THEN Sets(c, [at |-> "extract", job |-> j]) /\ UNCHANGED job
        ELSE Stops(c, j, "failed")
  /\ UNCHANGED <<now, receipts, sums, forks>>

Delivery(j) ==
  [at |-> IF Content[j].items = 0 THEN "text" ELSE IF Content[j].separate THEN "separate" ELSE "group",
   job |-> j, left |-> 1..Content[j].items, shown |-> {}, told |-> {}]

(* publish_stage: nothing is published whose time is over.                 *)
Published(sent) == sent /\ now < Deadline

(* A page that needs a browser is handed to the other queue, if there is   *)
(* one; publishing may fail after the ticket was handed over.              *)
HandOver(c, sent) ==
  /\ child[c].work.at = "extract"
  /\ LET j == child[c].work.job IN
     /\ job[j].stage = "media"
     /\ job' = [job EXCEPT ![j].at = IF BrowserEnabled THEN "ready" ELSE "failed",
                           ![j].stage = IF BrowserEnabled THEN "browser" ELSE @,
                           ![j].queued = BrowserEnabled /\ Published(sent)]
  /\ Sets(c, Idle)
  /\ UNCHANGED <<now, receipts, sums, forks>>

(* The gates between extraction and delivery are FeatureJobs' and Access'. *)
Extract(c, ok) ==
  /\ child[c].work.at = "extract"
  /\ LET j == child[c].work.job
         possible == job[j].stage = "browser" => BrowserEnabled /\ "browser" \in child[c].has IN
     IF ok /\ possible THEN Sets(c, Delivery(j)) /\ Becomes(j, "uncertain") ELSE Stops(c, j, "failed")
  /\ UNCHANGED <<now, receipts, sums, forks>>
----------------------------------------------------------------------------
(* The delivery. Telegram does what it is asked or refuses; the answer may *)
(* be lost, or malformed and name some of its messages or none: then what  *)
(* happened is uncertain.                                                  *)

Refusals == {"too large", "fetch", "other"}
Doubts == {"short", "lost"}
Answers == {"ok"} \cup Refusals \cup Doubts
Done(answer) == answer \in {"ok", "short"}

Posting == {"separate", "text", "group", "placeholder", "upload", "edit", "notice", "delete"}

(* The first items of those that are left.                                 *)
Batch(w) == {i \in w.left : Cardinality({k \in w.left : k < i}) < GroupSize}

Placeholder == <<"placeholder", 0>>
Messages(w) ==
  CASE w.at \in {"group", "upload"} -> {"item"} \X Batch(w)
    [] w.at = "edit" -> {Placeholder}
    [] w.at = "delete" -> {}
    [] OTHER -> {<<w.at, 0>>}

(* extract_message_ids: what the answer names; a short one not everything. *)
Named(w, answer) ==
  IF answer = "ok" THEN Messages(w)
  ELSE IF answer = "short" /\ w.at \in {"group", "upload"} THEN {"item"} \X {i \in Batch(w) : \E k \in Batch(w) : i < k}
  ELSE {}

AfterGroups(w) == IF w.at = "upload" THEN "delete" ELSE "complete"

(* The next request, or the end, once a request was accepted.              *)
Accepted(w) ==
  CASE w.at = "separate" -> [w EXCEPT !.at = "group"]
    [] w.at \in {"group", "upload"} ->
         [w EXCEPT !.left = @ \ Batch(w), !.at = IF w.left = Batch(w) THEN AfterGroups(w) ELSE @]
    [] w.at = "placeholder" -> [w EXCEPT !.at = "download"]
    [] OTHER -> [w EXCEPT !.at = "complete"]

Items(w) == {m \in w.told : m[1] = "item"}

\* Fault: links that Telegram cannot fetch are uploaded whatever was sent before.
RefusedAnyway(w, reason) ==
  IF w.at = "group" /\ reason = "fetch" THEN [w EXCEPT !.at = "placeholder", !.left = 1..Content[w.job].items]
  ELSE [w EXCEPT !.at = IF w.told = {} THEN "failed" ELSE "uncertain"]

(* Only a first group that was refused has another way; anything else is   *)
(* a failure if nothing is shown, and uncertain if something is.           *)
Refused(w, reason) ==
  CASE w.at = "group" /\ Items(w) = {} /\ reason = "fetch" -> [w EXCEPT !.at = "placeholder"]
    [] w.at = "group" /\ Items(w) = {} /\ reason = "too large" -> [w EXCEPT !.at = "notice"]
    [] w.at = "upload" /\ Items(w) = {} -> [w EXCEPT !.at = "edit"]
    [] OTHER -> [w EXCEPT !.at = IF w.told = {} THEN "failed" ELSE "uncertain"]

Outcome(w, answer) ==
  LET e == [w EXCEPT !.shown = @ \cup (IF Done(answer) THEN Messages(w) ELSE {}),
                     !.told = @ \cup Named(w, answer)] IN
  IF w.at = "delete" THEN [w EXCEPT !.at = "complete", !.told = @ \ {Placeholder},
                                    !.shown = IF Done(answer) THEN @ \ {Placeholder} ELSE @]
  ELSE CASE answer = "ok" -> Accepted(e)
         [] answer \in Refusals -> Refused(e, answer)
         [] OTHER -> [e EXCEPT !.at = "uncertain"]

Ends(c, w) ==
  CASE w.at = "failed" -> Stops(c, w.job, "failed")
    [] w.at = "uncertain" -> Sets(c, Idle) /\ UNCHANGED job
    [] OTHER -> Sets(c, w) /\ UNCHANGED job

Post(c, answer) ==
  /\ child[c].work.at \in Posting
  /\ Ends(c, Outcome(child[c].work, answer))
  /\ UNCHANGED <<now, receipts, sums, forks>>

(* A link gives bytes, or a playlist, or nothing; a video has another      *)
(* downloader for the last two.                                            *)
Downloads(j, i) ==
  IF i \in Content[j].videos
  THEN {IF direct = "bytes" THEN direct ELSE other : direct \in {"bytes", "playlist", "failure"},
                                                   other \in {"bytes", "failure"}}
  ELSE {"bytes", "failure"}

(* Items that fail are left out; without any the placeholder says so.      *)
Download(c) ==
  /\ child[c].work.at = "download"
  /\ LET w == child[c].work IN
     \E kept \in SUBSET w.left :
       /\ \A i \in w.left : (IF i \in kept THEN "bytes" ELSE "failure") \in Downloads(w.job, i)
       /\ Sets(c, [w EXCEPT !.left = kept, !.at = IF kept = {} THEN "edit" ELSE "upload"])
  /\ UNCHANGED <<now, job, receipts, sums, forks>>
----------------------------------------------------------------------------
(* The accounting of a delivery: one transaction of the receipt, then the  *)
(* aggregates in the order of the event.                                   *)

Transaction(j, attempt) ==
  [at |-> "claim", job |-> j, attempt |-> attempt, left |-> Charges[j].buckets, rows |-> {}]
Writing == {"claim", "charge", "commit"}

(* The settlement is fixed in the ticket, or it is not and never will be.  *)
Complete(c, prepared) ==
  /\ child[c].work.at = "complete"
  /\ LET j == child[c].work.job IN
     IF prepared THEN Sets(c, Transaction(j, 1)) /\ Becomes(j, "settling")
     ELSE Sets(c, Idle) /\ UNCHANGED job
  /\ UNCHANGED <<now, receipts, sums, forks>>

Holds(c, row) == child[c].work.at \in Writing /\ row \in child[c].work.rows
Free(c, row) == \A o \in Children \ {c} : ~Holds(o, row)

\* Fault: the receipt is written in a transaction of its own.
ClaimAtOnce(c) ==
  /\ child[c].work.at = "claim"
  /\ LET w == child[c].work IN
     /\ IF w.job \in receipts THEN Stops(c, w.job, "charged")
        ELSE Sets(c, [w EXCEPT !.at = "charge"]) /\ UNCHANGED job
     /\ receipts' = receipts \cup {w.job}
  /\ UNCHANGED <<now, sums, forks>>

(* The insertion waits for another of the same event; a receipt that is    *)
(* there is of the same charges, and nothing is added.                     *)
Claim(c) ==
  /\ child[c].work.at = "claim"
  /\ LET w == child[c].work IN
     /\ Free(c, <<"event", w.job>>)
     /\ IF w.job \in receipts THEN Stops(c, w.job, "charged")
        ELSE Sets(c, [w EXCEPT !.at = "charge", !.rows = {<<"event", w.job>>}]) /\ UNCHANGED job
  /\ UNCHANGED <<now, receipts, sums, forks>>

(* The row of an aggregate is held until the end; one that would overflow  *)
(* aborts it all.                                                          *)
Charge(c) ==
  /\ child[c].work.at = "charge"
  /\ LET w == child[c].work  b == Head(w.left) IN
     /\ Free(c, <<"sum", b>>)
     /\ IF sums[b] > Capacity - Charges[w.job].amount THEN Sets(c, Idle)
        ELSE Sets(c, [w EXCEPT !.left = Tail(@), !.rows = @ \cup {<<"sum", b>>},
                               !.at = IF Len(w.left) = 1 THEN "commit" ELSE @])
  /\ UNCHANGED <<now, job, receipts, sums, forks>>

(* What is committed stays so when the answer is lost.                     *)
Commit(c, answered) ==
  /\ child[c].work.at = "commit"
  /\ LET j == child[c].work.job IN
     /\ receipts' = receipts \cup {j}
     /\ sums' = [b \in Buckets |-> IF b \in ToSet(Charges[j].buckets) THEN sums[b] + Charges[j].amount ELSE sums[b]]
     /\ IF answered THEN Stops(c, j, "charged") ELSE Sets(c, Idle) /\ UNCHANGED job
  /\ UNCHANGED <<now, forks>>

(* Rolled back: a conflict is tried again, any other error is raised.      *)
Abort(c, conflict) ==
  /\ child[c].work.at \in Writing
  /\ LET w == child[c].work IN
     Sets(c, IF conflict /\ w.attempt < MaxAttempts THEN Transaction(w.job, w.attempt + 1) ELSE Idle)
  /\ UNCHANGED <<now, job, receipts, sums, forks>>

(* The sweep is sent to the queue of operations: a settlement is replayed, *)
(* a job is published again, or ended once it is too late.              *)
Recover(c, j) ==
  /\ child[c].work = Idle /\ child[c].role \in OperationsRoles
  /\ "recovery" \in child[c].hooks
  /\ IF job[j].at = "settling" THEN Sets(c, Transaction(j, 1)) /\ UNCHANGED job
     ELSE /\ job[j].at = "ready" /\ UNCHANGED child
          /\ job' = IF now < Deadline THEN [job EXCEPT ![j].queued = TRUE] ELSE [job EXCEPT ![j].at = "failed"]
  /\ UNCHANGED <<now, receipts, sums, forks>>

(* Any other task of the schedule: Notices, Membership and Settings.       *)
Maintain(c) ==
  /\ child[c].work = Idle /\ "operations" \in child[c].hooks
  /\ Sets(c, [at |-> "maintenance"])
  /\ UNCHANGED <<now, job, receipts, sums, forks>>

Maintained(c) ==
  /\ child[c].work.at = "maintenance" /\ Sets(c, Idle)
  /\ UNCHANGED <<now, job, receipts, sums, forks>>
----------------------------------------------------------------------------
(* The process is killed at the hard time limit, or for its memory; at the *)
(* soft limit the task ends with an error. A delivery stays uncertain.     *)
Interrupted(c) ==
  IF child[c].work.at \in {"load", "extract"} THEN Becomes(child[c].work.job, "abandoned") ELSE UNCHANGED job

Kill(c) ==
  /\ child[c] # Down /\ child' = [child EXCEPT ![c] = Down] /\ Interrupted(c)
  /\ UNCHANGED <<now, receipts, sums, forks>>

SoftLimit(c) ==
  /\ child[c].work.at \notin {"idle", "maintenance"} /\ Sets(c, Idle) /\ Interrupted(c)
  /\ UNCHANGED <<now, receipts, sums, forks>>

(* Time matters to jobs that were not loaded yet.                          *)
Tick ==
  /\ \E j \in Jobs : job[j].at \in {"none", "ready", "running"}
  /\ now < Horizon /\ now' = now + 1 /\ UNCHANGED <<child, job, receipts, sums, forks>>
----------------------------------------------------------------------------
Init ==
  /\ now = 0 /\ child = [c \in Children |-> Down] /\ job = [j \in Jobs |-> NoJob]
  /\ receipts = {} /\ sums = [b \in Buckets |-> 0] /\ forks = 0

Next ==
  \/ Tick \/ \E j \in Jobs : Seal(j)
  \/ \E c \in Children :
       \/ \E role \in Roles : \E n \in 0..Len(Opened(role)) : Fork(c, role, n)
       \/ Shutdown(c) \/ Kill(c) \/ SoftLimit(c)
       \/ \E j \in Jobs : Take(c, j) \/ Recover(c, j)
       \/ \E state \in {"ready", "missing", "expired", "unavailable", "unreadable"} : Load(c, state)
       \/ \E yes \in BOOLEAN : HandOver(c, yes) \/ Extract(c, yes) \/ Complete(c, yes)
                               \/ Commit(c, yes) \/ Abort(c, yes)
       \/ \E answer \in Answers : Post(c, answer)
       \/ Download(c) \/ Claim(c) \/ Charge(c) \/ Maintain(c) \/ Maintained(c)

Spec == Init /\ [][Next]_vars
----------------------------------------------------------------------------
(* What the delivery reports is what the chat saw: a failure shows nothing *)
(* and may be told as one, nothing is shown twice, and after a success     *)
(* every message that stays was named, but for a placeholder that could    *)
(* not be deleted (NativeTelegramDelivery.deliver).                        *)
EffectsReported == [][
  \A c \in Children :
    LET w == child[c].work  v == child'[c].work IN
    /\ w.at \in Posting => (job'[w.job].at = "failed" => w.shown = {})
    /\ w.at \in {"group", "upload"} => w.shown \cap Messages(w) = {}
    /\ v.at = "complete" /\ w.at # "complete" => v.told # {} /\ v.shown \ v.told \subseteq {Placeholder} ]_vars

(* Aggregates are the charges of the events with a receipt, each counted   *)
(* once, however often its transaction was tried, replayed or cut off, and *)
(* they never overflow (UsageLedgerRepository, WorkerUsageLedgerStore).    *)
Units(b, events) == UNION {{j} \X (1..Charges[j].amount) : j \in {j \in events : b \in ToSet(Charges[j].buckets)}}
ChargedOnce ==
  /\ \A b \in Buckets :
       /\ sums[b] <= Capacity
       /\ sums[b] = Cardinality(Units(b, receipts))
  /\ \A j \in Jobs : /\ job[j].at = "charged" => j \in receipts
                     /\ j \in receipts => job[j].at \in {"settling", "charged"}

(* A task runs in a process that has what the task uses, whatever failed   *)
(* while the process was set up (WorkerChildContext.open).                 *)
Needs(w) ==
  CASE w.at = "idle" -> {}
    [] w.at = "maintenance" -> {"database", "runtime", "http", "operations"}
    [] w.at = "load" -> {"runtime", "runner"}
    [] w.at \in Writing -> {"database", "runtime"}
    [] OTHER -> {"http", "runner"}
RunsEquipped == \A c \in Children : Needs(child[c].work) \subseteq child[c].has

(* Until its deadline a payload that was sealed is there for the worker: a *)
(* record that is missing is of a job that has expired (feature_payloads). *)
PayloadOutlivesJob == \A j \in Jobs : job[j] # NoJob /\ now < Deadline => "missing" \notin Loads(j)

\* Processes, jobs and the ledger; whatever a process does but maintenance is about a job.
TypeOK ==
  /\ now \in 0..Horizon /\ forks \in 0..MaxForks
  /\ \A c \in Children :
       /\ child[c].role \in Roles \cup {"none"}
       /\ child[c].has \subseteq UNION {ToSet(Opened(r)) : r \in Roles}
       /\ child[c].hooks \subseteq {"recovery", "features", "operations"}
       /\ child[c].work.at \in {"idle", "maintenance"} \/ child[c].work.job \in Jobs
  /\ job \in [Jobs -> [at : {"none", "ready", "running", "uncertain", "settling", "charged", "failed", "abandoned"},
                       stage : {"media", "browser"}, queued : BOOLEAN, lapse : Nat]]
  /\ receipts \subseteq Jobs /\ sums \in [Buckets -> Nat]

\* A task that runs has what it needs: the resources of its process and, until the deadline, the
\* payload that was sealed for it.
RunsProvided == TypeOK /\ RunsEquipped /\ PayloadOutlivesJob
=============================================================================
