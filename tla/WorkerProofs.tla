---------------------------- MODULE WorkerProofs ----------------------------
(***************************************************************************)
(* Proofs about the processes of the workers, for every number of them and *)
(* of jobs, every content and charge, and whatever fails, is killed, is    *)
(* refused or left unanswered; and, in the second half, about the          *)
(* transactions of the stores and the locks they declare, whatever calls   *)
(* are made and whatever is stored when they start.                        *)
(***************************************************************************)
EXTENDS Worker, Locks, FiniteSetTheorems, SequenceTheorems, WellFoundedInduction, TLAPS

(***************************************************************************)
(* What a process does is of one of these forms.                           *)
(***************************************************************************)
Delivering == Posting \cup {"download", "complete"}
Serving == {"load", "extract"} \cup Delivering
Message == ({"item"} \X Nat) \cup (Posting \X {0})
LockedRow == ({"event"} \X Jobs) \cup ({"sum"} \X Buckets)

RestWork == [at : {"idle", "maintenance"}]
TaskWork == [at : {"load", "extract"}, job : Jobs]
DeliveryWork == [at : Delivering, job : Jobs, left : SUBSET Nat,
                 shown : SUBSET Message, told : SUBSET Message]
LedgerWork == [at : Writing, job : Jobs, attempt : Nat, left : Seq(Buckets), rows : SUBSET LockedRow]
Work == RestWork \cup TaskWork \cup DeliveryWork \cup LedgerWork

Resources == UNION {ToSet(Opened(r)) : r \in Roles}
Process == [role : Roles \cup {"none"}, has : SUBSET Resources,
            hooks : SUBSET {"recovery", "features", "operations"}, work : Work]
JobRow == [at : {"none", "ready", "running", "uncertain", "settling", "charged", "failed", "abandoned"},
           stage : {"media", "browser"}, queued : BOOLEAN, lapse : Nat]

Typed ==
  /\ now \in 0..Horizon /\ forks \in 0..MaxForks
  /\ child \in [Children -> Process] /\ job \in [Jobs -> JobRow]
  /\ receipts \in SUBSET Jobs /\ sums \in [Buckets -> Nat]

(***************************************************************************)
(* The inductive invariant.                                                *)
(***************************************************************************)

\* A process with a hook opened everything its role needs, and its work came through a hook.
Equipped(p) ==
  /\ p.hooks # {} => p.role \in Roles /\ p.hooks \subseteq Hooks(p.role) /\ p.has = ToSet(Opened(p.role))
  /\ p.work.at = "maintenance" => "operations" \in p.hooks
  /\ p.work.at \in Serving => "features" \in p.hooks
  /\ p.work.at \in Writing => p.hooks # {}

\* What is stored of a job is sealed beyond its deadline.
Sealed(r) == r = NoJob \/ (r.at # "none" /\ r.lapse >= Deadline)

\* Where a job is while a process works on it.
Follows(w, rows) ==
  /\ w.at \in {"load", "extract"} => rows[w.job].at = "running"
  /\ w.at \in Delivering => rows[w.job].at = "uncertain"
  /\ w.at \in Writing => rows[w.job].at \in {"settling", "charged"}

\* What a delivery shows was told, and is not what it still has to show.
Consistent(w) ==
  /\ w.at \in Posting \cup {"download"} => w.shown = w.told
  /\ w.at \in {"separate", "group", "upload"} => w.left # {}
  /\ w.at \in {"separate", "group", "upload"} => ({"item"} \X w.left) \cap w.shown = {}
  /\ w.at \in {"placeholder", "download"} => Items(w) = {}
  /\ w.at = "delete" => Items(w) # {}
  /\ w.at = "complete" => w.told # {} /\ w.shown \ w.told \subseteq {Placeholder}

\* A transaction that charges holds the rows of its event and of what it has charged.
Accounts(w, events, totals) ==
  /\ w.at = "claim" => w.rows = {} /\ w.left = Charges[w.job].buckets
  /\ w.at = "charge" => w.left # << >>
  /\ w.at = "commit" => w.left = << >>
  /\ w.at \in {"charge", "commit"} =>
       /\ <<"event", w.job>> \in w.rows /\ w.job \notin events
       /\ \A b \in ToSet(Charges[w.job].buckets) : b \in ToSet(w.left) \/ <<"sum", b>> \in w.rows
       /\ \A b \in Buckets : <<"sum", b>> \in w.rows => totals[b] <= Capacity - Charges[w.job].amount

\* Two processes neither deliver one job nor hold one row.
Apart(v, w) ==
  /\ v.at \in Serving /\ w.at \in Serving => v.job # w.job
  /\ v.at \in Writing /\ w.at \in Writing => v.rows \cap w.rows = {}

Booked(events, totals, rows) ==
  /\ \A b \in Buckets : totals[b] <= Capacity /\ totals[b] = Cardinality(Units(b, events))
  /\ \A j \in Jobs : /\ rows[j].at = "charged" => j \in events
                     /\ j \in events => rows[j].at \in {"settling", "charged"}

WorkerInv ==
  /\ Typed
  /\ \A j \in Jobs : Sealed(job[j])
  /\ \A c \in Children :
       /\ Equipped(child[c])
       /\ Follows(child[c].work, job)
       /\ Consistent(child[c].work)
       /\ Accounts(child[c].work, receipts, sums)
  /\ \A c, o \in Children : c # o => Apart(child[c].work, child[o].work)
  /\ Booked(receipts, sums, job)

(***************************************************************************)
(* What is proved of a step: the process that acts changes itself and the  *)
(* job it works on, and leaves the other processes alone.                  *)
(***************************************************************************)
Changed(c, j) ==
  \/ job'[j].at = job[j].at
  \/ job[j].at \in {"none", "ready"} /\ job'[j].at \in {"ready", "running", "failed"}
  \/ child[c].work.at \in Serving /\ child[c].work.job = j /\ job'[j].at # "charged"
  \/ job[j].at \in {"settling", "charged"} /\ job'[j].at = "charged" /\ j \in receipts'

Alone(c) == \A o \in Children \ {c} : child'[o] = child[o]

Enters(c) ==
  child'[c].work.at \in Serving =>
    \/ child[c].work.at \in Serving /\ child'[c].work.job = child[c].work.job
    \/ job[child'[c].work.job].at = "ready"

Excludes(c) ==
  child'[c].work.at \in Writing =>
    \A o \in Children \ {c} : child[o].work.at \in Writing => child'[c].work.rows \cap child[o].work.rows = {}

\* A failure is told of a delivery that has shown nothing.
Reports(c) ==
  child[c].work.at \in Posting => (job'[child[c].work.job].at = "failed" => child[c].work.shown = {})

Acts(c) ==
  /\ Typed' /\ Alone(c) /\ Enters(c) /\ Excludes(c) /\ Reports(c)
  /\ \A j \in Jobs : Sealed(job'[j]) /\ Changed(c, j)
  /\ Equipped(child'[c]) /\ Follows(child'[c].work, job')
  /\ Consistent(child'[c].work) /\ Accounts(child'[c].work, receipts', sums')

----------------------------------------------------------------------------
(* The forms of work, told apart by what they are about.                   *)
LEMMA WorkForms ==
  ASSUME NEW w \in Work
  PROVE  /\ w.at \in {"idle", "maintenance"} \cup Serving \cup Writing
         /\ w.at \in {"load", "extract"} => w \in TaskWork
         /\ w.at \in Delivering => w \in DeliveryWork
         /\ w.at \in Writing => w \in LedgerWork
         /\ w.at \in Serving \cup Writing => w.job \in Jobs
<1>1. CASE w \in RestWork
  BY <1>1 DEF RestWork, Delivering, Serving, Posting, Writing
<1>2. CASE w \in TaskWork
  BY <1>2 DEF TaskWork, Delivering, Serving, Posting, Writing
<1>3. CASE w \in DeliveryWork
  BY <1>3 DEF DeliveryWork, Delivering, Serving, Posting, Writing
<1>4. CASE w \in LedgerWork
  BY <1>4 DEF LedgerWork, Delivering, Serving, Posting, Writing
<1> QED BY <1>1, <1>2, <1>3, <1>4 DEF Work

LEMMA PhasesApart ==
  /\ Serving \cap Writing = {} /\ {"idle", "maintenance"} \cap (Serving \cup Writing) = {}
  /\ Posting \subseteq Delivering /\ Delivering \subseteq Serving
  /\ Delivering \cap {"load", "extract"} = {} /\ {"load", "extract"} \subseteq Serving
BY DEF Serving, Delivering, Posting, Writing

LEMMA IdleWork ==
  /\ Idle \in Work /\ Idle.at = "idle"
  /\ \A rows : Follows(Idle, rows)
  /\ Consistent(Idle)
  /\ \A events, totals : Accounts(Idle, events, totals)
<1>1. Idle \in RestWork /\ Idle.at = "idle"
  BY DEF Idle, RestWork
<1> QED BY <1>1 DEF Work, Follows, Consistent, Accounts, Delivering, Posting, Writing

(* A process that goes on to other work keeps its role, resources, hooks.  *)
LEMMA SetsProcess ==
  ASSUME Typed, NEW c \in Children, NEW w \in Work, Sets(c, w)
  PROVE  /\ child' \in [Children -> Process] /\ Alone(c)
         /\ child'[c].work = w
         /\ child'[c].role = child[c].role /\ child'[c].has = child[c].has
         /\ child'[c].hooks = child[c].hooks
<1> DEFINE p == [child[c] EXCEPT !.work = w]
<1>1. child[c] \in Process /\ child \in [Children -> Process]
  BY DEF Typed
<1>2. p \in Process /\ p.work = w /\ p.role = child[c].role /\ p.has = child[c].has /\ p.hooks = child[c].hooks
  BY <1>1 DEF Process
<1>3. child' = [child EXCEPT ![c] = p]
  BY DEF Sets
<1> QED BY <1>1, <1>2, <1>3 DEF Alone

LEMMA SameProcess ==
  ASSUME Typed, NEW c \in Children, UNCHANGED child
  PROVE  child' \in [Children -> Process] /\ Alone(c)
BY DEF Typed, Alone

LEMMA BecomesJob ==
  ASSUME Typed, NEW j \in Jobs, NEW at \in {"ready", "running", "uncertain", "settling", "charged", "failed", "abandoned"},
         Becomes(j, at)
  PROVE  /\ job' \in [Jobs -> JobRow] /\ job'[j].at = at
         /\ job'[j].lapse = job[j].lapse
         /\ \A k \in Jobs \ {j} : job'[k] = job[k]
<1>1. job[j] \in JobRow /\ job \in [Jobs -> JobRow]
  BY DEF Typed
<1>2. [job[j] EXCEPT !.at = at] \in JobRow
  BY <1>1 DEF JobRow
<1>3. job' = [job EXCEPT ![j] = [job[j] EXCEPT !.at = at]]
  BY DEF Becomes
<1> QED BY <1>1, <1>2, <1>3 DEF JobRow

----------------------------------------------------------------------------
(* What an acting process leaves of the invariant to the others.           *)
LEMMA OthersFollow ==
  ASSUME WorkerInv, NEW c \in Children, NEW o \in Children, o # c, Acts(c)
  PROVE  Follows(child[o].work, job')
<1> DEFINE w == child[o].work  j == w.job  v == child[c].work
<1>1. w \in Work /\ v \in Work
  BY DEF WorkerInv, Typed, Process
<1>2. Follows(w, job) /\ Apart(v, w)
  BY DEF WorkerInv
<1>3. CASE w.at \in Serving
  <2>1. j \in Jobs /\ job[j].at \in {"running", "uncertain"} /\ w.at \notin Writing
    BY <1>1, <1>2, <1>3, WorkForms, PhasesApart DEF Follows, Serving
  <2>2. ~(v.at \in Serving /\ v.job = j)
    BY <1>2, <1>3 DEF Apart
  <2>3. job'[j].at = job[j].at
    BY <2>1, <2>2 DEF Acts, Changed
  <2> QED BY <1>2, <2>1, <2>3 DEF Follows
<1>4. CASE w.at \in Writing
  <2>1. j \in Jobs /\ job[j].at \in {"settling", "charged"} /\ w.at \notin Serving
    BY <1>1, <1>2, <1>4, WorkForms, PhasesApart DEF Follows
  <2>2. ~(v.at \in Serving /\ v.job = j)
    <3> SUFFICES ASSUME v.at \in Serving, v.job = j PROVE FALSE
      OBVIOUS
    <3>1. job[j].at \in {"running", "uncertain"}
      BY DEF WorkerInv, Follows, Serving
    <3> QED BY <2>1, <3>1
  <2>3. job'[j].at \in {"settling", "charged"}
    BY <2>1, <2>2 DEF Acts, Changed
  <2> QED BY <2>1, <2>3, PhasesApart DEF Follows
<1>5. CASE w.at \notin Serving \cup Writing
  BY <1>5, PhasesApart DEF Follows
<1> QED BY <1>3, <1>4, <1>5

LEMMA StaysApart ==
  ASSUME WorkerInv, NEW c \in Children, NEW o \in Children, o # c, Acts(c)
  PROVE  Apart(child'[c].work, child[o].work) /\ Apart(child[o].work, child'[c].work)
<1> DEFINE w == child[o].work  v == child[c].work  n == child'[c].work
<1>1. w \in Work /\ v \in Work
  BY DEF WorkerInv, Typed, Process
<1>2. Follows(w, job) /\ Apart(v, w)
  BY DEF WorkerInv
<1>3. ASSUME n.at \in Serving, w.at \in Serving
      PROVE  n.job # w.job
  <2>1. CASE v.at \in Serving /\ n.job = v.job
    BY <1>2, <1>3, <2>1 DEF Apart
  <2>2. CASE job[n.job].at = "ready"
    <3>1. job[w.job].at \in {"running", "uncertain"}
      BY <1>2, <1>3 DEF Follows, Serving
    <3> QED BY <2>2, <3>1
  <2> QED BY <1>3, <2>1, <2>2 DEF Acts, Enters
<1>4. ASSUME n.at \in Writing, w.at \in Writing
      PROVE  n.rows \cap w.rows = {}
  BY <1>4 DEF Acts, Excludes
<1> QED BY <1>3, <1>4 DEF Apart

(* The invariant, but for the books and what others account for.           *)
LEMMA ActsKeep ==
  ASSUME WorkerInv, NEW c \in Children, Acts(c),
         \A o \in Children \ {c} : Accounts(child[o].work, receipts', sums'),
         Booked(receipts', sums', job')
  PROVE  WorkerInv'
<1>1. ASSUME NEW o \in Children
      PROVE  /\ Equipped(child'[o]) /\ Follows(child'[o].work, job')
             /\ Consistent(child'[o].work) /\ Accounts(child'[o].work, receipts', sums')
  <2>1. CASE o = c
    BY <2>1 DEF Acts
  <2>2. CASE o # c
    <3>1. child'[o] = child[o]
      BY <2>2 DEF Acts, Alone
    <3>2. Equipped(child[o]) /\ Consistent(child[o].work)
      BY DEF WorkerInv
    <3> QED BY <2>2, <3>1, <3>2, OthersFollow
  <2> QED BY <2>1, <2>2
<1>2. ASSUME NEW o \in Children, NEW k \in Children, o # k
      PROVE  Apart(child'[o].work, child'[k].work)
  <2>1. CASE o = c
    BY <1>2, <2>1, StaysApart DEF Acts, Alone
  <2>2. CASE k = c
    BY <1>2, <2>2, StaysApart DEF Acts, Alone
  <2>3. CASE o # c /\ k # c
    BY <1>2, <2>3 DEF Acts, Alone, WorkerInv
  <2> QED BY <2>1, <2>2, <2>3
<1>3. Typed' /\ \A j \in Jobs : Sealed(job'[j])
  BY DEF Acts
<1> QED BY <1>1, <1>2, <1>3 DEF WorkerInv

(* Without a commit the books stay as they are.                            *)
LEMMA Unbooked ==
  ASSUME WorkerInv, NEW c \in Children, Acts(c), UNCHANGED <<receipts, sums>>
  PROVE  WorkerInv'
<1>1. \A o \in Children \ {c} : Accounts(child[o].work, receipts', sums')
  BY DEF WorkerInv
<1>2. Booked(receipts, sums, job)
  BY DEF WorkerInv
<1>3. ASSUME NEW j \in Jobs
      PROVE  /\ job'[j].at = "charged" => j \in receipts
             /\ j \in receipts => job'[j].at \in {"settling", "charged"}
  <2>0. Changed(c, j)
    BY DEF Acts
  <2>1. /\ job[j].at = "charged" => j \in receipts
        /\ j \in receipts => job[j].at \in {"settling", "charged"}
    BY <1>2 DEF Booked
  <2>2. CASE job'[j].at = job[j].at
    BY <2>1, <2>2
  <2>3. CASE job[j].at \in {"none", "ready"} /\ job'[j].at \in {"ready", "running", "failed"}
    BY <2>1, <2>3
  <2>4. CASE child[c].work.at \in Serving /\ child[c].work.job = j /\ job'[j].at # "charged"
    <3>1. job[j].at \in {"running", "uncertain"}
      BY <2>4 DEF WorkerInv, Follows, Serving
    <3> QED BY <2>1, <2>4, <3>1
  <2>5. CASE job[j].at \in {"settling", "charged"} /\ job'[j].at = "charged" /\ j \in receipts'
    BY <2>1, <2>5
  <2> QED BY <2>0, <2>2, <2>3, <2>4, <2>5 DEF Changed
<1>4. Booked(receipts', sums', job')
  BY <1>2, <1>3 DEF Booked
<1> QED BY <1>1, <1>4, ActsKeep

----------------------------------------------------------------------------
(* The steps.                                                              *)

(* A process that ends its task.                                           *)
LEMMA Rests ==
  ASSUME WorkerInv, NEW c \in Children, Sets(c, Idle)
  PROVE  /\ child' \in [Children -> Process] /\ Alone(c) /\ Enters(c) /\ Excludes(c)
         /\ Equipped(child'[c]) /\ Follows(child'[c].work, job')
         /\ Consistent(child'[c].work) /\ Accounts(child'[c].work, receipts', sums')
<1>1. Typed /\ Equipped(child[c]) /\ Idle \in Work /\ Idle.at = "idle" /\ Idle.at \notin Serving \cup Writing
  BY IdleWork, PhasesApart DEF WorkerInv
<1>2. /\ child' \in [Children -> Process] /\ Alone(c) /\ child'[c].work = Idle
      /\ child'[c].role = child[c].role /\ child'[c].has = child[c].has /\ child'[c].hooks = child[c].hooks
  BY <1>1, SetsProcess
<1>3. Enters(c) /\ Excludes(c)
  BY <1>1, <1>2 DEF Enters, Excludes
<1>4. Equipped(child'[c])
  BY <1>1, <1>2 DEF Equipped
<1> QED BY <1>2, <1>3, <1>4, IdleWork

LEMMA SameJob ==
  ASSUME WorkerInv, NEW c \in Children, UNCHANGED job
  PROVE  /\ job' \in [Jobs -> JobRow] /\ Reports(c)
         /\ \A j \in Jobs : Sealed(job'[j]) /\ Changed(c, j)
<1>1. job' \in [Jobs -> JobRow] /\ \A j \in Jobs : Sealed(job'[j]) /\ Changed(c, j)
  BY DEF WorkerInv, Typed, Changed
<1>2. Reports(c)
  BY PhasesApart DEF WorkerInv, Follows, Reports
<1> QED BY <1>1, <1>2

LEMMA ServedJob ==
  ASSUME WorkerInv, NEW c \in Children, child[c].work.at \in Serving,
         NEW at \in {"ready", "running", "uncertain", "settling", "failed", "abandoned"},
         Becomes(child[c].work.job, at)
  PROVE  /\ job' \in [Jobs -> JobRow]
         /\ child[c].work.job \in Jobs /\ job'[child[c].work.job].at = at
         /\ \A j \in Jobs : Sealed(job'[j]) /\ Changed(c, j)
<1> DEFINE j == child[c].work.job
<1>1. child[c].work \in Work /\ Typed
  BY DEF WorkerInv, Typed, Process
<1>2. j \in Jobs
  BY <1>1, WorkForms
<1>3. job' \in [Jobs -> JobRow] /\ job'[j].at = at /\ job'[j].lapse = job[j].lapse
      /\ \A k \in Jobs \ {j} : job'[k] = job[k]
  BY <1>1, <1>2, BecomesJob
<1>4. job[j].at \in {"running", "uncertain"}
  BY DEF WorkerInv, Follows, Serving
<1>5. Sealed(job'[j])
  <2>1. job[j] # NoJob
    BY <1>4 DEF NoJob
  <2>2. job[j].lapse >= Deadline
    BY <1>2, <2>1 DEF WorkerInv, Sealed
  <2> QED BY <1>3, <2>2 DEF Sealed
<1>6. ASSUME NEW k \in Jobs
      PROVE  Sealed(job'[k]) /\ Changed(c, k)
  <2>1. CASE k = j
    BY <1>3, <1>5, <2>1 DEF Changed
  <2>2. CASE k # j
    BY <1>3, <2>2 DEF Changed, WorkerInv
  <2> QED BY <2>1, <2>2
<1> QED BY <1>2, <1>3, <1>6

LEMMA InterruptedActs ==
  ASSUME WorkerInv, NEW c \in Children, Interrupted(c)
  PROVE  /\ job' \in [Jobs -> JobRow] /\ Reports(c)
         /\ \A j \in Jobs : Sealed(job'[j]) /\ Changed(c, j)
<1>1. CASE child[c].work.at \in {"load", "extract"}
  <2>1. child[c].work.at \in Serving /\ Becomes(child[c].work.job, "abandoned")
    BY <1>1, PhasesApart DEF Interrupted
  <2>2. Reports(c)
    BY <1>1, PhasesApart DEF Reports
  <2> QED BY <2>1, <2>2, ServedJob
<1>2. CASE child[c].work.at \notin {"load", "extract"}
  BY <1>2, SameJob DEF Interrupted
<1> QED BY <1>1, <1>2

LEMMA SoftLimitActs ==
  ASSUME WorkerInv, NEW c \in Children, SoftLimit(c)
  PROVE  Acts(c) /\ UNCHANGED <<receipts, sums>>
<1>1. Sets(c, Idle) /\ Interrupted(c) /\ UNCHANGED <<now, receipts, sums, forks>>
  BY DEF SoftLimit
<1>2. Typed'
  BY <1>1, Rests, InterruptedActs DEF WorkerInv, Typed
<1> QED BY <1>1, <1>2, Rests, InterruptedActs DEF Acts

(* A process that ends, or begins.                                         *)
LEMMA ReplacedProcess ==
  ASSUME WorkerInv, NEW c \in Children, NEW p \in Process, p.work = Idle, Equipped(p),
         child' = [child EXCEPT ![c] = p]
  PROVE  /\ child' \in [Children -> Process] /\ Alone(c) /\ Enters(c) /\ Excludes(c)
         /\ Equipped(child'[c]) /\ Follows(child'[c].work, job')
         /\ Consistent(child'[c].work) /\ Accounts(child'[c].work, receipts', sums')
<1>1. child \in [Children -> Process] /\ Idle.at \notin Serving \cup Writing
  BY IdleWork, PhasesApart DEF WorkerInv, Typed
<1>2. child' \in [Children -> Process] /\ Alone(c) /\ child'[c] = p
  BY <1>1 DEF Alone
<1>3. Enters(c) /\ Excludes(c)
  BY <1>1, <1>2 DEF Enters, Excludes
<1> QED BY <1>2, <1>3, IdleWork

LEMMA DownProcess == Down \in Process /\ Down.work = Idle /\ Equipped(Down)
<1>1. Idle \in Work /\ Idle.at \notin Serving \cup Writing /\ Idle.at # "maintenance"
  BY IdleWork, PhasesApart
<1> QED BY <1>1 DEF Down, Process, Equipped

LEMMA KillActs ==
  ASSUME WorkerInv, NEW c \in Children, Kill(c)
  PROVE  Acts(c) /\ UNCHANGED <<receipts, sums>>
<1>1. child' = [child EXCEPT ![c] = Down] /\ Interrupted(c) /\ UNCHANGED <<now, receipts, sums, forks>>
  BY DEF Kill
<1>2. Typed'
  BY <1>1, DownProcess, ReplacedProcess, InterruptedActs DEF WorkerInv, Typed
<1> QED BY <1>1, <1>2, DownProcess, ReplacedProcess, InterruptedActs DEF Acts

LEMMA ShutdownActs ==
  ASSUME WorkerInv, NEW c \in Children, Shutdown(c)
  PROVE  Acts(c) /\ UNCHANGED <<receipts, sums>>
<1>1. child' = [child EXCEPT ![c] = Down] /\ UNCHANGED job /\ UNCHANGED <<now, receipts, sums, forks>>
  BY DEF Shutdown
<1>2. Typed'
  BY <1>1, DownProcess, ReplacedProcess, SameJob DEF WorkerInv, Typed
<1> QED BY <1>1, <1>2, DownProcess, ReplacedProcess, SameJob DEF Acts

Opening == {"database", "runtime", "http", "operations", "browser", "publisher", "runner"}

LEMMA OpenedSeq ==
  ASSUME NEW role \in Roles
  PROVE  Opened(role) \in Seq(Opening)
<1>0. << >> \in Seq(Opening) /\ <<"operations">> \in Seq(Opening) /\ <<"browser">> \in Seq(Opening)
  BY DEF Opening
<1>1. <<"database", "runtime", "http">> \in Seq(Opening)
  BY DEF Opening
<1>2. (IF role \in OperationsRoles THEN <<"operations">> ELSE << >>) \in Seq(Opening)
  BY <1>0
<1>3. (IF role = "browser" \/ (role = "all" /\ BrowserEnabled) THEN <<"browser">> ELSE << >>) \in Seq(Opening)
  BY <1>0
<1>4. (IF role \in FeatureRoles THEN <<"publisher", "runner">> ELSE << >>) \in Seq(Opening)
  BY DEF Opening
<1>5. \A s, t \in Seq(Opening) : s \o t \in Seq(Opening)
  OBVIOUS
<1> QED BY <1>1, <1>2, <1>3, <1>4, <1>5 DEF Opened

LEMMA OpenedSome ==
  ASSUME NEW role \in Roles, NEW n \in 0..Len(Opened(role))
  PROVE  /\ ToSet(SubSeq(Opened(role), 1, n)) \subseteq Resources
         /\ n = Len(Opened(role)) => ToSet(SubSeq(Opened(role), 1, n)) = ToSet(Opened(role))
<1> DEFINE s == Opened(role)  t == SubSeq(s, 1, n)
<1>1. s \in Seq(Opening) /\ Len(s) \in Nat /\ DOMAIN s = 1..Len(s) /\ n \in 0..Len(s)
  BY OpenedSeq
<1>2. Len(t) = n /\ DOMAIN t = 1..n /\ \A i \in 1..n : t[i] = s[i]
  <2>1. \A i \in 1..n : s[i] \in Opening
    BY <1>1
  <2> HIDE DEF s
  <2> QED BY <1>1, <2>1, SubSeqProperties
<1>3. ToSet(t) \subseteq ToSet(s) /\ (n = Len(s) => ToSet(t) = ToSet(s))
  <2> HIDE DEF s, t
  <2>1. \A x : x \in ToSet(t) <=> \E i \in 1..n : x = s[i]
    BY <1>2 DEF ToSet
  <2>2. \A x : x \in ToSet(s) <=> \E i \in 1..Len(s) : x = s[i]
    BY <1>1 DEF ToSet
  <2>3. n = Len(s) => \A x : x \in ToSet(t) <=> x \in ToSet(s)
    BY <1>1, <2>1, <2>2
  <2>4. \A i \in 1..n : i \in 1..Len(s)
    BY <1>1
  <2>5. ASSUME NEW x \in ToSet(t) PROVE x \in ToSet(s)
    BY <2>1, <2>2, <2>4, <2>5
  <2> HIDE DEF ToSet
  <2> QED BY <2>3, <2>5
<1> QED BY <1>3 DEF Resources

LEMMA ForkActs ==
  ASSUME WorkerInv, NEW c \in Children, NEW role \in Roles, NEW n \in 0..Len(Opened(role)), Fork(c, role, n)
  PROVE  Acts(c) /\ UNCHANGED <<receipts, sums>>
<1> DEFINE has == ToSet(SubSeq(Opened(role), 1, n))
           hooks == IF n = Len(Opened(role)) THEN Hooks(role) ELSE {}
           p == [role |-> role, has |-> has, hooks |-> hooks, work |-> Idle]
<1>1. child' = [child EXCEPT ![c] = p] /\ forks < MaxForks /\ forks' = forks + 1 /\ UNCHANGED <<now, job, receipts, sums>>
  BY DEF Fork, Initialise
<1>2. has \subseteq Resources /\ (hooks # {} => has = ToSet(Opened(role))) /\ hooks \subseteq Hooks(role)
      /\ hooks \subseteq {"recovery", "features", "operations"}
  BY OpenedSome DEF Hooks
<1>3. p \in Process /\ p.work = Idle /\ Equipped(p)
  <2>1. Idle \in Work /\ Idle.at \notin Serving \cup Writing /\ Idle.at # "maintenance"
    BY IdleWork, PhasesApart
  <2> HIDE DEF has, hooks
  <2> QED BY <1>2, <2>1 DEF Process, Equipped
<1>4. forks' \in 0..MaxForks
  BY <1>1, WorkerAssumption DEF WorkerInv, Typed
<1> HIDE DEF p
<1>5. Typed'
  BY <1>1, <1>3, <1>4, ReplacedProcess, SameJob DEF WorkerInv, Typed
<1> QED BY <1>1, <1>3, <1>5, ReplacedProcess, SameJob DEF Acts

(* A process that goes on, through the hook of its task.                   *)
LEMMA GoesOn ==
  ASSUME WorkerInv, NEW c \in Children, NEW w \in Work, Sets(c, w),
         w.at = "maintenance" => "operations" \in child[c].hooks,
         w.at \in Serving => "features" \in child[c].hooks,
         w.at \in Writing => child[c].hooks # {}
  PROVE  child' \in [Children -> Process] /\ Alone(c) /\ child'[c].work = w /\ Equipped(child'[c])
<1>1. Typed /\ Equipped(child[c])
  BY DEF WorkerInv
<1>2. /\ child' \in [Children -> Process] /\ Alone(c) /\ child'[c].work = w
      /\ child'[c].role = child[c].role /\ child'[c].has = child[c].has /\ child'[c].hooks = child[c].hooks
  BY <1>1, SetsProcess
<1> QED BY <1>1, <1>2 DEF Equipped

LEMMA MaintainActs ==
  ASSUME WorkerInv, NEW c \in Children, Maintain(c)
  PROVE  Acts(c) /\ UNCHANGED <<receipts, sums>>
<1> DEFINE w == [at |-> "maintenance"]
<1>1. "operations" \in child[c].hooks /\ Sets(c, w) /\ UNCHANGED <<now, job, receipts, sums, forks>>
  BY DEF Maintain
<1>2. w \in Work /\ w.at = "maintenance" /\ w.at \notin Serving \cup Writing
  BY PhasesApart DEF Work, RestWork
<1> HIDE DEF w
<1>3. child' \in [Children -> Process] /\ Alone(c) /\ child'[c].work = w /\ Equipped(child'[c])
  BY <1>1, <1>2, GoesOn
<1>4. Enters(c) /\ Excludes(c)
  BY <1>2, <1>3 DEF Enters, Excludes
<1>5. Follows(w, job') /\ Consistent(w) /\ Accounts(w, receipts', sums')
  BY <1>2 DEF Follows, Consistent, Accounts, Serving, Delivering, Posting, Writing
<1>6. Typed'
  BY <1>1, <1>3, SameJob DEF WorkerInv, Typed
<1> QED BY <1>1, <1>3, <1>4, <1>5, <1>6, SameJob DEF Acts

LEMMA MaintainedActs ==
  ASSUME WorkerInv, NEW c \in Children, Maintained(c)
  PROVE  Acts(c) /\ UNCHANGED <<receipts, sums>>
<1>1. Sets(c, Idle) /\ UNCHANGED <<now, job, receipts, sums, forks>>
  BY DEF Maintained
<1>2. Typed'
  BY <1>1, Rests, SameJob DEF WorkerInv, Typed
<1> QED BY <1>1, <1>2, Rests, SameJob DEF Acts

(* A process that stays as it is.                                          *)
LEMMA SameChild ==
  ASSUME WorkerInv, NEW c \in Children, child' = child, child[c].work = Idle
  PROVE  /\ child' \in [Children -> Process] /\ Alone(c) /\ Enters(c) /\ Excludes(c)
         /\ Equipped(child'[c]) /\ Follows(child'[c].work, job')
         /\ Consistent(child'[c].work) /\ Accounts(child'[c].work, receipts', sums')
<1>1. Idle.at \notin Serving \cup Writing
  BY IdleWork, PhasesApart
<1>2. child' \in [Children -> Process] /\ Alone(c) /\ Equipped(child'[c])
  BY DEF WorkerInv, Typed, Alone
<1>3. Enters(c) /\ Excludes(c)
  BY <1>1 DEF Enters, Excludes
<1> QED BY <1>2, <1>3, IdleWork

(* Of a job that waits, what a task or the recovery makes of it.           *)
LEMMA WaitingJob ==
  ASSUME WorkerInv, NEW c \in Children, child[c].work = Idle, NEW j \in Jobs, NEW r \in JobRow,
         job' = [job EXCEPT ![j] = r], r.lapse = job[j].lapse, job[j] # NoJob,
         r.at = job[j].at \/ (job[j].at = "ready" /\ r.at \in {"ready", "running", "failed"})
  PROVE  /\ job' \in [Jobs -> JobRow] /\ Reports(c) /\ job'[j] = r
         /\ \A k \in Jobs : Sealed(job'[k]) /\ Changed(c, k)
<1>1. job \in [Jobs -> JobRow] /\ Idle.at \notin Serving
  BY IdleWork, PhasesApart DEF WorkerInv, Typed
<1>2. job' \in [Jobs -> JobRow] /\ job'[j] = r /\ \A k \in Jobs \ {j} : job'[k] = job[k]
  BY <1>1
<1>3. Reports(c)
  BY <1>1, PhasesApart DEF Reports
<1>4. Sealed(r)
  BY DEF WorkerInv, Sealed
<1>5. ASSUME NEW k \in Jobs
      PROVE  Sealed(job'[k]) /\ Changed(c, k)
  <2>1. CASE k = j
    BY <1>2, <1>4, <2>1 DEF Changed
  <2>2. CASE k # j
    BY <1>2, <2>2 DEF Changed, WorkerInv
  <2> QED BY <2>1, <2>2
<1> QED BY <1>2, <1>3, <1>5

LEMMA TakeActs ==
  ASSUME WorkerInv, NEW c \in Children, NEW j \in Jobs, Take(c, j)
  PROVE  Acts(c) /\ UNCHANGED <<receipts, sums>>
<1>1. /\ child[c].work = Idle /\ job[j].queued
      /\ \/ job' = [job EXCEPT ![j].queued = FALSE] /\ UNCHANGED child
         \/ /\ job[j].at = "ready" /\ child' = child
            /\ \E at \in {"ready", "failed"} : job' = [job EXCEPT ![j].queued = FALSE, ![j].at = at]
         \/ /\ job[j].at = "ready" /\ "features" \in child[c].hooks
            /\ job' = [job EXCEPT ![j].queued = FALSE, ![j].at = "running"]
            /\ Sets(c, [at |-> "load", job |-> j])
      /\ UNCHANGED <<now, receipts, sums, forks>>
  BY DEF Take
<1>2. job[j] \in JobRow /\ job[j] # NoJob
  BY <1>1 DEF WorkerInv, Typed, NoJob
<1>2a. UNCHANGED <<receipts, sums>>
  BY DEF Take
<1>3. CASE job' = [job EXCEPT ![j].queued = FALSE] /\ UNCHANGED child
  <2> DEFINE r == [job[j] EXCEPT !.queued = FALSE]
  <2>1. job' = [job EXCEPT ![j] = r]
    BY <1>3
  <2>2. r \in JobRow /\ r.lapse = job[j].lapse /\ r.at = job[j].at
    BY <1>2 DEF JobRow
  <2> HIDE DEF r
  <2>3. job' \in [Jobs -> JobRow] /\ Reports(c) /\ \A k \in Jobs : Sealed(job'[k]) /\ Changed(c, k)
    BY <1>1, <1>2, <2>1, <2>2, WaitingJob
  <2>4. Typed'
    BY <1>1, <1>3, <2>3, SameChild DEF WorkerInv, Typed
  <2> QED BY <1>1, <1>3, <2>3, <2>4, SameChild DEF Acts
<1>4. ASSUME job[j].at = "ready", child' = child, NEW at \in {"ready", "failed"},
             job' = [job EXCEPT ![j].queued = FALSE, ![j].at = at]
      PROVE  Acts(c)
  <2> DEFINE r == [job[j] EXCEPT !.queued = FALSE, !.at = at]
  <2>1. job' = [job EXCEPT ![j] = r]
    BY <1>2, <1>4 DEF WorkerInv, Typed
  <2>2. r \in JobRow /\ r.lapse = job[j].lapse /\ r.at \in {"ready", "failed"}
    BY <1>2 DEF JobRow
  <2> HIDE DEF r
  <2>3. job' \in [Jobs -> JobRow] /\ Reports(c) /\ \A k \in Jobs : Sealed(job'[k]) /\ Changed(c, k)
    BY <1>1, <1>2, <1>4, <2>1, <2>2, WaitingJob
  <2>4. Typed'
    BY <1>1, <1>4, <2>3, SameChild DEF WorkerInv, Typed
  <2> QED BY <1>1, <1>4, <2>3, <2>4, SameChild DEF Acts
<1>5. CASE /\ job[j].at = "ready" /\ "features" \in child[c].hooks
           /\ job' = [job EXCEPT ![j].queued = FALSE, ![j].at = "running"]
           /\ Sets(c, [at |-> "load", job |-> j])
  <2> DEFINE r == [job[j] EXCEPT !.queued = FALSE, !.at = "running"]
             w == [at |-> "load", job |-> j]
  <2>1. job' = [job EXCEPT ![j] = r]
    BY <1>2, <1>5 DEF WorkerInv, Typed
  <2>2. r \in JobRow /\ r.lapse = job[j].lapse /\ r.at = "running"
    BY <1>2 DEF JobRow
  <2> HIDE DEF r
  <2>3. job' \in [Jobs -> JobRow] /\ Reports(c) /\ job'[j] = r /\ \A k \in Jobs : Sealed(job'[k]) /\ Changed(c, k)
    BY <1>1, <1>2, <1>5, <2>1, <2>2, WaitingJob
  <2>4. w \in Work /\ w.at = "load" /\ w.job = j /\ w.at \in Serving /\ w.at \notin Writing
    BY PhasesApart DEF Work, TaskWork
  <2> HIDE DEF w
  <2>5. child' \in [Children -> Process] /\ Alone(c) /\ child'[c].work = w /\ Equipped(child'[c])
    BY <1>5, <2>4, GoesOn DEF w
  <2>6. Enters(c) /\ Excludes(c)
    BY <1>5, <2>4, <2>5 DEF Enters, Excludes
  <2>7. Follows(w, job') /\ Consistent(w) /\ Accounts(w, receipts', sums')
    BY <2>2, <2>3, <2>4 DEF Follows, Consistent, Accounts, Serving, Delivering, Posting, Writing
  <2>8. Typed'
    BY <1>1, <2>3, <2>5 DEF WorkerInv, Typed
  <2> QED BY <1>2a, <2>3, <2>5, <2>6, <2>7, <2>8 DEF Acts
<1>6. CASE /\ job[j].at = "ready" /\ child' = child
           /\ \E at \in {"ready", "failed"} : job' = [job EXCEPT ![j].queued = FALSE, ![j].at = at]
  <2>1. PICK at \in {"ready", "failed"} : job' = [job EXCEPT ![j].queued = FALSE, ![j].at = at]
    BY <1>6
  <2>2. Acts(c)
    BY <1>4, <1>6, <2>1
  <2> QED BY <1>2a, <2>2
<1> QED BY <1>1, <1>3, <1>5, <1>6

LEMMA RecoverActs ==
  ASSUME WorkerInv, NEW c \in Children, NEW j \in Jobs, Recover(c, j)
  PROVE  Acts(c) /\ UNCHANGED <<receipts, sums>>
<1>1. child[c].work = Idle /\ "recovery" \in child[c].hooks /\ UNCHANGED <<now, receipts, sums, forks>>
  BY DEF Recover
<1>2. job[j] \in JobRow /\ Typed
  BY DEF WorkerInv, Typed
<1>3. CASE job[j].at = "settling" /\ Sets(c, Transaction(j, 1)) /\ UNCHANGED job
  <2> DEFINE w == Transaction(j, 1)
  <2>1. w \in Work /\ w.at = "claim" /\ w.job = j /\ w.rows = {} /\ w.left = Charges[j].buckets
    BY WorkerAssumption DEF Transaction, Work, LedgerWork, Writing
  <2>2. w.at \in Writing /\ w.at \notin Serving
    BY <2>1, PhasesApart DEF Writing
  <2> HIDE DEF w
  <2>3. child' \in [Children -> Process] /\ Alone(c) /\ child'[c].work = w /\ Equipped(child'[c])
    BY <1>1, <1>3, <2>1, <2>2, GoesOn DEF w
  <2>4. Enters(c) /\ Excludes(c)
    BY <2>1, <2>2, <2>3 DEF Enters, Excludes
  <2>5. Follows(w, job') /\ Consistent(w) /\ Accounts(w, receipts', sums')
    BY <1>3, <2>1, <2>2 DEF Follows, Consistent, Accounts, Serving, Delivering, Posting
  <2>6. Typed'
    BY <1>1, <1>3, <2>3, SameJob DEF WorkerInv, Typed
  <2> QED BY <1>1, <1>3, <2>3, <2>4, <2>5, <2>6, SameJob DEF Acts
<1>4. ASSUME job[j].at = "ready", child' = child, NEW at \in {"ready", "failed"}, NEW queued \in BOOLEAN,
             job' = [job EXCEPT ![j] = [job[j] EXCEPT !.at = at, !.queued = queued]]
      PROVE  Acts(c) /\ UNCHANGED <<receipts, sums>>
  <2> DEFINE r == [job[j] EXCEPT !.at = at, !.queued = queued]
  <2>0. job[j] # NoJob
    BY <1>4 DEF NoJob
  <2>1. r \in JobRow /\ r.lapse = job[j].lapse /\ r.at = at /\ job[j] # NoJob
    BY <1>2, <2>0 DEF JobRow
  <2>2. job' = [job EXCEPT ![j] = r]
    BY <1>4
  <2> HIDE DEF r
  <2>3. job' \in [Jobs -> JobRow] /\ Reports(c) /\ \A k \in Jobs : Sealed(job'[k]) /\ Changed(c, k)
    BY <1>1, <1>2, <1>4, <2>1, <2>2, WaitingJob
  <2>4. Typed'
    BY <1>1, <1>4, <2>3, SameChild DEF WorkerInv, Typed
  <2> QED BY <1>1, <1>4, <2>3, <2>4, SameChild DEF Acts
<1>5. CASE job[j].at = "ready" /\ UNCHANGED child /\ job' = [job EXCEPT ![j].queued = TRUE]
  <2>1. job' = [job EXCEPT ![j] = [job[j] EXCEPT !.at = "ready", !.queued = TRUE]]
    BY <1>2, <1>5 DEF JobRow
  <2> QED BY <1>4, <1>5, <2>1
<1>6. CASE job[j].at = "ready" /\ UNCHANGED child /\ job' = [job EXCEPT ![j].at = "failed"]
  <2>1. job' = [job EXCEPT ![j] = [job[j] EXCEPT !.at = "failed", !.queued = job[j].queued]]
    BY <1>2, <1>6 DEF JobRow
  <2>2. job[j].queued \in BOOLEAN
    BY <1>2 DEF JobRow
  <2> QED BY <1>4, <1>6, <2>1, <2>2
<1> QED BY <1>3, <1>5, <1>6 DEF Recover

(* What a process takes up, or gives up, of a job it serves.               *)
LEMMA ServesOn ==
  ASSUME WorkerInv, NEW c \in Children, child[c].work.at \in Serving,
         NEW w \in Work, w.at \in Serving \cup Writing, w.job = child[c].work.job, Sets(c, w),
         w.at \in Writing => w.rows = {}
  PROVE  /\ child' \in [Children -> Process] /\ Alone(c) /\ child'[c].work = w
         /\ Equipped(child'[c]) /\ Enters(c) /\ Excludes(c)
<1>1. "features" \in child[c].hooks
  BY DEF WorkerInv, Equipped
<1>2. child' \in [Children -> Process] /\ Alone(c) /\ child'[c].work = w /\ Equipped(child'[c])
  BY <1>1, GoesOn, PhasesApart
<1> QED BY <1>2 DEF Enters, Excludes

LEMMA LoadActs ==
  ASSUME WorkerInv, NEW c \in Children, NEW state, Load(c, state)
  PROVE  Acts(c) /\ UNCHANGED <<receipts, sums>>
<1> DEFINE j == child[c].work.job
<1>1. child[c].work.at = "load" /\ UNCHANGED <<now, receipts, sums, forks>>
  BY DEF Load
<1>2. child[c].work.at \in Serving /\ child[c].work \in Work /\ j \in Jobs /\ Reports(c)
  BY <1>1, WorkForms, PhasesApart DEF WorkerInv, Typed, Process, Reports
<1>3. CASE Sets(c, [at |-> "extract", job |-> j]) /\ UNCHANGED job
  <2> DEFINE w == [at |-> "extract", job |-> j]
  <2>1. w \in Work /\ w.at = "extract" /\ w.job = j /\ w.at \in Serving /\ w.at \notin Writing
    BY <1>2, PhasesApart DEF Work, TaskWork
  <2>2. job[j].at = "running"
    BY <1>1 DEF WorkerInv, Follows
  <2> HIDE DEF w
  <2>3. /\ child' \in [Children -> Process] /\ Alone(c) /\ child'[c].work = w
        /\ Equipped(child'[c]) /\ Enters(c) /\ Excludes(c)
    BY <1>2, <1>3, <2>1, ServesOn DEF w
  <2>4. Follows(w, job') /\ Consistent(w) /\ Accounts(w, receipts', sums')
    BY <1>3, <2>1, <2>2 DEF Follows, Consistent, Accounts, Serving, Delivering, Posting, Writing
  <2>5. Typed'
    BY <1>1, <1>3, <2>3, SameJob DEF WorkerInv, Typed
  <2> QED BY <1>1, <1>3, <2>3, <2>4, <2>5, SameJob DEF Acts
<1>4. CASE Stops(c, j, "failed")
  <2>1. Sets(c, Idle) /\ Becomes(j, "failed")
    BY <1>4 DEF Stops
  <2>2. Typed'
    BY <1>1, <1>2, <2>1, Rests, ServedJob DEF WorkerInv, Typed
  <2> QED BY <1>1, <1>2, <2>1, <2>2, Rests, ServedJob DEF Acts
<1> QED BY <1>3, <1>4 DEF Load

LEMMA HandOverActs ==
  ASSUME WorkerInv, NEW c \in Children, NEW sent \in BOOLEAN, HandOver(c, sent)
  PROVE  Acts(c) /\ UNCHANGED <<receipts, sums>>
<1> DEFINE j == child[c].work.job
           r == [job[j] EXCEPT !.at = IF BrowserEnabled THEN "ready" ELSE "failed",
                               !.stage = IF BrowserEnabled THEN "browser" ELSE @,
                               !.queued = BrowserEnabled /\ Published(sent)]
<1>1. child[c].work.at = "extract" /\ Sets(c, Idle) /\ UNCHANGED <<now, receipts, sums, forks>>
  BY DEF HandOver
<1>2. child[c].work.at \in Serving /\ child[c].work \in Work /\ j \in Jobs /\ Reports(c)
  BY <1>1, WorkForms, PhasesApart DEF WorkerInv, Typed, Process, Reports
<1>3. job \in [Jobs -> JobRow] /\ job[j] \in JobRow /\ job[j].at = "running" /\ job[j] # NoJob
  BY <1>1, <1>2 DEF WorkerInv, Typed, Follows, NoJob
<1>4. job' = [job EXCEPT ![j] = r]
  BY <1>3 DEF HandOver
<1>5. BrowserEnabled \in BOOLEAN /\ (BrowserEnabled /\ Published(sent)) \in BOOLEAN
  BY WorkerAssumption DEF Published
<1>6. r \in JobRow /\ r.lapse = job[j].lapse /\ r.at \in {"ready", "failed"}
  BY <1>3, <1>5 DEF JobRow
<1> HIDE DEF r
<1>7. job' \in [Jobs -> JobRow] /\ job'[j] = r /\ \A k \in Jobs \ {j} : job'[k] = job[k]
  BY <1>2, <1>3, <1>4, <1>6
<1>8. Sealed(r)
  BY <1>2, <1>3, <1>6 DEF WorkerInv, Sealed
<1>9. ASSUME NEW k \in Jobs
      PROVE  Sealed(job'[k]) /\ Changed(c, k)
  <2>1. CASE k = j
    BY <1>2, <1>6, <1>7, <1>8, <2>1 DEF Changed
  <2>2. CASE k # j
    BY <1>7, <2>2 DEF Changed, WorkerInv
  <2> QED BY <2>1, <2>2
<1>10. Typed'
  BY <1>1, <1>7, Rests DEF WorkerInv, Typed
<1> QED BY <1>1, <1>2, <1>9, <1>10, Rests DEF Acts

LEMMA DeliveryBegins ==
  ASSUME NEW j \in Jobs
  PROVE  /\ Delivery(j) \in Work /\ Delivery(j).at \in {"text", "separate", "group"}
         /\ Delivery(j).job = j /\ Consistent(Delivery(j))
<1> DEFINE w == Delivery(j)
<1>0. Content[j].items \in Nat
  BY WorkerAssumption
<1>1. /\ w.at \in {"text", "separate", "group"} /\ w.at \in Delivering /\ w.job = j
      /\ w.left = 1..Content[j].items /\ w.shown = {} /\ w.told = {}
      /\ w.at # "text" => Content[j].items # 0
  BY DEF Delivery, Delivering, Posting
<1>2. w \in DeliveryWork
  <2>1. 1..Content[j].items \in SUBSET Nat /\ {} \in SUBSET Message
    BY <1>0
  <2> QED BY <1>1, <2>1 DEF DeliveryWork, Delivery
<1>3. w.at # "text" => 1 \in w.left
  BY <1>0, <1>1
<1> HIDE DEF w
<1>4. Consistent(w)
  BY <1>1, <1>3 DEF Consistent
<1> QED BY <1>1, <1>2, <1>4 DEF Work, w

LEMMA ExtractActs ==
  ASSUME WorkerInv, NEW c \in Children, NEW ok, Extract(c, ok)
  PROVE  Acts(c) /\ UNCHANGED <<receipts, sums>>
<1> DEFINE j == child[c].work.job
<1>1. child[c].work.at = "extract" /\ UNCHANGED <<now, receipts, sums, forks>>
  BY DEF Extract
<1>2. child[c].work.at \in Serving /\ child[c].work \in Work /\ j \in Jobs /\ Reports(c)
  BY <1>1, WorkForms, PhasesApart DEF WorkerInv, Typed, Process, Reports
<1>3. CASE Sets(c, Delivery(j)) /\ Becomes(j, "uncertain")
  <2> DEFINE w == Delivery(j)
  <2>1. w \in Work /\ w.at \in {"text", "separate", "group"} /\ w.job = j /\ Consistent(w)
    BY <1>2, DeliveryBegins
  <2>2. w.at \in Delivering /\ w.at \in Serving /\ w.at \notin Writing
    BY <2>1, PhasesApart DEF Delivering, Posting
  <2> HIDE DEF w
  <2>3. /\ child' \in [Children -> Process] /\ Alone(c) /\ child'[c].work = w
        /\ Equipped(child'[c]) /\ Enters(c) /\ Excludes(c)
    BY <1>2, <1>3, <2>1, <2>2, ServesOn DEF w
  <2>4. job' \in [Jobs -> JobRow] /\ job'[j].at = "uncertain" /\ \A k \in Jobs : Sealed(job'[k]) /\ Changed(c, k)
    BY <1>2, <1>3, ServedJob
  <2>5. Follows(w, job') /\ Accounts(w, receipts', sums')
    BY <2>1, <2>2, <2>4, PhasesApart DEF Follows, Accounts, Writing
  <2>6. Typed'
    BY <1>1, <2>3, <2>4 DEF WorkerInv, Typed
  <2> QED BY <1>1, <1>2, <2>1, <2>3, <2>4, <2>5, <2>6 DEF Acts
<1>4. CASE Stops(c, j, "failed")
  <2>1. Sets(c, Idle) /\ Becomes(j, "failed")
    BY <1>4 DEF Stops
  <2>2. Typed'
    BY <1>1, <1>2, <2>1, Rests, ServedJob DEF WorkerInv, Typed
  <2> QED BY <1>1, <1>2, <2>1, <2>2, Rests, ServedJob DEF Acts
<1> QED BY <1>3, <1>4 DEF Extract

LEMMA TransactionBegins ==
  ASSUME NEW j \in Jobs, NEW n \in Nat
  PROVE  /\ Transaction(j, n) \in Work /\ Transaction(j, n).at = "claim" /\ Transaction(j, n).job = j
         /\ Transaction(j, n).rows = {} /\ Transaction(j, n).left = Charges[j].buckets
BY WorkerAssumption DEF Transaction, Work, LedgerWork, Writing

LEMMA CompleteActs ==
  ASSUME WorkerInv, NEW c \in Children, NEW prepared, Complete(c, prepared)
  PROVE  Acts(c) /\ UNCHANGED <<receipts, sums>>
<1> DEFINE j == child[c].work.job
<1>1. child[c].work.at = "complete" /\ UNCHANGED <<now, receipts, sums, forks>>
  BY DEF Complete
<1>2. child[c].work.at \in Serving /\ child[c].work \in Work /\ j \in Jobs /\ Reports(c)
  BY <1>1, WorkForms, PhasesApart DEF WorkerInv, Typed, Process, Reports, Delivering, Posting
<1>3. CASE Sets(c, Transaction(j, 1)) /\ Becomes(j, "settling")
  <2> DEFINE w == Transaction(j, 1)
  <2>1. w \in Work /\ w.at = "claim" /\ w.job = j /\ w.rows = {} /\ w.left = Charges[j].buckets
    BY <1>2, TransactionBegins
  <2>2. w.at \in Writing /\ w.at \notin Serving
    BY <2>1, PhasesApart DEF Writing
  <2> HIDE DEF w
  <2>3. /\ child' \in [Children -> Process] /\ Alone(c) /\ child'[c].work = w
        /\ Equipped(child'[c]) /\ Enters(c) /\ Excludes(c)
    BY <1>2, <1>3, <2>1, <2>2, ServesOn DEF w
  <2>4. job' \in [Jobs -> JobRow] /\ job'[j].at = "settling" /\ \A k \in Jobs : Sealed(job'[k]) /\ Changed(c, k)
    BY <1>2, <1>3, ServedJob
  <2>5. Follows(w, job') /\ Consistent(w) /\ Accounts(w, receipts', sums')
    BY <2>1, <2>2, <2>4, PhasesApart DEF Follows, Consistent, Accounts, Delivering, Posting
  <2>6. Typed'
    BY <1>1, <2>3, <2>4 DEF WorkerInv, Typed
  <2> QED BY <1>1, <1>2, <2>1, <2>3, <2>4, <2>5, <2>6 DEF Acts
<1>4. CASE Sets(c, Idle) /\ UNCHANGED job
  <2>1. Typed'
    BY <1>1, <1>4, Rests, SameJob DEF WorkerInv, Typed
  <2> QED BY <1>1, <1>4, <2>1, Rests, SameJob DEF Acts
<1> QED BY <1>3, <1>4 DEF Complete

(* A request takes some of the items that are left.                        *)
LEMMA SomeBatch ==
  ASSUME NEW w \in DeliveryWork
  PROVE  Batch(w) \subseteq w.left /\ (w.left # {} => Batch(w) # {})
<1>1. Batch(w) \subseteq w.left
  BY DEF Batch
<1> DEFINE R == OpToRel(<, Nat)
<1>2. ASSUME w.left # {}
      PROVE  Batch(w) # {}
  <2>1. w.left \subseteq Nat
    BY DEF DeliveryWork
  <2>a. IsWellFoundedOn(R, Nat)
    BY NatLessThanWellFounded
  <2>b. \E i \in w.left : \A k \in w.left : ~(<<k, i>> \in R)
    <3> HIDE DEF R
    <3> QED BY <1>2, <2>1, <2>a, WFMin
  <2>2. PICK i \in w.left : \A k \in w.left : ~(<<k, i>> \in R)
    BY <2>b
  <2>3. {k \in w.left : k < i} = {}
    BY <2>1, <2>2 DEF OpToRel
  <2>4. Cardinality({k \in w.left : k < i}) = 0
    BY <2>3, FS_EmptySet
  <2>5. 0 < GroupSize
    BY WorkerAssumption
  <2> QED BY <2>4, <2>5 DEF Batch
<1> QED BY <1>1, <1>2

(* The answer to a request, as the delivery takes it.                      *)
OutcomeOK(w, o) ==
  /\ o.at = "failed" => w.shown = {} /\ o.job = w.job
  /\ o.at \notin {"failed", "uncertain"} =>
       /\ o \in DeliveryWork /\ o.job = w.job /\ Consistent(o)
       /\ o.at \in Posting \cup {"download", "complete"}

LEMMA RequestMessages ==
  ASSUME NEW w \in DeliveryWork, w.at \in Posting
  PROVE  /\ Messages(w) \subseteq Message
         /\ w.at \in {"group", "upload"} => Messages(w) = {"item"} \X Batch(w)
         /\ w.at = "edit" => Messages(w) = {Placeholder}
         /\ w.at = "delete" => Messages(w) = {}
         /\ w.at \in {"separate", "text", "placeholder", "notice"} => Messages(w) = {<<w.at, 0>>}
<1>1. Batch(w) \subseteq Nat
  BY SomeBatch DEF DeliveryWork
<1>2. CASE w.at \in {"group", "upload"}
  <2>1. Messages(w) = {"item"} \X Batch(w)
    BY <1>2 DEF Messages
  <2> QED BY <1>1, <1>2, <2>1 DEF Message
<1>3. CASE w.at = "edit"
  <2>1. Messages(w) = {Placeholder}
    BY <1>3 DEF Messages
  <2>2. Placeholder \in Message
    BY DEF Placeholder, Message, Posting
  <2> QED BY <1>3, <2>1, <2>2
<1>4. CASE w.at = "delete"
  BY <1>4 DEF Messages
<1>5. CASE w.at \notin {"group", "upload", "edit", "delete"}
  <2>1. Messages(w) = {<<w.at, 0>>}
    BY <1>5 DEF Messages
  <2>2. <<w.at, 0>> \in Message
    BY DEF Message
  <2> QED BY <1>5, <2>1, <2>2
<1> QED BY <1>2, <1>3, <1>4, <1>5

LEMMA NamedMessages ==
  ASSUME NEW w \in DeliveryWork, w.at \in Posting, NEW answer
  PROVE  /\ Named(w, answer) \subseteq Messages(w)
         /\ answer = "ok" => Named(w, answer) = Messages(w)
         /\ answer \in Refusals => Named(w, answer) = {}
<1>1. CASE answer = "ok"
  BY <1>1 DEF Named, Refusals
<1>2. CASE answer = "short" /\ w.at \in {"group", "upload"}
  <2>1. Named(w, answer) = {"item"} \X {i \in Batch(w) : \E k \in Batch(w) : i < k}
    BY <1>2 DEF Named
  <2> QED BY <1>2, <2>1, RequestMessages DEF Refusals
<1>3. CASE answer # "ok" /\ ~(answer = "short" /\ w.at \in {"group", "upload"})
  BY <1>3 DEF Named
<1> QED BY <1>1, <1>2, <1>3

(* A request that was accepted: e is the delivery that counts its messages.*)
LEMMA AcceptedOK ==
  ASSUME NEW w \in DeliveryWork, w.at \in Posting \ {"delete"}, Consistent(w),
         NEW e \in DeliveryWork, e.at = w.at, e.job = w.job, e.left = w.left,
         e.shown = w.shown \cup Messages(w), e.told = w.shown \cup Messages(w)
  PROVE  OutcomeOK(w, Accepted(e))
<1> DEFINE o == Accepted(e)
<1>1. CASE w.at = "separate"
  <2>1. o = [e EXCEPT !.at = "group"]
    BY <1>1 DEF Accepted
  <2>2. o \in DeliveryWork /\ o.at = "group" /\ o.job = w.job /\ o.left = w.left
        /\ o.shown = e.shown /\ o.told = e.told
    BY <2>1 DEF DeliveryWork, Delivering, Posting
  <2>3. w.left # {} /\ ({"item"} \X w.left) \cap w.shown = {}
    BY <1>1 DEF Consistent
  <2>4. Messages(w) = {<<"separate", 0>>}
    BY <1>1, RequestMessages
  <2>5. ({"item"} \X w.left) \cap e.shown = {}
    BY <2>3, <2>4
  <2> HIDE DEF o
  <2>6. Consistent(o)
    BY <2>2, <2>3, <2>5 DEF Consistent, Posting
  <2> QED BY <2>2, <2>6 DEF OutcomeOK, Posting, o
<1>2. CASE w.at \in {"group", "upload"}
  <2> DEFINE B == Batch(w)
  <2>0. Batch(e) = B
    BY DEF Batch
  <2>1. o = [e EXCEPT !.left = @ \ B, !.at = IF e.left = B THEN AfterGroups(e) ELSE @]
    BY <1>2, <2>0 DEF Accepted
  <2>2. /\ w.left # {} /\ ({"item"} \X w.left) \cap w.shown = {} /\ B \subseteq w.left /\ B # {}
        /\ w.left \subseteq Nat
    BY <1>2, SomeBatch DEF Consistent, DeliveryWork
  <2>3. Messages(w) = {"item"} \X B
    BY <1>2, RequestMessages
  <2> HIDE DEF B
  <2>4. AfterGroups(e) \in {"delete", "complete"} /\ (AfterGroups(e) = "delete" => w.at = "upload")
    BY DEF AfterGroups
  <2>5. /\ o \in DeliveryWork /\ o.job = w.job /\ o.left = w.left \ B /\ o.shown = e.shown /\ o.told = e.told
        /\ o.at = IF w.left = B THEN AfterGroups(e) ELSE w.at
    BY <1>2, <2>1, <2>2, <2>4 DEF DeliveryWork, Delivering, Posting
  <2>6. ({"item"} \X (w.left \ B)) \cap e.shown = {}
    BY <2>2, <2>3
  <2>7. Items(e) # {} /\ e.told # {}
    <3>1. PICK i \in B : TRUE
      BY <2>2
    <3>2. <<"item", i>> \in e.told /\ <<"item", i>>[1] = "item"
      BY <2>3, <3>1
    <3> QED BY <3>2 DEF Items
  <2>8. Items(o) = Items(e)
    BY <2>5 DEF Items
  <2> HIDE DEF o
  <2>9. CASE w.left = B
    <3>1. Consistent(o)
      BY <2>4, <2>5, <2>7, <2>8, <2>9 DEF Consistent, Posting
    <3> QED BY <2>4, <2>5, <2>9, <3>1 DEF OutcomeOK, Posting, o
  <2>10. CASE w.left # B
    <3>0. o.left # {} /\ o.at \in {"group", "upload"}
      BY <1>2, <2>2, <2>5, <2>10
    <3>1. Consistent(o)
      BY <2>5, <2>6, <3>0 DEF Consistent, Posting
    <3> QED BY <2>5, <3>0, <3>1 DEF OutcomeOK, Posting, o
  <2> QED BY <2>9, <2>10
<1>3. CASE w.at = "placeholder"
  <2>1. o = [e EXCEPT !.at = "download"]
    BY <1>3 DEF Accepted
  <2>2. o \in DeliveryWork /\ o.at = "download" /\ o.job = w.job /\ o.shown = e.shown /\ o.told = e.told
    BY <2>1 DEF DeliveryWork, Delivering, Posting
  <2>3. Items(w) = {} /\ w.shown = w.told
    BY <1>3 DEF Consistent
  <2>4. Messages(w) = {<<"placeholder", 0>>}
    BY <1>3, RequestMessages
  <2>5. Items(o) = {}
    BY <2>2, <2>3, <2>4 DEF Items
  <2> HIDE DEF o
  <2>6. Consistent(o)
    BY <2>2, <2>5 DEF Consistent, Posting
  <2> QED BY <2>2, <2>6 DEF OutcomeOK, Posting, o
<1>4. CASE w.at \in {"text", "edit", "notice"}
  <2>1. o = [e EXCEPT !.at = "complete"]
    BY <1>4 DEF Accepted
  <2>2. o \in DeliveryWork /\ o.at = "complete" /\ o.job = w.job /\ o.shown = e.shown /\ o.told = e.told
    BY <2>1 DEF DeliveryWork, Delivering, Posting
  <2>3. Messages(w) # {}
    BY <1>4, RequestMessages
  <2> HIDE DEF o
  <2>4. Consistent(o)
    BY <2>2, <2>3 DEF Consistent, Posting
  <2> QED BY <2>2, <2>4 DEF OutcomeOK, Posting, o
<1> QED BY <1>1, <1>2, <1>3, <1>4 DEF Posting

LEMMA RefusedOK ==
  ASSUME NEW w \in DeliveryWork, w.at \in Posting \ {"delete"}, Consistent(w), NEW reason
  PROVE  OutcomeOK(w, Refused(w, reason))
<1> DEFINE o == Refused(w, reason)
<1>1. w.shown = w.told
  BY DEF Consistent
<1>2. CASE \E at \in {"placeholder", "notice"} : Items(w) = {} /\ o = [w EXCEPT !.at = at]
  <2>1. PICK at \in {"placeholder", "notice"} : Items(w) = {} /\ o = [w EXCEPT !.at = at]
    BY <1>2
  <2>2. o \in DeliveryWork /\ o.at = at /\ o.job = w.job /\ o.shown = w.shown /\ o.told = w.told /\ Items(o) = {}
    BY <2>1 DEF DeliveryWork, Delivering, Posting, Items
  <2> HIDE DEF o
  <2>3. Consistent(o)
    BY <1>1, <2>2 DEF Consistent, Posting
  <2> QED BY <2>1, <2>2, <2>3 DEF OutcomeOK, Posting, o
<1>3. CASE o = [w EXCEPT !.at = "edit"]
  <2>1. o \in DeliveryWork /\ o.at = "edit" /\ o.job = w.job /\ o.shown = w.shown /\ o.told = w.told
    BY <1>3 DEF DeliveryWork, Delivering, Posting
  <2> HIDE DEF o
  <2>2. Consistent(o)
    BY <1>1, <2>1 DEF Consistent, Posting
  <2> QED BY <2>1, <2>2 DEF OutcomeOK, Posting, o
<1>4. CASE o = [w EXCEPT !.at = IF w.told = {} THEN "failed" ELSE "uncertain"]
  <2>1. o.at = (IF w.told = {} THEN "failed" ELSE "uncertain") /\ o.job = w.job
    BY <1>4 DEF DeliveryWork
  <2> HIDE DEF o
  <2> QED BY <1>1, <2>1 DEF OutcomeOK, o
<1> QED
  <2>1. CASE w.at = "group" /\ Items(w) = {} /\ reason = "fetch"
    <3>1. o = [w EXCEPT !.at = "placeholder"]
      BY <2>1 DEF Refused
    <3> QED BY <1>2, <2>1, <3>1
  <2>2. CASE w.at = "group" /\ Items(w) = {} /\ reason = "too large"
    <3>1. o = [w EXCEPT !.at = "notice"]
      BY <2>2 DEF Refused
    <3> QED BY <1>2, <2>2, <3>1
  <2>3. CASE w.at = "upload" /\ Items(w) = {}
    <3>1. o = [w EXCEPT !.at = "edit"]
      BY <2>3 DEF Refused
    <3> QED BY <1>3, <3>1
  <2>4. CASE /\ ~(w.at = "group" /\ Items(w) = {} /\ reason = "fetch")
             /\ ~(w.at = "group" /\ Items(w) = {} /\ reason = "too large")
             /\ ~(w.at = "upload" /\ Items(w) = {})
    <3>1. o = [w EXCEPT !.at = IF w.told = {} THEN "failed" ELSE "uncertain"]
      BY <2>4 DEF Refused
    <3> QED BY <1>4, <3>1
  <2> QED BY <2>1, <2>2, <2>3, <2>4

LEMMA DeletedOK ==
  ASSUME NEW w \in DeliveryWork, w.at = "delete", Consistent(w), NEW answer
  PROVE  OutcomeOK(w, Outcome(w, answer))
<1> DEFINE o == Outcome(w, answer)
           shown == IF Done(answer) THEN w.shown \ {Placeholder} ELSE w.shown
<1>1. o = [w EXCEPT !.at = "complete", !.told = w.told \ {Placeholder}, !.shown = shown]
  BY DEF Outcome, DeliveryWork
<1>2. /\ o \in DeliveryWork /\ o.at = "complete" /\ o.job = w.job
      /\ o.told = w.told \ {Placeholder} /\ o.shown \subseteq w.shown
  <2>1. shown \subseteq w.shown /\ shown \subseteq Message /\ w.told \ {Placeholder} \subseteq Message
    BY DEF DeliveryWork
  <2>2. "complete" \in Delivering
    BY DEF Delivering
  <2> HIDE DEF shown, o
  <2> QED BY <1>1, <2>1, <2>2 DEF DeliveryWork
<1>3. w.shown = w.told /\ Items(w) # {}
  BY DEF Consistent, Posting
<1>4. o.told # {}
  <2>1. PICK m \in w.told : m[1] = "item"
    BY <1>3 DEF Items
  <2>2. m # Placeholder
    BY <2>1 DEF Placeholder
  <2> QED BY <1>2, <2>1, <2>2
<1> HIDE DEF o
<1>5. Consistent(o)
  BY <1>2, <1>3, <1>4 DEF Consistent, Posting
<1> QED BY <1>2, <1>5 DEF OutcomeOK, o

LEMMA AnsweredOK ==
  ASSUME NEW w \in DeliveryWork, w.at \in Posting, Consistent(w), NEW answer \in Answers
  PROVE  OutcomeOK(w, Outcome(w, answer))
<1> DEFINE e == [w EXCEPT !.shown = @ \cup (IF Done(answer) THEN Messages(w) ELSE {}),
                          !.told = @ \cup Named(w, answer)]
           new == IF Done(answer) THEN Messages(w) ELSE {}
<1>1. CASE w.at = "delete"
  BY <1>1, DeletedOK
<1>2. CASE w.at # "delete"
  <2>0. Messages(w) \subseteq Message /\ Named(w, answer) \subseteq Messages(w) /\ new \subseteq Messages(w)
    BY RequestMessages, NamedMessages
  <2>1. /\ e \in DeliveryWork /\ e.at = w.at /\ e.job = w.job /\ e.left = w.left
        /\ e.shown = w.shown \cup new /\ e.told = w.told \cup Named(w, answer)
    <3> HIDE DEF new
    <3>1. e = [w EXCEPT !.shown = w.shown \cup new, !.told = w.told \cup Named(w, answer)]
      BY DEF new, DeliveryWork
    <3> HIDE DEF e
    <3> QED BY <2>0, <3>1 DEF DeliveryWork
  <2>2. w.shown = w.told
    BY <1>2 DEF Consistent
  <2>3. Outcome(w, answer) = CASE answer = "ok" -> Accepted(e)
                               [] answer \in Refusals -> Refused(e, answer)
                               [] OTHER -> [e EXCEPT !.at = "uncertain"]
    BY <1>2 DEF Outcome
  <2> HIDE DEF e, new
  <2>4. CASE answer = "ok"
    <3>1. Named(w, answer) = Messages(w) /\ new = Messages(w) /\ Outcome(w, answer) = Accepted(e)
      BY <2>3, <2>4, NamedMessages DEF new, Done, Refusals
    <3>2. e.shown = w.shown \cup Messages(w) /\ e.told = w.shown \cup Messages(w)
      BY <2>1, <2>2, <3>1
    <3> QED BY <1>2, <2>1, <3>1, <3>2, AcceptedOK
  <2>5. CASE answer \in Refusals
    <3>1. Named(w, answer) = {} /\ new = {} /\ Outcome(w, answer) = Refused(e, answer)
      BY <2>3, <2>5, NamedMessages DEF new, Done, Refusals
    <3>2. e.shown = w.shown /\ e.told = w.told
      BY <2>1, <3>1
    <3>3. Consistent(e)
      BY <2>1, <3>2 DEF Consistent, Items
    <3>4. OutcomeOK(e, Outcome(w, answer))
      BY <1>2, <2>1, <3>1, <3>3, RefusedOK
    <3> QED BY <2>1, <3>2, <3>4 DEF OutcomeOK
  <2>6. CASE answer # "ok" /\ answer \notin Refusals
    <3>1. Outcome(w, answer) = [e EXCEPT !.at = "uncertain"]
      BY <2>3, <2>6
    <3>2. Outcome(w, answer).at = "uncertain"
      BY <2>1, <3>1 DEF DeliveryWork
    <3> QED BY <3>2 DEF OutcomeOK
  <2> QED BY <2>4, <2>5, <2>6
<1> QED BY <1>1, <1>2

LEMMA PostActs ==
  ASSUME WorkerInv, NEW c \in Children, NEW answer \in Answers, Post(c, answer)
  PROVE  Acts(c) /\ UNCHANGED <<receipts, sums>>
<1> DEFINE w == child[c].work  o == Outcome(w, answer)
<1>1. w.at \in Posting /\ Ends(c, o) /\ UNCHANGED <<now, receipts, sums, forks>>
  BY DEF Post
<1>2. /\ w \in Work /\ w \in DeliveryWork /\ w.at \in Serving /\ w.at \in Delivering /\ w.job \in Jobs
      /\ Consistent(w) /\ job[w.job].at = "uncertain"
  BY <1>1, WorkForms, PhasesApart DEF WorkerInv, Typed, Process, Follows
<1>3. OutcomeOK(w, o)
  BY <1>1, <1>2, AnsweredOK
<1> HIDE DEF o
<1>5. CASE o.at = "failed"
  <2>0. o.job = w.job
    BY <1>3, <1>5 DEF OutcomeOK
  <2>1. Sets(c, Idle) /\ Becomes(w.job, "failed")
    BY <1>1, <1>5, <2>0 DEF Ends, Stops
  <2>2. Typed'
    BY <1>1, <1>2, <2>1, Rests, ServedJob DEF WorkerInv, Typed
  <2>3. Reports(c)
    BY <1>3, <1>5 DEF OutcomeOK, Reports
  <2> QED BY <1>1, <1>2, <2>1, <2>2, <2>3, Rests, ServedJob DEF Acts
<1>6. CASE o.at = "uncertain"
  <2>1. Sets(c, Idle) /\ UNCHANGED job
    BY <1>1, <1>6 DEF Ends
  <2>2. Typed'
    BY <1>1, <2>1, Rests, SameJob DEF WorkerInv, Typed
  <2> QED BY <1>1, <2>1, <2>2, Rests, SameJob DEF Acts
<1>7. CASE o.at \notin {"failed", "uncertain"}
  <2>1. Sets(c, o) /\ UNCHANGED job
    BY <1>1, <1>7 DEF Ends
  <2>2. /\ o \in DeliveryWork /\ o \in Work /\ o.job = w.job /\ Consistent(o)
        /\ o.at \in Delivering /\ o.at \in Serving /\ o.at \notin Writing
    BY <1>3, <1>7, PhasesApart DEF OutcomeOK, Work, DeliveryWork
  <2>3. /\ child' \in [Children -> Process] /\ Alone(c) /\ child'[c].work = o
        /\ Equipped(child'[c]) /\ Enters(c) /\ Excludes(c)
    BY <1>2, <2>1, <2>2, ServesOn
  <2>4. Follows(o, job') /\ Accounts(o, receipts', sums')
    BY <1>2, <2>1, <2>2, PhasesApart DEF Follows, Accounts, Writing
  <2>5. Typed'
    BY <1>1, <2>1, <2>3, SameJob DEF WorkerInv, Typed
  <2> QED BY <1>1, <2>1, <2>2, <2>3, <2>4, <2>5, SameJob DEF Acts
<1> QED BY <1>5, <1>6, <1>7

LEMMA DownloadActs ==
  ASSUME WorkerInv, NEW c \in Children, Download(c)
  PROVE  Acts(c) /\ UNCHANGED <<receipts, sums>>
<1> DEFINE w == child[c].work
<1>1. w.at = "download" /\ UNCHANGED <<now, job, receipts, sums, forks>>
  BY DEF Download
<1>2. /\ w \in DeliveryWork /\ w.at \in Serving /\ w.job \in Jobs
      /\ Consistent(w) /\ job[w.job].at = "uncertain"
  BY <1>1, WorkForms, PhasesApart DEF WorkerInv, Typed, Process, Follows, Delivering
<1>3. PICK kept \in SUBSET w.left :
        Sets(c, [w EXCEPT !.left = kept, !.at = IF kept = {} THEN "edit" ELSE "upload"])
  BY DEF Download
<1> DEFINE o == [w EXCEPT !.left = kept, !.at = IF kept = {} THEN "edit" ELSE "upload"]
<1>4. /\ o \in DeliveryWork /\ o.job = w.job /\ o.left = kept /\ o.shown = w.shown /\ o.told = w.told
      /\ o.at = IF kept = {} THEN "edit" ELSE "upload"
  BY <1>2 DEF DeliveryWork, Delivering, Posting
<1> HIDE DEF o
<1>5. o \in Work /\ o.at \in Posting /\ o.at \in Delivering /\ o.at \in Serving /\ o.at \notin Writing
  BY <1>4, PhasesApart DEF Work, Posting
<1>6. Consistent(o)
  <2>1. w.shown = w.told /\ Items(w) = {}
    BY <1>1, <1>2 DEF Consistent
  <2>2. ({"item"} \X kept) \cap w.shown = {}
    <3>1. \A i \in kept : <<"item", i>>[1] = "item"
      OBVIOUS
    <3> QED BY <2>1, <3>1 DEF Items
  <2> QED BY <1>4, <1>5, <2>1, <2>2 DEF Consistent
<1>7. /\ child' \in [Children -> Process] /\ Alone(c) /\ child'[c].work = o
      /\ Equipped(child'[c]) /\ Enters(c) /\ Excludes(c)
  BY <1>2, <1>3, <1>4, <1>5, ServesOn DEF o
<1>8. Follows(o, job') /\ Accounts(o, receipts', sums')
  BY <1>1, <1>2, <1>4, <1>5, PhasesApart DEF Follows, Accounts, Writing
<1>9. Typed'
  BY <1>1, <1>7, SameJob DEF WorkerInv, Typed
<1> QED BY <1>1, <1>6, <1>7, <1>8, <1>9, SameJob DEF Acts

(***************************************************************************)
(* The transaction of a charge.                                            *)
(***************************************************************************)
LEMMA WritingOn ==
  ASSUME WorkerInv, NEW c \in Children, child[c].work.at \in Writing,
         NEW w \in LedgerWork, w.job = child[c].work.job, Sets(c, w), UNCHANGED job
  PROVE  /\ child' \in [Children -> Process] /\ Alone(c) /\ child'[c].work = w
         /\ Equipped(child'[c]) /\ Enters(c) /\ Follows(w, job') /\ Consistent(w)
<1>1. w \in Work /\ w.at \in Writing /\ w.at \notin Serving
  BY PhasesApart DEF Work, LedgerWork
<1>2. child[c].hooks # {} /\ job[w.job].at \in {"settling", "charged"}
  BY DEF WorkerInv, Equipped, Follows
<1>3. child' \in [Children -> Process] /\ Alone(c) /\ child'[c].work = w /\ Equipped(child'[c])
  BY <1>1, <1>2, GoesOn DEF Writing
<1>4. Enters(c)
  BY <1>1, <1>3 DEF Enters
<1>5. Follows(w, job') /\ Consistent(w)
  BY <1>1, <1>2, PhasesApart DEF Follows, Consistent, Delivering, Posting
<1> QED BY <1>3, <1>4, <1>5

LEMMA ChargedJob ==
  ASSUME WorkerInv, NEW c \in Children, child[c].work.at \in Writing,
         child[c].work.job \in receipts', Becomes(child[c].work.job, "charged")
  PROVE  /\ job' \in [Jobs -> JobRow] /\ Reports(c) /\ child[c].work.job \in Jobs
         /\ \A j \in Jobs : Sealed(job'[j]) /\ Changed(c, j)
<1> DEFINE j == child[c].work.job
<1>1. child[c].work \in Work /\ Typed
  BY DEF WorkerInv, Typed, Process
<1>2. j \in Jobs /\ job[j].at \in {"settling", "charged"}
  BY <1>1, WorkForms DEF WorkerInv, Follows
<1>3. /\ job' \in [Jobs -> JobRow] /\ job'[j].at = "charged" /\ job'[j].lapse = job[j].lapse
      /\ \A k \in Jobs \ {j} : job'[k] = job[k]
  BY <1>1, <1>2, BecomesJob
<1>4. Sealed(job'[j])
  <2>1. job[j] # NoJob
    BY <1>2 DEF NoJob
  <2>2. job[j].lapse >= Deadline
    BY <1>2, <2>1 DEF WorkerInv, Sealed
  <2> QED BY <1>3, <2>2 DEF Sealed
<1>5. ASSUME NEW k \in Jobs
      PROVE  Sealed(job'[k]) /\ Changed(c, k)
  <2>1. CASE k = j
    BY <1>2, <1>3, <1>4, <2>1 DEF Changed
  <2>2. CASE k # j
    BY <1>3, <2>2 DEF Changed, WorkerInv
  <2> QED BY <2>1, <2>2
<1>6. Reports(c)
  BY PhasesApart DEF Reports
<1> QED BY <1>2, <1>3, <1>5, <1>6

LEMMA ClaimActs ==
  ASSUME WorkerInv, NEW c \in Children, Claim(c)
  PROVE  Acts(c) /\ UNCHANGED <<receipts, sums>>
<1> DEFINE w == child[c].work
<1>1. w.at = "claim" /\ Free(c, <<"event", w.job>>) /\ UNCHANGED <<now, receipts, sums, forks>>
  BY DEF Claim
<1>2. w \in LedgerWork /\ w.at \in Writing /\ w.job \in Jobs /\ w.left = Charges[w.job].buckets
  BY <1>1, WorkForms DEF WorkerInv, Typed, Process, Accounts, Writing
<1>3. CASE w.job \in receipts /\ Stops(c, w.job, "charged")
  <2>1. Sets(c, Idle) /\ Becomes(w.job, "charged") /\ w.job \in receipts'
    BY <1>1, <1>3 DEF Stops
  <2>2. Typed'
    BY <1>1, <1>2, <2>1, Rests, ChargedJob DEF WorkerInv, Typed
  <2> QED BY <1>1, <1>2, <2>1, <2>2, Rests, ChargedJob DEF Acts
<1>4. CASE /\ w.job \notin receipts /\ UNCHANGED job
           /\ Sets(c, [w EXCEPT !.at = "charge", !.rows = {<<"event", w.job>>}])
  <2> DEFINE o == [w EXCEPT !.at = "charge", !.rows = {<<"event", w.job>>}]
  <2>1. <<"event", w.job>> \in LockedRow
    BY <1>2 DEF LockedRow
  <2>2. o \in LedgerWork /\ o.at = "charge" /\ o.job = w.job /\ o.left = w.left /\ o.rows = {<<"event", w.job>>}
    BY <1>2, <2>1 DEF LedgerWork, Writing
  <2> HIDE DEF o
  <2>3. /\ child' \in [Children -> Process] /\ Alone(c) /\ child'[c].work = o
        /\ Equipped(child'[c]) /\ Enters(c) /\ Follows(o, job') /\ Consistent(o)
    BY <1>2, <1>4, <2>2, WritingOn DEF o
  <2>4. Excludes(c)
    BY <1>1, <2>2, <2>3 DEF Excludes, Free, Holds
  <2>5. Charges[w.job].buckets # << >>
    BY <1>2, WorkerAssumption
  <2>6. \A b : <<"sum", b>> # <<"event", w.job>>
    OBVIOUS
  <2>7. Accounts(o, receipts', sums')
    BY <1>1, <1>2, <1>4, <2>2, <2>5, <2>6 DEF Accounts
  <2>8. Typed'
    BY <1>1, <1>4, <2>3, SameJob DEF WorkerInv, Typed
  <2> QED BY <1>1, <1>4, <2>3, <2>4, <2>7, <2>8, SameJob DEF Acts
<1> QED BY <1>3, <1>4 DEF Claim

LEMMA RestOfSequence ==
  ASSUME NEW S, NEW s \in Seq(S), s # << >>
  PROVE  /\ Head(s) \in S /\ Tail(s) \in Seq(S)
         /\ ToSet(s) \subseteq {Head(s)} \cup ToSet(Tail(s))
         /\ Len(s) = 1 <=> Tail(s) = << >>
<1>1. /\ Head(s) \in S /\ Tail(s) \in Seq(S) /\ Len(Tail(s)) = Len(s) - 1
      /\ \A i \in 1..Len(Tail(s)) : Tail(s)[i] = s[i+1]
  BY HeadTailProperties
<1>2. Len(s) \in Nat /\ DOMAIN s = 1..Len(s) /\ Head(s) = s[1] /\ DOMAIN Tail(s) = 1..Len(Tail(s))
  BY <1>1
<1>3. ASSUME NEW x \in ToSet(s), x # Head(s)
      PROVE  x \in ToSet(Tail(s))
  <2>1. PICK i \in 1..Len(s) : x = s[i]
    BY <1>2 DEF ToSet
  <2>2. i # 1 /\ i - 1 \in 1..Len(Tail(s)) /\ (i - 1) + 1 = i
    BY <1>1, <1>2, <1>3, <2>1
  <2>3. Tail(s)[i-1] = x
    BY <1>1, <2>1, <2>2
  <2> QED BY <1>2, <2>2, <2>3 DEF ToSet
<1>4. Len(s) = 1 <=> Tail(s) = << >>
  <2>1. Tail(s) = << >> <=> Len(Tail(s)) = 0
    BY <1>1, EmptySeq
  <2> QED BY <1>1, <1>2, <2>1
<1> QED BY <1>1, <1>3, <1>4

LEMMA ChargeTypes ==
  ASSUME NEW j \in Jobs
  PROVE  /\ Capacity \in Nat /\ Charges[j].amount \in Nat /\ Charges[j].amount <= Capacity
         /\ Charges[j].buckets \in Seq(Buckets) /\ ToSet(Charges[j].buckets) \subseteq Buckets
<1>1. Capacity \in Nat /\ Charges[j].amount \in 1..Capacity /\ Charges[j].buckets \in Seq(Buckets)
  BY WorkerAssumption
<1>2. ToSet(Charges[j].buckets) \subseteq Buckets
  BY DEF Buckets
<1> QED BY <1>1, <1>2

LEMMA ChargeActs ==
  ASSUME WorkerInv, NEW c \in Children, Charge(c)
  PROVE  Acts(c) /\ UNCHANGED <<receipts, sums>>
<1> DEFINE w == child[c].work  b == Head(w.left)
<1>1. w.at = "charge" /\ Free(c, <<"sum", b>>) /\ UNCHANGED <<now, job, receipts, sums, forks>>
  BY DEF Charge
<1>2. w \in LedgerWork /\ w.at \in Writing /\ w.job \in Jobs /\ w.left # << >> /\ Accounts(w, receipts, sums)
  BY <1>1, WorkForms DEF WorkerInv, Typed, Process, Accounts, Writing
<1>3. w.left \in Seq(Buckets)
  BY <1>2 DEF LedgerWork
<1>4. /\ b \in Buckets /\ Tail(w.left) \in Seq(Buckets)
      /\ ToSet(w.left) \subseteq {b} \cup ToSet(Tail(w.left))
      /\ Len(w.left) = 1 <=> Tail(w.left) = << >>
  BY <1>2, <1>3, RestOfSequence
<1>5. CASE Sets(c, Idle)
  <2>1. Typed'
    BY <1>1, <1>5, Rests, SameJob DEF WorkerInv, Typed
  <2> QED BY <1>1, <1>5, <2>1, Rests, SameJob DEF Acts
<1>6. CASE /\ ~(sums[b] > Capacity - Charges[w.job].amount)
           /\ Sets(c, [w EXCEPT !.left = Tail(@), !.rows = @ \cup {<<"sum", b>>},
                                !.at = IF Len(w.left) = 1 THEN "commit" ELSE @])
  <2> DEFINE o == [w EXCEPT !.left = Tail(@), !.rows = @ \cup {<<"sum", b>>},
                            !.at = IF Len(w.left) = 1 THEN "commit" ELSE @]
  <2>1. <<"sum", b>> \in LockedRow
    BY <1>4 DEF LockedRow
  <2>2. /\ o \in LedgerWork /\ o.job = w.job /\ o.left = Tail(w.left) /\ o.rows = w.rows \cup {<<"sum", b>>}
        /\ o.at = IF Len(w.left) = 1 THEN "commit" ELSE "charge"
    BY <1>1, <1>2, <1>4, <2>1 DEF LedgerWork, Writing
  <2> HIDE DEF o
  <2>3. /\ child' \in [Children -> Process] /\ Alone(c) /\ child'[c].work = o
        /\ Equipped(child'[c]) /\ Enters(c) /\ Follows(o, job') /\ Consistent(o)
    BY <1>1, <1>2, <1>6, <2>2, WritingOn DEF o
  <2>4. Excludes(c)
    <3> SUFFICES ASSUME NEW k \in Children \ {c}, child[k].work.at \in Writing
                 PROVE  o.rows \cap child[k].work.rows = {}
      BY <2>3 DEF Excludes
    <3>1. w.rows \cap child[k].work.rows = {}
      BY <1>2 DEF WorkerInv, Apart
    <3>2. <<"sum", b>> \notin child[k].work.rows
      BY <1>1 DEF Free, Holds
    <3> QED BY <2>2, <3>1, <3>2
  <2>5. sums[b] <= Capacity - Charges[w.job].amount
    <3>1. Capacity \in Nat /\ Charges[w.job].amount \in Nat
      BY <1>2, ChargeTypes
    <3>2. sums[b] \in Nat
      BY <1>4 DEF WorkerInv, Typed
    <3> QED BY <1>6, <3>1, <3>2
  <2>6. o.at = "charge" => o.left # << >>
    BY <1>4, <2>2
  <2>7. o.at = "commit" => o.left = << >>
    BY <1>4, <2>2
  <2>8. \A x \in ToSet(Charges[o.job].buckets) : x \in ToSet(o.left) \/ <<"sum", x>> \in o.rows
    BY <1>1, <1>2, <1>4, <2>2 DEF Accounts
  <2>9. \A x \in Buckets : <<"sum", x>> \in o.rows => sums[x] <= Capacity - Charges[o.job].amount
    <3> SUFFICES ASSUME NEW x \in Buckets, <<"sum", x>> \in o.rows
                 PROVE  sums[x] <= Capacity - Charges[w.job].amount
      BY <2>2
    <3>1. CASE x = b
      BY <2>5, <3>1
    <3>2. CASE x # b
      <4>1. <<"sum", x>> \in w.rows
        BY <2>2, <3>2
      <4> QED BY <1>1, <1>2, <4>1 DEF Accounts
    <3> QED BY <3>1, <3>2
  <2>10. <<"event", o.job>> \in o.rows /\ o.job \notin receipts
    BY <1>1, <1>2, <2>2 DEF Accounts
  <2>11. Accounts(o, receipts', sums')
    BY <1>1, <2>2, <2>6, <2>7, <2>8, <2>9, <2>10 DEF Accounts
  <2>12. Typed'
    BY <1>1, <2>3, SameJob DEF WorkerInv, Typed
  <2> QED BY <1>1, <2>3, <2>4, <2>11, <2>12, SameJob DEF Acts
<1> QED BY <1>5, <1>6 DEF Charge

LEMMA AbortActs ==
  ASSUME WorkerInv, NEW c \in Children, NEW conflict, Abort(c, conflict)
  PROVE  Acts(c) /\ UNCHANGED <<receipts, sums>>
<1> DEFINE w == child[c].work  o == Transaction(w.job, w.attempt + 1)
<1>1. w.at \in Writing /\ UNCHANGED <<now, job, receipts, sums, forks>>
  BY DEF Abort
<1>2. w \in LedgerWork /\ w.job \in Jobs /\ w.attempt + 1 \in Nat
  BY <1>1, WorkForms DEF WorkerInv, Typed, Process, LedgerWork
<1>3. CASE Sets(c, Idle)
  <2>1. Typed'
    BY <1>1, <1>3, Rests, SameJob DEF WorkerInv, Typed
  <2> QED BY <1>1, <1>3, <2>1, Rests, SameJob DEF Acts
<1>4. CASE Sets(c, o)
  <2>1. /\ o \in LedgerWork /\ o.at = "claim" /\ o.job = w.job /\ o.rows = {} /\ o.left = Charges[w.job].buckets
    BY <1>2, WorkerAssumption DEF Transaction, LedgerWork, Writing
  <2> HIDE DEF o
  <2>2. /\ child' \in [Children -> Process] /\ Alone(c) /\ child'[c].work = o
        /\ Equipped(child'[c]) /\ Enters(c) /\ Follows(o, job') /\ Consistent(o)
    BY <1>1, <1>4, <2>1, WritingOn
  <2>3. Excludes(c) /\ Accounts(o, receipts', sums')
    BY <2>1, <2>2 DEF Excludes, Accounts
  <2>4. Typed'
    BY <1>1, <2>2, SameJob DEF WorkerInv, Typed
  <2> QED BY <1>1, <2>2, <2>3, <2>4, SameJob DEF Acts
<1> QED BY <1>3, <1>4 DEF Abort

(* What an event adds to the aggregates, unit by unit.                     *)
LEMMA IntervalOf ==
  ASSUME NEW j, NEW n \in Nat
  PROVE  IsFiniteSet({j} \X (1..n)) /\ Cardinality({j} \X (1..n)) = n
<1> DEFINE S == {j}  T == 1..n
<1>1. IsFiniteSet(S) /\ Cardinality(S) = 1
  BY FS_Singleton
<1>2. IsFiniteSet(T) /\ Cardinality(T) = n
  BY FS_Interval
<1> HIDE DEF S, T
<1>3. IsFiniteSet(S \X T) /\ Cardinality(S \X T) = Cardinality(S) * Cardinality(T)
  BY <1>1, <1>2, FS_Product
<1> QED BY <1>1, <1>2, <1>3 DEF S, T

LEMMA UnitsFinite ==
  ASSUME NEW events \in SUBSET Jobs, NEW b
  PROVE  IsFiniteSet(Units(b, events)) /\ Cardinality(Units(b, events)) \in Nat
<1> DEFINE A == {j \in events : b \in ToSet(Charges[j].buckets)}
           F == {{j} \X (1..Charges[j].amount) : j \in A}
           g == [j \in A |-> {j} \X (1..Charges[j].amount)]
<1>1. IsFiniteSet(A)
  BY FS_Subset, WorkerAssumption
<1>2. ASSUME NEW j \in A
      PROVE  IsFiniteSet({j} \X (1..Charges[j].amount))
  BY IntervalOf, ChargeTypes
<1>3. g \in Surjection(A, F) /\ \A T \in F : IsFiniteSet(T)
  BY <1>2 DEF Surjection
<1>4. Units(b, events) = UNION F
  BY DEF Units
<1> HIDE DEF A, F, g
<1>5. IsFiniteSet(UNION F)
  BY <1>1, <1>3, FS_Surjection, FS_UNION
<1> QED BY <1>4, <1>5, FS_CardinalityType

LEMMA UnitsCharged ==
  ASSUME NEW events \in SUBSET Jobs, NEW j \in Jobs, j \notin events, NEW b
  PROVE  Cardinality(Units(b, events \cup {j})) =
           Cardinality(Units(b, events)) + IF b \in ToSet(Charges[j].buckets) THEN Charges[j].amount ELSE 0
<1> DEFINE B == Units(b, events)
           C == {j} \X (1..Charges[j].amount)
<1>1. Charges[j].amount \in Nat /\ IsFiniteSet(B) /\ Cardinality(B) \in Nat
  BY ChargeTypes, UnitsFinite
<1>2. CASE b \in ToSet(Charges[j].buckets)
  <2>1. Units(b, events \cup {j}) = B \cup C
    BY <1>2 DEF Units
  <2>2. B \cap C = {}
    BY DEF Units
  <2>4. IsFiniteSet(C) /\ Cardinality(C) = Charges[j].amount
    BY <1>1, IntervalOf
  <2> HIDE DEF B, C
  <2>6. Cardinality(B \cup C) = Cardinality(B) + Cardinality(C) - Cardinality(B \cap C)
    BY <1>1, <2>4, FS_Union
  <2>7. Cardinality(B \cap C) = 0
    BY <2>2, FS_EmptySet
  <2>8. Cardinality(B \cup C) = Cardinality(B) + Charges[j].amount
    BY <1>1, <2>4, <2>6, <2>7
  <2> QED BY <1>2, <2>1, <2>8 DEF B
<1>3. CASE b \notin ToSet(Charges[j].buckets)
  <2>1. Units(b, events \cup {j}) = B
    BY <1>3 DEF Units
  <2> HIDE DEF B
  <2> QED BY <1>1, <1>3, <2>1 DEF B
<1> QED BY <1>2, <1>3

(* A commit adds one event, whose rows nobody else holds.                  *)
LEMMA CommitActs ==
  ASSUME WorkerInv, NEW c \in Children, NEW answered, Commit(c, answered)
  PROVE  /\ Acts(c)
         /\ \A o \in Children \ {c} : Accounts(child[o].work, receipts', sums')
         /\ Booked(receipts', sums', job')
<1> DEFINE w == child[c].work  j == w.job
<1>1. /\ w.at = "commit" /\ UNCHANGED <<now, forks>> /\ receipts' = receipts \cup {j}
      /\ sums' = [b \in Buckets |-> IF b \in ToSet(Charges[j].buckets)
                                    THEN sums[b] + Charges[j].amount ELSE sums[b]]
  BY DEF Commit
<1>2. /\ w \in LedgerWork /\ w.at \in Writing /\ j \in Jobs /\ w.left = << >>
      /\ <<"event", j>> \in w.rows /\ j \notin receipts /\ job[j].at \in {"settling", "charged"}
  BY <1>1, WorkForms DEF WorkerInv, Typed, Process, Accounts, Follows, Writing
<1>3. \A b \in ToSet(Charges[j].buckets) : <<"sum", b>> \in w.rows /\ sums[b] <= Capacity - Charges[j].amount
  <2>1. ToSet(w.left) = {}
    BY <1>2 DEF ToSet
  <2> QED BY <1>1, <1>2, <2>1, ChargeTypes DEF WorkerInv, Accounts
<1>4. receipts' \in SUBSET Jobs /\ sums' \in [Buckets -> Nat]
  <2>1. Charges[j].amount \in Nat /\ sums \in [Buckets -> Nat] /\ receipts \in SUBSET Jobs
    BY <1>2, ChargeTypes DEF WorkerInv, Typed
  <2>2. \A b \in Buckets : sums[b] + Charges[j].amount \in Nat /\ sums[b] \in Nat
    BY <2>1
  <2> QED BY <1>1, <1>2, <2>1, <2>2
<1>5. Acts(c)
  <2>1. CASE Stops(c, j, "charged")
    <3>1. Sets(c, Idle) /\ Becomes(j, "charged") /\ j \in receipts'
      BY <1>1, <2>1 DEF Stops
    <3>2. Typed'
      BY <1>1, <1>2, <1>4, <3>1, Rests, ChargedJob DEF WorkerInv, Typed
    <3> QED BY <1>2, <3>1, <3>2, Rests, ChargedJob DEF Acts
  <2>2. CASE Sets(c, Idle) /\ UNCHANGED job
    <3>1. Typed'
      BY <1>1, <1>4, <2>2, Rests, SameJob DEF WorkerInv, Typed
    <3> QED BY <2>2, <3>1, Rests, SameJob DEF Acts
  <2> QED BY <2>1, <2>2 DEF Commit
<1>6. ASSUME NEW o \in Children \ {c}
      PROVE  Accounts(child[o].work, receipts', sums')
  <2> DEFINE v == child[o].work
  <2>1. Accounts(v, receipts, sums) /\ Apart(w, v)
    BY DEF WorkerInv
  <2>2. CASE v.at \in {"charge", "commit"}
    <3>1. w.rows \cap v.rows = {}
      BY <1>2, <2>1, <2>2 DEF Apart, Writing
    <3>2. v.job # j
      BY <1>2, <2>1, <2>2, <3>1 DEF Accounts
    <3>3. \A b \in Buckets : <<"sum", b>> \in v.rows => sums'[b] = sums[b]
      BY <1>1, <1>3, <3>1
    <3> QED BY <1>1, <2>1, <2>2, <3>2, <3>3 DEF Accounts
  <2>3. CASE v.at \notin {"charge", "commit"}
    BY <2>1, <2>3 DEF Accounts
  <2> QED BY <2>2, <2>3
<1>7. ASSUME NEW b \in Buckets
      PROVE  sums'[b] <= Capacity /\ sums'[b] = Cardinality(Units(b, receipts'))
  <2>1. Charges[j].amount \in Nat /\ Capacity \in Nat
    BY <1>2, ChargeTypes
  <2>2. sums[b] \in Nat /\ sums[b] <= Capacity /\ sums[b] = Cardinality(Units(b, receipts)) /\ receipts \in SUBSET Jobs
    BY DEF WorkerInv, Typed, Booked
  <2>3. sums'[b] = sums[b] + IF b \in ToSet(Charges[j].buckets) THEN Charges[j].amount ELSE 0
    BY <1>1, <2>2
  <2>4. sums'[b] = Cardinality(Units(b, receipts'))
    BY <1>1, <1>2, <2>2, <2>3, UnitsCharged
  <2>5. CASE b \in ToSet(Charges[j].buckets)
    <3>1. sums[b] <= Capacity - Charges[j].amount
      BY <1>3, <2>5
    <3> QED BY <2>1, <2>2, <2>3, <2>4, <2>5, <3>1
  <2>6. CASE b \notin ToSet(Charges[j].buckets)
    BY <2>2, <2>3, <2>4, <2>6
  <2> QED BY <2>5, <2>6
<1>8. ASSUME NEW k \in Jobs
      PROVE  /\ job'[k].at = "charged" => k \in receipts'
             /\ k \in receipts' => job'[k].at \in {"settling", "charged"}
  <2>1. /\ job[k].at = "charged" => k \in receipts
        /\ k \in receipts => job[k].at \in {"settling", "charged"}
    BY DEF WorkerInv, Booked
  <2>2. Changed(c, k) /\ w.at \notin Serving
    BY <1>2, <1>5, PhasesApart DEF Acts
  <2>3. CASE job'[k].at = job[k].at
    BY <1>1, <1>2, <2>1, <2>3
  <2>4. CASE job[k].at \in {"settling", "charged"} /\ job'[k].at = "charged" /\ k \in receipts'
    BY <2>4
  <2>5. CASE job[k].at \in {"none", "ready"} /\ job'[k].at \in {"ready", "running", "failed"}
    BY <1>1, <1>2, <2>1, <2>5
  <2> QED BY <2>2, <2>3, <2>4, <2>5 DEF Changed
<1>9. Booked(receipts', sums', job')
  BY <1>7, <1>8 DEF Booked
<1> QED BY <1>5, <1>6, <1>9

----------------------------------------------------------------------------
(* Time passes; a job is sealed.                                           *)
LEMMA TickKeeps ==
  ASSUME WorkerInv, Tick
  PROVE  WorkerInv'
<1>1. now' = now + 1 /\ now < Horizon /\ now \in Nat /\ Horizon \in Nat
      /\ UNCHANGED <<child, job, receipts, sums, forks>>
  BY WorkerAssumption DEF WorkerInv, Typed, Tick
<1>2. now' \in 0..Horizon
  BY <1>1
<1>3. Typed'
  BY <1>1, <1>2 DEF WorkerInv, Typed
<1> QED BY <1>1, <1>3 DEF WorkerInv

(* Whatever half seconds are left, the record outlives them.               *)
LEMMA RetentionOutlives ==
  ASSUME NEW t \in Nat, t < Deadline
  PROVE  t + 2 * Retention(Deadline - t) \in Nat /\ t + 2 * Retention(Deadline - t) >= Deadline
<1>1. Deadline \in Nat /\ Cleanup \in Nat
  BY WorkerAssumption
<1> DEFINE left == Deadline - t
<1>2. left \in Nat
  BY <1>1
<1>3. Ceil(left) \in Nat /\ 2 * Ceil(left) >= left
  <2> HIDE DEF left
  <2> QED BY <1>2, Z3 DEF Ceil
<1>4. Retention(left) \in Nat /\ Retention(left) >= Ceil(left)
  <2> HIDE DEF left
  <2> QED BY <1>1, <1>3 DEF Retention
<1> QED BY <1>1, <1>2, <1>3, <1>4

LEMMA SealKeeps ==
  ASSUME WorkerInv, NEW j \in Jobs, Seal(j)
  PROVE  WorkerInv'
<1> DEFINE lapse == now + 2 * Retention(Deadline - now)
           r == [at |-> "ready", stage |-> "media", queued |-> TRUE, lapse |-> lapse]
<1>1. /\ job[j] = NoJob /\ now < Deadline /\ job' = [job EXCEPT ![j] = r]
      /\ UNCHANGED <<now, child, receipts, sums, forks>>
  BY DEF Seal
<1>2. lapse \in Nat /\ lapse >= Deadline
  BY <1>1, RetentionOutlives DEF WorkerInv, Typed
<1> HIDE DEF lapse
<1>3. r \in JobRow /\ Sealed(r) /\ r.at = "ready"
  BY <1>2 DEF JobRow, Sealed
<1> HIDE DEF r
<1>4. job \in [Jobs -> JobRow] /\ job[j].at = "none"
  BY <1>1 DEF WorkerInv, Typed, NoJob
<1>5. job' \in [Jobs -> JobRow] /\ job'[j] = r /\ \A k \in Jobs \ {j} : job'[k] = job[k]
  BY <1>1, <1>3, <1>4
<1>6. Typed' /\ \A k \in Jobs : Sealed(job'[k])
  BY <1>1, <1>3, <1>5 DEF WorkerInv, Typed
<1>7. ASSUME NEW c \in Children
      PROVE  Follows(child'[c].work, job')
  <2>1. child[c].work \in Work /\ Follows(child[c].work, job)
    BY DEF WorkerInv, Typed, Process
  <2>2. child[c].work.at \in Serving \cup Writing => child[c].work.job \in Jobs \ {j}
    BY <1>4, <2>1, WorkForms DEF Follows, Serving
  <2>3. child[c].work.at \in Serving \cup Writing => job'[child[c].work.job] = job[child[c].work.job]
    BY <1>5, <2>2
  <2> QED BY <1>1, <2>1, <2>3, PhasesApart DEF Follows
<1>8. ASSUME NEW k \in Jobs
      PROVE  /\ job'[k].at = "charged" => k \in receipts
             /\ k \in receipts => job'[k].at \in {"settling", "charged"}
  <2>1. CASE k = j
    BY <1>3, <1>4, <1>5, <2>1 DEF WorkerInv, Booked
  <2>2. CASE k # j
    BY <1>5, <2>2 DEF WorkerInv, Booked
  <2> QED BY <2>1, <2>2
<1>9. Booked(receipts', sums', job')
  BY <1>1, <1>8 DEF WorkerInv, Booked
<1> QED BY <1>1, <1>6, <1>7, <1>9 DEF WorkerInv

----------------------------------------------------------------------------
(* The invariance.                                                         *)
LEMMA NoUnits == \A b : Units(b, {}) = {} /\ Cardinality(Units(b, {})) = 0
<1>1. \A b : Units(b, {}) = {}
  BY DEF Units
<1> QED BY <1>1, FS_EmptySet

LEMMA WorkerInit == Init => WorkerInv
<1> SUFFICES ASSUME Init PROVE WorkerInv
  OBVIOUS
<1>1. /\ now = 0 /\ child = [c \in Children |-> Down] /\ job = [j \in Jobs |-> NoJob]
      /\ receipts = {} /\ sums = [b \in Buckets |-> 0] /\ forks = 0
      /\ {Capacity, Horizon, MaxForks} \subseteq Nat
  BY WorkerAssumption DEF Init
<1>2. NoJob \in JobRow /\ NoJob.at = "none"
  BY DEF NoJob, JobRow
<1>3. Typed /\ \A j \in Jobs : Sealed(job[j])
  BY <1>1, <1>2, DownProcess DEF Typed, Sealed
<1>4. \A c \in Children : child[c] = Down /\ child[c].work = Idle
  BY <1>1, DownProcess
<1>5. \A c \in Children : /\ Equipped(child[c]) /\ Follows(child[c].work, job)
                          /\ Consistent(child[c].work) /\ Accounts(child[c].work, receipts, sums)
  BY <1>4, DownProcess, IdleWork
<1>6. \A c, o \in Children : c # o => Apart(child[c].work, child[o].work)
  BY <1>4, IdleWork, PhasesApart DEF Apart
<1>7. Booked(receipts, sums, job)
  BY <1>1, <1>2, NoUnits DEF Booked
<1> QED BY <1>3, <1>5, <1>6, <1>7 DEF WorkerInv

(* Every step is of the clock, of a new job, or of one process.            *)
LEMMA WorkerStep ==
  ASSUME WorkerInv, [Next]_vars
  PROVE  /\ WorkerInv'
         /\ UNCHANGED child \/ \E c \in Children : Acts(c)
<1> DEFINE Keeps(c) == Acts(c) /\ UNCHANGED <<receipts, sums>>
<1>1. ASSUME NEW c \in Children, Keeps(c)
      PROVE  WorkerInv' /\ \E d \in Children : Acts(d)
  BY <1>1, Unbooked
<1> HIDE DEF Keeps
<1>2. CASE Tick
  BY <1>2, TickKeeps DEF Tick
<1>3. ASSUME NEW j \in Jobs, Seal(j)
      PROVE  WorkerInv' /\ UNCHANGED child
  BY <1>3, SealKeeps DEF Seal
<1>4. ASSUME NEW c \in Children, NEW role \in Roles, NEW n \in 0..Len(Opened(role)), Fork(c, role, n)
      PROVE  Keeps(c)
  BY <1>4, ForkActs DEF Keeps
<1>5. ASSUME NEW c \in Children,
             Shutdown(c) \/ Kill(c) \/ SoftLimit(c) \/ Download(c) \/ Claim(c) \/ Charge(c) \/ Maintain(c) \/ Maintained(c)
      PROVE  Keeps(c)
  BY <1>5, ShutdownActs, KillActs, SoftLimitActs, DownloadActs, ClaimActs, ChargeActs, MaintainActs, MaintainedActs
     DEF Keeps
<1>6. ASSUME NEW c \in Children, NEW j \in Jobs, Take(c, j) \/ Recover(c, j)
      PROVE  Keeps(c)
  BY <1>6, TakeActs, RecoverActs DEF Keeps
<1>7. ASSUME NEW c \in Children, NEW state, Load(c, state)
      PROVE  Keeps(c)
  BY <1>7, LoadActs DEF Keeps
<1>8. ASSUME NEW c \in Children, NEW yes \in BOOLEAN,
             HandOver(c, yes) \/ Extract(c, yes) \/ Complete(c, yes) \/ Abort(c, yes)
      PROVE  Keeps(c)
  BY <1>8, HandOverActs, ExtractActs, CompleteActs, AbortActs DEF Keeps
<1>9. ASSUME NEW c \in Children, NEW yes \in BOOLEAN, Commit(c, yes)
      PROVE  WorkerInv' /\ \E d \in Children : Acts(d)
  BY <1>9, CommitActs, ActsKeep
<1>10. ASSUME NEW c \in Children, NEW answer \in Answers, Post(c, answer)
       PROVE  Keeps(c)
  BY <1>10, PostActs DEF Keeps
<1>11. CASE UNCHANGED vars
  BY <1>11 DEF vars, WorkerInv, Typed
<1> QED BY <1>1, <1>2, <1>3, <1>4, <1>5, <1>6, <1>7, <1>8, <1>9, <1>10, <1>11 DEF Next

(* The inductive invariant: processes with a hook are complete, a task has *)
(* its job to itself, a delivery knows what the chat saw, and transactions *)
(* hold the rows of what they have not committed yet.                      *)
THEOREM WorkersConsistent == Spec => []WorkerInv
<1>1. WorkerInv /\ [Next]_vars => WorkerInv'
  BY WorkerStep
<1> QED BY WorkerInit, <1>1, PTL DEF Spec

----------------------------------------------------------------------------
(* The aggregates are the sums of the charges with a committed receipt,    *)
(* each counted once, in any interleaving of transactions that are tried   *)
(* again, replayed by the recovery, cut off, or committed unanswered; and  *)
(* none overflows (UsageLedgerRepository, WorkerUsageLedgerStore).         *)
THEOREM EachChargeCountsOnce == Spec => []ChargedOnce
<1>1. WorkerInv => ChargedOnce
  BY DEF WorkerInv, Booked, ChargedOnce
<1> QED BY <1>1, WorkersConsistent, PTL

(* What a failed delivery says was not shown, nothing is shown twice, and  *)
(* what a successful one shows was told (NativeTelegramDelivery.deliver).  *)
THEOREM DeliveryTellsWhatWasSeen == Spec => EffectsReported
<1> DEFINE Reported ==
      \A c \in Children :
        LET w == child[c].work  v == child'[c].work IN
        /\ w.at \in Posting => (job'[w.job].at = "failed" => w.shown = {})
        /\ w.at \in {"group", "upload"} => w.shown \cap Messages(w) = {}
        /\ v.at = "complete" /\ w.at # "complete" => v.told # {} /\ v.shown \ v.told \subseteq {Placeholder}
<1>1. ASSUME WorkerInv, [Next]_vars, NEW c \in Children
      PROVE  LET w == child[c].work  v == child'[c].work IN
             /\ w.at \in Posting => (job'[w.job].at = "failed" => w.shown = {})
             /\ w.at \in {"group", "upload"} => w.shown \cap Messages(w) = {}
             /\ v.at = "complete" /\ w.at # "complete" => v.told # {} /\ v.shown \ v.told \subseteq {Placeholder}
  <2> DEFINE w == child[c].work  v == child'[c].work
  <2>1. WorkerInv' /\ (UNCHANGED child \/ \E d \in Children : Acts(d))
    BY <1>1, WorkerStep
  <2>2. Consistent(w) /\ Consistent(v) /\ Follows(v, job')
    BY <1>1, <2>1 DEF WorkerInv
  <2>3. w.at \in Posting => (job'[w.job].at = "failed" => w.shown = {})
    <3>1. w.at \in Posting => (child'[c] = child[c] => job'[w.job].at = "uncertain")
      BY <2>2, PhasesApart DEF Follows
    <3>2. child'[c] = child[c] \/ Acts(c)
      BY <2>1 DEF Acts, Alone
    <3>3. Acts(c) => (w.at \in Posting => (job'[w.job].at = "failed" => w.shown = {}))
      BY DEF Acts, Reports
    <3> QED BY <3>1, <3>2, <3>3
  <2>4. ASSUME w.at \in {"group", "upload"} PROVE w.shown \cap Messages(w) = {}
    <3>1. Messages(w) = {"item"} \X Batch(w) /\ Batch(w) \subseteq w.left
      BY <2>4 DEF Messages, Batch
    <3>2. ({"item"} \X w.left) \cap w.shown = {}
      BY <2>2, <2>4 DEF Consistent
    <3> QED BY <3>1, <3>2
  <2>5. v.at = "complete" => v.told # {} /\ v.shown \ v.told \subseteq {Placeholder}
    BY <2>2 DEF Consistent
  <2> QED BY <2>3, <2>4, <2>5
<1>2. WorkerInv /\ [Next]_vars => Reported
  BY <1>1
<1> QED BY <1>2, WorkersConsistent, PTL DEF Spec, EffectsReported

(* What is opened for a role.                                              *)
LEMMA InEither ==
  ASSUME NEW S, NEW s \in Seq(S), NEW t \in Seq(S)
  PROVE  s \o t \in Seq(S) /\ ToSet(s) \subseteq ToSet(s \o t) /\ ToSet(t) \subseteq ToSet(s \o t)
<1>1. /\ s \o t \in Seq(S) /\ Len(s \o t) = Len(s) + Len(t) /\ Len(s) \in Nat /\ Len(t) \in Nat
      /\ DOMAIN s = 1..Len(s) /\ DOMAIN t = 1..Len(t) /\ DOMAIN (s \o t) = 1..(Len(s) + Len(t))
      /\ \A i \in 1..Len(s) : (s \o t)[i] = s[i]
      /\ \A i \in 1..Len(t) : (s \o t)[Len(s) + i] = t[i]
  OBVIOUS
<1>2. ASSUME NEW i \in 1..Len(s)
      PROVE  \E k \in DOMAIN (s \o t) : (s \o t)[k] = s[i]
  <2>1. i \in 1..(Len(s) + Len(t))
    BY <1>1
  <2> QED BY <1>1, <2>1
<1>3. ASSUME NEW i \in 1..Len(t)
      PROVE  \E k \in DOMAIN (s \o t) : (s \o t)[k] = t[i]
  <2>1. Len(s) + i \in 1..(Len(s) + Len(t))
    BY <1>1
  <2> QED BY <1>1, <2>1
<1>4. s \o t \in Seq(S)
  BY <1>1
<1> DEFINE both == s \o t
<1>5. /\ \A i \in DOMAIN s : \E k \in DOMAIN both : both[k] = s[i]
      /\ \A i \in DOMAIN t : \E k \in DOMAIN both : both[k] = t[i]
  BY <1>1, <1>2, <1>3
<1> HIDE DEF both
<1>6. ToSet(s) \subseteq ToSet(both) /\ ToSet(t) \subseteq ToSet(both)
  BY <1>5 DEF ToSet
<1> QED BY <1>4, <1>6 DEF both

LEMMA OpenedFor ==
  ASSUME NEW role \in Roles
  PROVE  /\ {"database", "runtime", "http"} \subseteq ToSet(Opened(role))
         /\ role \in OperationsRoles => "operations" \in ToSet(Opened(role))
         /\ role \in FeatureRoles => "runner" \in ToSet(Opened(role))
<1> DEFINE base == <<"database", "runtime", "http">>
           opers == IF role \in OperationsRoles THEN <<"operations">> ELSE << >>
           page == IF role = "browser" \/ (role = "all" /\ BrowserEnabled) THEN <<"browser">> ELSE << >>
           jobs == IF role \in FeatureRoles THEN <<"publisher", "runner">> ELSE << >>
<1>1. base \in Seq(Opening) /\ opers \in Seq(Opening) /\ page \in Seq(Opening) /\ jobs \in Seq(Opening)
  <2>1. <<"operations">> \in Seq(Opening) /\ <<"browser">> \in Seq(Opening) /\ << >> \in Seq(Opening)
    BY DEF Opening
  <2>2. <<"publisher", "runner">> \in Seq(Opening) /\ base \in Seq(Opening)
    BY DEF Opening
  <2> QED BY <2>1, <2>2
<1>2. {"database", "runtime", "http"} \subseteq ToSet(base)
  <2>1. DOMAIN base = {1, 2, 3} /\ base[1] = "database" /\ base[2] = "runtime" /\ base[3] = "http"
    OBVIOUS
  <2> QED BY <2>1 DEF ToSet
<1>3. role \in OperationsRoles => "operations" \in ToSet(opers)
  <2>1. LET s == <<"operations">> IN DOMAIN s = {1} /\ s[1] = "operations"
    OBVIOUS
  <2> QED BY <2>1 DEF ToSet
<1>4. role \in FeatureRoles => "runner" \in ToSet(jobs)
  <2>1. LET s == <<"publisher", "runner">> IN DOMAIN s = {1, 2} /\ s[2] = "runner"
    OBVIOUS
  <2> QED BY <2>1 DEF ToSet
<1>5. Opened(role) = ((base \o opers) \o page) \o jobs
  BY DEF Opened
<1> HIDE DEF base, opers, page, jobs
<1>6. Opened(role) = ((base \o opers) \o page) \o jobs => 
      /\ ToSet(base) \subseteq ToSet(Opened(role)) /\ ToSet(opers) \subseteq ToSet(Opened(role))
      /\ ToSet(jobs) \subseteq ToSet(Opened(role))
  <2>1. /\ base \o opers \in Seq(Opening)
        /\ ToSet(base) \subseteq ToSet(base \o opers) /\ ToSet(opers) \subseteq ToSet(base \o opers)
    BY <1>1, InEither
  <2>2. /\ (base \o opers) \o page \in Seq(Opening)
        /\ ToSet(base \o opers) \subseteq ToSet((base \o opers) \o page)
    BY <1>1, <2>1, InEither
  <2>3. /\ ToSet((base \o opers) \o page) \subseteq ToSet(((base \o opers) \o page) \o jobs)
        /\ ToSet(jobs) \subseteq ToSet(((base \o opers) \o page) \o jobs)
    BY <1>1, <2>2, InEither
  <2> QED BY <2>1, <2>2, <2>3
<1> QED BY <1>2, <1>3, <1>4, <1>5, <1>6

LEMMA TasksEquipped ==
  ASSUME WorkerInv, NEW c \in Children
  PROVE  Needs(child[c].work) \subseteq child[c].has
<1> DEFINE p == child[c]  w == p.work
<1>1. Equipped(p) /\ w \in Work
  BY DEF WorkerInv, Typed, Process
<1>2. w.at \in {"idle", "maintenance"} \cup Serving \cup Writing
  BY <1>1, WorkForms
<1>3. CASE w.at = "idle"
  BY <1>3 DEF Needs, Writing
<1>4. CASE w.at = "maintenance"
  <2>1. p.role \in Roles /\ "operations" \in Hooks(p.role) /\ p.has = ToSet(Opened(p.role))
    BY <1>1, <1>4 DEF Equipped
  <2>2. p.role \in OperationsRoles
    BY <2>1 DEF Hooks
  <2>3. Needs(w) = {"database", "runtime", "http", "operations"}
    BY <1>4 DEF Needs, Writing
  <2> QED BY <2>1, <2>2, <2>3, OpenedFor
<1>5. CASE w.at \in Serving
  <2>1. p.role \in Roles /\ "features" \in Hooks(p.role) /\ p.has = ToSet(Opened(p.role))
    BY <1>1, <1>5 DEF Equipped
  <2>2. p.role \in FeatureRoles
    BY <2>1 DEF Hooks
  <2>3. Needs(w) \subseteq {"runtime", "http", "runner"}
    BY <1>5, PhasesApart DEF Needs
  <2> QED BY <2>1, <2>2, <2>3, OpenedFor
<1>6. CASE w.at \in Writing
  <2>1. p.role \in Roles /\ p.has = ToSet(Opened(p.role))
    BY <1>1, <1>6 DEF Equipped
  <2>2. Needs(w) = {"database", "runtime"}
    BY <1>6 DEF Needs, Writing
  <2> QED BY <2>1, <2>2, OpenedFor
<1> QED BY <1>2, <1>3, <1>4, <1>5, <1>6

(* A task runs in a process that opened what the task uses, however its    *)
(* set-up ended, and until its deadline the sealed payload is there        *)
(* (WorkerChildContext.open, the payload store's retention).               *)
THEOREM TasksProvided == Spec => []RunsProvided
<1>1. ASSUME WorkerInv PROVE TypeOK
  <2>1. ASSUME NEW c \in Children
        PROVE  /\ child[c].role \in Roles \cup {"none"}
               /\ child[c].has \subseteq UNION {ToSet(Opened(r)) : r \in Roles}
               /\ child[c].hooks \subseteq {"recovery", "features", "operations"}
               /\ child[c].work.at \in {"idle", "maintenance"} \/ child[c].work.job \in Jobs
    <3>1. child[c] \in Process
      BY <1>1 DEF WorkerInv, Typed
    <3> QED BY <3>1, WorkForms DEF Process, Resources
  <2> QED BY <1>1, <2>1 DEF WorkerInv, Typed, TypeOK, JobRow
<1>2. ASSUME WorkerInv PROVE PayloadOutlivesJob
  <2> SUFFICES ASSUME NEW j \in Jobs, job[j] # NoJob, now < Deadline
               PROVE  "missing" \notin Loads(j)
    BY DEF PayloadOutlivesJob
  <2>1. job[j].lapse >= Deadline /\ job[j].lapse \in Nat /\ now \in Nat /\ Deadline \in Nat
    BY <1>2, WorkerAssumption DEF WorkerInv, Typed, Sealed, JobRow
  <2>2. Present(j)
    BY <2>1 DEF Present
  <2> QED BY <2>2 DEF Loads
<1>3. WorkerInv => RunsProvided
  BY <1>1, <1>2, TasksEquipped DEF RunsProvided, RunsEquipped
<1> QED BY <1>3, WorkersConsistent, PTL

----------------------------------------------------------------------------
(***************************************************************************)
(* The transactions of the stores.  What a call names and reads, of a      *)
(* store that is given.                                                    *)
(***************************************************************************)
RequestedIn(c, asked) == IF c.op \in {"decide", "withdraw"} THEN {r \in asked : r.id = 1} ELSE {}

Asks == {"trust", "ban", "entitle", "override", "request", "decide", "withdraw", "approve"}
ActorsIn(c, asked, people) ==
  (IF c.op \in Asks THEN {c.by} \ {None, Cli} ELSE {})
  \union (IF c.op = "request" THEN {c.user} ELSE {})
  \union {u.tg : u \in {u \in people : \E r \in RequestedIn(c, asked) : r.user = u.id}}

GroupsIn(c, asked) ==
  (IF c.op \in {"member", "worker", "request", "approve"} \/ (c.op \in Configures /\ c.user = None)
   THEN {1} ELSE {})
  \union {r.group : r \in RequestedIn(c, asked)}

ChatsAt(m, groups, moved) == {r \in groups : r.number = m \/ <<m, r.id>> \in moved}
ChatsOf(n, groups, moved) == (UNION {ChatsAt(m, groups, moved) : m \in n.numbers}) \union {r \in groups : r.id \in n.groups}

PeopleSeen(c, people, asked) ==
  IF c.user # None THEN {r \in people : r.tg = c.user}
  ELSE {u \in people : \E r \in RequestedIn(c, asked) : r.user = u.id}
GroupsSeen(c, groups, moved, asked) ==
  (UNION {ChatsAt(m, groups, moved) : m \in TargetChats(c)}) \union {r \in groups : r.id \in GroupsIn(c, asked)}
MaySeen(c, restricted, people) ==
  /\ c.op \in Authorised
  /\ \/ c.by = Cli
     \/ c.by \notin restricted /\ \E r \in people : r.tg = c.by /\ r.live /\ r.admin

(***************************************************************************)
(* The inductive invariant: what is stored, what a session holds and what  *)
(* is so because it is held.                                               *)
(***************************************************************************)
Modes == {"x", "s", "k"}
LockKey == Nat \X Nat
Phases == {"idle", "start", "gates", "users", "chats", "write"}

\* Identities are numbered, and known where they are named.
UsersStored ==
  /\ users \subseteq UserRecord /\ Numbered(users)
  /\ \A r, s \in users : r.live /\ s.live /\ r.tg = s.tg => r = s
ChatsStored ==
  /\ chats \subseteq ChatRecord /\ Numbered(chats) /\ \E r \in chats : r.id = 1
  /\ routes \subseteq Nat \X {r.id : r \in chats}
RequestsStored ==
  /\ requests \subseteq RequestRecord /\ IsFiniteSet(requests)
  /\ requests # {} => \E r \in requests : r.id = 1
  /\ \A r \in requests : \E u \in users : u.id = r.user

\* Every step of a switch is of a call of its own.
Busy == {t \in Txns : call[t] # NoCall}
Switched ==
  /\ flags \in [system : Nat, emergency : Nat] /\ begun \in 0..MaxCalls
  /\ IsFiniteSet(Busy)
  /\ flags.system + flags.emergency + Cardinality(Busy) <= begun

\* A session between its steps.
Open(c, p, due, has, tries, asked) ==
  /\ c.op \in {"decide", "withdraw"} => asked # {}
  /\ tries \in 0..3
  /\ p = "idle" => c = NoCall
  /\ p \in {"idle", "start"} => has = NoKeys /\ due = NoKeys /\ tries < 3
  /\ \E D \in SUBSET LockKey : due \in [D -> Modes]
  /\ \E D \in SUBSET LockKey : has \in [D -> Modes]

\* The names that were resolved are those of the call still.
NamesKept(c, n, asked, people) ==
  /\ n.users = TargetUsers(c) /\ n.actors = ActorsIn(c, asked, people)
  /\ n.groups = GroupsIn(c, asked)
  /\ TargetChats(c) \subseteq n.numbers /\ n.numbers \subseteq Nat

\* A lock is held in its mode, or is still to be taken while that may be.
Taken(k, mode, has, due, mayBeDue) ==
  IF k \in DOMAIN has THEN has[k] = mode ELSE mayBeDue /\ k \in DOMAIN due /\ due[k] = mode

GatesTaken(c, p, n, due, has) ==
  \A k \in DOMAIN Gates(c, n) : Taken(k, Gates(c, n)[k], has, due, p = "gates")
RowsTaken(p, n, due, has, groups, moved) ==
  \A r \in ChatsOf(n, groups, moved) : Taken(ChatRow(r.id), "x", has, due, p = "chats")
NoRowsYet(due, has) == \A i : ChatRow(i) \notin DOMAIN has \union DOMAIN due

Holding(t) ==
  LET c == call[t]  p == phase[t]  n == named[t] IN
  /\ p \in {"gates", "users", "chats", "write"} =>
       NamesKept(c, n, requests, users) /\ GatesTaken(c, p, n, todo[t], held[t])
  /\ p \in {"gates", "users"} => NoRowsYet(todo[t], held[t])
  /\ p \in {"chats", "write"} => RowsTaken(p, n, todo[t], held[t], chats, routes)

\* What was read is so still, but for what no lock of the call protects.
View(v) == v = [users |-> v.users, chats |-> v.chats, routed |-> v.routed, may |-> v.may, requests |-> v.requests,
                approved |-> v.approved, stored |-> v.stored, flag |-> v.flag]

Seeing(t) ==
  LET c == call[t]  v == view[t] IN
  phase[t] = "write" =>
    /\ View(v)
    /\ c.op # "worker" => v.users = {r \in PeopleSeen(c, users, requests) : r.by = "worker" => r \in v.users}
    /\ v.chats = GroupsSeen(c, chats, routes, requests)
    /\ v.routed = {p \in routes : p[1] \in TargetChats(c)}
    /\ c.op # "emergency" => v.may = MaySeen(c, banned, users)
    /\ v.requests = {r \in requests : r.group \in GroupsIn(c, requests)}
    /\ v.approved = approved \intersect GroupsIn(c, requests)
    /\ v.stored = {s \in stored : s.what = c.op /\ s.subject = Subject(c)}
    /\ v.flag = IF c.op \in DOMAIN flags THEN flags[c.op] ELSE 0

\* Two sessions hold one lock in modes that admit each other.
Shared(has, others) == \A k \in DOMAIN has \intersect DOMAIN others : Compatible(has[k], others[k])

Session(t) == Open(call[t], phase[t], todo[t], held[t], attempts[t], requests) /\ Holding(t) /\ Seeing(t)

PerSession(f) == f = [t \in Txns |-> f[t]]
Sessions ==
  /\ call \in [Txns -> Calls \union {NoCall}] /\ phase \in [Txns -> Phases]
  /\ PerSession(named) /\ PerSession(todo) /\ PerSession(held) /\ PerSession(view) /\ PerSession(attempts)

LocksInv ==
  /\ UsersStored /\ ChatsStored /\ RequestsStored /\ Switched /\ Sessions
  /\ \A t \in Txns : Session(t)
  /\ \A t, u \in Txns : t # u => Shared(held[t], held[u])

----------------------------------------------------------------------------
(* Calls and their keys.                                                   *)
LEMMA CallForms ==
  ASSUME NEW c \in Calls \union {NoCall}
  PROVE  /\ c \in Calls => c \in CallRecord /\ c.op # "none"
         /\ c.user \in Nat /\ c.chat \in Nat /\ c.by \in Nat
         /\ c.op \in OfUsers \union Configures \union OfChats \union OfOthers \union {"none"}
         /\ c.op \in OfUsers => c.user # None
         /\ c.op \in OfChats \union OfOthers \union {"none"} => c.user = None
         /\ c.op = "none" => c = NoCall
<1>1. CASE c \in Calls
  <2>1. c \in CallRecord
    BY <1>1, LocksAssumption
  <2>2. c.op # "none"
    BY <2>1 DEF CallRecord, OfUsers, Configures, OfChats, OfOthers
  <2> QED BY <1>1, <2>1, <2>2, LocksAssumption DEF CallRecord
<1>2. CASE c = NoCall
  <2>1. c.op = "none" /\ c.user = 0 /\ c.chat = 0 /\ c.by = 0
    BY <1>2 DEF NoCall, None
  <2>2. NoCall \notin Calls
    BY LocksAssumption DEF NoCall, CallRecord, OfUsers, Configures, OfChats, OfOthers
  <2> QED BY <1>2, <2>1, <2>2 DEF None, OfUsers, Configures, OfChats, OfOthers
<1> QED BY <1>1, <1>2

LEMMA Keys ==
  /\ \A u \in Nat : UserGate(u) \in LockKey /\ ChatGate(u) \in LockKey /\ ChatRow(u) \in LockKey /\ UserRow(u) \in LockKey
  /\ FeatureGate \in LockKey /\ SystemGate \in LockKey
  /\ \A u, v : /\ UserGate(u) = UserGate(v) => u = v
               /\ ChatGate(u) = ChatGate(v) => u = v
               /\ ChatRow(u) = ChatRow(v) => u = v
               /\ UserGate(u) # ChatGate(v) /\ UserGate(u) # ChatRow(v) /\ ChatGate(u) # ChatRow(v)
               /\ UserRow(u) # ChatRow(v) /\ UserRow(u) # UserGate(v) /\ UserRow(u) # ChatGate(v)
               /\ FeatureGate \notin {UserGate(u), ChatGate(u), ChatRow(u), UserRow(u), SystemGate}
               /\ SystemGate \notin {UserGate(u), ChatGate(u), ChatRow(u), UserRow(u)}
BY DEF LockKey, UserGate, ChatGate, ChatRow, UserRow, FeatureGate, SystemGate

LEMMA NothingDue ==
  ASSUME NEW f, NEW D, f \in [D -> Modes]
  PROVE  f = NoKeys <=> D = {}
<1>1. NoKeys = [k \in {} |-> "x"] /\ DOMAIN NoKeys = {}
  BY DEF NoKeys
<1>2. ASSUME D = {} PROVE f = NoKeys
  BY <1>1, <1>2
<1>3. ASSUME f = NoKeys PROVE D = {}
  BY <1>1, <1>3
<1> QED BY <1>2, <1>3

LEMMA DueExists ==
  ASSUME NEW t, NEW D \in SUBSET LockKey, todo[t] \in [D -> Modes], todo[t] # NoKeys
  PROVE  Due(t) \in D
<1> DEFINE R == OpToRel(<, Nat)
<1>1. D # {} /\ DOMAIN todo[t] = D
  BY NothingDue
<1>2. IsWellFoundedOn(R, Nat)
  BY NatLessThanWellFounded
<1> DEFINE A == {k[1] : k \in D}
<1>3. A \subseteq Nat /\ A # {}
  BY <1>1 DEF LockKey
<1>4. \E a \in A : \A b \in A : ~(<<b, a>> \in R)
  <2> HIDE DEF R, A
  <2> QED BY <1>2, <1>3, WFMin
<1>5. PICK a \in A : \A b \in A : ~(<<b, a>> \in R)
  BY <1>4
<1> DEFINE B == {k[2] : k \in {k \in D : k[1] = a}}
<1>6. B \subseteq Nat /\ B # {}
  BY <1>5 DEF LockKey
<1>7. \E b \in B : \A x \in B : ~(<<x, b>> \in R)
  <2> HIDE DEF R, B
  <2> QED BY <1>2, <1>6, WFMin
<1>8. PICK b \in B : \A x \in B : ~(<<x, b>> \in R)
  BY <1>7
<1>9. PICK k \in D : k[1] = a /\ k[2] = b
  BY <1>8
<1>10. ASSUME NEW l \in D
       PROVE  k = l \/ Before(k, l)
  <2>1. l[1] \in Nat /\ l[2] \in Nat /\ a \in Nat /\ b \in Nat /\ l[1] \in A
    BY <1>3, <1>5, <1>6, <1>8 DEF LockKey
  <2>2. ~(l[1] < a)
    BY <1>5, <2>1 DEF OpToRel
  <2>3. CASE l[1] = a
    <3>1. l[2] \in B
      BY <2>3
    <3>2. ~(l[2] < b)
      BY <1>8, <2>1, <3>1 DEF OpToRel
    <3>3. k = <<a, b>> /\ l = <<l[1], l[2]>>
      BY <1>9 DEF LockKey
    <3> QED BY <1>9, <2>1, <2>3, <3>2, <3>3 DEF Before
  <2>4. CASE l[1] # a
    BY <1>9, <2>1, <2>2, <2>4 DEF Before
  <2> QED BY <2>3, <2>4
<1>11. \E m \in DOMAIN todo[t] : \A l \in DOMAIN todo[t] : m = l \/ Before(m, l)
  BY <1>1, <1>9, <1>10
<1> QED BY <1>1, <1>11 DEF Due

(* The operators of the model, with the store they read.                   *)
LEMMA InStore ==
  /\ \A c : /\ Requested(c) = RequestedIn(c, requests)
            /\ Actors(c) = ActorsIn(c, requests, users)
            /\ TargetGroups(c) = GroupsIn(c, requests)
            /\ May(c.by) <=> (c.by = Cli \/ (c.by \notin banned /\ \E r \in users : r.tg = c.by /\ r.live /\ r.admin))
  /\ \A m : ChatRows(m) = ChatsAt(m, chats, routes)
<1>1. \A c : Requested(c) = RequestedIn(c, requests)
  BY DEF Requested, RequestedIn
<1>2. \A c : Actors(c) = ActorsIn(c, requests, users)
  BY <1>1 DEF Actors, ActorsIn, Asks
<1>3. \A c : TargetGroups(c) = GroupsIn(c, requests)
  BY <1>1 DEF TargetGroups, GroupsIn
<1>4. \A c : May(c.by) <=> (c.by = Cli \/ (c.by \notin banned /\ \E r \in users : r.tg = c.by /\ r.live /\ r.admin))
  BY DEF May, LiveOf, UserRows
<1>5. \A m : ChatRows(m) = ChatsAt(m, chats, routes)
  BY DEF ChatRows, ChatsAt
<1> QED BY <1>1, <1>2, <1>3, <1>4, <1>5

LEMMA SharedBoth ==
  ASSUME NEW f, NEW g, Shared(f, g)
  PROVE  Shared(g, f)
BY DEF Shared, Compatible

----------------------------------------------------------------------------
(* A step that leaves the store alone.                                     *)
Leaves(t) ==
  \A u \in Txns \ {t} :
    /\ call'[u] = call[u] /\ phase'[u] = phase[u] /\ named'[u] = named[u] /\ todo'[u] = todo[u]
    /\ held'[u] = held[u] /\ view'[u] = view[u] /\ attempts'[u] = attempts[u]

LEMMA StoreKept ==
  ASSUME LocksInv, UNCHANGED store
  PROVE  UsersStored' /\ ChatsStored' /\ RequestsStored'
<1>1. UNCHANGED <<users, chats, routes, requests>>
  BY DEF store
<1>2. UsersStored'
  BY <1>1 DEF LocksInv, UsersStored
<1>3. ChatsStored'
  BY <1>1 DEF LocksInv, ChatsStored
<1>4. RequestsStored'
  BY <1>1 DEF LocksInv, RequestsStored
<1> QED BY <1>2, <1>3, <1>4

LEMMA OtherKept ==
  ASSUME LocksInv, NEW t \in Txns, Leaves(t), UNCHANGED store, NEW u \in Txns \ {t}
  PROVE  Session(u)'
<1>1. /\ call'[u] = call[u] /\ phase'[u] = phase[u] /\ named'[u] = named[u] /\ todo'[u] = todo[u]
      /\ held'[u] = held[u] /\ view'[u] = view[u] /\ attempts'[u] = attempts[u]
  BY DEF Leaves
<1>2. UNCHANGED <<users, chats, routes, banned, requests, approved, stored, flags>>
  BY DEF store
<1>3. Session(u)
  BY DEF LocksInv
<1>4. Open(call[u], phase[u], todo[u], held[u], attempts[u], requests)'
  BY <1>1, <1>2, <1>3 DEF Session
<1>5. Holding(u)'
  BY <1>1, <1>2, <1>3 DEF Session, Holding
<1>6. Seeing(u)'
  BY <1>1, <1>2, <1>3 DEF Session, Seeing
<1> QED BY <1>4, <1>5, <1>6 DEF Session

LEMMA QuietStep ==
  ASSUME LocksInv, NEW t \in Txns, Leaves(t), UNCHANGED store, Sessions', Switched', Session(t)',
         \A u \in Txns \ {t} : Shared(held'[t], held[u])
  PROVE  LocksInv'
<1>1. \A u \in Txns : Session(u)'
  BY OtherKept
<1>2. ASSUME NEW u \in Txns, NEW v \in Txns, u # v
      PROVE  Shared(held'[u], held'[v])
  <2>1. CASE u = t
    BY <1>2, <2>1 DEF Leaves
  <2>2. CASE v = t
    BY <1>2, <2>2, SharedBoth DEF Leaves
  <2>3. CASE u # t /\ v # t
    BY <1>2, <2>3 DEF Leaves, LocksInv
  <2> QED BY <2>1, <2>2, <2>3
<1> QED BY <1>1, <1>2, StoreKept DEF LocksInv

LEMMA SwitchedKept ==
  ASSUME Switched, UNCHANGED <<call, flags, begun>>
  PROVE  Switched'
<1>1. Busy' = Busy
  BY DEF Busy
<1> QED BY <1>1 DEF Switched

(* A session with nothing held shares everything.                          *)
LEMMA NothingHeld == /\ DOMAIN NoKeys = {} /\ \A f : Shared(NoKeys, f)
                     /\ \E D \in SUBSET LockKey : NoKeys \in [D -> Modes]
<1>1. DOMAIN NoKeys = {} /\ NoKeys \in [{} -> Modes]
  BY DEF NoKeys
<1> QED BY <1>1 DEF Shared

LEMMA BeginKeeps ==
  ASSUME LocksInv, NEW t \in Txns, NEW c \in Calls, Begin(t, c)
  PROVE  LocksInv'
<1>1. /\ phase[t] = "idle" /\ begun < MaxCalls
      /\ c.op \in {"decide", "withdraw"} => requests # {}
      /\ begun' = begun + 1 /\ call' = [call EXCEPT ![t] = c] /\ phase' = [phase EXCEPT ![t] = "start"]
      /\ UNCHANGED <<store, named, todo, held, view, attempts>>
  BY DEF Begin
<1>2. Sessions /\ Session(t) /\ Switched
  BY DEF LocksInv
<1>3. Sessions' /\ Leaves(t) /\ call'[t] = c /\ phase'[t] = "start"
  BY <1>1, <1>2 DEF Sessions, PerSession, Leaves, Phases
<1>4. call[t] = NoCall /\ held[t] = NoKeys /\ todo[t] = NoKeys /\ attempts[t] < 3 /\ attempts[t] \in 0..3
  <2>1. Open(call[t], "idle", todo[t], held[t], attempts[t], requests)
    BY <1>1, <1>2 DEF Session
  <2> QED BY <2>1 DEF Open
<1>5. Session(t)'
  <2>1. Open(c, "start", todo'[t], held'[t], attempts'[t], requests')
    <3>1. UNCHANGED <<requests, todo, held, attempts>>
      BY <1>1 DEF store
    <3> QED BY <1>1, <1>4, <3>1, NothingHeld DEF Open
  <2>2. Open(call[t], phase[t], todo[t], held[t], attempts[t], requests)'
    BY <1>3, <2>1
  <2> QED BY <1>3, <2>2 DEF Session, Holding, Seeing
<1>6. Switched'
  <2>1. Busy' = Busy \cup {t} /\ t \notin Busy
    BY <1>1, <1>2, <1>3, <1>4, CallForms DEF Busy, Sessions, Leaves, NoCall
  <2>2. IsFiniteSet(Busy') /\ Cardinality(Busy') = Cardinality(Busy) + 1
    BY <1>2, <2>1, FS_AddElement DEF Switched
  <2>3. Cardinality(Busy) \in Nat
    BY <1>2, FS_CardinalityType DEF Switched
  <2>4. begun' \in 0..MaxCalls /\ begun \in Nat
    <3>1. MaxCalls \in Nat
      BY LocksAssumption
    <3> QED BY <1>1, <1>2, <3>1 DEF Switched
  <2>5. UNCHANGED flags
    BY <1>1 DEF store
  <2> HIDE DEF Busy
  <2> QED BY <1>1, <1>2, <2>2, <2>3, <2>4, <2>5 DEF Switched
<1>7. \A u \in Txns \ {t} : Shared(held'[t], held[u])
  BY <1>1, <1>4, NothingHeld
<1> QED BY <1>1, <1>3, <1>5, <1>6, <1>7, QuietStep

(* The gates of a call are keys, and none of them a row.                   *)
LEMMA GateKeys ==
  ASSUME NEW c, NEW n, n.users \subseteq Nat, n.actors \subseteq Nat, n.numbers \subseteq Nat
  PROVE  \E D \in SUBSET LockKey : /\ Gates(c, n) \in [D -> Modes] /\ \A i : ChatRow(i) \notin D
<1> DEFINE D == DOMAIN Gates(c, n)
<1>1. \A k \in D : \/ \E u \in n.users \union n.actors : k = UserGate(u)
                   \/ \E m \in n.numbers : k = ChatGate(m)
                   \/ k \in {SystemGate, FeatureGate}
  BY DEF Gates
<1>2. ASSUME NEW k \in D
      PROVE  k \in LockKey /\ \A i : ChatRow(i) # k
  <2>1. CASE \E u \in n.users \union n.actors : k = UserGate(u)
    <3>1. PICK u \in Nat : k = UserGate(u)
      BY <2>1
    <3>2. UserGate(u) \in LockKey /\ \A i : UserGate(u) # ChatRow(i)
      BY DEF LockKey, UserGate, ChatGate, ChatRow
    <3> QED BY <3>1, <3>2
  <2>2. CASE \E m \in n.numbers : k = ChatGate(m)
    <3>1. PICK m \in Nat : k = ChatGate(m)
      BY <2>2
    <3>2. ChatGate(m) \in LockKey /\ \A i : ChatGate(m) # ChatRow(i)
      BY DEF LockKey, UserGate, ChatGate, ChatRow
    <3> QED BY <3>1, <3>2
  <2>3. CASE k \in {SystemGate, FeatureGate}
    BY <2>3, Keys
  <2> QED BY <1>1, <2>1, <2>2, <2>3
<1>3. Gates(c, n) \in [D -> Modes]
  BY DEF Gates, Modes
<1> QED BY <1>2, <1>3

LEMMA NamesTyped ==
  ASSUME LocksInv, NEW c \in Calls \union {NoCall}
  PROVE  /\ TargetUsers(c) \subseteq Nat /\ TargetChats(c) \subseteq Nat
         /\ ActorsIn(c, requests, users) \subseteq Nat
         /\ GroupsIn(c, requests) \subseteq {1}
         /\ {r.number : r \in {r \in chats : r.id \in GroupsIn(c, requests)}} \subseteq Nat
<1>1. c.user \in Nat /\ c.chat \in Nat /\ c.by \in Nat
  BY CallForms
<1>2. requests \subseteq RequestRecord /\ users \subseteq UserRecord /\ chats \subseteq ChatRecord
  BY DEF LocksInv, UsersStored, RequestsStored, ChatsStored
<1>3. TargetUsers(c) \subseteq Nat
  BY <1>1 DEF TargetUsers
<1>4. TargetChats(c) \subseteq Nat
  BY <1>1 DEF TargetChats
<1>5. ActorsIn(c, requests, users) \subseteq Nat
  <2>1. \A u \in users : u.tg \in Nat
    BY <1>2 DEF UserRecord
  <2> QED BY <1>1, <2>1 DEF ActorsIn
<1>6. GroupsIn(c, requests) \subseteq {1}
  <2>1. \A r \in RequestedIn(c, requests) : r.group = 1
    BY <1>2 DEF RequestedIn, RequestRecord
  <2> QED BY <2>1 DEF GroupsIn
<1>7. {r.number : r \in {r \in chats : r.id \in GroupsIn(c, requests)}} \subseteq Nat
  BY <1>2 DEF ChatRecord
<1> QED BY <1>3, <1>4, <1>5, <1>6, <1>7

LEMMA PrepareKeeps ==
  ASSUME LocksInv, NEW t \in Txns, Prepare(t)
  PROVE  LocksInv'
<1> DEFINE c == call[t]  n == Names(c)  g == Gates(c, n)
<1>1. /\ phase[t] = "start" /\ phase' = [phase EXCEPT ![t] = "gates"]
      /\ attempts' = [attempts EXCEPT ![t] = @ + 1]
      /\ named' = [named EXCEPT ![t] = n] /\ todo' = [todo EXCEPT ![t] = g]
      /\ UNCHANGED <<store, begun, call, held, view>>
  BY DEF Prepare
<1>2. Sessions /\ Session(t) /\ Switched /\ c \in Calls \union {NoCall}
  BY DEF LocksInv, Sessions
<1>3. /\ c.op \in {"decide", "withdraw"} => requests # {}
      /\ attempts[t] \in 0..3 /\ attempts[t] < 3 /\ held[t] = NoKeys
  <2>1. Open(c, "start", todo[t], held[t], attempts[t], requests)
    BY <1>1, <1>2 DEF Session
  <2> QED BY <2>1 DEF Open
<1>4. NamesKept(c, n, requests, users)
  <2>1. /\ n.users = TargetUsers(c) /\ n.actors = ActorsIn(c, requests, users) /\ n.groups = GroupsIn(c, requests)
        /\ n.numbers = TargetChats(c) \union {r.number : r \in {r \in chats : r.id \in GroupsIn(c, requests)}}
    BY InStore DEF Names
  <2> HIDE DEF n
  <2> QED BY <1>2, <2>1, NamesTyped DEF NamesKept
<1>5. n.users \subseteq Nat /\ n.actors \subseteq Nat /\ n.numbers \subseteq Nat
  BY <1>2, <1>4, NamesTyped DEF NamesKept
<1> HIDE DEF n
<1>6. PICK D \in SUBSET LockKey : g \in [D -> Modes] /\ \A i : ChatRow(i) \notin D
  BY <1>5, GateKeys
<1> HIDE DEF g, c
<1>7. /\ Sessions' /\ Leaves(t) /\ call'[t] = c /\ phase'[t] = "gates" /\ named'[t] = n /\ todo'[t] = g
      /\ held'[t] = NoKeys /\ attempts'[t] \in 0..3 /\ UNCHANGED <<requests, users, chats, routes>>
  <2>1. Sessions' /\ Leaves(t)
    BY <1>1, <1>2 DEF Sessions, PerSession, Leaves, Phases
  <2>2. call'[t] = c
    BY <1>1 DEF c
  <2> QED BY <1>1, <1>2, <1>3, <2>1, <2>2 DEF Sessions, PerSession, store
<1>8. Open(c, "gates", g, NoKeys, attempts'[t], requests)
  BY <1>3, <1>6, <1>7, NothingHeld DEF Open
<1>9. GatesTaken(c, "gates", n, g, NoKeys) /\ NoRowsYet(g, NoKeys)
  <2>1. \A k \in DOMAIN Gates(c, n) : k \notin DOMAIN NoKeys /\ k \in DOMAIN g /\ g[k] = Gates(c, n)[k]
    BY NothingHeld DEF g
  <2>2. GatesTaken(c, "gates", n, g, NoKeys)
    BY <2>1 DEF GatesTaken, Taken
  <2> QED BY <1>6, <2>2, NothingHeld DEF NoRowsYet
<1>10. Session(t)'
  BY <1>4, <1>7, <1>8, <1>9 DEF Session, Holding, Seeing
<1>11. Switched'
  BY <1>1, <1>2, SwitchedKept DEF store
<1>12. \A u \in Txns \ {t} : Shared(held'[t], held[u])
  BY <1>7, NothingHeld
<1> QED BY <1>1, <1>7, <1>10, <1>11, <1>12, QuietStep

LEMMA AcquireKeeps ==
  ASSUME LocksInv, NEW t \in Txns, Acquire(t)
  PROVE  LocksInv'
<1> DEFINE due == Due(t)  had == held[t]  was == todo[t]  has == held'[t]  left == todo'[t]
<1>1. /\ todo[t] # NoKeys /\ Holders(t) = {}
      /\ UNCHANGED <<store, begun, call, phase, named, view, attempts>>
  BY DEF Acquire
<1>2. Sessions /\ Session(t) /\ Switched /\ Open(call[t], phase[t], was, had, attempts[t], requests)
  BY DEF LocksInv, Session
<1>3. PICK D \in SUBSET LockKey : was \in [D -> Modes]
  BY <1>2 DEF Open
<1>4. PICK H \in SUBSET LockKey : had \in [H -> Modes]
  BY <1>2 DEF Open
<1>5. due \in D /\ DOMAIN was = D /\ DOMAIN had = H /\ was[due] \in Modes /\ due \in LockKey
  BY <1>1, <1>3, <1>4, DueExists
<1> HIDE DEF due
<1>6. /\ left = [k \in D \ {due} |-> was[k]]
      /\ has = [k \in H \union {due} |-> IF k \in H THEN had[k] ELSE was[k]]
      /\ Sessions' /\ Leaves(t)
  <2>1. /\ todo' = [todo EXCEPT ![t] = [k \in DOMAIN was \ {due} |-> was[k]]]
        /\ held' = [held EXCEPT ![t] = [k \in DOMAIN had \union {due} |-> IF k \in DOMAIN had THEN had[k] ELSE was[k]]]
    BY DEF Acquire, due
  <2>2. Sessions' /\ Leaves(t)
    BY <1>1, <1>2, <2>1 DEF Sessions, PerSession, Leaves
  <2> QED BY <1>2, <1>5, <2>1, <2>2 DEF Sessions, PerSession
<1> HIDE DEF had, was, has, left
<1>7. /\ left \in [D \ {due} -> Modes] /\ D \ {due} \in SUBSET LockKey
      /\ has \in [H \union {due} -> Modes] /\ H \union {due} \in SUBSET LockKey
  BY <1>3, <1>4, <1>5, <1>6
<1>8. \A k, mode, present : Taken(k, mode, had, was, present) => Taken(k, mode, has, left, present)
  BY <1>3, <1>4, <1>5, <1>6 DEF Taken
<1>9. NoRowsYet(was, had) => NoRowsYet(left, has)
  BY <1>3, <1>4, <1>5, <1>6 DEF NoRowsYet
<1>10. /\ UNCHANGED <<requests, users, chats, routes, banned, approved, stored, flags>>
       /\ call'[t] = call[t] /\ phase'[t] = phase[t] /\ named'[t] = named[t] /\ view'[t] = view[t]
       /\ attempts'[t] = attempts[t]
  BY <1>1 DEF store
<1>11. Open(call[t], phase[t], left, has, attempts[t], requests)
  <2>1. phase[t] \notin {"idle", "start"}
    BY <1>1, <1>2 DEF Open, was
  <2> QED BY <1>2, <1>7, <2>1 DEF Open
<1>12. Holding(t)'
  <2>1. Holding(t)
    BY <1>2 DEF Session
  <2>2. \A c, p, n : GatesTaken(c, p, n, was, had) => GatesTaken(c, p, n, left, has)
    BY <1>8 DEF GatesTaken
  <2>3. \A p, n : RowsTaken(p, n, was, had, chats, routes) => RowsTaken(p, n, left, has, chats, routes)
    BY <1>8 DEF RowsTaken
  <2> QED BY <1>9, <1>10, <2>1, <2>2, <2>3 DEF Holding, left, has, was, had
<1>13. Seeing(t)'
  BY <1>2, <1>10 DEF Session, Seeing
<1>14. Session(t)'
  BY <1>10, <1>11, <1>12, <1>13 DEF Session, left, has
<1>15. ASSUME NEW u \in Txns \ {t}
       PROVE  Shared(held'[t], held[u])
  <2>1. Shared(had, held[u])
    BY DEF LocksInv, had
  <2>2. due \in DOMAIN held[u] => Compatible(held[u][due], was[due])
    BY <1>1 DEF Holders, due, was
  <2>3. due \in DOMAIN held[u] => Compatible(was[due], held[u][due])
    BY <2>2 DEF Compatible
  <2>4. Shared(has, held[u])
    BY <1>4, <1>5, <1>6, <2>1, <2>3 DEF Shared
  <2> QED BY <2>4 DEF has
<1>16. Switched'
  BY <1>1, <1>2, SwitchedKept DEF store
<1> QED BY <1>1, <1>6, <1>14, <1>15, <1>16, QuietStep

(* With nothing left to take, what was to be taken is held.                *)
LEMMA AllTaken ==
  ASSUME NEW k, NEW mode, NEW has, NEW present, Taken(k, mode, has, NoKeys, present)
  PROVE  /\ k \in DOMAIN has /\ has[k] = mode
         /\ \A due, later : Taken(k, mode, has, due, later)
<1>1. k \in DOMAIN has /\ has[k] = mode
  BY NothingHeld DEF Taken
<1> QED BY <1>1 DEF Taken

(* A step of a session that asks for its next locks.                       *)
LEMMA AskStep ==
  ASSUME LocksInv, NEW t \in Txns, NEW p \in {"users", "chats", "write"},
         phase[t] \in {"gates", "users", "chats"}, todo[t] = NoKeys,
         phase' = [phase EXCEPT ![t] = p], Sessions', Leaves(t),
         UNCHANGED <<store, begun, call, named, held, attempts>>,
         NEW D \in SUBSET LockKey, todo'[t] \in [D -> Modes],
         p = "users" => \A i : ChatRow(i) \notin D,
         p = "chats" => phase[t] = "users" /\ \A r \in ChatsOf(named[t], chats, routes) : ChatRow(r.id) \in D /\ todo'[t][ChatRow(r.id)] = "x",
         p = "users" => phase[t] = "gates",
         p = "write" => phase[t] = "chats",
         Seeing(t)'
  PROVE  LocksInv'
<1>1. Sessions /\ Session(t) /\ Switched
  BY DEF LocksInv
<1>2. /\ phase'[t] = p /\ call'[t] = call[t] /\ named'[t] = named[t] /\ held'[t] = held[t] /\ attempts'[t] = attempts[t]
      /\ UNCHANGED <<users, chats, routes, banned, requests, approved, stored, flags>>
  BY <1>1 DEF Sessions, store
<1>3. Open(call[t], p, todo'[t], held[t], attempts[t], requests)
  BY <1>1 DEF Session, Open
<1>4. Holding(t)
  BY <1>1 DEF Session
<1>5. NamesKept(call[t], named[t], requests, users)
  BY <1>4 DEF Holding
<1>6. GatesTaken(call[t], p, named[t], todo'[t], held[t])
  <2>1. GatesTaken(call[t], phase[t], named[t], NoKeys, held[t])
    BY <1>4 DEF Holding
  <2> QED BY <2>1, AllTaken DEF GatesTaken
<1>7. p = "users" => NoRowsYet(todo'[t], held[t])
  <2>1. ASSUME p = "users" PROVE NoRowsYet(todo[t], held[t]) /\ DOMAIN todo'[t] = D /\ \A i : ChatRow(i) \notin D
    BY <1>4, <2>1 DEF Holding
  <2> QED BY <2>1 DEF NoRowsYet
<1>8. p \in {"chats", "write"} => RowsTaken(p, named[t], todo'[t], held[t], chats, routes)
  <2>1. CASE p = "chats"
    <3>1. NoRowsYet(todo[t], held[t]) /\ DOMAIN todo'[t] = D
      BY <1>4, <2>1 DEF Holding
    <3> QED BY <2>1, <3>1 DEF RowsTaken, Taken, NoRowsYet
  <2>2. CASE p = "write"
    <3>1. RowsTaken("chats", named[t], NoKeys, held[t], chats, routes)
      BY <1>4, <2>2 DEF Holding
    <3> QED BY <3>1, AllTaken DEF RowsTaken
  <2> QED BY <2>1, <2>2
<1>9. Holding(t)'
  BY <1>2, <1>5, <1>6, <1>7, <1>8 DEF Holding
<1>10. Session(t)'
  BY <1>2, <1>3, <1>9 DEF Session
<1>11. \A u \in Txns \ {t} : Shared(held'[t], held[u])
  BY <1>2 DEF LocksInv
<1>12. Switched'
  BY <1>1, <1>2, SwitchedKept
<1> QED BY <1>10, <1>11, <1>12, QuietStep

LEMMA ResolveUsersKeeps ==
  ASSUME LocksInv, NEW t \in Txns, ResolveUsers(t)
  PROVE  LocksInv'
<1> DEFINE n == named[t]
           K == {UserRow(r.id) : r \in {r \in users : r.tg \in n.users \union n.actors}}
           f == [k \in K |-> IF \E r \in users : UserRow(r.id) = k /\ r.tg \in n.users THEN "x" ELSE "s"]
<1>1. /\ phase[t] = "gates" /\ todo[t] = NoKeys
      /\ todo' = [todo EXCEPT ![t] = f] /\ phase' = [phase EXCEPT ![t] = "users"]
      /\ UNCHANGED <<store, begun, call, named, held, view, attempts>>
  BY DEF ResolveUsers
<1>2. K \subseteq LockKey /\ \A i : ChatRow(i) \notin K
  <2>1. \A r \in users : r.id \in Nat
    BY DEF LocksInv, UsersStored, UserRecord
  <2> QED BY <2>1 DEF LockKey, UserRow, ChatRow
<1>3. f \in [K -> Modes]
  BY DEF Modes
<1> HIDE DEF f, K
<1>4. Sessions' /\ Leaves(t) /\ todo'[t] = f /\ phase'[t] = "users"
  BY <1>1 DEF LocksInv, Sessions, PerSession, Leaves, Phases
<1>5. Seeing(t)'
  BY <1>4 DEF Seeing
<1> QED BY <1>1, <1>2, <1>3, <1>4, <1>5, AskStep

LEMMA ResolveChatsKeeps ==
  ASSUME LocksInv, NEW t \in Txns, ResolveChats(t)
  PROVE  LocksInv'
<1> DEFINE n == named[t]
           rows == ChatsOf(n, chats, routes)
           K == {ChatRow(r.id) : r \in rows}
           f == [k \in K |-> "x"]
<1>1. /\ phase[t] = "users" /\ todo[t] = NoKeys
      /\ todo' = [todo EXCEPT ![t] = f] /\ phase' = [phase EXCEPT ![t] = "chats"]
      /\ UNCHANGED <<store, begun, call, named, held, view, attempts>>
  BY InStore DEF ResolveChats, ChatsOf
<1>2. K \subseteq LockKey
  <2>1. rows \subseteq chats
    BY DEF ChatsOf, ChatsAt
  <2>2. \A r \in chats : r.id \in Nat
    BY DEF LocksInv, ChatsStored, ChatRecord
  <2> QED BY <2>1, <2>2 DEF LockKey, ChatRow
<1>3. f \in [K -> Modes] /\ \A r \in ChatsOf(n, chats, routes) : ChatRow(r.id) \in K /\ f[ChatRow(r.id)] = "x"
  BY DEF Modes
<1> HIDE DEF f, K, rows
<1>4. Sessions' /\ Leaves(t) /\ todo'[t] = f /\ phase'[t] = "chats"
  BY <1>1 DEF LocksInv, Sessions, PerSession, Leaves, Phases
<1>5. Seeing(t)'
  BY <1>4 DEF Seeing
<1> QED BY <1>1, <1>2, <1>3, <1>4, <1>5, AskStep

(* What is read is what is so, of the store as it is.                      *)
LEMMA ViewForm ==
  ASSUME NEW c
  PROVE  /\ View(ViewOf(c))
         /\ ViewOf(c).users = PeopleSeen(c, users, requests)
         /\ ViewOf(c).chats = GroupsSeen(c, chats, routes, requests)
         /\ ViewOf(c).routed = {p \in routes : p[1] \in TargetChats(c)}
         /\ ViewOf(c).may = MaySeen(c, banned, users)
         /\ ViewOf(c).requests = {r \in requests : r.group \in GroupsIn(c, requests)}
         /\ ViewOf(c).approved = approved \intersect GroupsIn(c, requests)
         /\ ViewOf(c).stored = {s \in stored : s.what = c.op /\ s.subject = Subject(c)}
         /\ ViewOf(c).flag = IF c.op \in DOMAIN flags THEN flags[c.op] ELSE 0
<1>1. /\ Requested(c) = RequestedIn(c, requests) /\ TargetGroups(c) = GroupsIn(c, requests)
      /\ (c.op \in Authorised /\ May(c.by)) = MaySeen(c, banned, users)
      /\ \A m : ChatRows(m) = ChatsAt(m, chats, routes)
      /\ UserRows(c.user) = {r \in users : r.tg = c.user}
  BY InStore DEF MaySeen, UserRows
<1> DEFINE a == IF c.user # None THEN UserRows(c.user) ELSE {u \in users : \E r \in Requested(c) : r.user = u.id}
           b == (UNION {ChatRows(n) : n \in TargetChats(c)}) \union {r \in chats : r.id \in TargetGroups(c)}
           d == {p \in routes : p[1] \in TargetChats(c)}
           e == c.op \in Authorised /\ May(c.by)
           q == {r \in requests : r.group \in TargetGroups(c)}
           g == approved \intersect TargetGroups(c)
           h == {s \in stored : s.what = c.op /\ s.subject = Subject(c)}
           i == IF c.op \in DOMAIN flags THEN flags[c.op] ELSE 0
<1>2. a = PeopleSeen(c, users, requests)
  BY <1>1 DEF PeopleSeen
<1>3. b = GroupsSeen(c, chats, routes, requests)
  BY <1>1 DEF GroupsSeen
<1>4. ViewOf(c) = [users |-> a, chats |-> b, routed |-> d, may |-> e, requests |-> q, approved |-> g, stored |-> h, flag |-> i]
  BY DEF ViewOf
<1>5. e = MaySeen(c, banned, users) /\ q = {r \in requests : r.group \in GroupsIn(c, requests)} /\ g = approved \intersect GroupsIn(c, requests)
  BY <1>1
<1> HIDE DEF a, b, d, e, q, g, h, i
<1>6. /\ View(ViewOf(c)) /\ ViewOf(c).users = a /\ ViewOf(c).chats = b /\ ViewOf(c).routed = d /\ ViewOf(c).may = e
      /\ ViewOf(c).requests = q /\ ViewOf(c).approved = g /\ ViewOf(c).stored = h /\ ViewOf(c).flag = i
  BY <1>4 DEF View
<1>7. /\ d = {p \in routes : p[1] \in TargetChats(c)} /\ h = {s \in stored : s.what = c.op /\ s.subject = Subject(c)}
      /\ i = IF c.op \in DOMAIN flags THEN flags[c.op] ELSE 0
  BY DEF d, h, i
<1> QED BY <1>2, <1>3, <1>5, <1>6, <1>7

LEMMA ReadKeeps ==
  ASSUME LocksInv, NEW t \in Txns, Read(t)
  PROVE  LocksInv'
<1> DEFINE c == call[t]  v == ViewOf(c)
           K == IF c.op = "worker" /\ LiveOf(v.chats) # {} THEN {UserRow(r.id) : r \in LiveOf(v.users)} ELSE {}
           f == todo'[t]
<1>1. /\ phase[t] = "chats" /\ todo[t] = NoKeys
      /\ view' = [view EXCEPT ![t] = v] /\ phase' = [phase EXCEPT ![t] = "write"]
      /\ UNCHANGED <<store, begun, call, named, held, attempts>>
  BY DEF Read
<1>2. /\ PerSession(view) /\ PerSession(todo)
      /\ todo' = [todo EXCEPT ![t] = IF c.op = "worker" /\ LiveOf(v.chats) # {}
                                     THEN [k \in {UserRow(r.id) : r \in LiveOf(v.users)} |-> "k"] ELSE NoKeys]
  BY DEF Read, LocksInv, Sessions
<1>3. f \in [K -> Modes]
  <2>1. f = IF c.op = "worker" /\ LiveOf(v.chats) # {}
            THEN [k \in {UserRow(r.id) : r \in LiveOf(v.users)} |-> "k"] ELSE NoKeys
    BY <1>2 DEF PerSession
  <2> HIDE DEF f, v, c
  <2> QED BY <2>1 DEF Modes, NoKeys
<1>4. Sessions' /\ Leaves(t) /\ phase'[t] = "write" /\ view'[t] = v /\ call'[t] = c
  <2> HIDE DEF v
  <2> QED BY <1>1, <1>2 DEF LocksInv, Sessions, PerSession, Leaves, Phases
<1>6. K \subseteq LockKey
  <2>1. \A u \in v.users : u.id \in Nat
    <3>1. v.users = PeopleSeen(c, users, requests)
      BY ViewForm
    <3>2. v.users \subseteq users
      BY <3>1 DEF PeopleSeen
    <3> QED BY <3>2 DEF LocksInv, UsersStored, UserRecord
  <2> HIDE DEF v, c
  <2> QED BY <2>1 DEF LockKey, UserRow, LiveOf
<1>7. Seeing(t)'
  <2>1. /\ View(v) /\ v.users = PeopleSeen(c, users, requests) /\ v.chats = GroupsSeen(c, chats, routes, requests)
        /\ v.routed = {p \in routes : p[1] \in TargetChats(c)} /\ v.may = MaySeen(c, banned, users)
        /\ v.requests = {r \in requests : r.group \in GroupsIn(c, requests)}
        /\ v.approved = approved \intersect GroupsIn(c, requests)
        /\ v.stored = {s \in stored : s.what = c.op /\ s.subject = Subject(c)}
        /\ v.flag = IF c.op \in DOMAIN flags THEN flags[c.op] ELSE 0
    BY ViewForm
  <2>2. UNCHANGED <<users, chats, routes, banned, requests, approved, stored, flags>>
    BY <1>1 DEF store
  <2> HIDE DEF v, c
  <2>3. v.users = {r \in PeopleSeen(c, users, requests) : r.by = "worker" => r \in v.users}
    BY <2>1
  <2> QED BY <1>4, <2>1, <2>2, <2>3 DEF Seeing
<1> HIDE DEF K, f, v, c
<1>8. f = todo'[t] /\ f \in [K -> Modes]
  BY <1>3 DEF f
<1> QED BY <1>1, <1>4, <1>6, <1>7, <1>8, AskStep

(* A session that ends leaves nothing behind.                              *)
IdleSession(t) ==
  /\ call'[t] = NoCall /\ phase'[t] = "idle" /\ todo'[t] = NoKeys /\ held'[t] = NoKeys /\ attempts'[t] = 0

LEMMA EndedIdle ==
  ASSUME LocksInv, NEW t \in Txns, Ended(t)
  PROVE  Sessions' /\ Leaves(t) /\ IdleSession(t) /\ Session(t)'
<1>1. Sessions
  BY DEF LocksInv
<1>2. Sessions' /\ Leaves(t) /\ IdleSession(t)
  BY <1>1 DEF Ended, Sessions, PerSession, Leaves, IdleSession, Phases
<1>3. Open(NoCall, "idle", NoKeys, NoKeys, 0, requests')
  BY NothingHeld DEF Open, NoCall
<1>4. Session(t)'
  <2>1. Open(call[t], phase[t], todo[t], held[t], attempts[t], requests)'
    BY <1>2, <1>3 DEF IdleSession
  <2> QED BY <1>2, <2>1 DEF Session, Holding, Seeing, IdleSession
<1> QED BY <1>2, <1>4

LEMMA BusyEnded ==
  ASSUME LocksInv, NEW t \in Txns, Ended(t)
  PROVE  /\ IsFiniteSet(Busy') /\ Cardinality(Busy') \in Nat /\ Cardinality(Busy) \in Nat
         /\ Cardinality(Busy') <= Cardinality(Busy)
         /\ call[t] # NoCall => Cardinality(Busy') = Cardinality(Busy) - 1
<1>1. Leaves(t) /\ IdleSession(t) /\ IsFiniteSet(Busy)
  BY EndedIdle DEF LocksInv, Switched
<1>2. Busy' = Busy \ {t} /\ (call[t] # NoCall <=> t \in Busy)
  BY <1>1 DEF Leaves, IdleSession, Busy
<1> HIDE DEF Busy
<1>3. IsFiniteSet(Busy') /\ Cardinality(Busy') = IF t \in Busy THEN Cardinality(Busy) - 1 ELSE Cardinality(Busy)
  BY <1>1, <1>2, FS_RemoveElement
<1> QED BY <1>1, <1>2, <1>3, FS_CardinalityType

LEMMA SwitchedEnded ==
  ASSUME LocksInv, NEW t \in Txns, Ended(t), UNCHANGED <<flags, begun>>
  PROVE  Switched'
<1>1. Switched /\ UNCHANGED <<flags, begun>>
  BY DEF LocksInv
<1>2. flags.system \in Nat /\ flags.emergency \in Nat /\ begun \in Nat
  <2>1. MaxCalls \in Nat
    BY LocksAssumption
  <2> QED BY <1>1, <2>1 DEF Switched
<1> HIDE DEF Busy
<1> QED BY <1>1, <1>2, BusyEnded DEF Switched

LEMMA VictimKeeps ==
  ASSUME LocksInv, NEW t \in Txns, Victim(t)
  PROVE  LocksInv'
<1>1. UNCHANGED <<store, begun>> /\ Sessions /\ Session(t) /\ Switched
  BY DEF Victim, LocksInv
<1>2. UNCHANGED <<users, chats, routes, banned, requests, approved, stored, flags>>
  BY <1>1 DEF store
<1>3. CASE Retried(t) /\ Again(t)
  <2>1. /\ phase' = [phase EXCEPT ![t] = "start"] /\ named' = [named EXCEPT ![t] = NoNames]
        /\ todo' = [todo EXCEPT ![t] = NoKeys] /\ held' = [held EXCEPT ![t] = NoKeys]
        /\ view' = [view EXCEPT ![t] = NoView] /\ UNCHANGED <<call, attempts>>
    BY <1>3 DEF Again
  <2>2. Sessions' /\ Leaves(t) /\ phase'[t] = "start" /\ todo'[t] = NoKeys /\ held'[t] = NoKeys
    BY <1>1, <2>1 DEF Sessions, PerSession, Leaves, Phases
  <2>3. Open(call[t], phase[t], todo[t], held[t], attempts[t], requests) /\ attempts[t] < 3
    BY <1>1, <1>3 DEF Session, Retried
  <2>4. Open(call[t], "start", NoKeys, NoKeys, attempts[t], requests)
    BY <2>3, NothingHeld DEF Open
  <2>5. Session(t)'
    BY <1>2, <2>1, <2>2, <2>4 DEF Session, Holding, Seeing
  <2>6. Switched'
    BY <1>1, <1>2, <2>1, SwitchedKept
  <2> QED BY <1>1, <2>2, <2>5, <2>6, NothingHeld, QuietStep
<1>4. CASE Ended(t)
  <2>1. held'[t] = NoKeys
    BY <1>4, EndedIdle DEF IdleSession
  <2> QED BY <1>1, <1>2, <1>4, <2>1, EndedIdle, SwitchedEnded, NothingHeld, QuietStep
<1> QED BY <1>3, <1>4 DEF Victim

----------------------------------------------------------------------------
(* What a session holds once its gates are taken, and once its rows are.   *)
Owns(has, k) == k \in DOMAIN has /\ has[k] = "x"

LEMMA GateModes ==
  ASSUME NEW c, NEW n
  PROVE  /\ \A b \in n.users : Owns(Gates(c, n), UserGate(b))
         /\ \A b \in n.actors : UserGate(b) \in DOMAIN Gates(c, n)
         /\ \A m \in n.numbers : Owns(Gates(c, n), ChatGate(m))
         /\ c.op = "system" => Owns(Gates(c, n), SystemGate)
         /\ c.op = "emergency" => Owns(Gates(c, n), FeatureGate)
<1> DEFINE shared == {UserGate(u) : u \in n.actors \ n.users}
           special == (IF c.op = "system" THEN {SystemGate} ELSE {}) \union (IF c.op = "emergency" THEN {FeatureGate} ELSE {})
           all == shared \union ({ChatGate(m) : m \in n.numbers} \union {UserGate(u) : u \in n.users} \union special)
<1>1. Gates(c, n) = [k \in all |-> IF k \in shared THEN "s" ELSE "x"]
  BY DEF Gates
<1>2. \A b \in n.users : UserGate(b) \in all /\ UserGate(b) \notin shared
  <2>1. \A u, v : UserGate(u) = UserGate(v) => u = v
    BY DEF UserGate
  <2> QED BY <2>1
<1>3. \A b \in n.actors : UserGate(b) \in all
  OBVIOUS
<1>4. \A m \in n.numbers : ChatGate(m) \in all /\ ChatGate(m) \notin shared
  <2>1. \A u, v : UserGate(u) # ChatGate(v)
    BY DEF UserGate, ChatGate
  <2> QED BY <2>1
<1>5. c.op = "system" => SystemGate \in all /\ SystemGate \notin shared
  BY Keys
<1>6. c.op = "emergency" => FeatureGate \in all /\ FeatureGate \notin shared
  BY Keys
<1> HIDE DEF all, shared
<1> QED BY <1>1, <1>2, <1>3, <1>4, <1>5, <1>6 DEF Owns

LEMMA GatesHeld ==
  ASSUME LocksInv, NEW t \in Txns, phase[t] \in {"users", "chats", "write"}
  PROVE  /\ NamesKept(call[t], named[t], requests, users)
         /\ \A b \in TargetUsers(call[t]) : Owns(held[t], UserGate(b))
         /\ \A b \in ActorsIn(call[t], requests, users) : UserGate(b) \in DOMAIN held[t]
         /\ \A m \in named[t].numbers : Owns(held[t], ChatGate(m))
         /\ call[t].op = "system" => Owns(held[t], SystemGate)
         /\ call[t].op = "emergency" => Owns(held[t], FeatureGate)
<1> DEFINE g == Gates(call[t], named[t])
<1>1. NamesKept(call[t], named[t], requests, users) /\ GatesTaken(call[t], phase[t], named[t], todo[t], held[t])
  BY DEF LocksInv, Session, Holding
<1>2. \A k \in DOMAIN g : k \in DOMAIN held[t] /\ held[t][k] = g[k]
  BY <1>1 DEF GatesTaken, Taken
<1> HIDE DEF g
<1>3. \A k : Owns(g, k) => Owns(held[t], k)
  BY <1>2 DEF Owns
<1>4. named[t].users = TargetUsers(call[t]) /\ named[t].actors = ActorsIn(call[t], requests, users)
  BY <1>1 DEF NamesKept
<1>5. /\ \A b \in TargetUsers(call[t]) : Owns(g, UserGate(b))
      /\ \A b \in ActorsIn(call[t], requests, users) : UserGate(b) \in DOMAIN g
      /\ \A m \in named[t].numbers : Owns(g, ChatGate(m))
      /\ call[t].op = "system" => Owns(g, SystemGate)
      /\ call[t].op = "emergency" => Owns(g, FeatureGate)
  BY <1>4, GateModes DEF g
<1> QED BY <1>1, <1>2, <1>3, <1>5

LEMMA RowsHeld ==
  ASSUME LocksInv, NEW t \in Txns, phase[t] = "write"
  PROVE  /\ \A r \in ChatsOf(named[t], chats, routes) : Owns(held[t], ChatRow(r.id))
         /\ \A r \in GroupsSeen(call[t], chats, routes, requests) : r \in ChatsOf(named[t], chats, routes)
         /\ 1 \in GroupsIn(call[t], requests) => Owns(held[t], ChatRow(1))
<1>1. NamesKept(call[t], named[t], requests, users) /\ RowsTaken("write", named[t], todo[t], held[t], chats, routes)
  BY DEF LocksInv, Session, Holding
<1>2. \A r \in ChatsOf(named[t], chats, routes) : Owns(held[t], ChatRow(r.id))
  BY <1>1 DEF RowsTaken, Taken, Owns
<1>3. \A r \in GroupsSeen(call[t], chats, routes, requests) : r \in ChatsOf(named[t], chats, routes)
  BY <1>1 DEF NamesKept, GroupsSeen, ChatsOf
<1>4. PICK r \in chats : r.id = 1
  BY DEF LocksInv, ChatsStored
<1>5. 1 \in GroupsIn(call[t], requests) => r \in ChatsOf(named[t], chats, routes)
  BY <1>1, <1>4 DEF NamesKept, ChatsOf
<1> QED BY <1>2, <1>3, <1>4, <1>5

LEMMA Excluded ==
  ASSUME LocksInv, NEW t \in Txns, NEW u \in Txns, t # u, NEW k, k \in DOMAIN held[t], Owns(held[u], k)
  PROVE  FALSE
BY DEF LocksInv, Shared, Owns, Compatible

----------------------------------------------------------------------------
(* What the write of a session may change, from what it holds.             *)
PeopleAt(b, people) == {r \in people : r.tg = b}
Newcomer(w, people) == w.by = "worker" /\ ~w.admin /\ \A r \in people : r.id # w.id

UserChange(has, people, after) ==
  /\ \A b \in Nat : \/ PeopleAt(b, after) = PeopleAt(b, people)
                    \/ Owns(has, UserGate(b))
                    \/ \E w : Newcomer(w, people) /\ PeopleAt(b, after) = PeopleAt(b, people) \union {w}
  /\ \A r \in people : \E s \in after : s.id = r.id /\ s.tg = r.tg
  /\ \A s \in after : \/ \E r \in people : r.id = s.id /\ r.tg = s.tg
                      \/ \A r \in people : r.id # s.id

BanChange(has, restricted, after) == \A b \in Nat : (b \in after <=> b \in restricted) \/ Owns(has, UserGate(b))

Ids(rows) == {r.id : r \in rows}
RoutesAt(m, moved) == {p \in moved : p[1] = m}

ChatChange(has, groups, moved, after, then) ==
  /\ \A m \in Nat : \/ Owns(has, ChatGate(m))
                    \/ /\ Ids(ChatsAt(m, after, then)) = Ids(ChatsAt(m, groups, moved))
                       /\ RoutesAt(m, then) = RoutesAt(m, moved)
  /\ \A r \in groups : r \in after \/ Owns(has, ChatRow(r.id))
  /\ \A s \in after : s \in groups \/ Owns(has, ChatRow(s.id)) \/ s.id \notin Ids(groups)

Requesters(asked) == {r.user : r \in {r \in asked : r.id = 1}}
RequestChange(has, asked, granted, after, then) ==
  /\ (after = asked /\ then = granted) \/ Owns(has, ChatRow(1))
  /\ asked # {} => after # {} /\ Requesters(after) = Requesters(asked)

About(o, x, kept) == {s \in kept : s.what = o /\ s.subject = x}
StoredChange(has, kept, after) ==
  \A o, x : \/ About(o, x, after) = About(o, x, kept)
            \/ o \in Configures /\ IF x[1] # None THEN Owns(has, UserGate(x[1])) ELSE Owns(has, ChatRow(1))

FlagChange(has, present, after) ==
  /\ DOMAIN after = DOMAIN present
  /\ after["system"] = present["system"] \/ Owns(has, SystemGate)
  /\ after["emergency"] = present["emergency"] \/ Owns(has, FeatureGate)

Changes(u) ==
  /\ UserChange(held[u], users, users') /\ BanChange(held[u], banned, banned')
  /\ ChatChange(held[u], chats, routes, chats', routes')
  /\ RequestChange(held[u], requests, approved, requests', approved')
  /\ StoredChange(held[u], stored, stored') /\ FlagChange(held[u], flags, flags')

(* What another session names stays what it names.                         *)
LEMMA NamesStable ==
  ASSUME LocksInv, NEW has, UserChange(has, users, users'), RequestChange(has, requests, approved, requests', approved'),
         RequestsStored', NEW c, c.op \in {"decide", "withdraw"} => requests # {}
  PROVE  /\ ActorsIn(c, requests', users') = ActorsIn(c, requests, users)
         /\ GroupsIn(c, requests') = GroupsIn(c, requests)
<1> DEFINE Asked(asked) == {r \in asked : r.id = 1}
           NamedBy(asked, people) == {u.tg : u \in {u \in people : \E r \in RequestedIn(c, asked) : r.user = u.id}}
<1>1. ASSUME c.op \notin {"decide", "withdraw"}
      PROVE  RequestedIn(c, requests) = {} /\ RequestedIn(c, requests') = {}
  BY <1>1 DEF RequestedIn
<1>2. ASSUME c.op \in {"decide", "withdraw"}
      PROVE  /\ requests # {} /\ requests' # {} /\ Requesters(requests') = Requesters(requests)
             /\ RequestedIn(c, requests) = Asked(requests) /\ RequestedIn(c, requests') = Asked(requests')
  BY <1>2 DEF RequestChange, RequestedIn
<1>3. GroupsIn(c, requests') = GroupsIn(c, requests)
  <2>1. /\ \A r \in requests : r.group = 1
        /\ \A r \in requests' : r.group = 1
        /\ requests # {} => \E r \in requests : r.id = 1
        /\ requests' # {} => \E r \in requests' : r.id = 1
    BY DEF LocksInv, RequestsStored, RequestRecord
  <2>2. CASE c.op \in {"decide", "withdraw"}
    <3>1. {r.group : r \in Asked(requests)} = {1} /\ {r.group : r \in Asked(requests')} = {1}
      BY <1>2, <2>1, <2>2
    <3> QED BY <1>2, <2>2, <3>1 DEF GroupsIn
  <2>3. CASE c.op \notin {"decide", "withdraw"}
    BY <1>1, <2>3 DEF GroupsIn
  <2> QED BY <2>2, <2>3
<1>4. NamedBy(requests', users') = NamedBy(requests, users)
  <2>1. CASE c.op \in {"decide", "withdraw"}
    <3>1. \A i : (\E r \in Asked(requests) : r.user = i) <=> i \in Requesters(requests)
      BY DEF Requesters
    <3>2. \A i : (\E r \in Asked(requests') : r.user = i) <=> i \in Requesters(requests')
      BY DEF Requesters
    <3>3. \A i \in Requesters(requests) : \E u \in users : u.id = i
      BY DEF Requesters, LocksInv, RequestsStored
    <3>4. ASSUME NEW b \in NamedBy(requests, users) PROVE b \in NamedBy(requests', users')
      <4>1. PICK u \in users : u.tg = b /\ \E r \in Asked(requests) : r.user = u.id
        BY <1>2, <2>1
      <4>2. PICK s \in users' : s.id = u.id /\ s.tg = u.tg
        BY DEF UserChange
      <4> QED BY <1>2, <2>1, <3>1, <3>2, <4>1, <4>2
    <3>5. ASSUME NEW b \in NamedBy(requests', users') PROVE b \in NamedBy(requests, users)
      <4>1. PICK s \in users' : s.tg = b /\ \E r \in Asked(requests') : r.user = s.id
        BY <1>2, <2>1
      <4>2. s.id \in Requesters(requests)
        BY <1>2, <2>1, <3>2, <4>1
      <4>3. PICK r \in users : r.id = s.id /\ r.tg = s.tg
        BY <3>3, <4>2 DEF UserChange
      <4> QED BY <1>2, <2>1, <3>1, <4>1, <4>2, <4>3
    <3> QED BY <3>4, <3>5
  <2>2. CASE c.op \notin {"decide", "withdraw"}
    BY <1>1, <2>2
  <2> QED BY <2>1, <2>2
<1>5. ActorsIn(c, requests', users') = ActorsIn(c, requests, users)
  BY <1>4 DEF ActorsIn
<1> QED BY <1>3, <1>5

(* The rows another session locks are the rows that its numbers name.      *)
LEMMA IdsAtStable ==
  ASSUME LocksInv, NEW u \in Txns, NEW t \in Txns \ {u}, phase[t] \in {"users", "chats", "write"},
         ChatChange(held[u], chats, routes, chats', routes'), NEW m \in named[t].numbers
  PROVE  /\ Ids(ChatsAt(m, chats', routes')) = Ids(ChatsAt(m, chats, routes))
         /\ RoutesAt(m, routes') = RoutesAt(m, routes)
<1>1. ChatGate(m) \in DOMAIN held[t] /\ m \in Nat
  BY GatesHeld DEF Owns, NamesKept
<1>2. ~Owns(held[u], ChatGate(m))
  BY <1>1, Excluded
<1> QED BY <1>1, <1>2 DEF ChatChange

LEMMA RowsStable ==
  ASSUME LocksInv, NEW u \in Txns, NEW t \in Txns \ {u}, phase[t] \in {"chats", "write"},
         ChatChange(held[u], chats, routes, chats', routes')
  PROVE  RowsTaken(phase[t], named[t], todo[t], held[t], chats', routes')
<1> DEFINE n == named[t]
<1>1. NamesKept(call[t], n, requests, users) /\ RowsTaken(phase[t], n, todo[t], held[t], chats, routes)
  BY DEF LocksInv, Session, Holding
<1>2. ASSUME NEW s \in ChatsOf(n, chats', routes')
      PROVE  \E r \in ChatsOf(n, chats, routes) : r.id = s.id
  <2>1. CASE \E m \in n.numbers : s \in ChatsAt(m, chats', routes')
    <3>1. PICK m \in n.numbers : s \in ChatsAt(m, chats', routes')
      BY <2>1
    <3>2. s.id \in Ids(ChatsAt(m, chats, routes))
      BY <3>1, IdsAtStable DEF Ids
    <3> QED BY <3>2 DEF Ids, ChatsOf
  <2>2. CASE s.id \in n.groups
    <3>1. s.id = 1
      BY <1>1, <2>2, NamesTyped DEF NamesKept, LocksInv, Sessions
    <3>2. \E r \in chats : r.id = 1
      BY DEF LocksInv, ChatsStored
    <3> QED BY <2>2, <3>1, <3>2 DEF ChatsOf
  <2>3. \/ \E m \in n.numbers : s \in ChatsAt(m, chats', routes')
        \/ s.id \in n.groups
    BY <1>2 DEF ChatsOf
  <2> QED BY <2>1, <2>2, <2>3
<1> QED BY <1>1, <1>2 DEF RowsTaken

LEMMA GroupsStable ==
  ASSUME LocksInv, NEW u \in Txns, NEW t \in Txns \ {u}, phase[t] = "write", ChatsStored',
         ChatChange(held[u], chats, routes, chats', routes'),
         GroupsIn(call[t], requests') = GroupsIn(call[t], requests)
  PROVE  /\ GroupsSeen(call[t], chats', routes', requests') = GroupsSeen(call[t], chats, routes, requests)
         /\ {p \in routes' : p[1] \in TargetChats(call[t])} = {p \in routes : p[1] \in TargetChats(call[t])}
<1> DEFINE c == call[t]
           G == GroupsIn(c, requests)
           present == GroupsSeen(c, chats, routes, requests)
           then == GroupsSeen(c, chats', routes', requests')
<1>1. TargetChats(c) \subseteq named[t].numbers
  BY GatesHeld DEF NamesKept
<1>2. /\ Numbered(chats) /\ Numbered(chats') /\ \E r \in chats : r.id = 1
      /\ \E r \in chats' : r.id = 1
      /\ G \subseteq {1}
  BY NamesTyped DEF LocksInv, ChatsStored, Sessions
<1>3. /\ \A r : r \in present <=> (r \in chats /\ r.id \in G) \/ \E m \in TargetChats(c) : r \in ChatsAt(m, chats, routes)
      /\ \A r : r \in then <=> (r \in chats' /\ r.id \in G) \/ \E m \in TargetChats(c) : r \in ChatsAt(m, chats', routes')
  BY DEF GroupsSeen
<1>4. present \subseteq chats /\ then \subseteq chats'
  BY <1>3 DEF ChatsAt
<1>5. \A r \in present : Owns(held[t], ChatRow(r.id)) /\ ~Owns(held[u], ChatRow(r.id))
  BY RowsHeld, Excluded DEF Owns
<1>6. \A r \in present : \E s \in then : s.id = r.id
  <2> TAKE r \in present
  <2>1. CASE r \in chats /\ r.id \in G
    BY <1>2, <1>3, <2>1
  <2>2. CASE \E m \in TargetChats(c) : r \in ChatsAt(m, chats, routes)
    <3>1. PICK m \in TargetChats(c) : r \in ChatsAt(m, chats, routes)
      BY <2>2
    <3>2. r.id \in Ids(ChatsAt(m, chats', routes'))
      BY <1>1, <3>1, IdsAtStable DEF Ids
    <3> QED BY <1>3, <3>2 DEF Ids
  <2> QED BY <1>3, <2>1, <2>2
<1>7. \A s \in then : \E r \in present : r.id = s.id
  <2> TAKE s \in then
  <2>1. CASE s \in chats' /\ s.id \in G
    BY <1>2, <1>3, <2>1
  <2>2. CASE \E m \in TargetChats(c) : s \in ChatsAt(m, chats', routes')
    <3>1. PICK m \in TargetChats(c) : s \in ChatsAt(m, chats', routes')
      BY <2>2
    <3>2. s.id \in Ids(ChatsAt(m, chats, routes))
      BY <1>1, <3>1, IdsAtStable DEF Ids
    <3> QED BY <1>3, <3>2 DEF Ids
  <2> QED BY <1>3, <2>1, <2>2
<1> HIDE DEF present, then
<1>8. \A r \in present : r \in chats'
  BY <1>4, <1>5 DEF ChatChange
<1>9. \A s \in then : s \in chats
  <2> TAKE s \in then
  <2>1. PICK r \in present : r.id = s.id
    BY <1>7
  <2>2. s.id \in Ids(chats) /\ ~Owns(held[u], ChatRow(s.id))
    BY <1>4, <1>5, <2>1 DEF Ids
  <2> QED BY <1>4, <2>2 DEF ChatChange
<1>10. \A r \in present : r \in then
  <2> TAKE r \in present
  <2>1. PICK s \in then : s.id = r.id
    BY <1>6
  <2>2. r = s
    BY <1>2, <1>4, <1>8, <2>1 DEF Numbered
  <2> QED BY <2>1, <2>2
<1>11. \A s \in then : s \in present
  <2> TAKE s \in then
  <2>1. PICK r \in present : r.id = s.id
    BY <1>7
  <2>2. r = s
    BY <1>2, <1>4, <1>9, <2>1 DEF Numbered
  <2> QED BY <2>1, <2>2
<1>12. present = then
  BY <1>10, <1>11
<1>13. {p \in routes' : p[1] \in TargetChats(c)} = {p \in routes : p[1] \in TargetChats(c)}
  <2>1. \A m \in TargetChats(c) : RoutesAt(m, routes') = RoutesAt(m, routes)
    BY <1>1, IdsAtStable
  <2> QED BY <2>1 DEF RoutesAt
<1> QED BY <1>12, <1>13 DEF present, then

(* Of a number that another session holds, the rows stay; what appears is  *)
(* the worker's.                                                           *)
LEMMA PersonStable ==
  ASSUME LocksInv, NEW u \in Txns, NEW t \in Txns \ {u}, NEW b \in Nat, UserGate(b) \in DOMAIN held[t],
         UserChange(held[u], users, users'), BanChange(held[u], banned, banned')
  PROVE  /\ \A r \in users : r.tg = b => r \in users'
         /\ \A s \in users' \ users : s.tg = b => Newcomer(s, users)
         /\ b \in banned' <=> b \in banned
<1>1. ~Owns(held[u], UserGate(b))
  BY Excluded
<1>2. b \in banned' <=> b \in banned
  BY <1>1 DEF BanChange
<1>3. \/ PeopleAt(b, users') = PeopleAt(b, users)
      \/ \E w : Newcomer(w, users) /\ PeopleAt(b, users') = PeopleAt(b, users) \union {w}
  BY <1>1 DEF UserChange
<1>4. \A r : /\ r \in PeopleAt(b, users) <=> r \in users /\ r.tg = b
             /\ r \in PeopleAt(b, users') <=> r \in users' /\ r.tg = b
  BY DEF PeopleAt
<1>5. CASE PeopleAt(b, users') = PeopleAt(b, users)
  BY <1>2, <1>4, <1>5
<1>6. CASE \E w : Newcomer(w, users) /\ PeopleAt(b, users') = PeopleAt(b, users) \union {w}
  BY <1>2, <1>4, <1>6
<1> QED BY <1>3, <1>5, <1>6

LEMMA MayStable ==
  ASSUME LocksInv, NEW u \in Txns, NEW t \in Txns \ {u}, phase[t] = "write", call[t].op # "emergency", UsersStored',
         UserChange(held[u], users, users'), BanChange(held[u], banned, banned')
  PROVE  MaySeen(call[t], banned', users') = MaySeen(call[t], banned, users)
<1> DEFINE c == call[t]
<1>1. CASE c.op \notin Authorised \/ c.by = Cli
  BY <1>1 DEF MaySeen
<1>2. CASE c.op \in Authorised /\ c.by = None
  <2>1. \A r \in users \union users' : r.tg # None
    BY DEF LocksInv, UsersStored, UserRecord
  <2> QED BY <1>2, <2>1 DEF MaySeen
<1>3. CASE c.op \in Authorised /\ c.by \notin {None, Cli}
  <2>1. c.by \in ActorsIn(c, requests, users)
    BY <1>3 DEF ActorsIn, Asks, Authorised
  <2>2. UserGate(c.by) \in DOMAIN held[t]
    BY <2>1, GatesHeld
  <2>3. c.by \in Nat
    BY CallForms DEF LocksInv, Sessions
  <2>4. /\ \A r \in users : r.tg = c.by => r \in users'
        /\ \A s \in users' \ users : s.tg = c.by => ~s.admin
        /\ c.by \in banned' <=> c.by \in banned
    BY <2>2, <2>3, PersonStable DEF Newcomer
  <2>5. (\E r \in users' : r.tg = c.by /\ r.live /\ r.admin) <=> (\E r \in users : r.tg = c.by /\ r.live /\ r.admin)
    BY <2>4
  <2> QED BY <2>4, <2>5 DEF MaySeen
<1> QED BY <1>1, <1>2, <1>3

LEMMA PeopleStable ==
  ASSUME LocksInv, NEW u \in Txns, NEW t \in Txns \ {u}, phase[t] = "write", call[t].op # "worker",
         UserChange(held[u], users, users'), BanChange(held[u], banned, banned'),
         RequestChange(held[u], requests, approved, requests', approved'),
         NEW v, v = {r \in PeopleSeen(call[t], users, requests) : r.by = "worker" => r \in v}
  PROVE  v = {r \in PeopleSeen(call[t], users', requests') : r.by = "worker" => r \in v}
<1> DEFINE c == call[t]
<1>1. /\ Open(c, phase[t], todo[t], held[t], attempts[t], requests)
      /\ c \in Calls \union {NoCall} /\ users \subseteq UserRecord
      /\ \A r \in requests : \E x \in users : x.id = r.user
      /\ \A r, s \in users : r.id = s.id => r = s
  BY DEF LocksInv, Session, Sessions, UsersStored, RequestsStored, Numbered
<1>2. CASE c.user # None
  <2>1. UserGate(c.user) \in DOMAIN held[t]
    <3>1. c.user \in TargetUsers(c) \/ c.user \in ActorsIn(c, requests, users)
      <4>1. c.op \in OfUsers \union Configures
        BY <1>1, <1>2, CallForms
      <4> QED BY <1>2, <4>1 DEF TargetUsers, ActorsIn, OfUsers, Configures
    <3> QED BY <3>1, GatesHeld DEF Owns
  <2>2. /\ \A r \in users : r.tg = c.user => r \in users'
        /\ \A s \in users' \ users : s.tg = c.user => s.by = "worker"
    BY <1>1, <2>1, CallForms, PersonStable DEF Newcomer
  <2>3. /\ \A r : r \in PeopleSeen(c, users, requests) <=> r \in users /\ r.tg = c.user
        /\ \A r : r \in PeopleSeen(c, users', requests') <=> r \in users' /\ r.tg = c.user
    BY <1>2 DEF PeopleSeen
  <2>4. \A r : r \in v => r \in users
    BY <2>3
  <2>5. \A r : r \in v <=> r \in PeopleSeen(c, users', requests') /\ (r.by = "worker" => r \in v)
    BY <2>2, <2>3, <2>4
  <2> QED BY <2>5
<1>3. CASE c.user = None /\ c.op \in {"decide", "withdraw"}
  <2> DEFINE S == Requesters(requests)
  <2>1. requests # {} /\ Requesters(requests') = S
    BY <1>1, <1>3 DEF Open, RequestChange
  <2>2. /\ \A r : r \in PeopleSeen(c, users, requests) <=> r \in users /\ r.id \in S
        /\ \A r : r \in PeopleSeen(c, users', requests') <=> r \in users' /\ r.id \in S
    <3>1. \A i : (\E r \in RequestedIn(c, requests) : r.user = i) <=> i \in Requesters(requests)
      BY <1>3 DEF Requesters, RequestedIn
    <3>2. \A i : (\E r \in RequestedIn(c, requests') : r.user = i) <=> i \in Requesters(requests')
      BY <1>3 DEF Requesters, RequestedIn
    <3> QED BY <1>3, <2>1, <3>1, <3>2 DEF PeopleSeen
  <2>3. \A i \in S : \E x \in users : x.id = i
    BY <1>1 DEF Requesters
  <2> HIDE DEF S
  <2>4. ASSUME NEW x \in users, x.id \in S
        PROVE  /\ x \in users'
               /\ \A s \in users' \ users : s.tg = x.tg => \A r \in users : r.id # s.id
    <3>1. x \in PeopleSeen(c, users, requests) /\ \E r \in RequestedIn(c, requests) : r.user = x.id
      BY <1>3, <2>2, <2>4 DEF PeopleSeen
    <3>2. x.tg \in ActorsIn(c, requests, users)
      BY <3>1 DEF ActorsIn
    <3>3. UserGate(x.tg) \in DOMAIN held[t] /\ x.tg \in Nat
      BY <1>1, <3>2, GatesHeld DEF UserRecord
    <3> QED BY <3>3, PersonStable DEF Newcomer
  <2>5. ASSUME NEW s \in users', s.id \in S
        PROVE  s \in users
    <3>1. PICK x \in users : x.id = s.id /\ x.tg = s.tg
      BY <2>3, <2>5 DEF UserChange
    <3> QED BY <2>4, <2>5, <3>1
  <2>6. \A r : r \in PeopleSeen(c, users, requests) <=> r \in PeopleSeen(c, users', requests')
    BY <2>2, <2>4, <2>5
  <2>7. PeopleSeen(c, users, requests) = PeopleSeen(c, users', requests')
    <3>1. \A A, B : (\A r : r \in A <=> r \in B) => A = B
      OBVIOUS
    <3> QED BY <2>6, <3>1
  <2> QED BY <2>7
<1>4. CASE c.user = None /\ c.op \notin {"decide", "withdraw"}
  <2>1. PeopleSeen(c, users, requests) = {} /\ PeopleSeen(c, users', requests') = {}
    BY <1>4 DEF PeopleSeen, RequestedIn
  <2> QED BY <2>1
<1> QED BY <1>2, <1>3, <1>4

LEMMA ChoicesStable ==
  ASSUME LocksInv, NEW u \in Txns, NEW t \in Txns \ {u}, phase[t] = "write",
         StoredChange(held[u], stored, stored'),
         RequestChange(held[u], requests, approved, requests', approved'),
         FlagChange(held[u], flags, flags'), GroupsIn(call[t], requests') = GroupsIn(call[t], requests)
  PROVE  /\ About(call[t].op, Subject(call[t]), stored') = About(call[t].op, Subject(call[t]), stored)
         /\ {r \in requests' : r.group \in GroupsIn(call[t], requests)} = {r \in requests : r.group \in GroupsIn(call[t], requests)}
         /\ approved' \intersect GroupsIn(call[t], requests) = approved \intersect GroupsIn(call[t], requests)
         /\ (IF call[t].op \in DOMAIN flags' THEN flags'[call[t].op] ELSE 0)
              = (IF call[t].op \in DOMAIN flags THEN flags[call[t].op] ELSE 0)
<1> DEFINE c == call[t]  G == GroupsIn(c, requests)
<1>1. c \in Calls \union {NoCall} /\ G \subseteq {1}
  BY NamesTyped DEF LocksInv, Sessions
<1>2. 1 \in G => ~Owns(held[u], ChatRow(1))
  BY RowsHeld, Excluded DEF Owns
<1>3. \A b \in TargetUsers(c) : ~Owns(held[u], UserGate(b))
  BY GatesHeld, Excluded DEF Owns
<1>4. About(c.op, Subject(c), stored') = About(c.op, Subject(c), stored)
  <2>1. Subject(c)[1] = c.user
    BY DEF Subject
  <2>2. ASSUME c.op \in Configures
        PROVE  IF c.user # None THEN ~Owns(held[u], UserGate(c.user)) ELSE ~Owns(held[u], ChatRow(1))
    <3>1. c.user # None => c.user \in TargetUsers(c)
      BY <2>2 DEF TargetUsers
    <3>2. c.user = None => 1 \in G
      BY <2>2 DEF GroupsIn
    <3> QED BY <1>2, <1>3, <3>1, <3>2
  <2> QED BY <2>1, <2>2 DEF StoredChange
<1>5. 1 \in G => requests' = requests /\ approved' = approved
  BY <1>2 DEF RequestChange
<1>6. /\ {r \in requests' : r.group \in G} = {r \in requests : r.group \in G}
      /\ approved' \intersect G = approved \intersect G
  <2>1. CASE 1 \in G
    BY <1>5, <2>1
  <2>2. CASE G = {}
    BY <2>2
  <2> QED BY <1>1, <2>1, <2>2
<1>7. (IF c.op \in DOMAIN flags' THEN flags'[c.op] ELSE 0) = (IF c.op \in DOMAIN flags THEN flags[c.op] ELSE 0)
  <2>1. DOMAIN flags = {"system", "emergency"} /\ DOMAIN flags' = DOMAIN flags
    BY DEF LocksInv, Switched, FlagChange
  <2>2. c.op = "system" => ~Owns(held[u], SystemGate)
    BY GatesHeld, Excluded DEF Owns
  <2>3. c.op = "emergency" => ~Owns(held[u], FeatureGate)
    BY GatesHeld, Excluded DEF Owns
  <2>4. c.op \in DOMAIN flags => flags'[c.op] = flags[c.op]
    BY <2>1, <2>2, <2>3 DEF FlagChange
  <2> QED BY <2>1, <2>4
<1> QED BY <1>4, <1>6, <1>7

LEMMA OtherStable ==
  ASSUME LocksInv, NEW u \in Txns, NEW t \in Txns \ {u}, Leaves(u), Changes(u), UsersStored', ChatsStored', RequestsStored'
  PROVE  Session(t)'
<1> DEFINE c == call[t]
<1>1. /\ call'[t] = c /\ phase'[t] = phase[t] /\ named'[t] = named[t] /\ todo'[t] = todo[t]
      /\ held'[t] = held[t] /\ view'[t] = view[t] /\ attempts'[t] = attempts[t]
  BY DEF Leaves
<1>2. Open(c, phase[t], todo[t], held[t], attempts[t], requests) /\ Holding(t) /\ Seeing(t) /\ c \in Calls \union {NoCall}
  BY DEF LocksInv, Session, Sessions
<1>3. /\ UserChange(held[u], users, users') /\ BanChange(held[u], banned, banned')
      /\ ChatChange(held[u], chats, routes, chats', routes')
      /\ RequestChange(held[u], requests, approved, requests', approved')
      /\ StoredChange(held[u], stored, stored') /\ FlagChange(held[u], flags, flags')
  BY DEF Changes
<1>4. requests # {} => requests' # {}
  BY <1>3 DEF RequestChange
<1>5. Open(c, phase[t], todo[t], held[t], attempts[t], requests')
  BY <1>2, <1>4 DEF Open
<1>6. /\ ActorsIn(c, requests', users') = ActorsIn(c, requests, users)
      /\ GroupsIn(c, requests') = GroupsIn(c, requests)
  BY <1>2, <1>3, NamesStable DEF Open
<1>7. Holding(t)'
  <2>1. NamesKept(c, named[t], requests, users) => NamesKept(c, named[t], requests', users')
    BY <1>6 DEF NamesKept
  <2>2. phase[t] \in {"chats", "write"} => RowsTaken(phase[t], named[t], todo[t], held[t], chats', routes')
    BY <1>3, RowsStable
  <2> QED BY <1>1, <1>2, <2>1, <2>2 DEF Holding
<1>8. Seeing(t)'
  <2>1. CASE phase[t] = "write"
    <3> DEFINE v == view[t]
    <3>1. /\ View(v)
          /\ c.op # "worker" => v.users = {r \in PeopleSeen(c, users, requests) : r.by = "worker" => r \in v.users}
          /\ v.chats = GroupsSeen(c, chats, routes, requests)
          /\ v.routed = {p \in routes : p[1] \in TargetChats(c)}
          /\ c.op # "emergency" => v.may = MaySeen(c, banned, users)
          /\ v.requests = {r \in requests : r.group \in GroupsIn(c, requests)}
          /\ v.approved = approved \intersect GroupsIn(c, requests)
          /\ v.stored = About(c.op, Subject(c), stored)
          /\ v.flag = IF c.op \in DOMAIN flags THEN flags[c.op] ELSE 0
      BY <1>2, <2>1 DEF Seeing, About
    <3>2. c.op # "worker" => v.users = {r \in PeopleSeen(c, users', requests') : r.by = "worker" => r \in v.users}
      BY <1>3, <2>1, <3>1, PeopleStable
    <3>3. /\ v.chats = GroupsSeen(c, chats', routes', requests')
          /\ v.routed = {p \in routes' : p[1] \in TargetChats(c)}
      BY <1>3, <1>6, <2>1, <3>1, GroupsStable
    <3>4. c.op # "emergency" => v.may = MaySeen(c, banned', users')
      BY <1>3, <2>1, <3>1, MayStable
    <3>5. /\ v.requests = {r \in requests' : r.group \in GroupsIn(c, requests')}
          /\ v.approved = approved' \intersect GroupsIn(c, requests')
          /\ v.stored = About(c.op, Subject(c), stored')
          /\ v.flag = IF c.op \in DOMAIN flags' THEN flags'[c.op] ELSE 0
      BY <1>3, <1>6, <2>1, <3>1, ChoicesStable
    <3> HIDE DEF v, c
    <3>6. c = call'[t] /\ v = view'[t] /\ phase'[t] = "write"
      BY <1>1, <2>1 DEF c, v
    <3> QED BY <3>1, <3>2, <3>3, <3>4, <3>5, <3>6 DEF Seeing, About
  <2>2. CASE phase[t] # "write"
    BY <1>1, <2>2 DEF Seeing
  <2> QED BY <2>1, <2>2
<1> HIDE DEF c
<1>9. c = call'[t]
  BY <1>1 DEF c
<1> QED BY <1>1, <1>5, <1>7, <1>8, <1>9 DEF Session

LEMMA WriteStep ==
  ASSUME LocksInv, NEW u \in Txns, Ended(u), Changes(u), UsersStored', ChatsStored', RequestsStored', Switched'
  PROVE  LocksInv'
<1>1. Sessions' /\ Leaves(u) /\ IdleSession(u) /\ Session(u)'
  BY EndedIdle
<1>2. \A t \in Txns \ {u} : Session(t)'
  BY <1>1, OtherStable
<1>3. ASSUME NEW t \in Txns, NEW s \in Txns, t # s
      PROVE  Shared(held'[t], held'[s])
  <2>1. CASE t = u
    BY <1>1, <2>1, NothingHeld DEF IdleSession
  <2>2. CASE s = u
    BY <1>1, <2>2, NothingHeld, SharedBoth DEF IdleSession
  <2>3. CASE t # u /\ s # u
    BY <1>1, <1>3, <2>3 DEF Leaves, LocksInv
  <2> QED BY <2>1, <2>2, <2>3
<1> QED BY <1>1, <1>2, <1>3 DEF LocksInv

----------------------------------------------------------------------------
(* Numbered rows, with one more and with each of them changed.             *)
LEMMA NumberedAdd ==
  ASSUME NEW rows, Numbered(rows), \A r \in rows : r.id \in Nat, NEW s, s.id = Cardinality(rows) + 1
  PROVE  Numbered(rows \union {s}) /\ \A r \in rows : r.id # s.id
<1>1. IsFiniteSet(rows) /\ Cardinality(rows) \in Nat /\ \A r \in rows : r.id <= Cardinality(rows)
  BY FS_CardinalityType DEF Numbered
<1>2. \A r \in rows : r.id # s.id
  BY <1>1
<1>3. IsFiniteSet(rows \union {s}) /\ Cardinality(rows \union {s}) = Cardinality(rows) + 1
  BY <1>1, <1>2, FS_AddElement
<1>4. \A r \in rows \union {s} : r.id <= Cardinality(rows \union {s})
  BY <1>1, <1>3
<1>5. \A r, x \in rows \union {s} : r.id = x.id => r = x
  BY <1>2 DEF Numbered
<1> QED BY <1>2, <1>3, <1>4, <1>5 DEF Numbered

LEMMA NumberedMap ==
  ASSUME NEW rows, Numbered(rows), NEW g, DOMAIN g = rows, \A r \in rows : g[r].id = r.id
  PROVE  Numbered({g[r] : r \in rows})
<1> DEFINE after == {g[r] : r \in rows}
           h == [r \in rows |-> g[r]]
<1>1. \A r, s \in rows : g[r] = g[s] => r = s
  BY DEF Numbered
<1>2. h \in [rows -> after] /\ (\A r, s \in rows : h[r] = h[s] => r = s) /\ \A x \in after : \E r \in rows : h[r] = x
  BY <1>1
<1>3. h \in Bijection(rows, after)
  <2> HIDE DEF h, after
  <2> QED BY <1>2 DEF Bijection, Injection, Surjection, IsInjective
<1>4. IsFiniteSet(after) /\ Cardinality(after) = Cardinality(rows)
  <2> HIDE DEF h, after
  <2>1. ExistsBijection(rows, after)
    BY <1>3 DEF ExistsBijection
  <2> QED BY <2>1, FS_Bijection DEF Numbered
<1>5. \A x \in after : \E r \in rows : x = g[r] /\ x.id = r.id
  OBVIOUS
<1> HIDE DEF after
<1>6. \A x \in after : x.id <= Cardinality(after)
  BY <1>4, <1>5 DEF Numbered
<1>7. \A x, y \in after : x.id = y.id => x = y
  <2> TAKE x, y \in after
  <2>1. PICK r \in rows : x = g[r] /\ x.id = r.id
    BY <1>5
  <2>2. PICK s \in rows : y = g[s] /\ y.id = s.id
    BY <1>5
  <2> QED BY <2>1, <2>2 DEF Numbered
<1> QED BY <1>4, <1>6, <1>7 DEF Numbered, after

(* What a session read, when it writes.                                    *)
LEMMA WriterSees ==
  ASSUME LocksInv, NEW u \in Txns, phase[u] = "write"
  PROVE  LET c == call[u]  v == view[u] IN
         /\ c \in Calls \union {NoCall}
         /\ c.op # "worker" => v.users \subseteq users
         /\ c.op # "worker" /\ c.user # None => v.users = {r \in users : r.tg = c.user /\ (r.by = "worker" => r \in v.users)}
         /\ v.chats = GroupsSeen(c, chats, routes, requests)
         /\ v.chats \subseteq chats
         /\ \A r \in v.chats : Owns(held[u], ChatRow(r.id))
         /\ v.routed = {p \in routes : p[1] \in TargetChats(c)}
         /\ v.requests = {r \in requests : r.group \in GroupsIn(c, requests)}
         /\ v.stored = About(c.op, Subject(c), stored)
         /\ v.flag = IF c.op \in DOMAIN flags THEN flags[c.op] ELSE 0
<1> DEFINE c == call[u]  v == view[u]
<1>1. /\ c.op # "worker" => v.users = {r \in PeopleSeen(c, users, requests) : r.by = "worker" => r \in v.users}
      /\ v.chats = GroupsSeen(c, chats, routes, requests)
      /\ v.routed = {p \in routes : p[1] \in TargetChats(c)}
      /\ v.requests = {r \in requests : r.group \in GroupsIn(c, requests)}
      /\ v.stored = About(c.op, Subject(c), stored)
      /\ v.flag = IF c.op \in DOMAIN flags THEN flags[c.op] ELSE 0
  BY DEF LocksInv, Session, Seeing, About
<1>2. c.op # "worker" => v.users \subseteq users
  <2>1. PeopleSeen(c, users, requests) \subseteq users
    BY DEF PeopleSeen
  <2> HIDE DEF c, v
  <2> QED BY <1>1, <2>1
<1>3. c.op # "worker" /\ c.user # None => v.users = {r \in users : r.tg = c.user /\ (r.by = "worker" => r \in v.users)}
  <2>1. c.user # None => PeopleSeen(c, users, requests) = {r \in users : r.tg = c.user}
    BY DEF PeopleSeen
  <2> HIDE DEF c, v
  <2> QED BY <1>1, <2>1
<1>4. v.chats \subseteq chats
  <2>1. GroupsSeen(c, chats, routes, requests) \subseteq chats
    BY DEF GroupsSeen, ChatsAt
  <2> QED BY <1>1, <2>1
<1>5. \A r \in v.chats : Owns(held[u], ChatRow(r.id))
  BY <1>1, RowsHeld
<1>6. c \in Calls \union {NoCall}
  BY DEF LocksInv, Sessions
<1> QED BY <1>1, <1>2, <1>3, <1>4, <1>5, <1>6

(* A part of the store that is left alone.                                 *)
LEMMA PartsKept ==
  ASSUME LocksInv
  PROVE  /\ \A has : /\ users' = users => UserChange(has, users, users')
                     /\ banned' = banned => BanChange(has, banned, banned')
                     /\ chats' = chats /\ routes' = routes => ChatChange(has, chats, routes, chats', routes')
                     /\ requests' = requests /\ approved' = approved
                          => RequestChange(has, requests, approved, requests', approved')
                     /\ stored' = stored => StoredChange(has, stored, stored')
                     /\ flags' = flags => FlagChange(has, flags, flags')
         /\ users' = users => UsersStored'
         /\ chats' = chats /\ routes' = routes => ChatsStored'
<1>1. \A has : users' = users => UserChange(has, users, users')
  BY DEF UserChange
<1>2. \A has : banned' = banned => BanChange(has, banned, banned')
  BY DEF BanChange
<1>3. \A has : chats' = chats /\ routes' = routes => ChatChange(has, chats, routes, chats', routes')
  BY DEF ChatChange
<1>4. \A has : requests' = requests /\ approved' = approved => RequestChange(has, requests, approved, requests', approved')
  BY DEF RequestChange
<1>5. \A has : stored' = stored => StoredChange(has, stored, stored')
  BY DEF StoredChange
<1>6. \A has : flags' = flags => FlagChange(has, flags, flags')
  BY DEF FlagChange
<1>7. users' = users => UsersStored'
  BY DEF LocksInv, UsersStored
<1>8. chats' = chats /\ routes' = routes => ChatsStored'
  BY DEF LocksInv, ChatsStored
<1> QED BY <1>1, <1>2, <1>3, <1>4, <1>5, <1>6, <1>7, <1>8

LEMMA RequestsKept ==
  ASSUME LocksInv, requests' = requests, NEW has, UserChange(has, users, users')
  PROVE  RequestsStored'
<1>1. RequestsStored
  BY DEF LocksInv
<1>2. \A r \in requests : \E x \in users' : x.id = r.user
  BY <1>1 DEF RequestsStored, UserChange
<1> QED BY <1>1, <1>2 DEF RequestsStored

(* Rows of users: one more, or some of a number that is held changed.      *)
LEMMA UserAdded ==
  ASSUME LocksInv, NEW has, NEW b \in Nat \ {None}, NEW admin \in BOOLEAN, NEW op \in {"ingest", "member", "worker", "role"},
         Owns(has, UserGate(b)) \/ (op = "worker" /\ ~admin),
         users' = Inserted(b, admin, op)
  PROVE  UserChange(has, users, users') /\ UsersStored'
<1> DEFINE w == NewUser(b, admin, op)
<1>1. CASE LiveOf(UserRows(b)) # {}
  <2>1. users' = users
    BY <1>1 DEF Inserted
  <2> QED BY <2>1, PartsKept
<1>2. CASE LiveOf(UserRows(b)) = {}
  <2>1. users' = users \union {w}
    BY <1>2 DEF Inserted
  <2>2. /\ users \subseteq UserRecord /\ Numbered(users)
        /\ \A r, s \in users : r.live /\ s.live /\ r.tg = s.tg => r = s
        /\ Cardinality(users) \in Nat
    BY FS_CardinalityType DEF LocksInv, UsersStored, Numbered
  <2>3. /\ w.id = Cardinality(users) + 1 /\ w.tg = b /\ w.admin = admin /\ w.by = op
        /\ w \in UserRecord
    BY <2>2 DEF NewUser, UserRecord
  <2>4. \A r \in users : r.live => r.tg # b
    BY <1>2, <2>2 DEF LiveOf, UserRows, UserRecord
  <2> HIDE DEF w
  <2>5. \A r \in users : r.id \in Nat
    BY <2>2 DEF UserRecord
  <2>6. Numbered(users \union {w}) /\ \A r \in users : r.id # w.id
    BY <2>2, <2>3, <2>5, NumberedAdd
  <2>7. UsersStored'
    BY <2>1, <2>2, <2>3, <2>4, <2>6 DEF UsersStored
  <2>8. UserChange(has, users, users')
    <3>1. ASSUME NEW x \in Nat
          PROVE  \/ PeopleAt(x, users') = PeopleAt(x, users)
                 \/ Owns(has, UserGate(x))
                 \/ \E n : Newcomer(n, users) /\ PeopleAt(x, users') = PeopleAt(x, users) \union {n}
      <4>1. CASE x # b
        BY <2>1, <2>3, <4>1 DEF PeopleAt
      <4>2. CASE x = b /\ op = "worker" /\ ~admin
        <5>1. Newcomer(w, users)
          BY <2>3, <2>6, <4>2 DEF Newcomer
        <5>2. PeopleAt(x, users') = PeopleAt(x, users) \union {w}
          BY <2>1, <2>3, <4>2 DEF PeopleAt
        <5> QED BY <5>1, <5>2
      <4> QED BY <4>1, <4>2
    <3>2. \A s \in users' : \/ \E r \in users : r.id = s.id /\ r.tg = s.tg
                            \/ \A r \in users : r.id # s.id
      BY <2>1, <2>6
    <3>3. \A r \in users : \E s \in users' : s.id = r.id /\ s.tg = r.tg
      BY <2>1
    <3> QED BY <3>1, <3>2, <3>3 DEF UserChange
  <2> QED BY <2>7, <2>8
<1> QED BY <1>1, <1>2

LEMMA UsersChanged ==
  ASSUME LocksInv, NEW has, NEW b, Owns(has, UserGate(b)), NEW g, DOMAIN g = users,
         \A r \in users : /\ g[r] \in UserRecord /\ g[r].id = r.id /\ g[r].tg = r.tg
                          /\ g[r].live => r.live
                          /\ g[r] # r => r.tg = b,
         users' = {g[r] : r \in users}
  PROVE  UserChange(has, users, users') /\ UsersStored'
<1>1. /\ Numbered(users)
      /\ \A r, s \in users : r.live /\ s.live /\ r.tg = s.tg => r = s
  BY DEF LocksInv, UsersStored
<1>2. Numbered(users')
  BY <1>1, NumberedMap
<1>3. \A s \in users' : \E r \in users : s = g[r]
  OBVIOUS
<1>4. users' \subseteq UserRecord
  BY <1>3
<1>5. \A x, y \in users' : x.live /\ y.live /\ x.tg = y.tg => x = y
  <2> TAKE x, y \in users'
  <2>1. PICK r \in users : x = g[r]
    BY <1>3
  <2>2. PICK s \in users : y = g[s]
    BY <1>3
  <2> QED BY <1>1, <2>1, <2>2
<1>6. UsersStored'
  BY <1>2, <1>4, <1>5 DEF UsersStored
<1>7. ASSUME NEW x \in Nat, x # b
      PROVE  PeopleAt(x, users') = PeopleAt(x, users)
  <2>1. \A r \in users : r.tg = x => r \in users'
    BY <1>7
  <2>2. \A s \in users' : s.tg = x => s \in users
    BY <1>3, <1>7
  <2> QED BY <2>1, <2>2 DEF PeopleAt
<1>8. \A r \in users : \E s \in users' : s.id = r.id /\ s.tg = r.tg
  <2> TAKE r \in users
  <2>1. g[r] \in users' /\ g[r].id = r.id /\ g[r].tg = r.tg
    OBVIOUS
  <2> QED BY <2>1
<1>9. \A s \in users' : \E r \in users : r.id = s.id /\ r.tg = s.tg
  BY <1>3
<1>10. UserChange(has, users, users')
  BY <1>7, <1>8, <1>9 DEF UserChange
<1> QED BY <1>6, <1>10

(* What every write does.                                                  *)
LEMMA WritesForm ==
  ASSUME LocksInv, NEW t \in Txns, NEW op, Writes(t, op)
  PROVE  /\ phase[t] = "write" /\ call[t].op = op /\ Ended(t) /\ begun' = begun
         /\ \A b \in TargetUsers(call[t]) : Owns(held[t], UserGate(b))
         /\ \A m \in TargetChats(call[t]) : Owns(held[t], ChatGate(m))
         /\ call[t] \in Calls \union {NoCall}
<1>1. phase[t] = "write" /\ call[t].op = op /\ Ended(t) /\ begun' = begun
  BY DEF Writes
<1>2. NamesKept(call[t], named[t], requests, users) /\ \A m \in named[t].numbers : Owns(held[t], ChatGate(m))
  BY <1>1, GatesHeld
<1>3. \A b \in TargetUsers(call[t]) : Owns(held[t], UserGate(b))
  BY <1>1, GatesHeld
<1> QED BY <1>1, <1>2, <1>3 DEF NamesKept, LocksInv, Sessions

(* A step that writes users alone.                                         *)
LEMMA UsersWritten ==
  ASSUME LocksInv, NEW t \in Txns, NEW op, Writes(t, op), UserChange(held[t], users, users'), UsersStored',
         UNCHANGED <<chats, routes, banned, requests, approved, stored, flags>>
  PROVE  LocksInv'
<1>1. Changes(t)
  BY PartsKept DEF Changes
<1> QED BY <1>1, PartsKept, RequestsKept, SwitchedEnded, WritesForm, WriteStep

LEMMA IngestKeeps ==
  ASSUME LocksInv, NEW t \in Txns, IngestUser(t) \/ Verify(t)
  PROVE  LocksInv'
<1>1. PICK op \in {"ingest", "member", "worker"} :
        /\ Writes(t, op) /\ UNCHANGED <<chats, routes, banned, requests, approved, stored, flags>>
        /\ users' = users \/ users' = Inserted(call[t].user, FALSE, op)
  BY DEF IngestUser, Verify
<1>2. call[t].user \in Nat \ {None} /\ (op # "worker" => call[t].user \in TargetUsers(call[t]))
  <2>1. call[t].op = op /\ call[t] \in Calls \union {NoCall}
    BY <1>1, WritesForm
  <2>2. call[t].user \in Nat \ {None}
    BY <2>1, CallForms DEF OfUsers
  <2> QED BY <2>1, <2>2 DEF TargetUsers
<1>3. Owns(held[t], UserGate(call[t].user)) \/ op = "worker"
  BY <1>1, <1>2, WritesForm
<1>4. UserChange(held[t], users, users') /\ UsersStored'
  BY <1>1, <1>2, <1>3, UserAdded, PartsKept
<1> QED BY <1>1, <1>4, UsersWritten

(* The user of a call, whose number is held and whose rows were read.      *)
LEMMA UserNamed ==
  ASSUME LocksInv, NEW t \in Txns, NEW op \in {"delete", "role", "trust", "ban"} , Writes(t, op)
  PROVE  /\ call[t].user \in Nat \ {None} /\ Owns(held[t], UserGate(call[t].user))
         /\ \A r \in view[t].users : r \in users /\ r.tg = call[t].user
<1>1. call[t].op = op /\ call[t] \in Calls \union {NoCall} /\ phase[t] = "write"
  BY WritesForm
<1>2. call[t].user \in Nat \ {None}
  BY <1>1, CallForms DEF OfUsers
<1>3. Owns(held[t], UserGate(call[t].user))
  BY <1>1, <1>2, WritesForm DEF TargetUsers
<1>4. view[t].users = {r \in users : r.tg = call[t].user /\ (r.by = "worker" => r \in view[t].users)}
  BY <1>1, <1>2, WriterSees
<1> QED BY <1>2, <1>3, <1>4

LEMMA DeleteUserKeeps ==
  ASSUME LocksInv, NEW t \in Txns, DeleteUser(t)
  PROVE  LocksInv'
<1> DEFINE chosen(r) == r \in LiveOf(view[t].users) /\ (r.admin => call[t].by = Cli)
           g == [r \in users |-> IF chosen(r) THEN [r EXCEPT !.live = FALSE] ELSE r]
<1>1. /\ Writes(t, "delete") /\ UNCHANGED <<chats, routes, banned, requests, approved, stored, flags>>
      /\ users' = {g[r] : r \in users}
  BY DEF DeleteUser
<1>2. call[t].user \in Nat \ {None} /\ Owns(held[t], UserGate(call[t].user))
  BY <1>1, UserNamed
<1>3. ASSUME NEW r \in users
      PROVE  /\ g[r] \in UserRecord /\ g[r].id = r.id /\ g[r].tg = r.tg /\ (g[r].live => r.live)
             /\ g[r] # r => r.tg = call[t].user
  <2>1. r \in UserRecord
    BY DEF LocksInv, UsersStored
  <2>2. chosen(r) => r.tg = call[t].user
    BY <1>1, UserNamed DEF LiveOf
  <2> HIDE DEF chosen
  <2>3. CASE chosen(r)
    BY <2>1, <2>2, <2>3 DEF UserRecord
  <2>4. CASE ~chosen(r)
    BY <2>1, <2>4
  <2> QED BY <2>3, <2>4
<1>4. DOMAIN g = users
  OBVIOUS
<1> HIDE DEF g
<1>5. UserChange(held[t], users, users') /\ UsersStored'
  BY <1>1, <1>2, <1>3, <1>4, UsersChanged
<1> QED BY <1>1, <1>5, UsersWritten

LEMMA SetTrustKeeps ==
  ASSUME LocksInv, NEW t \in Txns, SetTrust(t)
  PROVE  LocksInv'
<1> DEFINE chosen(r) == view[t].may /\ r \in LiveOf(view[t].users)
           g == [r \in users |-> IF chosen(r) THEN [r EXCEPT !.trusted = ~@] ELSE r]
<1>1. /\ Writes(t, "trust") /\ UNCHANGED <<chats, routes, banned, requests, approved, stored, flags>>
      /\ users' = {g[r] : r \in users}
  BY DEF SetTrust
<1>2. call[t].user \in Nat \ {None} /\ Owns(held[t], UserGate(call[t].user))
  BY <1>1, UserNamed
<1>3. ASSUME NEW r \in users
      PROVE  /\ g[r] \in UserRecord /\ g[r].id = r.id /\ g[r].tg = r.tg /\ (g[r].live => r.live)
             /\ g[r] # r => r.tg = call[t].user
  <2>1. r \in UserRecord
    BY DEF LocksInv, UsersStored
  <2>2. chosen(r) => r.tg = call[t].user
    BY <1>1, UserNamed DEF LiveOf
  <2> HIDE DEF chosen
  <2>3. CASE chosen(r)
    BY <2>1, <2>2, <2>3 DEF UserRecord
  <2>4. CASE ~chosen(r)
    BY <2>1, <2>4
  <2> QED BY <2>3, <2>4
<1>4. DOMAIN g = users
  OBVIOUS
<1> HIDE DEF g
<1>5. UserChange(held[t], users, users') /\ UsersStored'
  BY <1>1, <1>2, <1>3, <1>4, UsersChanged
<1> QED BY <1>1, <1>5, UsersWritten

LEMMA SetRoleKeeps ==
  ASSUME LocksInv, NEW t \in Txns, SetRole(t)
  PROVE  LocksInv'
<1> DEFINE chosen(r) == r \in LiveOf(view[t].users)
           g == [r \in users |-> IF chosen(r) THEN [r EXCEPT !.admin = ~@] ELSE r]
<1>1. /\ Writes(t, "role") /\ UNCHANGED <<chats, routes, banned, requests, approved, stored, flags>>
      /\ users' = Inserted(call[t].user, TRUE, "role") \/ users' = {g[r] : r \in users}
  BY DEF SetRole
<1>2. call[t].user \in Nat \ {None} /\ Owns(held[t], UserGate(call[t].user))
  BY <1>1, UserNamed
<1>3. ASSUME NEW r \in users
      PROVE  /\ g[r] \in UserRecord /\ g[r].id = r.id /\ g[r].tg = r.tg /\ (g[r].live => r.live)
             /\ g[r] # r => r.tg = call[t].user
  <2>1. r \in UserRecord
    BY DEF LocksInv, UsersStored
  <2>2. chosen(r) => r.tg = call[t].user
    BY <1>1, UserNamed DEF LiveOf
  <2> HIDE DEF chosen
  <2>3. CASE chosen(r)
    BY <2>1, <2>2, <2>3 DEF UserRecord
  <2>4. CASE ~chosen(r)
    BY <2>1, <2>4
  <2> QED BY <2>3, <2>4
<1>4. DOMAIN g = users
  OBVIOUS
<1> HIDE DEF g
<1>5. CASE users' = {g[r] : r \in users}
  <2>1. UserChange(held[t], users, users') /\ UsersStored'
    BY <1>2, <1>3, <1>4, <1>5, UsersChanged
  <2> QED BY <1>1, <2>1, UsersWritten
<1>6. CASE users' = Inserted(call[t].user, TRUE, "role")
  <2>1. UserChange(held[t], users, users') /\ UsersStored'
    BY <1>2, <1>6, UserAdded
  <2> QED BY <1>1, <2>1, UsersWritten
<1> QED BY <1>1, <1>5, <1>6

LEMMA SetBanKeeps ==
  ASSUME LocksInv, NEW t \in Txns, SetBan(t)
  PROVE  LocksInv'
<1>1. /\ Writes(t, "ban") /\ UNCHANGED <<users, chats, routes, requests, approved, stored, flags>>
      /\ banned' = banned \/ banned' = banned \union {call[t].user}
  BY DEF SetBan
<1>2. Owns(held[t], UserGate(call[t].user))
  BY <1>1, UserNamed
<1>3. BanChange(held[t], banned, banned')
  BY <1>1, <1>2 DEF BanChange
<1>4. Changes(t)
  BY <1>1, <1>3, PartsKept DEF Changes
<1> QED BY <1>1, <1>4, PartsKept, RequestsKept, SwitchedEnded, WritesForm, WriteStep DEF Changes

(* Choices about a subject are written beside its locks.                   *)
LEMMA ConfigureKeeps ==
  ASSUME LocksInv, NEW t \in Txns, NEW op \in Configures, Configure(t, op), NEW kept,
         \A s \in kept : s.what = op /\ s.subject = Subject(call[t]),
         stored' = stored \/ stored' = (stored \ view[t].stored) \union kept
  PROVE  LocksInv'
<1>1. Writes(t, op) /\ UNCHANGED <<users, chats, routes, banned, requests, approved, flags>>
  BY DEF Configure
<1>2. call[t].op = op /\ phase[t] = "write"
  BY <1>1, WritesForm
<1>3. view[t].stored = About(op, Subject(call[t]), stored)
  BY <1>2, WriterSees
<1>4. call[t].user # None => Owns(held[t], UserGate(call[t].user))
  BY <1>1, <1>2, WritesForm DEF TargetUsers
<1>5. call[t].user = None => Owns(held[t], ChatRow(1))
  BY <1>2, RowsHeld DEF GroupsIn
<1>6. StoredChange(held[t], stored, stored')
  <2>1. CASE stored' = stored
    BY <2>1 DEF StoredChange
  <2>2. CASE stored' = (stored \ view[t].stored) \union kept
    <3>1. ASSUME NEW o, NEW x, <<o, x>> # <<op, Subject(call[t])>>
          PROVE  About(o, x, stored') = About(o, x, stored)
      <4>1. o # op \/ x # Subject(call[t])
        BY <3>1
      <4>2. \A s \in view[t].stored \union kept : ~(s.what = o /\ s.subject = x)
        BY <1>3, <4>1 DEF About
      <4> QED BY <2>2, <4>2 DEF About
    <3>2. Subject(call[t])[1] = call[t].user
      BY DEF Subject
    <3>3. ASSUME NEW o, NEW x
          PROVE  \/ About(o, x, stored') = About(o, x, stored)
                 \/ o \in Configures /\ IF x[1] # None THEN Owns(held[t], UserGate(x[1])) ELSE Owns(held[t], ChatRow(1))
      <4>1. CASE <<o, x>> = <<op, Subject(call[t])>>
        BY <1>4, <1>5, <3>2, <4>1
      <4>2. CASE <<o, x>> # <<op, Subject(call[t])>>
        BY <3>1, <4>2
      <4> QED BY <4>1, <4>2
    <3> QED BY <3>3 DEF StoredChange
  <2> QED BY <2>1, <2>2
<1>7. Changes(t)
  BY <1>1, <1>6, PartsKept DEF Changes
<1> QED BY <1>1, <1>7, PartsKept, RequestsKept, SwitchedEnded, WritesForm, WriteStep DEF Changes

LEMMA ChoiceKeeps ==
  ASSUME LocksInv, NEW t \in Txns, Entitle(t) \/ Override(t) \/ Choose(t)
  PROVE  LocksInv'
<1>1. \A value : Stored(t, value).what = call[t].op /\ Stored(t, value).subject = Subject(call[t])
  BY DEF Stored
<1>2. \A op : Configure(t, op) => call[t].op = op
  BY DEF Configure, Writes
<1>3. CASE Entitle(t)
  <2>1. PICK granted \in BOOLEAN :
          stored' = IF view[t].may /\ Exact(t)
                    THEN (stored \ view[t].stored) \union (IF granted THEN {Stored(t, TRUE)} ELSE {}) ELSE stored
    BY <1>3 DEF Entitle
  <2> DEFINE kept == IF granted THEN {Stored(t, TRUE)} ELSE {}
  <2>2. Configure(t, "entitle") /\ \A s \in kept : s.what = "entitle" /\ s.subject = Subject(call[t])
    BY <1>1, <1>2, <1>3 DEF Entitle
  <2>3. stored' = stored \/ stored' = (stored \ view[t].stored) \union kept
    BY <2>1
  <2>4. "entitle" \in Configures
    BY DEF Configures
  <2> HIDE DEF kept
  <2> QED BY <2>2, <2>3, <2>4, ConfigureKeeps
<1>4. CASE Override(t)
  <2>1. PICK limit \in {0, 1, 2} :
          stored' = IF view[t].may /\ Exact(t)
                    THEN (stored \ view[t].stored) \union (IF limit = 0 THEN {} ELSE {Stored(t, limit)}) ELSE stored
    BY <1>4 DEF Override
  <2> DEFINE kept == IF limit = 0 THEN {} ELSE {Stored(t, limit)}
  <2>2. Configure(t, "override") /\ \A s \in kept : s.what = "override" /\ s.subject = Subject(call[t])
    BY <1>1, <1>2, <1>4 DEF Override
  <2>3. stored' = stored \/ stored' = (stored \ view[t].stored) \union kept
    BY <2>1
  <2>4. "override" \in Configures
    BY DEF Configures
  <2> HIDE DEF kept
  <2> QED BY <2>2, <2>3, <2>4, ConfigureKeeps
<1>5. CASE Choose(t)
  <2>1. PICK op \in {"prefer", "answer"}, on \in BOOLEAN :
          /\ Configure(t, op)
          /\ stored' = IF Exact(t) THEN (stored \ view[t].stored) \union {Stored(t, on)} ELSE stored
    BY <1>5 DEF Choose
  <2>2. \A s \in {Stored(t, on)} : s.what = op /\ s.subject = Subject(call[t])
    BY <1>1, <1>2, <2>1
  <2>3. stored' = stored \/ stored' = (stored \ view[t].stored) \union {Stored(t, on)}
    BY <2>1
  <2>4. op \in Configures /\ Configure(t, op)
    BY <2>1 DEF Configures
  <2> QED BY <2>2, <2>3, <2>4, ConfigureKeeps
<1> QED BY <1>3, <1>4, <1>5

(* Rows of chats: one more, or some that are held changed.                 *)
LEMMA ChatAdded ==
  ASSUME LocksInv, NEW has, NEW n \in Nat, Owns(has, ChatGate(n)), chats' = chats \union {NewChat(n)}, routes' = routes
  PROVE  ChatChange(has, chats, routes, chats', routes') /\ ChatsStored'
<1> DEFINE w == NewChat(n)
<1>1. /\ chats \subseteq ChatRecord /\ Numbered(chats) /\ \E r \in chats : r.id = 1
      /\ routes \subseteq Nat \X Ids(chats) /\ Cardinality(chats) \in Nat
  BY FS_CardinalityType DEF LocksInv, ChatsStored, Numbered, Ids
<1>2. w.id = Cardinality(chats) + 1 /\ w.number = n /\ w \in ChatRecord
  BY <1>1 DEF NewChat, ChatRecord
<1> HIDE DEF w
<1>3. \A r \in chats : r.id \in Nat
  BY <1>1 DEF ChatRecord
<1>4. chats' = chats \union {w}
  BY DEF w
<1>5. Numbered(chats') /\ \A r \in chats : r.id # w.id
  BY <1>1, <1>2, <1>3, <1>4, NumberedAdd
<1>6. \A m : <<m, w.id>> \notin routes
  BY <1>1, <1>5 DEF Ids
<1>7. ASSUME NEW m \in Nat, m # n
      PROVE  ChatsAt(m, chats', routes') = ChatsAt(m, chats, routes)
  BY <1>2, <1>4, <1>6, <1>7 DEF ChatsAt
<1>8. w.id \notin Ids(chats)
  BY <1>5 DEF Ids
<1>9. ChatChange(has, chats, routes, chats', routes')
  <2>1. \A m \in Nat : \/ Owns(has, ChatGate(m))
                       \/ /\ Ids(ChatsAt(m, chats', routes')) = Ids(ChatsAt(m, chats, routes))
                          /\ RoutesAt(m, routes') = RoutesAt(m, routes)
    BY <1>7
  <2> QED BY <1>4, <1>8, <2>1 DEF ChatChange
<1>10. ChatsStored'
  <2>1. Ids(chats) \subseteq Ids(chats')
    BY <1>4 DEF Ids
  <2>2. routes' \subseteq Nat \X Ids(chats')
    BY <1>1, <2>1
  <2>3. chats' \subseteq ChatRecord /\ \E r \in chats' : r.id = 1
    BY <1>1, <1>2, <1>4
  <2> QED BY <1>5, <2>2, <2>3 DEF ChatsStored, Ids
<1> QED BY <1>9, <1>10

LEMMA ChatsChanged ==
  ASSUME LocksInv, NEW has, NEW g, DOMAIN g = chats,
         \A r \in chats : g[r] \in ChatRecord /\ g[r].id = r.id /\ (g[r] # r => Owns(has, ChatRow(r.id))),
         chats' = {g[r] : r \in chats}, routes' \subseteq Nat \X Ids(chats),
         \A m \in Nat : \/ Owns(has, ChatGate(m))
                        \/ /\ \A r \in chats : g[r].number = m <=> r.number = m
                           /\ RoutesAt(m, routes') = RoutesAt(m, routes)
  PROVE  ChatChange(has, chats, routes, chats', routes') /\ ChatsStored'
<1>1. Numbered(chats) /\ \E r \in chats : r.id = 1
  BY DEF LocksInv, ChatsStored
<1>2. Numbered(chats')
  BY <1>1, NumberedMap
<1>3. \A s \in chats' : \E r \in chats : s = g[r]
  OBVIOUS
<1>4. \A r \in chats : g[r] \in chats' /\ g[r].id = r.id
  OBVIOUS
<1>5. Ids(chats') = Ids(chats)
  BY <1>3, <1>4 DEF Ids
<1>6. ChatsStored'
  <2>1. chats' \subseteq ChatRecord
    BY <1>3
  <2>2. \E r \in chats' : r.id = 1
    BY <1>1, <1>4
  <2> QED BY <1>2, <1>5, <2>1, <2>2 DEF ChatsStored, Ids
<1>7. ASSUME NEW m \in Nat, \A r \in chats : g[r].number = m <=> r.number = m, RoutesAt(m, routes') = RoutesAt(m, routes)
      PROVE  Ids(ChatsAt(m, chats', routes')) = Ids(ChatsAt(m, chats, routes))
  <2>1. \A i : <<m, i>> \in routes' <=> <<m, i>> \in routes
    BY <1>7 DEF RoutesAt
  <2>2. \A r \in chats : g[r] \in ChatsAt(m, chats', routes') <=> r \in ChatsAt(m, chats, routes)
    BY <1>4, <1>7, <2>1 DEF ChatsAt
  <2>3. \A s \in ChatsAt(m, chats', routes') : \E r \in chats : s = g[r]
    BY <1>3 DEF ChatsAt
  <2>4. \A r \in ChatsAt(m, chats, routes) : r \in chats
    BY DEF ChatsAt
  <2>5. ASSUME NEW i \in Ids(ChatsAt(m, chats', routes')) PROVE i \in Ids(ChatsAt(m, chats, routes))
    <3>1. PICK s \in ChatsAt(m, chats', routes') : s.id = i
      BY DEF Ids
    <3>2. PICK r \in chats : s = g[r]
      BY <2>3
    <3>3. r \in ChatsAt(m, chats, routes) /\ r.id = i
      BY <1>4, <2>2, <3>1, <3>2
    <3> QED BY <3>3 DEF Ids
  <2>6. ASSUME NEW i \in Ids(ChatsAt(m, chats, routes)) PROVE i \in Ids(ChatsAt(m, chats', routes'))
    <3>1. PICK r \in ChatsAt(m, chats, routes) : r.id = i
      BY DEF Ids
    <3>2. g[r] \in ChatsAt(m, chats', routes') /\ g[r].id = i
      BY <1>4, <2>2, <2>4, <3>1
    <3> QED BY <3>2 DEF Ids
  <2> QED BY <2>5, <2>6
<1>8. ChatChange(has, chats, routes, chats', routes')
  <2>1. \A m \in Nat : \/ Owns(has, ChatGate(m))
                       \/ /\ Ids(ChatsAt(m, chats', routes')) = Ids(ChatsAt(m, chats, routes))
                          /\ RoutesAt(m, routes') = RoutesAt(m, routes)
    BY <1>7
  <2>2. \A r \in chats : r \in chats' \/ Owns(has, ChatRow(r.id))
    BY <1>4
  <2>3. \A s \in chats' : s \in chats \/ Owns(has, ChatRow(s.id))
    BY <1>3
  <2> QED BY <2>1, <2>2, <2>3 DEF ChatChange
<1> QED BY <1>6, <1>8

LEMMA ChatsWritten ==
  ASSUME LocksInv, NEW t \in Txns, NEW op, Writes(t, op), ChatChange(held[t], chats, routes, chats', routes'), ChatsStored',
         UNCHANGED <<users, banned, requests, approved, stored, flags>>
  PROVE  LocksInv'
<1>1. Changes(t)
  BY PartsKept DEF Changes
<1> QED BY <1>1, PartsKept, RequestsKept, SwitchedEnded, WritesForm, WriteStep DEF Changes

LEMMA OpenKeeps ==
  ASSUME LocksInv, NEW t \in Txns, OpenChat(t) \/ ObserveChat(t)
  PROVE  LocksInv'
<1>1. PICK op \in {"open", "observe"} :
        /\ Writes(t, op) /\ UNCHANGED <<users, routes, banned, requests, approved, stored, flags>>
        /\ chats' = chats \/ chats' = chats \union {NewChat(call[t].chat)}
  BY DEF OpenChat, ObserveChat
<1>2. call[t].op = op /\ call[t] \in Calls \union {NoCall}
  BY <1>1, WritesForm
<1>3. Owns(held[t], ChatGate(call[t].chat)) /\ call[t].chat \in Nat
  <2>1. call[t].chat \in TargetChats(call[t])
    BY <1>2 DEF TargetChats
  <2> QED BY <1>1, <1>2, <2>1, WritesForm, CallForms
<1>4. ChatChange(held[t], chats, routes, chats', routes') /\ ChatsStored'
  BY <1>1, <1>3, ChatAdded, PartsKept
<1> QED BY <1>1, <1>4, ChatsWritten

LEMMA RemoveChatKeeps ==
  ASSUME LocksInv, NEW t \in Txns, RemoveChat(t)
  PROVE  LocksInv'
<1> DEFINE chosen(r) == r \in LiveOf(view[t].chats)
           g == [r \in chats |-> IF chosen(r) THEN [r EXCEPT !.live = FALSE] ELSE r]
<1>1. /\ Writes(t, "remove") /\ UNCHANGED <<users, routes, banned, requests, approved, stored, flags>>
      /\ chats' = {g[r] : r \in chats}
  BY DEF RemoveChat
<1>2. \A r \in chats : chosen(r) => Owns(held[t], ChatRow(r.id))
  BY <1>1, WritesForm, WriterSees DEF LiveOf
<1>3. ASSUME NEW r \in chats
      PROVE  g[r] \in ChatRecord /\ g[r].id = r.id /\ (g[r] # r => Owns(held[t], ChatRow(r.id))) /\ g[r].number = r.number
  <2>1. r \in ChatRecord
    BY DEF LocksInv, ChatsStored
  <2> HIDE DEF chosen
  <2>2. CASE chosen(r)
    BY <1>2, <2>1, <2>2 DEF ChatRecord
  <2>3. CASE ~chosen(r)
    BY <2>1, <2>3
  <2> QED BY <2>2, <2>3
<1>4. DOMAIN g = chats /\ routes' \subseteq Nat \X Ids(chats)
  BY <1>1 DEF LocksInv, ChatsStored, Ids
<1> HIDE DEF g
<1>5. ChatChange(held[t], chats, routes, chats', routes') /\ ChatsStored'
  BY <1>1, <1>3, <1>4, ChatsChanged
<1> QED BY <1>1, <1>5, ChatsWritten

LEMMA MigrateKeeps ==
  ASSUME LocksInv, NEW t \in Txns, Migrate(t)
  PROVE  LocksInv'
<1> DEFINE source == {r \in LiveOf(view[t].chats) : r.number = 1}
           g == [r \in chats |-> IF r \in source THEN [r EXCEPT !.number = 2] ELSE r]
<1>1. /\ Writes(t, "migrate") /\ UNCHANGED <<users, banned, requests, approved, stored, flags>>
      /\ \/ chats' = {g[r] : r \in chats} /\ routes' = routes \union {<<1, r.id>> : r \in source}
         \/ UNCHANGED <<chats, routes>>
  BY DEF Migrate
<1>2. \A r \in source : r \in chats /\ r.number = 1 /\ Owns(held[t], ChatRow(r.id))
  BY <1>1, WritesForm, WriterSees DEF LiveOf
<1>3. Owns(held[t], ChatGate(1)) /\ Owns(held[t], ChatGate(2))
  <2>1. call[t].op = "migrate"
    BY <1>1, WritesForm
  <2>2. 1 \in TargetChats(call[t]) /\ 2 \in TargetChats(call[t])
    BY <2>1 DEF TargetChats
  <2> QED BY <1>1, <2>2, WritesForm
<1> HIDE DEF source
<1>4. ASSUME NEW r \in chats
      PROVE  /\ g[r] \in ChatRecord /\ g[r].id = r.id /\ (g[r] # r => Owns(held[t], ChatRow(r.id)))
             /\ \A m \in Nat \ {1, 2} : g[r].number = m <=> r.number = m
  <2>1. r \in ChatRecord
    BY DEF LocksInv, ChatsStored
  <2>2. CASE r \in source
    BY <1>2, <2>1, <2>2 DEF ChatRecord
  <2>3. CASE r \notin source
    BY <2>1, <2>3
  <2> QED BY <2>2, <2>3
<1>5. DOMAIN g = chats
  OBVIOUS
<1> HIDE DEF g
<1>6. CASE chats' = {g[r] : r \in chats} /\ routes' = routes \union {<<1, r.id>> : r \in source}
  <2>1. routes' \subseteq Nat \X Ids(chats)
    <3>1. routes \subseteq Nat \X Ids(chats)
      BY DEF LocksInv, ChatsStored, Ids
    <3> QED BY <1>2, <1>6, <3>1 DEF Ids
  <2>2. \A m \in Nat \ {1, 2} : RoutesAt(m, routes') = RoutesAt(m, routes)
    BY <1>6 DEF RoutesAt
  <2>3. \A m \in Nat : \/ Owns(held[t], ChatGate(m))
                       \/ /\ \A r \in chats : g[r].number = m <=> r.number = m
                          /\ RoutesAt(m, routes') = RoutesAt(m, routes)
    <3> TAKE m \in Nat
    <3>1. CASE m \in {1, 2}
      BY <1>3, <3>1
    <3>2. CASE m \notin {1, 2}
      BY <1>4, <2>2, <3>2
    <3> QED BY <3>1, <3>2
  <2>4. ChatChange(held[t], chats, routes, chats', routes') /\ ChatsStored'
    <3>1. \A r \in chats : g[r] \in ChatRecord /\ g[r].id = r.id /\ (g[r] # r => Owns(held[t], ChatRow(r.id)))
      BY <1>4
    <3>2. chats' = {g[r] : r \in chats}
      BY <1>6
    <3> QED BY <1>5, <2>1, <2>3, <3>1, <3>2, ChatsChanged
  <2> QED BY <1>1, <2>4, ChatsWritten
<1>7. CASE UNCHANGED <<chats, routes>>
  BY <1>1, <1>7, PartsKept, ChatsWritten
<1> QED BY <1>1, <1>6, <1>7

(* Requests: one more, or some with another status.                        *)
LEMMA GroupOwned ==
  ASSUME LocksInv, NEW t \in Txns, NEW op \in {"request", "decide", "withdraw", "approve"}, Writes(t, op)
  PROVE  Owns(held[t], ChatRow(1))
<1>1. phase[t] = "write" /\ call[t].op = op
  BY WritesForm
<1>2. op \in {"decide", "withdraw"} => requests # {}
  BY <1>1 DEF LocksInv, Session, Open
<1>3. \A r \in requests : r.group = 1
  BY DEF LocksInv, RequestsStored, RequestRecord
<1>4. op \in {"decide", "withdraw"} => \E r \in RequestedIn(call[t], requests) : r.group = 1
  BY <1>1, <1>2, <1>3 DEF RequestedIn, LocksInv, RequestsStored
<1>5. 1 \in GroupsIn(call[t], requests)
  BY <1>1, <1>4 DEF GroupsIn
<1> QED BY <1>1, <1>5, RowsHeld

LEMMA RequestsWritten ==
  ASSUME LocksInv, NEW t \in Txns, NEW op \in {"request", "decide", "withdraw", "approve"}, Writes(t, op), RequestsStored',
         requests # {} => requests' # {} /\ Requesters(requests') = Requesters(requests),
         UNCHANGED <<users, chats, routes, banned, stored, flags>>
  PROVE  LocksInv'
<1>1. RequestChange(held[t], requests, approved, requests', approved')
  BY GroupOwned DEF RequestChange
<1>2. Changes(t)
  BY <1>1, PartsKept DEF Changes
<1> QED BY <1>2, PartsKept, SwitchedEnded, WritesForm, WriteStep

LEMMA RequestsChanged ==
  ASSUME LocksInv, users' = users, NEW g, DOMAIN g = requests,
         \A r \in requests : g[r] \in RequestRecord /\ g[r].id = r.id /\ g[r].user = r.user,
         requests' = {g[r] : r \in requests}
  PROVE  /\ RequestsStored'
         /\ requests # {} => requests' # {} /\ Requesters(requests') = Requesters(requests)
<1> DEFINE h == [r \in requests |-> g[r]]
<1>1. RequestsStored
  BY DEF LocksInv
<1>2. \A s \in requests' : \E r \in requests : s = g[r]
  OBVIOUS
<1>3. \A r \in requests : g[r] \in requests'
  OBVIOUS
<1>4. IsFiniteSet(requests')
  <2>1. h \in [requests -> requests'] /\ \A s \in requests' : \E r \in requests : h[r] = s
    BY <1>2, <1>3
  <2> HIDE DEF h
  <2>2. h \in Surjection(requests, requests')
    BY <2>1 DEF Surjection
  <2> QED BY <1>1, <2>2, FS_Surjection DEF RequestsStored
<1>5. RequestsStored'
  <2>1. requests' \subseteq RequestRecord
    BY <1>2
  <2>2. requests' # {} => \E r \in requests' : r.id = 1
    BY <1>1, <1>2, <1>3 DEF RequestsStored
  <2>3. \A r \in requests' : \E u \in users' : u.id = r.user
    BY <1>1, <1>2 DEF RequestsStored
  <2> QED BY <1>4, <2>1, <2>2, <2>3 DEF RequestsStored
<1>6. Requesters(requests') = Requesters(requests)
  <2>1. ASSUME NEW i \in Requesters(requests') PROVE i \in Requesters(requests)
    <3>1. PICK s \in requests' : s.id = 1 /\ s.user = i
      BY DEF Requesters
    <3>2. PICK r \in requests : s = g[r]
      BY <1>2
    <3> QED BY <3>1, <3>2 DEF Requesters
  <2>2. ASSUME NEW i \in Requesters(requests) PROVE i \in Requesters(requests')
    <3>1. PICK r \in requests : r.id = 1 /\ r.user = i
      BY DEF Requesters
    <3>2. g[r] \in requests' /\ g[r].id = 1 /\ g[r].user = i
      BY <1>3, <3>1
    <3> QED BY <3>2 DEF Requesters
  <2> QED BY <2>1, <2>2
<1> QED BY <1>3, <1>5, <1>6

LEMMA RequestKeeps ==
  ASSUME LocksInv, NEW t \in Txns, Request(t)
  PROVE  LocksInv'
<1> DEFINE asking == LiveOf(view[t].users)
           row(u) == [id |-> Cardinality(requests) + 1, group |-> 1, user |-> u.id, status |-> "pending"]
<1>1. /\ Writes(t, "request") /\ UNCHANGED <<users, chats, routes, banned, approved, stored, flags>>
      /\ requests' = requests \/ requests' = requests \union {row(u) : u \in asking}
  BY DEF Request
<1>2. RequestsStored /\ UsersStored
  BY DEF LocksInv
<1>3. \A u, x \in asking : u = x
  <2>1. call[t].op = "request" /\ call[t] \in Calls \union {NoCall} /\ phase[t] = "write"
    BY <1>1, WritesForm
  <2>2. call[t].user # None
    BY <2>1, CallForms DEF OfUsers
  <2>3. view[t].users = {r \in users : r.tg = call[t].user /\ (r.by = "worker" => r \in view[t].users)}
    BY <2>1, <2>2, WriterSees
  <2>4. \A r \in view[t].users : r \in users /\ r.tg = call[t].user
    BY <2>3
  <2> QED BY <1>2, <2>4 DEF LiveOf, UsersStored
<1>4. \A u \in asking : u \in users
  BY <1>1, WritesForm, WriterSees DEF LiveOf
<1> HIDE DEF asking
<1>5. CASE requests' = requests
  BY <1>1, <1>2, <1>5, RequestsWritten DEF RequestsStored
<1>6. CASE requests' = requests \union {row(u) : u \in asking} /\ asking # {}
  <2>1. PICK u \in asking : asking = {u}
    BY <1>3, <1>6
  <2> DEFINE w == row(u)
  <2>2. requests' = requests \union {w}
    BY <1>6, <2>1
  <2>3. Cardinality(requests) \in Nat /\ (requests = {} <=> Cardinality(requests) = 0)
    BY <1>2, FS_CardinalityType, FS_EmptySet DEF RequestsStored
  <2>4. u \in users /\ u.id \in Nat
    BY <1>2, <1>4, <2>1 DEF UsersStored, UserRecord
  <2>5. w \in RequestRecord /\ w.user = u.id /\ w.id = Cardinality(requests) + 1
    BY <2>3, <2>4 DEF RequestRecord
  <2> HIDE DEF w
  <2>6. IsFiniteSet(requests')
    BY <1>2, <2>2, FS_AddElement DEF RequestsStored
  <2>7. RequestsStored'
    BY <1>1, <1>2, <2>2, <2>3, <2>4, <2>5, <2>6 DEF RequestsStored
  <2>8. requests # {} => requests' # {} /\ Requesters(requests') = Requesters(requests)
    <3>1. requests # {} => w.id # 1
      BY <2>3, <2>5
    <3> QED BY <2>2, <3>1 DEF Requesters
  <2> QED BY <1>1, <2>7, <2>8, RequestsWritten
<1>7. CASE requests' = requests \union {row(u) : u \in asking} /\ asking = {}
  <2>1. requests' = requests
    BY <1>7
  <2> QED BY <1>5, <2>1
<1> QED BY <1>1, <1>5, <1>6, <1>7

LEMMA DecideKeeps ==
  ASSUME LocksInv, NEW t \in Txns, Decide(t)
  PROVE  LocksInv'
<1> DEFINE pending == {r \in view[t].requests : r.id = 1 /\ r.status = "pending"}
<1>1. /\ Writes(t, "decide") /\ UNCHANGED <<users, chats, routes, banned, stored, flags>>
      /\ \/ \E status \in {"approved", "rejected"} :
              requests' = {IF r \in pending THEN [r EXCEPT !.status = status] ELSE r : r \in requests}
         \/ requests' = requests
  BY DEF Decide
<1>2. CASE requests' = requests
  <2>1. RequestsStored'
    BY <1>1, <1>2 DEF LocksInv, RequestsStored
  <2> QED BY <1>1, <1>2, <2>1, RequestsWritten
<1>3. ASSUME NEW status \in {"approved", "rejected"},
             requests' = {IF r \in pending THEN [r EXCEPT !.status = status] ELSE r : r \in requests}
      PROVE  LocksInv'
  <2> DEFINE g == [r \in requests |-> IF r \in pending THEN [r EXCEPT !.status = status] ELSE r]
  <2> HIDE DEF pending
  <2>1. requests' = {g[r] : r \in requests} /\ DOMAIN g = requests
    BY <1>3
  <2>2. ASSUME NEW r \in requests PROVE g[r] \in RequestRecord /\ g[r].id = r.id /\ g[r].user = r.user
    <3>1. r \in RequestRecord
      BY DEF LocksInv, RequestsStored
    <3>2. CASE r \in pending
      BY <3>1, <3>2 DEF RequestRecord
    <3>3. CASE r \notin pending
      BY <3>1, <3>3
    <3> QED BY <3>2, <3>3
  <2> HIDE DEF g
  <2>3. RequestsStored' /\ (requests # {} => requests' # {} /\ Requesters(requests') = Requesters(requests))
    BY <1>1, <2>1, <2>2, RequestsChanged
  <2> QED BY <1>1, <2>3, RequestsWritten
<1> QED BY <1>1, <1>2, <1>3

LEMMA WithdrawKeeps ==
  ASSUME LocksInv, NEW t \in Txns, Withdraw(t) \/ Approve(t)
  PROVE  LocksInv'
<1> DEFINE g == [r \in requests |-> IF r.id = 1 THEN [r EXCEPT !.status = "deleted"] ELSE r]
<1>1. PICK op \in {"withdraw", "approve"} :
        /\ Writes(t, op) /\ UNCHANGED <<users, chats, routes, banned, stored, flags>>
        /\ requests' = requests \/ requests' = {g[r] : r \in requests}
  BY DEF Withdraw, Approve
<1>2. CASE requests' = requests
  <2>1. RequestsStored'
    BY <1>1, <1>2 DEF LocksInv, RequestsStored
  <2> QED BY <1>1, <1>2, <2>1, RequestsWritten
<1>3. CASE requests' = {g[r] : r \in requests}
  <2>1. ASSUME NEW r \in requests PROVE g[r] \in RequestRecord /\ g[r].id = r.id /\ g[r].user = r.user
    <3>1. r \in RequestRecord
      BY DEF LocksInv, RequestsStored
    <3>2. CASE r.id = 1
      BY <3>1, <3>2 DEF RequestRecord
    <3>3. CASE r.id # 1
      BY <3>1, <3>3
    <3> QED BY <3>2, <3>3
  <2>2. DOMAIN g = requests
    OBVIOUS
  <2> HIDE DEF g
  <2>3. RequestsStored' /\ (requests # {} => requests' # {} /\ Requesters(requests') = Requesters(requests))
    BY <1>1, <1>3, <2>1, <2>2, RequestsChanged
  <2> QED BY <1>1, <2>3, RequestsWritten
<1> QED BY <1>1, <1>2, <1>3

(* The next value of a switch is of the call that ends.                    *)
LEMMA SwitchKeeps ==
  ASSUME LocksInv, NEW t \in Txns, SetValue(t) \/ SwitchFeature(t)
  PROVE  LocksInv'
<1>1. PICK op \in {"system", "emergency"} :
        /\ Writes(t, op) /\ UNCHANGED <<users, chats, routes, banned, requests, approved, stored>>
        /\ flags' = flags \/ flags' = [flags EXCEPT ![op] = view[t].flag + 1]
  BY DEF SetValue, SwitchFeature
<1>2. phase[t] = "write" /\ call[t].op = op /\ Ended(t) /\ begun' = begun
  BY <1>1, WritesForm
<1>3. Switched /\ flags \in [system : Nat, emergency : Nat] /\ view[t].flag = flags[op]
  BY <1>2, WriterSees DEF LocksInv, Switched
<1>4. CASE flags' = flags
  <2>1. Changes(t)
    BY <1>1, <1>4, PartsKept DEF Changes
  <2> QED BY <1>1, <1>2, <1>4, <2>1, PartsKept, RequestsKept, SwitchedEnded, WriteStep DEF Changes
<1>5. CASE flags' = [flags EXCEPT ![op] = flags[op] + 1]
  <2>1. DOMAIN flags' = DOMAIN flags /\ \A o \in {"system", "emergency"} \ {op} : flags'[o] = flags[o]
    BY <1>3, <1>5
  <2>2. /\ op = "system" => Owns(held[t], SystemGate)
        /\ op = "emergency" => Owns(held[t], FeatureGate)
    BY <1>2, GatesHeld
  <2>3. FlagChange(held[t], flags, flags')
    BY <2>1, <2>2 DEF FlagChange
  <2>4. Changes(t)
    BY <1>1, <2>3, PartsKept DEF Changes
  <2>5. /\ flags' \in [system : Nat, emergency : Nat]
        /\ flags'["system"] + flags'["emergency"] = flags["system"] + flags["emergency"] + 1
        /\ flags["system"] \in Nat /\ flags["emergency"] \in Nat
    <3>1. CASE op = "system"
      BY <1>3, <1>5, <3>1
    <3>2. CASE op = "emergency"
      BY <1>3, <1>5, <3>2
    <3> QED BY <3>1, <3>2
  <2>6. call[t] # NoCall
    BY <1>2 DEF NoCall
  <2>7. Switched'
    <3>1. begun \in Nat
      <4>1. MaxCalls \in Nat
        BY LocksAssumption
      <4> QED BY <1>3, <4>1 DEF Switched
    <3> HIDE DEF Busy
    <3>2. Cardinality(Busy') = Cardinality(Busy) - 1 /\ IsFiniteSet(Busy') /\ Cardinality(Busy) \in Nat /\ Cardinality(Busy') \in Nat
      BY <1>2, <2>6, BusyEnded
    <3> QED BY <1>2, <1>3, <2>5, <3>1, <3>2 DEF Switched
  <2> QED BY <1>1, <1>2, <2>4, <2>7, PartsKept, RequestsKept, WriteStep DEF Changes
<1> QED BY <1>1, <1>3, <1>4, <1>5

----------------------------------------------------------------------------
(* The transactions start in the invariant, and every step keeps it.       *)
LEMMA LocksStart ==
  ASSUME LocksInit
  PROVE  LocksInv
<1>1. /\ users \in FirstUsers /\ chats = FirstChats /\ requests \in FirstRequests
      /\ \A r \in requests : \E u \in users : u.id = r.user
      /\ routes = {} /\ flags = [system |-> 0, emergency |-> 0] /\ begun = 0
      /\ call = [t \in Txns |-> NoCall] /\ phase = [t \in Txns |-> "idle"]
      /\ named = [t \in Txns |-> NoNames] /\ todo = [t \in Txns |-> NoKeys] /\ held = [t \in Txns |-> NoKeys]
      /\ view = [t \in Txns |-> NoView] /\ attempts = [t \in Txns |-> 0]
  BY DEF LocksInit
<1>2. UsersStored
  BY <1>1, LocksAssumption DEF UsersStored
<1>3. ChatsStored
  BY <1>1, LocksAssumption DEF ChatsStored
<1>4. RequestsStored
  <2>1. requests \subseteq RequestRecord /\ IsFiniteSet(requests) /\ (requests # {} => \E r \in requests : r.id = 1)
    BY <1>1, LocksAssumption
  <2> QED BY <1>1, <2>1 DEF RequestsStored
<1>5. Switched
  <2>1. Busy = {}
    BY <1>1 DEF Busy
  <2>2. MaxCalls \in Nat
    BY LocksAssumption
  <2> QED BY <1>1, <2>1, <2>2, FS_EmptySet DEF Switched
<1>6. Sessions
  BY <1>1 DEF Sessions, PerSession, Phases
<1>7. ASSUME NEW t \in Txns PROVE Session(t)
  <2>1. Open(NoCall, "idle", NoKeys, NoKeys, 0, requests)
    BY NothingHeld DEF Open, NoCall
  <2>2. call[t] = NoCall /\ phase[t] = "idle" /\ todo[t] = NoKeys /\ held[t] = NoKeys /\ attempts[t] = 0
    BY <1>1
  <2> QED BY <2>1, <2>2 DEF Session, Holding, Seeing
<1>8. \A t, u \in Txns : Shared(held[t], held[u])
  BY <1>1, NothingHeld
<1> QED BY <1>2, <1>3, <1>4, <1>5, <1>6, <1>7, <1>8 DEF LocksInv

LEMMA LocksStill ==
  ASSUME LocksInv, UNCHANGED lockVars
  PROVE  LocksInv'
<1>1. /\ UNCHANGED store /\ UNCHANGED session /\ begun' = begun
      /\ UNCHANGED <<call, phase, named, todo, held, view, attempts>>
      /\ UNCHANGED <<users, chats, routes, banned, requests, approved, stored, flags>>
  BY DEF lockVars, store, session
<1>2. Sessions' /\ Switched'
  BY <1>1, SwitchedKept DEF LocksInv, Sessions
<1>3. \A t, u \in Txns : t # u => Shared(held'[t], held'[u])
  BY <1>1 DEF LocksInv
<1>4. ASSUME NEW t \in Txns PROVE Session(t)'
  <2>1. Session(t)
    BY DEF LocksInv
  <2>2. Open(call[t], phase[t], todo[t], held[t], attempts[t], requests)'
    BY <1>1, <2>1 DEF Session
  <2>3. Holding(t)'
    BY <1>1, <2>1 DEF Session, Holding
  <2>4. Seeing(t)'
    BY <1>1, <2>1 DEF Session, Seeing
  <2> QED BY <2>2, <2>3, <2>4 DEF Session
<1> QED BY <1>1, <1>2, <1>3, <1>4, StoreKept DEF LocksInv

LEMMA WriteKeeps ==
  ASSUME LocksInv, NEW t \in Txns, Write(t)
  PROVE  LocksInv'
BY IngestKeeps, DeleteUserKeeps, SetRoleKeeps, SetTrustKeeps, SetBanKeeps, ChoiceKeeps, OpenKeeps, RemoveChatKeeps,
   MigrateKeeps, RequestKeeps, DecideKeeps, WithdrawKeeps, SwitchKeeps DEF Write

LEMMA LocksStep ==
  ASSUME LocksInv, [LocksNext]_lockVars
  PROVE  LocksInv'
<1>1. CASE UNCHANGED lockVars
  BY <1>1, LocksStill
<1>2. CASE Over
  BY <1>2, LocksStill DEF Over
<1>3. ASSUME NEW t \in Txns, NEW c \in Calls, Begin(t, c) PROVE LocksInv'
  BY <1>3, BeginKeeps
<1>4. ASSUME NEW t \in Txns, Step(t) PROVE LocksInv'
  BY <1>4, PrepareKeeps, AcquireKeeps, ResolveUsersKeeps, ResolveChatsKeeps, ReadKeeps, VictimKeeps, WriteKeeps DEF Step
<1> QED BY <1>1, <1>2, <1>3, <1>4 DEF LocksNext

\* Whatever the sessions, the calls and the store they start with: a gate or a
\* row that a transaction of audited_transaction.py took in the order of
\* locking.py is its own until it ends, the names it resolved before its gates
\* are those of its call still, and what it read behind them is what is stored.
THEOREM LocksConsistent == LocksSpec => []LocksInv
<1>1. LocksInit => LocksInv
  BY LocksStart
<1>2. LocksInv /\ [LocksNext]_lockVars => LocksInv'
  BY LocksStep
<1> QED BY <1>1, <1>2, PTL DEF LocksSpec

LEMMA LocksTyped ==
  ASSUME LocksInv
  PROVE  LocksTypeOK
<1>1. \A u \in users : u.id \in Nat \ {0} /\ {u.live, u.admin, u.trusted} \subseteq BOOLEAN
  BY DEF LocksInv, UsersStored, UserRecord
<1>2. \A r \in chats : r.id \in Nat \ {0} /\ r.live \in BOOLEAN
  BY DEF LocksInv, ChatsStored, ChatRecord
<1>3. \A r \in requests : r.status \in {"pending", "approved", "rejected", "deleted"}
  BY DEF LocksInv, RequestsStored, RequestRecord
<1>4. flags \in [system : 0..MaxCalls, emergency : 0..MaxCalls] /\ begun \in 0..MaxCalls
  <2>1. Switched /\ MaxCalls \in Nat
    BY LocksAssumption DEF LocksInv
  <2>2. Cardinality(Busy) \in Nat
    BY <2>1, FS_CardinalityType DEF Switched
  <2> HIDE DEF Busy
  <2>3. flags.system \in 0..MaxCalls /\ flags.emergency \in 0..MaxCalls
    BY <2>1, <2>2 DEF Switched
  <2> QED BY <2>1, <2>3 DEF Switched
<1>5. phase \in [Txns -> {"idle", "start", "gates", "users", "chats", "write"}]
  BY DEF LocksInv, Sessions, Phases
<1>6. ASSUME NEW t \in Txns
      PROVE  /\ call[t] \in Calls \cup {NoCall} /\ attempts[t] \in 0..3
             /\ \A k \in DOMAIN held[t] : held[t][k] \in {"x", "s", "k"}
  <2>1. Open(call[t], phase[t], todo[t], held[t], attempts[t], requests) /\ call[t] \in Calls \cup {NoCall}
    BY DEF LocksInv, Session, Sessions
  <2>2. PICK D \in SUBSET LockKey : held[t] \in [D -> Modes]
    BY <2>1 DEF Open
  <2> QED BY <2>1, <2>2 DEF Open, Modes
<1> QED BY <1>1, <1>2, <1>3, <1>4, <1>5, <1>6 DEF LocksTypeOK

LEMMA SeenHolds ==
  ASSUME LocksInv, NEW t \in Txns, phase[t] = "write"
  PROVE  view[t] = Locked(call[t], view[t], ViewOf(call[t]))
<1> DEFINE c == call[t]  v == view[t]  present == ViewOf(c)
           a == IF c.op = "worker" THEN v.users ELSE {r \in present.users : r.by = "worker" => r \in v.users}
           m == IF c.op = "emergency" THEN v.may ELSE present.may
<1>1. /\ View(present) /\ present.users = PeopleSeen(c, users, requests)
      /\ present.chats = GroupsSeen(c, chats, routes, requests)
      /\ present.routed = {p \in routes : p[1] \in TargetChats(c)} /\ present.may = MaySeen(c, banned, users)
      /\ present.requests = {r \in requests : r.group \in GroupsIn(c, requests)}
      /\ present.approved = approved \intersect GroupsIn(c, requests)
      /\ present.stored = {s \in stored : s.what = c.op /\ s.subject = Subject(c)}
      /\ present.flag = IF c.op \in DOMAIN flags THEN flags[c.op] ELSE 0
  BY ViewForm
<1>2. /\ View(v)
      /\ c.op # "worker" => v.users = {r \in PeopleSeen(c, users, requests) : r.by = "worker" => r \in v.users}
      /\ v.chats = GroupsSeen(c, chats, routes, requests)
      /\ v.routed = {p \in routes : p[1] \in TargetChats(c)}
      /\ c.op # "emergency" => v.may = MaySeen(c, banned, users)
      /\ v.requests = {r \in requests : r.group \in GroupsIn(c, requests)}
      /\ v.approved = approved \intersect GroupsIn(c, requests)
      /\ v.stored = {s \in stored : s.what = c.op /\ s.subject = Subject(c)}
      /\ v.flag = IF c.op \in DOMAIN flags THEN flags[c.op] ELSE 0
  BY DEF LocksInv, Session, Seeing
<1> HIDE DEF present, v, c
<1>3. v.users = a /\ v.may = m
  BY <1>1, <1>2
<1>4. /\ v.chats = present.chats /\ v.routed = present.routed /\ v.requests = present.requests
      /\ v.approved = present.approved /\ v.stored = present.stored /\ v.flag = present.flag
  BY <1>1, <1>2
<1>5. Locked(c, v, present) = [present EXCEPT !.users = a, !.may = m]
  BY DEF Locked
<1> HIDE DEF a, m
<1>6. [present EXCEPT !.users = a, !.may = m]
        = [users |-> a, chats |-> present.chats, routed |-> present.routed, may |-> m, requests |-> present.requests,
           approved |-> present.approved, stored |-> present.stored, flag |-> present.flag]
  <2> DEFINE rec(x, y) == [users |-> x, chats |-> present.chats, routed |-> present.routed, may |-> y, requests |-> present.requests,
                           approved |-> present.approved, stored |-> present.stored, flag |-> present.flag]
  <2>1. [rec(present.users, present.may) EXCEPT !.users = a] = rec(a, present.may)
    OBVIOUS
  <2>2. [rec(a, present.may) EXCEPT !.may = m] = rec(a, m)
    OBVIOUS
  <2>3. present = rec(present.users, present.may)
    BY <1>1 DEF View
  <2> HIDE DEF rec
  <2>4. [present EXCEPT !.users = a, !.may = m] = [[present EXCEPT !.users = a] EXCEPT !.may = m]
    OBVIOUS
  <2>5. [present EXCEPT !.users = a, !.may = m] = rec(a, m)
    BY <2>1, <2>2, <2>3, <2>4
  <2> QED BY <2>5 DEF rec
<1>7. v = [users |-> v.users, chats |-> v.chats, routed |-> v.routed, may |-> v.may, requests |-> v.requests,
           approved |-> v.approved, stored |-> v.stored, flag |-> v.flag]
  BY <1>2 DEF View
<1>8. v = Locked(c, v, present)
  BY <1>3, <1>4, <1>5, <1>6, <1>7
<1> QED BY <1>8 DEF c, v, present

\* The locks that every store declares are enough: whatever runs beside it,
\* what a transaction read under them is still so when it commits, but for the
\* user whom the worker brings in and the authority behind a feature's switch.
THEOREM LockedFactsHold == LocksSpec => []FactsHold
<1>1. LocksInv => FactsHold
  BY LocksTyped, SeenHolds DEF FactsHold
<1> QED BY <1>1, LocksConsistent, PTL

=============================================================================
