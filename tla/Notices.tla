------------------------------ MODULE Notices ------------------------------
(***************************************************************************)
(* Notifications: one event and one receipt per recipient, queued by the   *)
(* announcements of an administrator (bot process) and by the release      *)
(* notes (operations worker), sent by the operations worker in bounded     *)
(* pages with back-off.  Authority, a recipient's standing and preferences *)
(* change between any two transactions.                                    *)
(*                                                                         *)
(* Time is relative: a receipt has the age of its last update, a           *)
(* confirmation and a stored body the time left to them; Tick moves all.   *)
(***************************************************************************)
EXTENDS Naturals, Sequences, FiniteSets, FiniteSetsExt, SequencesExt

CONSTANTS
  Users, Groups,      \* recipients
  Audiences,          \* selections of recipients a draft may have
  Sessions,           \* requests of announcement administrators
  ActorOf,            \* session -> the administrator behind it
  MaxRevision, MaxConfirmations,   \* bounds of the instance
  MaxDisturbances,    \* bound on crashes, failures and outside changes
  PageLimit,          \* receipts read by one delivery run
  MaxAttempts,        \* MAX_DELIVERY_ATTEMPTS
  BaseBackoff, MaxBackoff,
  ConfirmationTtl, BodyTtl

Targets == Users \cup Groups
Release == 0                        \* the event release.<version>
Events == 0 .. MaxRevision          \* r > 0: the event announcement.<id>.r<r>
Open == {"PENDING", "RETRY"}
Ended == {"DELIVERED", "DISMISSED", "SKIPPED", "UNREACHABLE"}
Outcomes == Open \cup Ended
NoReceipt == [status |-> "NONE", attempts |-> 0, age |-> 0]
NoEvent == [known |-> FALSE, bypass |-> FALSE, left |-> 0]
Idle == [pc |-> "idle"]
NoRun == [pc |-> "idle", page |-> << >>, outcome |-> "PENDING"]
NoPublication == [pc |-> "idle", todo |-> {}]

ASSUME NoticeAssumption ==
  /\ IsFiniteSet(Targets)
  /\ {MaxAttempts, PageLimit, MaxRevision} \subseteq Nat \ {0}
  /\ {MaxConfirmations, MaxDisturbances, ConfirmationTtl, BodyTtl} \subseteq Nat
  /\ BaseBackoff \in Nat /\ MaxBackoff \in Nat /\ BaseBackoff <= MaxBackoff
  /\ Audiences \subseteq (SUBSET Targets) \ {{}}
  /\ ActorOf \in [Sessions -> Range(ActorOf)]

VARIABLES
  subject,    \* standing of each recipient
  muted,      \* <<recipient, "announcement" | "release">> switched off
  admins,     \* administrators whose authority is current
  revisions,  \* revision -> the targets the draft selects at that revision
  confirmed,  \* announcement_confirmations in order of id
  session,    \* what each administrator's request remembers
  event,      \* notification_events
  receipt,    \* notification_receipts
  release,    \* the version marker, the changelog and the last listing
  publication,\* what a run of ReleaseUpdateService remembers
  run,        \* what a run of NotificationDeliveryService remembers
  accepted,   \* recipients Telegram accepted an event for
  disturbances

vars == <<subject, muted, admins, revisions, confirmed, session, event,
          receipt, release, publication, run, accepted, disturbances>>
environment == <<subject, muted, admins>>
outside == <<environment, disturbances>>
announcing == <<revisions, confirmed, session>>
publishing == <<release, publication>>

Revision == Len(revisions)
Category(e) == IF e = Release THEN "release" ELSE "announcement"
Eligible(t, c) == subject[t] = "active" /\ <<t, c>> \notin muted
(* reachable: users must be active and unbanned, groups approved. *)
Reachable(t) == IF t \in Users THEN subject[t] = "active" ELSE subject[t] \in {"active", "banned"}
Approved == {g \in Groups : subject[g] \in {"active", "banned"}}
Backoff(n) == Min({MaxBackoff, BaseBackoff * 2 ^ (IF n = 0 THEN 0 ELSE n - 1)})
Due(r) == r.attempts = 0 \/ r.age >= Backoff(r.attempts)

Init ==
  /\ subject = [t \in Targets |-> "active"]
  /\ muted = {}
  /\ admins \in SUBSET Range(ActorOf)
  /\ revisions \in [1 .. 1 -> Audiences]
  /\ confirmed = << >>
  /\ session = [s \in Sessions |-> Idle]
  /\ event = [e \in Events |-> NoEvent]
  /\ receipt = [e \in Events |-> [t \in Targets |-> NoReceipt]]
  /\ release \in [marker : {"none", "last", "current"}, notes : BOOLEAN, listed : {{}}]
  /\ publication = NoPublication
  /\ run = NoRun
  /\ accepted = {}
  /\ disturbances = 0

----------------------------------------------------------------------------
Disturbed == disturbances < MaxDisturbances /\ disturbances' = disturbances + 1

(* Recipients, preferences and authority, changed by other components.     *)

Stand(t, s) ==
  /\ Disturbed
  /\ subject[t] # "gone"
  /\ s \in (IF t \in Users THEN {"active", "banned", "gone"}
            ELSE {"active", "banned", "unapproved", "gone"}) \ {subject[t]}
  /\ subject' = [subject EXCEPT ![t] = s]
  /\ UNCHANGED <<muted, admins, announcing, event, receipt, publishing, run, accepted>>

(* set_preference: a banned user may not, and the target must be active.  *)
SetPreference(t, c) ==
  /\ Disturbed
  /\ subject[t] # "gone" /\ (t \in Users => subject[t] = "active")
  /\ muted' = IF <<t, c>> \in muted THEN muted \ {<<t, c>>} ELSE muted \cup {<<t, c>>}
  /\ UNCHANGED <<subject, admins, announcing, event, receipt, publishing, run, accepted>>

Authorize(a) ==
  /\ Disturbed
  /\ admins' = IF a \in admins THEN admins \ {a} ELSE admins \cup {a}
  /\ UNCHANGED <<subject, muted, announcing, event, receipt, publishing, run, accepted>>

----------------------------------------------------------------------------
(* The ledger: an event is created once, a receipt is always overwritten.  *)

EnsureEvent(e, bypass) ==
  event' = [event EXCEPT ![e] = IF @.known THEN @
                                ELSE [known |-> TRUE, bypass |-> bypass, left |-> BodyTtl]]

Recorded(e, t, outcome, attempts) ==
  receipt' = [receipt EXCEPT ![e][t] = [status |-> outcome, attempts |-> attempts, age |-> 0]]

(* The bot refuses a new receipt of a recipient that no longer exists.     *)
Recordable(e, t) == receipt[e][t].status # "NONE" \/ subject[t] # "gone"

----------------------------------------------------------------------------
(* Announcements.                                                          *)

CancelPending(cs) ==
  [i \in DOMAIN cs |-> IF cs[i].status = "pending" THEN [cs[i] EXCEPT !.status = "cancelled"]
                       ELSE cs[i]]

(* update: a new revision with its targets cancels what is pending.  *)
UpdateDraft(a, targets) ==
  /\ a \in admins
  /\ Revision < MaxRevision
  /\ revisions' = Append(revisions, targets)
  /\ confirmed' = CancelPending(confirmed)
  /\ UNCHANGED <<outside, session, event, receipt, publishing, run, accepted>>

ConfirmRead(s) ==
  /\ session[s].pc = "idle" /\ Len(confirmed) < MaxConfirmations
  /\ session' = [session EXCEPT ![s] = [pc |-> "draft", rev |-> Revision]]
  /\ UNCHANGED <<outside, revisions, confirmed, event, receipt, publishing, run, accepted>>

(* The targets are read after the draft, and may be those of a newer one.  *)
ConfirmSnapshot(s) ==
  LET snap == {t \in revisions[Revision] : Eligible(t, "announcement")} IN
  /\ session[s].pc = "draft"
  /\ session' = [session EXCEPT ![s] =
       IF snap = {} THEN Idle ELSE [pc |-> "snapshot", rev |-> session[s].rev, snap |-> snap]]
  /\ UNCHANGED <<outside, revisions, confirmed, event, receipt, publishing, run, accepted>>

ConfirmStore(s, urgent) ==
  /\ session[s].pc = "snapshot" /\ Len(confirmed) < MaxConfirmations
  /\ session' = [session EXCEPT ![s] = Idle]
  /\ confirmed' = IF ActorOf[s] \notin admins THEN confirmed ELSE
       Append(confirmed, [status |-> "pending", rev |-> session[s].rev, snap |-> session[s].snap,
                          actor |-> ActorOf[s], urgent |-> urgent, left |-> ConfirmationTtl])
  /\ UNCHANGED <<outside, revisions, event, receipt, publishing, run, accepted>>

\* Fault: the revision of the confirmation is not compared.
UsableAnyRevision(s, c) ==
  /\ ActorOf[s] \in admins /\ c.actor = ActorOf[s]
  /\ c.status = "pending" /\ c.left > 0

(* consume: one transaction compares everything the confirmation binds.    *)
Usable(s, c) ==
  /\ ActorOf[s] \in admins
  /\ c.rev = Revision /\ c.actor = ActorOf[s]
  /\ c.status = "pending" /\ c.left > 0

Consume(s, i) ==
  /\ session[s].pc = "idle" /\ Usable(s, confirmed[i])
  /\ confirmed' = [confirmed EXCEPT ![i].status = "dispatched"]
  /\ session' = [session EXCEPT ![s] = [pc |-> "consumed", rev |-> confirmed[i].rev,
                   todo |-> confirmed[i].snap, bypass |-> confirmed[i].urgent]]
  /\ UNCHANGED <<outside, revisions, event, receipt, publishing, run, accepted>>

(* The body is sealed and stored, then the event is made known.            *)
DispatchEvent(s) ==
  /\ session[s].pc = "consumed"
  /\ EnsureEvent(session[s].rev, session[s].bypass)
  /\ session' = [session EXCEPT ![s].pc = "queueing"]
  /\ UNCHANGED <<outside, revisions, confirmed, receipt, publishing, run, accepted>>

DispatchRecord(s, t) ==
  /\ session[s].pc = "queueing" /\ t \in session[s].todo
  /\ Recordable(session[s].rev, t)
  /\ Recorded(session[s].rev, t, "PENDING", 0)
  /\ session' = [session EXCEPT ![s] = IF @.todo = {t} THEN Idle
                   ELSE [session[s] EXCEPT !.todo = @ \ {t}]]
  /\ UNCHANGED <<outside, revisions, confirmed, event, publishing, run, accepted>>

(* A recipient that is gone ends the whole dispatch with an error.         *)
DispatchAbort(s, t) ==
  /\ session[s].pc = "queueing" /\ t \in session[s].todo
  /\ ~Recordable(session[s].rev, t)
  /\ session' = [session EXCEPT ![s] = Idle]
  /\ UNCHANGED <<outside, revisions, confirmed, event, receipt, publishing, run, accepted>>

(* cancel: what is dismissed is decided by the confirmation read first.    *)
CancelRead(s) ==
  /\ session[s].pc = "idle" /\ confirmed # << >>
  /\ session' = [session EXCEPT ![s] =
       [pc |-> "cancelling", rev |-> Last(confirmed).rev,
        dispatched |-> Last(confirmed).status = "dispatched"]]
  /\ UNCHANGED <<outside, revisions, confirmed, event, receipt, publishing, run, accepted>>

CancelStore(s) ==
  /\ session[s].pc = "cancelling"
  /\ confirmed' = IF ActorOf[s] \in admins THEN CancelPending(confirmed) ELSE confirmed
  /\ session' = [session EXCEPT ![s] =
       IF ActorOf[s] \in admins /\ session[s].dispatched
       THEN [pc |-> "dismissing", rev |-> session[s].rev] ELSE Idle]
  /\ UNCHANGED <<outside, revisions, event, receipt, publishing, run, accepted>>

Dismiss(s) ==
  /\ session[s].pc = "dismissing"
  /\ receipt' = [receipt EXCEPT ![session[s].rev] = [t \in Targets |->
       IF @[t].status \in Open THEN [@[t] EXCEPT !.status = "DISMISSED", !.age = 0] ELSE @[t]]]
  /\ session' = [session EXCEPT ![s] = Idle]
  /\ UNCHANGED <<outside, revisions, confirmed, event, publishing, run, accepted>>

----------------------------------------------------------------------------
(* Release notes.                                                          *)

PublishStart ==
  /\ publication.pc = "idle" /\ run.pc = "idle" /\ release.marker # "current"
  /\ IF release.marker = "none" \/ ~release.notes
     THEN release' = [release EXCEPT !.marker = "current"] /\ UNCHANGED publication
     ELSE publication' = [pc |-> "sealed", todo |-> {}] /\ UNCHANGED release
  /\ UNCHANGED <<outside, announcing, event, receipt, run, accepted>>

PublishEvent ==
  /\ publication.pc = "sealed"
  /\ EnsureEvent(Release, FALSE)
  /\ publication' = [pc |-> "event", todo |-> {}]
  /\ UNCHANGED <<outside, announcing, release, receipt, run, accepted>>

\* Fault: the marker moves before the receipts.
PublishListMarking ==
  /\ publication.pc = "event"
  /\ publication' = [pc |-> "recording", todo |-> Approved]
  /\ release' = [release EXCEPT !.listed = Approved, !.marker = "current"]
  /\ UNCHANGED <<outside, announcing, event, receipt, run, accepted>>

PublishList ==
  /\ publication.pc = "event"
  /\ publication' = [pc |-> "recording", todo |-> Approved]
  /\ release' = [release EXCEPT !.listed = Approved]
  /\ UNCHANGED <<outside, announcing, event, receipt, run, accepted>>

PublishRecord(g) ==
  /\ publication.pc = "recording" /\ g \in publication.todo
  /\ Recorded(Release, g, "PENDING", 0)
  /\ publication' = [publication EXCEPT !.todo = @ \ {g}]
  /\ UNCHANGED <<outside, announcing, event, release, run, accepted>>

PublishMark ==
  /\ publication.pc = "recording" /\ publication.todo = {}
  /\ release' = [release EXCEPT !.marker = "current"]
  /\ publication' = NoPublication
  /\ UNCHANGED <<outside, announcing, event, receipt, run, accepted>>

----------------------------------------------------------------------------
(* Delivery: the page is read once, then worked through receipt by         *)
(* receipt; nothing of it is read again.                                   *)

\* Fault: delivered receipts are not filtered out.
PendingOrDelivered ==
  {p \in Events \X Targets : receipt[p[1]][p[2]].status \in Open \cup {"DELIVERED"}}

Pending == {p \in Events \X Targets : receipt[p[1]][p[2]].status \in Open}

Item(p) == [event |-> p[1], target |-> p[2], attempts |-> receipt[p[1]][p[2]].attempts,
            age |-> receipt[p[1]][p[2]].age]
(* Oldest update first, cut at the page's limit.  *)
Pages == {q \in [1 .. Min({PageLimit, Cardinality(Pending)}) -> Pending] :
            /\ IsInjective(q)
            /\ \A i \in DOMAIN q : \A p \in Pending :
                 p \in {q[k] : k \in 1 .. i} \/ Item(q[i]).age >= Item(p).age}

RunStart ==
  /\ run.pc = "idle" /\ publication.pc = "idle" /\ Pending # {}
  /\ \E q \in Pages :
       run' = [pc |-> "gate", page |-> [i \in DOMAIN q |-> Item(q[i])], outcome |-> "PENDING"]
  /\ UNCHANGED <<outside, announcing, event, receipt, publishing, accepted>>

Item1 == Head(run.page)
Rest == IF Len(run.page) = 1 THEN NoRun
        ELSE [pc |-> "gate", page |-> Tail(run.page), outcome |-> "PENDING"]

(* _eligible and _body: the outcome of the first gate that refuses.  *)
Verdict(i) ==
  IF ~event[i.event].bypass /\ <<i.target, Category(i.event)>> \in muted THEN "SKIPPED"
  ELSE IF ~Reachable(i.target) THEN "UNREACHABLE"
  ELSE IF event[i.event].left = 0 THEN "SKIPPED"
  ELSE "PENDING"

\* Fault: a refused receipt is passed over without a record.
GateSilent ==
  /\ run.pc = "gate"
  /\ run' = IF Due(Item1) /\ Verdict(Item1) = "PENDING" THEN [run EXCEPT !.pc = "send"] ELSE Rest
  /\ UNCHANGED <<outside, announcing, event, receipt, publishing, accepted>>

Gate ==
  /\ run.pc = "gate"
  /\ run' = IF ~Due(Item1) THEN Rest
            ELSE IF Verdict(Item1) = "PENDING" THEN [run EXCEPT !.pc = "send"]
            ELSE [run EXCEPT !.pc = "record", !.outcome = Verdict(Item1)]
  /\ UNCHANGED <<outside, announcing, event, receipt, publishing, accepted>>

Attempted == [run EXCEPT !.pc = "record", !.page[1].attempts = @ + 1]
SendAccepted ==
  /\ run.pc = "send"
  /\ accepted' = accepted \cup {<<Item1.event, Item1.target>>}
  /\ run' = [Attempted EXCEPT !.outcome = "DELIVERED"]
  /\ UNCHANGED <<outside, announcing, event, receipt, publishing>>

SendFailed ==
  /\ run.pc = "send"
  /\ run' = [Attempted EXCEPT !.outcome =
       IF Item1.attempts + 1 >= MaxAttempts THEN "UNREACHABLE" ELSE "RETRY"]
  /\ UNCHANGED <<outside, announcing, event, receipt, publishing, accepted>>

RunRecord ==
  /\ run.pc = "record"
  /\ Recorded(Item1.event, Item1.target, run.outcome, Item1.attempts)
  /\ run' = Rest
  /\ UNCHANGED <<outside, announcing, event, publishing, accepted>>

----------------------------------------------------------------------------
(* Crashes, failed transactions and the passing of time.                   *)

(* The bot dies, or a transaction of the request fails.  *)
SessionLost(s) ==
  /\ session[s].pc # "idle" /\ Disturbed
  /\ session' = [session EXCEPT ![s] = Idle]
  /\ UNCHANGED <<environment, revisions, confirmed, event, receipt, publishing, run, accepted>>

(* The worker dies: it runs one task at a time.  *)
WorkerLost ==
  /\ run.pc # "idle" \/ publication.pc # "idle"
  /\ Disturbed /\ run' = NoRun /\ publication' = NoPublication
  /\ UNCHANGED <<environment, announcing, event, receipt, release, accepted>>

Older(n) == IF n < MaxBackoff THEN n + 1 ELSE n
Less(n) == IF n > 0 THEN n - 1 ELSE 0
Tick ==
  /\ receipt' = [e \in Events |-> [t \in Targets |->
       IF receipt[e][t].status \in Open THEN [receipt[e][t] EXCEPT !.age = Older(@)]
       ELSE receipt[e][t]]]
  /\ event' = [e \in Events |-> [event[e] EXCEPT !.left = Less(@)]]
  /\ confirmed' = [i \in DOMAIN confirmed |->
       IF confirmed[i].status = "pending" THEN [confirmed[i] EXCEPT !.left = Less(@)]
       ELSE confirmed[i]]
  /\ run' = [run EXCEPT !.page = [i \in DOMAIN run.page |-> [run.page[i] EXCEPT !.age = Older(@)]]]
  /\ <<receipt, event, confirmed, run>>' # <<receipt, event, confirmed, run>>
  /\ UNCHANGED <<outside, revisions, session, publishing, accepted>>

----------------------------------------------------------------------------
Worker ==
  \/ PublishStart \/ PublishEvent \/ PublishList \/ PublishMark
  \/ \E g \in Groups : PublishRecord(g)
  \/ RunStart \/ Gate \/ SendAccepted \/ SendFailed \/ RunRecord

Next ==
  \/ \E t \in Targets : \E s \in {"active", "banned", "unapproved", "gone"} : Stand(t, s)
  \/ \E t \in Targets : \E c \in {"announcement", "release"} : SetPreference(t, c)
  \/ \E a \in Range(ActorOf) : Authorize(a)
  \/ \E a \in Range(ActorOf) : \E T \in Audiences : UpdateDraft(a, T)
  \/ \E s \in Sessions :
       \/ ConfirmRead(s) \/ ConfirmSnapshot(s) \/ DispatchEvent(s)
       \/ \E u \in BOOLEAN : ConfirmStore(s, u)
       \/ \E i \in DOMAIN confirmed : Consume(s, i)
       \/ \E t \in Targets : DispatchRecord(s, t) \/ DispatchAbort(s, t)
       \/ CancelRead(s) \/ CancelStore(s) \/ Dismiss(s) \/ SessionLost(s)
  \/ Worker \/ WorkerLost \/ Tick

Spec == Init /\ [][Next]_vars
(* Beat starts runs for ever, the worker finishes them, and time passes.   *)
Fairness == WF_vars(Worker) /\ WF_vars(Tick)
----------------------------------------------------------------------------
(* Whoever gets an announcement was in the audience that an administrator  *)
(* confirmed for that very revision, though draft, targets and eligibility *)
(* are read in separate transactions before the confirmation is stored     *)
(* (AnnouncementService.confirm, AnnouncementStore.consume).               *)
Dispatched(e) == {i \in DOMAIN confirmed : confirmed[i].rev = e /\ confirmed[i].status = "dispatched"}
OnlyConfirmed ==
  \A e \in Events \ {Release} :
    /\ \A i \in Dispatched(e) : confirmed[i].snap \subseteq revisions[e]
    /\ \A t \in Targets : receipt[e][t].status # "NONE" =>
         \E i \in Dispatched(e) : t \in confirmed[i].snap
    /\ event[e].bypass => \E i \in Dispatched(e) : confirmed[i].urgent

(* Outcomes and counts of attempts agree, and nothing is reported as       *)
(* delivered that Telegram did not accept: requests queue again, dismiss   *)
(* and overwrite receipts while a run works through its page.              *)
ReceiptsCoherent ==
  /\ receipt \in [Events -> [Targets -> [status : Outcomes \cup {"NONE"},
                     attempts : 0 .. MaxAttempts, age : 0 .. MaxBackoff]]]
  /\ \A e \in Events : \A t \in Targets :
       /\ receipt[e][t].status = "PENDING" => receipt[e][t].attempts = 0
       /\ receipt[e][t].status = "RETRY" => receipt[e][t].attempts \in 1 .. MaxAttempts - 1
       /\ receipt[e][t].status = "DELIVERED" =>
            receipt[e][t].attempts > 0 /\ <<e, t>> \in accepted
       /\ receipt[e][t].status # "NONE" => event[e].known

(* No run holds a receipt that is recorded as delivered, so none is sent   *)
(* twice but for a crash or a second dispatch: runs do not overlap, since  *)
(* the operations worker runs one task at a time.                          *)
NeverResent == \A i \in DOMAIN run.page :
  receipt[run.page[i].event][run.page[i].target].status # "DELIVERED"

(* The version marker is advanced only after each group of the listing has *)
(* its receipt: a crash in ReleaseUpdateService.publish loses no group.    *)
MarkerAfterReceipts ==
  release.marker = "current" => \A g \in release.listed : receipt[Release][g].status # "NONE"

(* The queue drains: every queued notification ends, though sends fail,    *)
(* runs crash, pages are bounded and hold receipts that are not due yet,   *)
(* bodies expire and recipients go.  Queueing is bounded here.             *)
QueueDrains == []<>(Pending = {})

\* Recipients, drafts, receipts with their attempts and age, and the bounded page of a run.
TypeOK ==
  /\ subject \in [Targets -> {"active", "banned", "unapproved", "gone"}]
  /\ muted \subseteq Targets \X {"announcement", "release"} /\ admins \subseteq Range(ActorOf)
  /\ revisions \in Seq(Audiences) /\ Revision \in 1..MaxRevision
  /\ receipt \in [Events -> [Targets ->
       [status : Outcomes \cup {"NONE"}, attempts : 0..MaxAttempts, age : 0..MaxBackoff]]]
  /\ release \in [marker : {"none", "last", "current"}, notes : BOOLEAN, listed : SUBSET Groups]
  /\ Len(run.page) <= PageLimit /\ accepted \subseteq Events \X Targets
  /\ disturbances \in 0..MaxDisturbances

\* What a recipient is sent was confirmed as it was previewed, and their receipt, marker and
\* decision agree, whichever run, click or dismissal came between (AnnouncementStore).
AnnouncementsSound == TypeOK /\ OnlyConfirmed /\ ReceiptsCoherent
=============================================================================
