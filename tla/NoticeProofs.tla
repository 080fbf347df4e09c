------------------------------ MODULE NoticeProofs ------------------------------
(***************************************************************************)
(* Proofs about notifications, for any recipients, audiences, requests of  *)
(* administrators, revisions, page limits, attempts and disturbances.      *)
(***************************************************************************)
EXTENDS Notices, FiniteSetTheorems, SequenceTheorems, TLAPS

(***************************************************************************)
(* The inductive invariant.                                                *)
(***************************************************************************)

Standings == {"active", "banned", "unapproved", "gone"}
Receipt == [status : Outcomes \cup {"NONE"}, attempts : 0..MaxAttempts, age : 0..MaxBackoff]
EventRow == [known : BOOLEAN, bypass : BOOLEAN, left : Nat]
Confirmed == [status : {"pending", "dispatched", "cancelled"}, rev : Nat, snap : SUBSET Targets,
              actor : Range(ActorOf), urgent : BOOLEAN, left : Nat]
Row == [event : Events, target : Targets, attempts : 0..MaxAttempts, age : 0..MaxBackoff]
Dispatching == [pc : {"consumed", "queueing"}, rev : Nat, todo : SUBSET Targets, bypass : BOOLEAN]

WorldInv ==
  /\ subject \in [Targets -> Standings]
  /\ muted \subseteq Targets \X {"announcement", "release"} /\ admins \subseteq Range(ActorOf)
  /\ disturbances \in 0..MaxDisturbances

\* A snapshot is of an audience the draft had at the confirmed revision or
\* since; at its consumption only the revision itself is left.
Drawn(rev, snap, revs) == rev \in 1..Len(revs) /\ \E k \in rev..Len(revs) : snap \subseteq revs[k]

DraftInv ==
  /\ revisions \in Seq(Audiences) /\ Len(revisions) \in 1..MaxRevision
  /\ confirmed \in Seq(Confirmed)
  /\ \A i \in DOMAIN confirmed :
       /\ Drawn(confirmed[i].rev, confirmed[i].snap, revisions)
       /\ confirmed[i].status = "dispatched" => confirmed[i].snap \subseteq revisions[confirmed[i].rev]

\* The confirmation behind a dispatch is kept.
Behind(e, targets, bypass, conf) ==
  \E i \in DOMAIN conf : /\ conf[i].rev = e /\ conf[i].status = "dispatched"
                         /\ targets \subseteq conf[i].snap /\ (bypass => conf[i].urgent)

SessionOK(x, revs, conf, ev) ==
  \/ x = Idle
  \/ x.pc \in {"draft", "cancelling", "dismissing"} /\ x.rev \in 1..Len(revs)
  \/ x.pc = "snapshot" /\ x.snap \subseteq Targets /\ Drawn(x.rev, x.snap, revs)
  \/ /\ x \in Dispatching /\ x.rev \in 1..Len(revs)
     /\ Behind(x.rev, x.todo, x.bypass, conf)
     /\ x.pc = "queueing" => ev[x.rev].known

SessionInv ==
  /\ session = [s \in Sessions |-> session[s]]
  /\ \A s \in Sessions : SessionOK(session[s], revisions, confirmed, event)

ReceiptOK(e, t, r, known, acc) ==
  /\ r.status = "PENDING" => r.attempts = 0
  /\ r.status = "RETRY" => r.attempts \in 1..MaxAttempts - 1
  /\ r.status = "DELIVERED" => r.attempts > 0 /\ <<e, t>> \in acc
  /\ r.status # "NONE" => known

LedgerInv ==
  /\ event \in [Events -> EventRow]
  /\ receipt \in [Events -> [Targets -> Receipt]]
  /\ accepted \subseteq Events \X Targets
  /\ \A e \in Events, t \in Targets : ReceiptOK(e, t, receipt[e][t], event[e].known, accepted)

\* Whoever has a receipt of an announcement was confirmed.
ConfirmedInv ==
  \A e \in Events \ {Release} :
    /\ \A t \in Targets : receipt[e][t].status # "NONE" => Behind(e, {t}, FALSE, confirmed)
    /\ event[e].bypass => Behind(e, {}, TRUE, confirmed)

\* While the release is published the marker is behind, and what was listed
\* has its receipt or is still to get it.
ReleaseInv ==
  /\ release \in [marker : {"none", "last", "current"}, notes : BOOLEAN, listed : SUBSET Groups]
  /\ publication \in [pc : {"idle", "sealed", "event", "recording"}, todo : SUBSET Groups]
  /\ release.listed # {} => release.notes /\ release.marker # "none"
  /\ publication.pc # "idle" => release.notes /\ release.marker = "last"
  /\ publication.pc \in {"event", "recording"} => event[Release].known
  /\ publication.pc = "recording" =>
       \A g \in release.listed : g \in publication.todo \/ receipt[Release][g].status # "NONE"
  /\ MarkerAfterReceipts

\* A run works through distinct receipts, none of them delivered; what it is
\* about to record agrees with what Telegram answered.
RunInv ==
  /\ run \in [pc : {"idle", "gate", "send", "record"}, page : Seq(Row), outcome : Outcomes]
  /\ run.pc = "idle" <=> Len(run.page) = 0
  /\ Len(run.page) <= PageLimit
  /\ \A i, j \in DOMAIN run.page :
       run.page[i].event = run.page[j].event /\ run.page[i].target = run.page[j].target => i = j
  /\ \A i \in DOMAIN run.page :
       /\ receipt[run.page[i].event][run.page[i].target].status \notin {"NONE", "DELIVERED"}
       /\ (run.pc # "record" \/ i # 1) => run.page[i].attempts < MaxAttempts
  /\ run.pc = "record" =>
       ReceiptOK(Item1.event, Item1.target,
                 [status |-> run.outcome, attempts |-> Item1.attempts, age |-> 0], TRUE, accepted)

IInv == WorldInv /\ DraftInv /\ SessionInv /\ LedgerInv /\ ConfirmedInv /\ ReleaseInv /\ RunInv

LEMMA InitInv == Init => IInv
<1> SUFFICES ASSUME Init PROVE IInv
  OBVIOUS
<1>1. /\ confirmed = << >> /\ session = [s \in Sessions |-> Idle]
      /\ event = [e \in Events |-> NoEvent]
      /\ receipt = [e \in Events |-> [t \in Targets |-> NoReceipt]]
      /\ publication = NoPublication /\ run = NoRun /\ accepted = {} /\ disturbances = 0
  BY DEF Init
<1>2. WorldInv
  BY <1>1, NoticeAssumption DEF Init, WorldInv, Standings
<1>3. revisions \in Seq(Audiences) /\ Len(revisions) = 1
  <2>1. revisions \in [1..1 -> Audiences]
    BY DEF Init
  <2>2. revisions = [k \in 1..1 |-> revisions[k]] /\ \A k \in 1..1 : revisions[k] \in Audiences
    BY <2>1
  <2> QED BY <2>2, IsASeq
<1>4. DraftInv
  <2>1. confirmed \in Seq(Confirmed) /\ DOMAIN confirmed = {}
    BY <1>1
  <2>2. 1 \in 1..MaxRevision
    BY NoticeAssumption
  <2> QED BY <1>3, <2>1, <2>2 DEF DraftInv
<1>5. SessionInv
  BY <1>1 DEF SessionInv, SessionOK
<1>6. \A e \in Events : event[e] = NoEvent /\ \A t \in Targets : receipt[e][t] = NoReceipt
  BY <1>1
<1>7. LedgerInv
  <2>1. NoEvent \in EventRow
    BY DEF NoEvent, EventRow
  <2>2. NoReceipt \in Receipt /\ NoReceipt.status = "NONE"
    BY NoticeAssumption DEF NoReceipt, Receipt
  <2> QED BY <1>1, <1>6, <2>1, <2>2 DEF LedgerInv, ReceiptOK
<1>8. ConfirmedInv
  <2>1. NoReceipt.status = "NONE" /\ NoEvent.bypass = FALSE
    BY DEF NoReceipt, NoEvent
  <2> QED BY <1>6, <2>1 DEF ConfirmedInv
<1>9. ReleaseInv
  <2>1. release \in [marker : {"none", "last", "current"}, notes : BOOLEAN, listed : {{}}]
    BY DEF Init
  <2> QED BY <1>1, <2>1 DEF ReleaseInv, NoPublication, MarkerAfterReceipts
<1>10. RunInv
  <2>1. run = [pc |-> "idle", page |-> << >>, outcome |-> "PENDING"] /\ << >> \in Seq(Row)
        /\ Len(<< >>) = 0 /\ DOMAIN << >> = {}
    BY <1>1 DEF NoRun
  <2> QED BY <2>1, NoticeAssumption DEF RunInv, Outcomes, Open
<1> QED BY <1>2, <1>4, <1>5, <1>7, <1>8, <1>9, <1>10 DEF IInv

----------------------------------------------------------------------------
(***************************************************************************)
(* What every step keeps of drafts, confirmations and events.              *)
(***************************************************************************)

\* Revisions are appended, a dispatched confirmation and a known event stay.
Grown ==
  /\ Len(revisions') \in Nat /\ Len(revisions) <= Len(revisions')
  /\ \A k \in 1..Len(revisions) : revisions'[k] = revisions[k]
  /\ \A i \in DOMAIN confirmed : confirmed[i].status = "dispatched" =>
       /\ i \in DOMAIN confirmed' /\ confirmed'[i].status = "dispatched"
       /\ confirmed'[i].rev = confirmed[i].rev /\ confirmed'[i].snap = confirmed[i].snap
       /\ confirmed'[i].urgent = confirmed[i].urgent
  /\ \A e \in Events : event[e].known => event'[e].known

LEMMA Revisions ==
  ASSUME DraftInv
  PROVE  /\ Revision \in Nat /\ Revision >= 1 /\ Revision <= MaxRevision /\ MaxRevision \in Nat
         /\ DOMAIN revisions = 1..Revision
         /\ 1..Revision \subseteq Events
         /\ \A k \in 1..Revision : revisions[k] \subseteq Targets
<1>1. /\ revisions \in Seq(Audiences) /\ Len(revisions) \in 1..MaxRevision
      /\ MaxRevision \in Nat /\ Audiences \subseteq SUBSET Targets
  BY NoticeAssumption DEF DraftInv
<1>2. \A k \in 1..Len(revisions) : revisions[k] \in Audiences
  BY <1>1
<1> QED BY <1>1, <1>2 DEF Revision, Events

LEMMA UnchangedGrown ==
  ASSUME DraftInv, UNCHANGED <<revisions, confirmed, event>>
  PROVE  Grown
BY Revisions DEF Grown, Revision

LEMMA DrawnKept ==
  ASSUME DraftInv, Grown, NEW rev, NEW snap, Drawn(rev, snap, revisions)
  PROVE  Drawn(rev, snap, revisions')
<1>1. Len(revisions) \in Nat /\ Len(revisions') \in Nat /\ Len(revisions) <= Len(revisions')
  BY Revisions DEF Grown, Revision
<1>2. rev \in 1..Len(revisions)
  BY DEF Drawn
<1>3. PICK k \in rev..Len(revisions) : snap \subseteq revisions[k]
  BY DEF Drawn
<1>4. k \in rev..Len(revisions') /\ k \in 1..Len(revisions) /\ revisions'[k] = revisions[k]
  BY <1>1, <1>2, <1>3 DEF Grown
<1> QED BY <1>1, <1>2, <1>3, <1>4 DEF Drawn

LEMMA BehindKept ==
  ASSUME Grown, NEW e, NEW targets, NEW bypass, Behind(e, targets, bypass, confirmed)
  PROVE  Behind(e, targets, bypass, confirmed')
BY DEF Grown, Behind

LEMMA SessionOKKept ==
  ASSUME DraftInv, Grown, NEW x, SessionOK(x, revisions, confirmed, event)
  PROVE  SessionOK(x, revisions', confirmed', event')
<1>1. \A rev \in 1..Len(revisions) : rev \in 1..Len(revisions') /\ rev \in Events
  BY Revisions DEF Grown, Revision
<1>2. CASE x = Idle
  BY <1>2 DEF SessionOK
<1>3. CASE x.pc \in {"draft", "cancelling", "dismissing"} /\ x.rev \in 1..Len(revisions)
  BY <1>1, <1>3 DEF SessionOK
<1>4. CASE x.pc = "snapshot" /\ x.snap \subseteq Targets /\ Drawn(x.rev, x.snap, revisions)
  BY <1>4, DrawnKept DEF SessionOK
<1>5. CASE /\ x \in Dispatching /\ x.rev \in 1..Len(revisions)
           /\ Behind(x.rev, x.todo, x.bypass, confirmed)
           /\ x.pc = "queueing" => event[x.rev].known
  <2>1. x.rev \in 1..Len(revisions') /\ (x.pc = "queueing" => event'[x.rev].known)
    BY <1>1, <1>5 DEF Grown
  <2>2. Behind(x.rev, x.todo, x.bypass, confirmed')
    BY <1>5, BehindKept
  <2> QED BY <1>5, <2>1, <2>2 DEF SessionOK
<1> QED BY <1>2, <1>3, <1>4, <1>5 DEF SessionOK

\* The requests of administrators stay in order, whatever one of them does.
LEMMA SessionsKept ==
  ASSUME IInv, Grown,
         \/ UNCHANGED session
         \/ \E s \in Sessions : \E x : /\ SessionOK(x, revisions', confirmed', event')
                                       /\ session' = [session EXCEPT ![s] = x]
  PROVE  SessionInv'
<1>1. DraftInv /\ SessionInv
  BY DEF IInv
<1>2. \A s \in Sessions : SessionOK(session[s], revisions', confirmed', event')
  BY <1>1, SessionOKKept DEF SessionInv
<1> QED BY <1>1, <1>2 DEF SessionInv

\* A dispatch has receipts only of those who were confirmed.
LEMMA ConfirmedKept ==
  ASSUME IInv, Grown, UNCHANGED <<event, receipt>>
  PROVE  ConfirmedInv'
BY BehindKept DEF IInv, ConfirmedInv

LEMMA LedgerUnchanged ==
  ASSUME IInv, UNCHANGED <<event, receipt, accepted, release, publication, run>>
  PROVE  LedgerInv' /\ ReleaseInv' /\ RunInv'
BY DEF IInv, LedgerInv, ReleaseInv, MarkerAfterReceipts, RunInv, Item1

----------------------------------------------------------------------------
(***************************************************************************)
(* Recipients, authority and drafts.                                       *)
(***************************************************************************)

LEMMA DisturbedInv == ASSUME IInv, Disturbed PROVE disturbances' \in 0..MaxDisturbances
BY NoticeAssumption DEF Disturbed, IInv, WorldInv

LEMMA OutsideInv ==
  ASSUME IInv,
         \/ \E t \in Targets, s \in Standings : Stand(t, s)
         \/ \E t \in Targets, c \in {"announcement", "release"} : SetPreference(t, c)
         \/ \E a \in Range(ActorOf) : Authorize(a)
  PROVE  IInv'
<1>1. UNCHANGED <<announcing, event, receipt, publishing, run, accepted>> /\ Disturbed
  BY DEF Stand, SetPreference, Authorize
<1>2. UNCHANGED <<revisions, confirmed, session, event, receipt, release, publication, run, accepted>>
  BY <1>1 DEF announcing, publishing
<1>3. WorldInv'
  <2>1. disturbances' \in 0..MaxDisturbances
    BY <1>1, DisturbedInv
  <2>2. CASE \E t \in Targets, s \in Standings : Stand(t, s)
    BY <2>1, <2>2 DEF Stand, IInv, WorldInv
  <2>3. CASE \E t \in Targets, c \in {"announcement", "release"} : SetPreference(t, c)
    BY <2>1, <2>3 DEF SetPreference, IInv, WorldInv
  <2>4. CASE \E a \in Range(ActorOf) : Authorize(a)
    BY <2>1, <2>4 DEF Authorize, IInv, WorldInv
  <2> QED BY <2>2, <2>3, <2>4
<1>4. Grown
  BY <1>2, UnchangedGrown DEF IInv
<1>5. DraftInv'
  BY <1>2 DEF IInv, DraftInv
<1> QED BY <1>2, <1>3, <1>4, <1>5, SessionsKept, ConfirmedKept, LedgerUnchanged DEF IInv

\* Cancelling what is pending leaves what was dispatched.
LEMMA Cancelled ==
  ASSUME DraftInv, confirmed' = CancelPending(confirmed)
  PROVE  /\ confirmed' \in Seq(Confirmed) /\ DOMAIN confirmed' = DOMAIN confirmed
         /\ \A i \in DOMAIN confirmed :
              /\ confirmed'[i].rev = confirmed[i].rev /\ confirmed'[i].snap = confirmed[i].snap
              /\ confirmed'[i].urgent = confirmed[i].urgent
              /\ confirmed'[i].status = "dispatched" <=> confirmed[i].status = "dispatched"
<1>1. /\ DOMAIN confirmed = 1..Len(confirmed) /\ Len(confirmed) \in Nat
      /\ \A i \in DOMAIN confirmed : confirmed[i] \in Confirmed
  BY DEF DraftInv
<1>2. \A i \in DOMAIN confirmed : /\ confirmed'[i] \in Confirmed
                                  /\ confirmed'[i].rev = confirmed[i].rev /\ confirmed'[i].snap = confirmed[i].snap
                                  /\ confirmed'[i].urgent = confirmed[i].urgent
                                  /\ confirmed'[i].status = "dispatched" <=> confirmed[i].status = "dispatched"
  BY <1>1 DEF CancelPending, Confirmed
<1>3. confirmed' = [i \in 1..Len(confirmed) |-> confirmed'[i]]
  BY <1>1 DEF CancelPending
<1>4. confirmed' \in Seq(Confirmed)
  BY <1>1, <1>2, <1>3, IsASeq
<1>5. DOMAIN confirmed' = DOMAIN confirmed
  BY DEF CancelPending
<1> QED BY <1>2, <1>4, <1>5

LEMMA UpdateDraftInv ==
  ASSUME IInv, NEW a, NEW targets \in Audiences, UpdateDraft(a, targets)
  PROVE  IInv'
<1>1. /\ Revision < MaxRevision /\ revisions' = Append(revisions, targets)
      /\ confirmed' = CancelPending(confirmed)
      /\ UNCHANGED <<subject, muted, admins, disturbances, session, event, receipt, release,
                     publication, run, accepted>>
  BY DEF UpdateDraft, outside, environment, publishing
<1>2. DraftInv /\ revisions \in Seq(Audiences)
  BY DEF IInv, DraftInv
<1>3. /\ revisions' \in Seq(Audiences) /\ Len(revisions') = Len(revisions) + 1
      /\ \A k \in 1..Len(revisions) : revisions'[k] = revisions[k]
  BY <1>1, <1>2, AppendProperties
<1>4. Grown
  BY <1>1, <1>2, <1>3, Revisions, Cancelled DEF Grown, Revision
<1>5. DraftInv'
  <2>1. Len(revisions') \in 1..MaxRevision
    BY <1>1, <1>2, <1>3, Revisions DEF Revision
  <2>2. \A i \in DOMAIN confirmed' :
          /\ Drawn(confirmed'[i].rev, confirmed'[i].snap, revisions')
          /\ confirmed'[i].status = "dispatched" => confirmed'[i].snap \subseteq revisions'[confirmed'[i].rev]
    <3> SUFFICES ASSUME NEW i \in DOMAIN confirmed
                 PROVE  /\ Drawn(confirmed'[i].rev, confirmed'[i].snap, revisions')
                        /\ confirmed'[i].status = "dispatched" =>
                             confirmed'[i].snap \subseteq revisions'[confirmed'[i].rev]
      BY <1>1, <1>2, Cancelled
    <3>1. Drawn(confirmed[i].rev, confirmed[i].snap, revisions)
      BY <1>2 DEF DraftInv
    <3>2. Drawn(confirmed[i].rev, confirmed[i].snap, revisions')
      BY <1>2, <1>4, <3>1, DrawnKept
    <3>3. revisions'[confirmed[i].rev] = revisions[confirmed[i].rev]
      BY <1>3, <3>1 DEF Drawn
    <3> QED BY <1>1, <1>2, <3>2, <3>3, Cancelled DEF DraftInv
  <2> QED BY <1>1, <1>2, <1>3, <2>1, <2>2, Cancelled DEF DraftInv
<1>6. WorldInv'
  BY <1>1 DEF IInv, WorldInv
<1> QED BY <1>1, <1>4, <1>5, <1>6, SessionsKept, ConfirmedKept, LedgerUnchanged DEF IInv

----------------------------------------------------------------------------
(***************************************************************************)
(* Confirmations and dispatches.                                           *)
(***************************************************************************)

\* A step that changes what one request remembers, and nothing else of the
\* rows, except for the count of disturbances.
LEMMA SessionStep ==
  ASSUME IInv, NEW s \in Sessions, NEW x, SessionOK(x, revisions, confirmed, event),
         session' = [session EXCEPT ![s] = x], disturbances' \in 0..MaxDisturbances,
         UNCHANGED <<subject, muted, admins, revisions, confirmed, event, receipt, release,
                     publication, run, accepted>>
  PROVE  IInv'
<1>1. Grown
  BY UnchangedGrown DEF IInv
<1>2. WorldInv' /\ DraftInv'
  BY DEF IInv, WorldInv, DraftInv
<1>3. SessionInv'
  BY <1>1, SessionsKept
<1> QED BY <1>1, <1>2, <1>3, ConfirmedKept, LedgerUnchanged DEF IInv

LEMMA ReadInv ==
  ASSUME IInv, NEW s \in Sessions, ConfirmRead(s) \/ CancelRead(s)
  PROVE  IInv'
<1>1. UNCHANGED <<subject, muted, admins, revisions, confirmed, event, receipt, release,
                  publication, run, accepted>> /\ disturbances' \in 0..MaxDisturbances
  BY DEF ConfirmRead, CancelRead, outside, environment, publishing, IInv, WorldInv
<1>2. CASE ConfirmRead(s)
  <2> DEFINE x == [pc |-> "draft", rev |-> Revision]
  <2>1. SessionOK(x, revisions, confirmed, event)
    BY Revisions DEF SessionOK, IInv, Revision
  <2>2. session' = [session EXCEPT ![s] = x]
    BY <1>2 DEF ConfirmRead
  <2> HIDE DEF x
  <2> QED BY <1>1, <2>1, <2>2, SessionStep
<1>3. CASE CancelRead(s)
  <2> DEFINE x == [pc |-> "cancelling", rev |-> Last(confirmed).rev,
                   dispatched |-> Last(confirmed).status = "dispatched"]
  <2>1. confirmed # << >> /\ confirmed \in Seq(Confirmed)
    BY <1>3 DEF CancelRead, IInv, DraftInv
  <2>2. Len(confirmed) \in DOMAIN confirmed /\ Last(confirmed) = confirmed[Len(confirmed)]
    BY <2>1, EmptySeq DEF Last
  <2>3. Last(confirmed).rev \in 1..Len(revisions)
    BY <2>2 DEF IInv, DraftInv, Drawn
  <2>4. SessionOK(x, revisions, confirmed, event)
    BY <2>3 DEF SessionOK
  <2>5. session' = [session EXCEPT ![s] = x]
    BY <1>3 DEF CancelRead
  <2> HIDE DEF x
  <2> QED BY <1>1, <2>4, <2>5, SessionStep
<1> QED BY <1>2, <1>3

\* The snapshot is of the draft as it is now, which is of the revision read
\* before or of a later one.
LEMMA ConfirmSnapshotInv == ASSUME IInv, NEW s \in Sessions, ConfirmSnapshot(s) PROVE IInv'
<1> DEFINE snap == {t \in revisions[Revision] : Eligible(t, "announcement")}
           x == IF snap = {} THEN Idle ELSE [pc |-> "snapshot", rev |-> session[s].rev, snap |-> snap]
<1>1. UNCHANGED <<subject, muted, admins, revisions, confirmed, event, receipt, release,
                  publication, run, accepted>> /\ disturbances' \in 0..MaxDisturbances
  BY DEF ConfirmSnapshot, outside, environment, publishing, IInv, WorldInv
<1>2. session[s].pc = "draft" /\ session' = [session EXCEPT ![s] = x]
  BY DEF ConfirmSnapshot
<1>3. session[s].rev \in 1..Len(revisions)
  BY <1>2 DEF IInv, SessionInv, SessionOK, Idle, Dispatching
<1>4. snap \subseteq revisions[Revision] /\ snap \subseteq Targets
  BY Revisions DEF IInv
<1> HIDE DEF snap
<1>5. Drawn(session[s].rev, snap, revisions)
  BY <1>3, <1>4, Revisions DEF Drawn, IInv, Revision
<1>6. SessionOK(x, revisions, confirmed, event)
  BY <1>4, <1>5 DEF SessionOK
<1> HIDE DEF x
<1> QED BY <1>1, <1>2, <1>6, SessionStep

LEMMA ConfirmStoreInv ==
  ASSUME IInv, NEW s \in Sessions, NEW urgent \in BOOLEAN, ConfirmStore(s, urgent)
  PROVE  IInv'
<1> DEFINE c == [status |-> "pending", rev |-> session[s].rev, snap |-> session[s].snap,
                 actor |-> ActorOf[s], urgent |-> urgent, left |-> ConfirmationTtl]
<1>1. UNCHANGED <<subject, muted, admins, disturbances, revisions, event, receipt, release,
                  publication, run, accepted>>
  BY DEF ConfirmStore, outside, environment, publishing
<1>2. session[s].pc = "snapshot" /\ session' = [session EXCEPT ![s] = Idle]
      /\ (confirmed' = confirmed \/ confirmed' = Append(confirmed, c))
  BY DEF ConfirmStore
<1>3. session[s].snap \subseteq Targets /\ Drawn(session[s].rev, session[s].snap, revisions)
  BY <1>2 DEF IInv, SessionInv, SessionOK, Idle, Dispatching
<1>4. DraftInv /\ confirmed \in Seq(Confirmed)
  BY DEF IInv, DraftInv
<1>5. DraftInv' /\ Grown
  <2>1. CASE confirmed' = confirmed
    BY <1>1, <1>4, <2>1, UnchangedGrown DEF DraftInv
  <2>2. CASE confirmed' = Append(confirmed, c)
    <3>1. c \in Confirmed
      <4>1. ActorOf[s] \in Range(ActorOf)
        BY NoticeAssumption DEF Range
      <4>2. ConfirmationTtl \in Nat /\ session[s].rev \in Nat
        BY <1>3, NoticeAssumption DEF Drawn
      <4> QED BY <1>3, <4>1, <4>2 DEF Confirmed
    <3>2. c.status = "pending" /\ Drawn(c.rev, c.snap, revisions)
      BY <1>3
    <3> HIDE DEF c
    <3>3. /\ confirmed' \in Seq(Confirmed) /\ confirmed'[Len(confirmed) + 1] = c
          /\ DOMAIN confirmed' = DOMAIN confirmed \cup {Len(confirmed) + 1}
          /\ \A i \in DOMAIN confirmed : confirmed'[i] = confirmed[i]
      BY <1>4, <2>2, <3>1, AppendProperties
    <3>4. DraftInv'
      BY <1>1, <1>4, <3>2, <3>3 DEF DraftInv
    <3>5. Grown
      BY <1>1, <1>4, <3>3, Revisions DEF Grown, Revision
    <3> QED BY <3>4, <3>5
  <2> QED BY <1>2, <2>1, <2>2
<1>6. SessionInv'
  BY <1>2, <1>5, SessionsKept DEF SessionOK
<1>7. WorldInv'
  BY <1>1 DEF IInv, WorldInv
<1> QED BY <1>1, <1>5, <1>6, <1>7, ConfirmedKept, LedgerUnchanged DEF IInv

\* What is consumed is of the present revision: its snapshot was drawn from it.
LEMMA ConsumeInv ==
  ASSUME IInv, NEW s \in Sessions, NEW i \in DOMAIN confirmed, Consume(s, i)
  PROVE  IInv'
<1> DEFINE c == [confirmed[i] EXCEPT !.status = "dispatched"]
           x == [pc |-> "consumed", rev |-> confirmed[i].rev, todo |-> confirmed[i].snap,
                 bypass |-> confirmed[i].urgent]
<1>1. UNCHANGED <<subject, muted, admins, disturbances, revisions, event, receipt, release,
                  publication, run, accepted>>
  BY DEF Consume, outside, environment, publishing
<1>2. /\ confirmed' = [confirmed EXCEPT ![i] = c] /\ session' = [session EXCEPT ![s] = x]
      /\ confirmed[i].rev = Revision /\ confirmed[i].status = "pending"
  BY DEF Consume, Usable
<1>3. DraftInv /\ confirmed \in Seq(Confirmed) /\ confirmed[i] \in Confirmed
      /\ DOMAIN confirmed = 1..Len(confirmed)
  BY DEF IInv, DraftInv
<1>4. confirmed[i].snap \subseteq revisions[confirmed[i].rev]
  <2>1. PICK k \in Revision..Len(revisions) : confirmed[i].snap \subseteq revisions[k]
    BY <1>2, <1>3 DEF DraftInv, Drawn
  <2>2. k = Revision
    BY <1>3, <2>1, Revisions DEF Revision
  <2> QED BY <1>2, <2>1, <2>2
<1>5. /\ c \in Confirmed /\ c.rev = confirmed[i].rev /\ c.snap = confirmed[i].snap
      /\ c.urgent = confirmed[i].urgent /\ c.status = "dispatched"
  BY <1>3 DEF Confirmed
<1>6. /\ x \in Dispatching /\ x.pc = "consumed" /\ x.rev = confirmed[i].rev
      /\ x.todo = confirmed[i].snap /\ x.bypass = confirmed[i].urgent
  BY <1>3 DEF Confirmed, Dispatching
<1> HIDE DEF c, x
<1>7. /\ confirmed' \in Seq(Confirmed) /\ DOMAIN confirmed' = DOMAIN confirmed
      /\ \A j \in DOMAIN confirmed : confirmed'[j] = IF j = i THEN c ELSE confirmed[j]
  BY <1>2, <1>3, <1>5, ExceptSeq
<1>8. DraftInv'
  BY <1>1, <1>3, <1>4, <1>5, <1>7 DEF DraftInv
<1>9. Grown
  BY <1>1, <1>2, <1>3, <1>7, Revisions DEF Grown, Revision
<1>10. SessionOK(x, revisions', confirmed', event')
  <2>1. x.rev \in 1..Len(revisions')
    BY <1>1, <1>3, <1>6 DEF DraftInv, Drawn
  <2>2. Behind(x.rev, x.todo, x.bypass, confirmed')
    BY <1>5, <1>6, <1>7 DEF Behind
  <2> QED BY <1>6, <2>1, <2>2 DEF SessionOK
<1>11. SessionInv'
  BY <1>2, <1>9, <1>10, SessionsKept
<1>12. WorldInv'
  BY <1>1 DEF IInv, WorldInv
<1> QED BY <1>1, <1>8, <1>9, <1>11, <1>12, ConfirmedKept, LedgerUnchanged DEF IInv

\* What a request at its dispatch is about.
LEMMA AtDispatch ==
  ASSUME IInv, NEW s \in Sessions, session[s].pc \in {"consumed", "queueing"}
  PROVE  /\ session[s] \in Dispatching /\ session[s].rev \in 1..Len(revisions)
         /\ session[s].rev \in Events \ {Release}
         /\ Behind(session[s].rev, session[s].todo, session[s].bypass, confirmed)
         /\ session[s].pc = "queueing" => event[session[s].rev].known
<1>1. SessionOK(session[s], revisions, confirmed, event)
  BY DEF IInv, SessionInv
<1>2. \A k \in 1..Len(revisions) : k \in Events \ {Release}
  BY Revisions DEF IInv, Revision, Release
<1> QED BY <1>1, <1>2 DEF SessionOK, Idle

\* An event that is made known, or was.
LEMMA EnsureKept ==
  ASSUME IInv, NEW e \in Events, NEW bypass \in BOOLEAN, EnsureEvent(e, bypass)
  PROVE  /\ event' \in [Events -> EventRow] /\ event'[e].known
         /\ \A d \in Events \ {e} : event'[d] = event[d]
         /\ \A d \in Events : event[d].known => event'[d].known
         /\ event'[e].bypass => event[e].bypass \/ bypass
<1> DEFINE row == IF event[e].known THEN event[e] ELSE [known |-> TRUE, bypass |-> bypass, left |-> BodyTtl]
<1>1. event \in [Events -> EventRow] /\ BodyTtl \in Nat
  BY NoticeAssumption DEF IInv, LedgerInv
<1>2. event[e] \in EventRow
  BY <1>1
<1>3. row \in EventRow /\ row.known /\ (row.bypass => event[e].bypass \/ bypass)
  BY <1>1, <1>2 DEF EventRow
<1>4. event' = [event EXCEPT ![e] = row]
  BY DEF EnsureEvent
<1> HIDE DEF row
<1> QED BY <1>1, <1>3, <1>4

LEMMA DispatchEventInv == ASSUME IInv, NEW s \in Sessions, DispatchEvent(s) PROVE IInv'
<1> DEFINE x == [session[s] EXCEPT !.pc = "queueing"]
           e == session[s].rev
<1>1. UNCHANGED <<subject, muted, admins, disturbances, revisions, confirmed, receipt, release,
                  publication, run, accepted>>
  BY DEF DispatchEvent, outside, environment, publishing
<1>2. /\ session[s].pc = "consumed" /\ EnsureEvent(e, session[s].bypass)
      /\ session' = [session EXCEPT ![s] = x]
  BY DEF DispatchEvent
<1>3. /\ session[s] \in Dispatching /\ e \in 1..Len(revisions) /\ e \in Events \ {Release}
      /\ Behind(e, session[s].todo, session[s].bypass, confirmed)
  BY <1>2, AtDispatch
<1>4. /\ x \in Dispatching /\ x.rev = e /\ x.todo = session[s].todo /\ x.bypass = session[s].bypass
      /\ session[s].bypass \in BOOLEAN
  BY <1>3 DEF Dispatching
<1> HIDE DEF x
<1>5. /\ event' \in [Events -> EventRow] /\ event'[e].known
      /\ \A d \in Events \ {e} : event'[d] = event[d]
      /\ \A d \in Events : event[d].known => event'[d].known
      /\ event'[e].bypass => event[e].bypass \/ session[s].bypass
  BY <1>2, <1>3, <1>4, EnsureKept
<1>6. Grown
  BY <1>1, <1>5, Revisions DEF Grown, IInv, Revision
<1>7. SessionOK(x, revisions', confirmed', event')
  BY <1>1, <1>3, <1>4, <1>5 DEF SessionOK
<1>8. SessionInv'
  BY <1>2, <1>6, <1>7, SessionsKept
<1>9. WorldInv' /\ DraftInv' /\ RunInv'
  BY <1>1 DEF IInv, WorldInv, DraftInv, RunInv, Item1
<1>10. LedgerInv' /\ ReleaseInv'
  <2>1. LedgerInv'
    BY <1>1, <1>5 DEF IInv, LedgerInv, ReceiptOK
  <2>2. event'[Release].known = event[Release].known
    BY <1>3, <1>5, Revisions DEF IInv, Release, Events
  <2>3. ReleaseInv'
    BY <1>1, <2>2 DEF IInv, ReleaseInv, MarkerAfterReceipts
  <2> QED BY <2>1, <2>3
<1>11. ConfirmedInv'
  <2>1. session[s].bypass => Behind(e, {}, TRUE, confirmed)
    BY <1>3 DEF Behind
  <2>2. \A d \in Events \ {Release} : event'[d].bypass => Behind(d, {}, TRUE, confirmed)
    BY <1>5, <2>1 DEF IInv, ConfirmedInv
  <2> QED BY <1>1, <2>2 DEF IInv, ConfirmedInv
<1> QED BY <1>8, <1>9, <1>10, <1>11 DEF IInv

\* One receipt is overwritten: the ledger stays coherent, and so do the
\* listing of the release and the receipts of the page that is worked through.
LEMMA RecordedKept ==
  ASSUME IInv, NEW e \in Events, NEW t \in Targets, NEW outcome \in Outcomes,
         NEW attempts \in 0..MaxAttempts, Recorded(e, t, outcome, attempts),
         ReceiptOK(e, t, [status |-> outcome, attempts |-> attempts, age |-> 0], event[e].known, accepted),
         UNCHANGED <<event, accepted>>
  PROVE  /\ LedgerInv'
         /\ receipt'[e][t].status = outcome /\ outcome # "NONE"
         /\ \A d \in Events, u \in Targets : <<d, u>> # <<e, t>> => receipt'[d][u] = receipt[d][u]
<1> DEFINE r == [status |-> outcome, attempts |-> attempts, age |-> 0]
<1>1. /\ receipt \in [Events -> [Targets -> Receipt]]
      /\ r \in Receipt /\ r.status = outcome /\ outcome # "NONE"
      /\ receipt' = [receipt EXCEPT ![e][t] = r]
  BY NoticeAssumption DEF IInv, LedgerInv, Receipt, Recorded, Outcomes, Open, Ended
<1>2. ReceiptOK(e, t, r, event[e].known, accepted)
  OBVIOUS
<1> HIDE DEF r
<1>3. /\ receipt' \in [Events -> [Targets -> Receipt]] /\ receipt'[e][t] = r
      /\ \A d \in Events, u \in Targets : <<d, u>> # <<e, t>> => receipt'[d][u] = receipt[d][u]
  BY <1>1
<1>4. \A d \in Events, u \in Targets : ReceiptOK(d, u, receipt'[d][u], event[d].known, accepted)
  <2> SUFFICES ASSUME NEW d \in Events, NEW u \in Targets
               PROVE  ReceiptOK(d, u, receipt'[d][u], event[d].known, accepted)
    OBVIOUS
  <2>1. CASE d = e /\ u = t
    BY <1>2, <1>3, <2>1
  <2>2. CASE <<d, u>> # <<e, t>>
    BY <1>3, <2>2 DEF IInv, LedgerInv
  <2> QED BY <2>1, <2>2
<1>5. LedgerInv'
  BY <1>3, <1>4 DEF IInv, LedgerInv
<1> QED BY <1>1, <1>3, <1>5

\* A run's page stays in order as long as no receipt in it is recorded as
\* delivered: only the run itself does that.
LEMMA RunKept ==
  ASSUME IInv, UNCHANGED <<run, accepted>>,
         \A e \in Events, t \in Targets :
           receipt[e][t].status \notin {"NONE", "DELIVERED"}
             => receipt'[e][t].status \notin {"NONE", "DELIVERED"}
  PROVE  RunInv'
<1>1. RunInv /\ run.page \in Seq(Row)
  BY DEF IInv, RunInv
<1>2. \A i \in DOMAIN run.page : run.page[i].event \in Events /\ run.page[i].target \in Targets
  <2> SUFFICES ASSUME NEW i \in DOMAIN run.page
               PROVE  run.page[i].event \in Events /\ run.page[i].target \in Targets
    OBVIOUS
  <2>1. run.page[i] \in Row
    BY <1>1
  <2> QED BY <2>1 DEF Row
<1>3. \A i \in DOMAIN run.page :
        receipt'[run.page[i].event][run.page[i].target].status \notin {"NONE", "DELIVERED"}
  <2> SUFFICES ASSUME NEW i \in DOMAIN run.page
               PROVE  receipt'[run.page[i].event][run.page[i].target].status \notin {"NONE", "DELIVERED"}
    OBVIOUS
  <2>1. receipt[run.page[i].event][run.page[i].target].status \notin {"NONE", "DELIVERED"}
    BY <1>1 DEF RunInv
  <2> QED BY <1>2, <2>1
<1> QED BY <1>1, <1>3 DEF RunInv, Item1

LEMMA DispatchRecordInv ==
  ASSUME IInv, NEW s \in Sessions, NEW t \in Targets, DispatchRecord(s, t)
  PROVE  IInv'
<1> DEFINE e == session[s].rev
           x == IF session[s].todo = {t} THEN Idle
                ELSE [session[s] EXCEPT !.todo = session[s].todo \ {t}]
<1>1. UNCHANGED <<subject, muted, admins, disturbances, revisions, confirmed, event, release,
                  publication, run, accepted>>
  BY DEF DispatchRecord, outside, environment, publishing
<1>2. /\ session[s].pc = "queueing" /\ t \in session[s].todo
      /\ Recorded(e, t, "PENDING", 0) /\ session' = [session EXCEPT ![s] = x]
  <2>1. /\ session[s].pc = "queueing" /\ t \in session[s].todo
        /\ Recorded(e, t, "PENDING", 0)
    BY DEF DispatchRecord
  <2>2. session' = [session EXCEPT ![s] = x]
    BY DEF DispatchRecord
  <2> QED BY <2>1, <2>2
<1>3. /\ session[s] \in Dispatching /\ e \in 1..Len(revisions) /\ e \in Events \ {Release}
      /\ Behind(e, session[s].todo, session[s].bypass, confirmed) /\ event[e].known
  BY <1>2, AtDispatch
<1>4. Grown
  BY <1>1, UnchangedGrown DEF IInv
<1>5. SessionOK(x, revisions', confirmed', event')
  <2>1. CASE session[s].todo = {t}
    BY <2>1 DEF SessionOK
  <2>2. CASE session[s].todo # {t}
    <3>1. /\ x \in Dispatching /\ x.pc = "queueing" /\ x.rev = e
          /\ x.todo \subseteq session[s].todo /\ x.bypass = session[s].bypass
      BY <1>2, <1>3, <2>2 DEF Dispatching
    <3> HIDE DEF x
    <3>2. Behind(x.rev, x.todo, x.bypass, confirmed)
      BY <1>3, <3>1 DEF Behind
    <3> QED BY <1>1, <1>3, <3>1, <3>2 DEF SessionOK
  <2> QED BY <2>1, <2>2
<1> HIDE DEF x
<1>6. SessionInv'
  BY <1>2, <1>4, <1>5, SessionsKept
<1>7. /\ LedgerInv'
      /\ receipt'[e][t].status = "PENDING"
      /\ \A d \in Events, u \in Targets : <<d, u>> # <<e, t>> => receipt'[d][u] = receipt[d][u]
  <2>1. ReceiptOK(e, t, [status |-> "PENDING", attempts |-> 0, age |-> 0], event[e].known, accepted)
    BY <1>3 DEF ReceiptOK
  <2>2. "PENDING" \in Outcomes /\ 0 \in 0..MaxAttempts
    BY NoticeAssumption DEF Outcomes, Open
  <2> QED BY <1>1, <1>2, <1>3, <2>1, <2>2, RecordedKept
<1>8. ConfirmedInv'
  <2>1. Behind(e, {t}, FALSE, confirmed)
    BY <1>2, <1>3 DEF Behind
  <2> QED BY <1>1, <1>7, <2>1 DEF IInv, ConfirmedInv
<1>9. ReleaseInv'
  <2>1. Release \in Events /\ Groups \subseteq Targets
    BY NoticeAssumption DEF Release, Events, Targets
  <2>2. \A g \in Groups : receipt'[Release][g] = receipt[Release][g]
    BY <1>3, <1>7, <2>1
  <2> QED BY <1>1, <2>2 DEF IInv, ReleaseInv, MarkerAfterReceipts
<1>10. RunInv'
  <2>1. \A d \in Events, u \in Targets :
          receipt'[d][u] = receipt[d][u] \/ receipt'[d][u].status = "PENDING"
    BY <1>7
  <2> QED BY <1>1, <2>1, RunKept
<1>11. WorldInv' /\ DraftInv'
  BY <1>1 DEF IInv, WorldInv, DraftInv
<1> QED BY <1>6, <1>7, <1>8, <1>9, <1>10, <1>11 DEF IInv

LEMMA DispatchAbortInv ==
  ASSUME IInv, NEW s \in Sessions, NEW t \in Targets, DispatchAbort(s, t)
  PROVE  IInv'
<1>1. UNCHANGED <<subject, muted, admins, revisions, confirmed, event, receipt, release,
                  publication, run, accepted>> /\ disturbances' \in 0..MaxDisturbances
  BY DEF DispatchAbort, outside, environment, publishing, IInv, WorldInv
<1>2. session' = [session EXCEPT ![s] = Idle] /\ SessionOK(Idle, revisions, confirmed, event)
  BY DEF DispatchAbort, SessionOK
<1> QED BY <1>1, <1>2, SessionStep

LEMMA SessionLostInv == ASSUME IInv, NEW s \in Sessions, SessionLost(s) PROVE IInv'
<1>1. UNCHANGED <<subject, muted, admins, revisions, confirmed, event, receipt, release,
                  publication, run, accepted>> /\ disturbances' \in 0..MaxDisturbances
  BY DisturbedInv DEF SessionLost, environment, publishing
<1>2. session' = [session EXCEPT ![s] = Idle] /\ SessionOK(Idle, revisions, confirmed, event)
  BY DEF SessionLost, SessionOK
<1> QED BY <1>1, <1>2, SessionStep

LEMMA CancelStoreInv == ASSUME IInv, NEW s \in Sessions, CancelStore(s) PROVE IInv'
<1> DEFINE x == IF ActorOf[s] \in admins /\ session[s].dispatched
                THEN [pc |-> "dismissing", rev |-> session[s].rev] ELSE Idle
<1>1. UNCHANGED <<subject, muted, admins, disturbances, revisions, event, receipt, release,
                  publication, run, accepted>>
  BY DEF CancelStore, outside, environment, publishing
<1>2. /\ session[s].pc = "cancelling" /\ session' = [session EXCEPT ![s] = x]
      /\ confirmed' = confirmed \/ confirmed' = CancelPending(confirmed)
  BY DEF CancelStore
<1>3. DraftInv
  BY DEF IInv
<1>4. session[s].rev \in 1..Len(revisions)
  BY <1>2 DEF IInv, SessionInv, SessionOK, Idle, Dispatching
<1>5. SessionOK(x, revisions', confirmed', event')
  BY <1>1, <1>4 DEF SessionOK
<1> HIDE DEF x
<1>6. DraftInv' /\ Grown
  <2>1. CASE confirmed' = confirmed
    BY <1>1, <1>3, <2>1, UnchangedGrown DEF DraftInv
  <2>2. CASE confirmed' = CancelPending(confirmed)
    <3>1. DraftInv'
      BY <1>1, <1>3, <2>2, Cancelled DEF DraftInv
    <3>2. Grown
      BY <1>1, <1>3, <2>2, Cancelled, Revisions DEF Grown, Revision
    <3> QED BY <3>1, <3>2
  <2> QED BY <1>2, <2>1, <2>2
<1>7. SessionInv'
  BY <1>2, <1>5, <1>6, SessionsKept
<1>8. WorldInv'
  BY <1>1 DEF IInv, WorldInv
<1> QED BY <1>1, <1>6, <1>7, <1>8, ConfirmedKept, LedgerUnchanged DEF IInv

LEMMA DismissInv == ASSUME IInv, NEW s \in Sessions, Dismiss(s) PROVE IInv'
<1> DEFINE e == session[s].rev
           row(t) == IF receipt[e][t].status \in Open
                     THEN [receipt[e][t] EXCEPT !.status = "DISMISSED", !.age = 0] ELSE receipt[e][t]
<1>1. UNCHANGED <<subject, muted, admins, disturbances, revisions, confirmed, event, release,
                  publication, run, accepted>>
  BY DEF Dismiss, outside, environment, publishing
<1>2. session[s].pc = "dismissing" /\ session' = [session EXCEPT ![s] = Idle]
      /\ receipt' = [receipt EXCEPT ![e] = [t \in Targets |-> row(t)]]
  BY DEF Dismiss
<1>3. e \in 1..Len(revisions)
  <2>1. session[s].pc = "dismissing"
    BY <1>2
  <2>2. SessionOK(session[s], revisions, confirmed, event)
    BY DEF IInv, SessionInv
  <2> QED BY <2>1, <2>2 DEF SessionOK, Idle, Dispatching
<1>4. e \in Events
  BY <1>3, Revisions DEF IInv, Revision
<1>5. receipt \in [Events -> [Targets -> Receipt]]
  BY DEF IInv, LedgerInv
<1>6. \A t \in Targets : /\ row(t) \in Receipt
                         /\ row(t) = receipt[e][t] \/ (receipt[e][t].status # "NONE" /\ row(t).status = "DISMISSED")
  <2> SUFFICES ASSUME NEW t \in Targets
               PROVE  /\ row(t) \in Receipt
                      /\ row(t) = receipt[e][t] \/ (receipt[e][t].status # "NONE" /\ row(t).status = "DISMISSED")
    OBVIOUS
  <2>1. receipt[e][t] \in Receipt
    BY <1>4, <1>5
  <2>2. 0 \in 0..MaxBackoff
    BY NoticeAssumption
  <2>3. receipt[e][t].status \in Open => receipt[e][t].status # "NONE"
    BY DEF Open
  <2> QED BY <2>1, <2>2, <2>3 DEF Receipt, Outcomes, Ended
<1> HIDE DEF row
<1>7. /\ receipt' \in [Events -> [Targets -> Receipt]]
      /\ \A d \in Events, t \in Targets :
           receipt'[d][t] = receipt[d][t]
             \/ (d = e /\ receipt[d][t].status # "NONE" /\ receipt'[d][t].status = "DISMISSED")
  <2>1. receipt'[e] = [t \in Targets |-> row(t)] /\ \A d \in Events \ {e} : receipt'[d] = receipt[d]
    BY <1>2, <1>4, <1>5
  <2>2. receipt'[e] \in [Targets -> Receipt]
    BY <1>6, <2>1
  <2>3. receipt' \in [Events -> [Targets -> Receipt]]
    BY <1>2, <1>4, <1>5, <2>1, <2>2
  <2>4. \A t \in Targets : receipt'[e][t] = row(t)
    BY <2>1
  <2> QED BY <1>6, <2>1, <2>3, <2>4
<1>8. \A d \in Events, t \in Targets :
        receipt'[d][t] = receipt[d][t] \/ (receipt[d][t].status # "NONE" /\ receipt'[d][t].status = "DISMISSED")
  BY <1>7
<1>9. LedgerInv'
  <2> SUFFICES ASSUME NEW d \in Events, NEW t \in Targets
               PROVE  ReceiptOK(d, t, receipt'[d][t], event[d].known, accepted)
    BY <1>1, <1>7 DEF IInv, LedgerInv
  <2>1. ReceiptOK(d, t, receipt[d][t], event[d].known, accepted)
    BY DEF IInv, LedgerInv
  <2>2. CASE receipt'[d][t] = receipt[d][t]
    BY <2>1, <2>2
  <2>3. CASE receipt[d][t].status # "NONE" /\ receipt'[d][t].status = "DISMISSED"
    BY <2>1, <2>3 DEF ReceiptOK
  <2> QED BY <1>8, <2>2, <2>3
<1>10. ConfirmedInv'
  BY <1>1, <1>8 DEF IInv, ConfirmedInv
<1>11. ReleaseInv'
  <2>1. Release \in Events /\ Groups \subseteq Targets
    BY NoticeAssumption DEF Release, Events, Targets
  <2>2. \A g \in Groups : receipt[Release][g].status # "NONE" => receipt'[Release][g].status # "NONE"
    BY <1>8, <2>1
  <2> QED BY <1>1, <2>2 DEF IInv, ReleaseInv, MarkerAfterReceipts
<1>12. RunInv'
  BY <1>1, <1>8, RunKept
<1>13. WorldInv' /\ DraftInv' /\ SessionInv'
  BY <1>1, <1>2, UnchangedGrown, SessionsKept DEF IInv, WorldInv, DraftInv, SessionOK
<1> QED BY <1>9, <1>10, <1>11, <1>12, <1>13 DEF IInv

----------------------------------------------------------------------------
(***************************************************************************)
(* Release notes.                                                          *)
(***************************************************************************)

\* A step of the publication leaves drafts and requests alone.
LEMMA PublishingKeeps ==
  ASSUME IInv, UNCHANGED <<outside, announcing, accepted>>, Grown
  PROVE  WorldInv' /\ DraftInv' /\ SessionInv'
<1>1. UNCHANGED <<subject, muted, admins, disturbances, revisions, confirmed, session>>
  BY DEF outside, environment, announcing
<1> QED BY <1>1, SessionsKept DEF IInv, WorldInv, DraftInv

LEMMA AnnouncingGrown ==
  ASSUME IInv, UNCHANGED <<announcing, event>>
  PROVE  Grown
BY UnchangedGrown DEF announcing, IInv

LEMMA PublishStartInv == ASSUME IInv, PublishStart PROVE IInv'
<1>1. UNCHANGED <<outside, announcing, event, receipt, run, accepted>>
  BY DEF PublishStart
<1>2. WorldInv' /\ DraftInv' /\ SessionInv' /\ Grown
  BY <1>1, PublishingKeeps, AnnouncingGrown
<1>3. LedgerInv' /\ RunInv'
  BY <1>1 DEF IInv, LedgerInv, RunInv, Item1
<1>4. ConfirmedInv'
  BY <1>1, <1>2, ConfirmedKept
<1>5. ReleaseInv'
  <2>1. ReleaseInv
    BY DEF IInv
  <2>2. /\ publication.pc = "idle" /\ release.marker # "current"
        /\ release.listed \subseteq Groups
        /\ release \in [marker : {"none", "last", "current"}, notes : BOOLEAN, listed : SUBSET Groups]
    BY <2>1 DEF PublishStart, ReleaseInv
  <2>3. CASE release.marker = "none" \/ ~release.notes
    <3>1. release' = [release EXCEPT !.marker = "current"] /\ publication' = publication
      BY <2>3 DEF PublishStart
    <3>2. release.listed = {}
      BY <2>1, <2>3 DEF ReleaseInv
    <3>3. /\ release' \in [marker : {"none", "last", "current"}, notes : BOOLEAN, listed : SUBSET Groups]
          /\ release'.listed = {}
      BY <2>2, <3>1, <3>2
    <3> QED BY <1>1, <2>1, <2>2, <3>1, <3>3 DEF ReleaseInv, MarkerAfterReceipts
  <2>4. CASE release.marker = "last" /\ release.notes
    <3>1. release' = release /\ publication' = [pc |-> "sealed", todo |-> {}]
      BY <2>4 DEF PublishStart
    <3> QED BY <1>1, <2>1, <2>4, <3>1 DEF ReleaseInv, MarkerAfterReceipts
  <2> QED BY <2>2, <2>3, <2>4
<1> QED BY <1>2, <1>3, <1>4, <1>5 DEF IInv

LEMMA PublishEventInv == ASSUME IInv, PublishEvent PROVE IInv'
<1>1. UNCHANGED <<outside, announcing, release, receipt, run, accepted>>
      /\ publication.pc = "sealed" /\ EnsureEvent(Release, FALSE)
      /\ publication' = [pc |-> "event", todo |-> {}]
  BY DEF PublishEvent
<1>2. Release \in Events
  BY NoticeAssumption DEF Release, Events
<1>3. /\ event' \in [Events -> EventRow] /\ event'[Release].known
      /\ \A d \in Events \ {Release} : event'[d] = event[d]
      /\ \A d \in Events : event[d].known => event'[d].known
  BY <1>1, <1>2, EnsureKept
<1>4. Grown
  BY <1>1, <1>3, Revisions DEF Grown, IInv, Revision, announcing
<1>5. WorldInv' /\ DraftInv' /\ SessionInv'
  BY <1>1, <1>4, PublishingKeeps
<1>6. LedgerInv'
  BY <1>1, <1>3 DEF IInv, LedgerInv, ReceiptOK
<1>7. ConfirmedInv'
  <2>1. confirmed' = confirmed
    BY <1>1 DEF announcing
  <2> QED BY <1>1, <1>3, <2>1 DEF IInv, ConfirmedInv
<1>8. ReleaseInv'
  BY <1>1, <1>3 DEF IInv, ReleaseInv, MarkerAfterReceipts
<1>9. RunInv'
  BY <1>1, RunKept
<1> QED BY <1>5, <1>6, <1>7, <1>8, <1>9 DEF IInv

LEMMA PublishListInv == ASSUME IInv, PublishList PROVE IInv'
<1>1. UNCHANGED <<outside, announcing, event, receipt, run, accepted>>
      /\ publication.pc = "event" /\ publication' = [pc |-> "recording", todo |-> Approved]
      /\ release' = [release EXCEPT !.listed = Approved]
  BY DEF PublishList
<1>2. WorldInv' /\ DraftInv' /\ SessionInv' /\ Grown
  BY <1>1, PublishingKeeps, AnnouncingGrown
<1>3. LedgerInv' /\ RunInv' /\ ConfirmedInv'
  BY <1>1, <1>2, ConfirmedKept DEF IInv, LedgerInv, RunInv, Item1
<1>4. Approved \subseteq Groups
  BY DEF Approved
<1>5. ReleaseInv'
  <2>1. ReleaseInv
    BY DEF IInv
  <2>2. /\ release' \in [marker : {"none", "last", "current"}, notes : BOOLEAN, listed : SUBSET Groups]
        /\ release'.listed = Approved /\ release'.notes /\ release'.marker = "last"
    BY <1>1, <1>4, <2>1 DEF ReleaseInv
  <2> QED BY <1>1, <1>4, <2>1, <2>2 DEF ReleaseInv, MarkerAfterReceipts
<1> QED BY <1>2, <1>3, <1>5 DEF IInv

LEMMA PublishRecordInv == ASSUME IInv, NEW g \in Groups, PublishRecord(g) PROVE IInv'
<1>1. UNCHANGED <<outside, announcing, event, release, run, accepted>>
      /\ publication.pc = "recording" /\ g \in publication.todo
      /\ Recorded(Release, g, "PENDING", 0)
      /\ publication' = [publication EXCEPT !.todo = publication.todo \ {g}]
  BY DEF PublishRecord
<1>2. WorldInv' /\ DraftInv' /\ SessionInv' /\ Grown
  BY <1>1, PublishingKeeps, AnnouncingGrown
<1>3. Release \in Events /\ g \in Targets /\ Groups \subseteq Targets
  BY NoticeAssumption DEF Release, Events, Targets
<1>4. ReleaseInv /\ event[Release].known
  BY <1>1 DEF IInv, ReleaseInv
<1>5. /\ LedgerInv'
      /\ receipt'[Release][g].status = "PENDING"
      /\ \A d \in Events, u \in Targets : <<d, u>> # <<Release, g>> => receipt'[d][u] = receipt[d][u]
  <2>1. ReceiptOK(Release, g, [status |-> "PENDING", attempts |-> 0, age |-> 0], event[Release].known, accepted)
    BY <1>4 DEF ReceiptOK
  <2>2. "PENDING" \in Outcomes /\ 0 \in 0..MaxAttempts
    BY NoticeAssumption DEF Outcomes, Open
  <2> QED BY <1>1, <1>3, <2>1, <2>2, RecordedKept
<1>6. ConfirmedInv'
  <2>1. confirmed' = confirmed
    BY <1>1 DEF announcing
  <2>2. \A d \in Events \ {Release}, u \in Targets : receipt'[d][u] = receipt[d][u]
    BY <1>5
  <2> QED BY <1>1, <2>1, <2>2 DEF IInv, ConfirmedInv
<1>7. ReleaseInv'
  <2>1. \A u \in Groups : receipt[Release][u].status # "NONE" \/ u = g => receipt'[Release][u].status # "NONE"
    BY <1>3, <1>5
  <2>2. /\ publication' \in [pc : {"idle", "sealed", "event", "recording"}, todo : SUBSET Groups]
        /\ publication'.pc = "recording" /\ publication'.todo = publication.todo \ {g}
    BY <1>1, <1>4 DEF ReleaseInv
  <2> QED BY <1>1, <1>4, <2>1, <2>2 DEF ReleaseInv, MarkerAfterReceipts
<1>8. RunInv'
  <2>1. \A d \in Events, u \in Targets :
          receipt'[d][u] = receipt[d][u] \/ receipt'[d][u].status = "PENDING"
    BY <1>5
  <2> QED BY <1>1, <2>1, RunKept
<1> QED BY <1>2, <1>5, <1>6, <1>7, <1>8 DEF IInv

\* The marker moves when nothing of the listing is left to record.
LEMMA PublishMarkInv == ASSUME IInv, PublishMark PROVE IInv'
<1>1. UNCHANGED <<outside, announcing, event, receipt, run, accepted>>
      /\ publication.pc = "recording" /\ publication.todo = {}
      /\ release' = [release EXCEPT !.marker = "current"] /\ publication' = NoPublication
  BY DEF PublishMark
<1>2. WorldInv' /\ DraftInv' /\ SessionInv' /\ Grown
  BY <1>1, PublishingKeeps, AnnouncingGrown
<1>3. LedgerInv' /\ RunInv' /\ ConfirmedInv'
  BY <1>1, <1>2, ConfirmedKept DEF IInv, LedgerInv, RunInv, Item1
<1>4. ReleaseInv'
  <2>1. ReleaseInv /\ \A g \in release.listed : receipt[Release][g].status # "NONE"
    BY <1>1 DEF IInv, ReleaseInv
  <2>2. /\ release' \in [marker : {"none", "last", "current"}, notes : BOOLEAN, listed : SUBSET Groups]
        /\ release'.listed = release.listed /\ release'.notes = release.notes
        /\ release'.marker = "current" /\ release.notes
    BY <1>1, <2>1 DEF ReleaseInv
  <2>3. publication'.pc = "idle" /\ publication'.todo = {}
    BY <1>1 DEF NoPublication
  <2>4. publication' \in [pc : {"idle", "sealed", "event", "recording"}, todo : SUBSET Groups]
    BY <1>1 DEF NoPublication
  <2> QED BY <1>1, <2>1, <2>2, <2>3, <2>4 DEF ReleaseInv, MarkerAfterReceipts
<1> QED BY <1>2, <1>3, <1>4 DEF IInv

----------------------------------------------------------------------------
(***************************************************************************)
(* Delivery.                                                               *)
(***************************************************************************)

\* A step of a delivery run that records nothing.
LEMMA RunStep ==
  ASSUME IInv, RunInv', accepted \subseteq accepted', accepted' \subseteq Events \X Targets,
         UNCHANGED <<outside, announcing, event, receipt, publishing>>
  PROVE  IInv'
<1>1. Grown
  BY AnnouncingGrown
<1>2. UNCHANGED <<subject, muted, admins, disturbances, revisions, confirmed, session, release, publication>>
  BY DEF outside, environment, announcing, publishing
<1>3. WorldInv' /\ DraftInv' /\ SessionInv'
  BY <1>1, <1>2, SessionsKept DEF IInv, WorldInv, DraftInv
<1>4. LedgerInv'
  BY <1>2 DEF IInv, LedgerInv, ReceiptOK
<1>5. ConfirmedInv'
  BY <1>1, ConfirmedKept
<1>6. ReleaseInv'
  BY <1>2 DEF IInv, ReleaseInv, MarkerAfterReceipts
<1> QED BY <1>3, <1>4, <1>5, <1>6 DEF IInv

LEMMA MinOfTwo ==
  ASSUME NEW m \in Nat, NEW n \in Nat
  PROVE  Min({m, n}) \in {m, n} /\ Min({m, n}) <= m /\ Min({m, n}) <= n
<1>1. \E k \in {m, n} : \A y \in {m, n} : k <= y
  OBVIOUS
<1> QED BY <1>1 DEF Min

LEMMA PendingFinite == IsFiniteSet(Pending) /\ Cardinality(Pending) \in Nat
<1>1. 0 \in Int /\ MaxRevision \in Int /\ IsFiniteSet(Targets)
  BY NoticeAssumption
<1>2. IsFiniteSet(Events)
  BY <1>1, FS_Interval DEF Events
<1>3. IsFiniteSet(Events \X Targets)
  BY <1>1, <1>2, FS_Product
<1>4. Pending \subseteq Events \X Targets
  BY DEF Pending
<1> QED BY <1>3, <1>4, FS_Subset, FS_CardinalityType

\* A page holds distinct receipts that are open.
LEMMA PageRows ==
  ASSUME IInv, Pending # {}, NEW q \in Pages
  PROVE  /\ Len([i \in DOMAIN q |-> Item(q[i])]) \in 1..PageLimit
         /\ [i \in DOMAIN q |-> Item(q[i])] \in Seq(Row)
         /\ DOMAIN [i \in DOMAIN q |-> Item(q[i])] = DOMAIN q
         /\ \A i \in DOMAIN q :
              /\ Item(q[i]).event = q[i][1] /\ Item(q[i]).target = q[i][2]
              /\ receipt[q[i][1]][q[i][2]].status \in Open
              /\ Item(q[i]).attempts < MaxAttempts
         /\ \A i, j \in DOMAIN q : q[i][1] = q[j][1] /\ q[i][2] = q[j][2] => i = j
<1> DEFINE n == Min({PageLimit, Cardinality(Pending)})
<1>1. Cardinality(Pending) \in Nat /\ Cardinality(Pending) # 0 /\ PageLimit \in Nat \ {0}
  BY PendingFinite, FS_EmptySet, NoticeAssumption
<1>2. n \in 1..PageLimit
  BY <1>1, MinOfTwo
<1>3. q \in [1..n -> Pending] /\ IsInjective(q)
  BY DEF Pages
<1> HIDE DEF n
<1>4. \A i \in 1..n : q[i] \in Pending
  BY <1>3
<1>5. \A p \in Pending : /\ p \in Events \X Targets /\ receipt[p[1]][p[2]].status \in Open
                         /\ Item(p) \in Row /\ Item(p).event = p[1] /\ Item(p).target = p[2]
                         /\ Item(p).attempts < MaxAttempts
  <2> SUFFICES ASSUME NEW p \in Pending
               PROVE  /\ p \in Events \X Targets /\ receipt[p[1]][p[2]].status \in Open
                      /\ Item(p) \in Row /\ Item(p).event = p[1] /\ Item(p).target = p[2]
                      /\ Item(p).attempts < MaxAttempts
    OBVIOUS
  <2>1. p \in Events \X Targets /\ receipt[p[1]][p[2]].status \in Open
    BY DEF Pending
  <2>2. p[1] \in Events /\ p[2] \in Targets
    BY <2>1
  <2>3. /\ receipt[p[1]][p[2]] \in Receipt
        /\ ReceiptOK(p[1], p[2], receipt[p[1]][p[2]], event[p[1]].known, accepted)
    BY <2>2 DEF IInv, LedgerInv
  <2>4. receipt[p[1]][p[2]].attempts < MaxAttempts
    BY <2>1, <2>3, NoticeAssumption DEF ReceiptOK, Open, Receipt
  <2>5. Item(p) \in Row
    BY <2>2, <2>3 DEF Item, Row, Receipt
  <2> QED BY <2>1, <2>4, <2>5 DEF Item
<1>6. [i \in DOMAIN q |-> Item(q[i])] = [i \in 1..n |-> Item(q[i])] /\ DOMAIN q = 1..n
  BY <1>3
<1>7. \A i \in 1..n : Item(q[i]) \in Row
  BY <1>4, <1>5
<1>8. /\ [i \in 1..n |-> Item(q[i])] \in Seq(Row) /\ Len([i \in 1..n |-> Item(q[i])]) = n
  BY <1>2, <1>7, IsASeq
<1>9. \A i, j \in DOMAIN q : q[i][1] = q[j][1] /\ q[i][2] = q[j][2] => i = j
  <2> SUFFICES ASSUME NEW i \in DOMAIN q, NEW j \in DOMAIN q, q[i][1] = q[j][1], q[i][2] = q[j][2]
               PROVE  i = j
    OBVIOUS
  <2>1. q[i] \in Events \X Targets /\ q[j] \in Events \X Targets
    BY <1>4, <1>5, <1>6
  <2>2. q[i] = q[j]
    BY <2>1
  <2> QED BY <1>3, <2>2 DEF IsInjective
<1>10. \A i \in DOMAIN q :
              /\ Item(q[i]).event = q[i][1] /\ Item(q[i]).target = q[i][2]
              /\ receipt[q[i][1]][q[i][2]].status \in Open
              /\ Item(q[i]).attempts < MaxAttempts
  BY <1>4, <1>5, <1>6
<1> QED BY <1>2, <1>6, <1>8, <1>9, <1>10

LEMMA RunStartInv == ASSUME IInv, RunStart PROVE IInv'
<1>1. UNCHANGED <<outside, announcing, event, receipt, publishing, accepted>>
  BY DEF RunStart
<1>2. Pending # {}
  BY DEF RunStart
<1>3. PICK q \in Pages :
        run' = [pc |-> "gate", page |-> [i \in DOMAIN q |-> Item(q[i])], outcome |-> "PENDING"]
  BY DEF RunStart
<1> DEFINE page == [i \in DOMAIN q |-> Item(q[i])]
<1>4. /\ Len(page) \in 1..PageLimit /\ page \in Seq(Row) /\ DOMAIN page = DOMAIN q
      /\ \A i \in DOMAIN q :
           /\ Item(q[i]).event = q[i][1] /\ Item(q[i]).target = q[i][2]
           /\ receipt[q[i][1]][q[i][2]].status \in Open
           /\ Item(q[i]).attempts < MaxAttempts
      /\ \A i, j \in DOMAIN q : q[i][1] = q[j][1] /\ q[i][2] = q[j][2] => i = j
  BY <1>2, PageRows
<1>5. \A i \in DOMAIN page : page[i] = Item(q[i])
  BY <1>4
<1>6. /\ \A i, j \in DOMAIN page : page[i].event = page[j].event /\ page[i].target = page[j].target => i = j
      /\ \A i \in DOMAIN page : /\ receipt[page[i].event][page[i].target].status \in Open
                                /\ page[i].attempts < MaxAttempts
  BY <1>4, <1>5
<1> HIDE DEF page
<1>7. run'.pc = "gate" /\ run'.page = page /\ run'.outcome = "PENDING"
      /\ run' \in [pc : {"idle", "gate", "send", "record"}, page : Seq(Row), outcome : Outcomes]
  BY <1>3, <1>4 DEF page, Outcomes, Open
<1>8. Len(page) # 0 /\ Len(page) <= PageLimit
  BY <1>4, NoticeAssumption
<1>9. \A i \in DOMAIN page : receipt'[page[i].event][page[i].target].status \notin {"NONE", "DELIVERED"}
  BY <1>1, <1>6 DEF Open
<1>10. RunInv'
  BY <1>6, <1>7, <1>8, <1>9 DEF RunInv
<1>11. accepted \subseteq accepted' /\ accepted' \subseteq Events \X Targets
  BY <1>1 DEF IInv, LedgerInv
<1> QED BY <1>1, <1>10, <1>11, RunStep

\* The receipt in hand, and those after it.
LEMMA InHand ==
  ASSUME IInv, run.pc # "idle"
  PROVE  /\ run.page \in Seq(Row) /\ Len(run.page) >= 1 /\ Len(run.page) \in Nat
         /\ DOMAIN run.page = 1..Len(run.page)
         /\ 1 \in DOMAIN run.page /\ Item1 = run.page[1] /\ Item1 \in Row
         /\ Item1.event \in Events /\ Item1.target \in Targets
         /\ receipt[Item1.event][Item1.target].status \notin {"NONE", "DELIVERED"}
         /\ event[Item1.event].known
<1>1. RunInv /\ run.page \in Seq(Row) /\ Len(run.page) # 0
  BY DEF IInv, RunInv
<1>2. /\ Len(run.page) >= 1 /\ Len(run.page) \in Nat /\ DOMAIN run.page = 1..Len(run.page)
      /\ 1 \in DOMAIN run.page
  BY <1>1
<1>3. Item1 = run.page[1] /\ Item1 \in Row
  BY <1>1, <1>2 DEF Item1
<1>4. Item1.event \in Events /\ Item1.target \in Targets
  BY <1>3 DEF Row
<1>5. receipt[Item1.event][Item1.target].status \notin {"NONE", "DELIVERED"}
  BY <1>1, <1>2, <1>3 DEF RunInv
<1>6. ReceiptOK(Item1.event, Item1.target, receipt[Item1.event][Item1.target], event[Item1.event].known, accepted)
  BY <1>4 DEF IInv, LedgerInv
<1>7. event[Item1.event].known
  BY <1>5, <1>6 DEF ReceiptOK
<1> QED BY <1>1, <1>2, <1>3, <1>4, <1>5, <1>7

\* A run goes on to the rest of its page, whose receipts are as they were.
LEMMA RestKeeps ==
  ASSUME IInv, run.pc # "idle", run' = Rest,
         \A i \in DOMAIN run.page : i # 1 =>
           receipt'[run.page[i].event][run.page[i].target] = receipt[run.page[i].event][run.page[i].target]
  PROVE  RunInv'
<1>1. /\ run.page \in Seq(Row) /\ Len(run.page) >= 1 /\ Len(run.page) \in Nat
      /\ DOMAIN run.page = 1..Len(run.page) /\ RunInv
  BY InHand DEF IInv
<1>2. CASE Len(run.page) = 1
  <2>1. run' = [pc |-> "idle", page |-> << >>, outcome |-> "PENDING"] /\ << >> \in Seq(Row)
        /\ Len(<< >>) = 0 /\ DOMAIN << >> = {}
    BY <1>2 DEF Rest, NoRun
  <2> QED BY <2>1, NoticeAssumption DEF RunInv, Outcomes, Open
<1>3. CASE Len(run.page) # 1
  <2> DEFINE page == Tail(run.page)
  <2>1. /\ page \in Seq(Row) /\ Len(page) = Len(run.page) - 1
        /\ \A i \in 1..Len(page) : page[i] = run.page[i + 1]
    BY <1>1, <1>3, HeadTailProperties, EmptySeq
  <2>2. run'.pc = "gate" /\ run'.page = page /\ run'.outcome = "PENDING"
        /\ run' \in [pc : {"idle", "gate", "send", "record"}, page : Seq(Row), outcome : Outcomes]
    BY <1>3, <2>1 DEF Rest, Outcomes, Open
  <2> HIDE DEF page
  <2>3. /\ Len(page) # 0 /\ Len(page) <= PageLimit /\ DOMAIN page = 1..Len(page)
        /\ \A i \in DOMAIN page : i + 1 \in DOMAIN run.page /\ i + 1 # 1 /\ page[i] = run.page[i + 1]
    BY <1>1, <1>3, <2>1, NoticeAssumption DEF RunInv
  <2>4. \A i, j \in DOMAIN page : page[i].event = page[j].event /\ page[i].target = page[j].target => i = j
    <3> SUFFICES ASSUME NEW i \in DOMAIN page, NEW j \in DOMAIN page,
                        page[i].event = page[j].event, page[i].target = page[j].target
                 PROVE  i = j
      OBVIOUS
    <3>1. i + 1 = j + 1
      BY <1>1, <2>3 DEF RunInv
    <3> QED BY <2>3, <3>1
  <2>5. \A i \in DOMAIN page : /\ receipt'[page[i].event][page[i].target].status \notin {"NONE", "DELIVERED"}
                               /\ page[i].attempts < MaxAttempts
    <3> SUFFICES ASSUME NEW i \in DOMAIN page
                 PROVE  /\ receipt'[page[i].event][page[i].target].status \notin {"NONE", "DELIVERED"}
                        /\ page[i].attempts < MaxAttempts
      OBVIOUS
    <3>1. i + 1 \in DOMAIN run.page /\ i + 1 # 1 /\ page[i] = run.page[i + 1]
      BY <2>3
    <3>2. /\ receipt[run.page[i + 1].event][run.page[i + 1].target].status \notin {"NONE", "DELIVERED"}
          /\ run.page[i + 1].attempts < MaxAttempts
      BY <1>1, <3>1 DEF RunInv
    <3> QED BY <3>1, <3>2
  <2> QED BY <2>2, <2>3, <2>4, <2>5 DEF RunInv
<1> QED BY <1>2, <1>3

LEMMA GateInv == ASSUME IInv, Gate PROVE IInv'
<1>1. UNCHANGED <<outside, announcing, event, receipt, publishing, accepted>> /\ run.pc = "gate"
  BY DEF Gate
<1>2. RunInv /\ accepted \subseteq accepted' /\ accepted' \subseteq Events \X Targets
  BY <1>1 DEF IInv, LedgerInv
<1> SUFFICES RunInv'
  BY <1>1, <1>2, RunStep
<1>3. CASE run' = Rest
  BY <1>1, <1>3, RestKeeps
<1>4. CASE run' = [run EXCEPT !.pc = "send"]
  <2>1. run'.pc = "send" /\ run'.page = run.page
        /\ run' \in [pc : {"idle", "gate", "send", "record"}, page : Seq(Row), outcome : Outcomes]
    BY <1>2, <1>4 DEF RunInv
  <2> QED BY <1>1, <1>2, <2>1 DEF RunInv
<1>5. CASE Verdict(Item1) # "PENDING" /\ run' = [run EXCEPT !.pc = "record", !.outcome = Verdict(Item1)]
  <2>1. Verdict(Item1) \in {"SKIPPED", "UNREACHABLE"}
    BY <1>5 DEF Verdict
  <2>2. run'.pc = "record" /\ run'.page = run.page /\ run'.outcome = Verdict(Item1)
        /\ run' \in [pc : {"idle", "gate", "send", "record"}, page : Seq(Row), outcome : Outcomes]
    BY <1>2, <1>5, <2>1 DEF RunInv, Outcomes, Ended
  <2>3. ReceiptOK(Item1.event, Item1.target,
                  [status |-> Verdict(Item1), attempts |-> Item1.attempts, age |-> 0], TRUE, accepted)
    BY <2>1 DEF ReceiptOK
  <2>4. Item1' = Item1
    BY <2>2 DEF Item1
  <2> HIDE DEF Verdict
  <2>5. (ReceiptOK(Item1.event, Item1.target,
                   [status |-> run.outcome, attempts |-> Item1.attempts, age |-> 0], TRUE, accepted))'
    BY <1>1, <2>2, <2>3, <2>4
  <2> QED BY <1>1, <1>2, <2>2, <2>5 DEF RunInv
<1> QED BY <1>3, <1>4, <1>5 DEF Gate

LEMMA AttemptsOfRow ==
  ASSUME NEW row \in Row, NEW n \in 0..MaxAttempts
  PROVE  /\ [row EXCEPT !.attempts = n] \in Row
         /\ [row EXCEPT !.attempts = n].event = row.event
         /\ [row EXCEPT !.attempts = n].target = row.target
         /\ [row EXCEPT !.attempts = n].attempts = n
BY DEF Row

\* A send counts as an attempt of the receipt in hand, whatever its answer.
LEMMA AttemptCounted ==
  ASSUME IInv, run.pc = "send", NEW outcome \in Ended \cup {"RETRY"},
         run' = [Attempted EXCEPT !.outcome = outcome], accepted \subseteq accepted',
         outcome = "RETRY" => Item1.attempts + 1 < MaxAttempts,
         outcome = "DELIVERED" => <<Item1.event, Item1.target>> \in accepted',
         UNCHANGED receipt
  PROVE  RunInv'
<1> DEFINE item == [Item1 EXCEPT !.attempts = Item1.attempts + 1]
           page == [run.page EXCEPT ![1] = item]
<1>1. /\ run.page \in Seq(Row) /\ Len(run.page) >= 1 /\ Len(run.page) \in Nat
      /\ DOMAIN run.page = 1..Len(run.page) /\ 1 \in DOMAIN run.page
      /\ Item1 = run.page[1] /\ Item1 \in Row
      /\ receipt[Item1.event][Item1.target].status \notin {"NONE", "DELIVERED"}
  BY InHand
<1>2. RunInv /\ Item1.attempts < MaxAttempts /\ MaxAttempts \in Nat
  BY <1>1, NoticeAssumption DEF IInv, RunInv
<1>3. /\ item \in Row /\ item.event = Item1.event /\ item.target = Item1.target
      /\ item.attempts = Item1.attempts + 1 /\ item.attempts \in 1..MaxAttempts
  <2>1. Item1.attempts + 1 \in 1..MaxAttempts
    BY <1>1, <1>2 DEF Row
  <2>2. Item1.attempts + 1 \in 0..MaxAttempts
    BY <1>2, <2>1
  <2> QED BY <1>1, <2>1, <2>2, AttemptsOfRow
<1>4. Attempted = [run EXCEPT !.pc = "record", !.page = page]
  BY <1>1, <1>2 DEF Attempted, RunInv
<1> HIDE DEF item
<1>5. /\ page \in Seq(Row) /\ Len(page) = Len(run.page) /\ DOMAIN page = DOMAIN run.page
      /\ \A i \in DOMAIN page : page[i] = IF i = 1 THEN item ELSE run.page[i]
  BY <1>1, <1>3, ExceptSeq
<1> HIDE DEF page
<1>6. /\ run'.pc = "record" /\ run'.page = page /\ run'.outcome = outcome
      /\ run' \in [pc : {"idle", "gate", "send", "record"}, page : Seq(Row), outcome : Outcomes]
  BY <1>2, <1>4, <1>5 DEF RunInv, Outcomes, Open
<1>7. Len(page) # 0 /\ Len(page) <= PageLimit
  BY <1>1, <1>2, <1>5, NoticeAssumption DEF RunInv
<1>8. \A i \in DOMAIN page : page[i].event = run.page[i].event /\ page[i].target = run.page[i].target
  BY <1>1, <1>3, <1>5
<1>9. \A i, j \in DOMAIN page : page[i].event = page[j].event /\ page[i].target = page[j].target => i = j
  BY <1>2, <1>5, <1>8 DEF RunInv
<1>10. \A i \in DOMAIN page :
         /\ receipt'[page[i].event][page[i].target].status \notin {"NONE", "DELIVERED"}
         /\ i # 1 => page[i].attempts < MaxAttempts
  <2> SUFFICES ASSUME NEW i \in DOMAIN page
               PROVE  /\ receipt'[page[i].event][page[i].target].status \notin {"NONE", "DELIVERED"}
                      /\ i # 1 => page[i].attempts < MaxAttempts
    OBVIOUS
  <2>1. /\ receipt[run.page[i].event][run.page[i].target].status \notin {"NONE", "DELIVERED"}
        /\ i # 1 => run.page[i].attempts < MaxAttempts
    BY <1>2, <1>5 DEF RunInv
  <2> QED BY <1>5, <1>8, <2>1
<1>11. Item1' = item
  <2>1. 1 \in DOMAIN page /\ page[1] = item
    BY <1>1, <1>5
  <2>2. Head(page) = page[1]
    BY <1>5, <2>1
  <2>3. Item1' = Head(page)
    BY <1>6 DEF Item1
  <2> QED BY <2>1, <2>2, <2>3
<1>12. ReceiptOK(item.event, item.target,
                 [status |-> outcome, attempts |-> item.attempts, age |-> 0], TRUE, accepted')
  <2>1. outcome # "PENDING"
    BY DEF Outcomes, Open, Ended
  <2> QED BY <1>2, <1>3, <2>1 DEF ReceiptOK
<1>13. (ReceiptOK(Item1.event, Item1.target,
                  [status |-> run.outcome, attempts |-> Item1.attempts, age |-> 0], TRUE, accepted))'
  <2>1. run'.outcome = outcome
    BY <1>6
  <2> QED BY <1>11, <1>12, <2>1
<1> QED BY <1>6, <1>7, <1>9, <1>10, <1>13 DEF RunInv

LEMMA SendInv == ASSUME IInv, SendAccepted \/ SendFailed PROVE IInv'
<1>1. UNCHANGED <<outside, announcing, event, receipt, publishing>> /\ run.pc = "send"
  BY DEF SendAccepted, SendFailed
<1>2. /\ Item1.event \in Events /\ Item1.target \in Targets /\ Item1 \in Row
      /\ accepted \subseteq Events \X Targets
  BY <1>1, InHand DEF IInv, LedgerInv
<1>3. CASE SendAccepted
  <2>1. /\ accepted' = accepted \cup {<<Item1.event, Item1.target>>}
        /\ run' = [Attempted EXCEPT !.outcome = "DELIVERED"]
    BY <1>3 DEF SendAccepted
  <2>2. "DELIVERED" \in Ended \cup {"RETRY"} /\ "DELIVERED" # "RETRY"
    BY DEF Outcomes, Open, Ended
  <2>3. accepted \subseteq accepted' /\ accepted' \subseteq Events \X Targets
        /\ <<Item1.event, Item1.target>> \in accepted' /\ UNCHANGED receipt
    BY <1>1, <1>2, <2>1
  <2>4. RunInv'
    BY <1>1, <2>1, <2>2, <2>3, AttemptCounted
  <2> QED BY <1>1, <2>3, <2>4, RunStep
<1>4. CASE SendFailed
  <2> DEFINE outcome == IF Item1.attempts + 1 >= MaxAttempts THEN "UNREACHABLE" ELSE "RETRY"
  <2>1. accepted' = accepted /\ run' = [Attempted EXCEPT !.outcome = outcome]
    BY <1>4 DEF SendFailed
  <2>2. outcome \in Ended \cup {"RETRY"} /\ outcome # "DELIVERED"
    BY DEF Outcomes, Open, Ended
  <2>3. outcome = "RETRY" => Item1.attempts + 1 < MaxAttempts
    BY <1>2, NoticeAssumption DEF Row
  <2> HIDE DEF outcome
  <2>4. RunInv'
    BY <1>1, <2>1, <2>2, <2>3, AttemptCounted
  <2> QED BY <1>1, <1>2, <2>1, <2>4, RunStep
<1> QED BY <1>3, <1>4

\* The outcome goes to the receipt in hand, which no later row of the page is.
LEMMA RunRecordInv == ASSUME IInv, RunRecord PROVE IInv'
<1> DEFINE e == Item1.event
           t == Item1.target
<1>1. /\ UNCHANGED <<outside, announcing, event, publishing, accepted>> /\ run.pc = "record"
      /\ Recorded(e, t, run.outcome, Item1.attempts) /\ run' = Rest
  BY DEF RunRecord
<1>2. /\ DOMAIN run.page = 1..Len(run.page) /\ 1 \in DOMAIN run.page /\ Item1 = run.page[1] /\ Item1 \in Row
      /\ e \in Events /\ t \in Targets /\ event[e].known
      /\ receipt[e][t].status \notin {"NONE", "DELIVERED"} /\ run.page \in Seq(Row)
  BY <1>1, InHand
<1>3. RunInv
  BY DEF IInv
<1>4. /\ LedgerInv'
      /\ receipt'[e][t].status # "NONE"
      /\ \A d \in Events, u \in Targets : <<d, u>> # <<e, t>> => receipt'[d][u] = receipt[d][u]
  <2>1. run.outcome \in Outcomes /\ Item1.attempts \in 0..MaxAttempts
    BY <1>2, <1>3 DEF RunInv, Row
  <2>2. ReceiptOK(e, t, [status |-> run.outcome, attempts |-> Item1.attempts, age |-> 0], event[e].known, accepted)
    BY <1>1, <1>2, <1>3 DEF RunInv
  <2>3. UNCHANGED <<event, accepted>> /\ Recorded(e, t, run.outcome, Item1.attempts)
        /\ e \in Events /\ t \in Targets
    BY <1>1, <1>2
  <2> HIDE DEF e, t
  <2>4. PICK outcome \in Outcomes, attempts \in 0..MaxAttempts :
               outcome = run.outcome /\ attempts = Item1.attempts
    BY <2>1
  <2>5. /\ Recorded(e, t, outcome, attempts)
        /\ ReceiptOK(e, t, [status |-> outcome, attempts |-> attempts, age |-> 0], event[e].known, accepted)
    BY <2>2, <2>3, <2>4
  <2> QED BY <2>3, <2>5, RecordedKept
<1>5. WorldInv' /\ DraftInv' /\ SessionInv' /\ Grown /\ confirmed' = confirmed
  BY <1>1, PublishingKeeps, AnnouncingGrown DEF announcing
<1>6. ConfirmedInv'
  <2> SUFFICES ASSUME NEW d \in Events \ {Release}, NEW u \in Targets, receipt'[d][u].status # "NONE"
               PROVE  Behind(d, {u}, FALSE, confirmed)
    BY <1>1, <1>5 DEF IInv, ConfirmedInv
  <2>1. receipt[d][u].status # "NONE"
    BY <1>2, <1>4
  <2> QED BY <2>1 DEF IInv, ConfirmedInv
<1>7. ReleaseInv'
  <2>1. Release \in Events /\ Groups \subseteq Targets
    BY NoticeAssumption DEF Release, Events, Targets
  <2>2. \A g \in Groups : receipt[Release][g].status # "NONE" => receipt'[Release][g].status # "NONE"
    BY <1>4, <2>1
  <2> QED BY <1>1, <2>2 DEF IInv, ReleaseInv, MarkerAfterReceipts, publishing
<1>8. RunInv'
  <2> SUFFICES ASSUME NEW i \in DOMAIN run.page, i # 1
               PROVE  receipt'[run.page[i].event][run.page[i].target] = receipt[run.page[i].event][run.page[i].target]
    BY <1>1, RestKeeps
  <2>1. run.page[i] \in Row
    BY <1>2
  <2>2. run.page[i].event \in Events /\ run.page[i].target \in Targets
    BY <2>1 DEF Row
  <2>3. ~(run.page[i].event = e /\ run.page[i].target = t)
    BY <1>2, <1>3 DEF RunInv
  <2> QED BY <1>4, <2>2, <2>3
<1> QED BY <1>4, <1>5, <1>6, <1>7, <1>8 DEF IInv

----------------------------------------------------------------------------
(***************************************************************************)
(* Crashes of the worker, and time.                                        *)
(***************************************************************************)

LEMMA WorkerLostInv == ASSUME IInv, WorkerLost PROVE IInv'
<1>1. UNCHANGED <<subject, muted, admins, revisions, confirmed, session, event, receipt, release, accepted>>
      /\ Disturbed /\ run' = NoRun /\ publication' = NoPublication
  BY DEF WorkerLost, environment, announcing
<1>2. Grown
  BY <1>1, UnchangedGrown DEF IInv
<1>3. WorldInv' /\ DraftInv' /\ SessionInv'
  BY <1>1, <1>2, DisturbedInv, SessionsKept DEF IInv, WorldInv, DraftInv
<1>4. LedgerInv' /\ ConfirmedInv'
  BY <1>1, <1>2, ConfirmedKept DEF IInv, LedgerInv
<1>5. ReleaseInv'
  BY <1>1 DEF IInv, ReleaseInv, MarkerAfterReceipts, NoPublication
<1>6. RunInv'
  <2>1. run' = [pc |-> "idle", page |-> << >>, outcome |-> "PENDING"] /\ << >> \in Seq(Row)
        /\ Len(<< >>) = 0 /\ DOMAIN << >> = {}
    BY <1>1 DEF NoRun
  <2> QED BY <2>1, NoticeAssumption DEF RunInv, Outcomes, Open
<1> QED BY <1>3, <1>4, <1>5, <1>6 DEF IInv

LEMMA OlderInRange == \A n \in 0..MaxBackoff : Older(n) \in 0..MaxBackoff
BY NoticeAssumption DEF Older

\* Time changes ages and what is left, and nothing that the rest reads.
LEMMA TickKeeps ==
  ASSUME IInv, Tick
  PROVE  /\ receipt' \in [Events -> [Targets -> Receipt]]
         /\ \A e \in Events, t \in Targets : /\ receipt'[e][t].status = receipt[e][t].status
                                             /\ receipt'[e][t].attempts = receipt[e][t].attempts
         /\ event' \in [Events -> EventRow]
         /\ \A e \in Events : event'[e].known = event[e].known /\ event'[e].bypass = event[e].bypass
         /\ confirmed' \in Seq(Confirmed) /\ DOMAIN confirmed' = DOMAIN confirmed
         /\ \A i \in DOMAIN confirmed :
              /\ confirmed'[i].rev = confirmed[i].rev /\ confirmed'[i].snap = confirmed[i].snap
              /\ confirmed'[i].urgent = confirmed[i].urgent /\ confirmed'[i].status = confirmed[i].status
         /\ run'.pc = run.pc /\ run'.outcome = run.outcome
         /\ run'.page \in Seq(Row) /\ Len(run'.page) = Len(run.page) /\ DOMAIN run'.page = DOMAIN run.page
         /\ \A i \in DOMAIN run.page :
              /\ run'.page[i].event = run.page[i].event /\ run'.page[i].target = run.page[i].target
              /\ run'.page[i].attempts = run.page[i].attempts
<1>1. /\ receipt' \in [Events -> [Targets -> Receipt]]
      /\ \A e \in Events, t \in Targets : /\ receipt'[e][t].status = receipt[e][t].status
                                          /\ receipt'[e][t].attempts = receipt[e][t].attempts
  <2> DEFINE row(e, t) == IF receipt[e][t].status \in Open THEN [receipt[e][t] EXCEPT !.age = Older(receipt[e][t].age)]
                          ELSE receipt[e][t]
  <2>1. \A e \in Events, t \in Targets :
          row(e, t) \in Receipt /\ row(e, t).status = receipt[e][t].status
          /\ row(e, t).attempts = receipt[e][t].attempts
    <3> SUFFICES ASSUME NEW e \in Events, NEW t \in Targets
                 PROVE  row(e, t) \in Receipt /\ row(e, t).status = receipt[e][t].status
                        /\ row(e, t).attempts = receipt[e][t].attempts
      OBVIOUS
    <3>1. receipt[e][t] \in Receipt
      BY DEF IInv, LedgerInv
    <3>2. Older(receipt[e][t].age) \in 0..MaxBackoff
      BY <3>1, OlderInRange DEF Receipt
    <3> QED BY <3>1, <3>2 DEF Receipt
  <2>2. receipt' = [e \in Events |-> [t \in Targets |-> row(e, t)]]
    BY DEF Tick
  <2> HIDE DEF row
  <2> QED BY <2>1, <2>2
<1>2. /\ event' \in [Events -> EventRow]
      /\ \A e \in Events : event'[e].known = event[e].known /\ event'[e].bypass = event[e].bypass
  <2>1. \A e \in Events : /\ [event[e] EXCEPT !.left = Less(event[e].left)] \in EventRow
                          /\ [event[e] EXCEPT !.left = Less(event[e].left)].known = event[e].known
                          /\ [event[e] EXCEPT !.left = Less(event[e].left)].bypass = event[e].bypass
    <3> SUFFICES ASSUME NEW e \in Events
                 PROVE  /\ [event[e] EXCEPT !.left = Less(event[e].left)] \in EventRow
                        /\ [event[e] EXCEPT !.left = Less(event[e].left)].known = event[e].known
                        /\ [event[e] EXCEPT !.left = Less(event[e].left)].bypass = event[e].bypass
      OBVIOUS
    <3>1. event[e] \in EventRow
      BY DEF IInv, LedgerInv
    <3>2. Less(event[e].left) \in Nat
      BY <3>1 DEF EventRow, Less
    <3> QED BY <3>1, <3>2 DEF EventRow
  <2>2. event' = [e \in Events |-> [event[e] EXCEPT !.left = Less(event[e].left)]]
    BY DEF Tick
  <2> QED BY <2>1, <2>2
<1>3. /\ confirmed' \in Seq(Confirmed) /\ DOMAIN confirmed' = DOMAIN confirmed
      /\ \A i \in DOMAIN confirmed :
           /\ confirmed'[i].rev = confirmed[i].rev /\ confirmed'[i].snap = confirmed[i].snap
           /\ confirmed'[i].urgent = confirmed[i].urgent /\ confirmed'[i].status = confirmed[i].status
  <2> DEFINE row(i) == IF confirmed[i].status = "pending" THEN [confirmed[i] EXCEPT !.left = Less(confirmed[i].left)]
                       ELSE confirmed[i]
  <2>1. DOMAIN confirmed = 1..Len(confirmed) /\ Len(confirmed) \in Nat /\ confirmed \in Seq(Confirmed)
    BY DEF IInv, DraftInv
  <2>2. \A i \in 1..Len(confirmed) :
          /\ row(i) \in Confirmed
          /\ row(i).rev = confirmed[i].rev /\ row(i).snap = confirmed[i].snap
          /\ row(i).urgent = confirmed[i].urgent /\ row(i).status = confirmed[i].status
    <3> SUFFICES ASSUME NEW i \in 1..Len(confirmed)
                 PROVE  /\ row(i) \in Confirmed
                        /\ row(i).rev = confirmed[i].rev /\ row(i).snap = confirmed[i].snap
                        /\ row(i).urgent = confirmed[i].urgent /\ row(i).status = confirmed[i].status
      OBVIOUS
    <3>1. confirmed[i] \in Confirmed
      BY <2>1
    <3>2. Less(confirmed[i].left) \in Nat
      BY <3>1 DEF Confirmed, Less
    <3> QED BY <3>1, <3>2 DEF Confirmed
  <2>3. confirmed' = [i \in 1..Len(confirmed) |-> row(i)]
    BY <2>1 DEF Tick
  <2> HIDE DEF row
  <2>4. confirmed' \in Seq(Confirmed)
    BY <2>1, <2>2, <2>3, IsASeq
  <2> QED BY <2>1, <2>2, <2>3, <2>4
<1>4. /\ run'.pc = run.pc /\ run'.outcome = run.outcome
      /\ run'.page \in Seq(Row) /\ Len(run'.page) = Len(run.page) /\ DOMAIN run'.page = DOMAIN run.page
      /\ \A i \in DOMAIN run.page :
           /\ run'.page[i].event = run.page[i].event /\ run'.page[i].target = run.page[i].target
           /\ run'.page[i].attempts = run.page[i].attempts
  <2> DEFINE row(i) == [run.page[i] EXCEPT !.age = Older(run.page[i].age)]
  <2>1. /\ run \in [pc : {"idle", "gate", "send", "record"}, page : Seq(Row), outcome : Outcomes]
        /\ run.page \in Seq(Row)
    BY DEF IInv, RunInv
  <2>2. DOMAIN run.page = 1..Len(run.page) /\ Len(run.page) \in Nat
    BY <2>1
  <2>3. \A i \in 1..Len(run.page) :
          /\ row(i) \in Row /\ row(i).event = run.page[i].event /\ row(i).target = run.page[i].target
          /\ row(i).attempts = run.page[i].attempts
    <3> SUFFICES ASSUME NEW i \in 1..Len(run.page)
                 PROVE  /\ row(i) \in Row /\ row(i).event = run.page[i].event /\ row(i).target = run.page[i].target
                        /\ row(i).attempts = run.page[i].attempts
      OBVIOUS
    <3>1. run.page[i] \in Row
      BY <2>1
    <3>2. Older(run.page[i].age) \in 0..MaxBackoff
      BY <3>1, OlderInRange DEF Row
    <3> QED BY <3>1, <3>2 DEF Row
  <2>4. run' = [run EXCEPT !.page = [i \in 1..Len(run.page) |-> row(i)]]
    BY <2>2 DEF Tick
  <2> HIDE DEF row
  <2>5. run'.page = [i \in 1..Len(run.page) |-> row(i)] /\ run'.pc = run.pc /\ run'.outcome = run.outcome
    BY <2>1, <2>4
  <2>6. run'.page \in Seq(Row) /\ Len(run'.page) = Len(run.page)
    BY <2>2, <2>3, <2>5, IsASeq
  <2> QED BY <2>2, <2>3, <2>5, <2>6
<1> QED BY <1>1, <1>2, <1>3, <1>4

LEMMA TickInv == ASSUME IInv, Tick PROVE IInv'
<1>1. UNCHANGED <<subject, muted, admins, disturbances, revisions, session, release, publication, accepted>>
  BY DEF Tick, outside, environment, publishing
<1>2. /\ receipt' \in [Events -> [Targets -> Receipt]]
      /\ \A e \in Events, t \in Targets : /\ receipt'[e][t].status = receipt[e][t].status
                                          /\ receipt'[e][t].attempts = receipt[e][t].attempts
  BY TickKeeps
<1>3. /\ event' \in [Events -> EventRow]
      /\ \A e \in Events : event'[e].known = event[e].known /\ event'[e].bypass = event[e].bypass
  BY TickKeeps
<1>4. /\ confirmed' \in Seq(Confirmed) /\ DOMAIN confirmed' = DOMAIN confirmed
      /\ \A i \in DOMAIN confirmed :
           /\ confirmed'[i].rev = confirmed[i].rev /\ confirmed'[i].snap = confirmed[i].snap
           /\ confirmed'[i].urgent = confirmed[i].urgent /\ confirmed'[i].status = confirmed[i].status
  BY TickKeeps
<1>5. Grown
  BY <1>1, <1>3, <1>4, Revisions DEF Grown, IInv, Revision
<1>6. WorldInv' /\ SessionInv'
  BY <1>1, <1>5, SessionsKept DEF IInv, WorldInv
<1>7. DraftInv'
  BY <1>1, <1>4 DEF IInv, DraftInv
<1>8. LedgerInv'
  <2>1. \A e \in Events, t \in Targets : ReceiptOK(e, t, receipt'[e][t], event'[e].known, accepted)
    <3> SUFFICES ASSUME NEW e \in Events, NEW t \in Targets
                 PROVE  ReceiptOK(e, t, receipt'[e][t], event'[e].known, accepted)
      OBVIOUS
    <3>1. ReceiptOK(e, t, receipt[e][t], event[e].known, accepted)
      BY DEF IInv, LedgerInv
    <3>2. receipt'[e][t].status = receipt[e][t].status /\ receipt'[e][t].attempts = receipt[e][t].attempts
          /\ event'[e].known = event[e].known
      BY <1>2, <1>3
    <3> QED BY <3>1, <3>2 DEF ReceiptOK
  <2> QED BY <1>1, <1>2, <1>3, <2>1 DEF IInv, LedgerInv
<1>9. ConfirmedInv'
  <2>1. \A e, targets, bypass : Behind(e, targets, bypass, confirmed) => Behind(e, targets, bypass, confirmed')
    BY <1>5, BehindKept
  <2> QED BY <1>2, <1>3, <2>1 DEF IInv, ConfirmedInv
<1>10. ReleaseInv'
  <2>1. Release \in Events /\ Groups \subseteq Targets
    BY NoticeAssumption DEF Release, Events, Targets
  <2>2. event'[Release].known = event[Release].known
        /\ \A g \in Groups : receipt'[Release][g].status = receipt[Release][g].status
    BY <1>2, <1>3, <2>1
  <2> QED BY <1>1, <2>2 DEF IInv, ReleaseInv, MarkerAfterReceipts
<1>11. RunInv'
  <2> DEFINE page == run'.page
  <2>1. /\ run'.pc = run.pc /\ run'.outcome = run.outcome
        /\ page \in Seq(Row) /\ Len(page) = Len(run.page) /\ DOMAIN page = DOMAIN run.page
        /\ \A i \in DOMAIN run.page :
             /\ page[i].event = run.page[i].event /\ page[i].target = run.page[i].target
             /\ page[i].attempts = run.page[i].attempts
    BY TickKeeps
  <2>2. RunInv /\ DOMAIN run.page = 1..Len(run.page) /\ Len(run.page) \in Nat
    <3>1. RunInv /\ run.page \in Seq(Row)
      BY DEF IInv, RunInv
    <3> QED BY <3>1
  <2>3. run' \in [pc : {"idle", "gate", "send", "record"}, page : Seq(Row), outcome : Outcomes]
    <3>1. run' = [run EXCEPT !.page = page]
      BY <2>2 DEF Tick, RunInv
    <3> HIDE DEF page
    <3> QED BY <2>1, <2>2, <3>1 DEF RunInv
  <2>4. \A i \in DOMAIN page : receipt'[page[i].event][page[i].target].status \notin {"NONE", "DELIVERED"}
    <3> SUFFICES ASSUME NEW i \in DOMAIN page
                 PROVE  receipt'[page[i].event][page[i].target].status \notin {"NONE", "DELIVERED"}
      OBVIOUS
    <3>1. run.page[i] \in Row /\ receipt[run.page[i].event][run.page[i].target].status \notin {"NONE", "DELIVERED"}
      BY <2>1, <2>2 DEF RunInv
    <3>2. run.page[i].event \in Events /\ run.page[i].target \in Targets
      BY <3>1 DEF Row
    <3> QED BY <1>2, <2>1, <3>1, <3>2
  <2>5. \A i, j \in DOMAIN page : page[i].event = page[j].event /\ page[i].target = page[j].target => i = j
    BY <2>1, <2>2 DEF RunInv
  <2>6. \A i \in DOMAIN page : (run'.pc # "record" \/ i # 1) => page[i].attempts < MaxAttempts
    BY <2>1, <2>2 DEF RunInv
  <2>7. (run.pc = "record" =>
          ReceiptOK(Item1.event, Item1.target,
                    [status |-> run.outcome, attempts |-> Item1.attempts, age |-> 0], TRUE, accepted))'
    <3> SUFFICES ASSUME run.pc = "record"
                 PROVE  ReceiptOK(Item1'.event, Item1'.target,
                          [status |-> run'.outcome, attempts |-> Item1'.attempts, age |-> 0], TRUE, accepted')
      BY <2>1
    <3>1. 1 \in DOMAIN run.page /\ Item1 = run.page[1]
      BY InHand
    <3>2. Item1' = page[1]
      BY <2>1, <2>2, <3>1 DEF Item1
    <3>3. Item1'.event = Item1.event /\ Item1'.target = Item1.target /\ Item1'.attempts = Item1.attempts
      BY <2>1, <3>1, <3>2
    <3> QED BY <1>1, <2>1, <2>2, <3>3 DEF RunInv
  <2> HIDE DEF page
  <2>8. page = run'.page
    BY DEF page
  <2> QED BY <2>1, <2>2, <2>3, <2>4, <2>5, <2>6, <2>7, <2>8 DEF RunInv
<1> QED BY <1>6, <1>7, <1>8, <1>9, <1>10, <1>11 DEF IInv

----------------------------------------------------------------------------
LEMMA WorkerInv == ASSUME IInv, Worker PROVE IInv'
BY PublishStartInv, PublishEventInv, PublishListInv, PublishMarkInv, PublishRecordInv, RunStartInv,
   GateInv, SendInv, RunRecordInv DEF Worker

LEMMA NextInv == ASSUME IInv, Next PROVE IInv'
<1>1. CASE \/ \E t \in Targets : \E s \in Standings : Stand(t, s)
           \/ \E t \in Targets : \E c \in {"announcement", "release"} : SetPreference(t, c)
           \/ \E a \in Range(ActorOf) : Authorize(a)
  BY <1>1, OutsideInv
<1>2. CASE \E a \in Range(ActorOf) : \E T \in Audiences : UpdateDraft(a, T)
  BY <1>2, UpdateDraftInv
<1>3. CASE \E s \in Sessions :
             \/ ConfirmRead(s) \/ ConfirmSnapshot(s) \/ DispatchEvent(s)
             \/ \E u \in BOOLEAN : ConfirmStore(s, u)
             \/ \E i \in DOMAIN confirmed : Consume(s, i)
             \/ \E t \in Targets : DispatchRecord(s, t) \/ DispatchAbort(s, t)
             \/ CancelRead(s) \/ CancelStore(s) \/ Dismiss(s) \/ SessionLost(s)
  BY <1>3, ReadInv, ConfirmSnapshotInv, DispatchEventInv, ConfirmStoreInv, ConsumeInv,
     DispatchRecordInv, DispatchAbortInv, CancelStoreInv, DismissInv, SessionLostInv
<1>4. CASE Worker
  BY <1>4, WorkerInv
<1>5. CASE WorkerLost
  BY <1>5, WorkerLostInv
<1>6. CASE Tick
  BY <1>6, TickInv
<1> QED BY <1>1, <1>2, <1>3, <1>4, <1>5, <1>6 DEF Next, Standings

LEMMA StutterInv == ASSUME IInv, UNCHANGED vars PROVE IInv'
<1>1. UNCHANGED <<subject, muted, admins, revisions, confirmed, session, event, receipt, release,
                  publication, run, accepted, disturbances>>
  BY DEF vars
<1>2. WorldInv' /\ DraftInv' /\ Grown
  BY <1>1, UnchangedGrown DEF IInv, WorldInv, DraftInv
<1> QED BY <1>1, <1>2, SessionsKept, ConfirmedKept, LedgerUnchanged DEF IInv

----------------------------------------------------------------------------
\* Standings, drafts, requests, receipts, the release and the run stay in
\* order whatever commits, sends, crashes and passes in between.
THEOREM Invariance == Spec => []IInv
<1>1. IInv /\ [Next]_vars => IInv'
  BY NextInv, StutterInv
<1> QED BY <1>1, InitInv, PTL DEF Spec

\* A run holds no receipt that is recorded as delivered: the operations worker
\* runs one task at a time and nothing but a run records a delivery
\* (NotificationDeliveryService.run).
THEOREM Resends == Spec => []NeverResent
<1>1. IInv => NeverResent
  BY DEF IInv, RunInv, NeverResent
<1> QED BY <1>1, Invariance, PTL

\* A marker that has moved left no group of its listing without a receipt,
\* wherever a publication was cut off (ReleaseUpdateService.publish).
THEOREM Markers == Spec => []MarkerAfterReceipts
<1>1. IInv => MarkerAfterReceipts
  BY DEF IInv, ReleaseInv
<1> QED BY <1>1, Invariance, PTL

LEMMA BehindDispatched ==
  ASSUME NEW e, NEW targets, NEW bypass, Behind(e, targets, bypass, confirmed)
  PROVE  \E i \in Dispatched(e) : targets \subseteq confirmed[i].snap /\ (bypass => confirmed[i].urgent)
BY DEF Behind, Dispatched

\* Whoever gets an announcement was in an audience confirmed for that very
\* revision; outcomes and attempts agree, and a delivery was accepted
\* (AnnouncementService.confirm, AnnouncementStore.consume).
THEOREM Announcements == Spec => []AnnouncementsSound
<1>1. IInv => AnnouncementsSound
  <2> SUFFICES ASSUME IInv PROVE TypeOK /\ OnlyConfirmed /\ ReceiptsCoherent
    BY DEF AnnouncementsSound
  <2>1. TypeOK
    BY DEF IInv, WorldInv, Standings, DraftInv, Revision, LedgerInv, Receipt, ReleaseInv, RunInv, TypeOK
  <2>2. OnlyConfirmed
    <3> SUFFICES ASSUME NEW e \in Events \ {Release}
                 PROVE  /\ \A i \in Dispatched(e) : confirmed[i].snap \subseteq revisions[e]
                        /\ \A t \in Targets : receipt[e][t].status # "NONE" =>
                             \E i \in Dispatched(e) : t \in confirmed[i].snap
                        /\ event[e].bypass => \E i \in Dispatched(e) : confirmed[i].urgent
      BY DEF OnlyConfirmed
    <3>1. \A i \in Dispatched(e) : confirmed[i].snap \subseteq revisions[e]
      BY DEF IInv, DraftInv, Dispatched
    <3>2. \A t \in Targets : receipt[e][t].status # "NONE" => Behind(e, {t}, FALSE, confirmed)
      BY DEF IInv, ConfirmedInv
    <3>3. event[e].bypass => Behind(e, {}, TRUE, confirmed)
      BY DEF IInv, ConfirmedInv
    <3> QED BY <3>1, <3>2, <3>3, BehindDispatched
  <2>3. ReceiptsCoherent
    BY DEF IInv, LedgerInv, Receipt, ReceiptOK, ReceiptsCoherent
  <2> QED BY <2>1, <2>2, <2>3
<1> QED BY <1>1, Invariance, PTL

=============================================================================
