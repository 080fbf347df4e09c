------------------------------- MODULE Access -------------------------------
(***************************************************************************)
(* Who may use what: the middleware of the bot, the admission of a feature *)
(* request, the gates of the worker and the limits it reserves under.      *)
(* Facts change between any two reads of the database; what is evaluated   *)
(* in one session reads the facts of one moment.                           *)
(*                                                                         *)
(* The path of a request is modelled for one person, one group and the     *)
(* person's private chat; its ticket is FeatureJobs' and Admission's.      *)
(***************************************************************************)
EXTENDS Naturals, Sequences, FiniteSets

CONSTANTS
  Definition,    \* the registry: channel, scopes, triggers, needs, family of each feature
  Splits,        \* the two features of the media provider: of videos and of posts
  MaxChanges     \* bound: changes of facts while a request is on its way

Features == DOMAIN Definition
Captures == {Splits[i] : i \in DOMAIN Splits}
Chats == {"private", "group"}

\* Nothing else is named as a feature is.
Words == {"help", "settings", "admin", "media", "free", "trusted", "local", "present", "unbanned",
          "fresh", "clear", "approved", "same", "author", "given"}

ASSUME AccessAssumption ==
  /\ Splits \in Seq(Features) /\ Len(Splits) = 2 /\ Features \cap Words = {}
  /\ \A f \in Features :
       /\ Definition[f].channel \in {"standard", "beta"}
       /\ Definition[f].scopes \in (SUBSET Chats) \ {{}}
       /\ Definition[f].triggers \in (SUBSET {"direct", "automatic"}) \ {{}}
       /\ Definition[f].needs \in BOOLEAN
  /\ MaxChanges \in Nat

(* Commands are the media provider's, a feature's own, and these three.    *)
Plain == {"help", "settings", "admin"}
Commands == Plain \cup {"media"} \cup (Features \ Captures)
Keys(c) == IF c = "media" THEN Splits ELSE IF c \in Features THEN <<c>> ELSE << >>

(* A link in a text is automatic, a text that begins with a slash direct;  *)
(* in a group a channel, or an anonymous administrator, has no actor.      *)
Events ==
  {e \in [command : Commands, chat : Chats, actor : BOOLEAN, trigger : {"direct", "automatic"}] :
     /\ e.chat = "private" => e.actor
     /\ e.command \in Plain => e.trigger = "direct"}

VARIABLES
  person,     \* identity, role, trust, restriction, what Telegram and the evidence say
  group,      \* identity, restriction, evidence, approval, rights, support of beta features
  switches,   \* features selected in each chat; legacy capture; emergency stops and epochs
  overrides,  \* buckets with limits of their own, of a generation of the person or the group
  req,        \* how far the request is, and what its handlers remember
  changes,
  met, unmet  \* history: what held, and did not hold, at some moment of this stage

facts == <<person, group, switches, overrides>>
accessVars == <<facts, req, changes, met, unmet>>

Nowhere == [at |-> "none"]
Reads == <<"active", "banned", "fresh", "blocker", "approved">>
----------------------------------------------------------------------------
(* The decision about a group.                                             *)

(* group_access: of a full-banned administrator it is certain, or it is    *)
(* unclear; nothing is known without a fresh list of administrators.       *)
Reason(g) ==
  CASE ~g.active -> "unavailable"
    [] g.active /\ g.banned -> "banned"
    [] g.active /\ ~g.banned /\ (~g.fresh \/ g.blocker = "unknown") -> "unverified"
    [] g.active /\ ~g.banned /\ g.fresh /\ g.blocker = "admin" -> "admin banned"
    [] OTHER -> IF g.approved THEN "allowed" ELSE "not approved"

BotAdmin == person.active /\ person.admin

(* Authority over the settings of a group that is there and not banned: by *)
(* role, or as an administrator of it by current evidence.                 *)
Manager(e) ==
  /\ e.actor /\ person.active /\ ~person.banned
  /\ group.active /\ ~group.banned
  /\ person.admin \/ (group.fresh /\ person.evidence)
----------------------------------------------------------------------------
(* The decision about a feature.                                           *)

(* Old groups that never chose anything capture all media.                 *)
Selected(f, chat) ==
  LET names == {k \in switches.on[chat] : chat = "private" \/ Definition[k].channel = "standard"} IN
  \/ f \in switches.on[chat]
  \/ names = {} /\ switches.legacy /\ chat = "group" /\ f \in Captures

StopKey(f) == IF f \in Captures THEN "media" ELSE f
Capable(f) == ~Definition[f].needs \/ group.rights

\* Fault: automatic work is refused for its sender's restriction too.
EntryAllowedToSender(f, e, configure) ==
  /\ e.chat \in Definition[f].scopes
  /\ configure \/ e.trigger \in Definition[f].triggers
  /\ e.actor => person.active /\ ~person.banned

(* feature_entry_allowed: in a group automatic work needs no actor.        *)
EntryAllowed(f, e, configure) ==
  /\ e.chat \in Definition[f].scopes
  /\ configure \/ e.trigger \in Definition[f].triggers
  /\ \/ e.chat = "group" /\ e.trigger = "automatic" /\ ~configure
     \/ e.actor /\ person.active /\ ~person.banned

(* The facts of the group, all in one transaction.                         *)
GroupAccess == Reason(group)

PrivateDecision(f, configure) ==
  /\ person.trusted \/ BotAdmin
  /\ Definition[f].channel = "beta" => person.entitled
  /\ ~Definition[f].needs /\ (configure \/ Selected(f, "private"))

(* Whoever configures a beta feature vouches for it; elsewhere the group   *)
(* needs an entitlement, or an administrator who still supports it.        *)
GroupDecision(f, e, configure) ==
  LET inBeta == Definition[f].channel = "beta" IN
  /\ configure => Manager(e)
  /\ GroupAccess = "allowed"
  /\ inBeta => group.supported \/ (configure /\ e.actor /\ person.active /\ person.entitled)
  /\ Capable(f)
  /\ configure \/ (Selected(f, "group") /\ (inBeta => group.supported))

Evaluate(f, e, configure) ==
  /\ StopKey(f) \notin switches.stopped
  /\ IF e.chat = "private" THEN person.active ELSE group.active
  /\ EntryAllowed(f, e, configure)
  /\ IF e.chat = "private" THEN PrivateDecision(f, configure)
     ELSE GroupDecision(f, e, configure)
----------------------------------------------------------------------------
(* The limits of a subject.                                                *)

Buckets(f) == {f, Definition[f].family}

(* Media has defaults; any other resource needs limits of its own.         *)
Defaults(f, kind, trusted) ==
  IF Definition[f].family # "media" THEN << >>
  ELSE [b \in Buckets(f) |-> IF kind = "group" THEN "group" ELSE IF trusted THEN "trusted" ELSE "ordinary"]

(* A deleted subject, and the one that came after it, have none of its own *)
(* limits.                                                                 *)
Subjects == [user |-> person, group |-> group]
IsCurrent(kind, gen) == Subjects[kind].active /\ Subjects[kind].gen = gen
Own(f, kind, gen) == {b \in Buckets(f) : IsCurrent(kind, gen) /\ <<kind, gen, b>> \in overrides}

LimitsFor(f, kind, gen, trusted) ==
  LET defaults == Defaults(f, kind, trusted)
      own == Own(f, kind, gen) IN
  [b \in DOMAIN defaults \cup own |-> IF b \in own THEN "override" ELSE defaults[b]]

Covered(f, limits) == Buckets(f) \subseteq DOMAIN limits

(* The provider is charged in the bucket that its two features share.      *)
OfFamily(f, limits) ==
  [b \in DOMAIN limits \cap (IF f \in Captures THEN {Definition[f].family} ELSE Buckets(f)) |-> limits[b]]

Direct(e) == e.chat = "private" \/ e.trigger = "direct"
SubjectKind(e) == IF Direct(e) THEN "user" ELSE "group"
SubjectGen(e) == Subjects[SubjectKind(e)].gen
SubjectActive(e) == IF Direct(e) THEN e.actor /\ person.active ELSE group.active

\* Fault: the sender's trust and role count for the group too.
UsageOfSender(f, e) ==
  [kind |-> SubjectKind(e), bypass |-> BotAdmin,
   limits |-> OfFamily(f, LimitsFor(f, IF person.trusted THEN "user" ELSE SubjectKind(e),
                               SubjectGen(e), person.trusted))]

(* The worker resolves subject, limits and bypass in one session.          *)
Usage(f, e) ==
  [kind |-> SubjectKind(e), bypass |-> Direct(e) /\ BotAdmin,
   limits |-> OfFamily(f, LimitsFor(f, SubjectKind(e), SubjectGen(e), Direct(e) /\ person.trusted))]

(* Whether the subject that is there has limits of its own.                *)
Charged(c) == IF c = "media" THEN Splits[1] ELSE c
Given(e) ==
  \E b \in DOMAIN OfFamily(Charged(e.command), [b \in Buckets(Charged(e.command)) |-> "own"]) :
    SubjectActive(e) /\ <<SubjectKind(e), SubjectGen(e), b>> \in overrides
----------------------------------------------------------------------------
(* Requirements, for the history: what the documents demand, by name.      *)

(* docs/architecture.md, feature availability.                             *)
Usable(f, e) ==
  LET automatic == e.chat = "group" /\ e.trigger = "automatic"
      d == Definition[f] IN
  /\ {e.chat} \subseteq d.scopes /\ {e.trigger} \subseteq d.triggers
  /\ StopKey(f) \notin switches.stopped
  /\ automatic \/ (e.actor /\ person.active /\ ~person.banned)
  /\ Selected(f, e.chat)
  /\ e.chat = "private" => /\ ~d.needs /\ (person.trusted \/ person.admin)
                           /\ d.channel = "beta" => person.entitled
  /\ e.chat = "group" => /\ group.active /\ ~group.banned /\ group.approved
                         /\ group.fresh /\ group.blocker = "none"
                         /\ d.needs => group.rights
                         /\ d.channel = "beta" => group.supported

(* Whether target and sender are still those of which the handlers read.   *)
SameTarget ==
  IF req.e.chat = "private" THEN person.active /\ person.gen = req.target
  ELSE group.active /\ group.gen = req.target
SameAuthor == req.author = 0 \/ (person.active /\ person.gen = req.author)

Names == {"free", "admin", "trusted", "local", "present", "unbanned", "fresh", "clear",
          "approved", "same", "author", "given"} \cup Features

Satisfied ==
  LET holds(n) ==
        CASE n = "free" -> ~person.banned       [] n = "admin" -> BotAdmin
          [] n = "trusted" -> person.active /\ person.trusted
          [] n = "local" -> person.local        [] n = "present" -> group.active
          [] n = "unbanned" -> ~group.banned    [] n = "fresh" -> group.fresh
          [] n = "clear" -> group.blocker = "none"
          [] n = "approved" -> group.approved
          [] n = "same" -> req.target = 0 \/ SameTarget
          [] n = "author" -> SameAuthor
          [] n = "given" -> req.e.command \notin Plain /\ Given(req.e)
          [] n \in Features -> Usable(n, req.e)
  IN  {n \in Names : holds(n)}

(* A stage begins when the request arrives, when its handler starts, when  *)
(* the worker takes it and when its media has been extracted.              *)
Track(begins) ==
  IF req' = Nowhere THEN met' = {} /\ unmet' = {}
  ELSE /\ met' = (IF begins THEN {} ELSE met) \cup Satisfied'
       /\ unmet' = (IF begins THEN {} ELSE unmet) \cup (Names \ Satisfied')

Step == UNCHANGED <<facts, changes>> /\ Track(FALSE)
Begin == UNCHANGED <<facts, changes>> /\ Track(TRUE)
Goes(at) == req' = [req EXCEPT !.at = at] /\ Step
----------------------------------------------------------------------------
(* The middleware: a feature is evaluated, any other command screened.     *)

Ended == {"denied", "dropped", "configured", "refused", "abandoned", "cancelled",
          "failed", "skipped", "uncertain", "rejected", "charged", "unsettled"}

Arrive(e) ==
  /\ req = Nowhere
  /\ req' = [at |-> IF Keys(e.command) # << >> THEN "checking"
                    ELSE IF e.command = "admin" /\ e.chat = "group" THEN "denied" ELSE "screening",
             e |-> e, left |-> Keys(e.command), seen |-> [n \in {"active"} |-> FALSE],
             ok |-> FALSE, author |-> 0, target |-> 0, epoch |-> 0, usage |-> << >>, f |-> "none"]
  /\ Begin

Leave == req.at \in Ended /\ req' = Nowhere /\ Begin

(* Either feature of a provider lets its links in.                         *)
Check ==
  /\ req.at = "checking"
  /\ LET allowed == Evaluate(Head(req.left), req.e, FALSE) IN
     req' = [req EXCEPT !.left = Tail(@),
               !.at = IF allowed THEN "entered" ELSE IF Len(req.left) = 1 THEN "denied" ELSE @]
  /\ Step

\* Fault: an administrator's restriction is not looked at.
ScreenPrivateByRole ==
  /\ req.at = "screening" /\ req.e.chat = "private"
  /\ Goes(IF person.banned /\ ~BotAdmin THEN "denied" ELSE "role")

(* _handle_private_chat: a restriction, then the role, then trust.         *)
ScreenPrivate ==
  /\ req.at = "screening" /\ req.e.chat = "private"
  /\ Goes(IF person.banned THEN "denied" ELSE "role")

Role ==
  /\ req.at = "role"
  /\ Goes(IF BotAdmin \/ req.e.command = "settings" THEN "entered"
          ELSE IF req.e.command = "admin" THEN "denied" ELSE "trust")

Trust ==
  /\ req.at = "trust"
  /\ Goes(IF person.active /\ person.trusted THEN "entered" ELSE "denied")

(* evaluate_access reads the facts of a group one by one.                  *)
StartsReading(at) ==
  req' = [req EXCEPT !.at = at, !.left = Reads, !.seen = [n \in {"active"} |-> FALSE]]

ScreenGroup ==
  /\ req.at = "screening" /\ req.e.chat = "group"
  /\ IF req.e.actor /\ person.banned THEN Goes("denied") ELSE StartsReading("policy") /\ Step

Read ==
  /\ req.at \in {"policy", "approval"} /\ req.left # << >>
  /\ LET n == Head(req.left) IN
     req' = [req EXCEPT !.seen = [m \in DOMAIN @ \cup {n} |-> IF m = n THEN group[n] ELSE @[m]],
                        !.left = IF n = "active" /\ ~group.active THEN << >> ELSE Tail(@)]
  /\ Step

(* A restricted group and one that is gone are closed to everyone; one     *)
(* with a restricted or unverified administrator to what needs approval.   *)
GroupPolicy ==
  /\ req.at = "policy" /\ req.left = << >>
  /\ LET closed == {"banned", "unavailable"}
                   \cup IF req.e.command = "settings" THEN {"unverified", "admin banned"} ELSE {} IN
     Goes(IF Reason(req.seen) \in closed THEN "denied" ELSE "again")

Again ==
  /\ req.at = "again"
  /\ Goes(IF req.e.actor /\ person.banned THEN "denied" ELSE "authority")

Authority ==
  /\ req.at = "authority"
  /\ Goes(IF (req.e.actor /\ BotAdmin) \/ req.e.command = "help" THEN "entered" ELSE "live")

(* Telegram confirms an administrator; without an answer there is none.    *)
Live ==
  /\ req.at = "live"
  /\ IF req.e.actor /\ person.local THEN StartsReading("approval") /\ Step ELSE Goes("denied")

Approval ==
  /\ req.at = "approval" /\ req.left = << >>
  /\ Goes(IF Reason(req.seen) = "allowed" THEN "entered" ELSE "denied")

(* The settings offer what their reader may configure.                     *)
Configure(f) ==
  /\ req.at = "entered" /\ req.e.command = "settings"
  /\ Goes(IF Evaluate(f, req.e, TRUE) THEN "configured" ELSE "refused")

Answer == req.at = "entered" /\ req.e.command \in {"help", "admin"} /\ Goes("refused")
----------------------------------------------------------------------------
(* The handler of links, and what admission reads.                         *)

(* A deleted person is not taken up anew; a channel has no sender.         *)
Sender ==
  /\ req.at = "entered" /\ req.e.command \notin Plain
  /\ req' = IF req.e.actor /\ ~person.active THEN [req EXCEPT !.at = "dropped"]
            ELSE [req EXCEPT !.at = "sender", !.author = IF req.e.actor THEN person.gen ELSE 0]
  /\ Begin

(* Everything in a private chat is direct work of its user.                *)
Target ==
  /\ req.at = "sender"
  /\ LET e == req.e
         there == IF e.chat = "private" THEN person.active ELSE group.active IN
     req' = IF ~there \/ (Direct(e) /\ ~e.actor) THEN [req EXCEPT !.at = "dropped"]
            ELSE [req EXCEPT !.at = "addressed",
                             !.target = IF e.chat = "private" THEN person.gen ELSE group.gen,
                             !.e.trigger = IF e.chat = "private" THEN "direct" ELSE @]
  /\ Step

(* _current: the sender first; of a private chat it is the target.         *)
CurrentActor ==
  /\ req.at = "addressed"
  /\ Goes(IF ~SameAuthor \/ (req.e.chat = "private" /\ ~SameTarget) THEN "denied"
          ELSE IF req.e.chat = "private" THEN "current" ELSE "authored")

CurrentGroup ==
  /\ req.at = "authored"
  /\ Goes(IF SameTarget THEN "current" ELSE "denied")

ReadStop ==
  /\ req.at = "current"
  /\ LET k == req.e.command IN
     req' = [req EXCEPT !.at = IF k \in switches.stopped THEN "denied" ELSE "stamped",
                        !.epoch = switches.epoch[k], !.left = Keys(req.e.command), !.ok = FALSE]
  /\ Step

(* Both features of a provider are evaluated, one after the other.         *)
Capture ==
  /\ req.at = "stamped"
  /\ LET ok == req.ok \/ Evaluate(Head(req.left), req.e, FALSE) IN
     req' = [req EXCEPT !.ok = ok, !.left = Tail(@),
               !.at = IF Len(req.left) > 1 THEN @ ELSE IF ok THEN "captured" ELSE "denied"]
  /\ Step

(* Who is charged, whether as an administrator, and under which limits.    *)
Subject ==
  /\ req.at = "captured"
  /\ req' = IF SubjectActive(req.e)
            THEN [req EXCEPT !.at = "subject",
                    !.usage = [kind |-> SubjectKind(req.e), gen |-> SubjectGen(req.e), trusted |-> Direct(req.e) /\ person.trusted]]
            ELSE [req EXCEPT !.at = "dropped"]
  /\ Step

Bypass ==
  /\ req.at = "subject"
  /\ req' = [req EXCEPT !.at = "bypass", !.ok = req.usage.kind = "user" /\ BotAdmin]
  /\ Step

Overrides ==
  /\ req.at = "bypass"
  /\ LET f == Charged(req.e.command)
         limits == LimitsFor(f, req.usage.kind, req.usage.gen, req.usage.trusted) IN
     req' = IF Covered(f, limits)
            THEN [req EXCEPT !.at = "queued",
                    !.usage = [kind |-> req.usage.kind, bypass |-> req.ok, limits |-> OfFamily(f, limits)]]
            ELSE [req EXCEPT !.at = "dropped"]
  /\ Step
----------------------------------------------------------------------------
(* The worker.                                                             *)

Resolvable(f, e) == SubjectActive(e) /\ Covered(f, LimitsFor(f, SubjectKind(e), SubjectGen(e), Direct(e) /\ person.trusted))

(* Limits that cannot be resolved leave the ticket to the sweep.           *)
WorkerReserves ==
  /\ req.at = "queued"
  /\ LET f == Charged(req.e.command) IN
     req' = IF Resolvable(f, req.e) THEN [req EXCEPT !.at = "reserved", !.usage = Usage(f, req.e)]
            ELSE [req EXCEPT !.at = "abandoned"]
  /\ Begin

CheckStop ==
  /\ req.at = "reserved"
  /\ LET k == req.e.command IN
     Goes(IF k \in switches.stopped \/ switches.epoch[k] # req.epoch THEN "cancelled" ELSE "running")

(* What the media is decides the feature; only providers have a client.    *)
Extract(f) ==
  /\ req.at = "running" /\ f \in Captures
  /\ req' = IF req.e.command = "media" THEN [req EXCEPT !.at = "extracted", !.f = f]
            ELSE [req EXCEPT !.at = "failed"]
  /\ Begin

TargetGate ==
  /\ req.at = "extracted"
  /\ Goes(IF SameTarget THEN "gated" ELSE "skipped")

SplitGate ==
  /\ req.at = "gated"
  /\ Goes(IF Evaluate(req.f, req.e, FALSE) THEN "cleared" ELSE "skipped")

Deliver(outcome) == req.at = "cleared" /\ Goes(outcome)

(* The charge is resolved after the delivery.                              *)
Settle ==
  /\ req.at = "delivered"
  /\ Goes(IF Resolvable(req.f, req.e) THEN "charged" ELSE "unsettled")
----------------------------------------------------------------------------
(* Facts change under a request on its way.                                *)

Changes ==
  /\ req.at \notin Ended
  /\ changes < MaxChanges /\ changes' = changes + 1 /\ UNCHANGED req
Turned(r, n) == [r EXCEPT ![n] = ~@]

(* Whoever and whatever comes back after a deletion has a new generation.  *)
Lifecycle(r) == IF r.active THEN [r EXCEPT !.active = FALSE] ELSE [r EXCEPT !.active = TRUE, !.gen = @ + 1]

ChangePerson ==
  /\ Changes /\ UNCHANGED <<group, switches, overrides>>
  /\ \/ person' = Lifecycle(person)
     \/ \E n \in {"admin", "trusted", "banned", "local", "evidence", "entitled"} : person' = Turned(person, n)
  /\ Track(FALSE)

ChangeGroup ==
  /\ Changes /\ UNCHANGED <<person, switches, overrides>>
  /\ \/ group' = Lifecycle(group)
     \/ \E n \in {"banned", "fresh", "approved", "rights", "supported"} : group' = Turned(group, n)
     \/ \E b \in {"none", "admin", "unknown"} \ {group.blocker} : group' = [group EXCEPT !.blocker = b]
  /\ Track(FALSE)

(* FeatureStop is told in the jobs' module: an epoch for every toggle.     *)
Toggled(S, k) == IF k \in S THEN S \ {k} ELSE S \cup {k}

ChangeSwitches ==
  /\ Changes /\ UNCHANGED <<person, group>>
  /\ \/ \E k \in DOMAIN switches.epoch :
          switches' = [switches EXCEPT !.stopped = Toggled(@, k), !.epoch[k] = @ + 1]
     \/ \E c \in Chats, f \in Features :
          switches' = [switches EXCEPT !.on[c] = Toggled(@, f), !.legacy = c = "private" /\ @]
  /\ UNCHANGED overrides /\ Track(FALSE)

(* An administrator gives limits to the active generation, or takes them   *)
(* back: at the terminal, or in private with the role and unrestricted.    *)
MayAdminister(origin) == origin = "cli" \/ (BotAdmin /\ ~person.banned)
KnownBuckets == UNION {Buckets(f) : f \in Features}

(* One row for a bucket: to remove what is not there changes nothing.      *)
Written(row, remove) ==
  /\ IsCurrent(row[1], row[2])
  /\ remove <=> row \in overrides
  /\ overrides' = IF remove THEN overrides \ {row} ELSE overrides \cup {row}

SetOverride(origin, kind, b, remove) ==
  /\ Changes /\ UNCHANGED <<person, group, switches>>
  /\ MayAdminister(origin)
  /\ Written(<<kind, Subjects[kind].gen, b>>, remove)
  /\ Track(FALSE)
----------------------------------------------------------------------------
AccessInit ==
  /\ person \in [active : {TRUE}, gen : {1}, admin : BOOLEAN, trusted : BOOLEAN, banned : {FALSE},
                 local : {TRUE}, evidence : {TRUE}, entitled : {TRUE}]
  /\ group = [active |-> TRUE, gen |-> 1, banned |-> FALSE, fresh |-> TRUE, blocker |-> "none",
              approved |-> TRUE, rights |-> TRUE, supported |-> TRUE]
  /\ switches \in
       [on : {[c \in Chats |-> Features], [c \in Chats |-> {}]}, legacy : {TRUE}, stopped : {{}},
        epoch : {[k \in {StopKey(f) : f \in Features} |-> 0]}]
  /\ overrides = {"user", "group"} \X {1} \X UNION {Buckets(f) : f \in Features \ Captures}
  /\ req = Nowhere /\ changes = 0 /\ met = {} /\ unmet = {}

AccessNext ==
  \/ (\E e \in Events : Arrive(e)) \/ Leave
  \/ Check \/ ScreenPrivate \/ Role \/ Trust
  \/ ScreenGroup \/ Read \/ GroupPolicy \/ Again \/ Authority \/ Live \/ Approval
  \/ \E f \in Features : Configure(f) \/ Extract(f)
  \/ Answer \/ Sender \/ Target \/ CurrentActor \/ CurrentGroup \/ ReadStop \/ Capture
  \/ Subject \/ Bypass \/ Overrides
  \/ WorkerReserves \/ CheckStop \/ TargetGate \/ SplitGate \/ Settle
  \/ \E outcome \in {"delivered", "uncertain", "rejected"} : Deliver(outcome)
  \/ ChangePerson \/ ChangeGroup \/ ChangeSwitches
  \/ \E origin \in {"cli", "telegram"}, kind \in DOMAIN Subjects, b \in KnownBuckets,
        remove \in BOOLEAN : SetOverride(origin, kind, b, remove)

AccessSpec == AccessInit /\ [][AccessNext]_accessVars
----------------------------------------------------------------------------
(* Whatever was read from the database and remembered across the reads of  *)
(* other facts, a request passes a stage only if each of its requirements  *)
(* held at some moment of that stage: restrictions, role, approval and     *)
(* evidence for a command (AccessMiddleware, AccessService), some feature  *)
(* of the provider for the admission of a link, and for a delivery the     *)
(* feature and the target, since the media was extracted.                  *)
Passes(at) == req'.at = at /\ req.at # at

EntersGroup ==
  /\ {"present", "unbanned"} \subseteq met'
  /\ req.e.actor => "free" \in met'
  /\ req.e.command = "settings" =>
       /\ req.e.actor /\ {"fresh", "clear"} \subseteq met'
       /\ "admin" \in met' \/ {"local", "approved"} \subseteq met'

EntersPrivate ==
  /\ "free" \in met'
  /\ \/ "admin" \in met' \/ req.e.command = "settings"
     \/ req.e.command = "help" /\ "trusted" \in met'

AllowedStep ==
  /\ Passes("entered") =>
       IF Keys(req.e.command) # << >> THEN \E i \in DOMAIN Keys(req.e.command) : Keys(req.e.command)[i] \in met'
       ELSE IF req.e.chat = "group" THEN EntersGroup ELSE EntersPrivate
  /\ Passes("queued") =>
       /\ {"same", "author"} \subseteq met'
       /\ \E i \in DOMAIN Keys(req.e.command) : Keys(req.e.command)[i] \in met'
  /\ Passes("delivered") => {req.f, "same"} \subseteq met'

OnlyIfAllowed == [][AllowedStep]_accessVars

(* Nothing is refused that was allowed all the while: a restricted sender  *)
(* does not stop a group's automatic work, doubts about administrators do  *)
(* not stop the help, a new generation stops what was sent to the old.     *)
Barred(n) == n \in unmet'

CommandBarred ==
  IF req'.e.chat = "group"
  THEN \/ req'.e.command = "admin" \/ (req'.e.actor /\ Barred("free"))
       \/ Barred("present") \/ Barred("unbanned")
       \/ /\ req'.e.command = "settings"
          /\ \/ Barred("fresh") \/ Barred("clear")
             \/ /\ ~req'.e.actor \/ Barred("admin")
                /\ ~req'.e.actor \/ Barred("local") \/ Barred("approved")
  ELSE \/ Barred("free")
       \/ /\ Barred("admin")
          /\ req'.e.command = "admin" \/ (req'.e.command = "help" /\ Barred("trusted"))

CausedStep ==
  Passes("denied") =>
    IF Keys(req'.e.command) = << >> THEN CommandBarred
    ELSE \/ Barred("same") \/ Barred("author")
         \/ \A i \in DOMAIN Keys(req'.e.command) : Barred(Keys(req'.e.command)[i])

RefusedForCause == [][CausedStep]_accessVars

(* The bot admits and the worker reserves under the limits of the subject: *)
(* automatic work of a group under the group's, whatever its sender is;    *)
(* direct work under its sender's, without limits for an administrator     *)
(* only, never under no limits at all, and under limits of its own only if *)
(* they were given to this generation of it.                               *)
LimitedStep ==
  Passes("queued") \/ Passes("reserved") =>
    LET u == req'.usage
        tiers == {u.limits[b] : b \in DOMAIN u.limits} IN
    /\ tiers # {}
    /\ "override" \in tiers => "given" \in met'
    /\ IF Direct(req'.e)
       THEN /\ u.kind = "user" /\ "group" \notin tiers
            /\ u.bypass => "admin" \in met'
            /\ "trusted" \in tiers => "trusted" \in met'
            /\ "ordinary" \in tiers => "trusted" \in unmet'
       ELSE u.kind = "group" /\ ~u.bypass /\ tiers \subseteq {"group", "override"}

LimitsOfTheSubject == [][LimitedStep]_accessVars

=============================================================================
