------------------------------- MODULE Groups -------------------------------
(***************************************************************************)
(* A group's activation and what its managers select: requests for access  *)
(* and their decisions, approvals and their withdrawal, the features that  *)
(* are on, and a beta feature with the people who support it.  A           *)
(* transaction of a store is one step; a handler that reads before its     *)
(* transaction, or makes several, remembers what it read in a call.        *)
(***************************************************************************)
EXTENDS Naturals, Sequences, FiniteSets

CONSTANTS
  Users,
  BotAdmins, Trusted,  \* users with the role of an administrator, or trusted
  Locals,              \* users Telegram may report as the group's administrators
  Calls,               \* handlers at work
  MaxRequests,         \* bound: requests for access
  MaxChanges           \* bound: changes by Telegram, administrators and recovery

Captures == <<"video", "post">>   \* the two children of a provider, on by default
Commands == {"video", "post"}
Idle == [op |-> "idle"]

ASSUME GroupsAssumption ==
  /\ BotAdmins \cup Trusted \cup Locals \subseteq Users
  /\ MaxRequests \in Nat /\ MaxChanges \in Nat

VARIABLES
  group,      \* the row: generation, status, approvals, selection
  request,    \* requests for access, of this row and of those before
  beta,       \* the beta feature: selected, supporters, grants
  people,     \* who administers the group, is banned, deleted; the group's ban
  call,       \* what each handler remembers
  changes,
  decided     \* history: is it approved, by the decisions; off by choice; support since the last off

vars == <<group, request, beta, people, call, changes, decided>>

Changed == changes < MaxChanges /\ changes' = changes + 1

FreshGroup(gen) ==
  [gen |-> gen, status |-> "unauthorized", bases |-> {}, revoked |-> FALSE,
   configured |-> FALSE, legacy |-> FALSE, on |-> {}]
NoBeta == [selected |-> "none", enablers |-> {}, granted |-> FALSE, eligible |-> {}]

(* A group of before approvals were recorded has only its status, or an    *)
(* approval on that basis, and may capture by default.                     *)
LegacyGroup(bases, captures) ==
  [FreshGroup(1) EXCEPT !.status = "approved", !.bases = bases, !.legacy = captures]

Init ==
  /\ \/ group = FreshGroup(1)
     \/ \E b \in {{}, {"legacy"}}, c \in BOOLEAN : group = LegacyGroup(b, c)
  /\ request = << >>
  /\ \E g \in BOOLEAN, e \in SUBSET Locals : beta = [NoBeta EXCEPT !.granted = g, !.eligible = e]
  /\ people = [admins |-> Locals, banned |-> {}, gone |-> {}, restricted |-> FALSE]
  /\ call = [h \in Calls |-> Idle]
  /\ changes = 0
  /\ decided = [approved |-> group.status = "approved", off |-> {}, support |-> {}]
----------------------------------------------------------------------------
(* Authority.                                                              *)

Known(u) == u \notin people.gone
Usable(u) == Known(u) /\ u \notin people.banned
(* The policy's two rules for a group's settings: role, or evidence.       *)
Configures(u) == Usable(u) /\ (u \in BotAdmins \/ u \in people.admins)

(* _execute: the exact row, an actor who is known and not banned, and a    *)
(* group that is not restricted.                                           *)
Admissible(u, gen) == Usable(u) /\ gen = group.gen /\ ~people.restricted
----------------------------------------------------------------------------
(* Activation.                                                             *)

\* Fault: a withdrawn approval leaves the status, which still approves.
ApprovedByStatus(g) == g.bases # {} \/ g.status = "approved"

Approved(g) == g.bases # {} \/ (g.status = "approved" /\ ~g.revoked)

Pending == {r \in DOMAIN request : request[r].gen = group.gen /\ request[r].state = "pending"}

(* The features of a group that was never approved or configured.          *)
TakesDefaults(g) ==
  ~Approved(g) /\ g.bases = {} /\ ~g.revoked /\ ~g.configured /\ g.on = {} /\ ~g.legacy

Activated(g) ==
  [g EXCEPT !.status = "approved",
            !.bases = IF Approved(g) THEN @ ELSE @ \cup {"explicit"},
            !.on = IF TakesDefaults(g) THEN Commands ELSE @,
            !.configured = @ \/ TakesDefaults(g)]

Closed(state) == [r \in DOMAIN request |->
                    IF r \in Pending THEN [request[r] EXCEPT !.state = state] ELSE request[r]]

Approve ==
  IF Approved(group) /\ Pending = {}
    THEN UNCHANGED <<group, request, decided>>
    ELSE /\ group' = Activated(group)
         /\ request' = Closed("approved")
         /\ decided' = [decided EXCEPT !.approved = TRUE]

Request(u) ==
  IF Approved(group) \/ Pending # {}
    THEN UNCHANGED <<group, request, decided>>
    ELSE /\ Len(request) < MaxRequests
         /\ request' = Append(request, [gen |-> group.gen, by |-> u, state |-> "pending"])
         /\ group' = [group EXCEPT !.status = "pending"]
         /\ UNCHANGED decided

(* _group_admin_evidence: Telegram is asked, for known people without      *)
(* another authority, before the transaction.                              *)
AskEnable(h, u) ==
  /\ call[h] = Idle
  /\ call' = [call EXCEPT ![h] =
       [op |-> "enable", user |-> u, gen |-> group.gen,
        proof |-> Known(u) /\ u \notin BotAdmins \cup Trusted /\ u \in people.admins]]
  /\ UNCHANGED <<group, request, beta, people, changes, decided>>

Enable(h) ==
  LET c == call[h] IN
  /\ c.op = "enable"
  /\ IF ~Admissible(c.user, c.gen) THEN UNCHANGED <<group, request, decided>>
     ELSE IF c.user \in BotAdmins \cup Trusted THEN Approve
     ELSE \E fresh \in BOOLEAN :
            IF c.proof /\ fresh THEN Request(c.user) ELSE UNCHANGED <<group, request, decided>>
  /\ call' = [call EXCEPT ![h] = Idle]
  /\ UNCHANGED <<beta, people, changes>>

(* An administrator's direct approval, in private or on the command line.  *)
Grant ==
  /\ ~people.restricted /\ Approve
  /\ UNCHANGED <<beta, people, call, changes>>

(* The buttons of a request name the row, its generation and the request.  *)
Press(h, u, r, verdict) ==
  /\ call[h] = Idle /\ r \in DOMAIN request
  /\ call' = [call EXCEPT ![h] = [op |-> "decide", user |-> u, request |-> r, verdict |-> verdict]]
  /\ UNCHANGED <<group, request, beta, people, changes, decided>>

Reject ==
  /\ group' = IF Approved(group) THEN group ELSE [group EXCEPT !.status = "rejected"]
  /\ request' = Closed("rejected")
  /\ UNCHANGED decided

\* Fault: the button decides whatever request is pending.
DecideAny(h) ==
  LET c == call[h] IN
  /\ c.op = "decide"
  /\ IF ~Admissible(c.user, request[c.request].gen) \/ c.user \notin BotAdmins \/ Pending = {}
       THEN UNCHANGED <<group, request, decided>>
       ELSE IF c.verdict = "approve" THEN Approve ELSE Reject
  /\ call' = [call EXCEPT ![h] = Idle]
  /\ UNCHANGED <<beta, people, changes>>

Decide(h) ==
  LET c == call[h]
      stale == Pending # {c.request} \/ ~Known(request[c.request].by)
  IN
  /\ c.op = "decide"
  /\ IF ~Admissible(c.user, request[c.request].gen) \/ c.user \notin BotAdmins \/ stale
       THEN UNCHANGED <<group, request, decided>>
       ELSE IF c.verdict = "approve" THEN Approve ELSE Reject
  /\ call' = [call EXCEPT ![h] = Idle]
  /\ UNCHANGED <<beta, people, changes>>

(* revoke_approval: one basis; the status is left as it was.               *)
Revoke(basis) ==
  /\ Changed /\ basis \in group.bases
  /\ group' = [group EXCEPT !.bases = @ \ {basis}, !.revoked = TRUE]
  /\ decided' = [decided EXCEPT !.approved = group.bases # {basis}]
  /\ UNCHANGED <<request, beta, people, call>>

(* The bot is added: the status is read, and written in another step.      *)
Join(h) ==
  /\ call[h] = Idle /\ group.status = "unauthorized"
  /\ call' = [call EXCEPT ![h] = [op |-> "join"]]
  /\ UNCHANGED <<group, request, beta, people, changes, decided>>

Joined(h) ==
  /\ call[h].op = "join"
  /\ group' = [group EXCEPT !.status = "unauthorized"]
  /\ call' = [call EXCEPT ![h] = Idle]
  /\ UNCHANGED <<request, beta, people, changes, decided>>
----------------------------------------------------------------------------
(* Selection of features.                                                  *)

(* _record_explicit_selection.                                             *)
Chosen(g) == [g EXCEPT !.configured = TRUE, !.legacy = FALSE]

Selected(g, c, on) == [Chosen(g) EXCEPT !.on = IF on THEN @ \cup {c} ELSE @ \ {c}]

(* toggle: a feature, or a provider's two, by what was read before; the    *)
(* provider is on when one of its children is.                             *)
Toggle(h, u, which) ==
  /\ call[h] = Idle /\ Known(u)
  /\ call' = [call EXCEPT ![h] =
       [op |-> "toggle", user |-> u, left |-> which,
        on |-> \A i \in DOMAIN which : which[i] \notin group.on]]
  /\ UNCHANGED <<group, request, beta, people, changes, decided>>

(* The store's transaction for one feature.                                *)
Select(feature, on) ==
  /\ group' = Selected(group, feature, on)
  /\ decided' = [decided EXCEPT !.off = IF on THEN @ \ {feature} ELSE @ \cup {feature}]

Write(h) ==
  LET c == call[h] IN
  /\ c.op = "toggle"
  /\ IF ~Configures(c.user)
       THEN UNCHANGED <<group, decided>> /\ call' = [call EXCEPT ![h] = Idle]
       ELSE /\ Select(Head(c.left), c.on)
            /\ call' = [call EXCEPT ![h] = IF Len(c.left) = 1 THEN Idle
                                           ELSE [c EXCEPT !.left = Tail(@)]]
  /\ UNCHANGED <<request, beta, people, changes>>

LegacyCapture == group.legacy /\ group.on = {}

(* is_capture_allowed: what is on, or all of it in an old group that never *)
(* selected anything.                                                      *)
CaptureAllowed(c) == c \in group.on \/ LegacyCapture
----------------------------------------------------------------------------
(* The beta feature.                                                       *)

Supporting(u) == Known(u) /\ u \in people.admins /\ u \in beta.eligible
Available == beta.selected = "on" /\ (beta.granted \/ \E u \in beta.enablers : Supporting(u))

(* set_enabled: local support, or a bot administrator on a group's grant.  *)
MaySupport(u) == u \in people.admins /\ u \in beta.eligible
TurnOn(u) ==
  IF MaySupport(u)
    THEN /\ beta' = [beta EXCEPT !.selected = "on", !.enablers = @ \cup {u}]
         /\ decided' = [decided EXCEPT !.support = @ \cup {u}]
    ELSE IF u \in BotAdmins /\ beta.granted
    THEN beta' = [beta EXCEPT !.selected = "on"] /\ UNCHANGED decided
    ELSE UNCHANGED <<beta, decided>>

\* Fault: supporters are kept when the feature is turned off.
TurnOffKeeping ==
  IF beta.selected = "none" THEN UNCHANGED <<beta, decided>>
  ELSE /\ beta' = [beta EXCEPT !.selected = "off"]
       /\ decided' = [decided EXCEPT !.support = {}]

TurnOff ==
  IF beta.selected = "none" THEN UNCHANGED <<beta, decided>>
  ELSE /\ beta' = [beta EXCEPT !.selected = "off", !.enablers = {}]
       /\ decided' = [decided EXCEPT !.support = {}]

(* set_group_beta reads the group; what it names is changed in a           *)
(* transaction, which looks again.                                         *)
AskBeta(h, u, enabled) ==
  /\ call[h] = Idle
  /\ call' = [call EXCEPT ![h] = [op |-> "beta", user |-> u, gen |-> group.gen, on |-> enabled]]
  /\ UNCHANGED <<group, request, beta, people, changes, decided>>

(* The announcement's button: authority and the group's grant are read,    *)
(* the decision is kept, and the activation is a transaction of its own.   *)
Accept(h, u) == Configures(u) /\ beta.granted /\ AskBeta(h, u, TRUE)

SetBeta(h) ==
  LET c == call[h] IN
  /\ c.op = "beta"
  /\ IF ~Admissible(c.user, c.gen) \/ ~Configures(c.user) THEN UNCHANGED <<beta, decided>>
     ELSE IF c.on THEN TurnOn(c.user) ELSE TurnOff
  /\ call' = [call EXCEPT ![h] = Idle]
  /\ UNCHANGED <<group, request, people, changes>>

GrantGroup(granted) ==
  /\ Changed /\ beta.granted # granted
  /\ beta' = [beta EXCEPT !.granted = granted]
  /\ UNCHANGED <<group, request, people, call, decided>>

GrantUser(u, granted) ==
  /\ Changed /\ (u \in beta.eligible) # granted
  /\ beta' = [beta EXCEPT !.eligible = IF granted THEN @ \cup {u} ELSE @ \ {u}]
  /\ UNCHANGED <<group, request, people, call, decided>>
----------------------------------------------------------------------------
(* What others change meanwhile.                                           *)

Promote(u) ==
  /\ Changed /\ u \in Locals
  /\ people' = [people EXCEPT !.admins = IF u \in @ THEN @ \ {u} ELSE @ \cup {u}]
  /\ UNCHANGED <<group, request, beta, call, decided>>

Ban(u) ==
  /\ Changed
  /\ people' = [people EXCEPT !.banned = IF u \in @ THEN @ \ {u} ELSE @ \cup {u}]
  /\ UNCHANGED <<group, request, beta, call, decided>>

BanGroup ==
  /\ Changed
  /\ people' = [people EXCEPT !.restricted = ~@]
  /\ UNCHANGED <<group, request, beta, call, decided>>

Delete(u) ==
  /\ Changed /\ u \notin people.gone
  /\ people' = [people EXCEPT !.gone = @ \cup {u}]
  /\ UNCHANGED <<group, request, beta, call, decided>>

(* The group is deleted and recovered as a new row.                        *)
Recreate ==
  /\ Changed /\ group.gen = 1
  /\ group' = FreshGroup(2)
  /\ beta' = [beta EXCEPT !.selected = "none", !.enablers = {}, !.granted = FALSE]
  /\ decided' = [approved |-> FALSE, off |-> {}, support |-> {}]
  /\ UNCHANGED <<request, people, call>>
----------------------------------------------------------------------------

Next ==
  \/ \E h \in Calls, u \in Users : AskEnable(h, u) \/ Accept(h, u) \/ \E on \in BOOLEAN : AskBeta(h, u, on)
  \/ \E h \in Calls : Enable(h) \/ Decide(h) \/ Join(h) \/ Joined(h) \/ Write(h) \/ SetBeta(h)
  \/ \E h \in Calls, u \in BotAdmins, r \in 1 .. MaxRequests, v \in {"approve", "reject"} :
       Press(h, u, r, v)
  \/ \E h \in Calls, u \in Users, w \in {<<"video">>, <<"post">>, Captures} : Toggle(h, u, w)
  \/ Grant
  \/ \E basis \in {"explicit", "legacy"} : Revoke(basis)
  \/ \E u \in Users, b \in BOOLEAN : GrantUser(u, b)
  \/ \E b \in BOOLEAN : GrantGroup(b)
  \/ \E u \in Users : Promote(u) \/ Ban(u) \/ Delete(u)
  \/ BanGroup \/ Recreate

Spec == Init /\ [][Next]_vars
----------------------------------------------------------------------------

\* A group is approved exactly when the last decision about it says so: neither the status that the
\* bot's arrival, a request or a rejection writes, nor the one an approval leaves behind when it is
\* withdrawn, approves a group or takes an approval away.
ApprovalFollowsDecisions == Approved(group) <=> decided.approved

\* A group has one request at a time, whoever made it; a request is decided once, and rejected only
\* by its own buttons: those of an earlier request or of a group that was recreated decide nothing.
DecidedByItsButtons ==
  [][/\ Cardinality(Pending) <= 1
     /\ \A r \in DOMAIN request :
          /\ request[r].state # "pending" => request'[r] = request[r]
          /\ request'[r].state = "rejected" /\ request[r].state = "pending" =>
               \E h \in Calls : call[h].op = "decide" /\ call[h].request = r /\ call'[h] = Idle]_vars

\* What a manager turned off is not captured until a manager turns it on: neither a later approval's
\* defaults nor the capture of old groups bring it back.
OffStays == \A c \in decided.off : ~CaptureAllowed(c)

\* Without a grant of its own a group has the beta feature only while somebody supports it who did
\* so after it was last turned off: support of before does not come back with a later selection.
SupportIsCurrent == Available /\ ~beta.granted => \E u \in decided.support : Supporting(u)

\* The rows of the group and what its handlers are at.
TypeOK ==
  /\ group \in [gen : Nat \ {0}, status : {"unauthorized", "pending", "approved", "rejected"},
                bases : SUBSET {"explicit", "legacy"}, revoked : BOOLEAN, configured : BOOLEAN,
                legacy : BOOLEAN, on : SUBSET Commands]
  /\ request \in Seq([gen : Nat \ {0}, by : Users, state : {"pending", "approved", "rejected", "cancelled"}])
  /\ beta \in [selected : {"none", "on", "off"}, enablers : SUBSET Users, granted : BOOLEAN, eligible : SUBSET Users]
  /\ people \in [admins : SUBSET Users, banned : SUBSET Users, gone : SUBSET Users, restricted : BOOLEAN]
  /\ \A h \in Calls : call[h].op \in {"idle", "enable", "decide", "join", "joined", "toggle", "beta"}
  /\ decided \in [approved : BOOLEAN, off : SUBSET Commands, support : SUBSET Users]
  /\ changes \in 0..MaxChanges

\* What runs in a group was last asked for by somebody who may: captures that were turned off and
\* support of before the beta feature was turned off do not come back.
ConsentCurrent == TypeOK /\ OffStays /\ SupportIsCurrent
=============================================================================
