----------------------------- MODULE GroupProofs -----------------------------
(***************************************************************************)
(* Proofs about the activation of groups and the selection of their        *)
(* features, for any number of users, handlers, requests and changes.      *)
(***************************************************************************)
EXTENDS Groups, FiniteSetTheorems, SequenceTheorems, TLAPS

(***************************************************************************)
(* The inductive invariant.                                                *)
(***************************************************************************)

\* An approval of before approvals were recorded: the status alone approves.
Bare(g) == g.bases = {} /\ g.status = "approved" /\ ~g.revoked

GroupRow ==
  [gen : Nat \ {0}, status : {"unauthorized", "pending", "approved", "rejected"},
   bases : SUBSET {"explicit", "legacy"}, revoked : BOOLEAN, configured : BOOLEAN,
   legacy : BOOLEAN, on : SUBSET Commands]

Ask == [gen : Nat \ {0}, by : Users, state : {"pending", "approved", "rejected", "cancelled"}]

\* What is off is not selected, by a selection that took the defaults' place.
OffIsChosen ==
  /\ decided.off \cap group.on = {}
  /\ decided.off # {} => group.configured /\ ~group.legacy

\* Requests are of this row or of earlier ones, and one at most is pending.
OneRequest ==
  /\ \A r \in DOMAIN request : request[r].gen <= group.gen
  /\ \A r, s \in Pending : r = s

\* What a handler remembers.  The bot does not join a group whose status is
\* its approval: the status it read excluded that, and nothing restores it.
CallOK(c, g, asks) ==
  /\ c.op \in {"idle", "enable", "decide", "join", "joined", "toggle", "beta"}
  /\ c.op \in {"enable", "beta"} => c.user \in Users
  /\ c.op = "decide" => c.request \in asks
  /\ c.op = "toggle" =>
       c.left \in {<<"video">>, <<"post">>, Captures} /\ c.on \in BOOLEAN
  /\ c.op = "join" => ~Bare(g)

GroupInv ==
  /\ group \in GroupRow
  /\ request \in Seq(Ask)
  /\ decided \in [approved : BOOLEAN, off : SUBSET Commands, support : SUBSET Users]
  /\ ApprovalFollowsDecisions
  /\ OffIsChosen
  /\ OneRequest

RestInv ==
  /\ beta \in [selected : {"none", "on", "off"}, enablers : SUBSET Users, granted : BOOLEAN,
               eligible : SUBSET Users]
  /\ people \in [admins : SUBSET Users, banned : SUBSET Users, gone : SUBSET Users,
                 restricted : BOOLEAN]
  /\ beta.enablers \subseteq decided.support
  /\ changes \in 0..MaxChanges

CallInv ==
  /\ call = [h \in Calls |-> call[h]]
  /\ \A h \in Calls : CallOK(call[h], group, DOMAIN request)

IInv == GroupInv /\ RestInv /\ CallInv

LEMMA InitInv == Init => IInv
<1> SUFFICES ASSUME Init PROVE IInv
  OBVIOUS
<1>1. request = << >> /\ request \in Seq(Ask) /\ DOMAIN request = {}
  <2>1. request = << >>
    BY DEF Init
  <2> QED BY <2>1
<1>2. decided = [approved |-> group.status = "approved", off |-> {}, support |-> {}]
  BY DEF Init
<1>3. OneRequest
  BY <1>1 DEF OneRequest, Pending
<1>4. OffIsChosen
  BY <1>2 DEF OffIsChosen
<1>5. GroupInv
  <2>1. CASE group = FreshGroup(1)
    <3>1. group.status # "approved" /\ group.bases = {}
      BY <2>1 DEF FreshGroup
    <3>2. group \in GroupRow
      BY <2>1 DEF FreshGroup, GroupRow
    <3> QED BY <1>1, <1>2, <1>3, <1>4, <3>1, <3>2 DEF GroupInv, ApprovalFollowsDecisions, Approved
  <2>2. CASE \E b \in {{}, {"legacy"}}, c \in BOOLEAN : group = LegacyGroup(b, c)
    <3>1. PICK b \in {{}, {"legacy"}}, c \in BOOLEAN : group = LegacyGroup(b, c)
      BY <2>2
    <3>2. group.status = "approved" /\ ~group.revoked
      BY <3>1 DEF FreshGroup, LegacyGroup
    <3>3. b \in SUBSET {"explicit", "legacy"}
      OBVIOUS
    <3>4. group = [gen |-> 1, status |-> "approved", bases |-> b, revoked |-> FALSE,
                   configured |-> FALSE, legacy |-> c, on |-> {}]
      BY <3>1 DEF FreshGroup, LegacyGroup
    <3>5. group \in GroupRow
      BY <3>3, <3>4 DEF GroupRow
    <3> QED BY <1>1, <1>2, <1>3, <1>4, <3>2, <3>5 DEF GroupInv, ApprovalFollowsDecisions, Approved
  <2> QED BY <2>1, <2>2 DEF Init
<1>6. RestInv
  <2>1. Locals \subseteq Users /\ MaxChanges \in Nat
    BY GroupsAssumption
  <2>2. /\ people = [admins |-> Locals, banned |-> {}, gone |-> {}, restricted |-> FALSE]
        /\ changes = 0
    BY DEF Init
  <2>3. PICK g \in BOOLEAN, e \in SUBSET Locals : beta = [NoBeta EXCEPT !.granted = g, !.eligible = e]
    BY DEF Init
  <2>4. beta = [selected |-> "none", enablers |-> {}, granted |-> g, eligible |-> e]
    BY <2>3 DEF NoBeta
  <2> QED BY <1>2, <2>1, <2>2, <2>4 DEF RestInv
<1>7. CallInv
  BY DEF Init, CallInv, CallOK, Idle
<1> QED BY <1>5, <1>6, <1>7 DEF IInv

----------------------------------------------------------------------------
(***************************************************************************)
(* The decisions about a group.                                            *)
(***************************************************************************)

\* Closing the pending requests changes nothing else about them.
LEMMA ClosedRequests ==
  ASSUME IInv, NEW s \in {"approved", "rejected"}, request' = Closed(s)
  PROVE  /\ request' \in Seq(Ask)
         /\ DOMAIN request' = DOMAIN request
         /\ \A r \in DOMAIN request : request'[r].gen = request[r].gen
         /\ \A r \in DOMAIN request : request'[r].state = "pending" => r \notin Pending
         /\ \A r \in DOMAIN request : r \notin Pending => request'[r] = request[r]
<1>1. request \in Seq(Ask)
  BY DEF IInv, GroupInv
<1>2. DOMAIN request = 1..Len(request) /\ Len(request) \in Nat /\ \A r \in DOMAIN request : request[r] \in Ask
  BY <1>1
<1>3. \A r \in DOMAIN request : request'[r] \in Ask
  BY <1>2 DEF Closed, Ask
<1>4. request' \in Seq(Ask)
  BY <1>2, <1>3, IsASeq DEF Closed
<1> QED BY <1>2, <1>4 DEF Closed, Pending, Ask

\* What every step keeps: the group's part of the invariant, the requests a
\* handler may name, and that a status does not come back as an approval of
\* its own; a decision also leaves the supporters alone.
Kept ==
  /\ GroupInv'
  /\ DOMAIN request \subseteq DOMAIN request'
  /\ Bare(group') => Bare(group)

LEMMA UnchangedKept ==
  ASSUME IInv, UNCHANGED <<group, request, decided>>
  PROVE  Kept /\ decided'.support = decided.support
BY DEF Kept, IInv, GroupInv, ApprovalFollowsDecisions, OffIsChosen, OneRequest, Pending, Ask

LEMMA ApproveKept == ASSUME IInv, Approve PROVE  Kept /\ decided'.support = decided.support
<1>1. CASE Approved(group) /\ Pending = {}
  BY <1>1, UnchangedKept DEF Approve
<1>2. CASE ~(Approved(group) /\ Pending = {})
  <2>1. group' = Activated(group) /\ request' = Closed("approved")
        /\ decided' = [decided EXCEPT !.approved = TRUE]
    BY <1>2 DEF Approve
  <2>2. GroupInv
    BY DEF IInv
  <2>3. group'.gen = group.gen /\ group' \in GroupRow
    BY <2>1, <2>2 DEF GroupInv, GroupRow, Activated, TakesDefaults, Approved
  <2>4. Approved(group') /\ (Bare(group') => Bare(group))
    BY <2>1, <2>2 DEF GroupInv, GroupRow, Activated, Approved, Bare
  <2>5. OffIsChosen'
    BY <2>1, <2>2 DEF GroupInv, GroupRow, Activated, TakesDefaults, Approved, OffIsChosen
  <2>6. OneRequest'
    BY <2>1, <2>2, <2>3, ClosedRequests DEF GroupInv, OneRequest, Pending
  <2> QED BY <2>1, <2>2, <2>3, <2>4, <2>5, <2>6, ClosedRequests
          DEF Kept, GroupInv, GroupRow, ApprovalFollowsDecisions
<1> QED BY <1>1, <1>2

LEMMA RejectKept == ASSUME IInv, Reject PROVE  Kept /\ decided'.support = decided.support
<1>1. /\ group' = IF Approved(group) THEN group ELSE [group EXCEPT !.status = "rejected"]
      /\ request' = Closed("rejected") /\ decided' = decided
  BY DEF Reject
<1>2. GroupInv
  BY DEF IInv
<1>3. group'.gen = group.gen /\ (Approved(group') <=> Approved(group)) /\ (Bare(group') => Bare(group))
  BY <1>1, <1>2 DEF GroupInv, GroupRow, Approved, Bare
<1>4. OneRequest'
  BY <1>1, <1>2, <1>3, ClosedRequests DEF GroupInv, OneRequest, Pending
<1>5. OffIsChosen'
  BY <1>1, <1>2 DEF GroupInv, GroupRow, OffIsChosen
<1> QED BY <1>1, <1>2, <1>3, <1>4, <1>5, ClosedRequests DEF Kept, GroupInv, GroupRow, ApprovalFollowsDecisions

LEMMA RequestKept == ASSUME IInv, NEW u \in Users, Request(u) PROVE  Kept /\ decided'.support = decided.support
<1>1. CASE Approved(group) \/ Pending # {}
  BY <1>1, UnchangedKept DEF Request
<1>2. CASE ~(Approved(group) \/ Pending # {})
  <2> DEFINE ask == [gen |-> group.gen, by |-> u, state |-> "pending"]
  <2>1. /\ request' = Append(request, ask)
        /\ group' = [group EXCEPT !.status = "pending"] /\ decided' = decided
    BY <1>2 DEF Request
  <2>2. GroupInv /\ group.gen \in Nat \ {0}
    BY DEF IInv, GroupInv, GroupRow
  <2>3. ask \in Ask
    BY <2>2 DEF Ask
  <2>4. /\ request' \in Seq(Ask) /\ Len(request) \in Nat
        /\ DOMAIN request = 1..Len(request) /\ DOMAIN request' = 1..(Len(request) + 1)
        /\ \A r \in DOMAIN request : request'[r] = request[r]
        /\ request'[Len(request) + 1] = ask
    BY <2>1, <2>2, <2>3, AppendProperties DEF GroupInv
  <2> HIDE DEF ask
  <2>5. group'.gen = group.gen /\ ~Approved(group') /\ ~Bare(group')
    BY <1>2, <2>1, <2>2 DEF GroupInv, GroupRow, Approved, Bare
  <2>6. \A r \in DOMAIN request' : r \in DOMAIN request \/ r = Len(request) + 1
    BY <2>4
  <2>7. Pending' \subseteq {Len(request) + 1}
    BY <1>2, <2>4, <2>5, <2>6 DEF Pending
  <2>8. OneRequest'
    BY <2>2, <2>4, <2>5, <2>6, <2>7 DEF GroupInv, GroupRow, OneRequest, ask
  <2>9. OffIsChosen'
    BY <2>1, <2>2 DEF GroupInv, GroupRow, OffIsChosen
  <2> QED BY <1>2, <2>1, <2>2, <2>4, <2>5, <2>8, <2>9 DEF Kept, GroupInv, GroupRow, ApprovalFollowsDecisions
<1> QED BY <1>1, <1>2

----------------------------------------------------------------------------
(***************************************************************************)
(* Every step keeps the invariant.                                         *)
(***************************************************************************)

\* A step that keeps the rows, and leaves in at most one call something that
\* is in order, keeps the invariant.
LEMMA Stepped ==
  ASSUME IInv, Kept, RestInv',
         \/ UNCHANGED call
         \/ \E h \in Calls : \E c : /\ CallOK(c, group', DOMAIN request')
                                    /\ call' = [call EXCEPT ![h] = c]
  PROVE  IInv'
<1>1. \A c : CallOK(c, group, DOMAIN request) => CallOK(c, group', DOMAIN request')
  BY DEF CallOK, Kept
<1>2. \A h \in Calls : CallOK(call'[h], group', DOMAIN request')
  BY <1>1 DEF IInv, CallInv
<1>3. call' = [h \in Calls |-> call'[h]]
  BY DEF IInv, CallInv
<1> QED BY <1>2, <1>3 DEF IInv, CallInv, Kept

LEMMA IdleOK == \A g, asks : CallOK(Idle, g, asks)
BY DEF CallOK, Idle

\* A handler that ends with a decision.
LEMMA Decided ==
  ASSUME IInv, NEW h \in Calls, Kept, decided'.support = decided.support,
         UNCHANGED <<beta, people, changes>>,
         call' = [call EXCEPT ![h] = Idle]
  PROVE  IInv'
<1>1. RestInv'
  BY DEF IInv, RestInv
<1> QED BY <1>1, IdleOK, Stepped

\* A handler that reads before its transaction changes no row.
LEMMA Read ==
  ASSUME IInv, NEW h \in Calls, UNCHANGED <<group, request, beta, people, changes, decided>>,
         NEW c, CallOK(c, group, DOMAIN request), call' = [call EXCEPT ![h] = c]
  PROVE  IInv'
<1>1. RestInv'
  BY DEF IInv, RestInv
<1>2. Kept
  BY UnchangedKept
<1> QED BY <1>1, <1>2, Stepped

LEMMA EnableInv == ASSUME IInv, NEW h \in Calls, Enable(h) PROVE IInv'
<1>1. call[h].op = "enable" /\ call[h].user \in Users
  BY DEF Enable, IInv, CallInv, CallOK
<1>2. Kept /\ decided'.support = decided.support
  BY <1>1, UnchangedKept, ApproveKept, RequestKept DEF Enable
<1> QED BY <1>2, Decided DEF Enable

LEMMA DecideInv == ASSUME IInv, NEW h \in Calls, Decide(h) PROVE IInv'
<1>1. Kept /\ decided'.support = decided.support
  BY UnchangedKept, ApproveKept, RejectKept DEF Decide
<1> QED BY <1>1, Decided DEF Decide

LEMMA GrantInv == ASSUME IInv, Grant PROVE IInv'
<1>1. Kept /\ decided'.support = decided.support
  BY ApproveKept DEF Grant
<1>2. RestInv'
  BY <1>1 DEF Grant, IInv, RestInv
<1> QED BY <1>1, <1>2, Stepped DEF Grant

LEMMA ChangedInv == ASSUME IInv, Changed PROVE changes' \in 0..MaxChanges
BY GroupsAssumption DEF Changed, IInv, RestInv

LEMMA RevokeInv == ASSUME IInv, NEW basis, Revoke(basis) PROVE IInv'
<1>1. /\ group' = [group EXCEPT !.bases = @ \ {basis}, !.revoked = TRUE]
      /\ decided' = [decided EXCEPT !.approved = group.bases # {basis}]
      /\ basis \in group.bases /\ request' = request
  BY DEF Revoke
<1>2. GroupInv
  BY DEF IInv
<1>3. /\ group' \in GroupRow /\ group'.gen = group.gen /\ group'.revoked
      /\ group'.bases = group.bases \ {basis}
      /\ group'.on = group.on /\ group'.configured = group.configured /\ group'.legacy = group.legacy
  BY <1>1, <1>2 DEF GroupInv, GroupRow
<1>4. Approved(group') <=> group.bases # {basis}
  BY <1>1, <1>3 DEF Approved
<1>5. /\ decided'.approved = (group.bases # {basis}) /\ decided'.off = decided.off
      /\ decided'.support = decided.support
      /\ decided' \in [approved : BOOLEAN, off : SUBSET Commands, support : SUBSET Users]
  BY <1>1, <1>2 DEF GroupInv
<1>6. OneRequest'
  BY <1>1, <1>2, <1>3 DEF GroupInv, OneRequest, Pending
<1>7. Kept
  BY <1>1, <1>2, <1>3, <1>4, <1>5, <1>6
  DEF Kept, GroupInv, ApprovalFollowsDecisions, OffIsChosen, Bare
<1>8. RestInv'
  BY <1>5, ChangedInv DEF Revoke, IInv, RestInv
<1> QED BY <1>7, <1>8, Stepped DEF Revoke

LEMMA JoinedInv == ASSUME IInv, NEW h \in Calls, Joined(h) PROVE IInv'
<1>1. group' = [group EXCEPT !.status = "unauthorized"] /\ UNCHANGED <<request, decided>>
  BY DEF Joined
<1>2. GroupInv /\ ~Bare(group)
  BY DEF Joined, IInv, CallInv, CallOK
<1>3. /\ group' \in GroupRow /\ group'.gen = group.gen /\ group'.status = "unauthorized"
      /\ group'.bases = group.bases /\ group'.on = group.on
      /\ group'.configured = group.configured /\ group'.legacy = group.legacy
  BY <1>1, <1>2 DEF GroupInv, GroupRow
<1>4. Approved(group') <=> Approved(group)
  BY <1>2, <1>3 DEF Approved, Bare
<1>5. OneRequest'
  BY <1>1, <1>2, <1>3 DEF GroupInv, OneRequest, Pending
<1>6. Kept
  BY <1>1, <1>2, <1>3, <1>4, <1>5 DEF Kept, GroupInv, ApprovalFollowsDecisions, OffIsChosen, Bare
<1> QED BY <1>1, <1>6, Decided DEF Joined

\* The transaction for one feature: what is off is no longer on, and the
\* group has been configured since.
LEMMA SelectKept ==
  ASSUME IInv, NEW c \in Commands, NEW on \in BOOLEAN, Select(c, on), UNCHANGED request
  PROVE  Kept /\ decided'.support = decided.support
<1>1. GroupInv
  BY DEF IInv
<1>2. /\ group' \in GroupRow /\ group'.gen = group.gen /\ group'.status = group.status
      /\ group'.bases = group.bases /\ group'.revoked = group.revoked
      /\ group'.configured /\ ~group'.legacy
      /\ group'.on = IF on THEN group.on \cup {c} ELSE group.on \ {c}
  BY <1>1 DEF Select, Selected, Chosen, GroupInv, GroupRow
<1>3. /\ decided' \in [approved : BOOLEAN, off : SUBSET Commands, support : SUBSET Users]
      /\ decided'.approved = decided.approved /\ decided'.support = decided.support
      /\ decided'.off = IF on THEN decided.off \ {c} ELSE decided.off \cup {c}
  BY <1>1 DEF Select, GroupInv
<1>4. OffIsChosen'
  BY <1>1, <1>2, <1>3 DEF GroupInv, OffIsChosen
<1>5. OneRequest'
  BY <1>1, <1>2 DEF GroupInv, OneRequest, Pending
<1> QED BY <1>1, <1>2, <1>3, <1>4, <1>5 DEF Kept, GroupInv, ApprovalFollowsDecisions, Approved, Bare

LEMMA WriteInv == ASSUME IInv, NEW h \in Calls, Write(h) PROVE IInv'
<1> DEFINE c == call[h]
<1>1. /\ c.op = "toggle" /\ c.on \in BOOLEAN /\ c.left \in {<<"video">>, <<"post">>, Captures}
      /\ call = [k \in Calls |-> call[k]]
  BY DEF Write, IInv, CallInv, CallOK
<1>2. CASE ~Configures(c.user)
  <2>1. UNCHANGED <<group, decided, request>>
    BY <1>2 DEF Write
  <2>2. Kept /\ decided'.support = decided.support
    BY <2>1, UnchangedKept
  <2> QED BY <1>2, <2>2, Decided DEF Write
<1>3. CASE Configures(c.user)
  <2>1. Head(c.left) \in Commands
    BY <1>1 DEF Commands, Captures
  <2>2. Kept /\ decided'.support = decided.support
    BY <1>1, <1>3, <2>1, SelectKept DEF Write
  <2>3. RestInv'
    BY <2>2 DEF Write, IInv, RestInv
  <2>4. CASE Len(c.left) = 1
    <3>1. call' = [call EXCEPT ![h] = Idle]
      BY <1>3, <2>4 DEF Write
    <3> QED BY <2>2, <2>3, <3>1, IdleOK, Stepped
  <2>5. CASE Len(c.left) # 1
    <3>1. call' = [call EXCEPT ![h] = [c EXCEPT !.left = Tail(@)]]
      BY <1>3, <2>5 DEF Write
    <3>2. c.left = Captures
      BY <1>1, <2>5
    <3>3. Tail(Captures) = <<"post">>
      BY DEF Captures
    <3>4. CallOK(c, group, DOMAIN request)
      BY DEF IInv, CallInv
    <3>5. CallOK([c EXCEPT !.left = <<"post">>], group', DOMAIN request')
      BY <1>1, <3>4, <2>2 DEF CallOK, Kept
    <3>6. call' = [call EXCEPT ![h] = [c EXCEPT !.left = <<"post">>]]
      BY <3>1, <3>2, <3>3
    <3> QED BY <2>2, <2>3, <3>5, <3>6, Stepped
  <2> QED BY <2>4, <2>5
<1> QED BY <1>2, <1>3

LEMMA SetBetaInv == ASSUME IInv, NEW h \in Calls, SetBeta(h) PROVE IInv'
<1> DEFINE c == call[h]
<1>1. c.user \in Users /\ UNCHANGED <<group, request, people, changes>>
      /\ call' = [call EXCEPT ![h] = Idle]
  BY DEF SetBeta, IInv, CallInv, CallOK
<1>2. GroupInv /\ RestInv
  BY DEF IInv
<1>3. \/ UNCHANGED <<beta, decided>>
      \/ TurnOn(c.user)
      \/ TurnOff
  BY DEF SetBeta
<1>4. /\ decided'.approved = decided.approved /\ decided'.off = decided.off
      /\ decided' \in [approved : BOOLEAN, off : SUBSET Commands, support : SUBSET Users]
  BY <1>1, <1>2, <1>3 DEF TurnOn, TurnOff, GroupInv
<1>5. RestInv'
  <2>1. CASE UNCHANGED <<beta, decided>>
    BY <1>1, <1>2, <2>1 DEF RestInv
  <2>2. CASE TurnOff
    BY <1>1, <1>2, <2>2 DEF TurnOff, GroupInv, RestInv
  <2>3. CASE /\ beta' = [beta EXCEPT !.selected = "on", !.enablers = @ \cup {c.user}]
             /\ decided' = [decided EXCEPT !.support = @ \cup {c.user}]
    BY <1>1, <1>2, <2>3 DEF GroupInv, RestInv
  <2>4. CASE beta' = [beta EXCEPT !.selected = "on"] /\ UNCHANGED decided
    BY <1>1, <1>2, <2>4 DEF RestInv
  <2> QED BY <1>3, <2>1, <2>2, <2>3, <2>4 DEF TurnOn
<1>6. Kept
  BY <1>1, <1>2, <1>4
  DEF Kept, GroupInv, ApprovalFollowsDecisions, OffIsChosen, OneRequest, Pending
<1> QED BY <1>1, <1>5, <1>6, IdleOK, Stepped

\* What Telegram, administrators and recovery change besides the row.
LEMMA OthersInv ==
  ASSUME IInv,
         \/ \E b \in BOOLEAN : GrantGroup(b)
         \/ \E u \in Users, b \in BOOLEAN : GrantUser(u, b)
         \/ \E u \in Users : Promote(u) \/ Ban(u) \/ Delete(u)
         \/ BanGroup
  PROVE  IInv'
<1>1. UNCHANGED <<group, request, call, decided>> /\ Changed
  BY DEF GrantGroup, GrantUser, Promote, Ban, Delete, BanGroup
<1>2. RestInv
  BY DEF IInv
<1>3. changes' \in 0..MaxChanges
  BY <1>1, ChangedInv
<1>4. RestInv'
  <2>1. CASE \E b \in BOOLEAN : GrantGroup(b)
    BY <1>1, <1>2, <1>3, <2>1 DEF GrantGroup, RestInv
  <2>2. CASE \E u \in Users, b \in BOOLEAN : GrantUser(u, b)
    BY <1>1, <1>2, <1>3, <2>2 DEF GrantUser, RestInv
  <2>3. CASE \E u \in Users : Promote(u)
    BY <1>1, <1>2, <1>3, <2>3 DEF Promote, RestInv
  <2>4. CASE \E u \in Users : Ban(u)
    BY <1>1, <1>2, <1>3, <2>4 DEF Ban, RestInv
  <2>5. CASE \E u \in Users : Delete(u)
    BY <1>1, <1>2, <1>3, <2>5 DEF Delete, RestInv
  <2>6. CASE BanGroup
    BY <1>1, <1>2, <1>3, <2>6 DEF BanGroup, RestInv
  <2> QED BY <2>1, <2>2, <2>3, <2>4, <2>5, <2>6
<1>5. Kept
  BY <1>1, UnchangedKept
<1> QED BY <1>1, <1>4, <1>5, Stepped

\* The new row is of a later generation: no request of before is pending in it.
LEMMA RecreateInv == ASSUME IInv, Recreate PROVE IInv'
<1>1. /\ group.gen = 1 /\ group' = FreshGroup(2) /\ UNCHANGED <<request, people, call>>
      /\ beta' = [beta EXCEPT !.selected = "none", !.enablers = {}, !.granted = FALSE]
      /\ decided' = [approved |-> FALSE, off |-> {}, support |-> {}]
      /\ changes' \in 0..MaxChanges
  BY ChangedInv DEF Recreate
<1>2. GroupInv /\ RestInv
  BY DEF IInv
<1>3. group' \in GroupRow /\ group'.gen = 2 /\ ~Approved(group') /\ ~Bare(group')
  BY <1>1 DEF FreshGroup, GroupRow, Approved, Bare
<1>4. OneRequest'
  <2>1. \A r \in DOMAIN request : request[r].gen \in Nat /\ request[r].gen <= 1
    <3>1. \A r \in DOMAIN request : request[r] \in Ask /\ request[r].gen <= 1
      BY <1>1, <1>2 DEF GroupInv, OneRequest
    <3> QED BY <3>1 DEF Ask
  <2>2. Pending' = {}
    BY <1>1, <1>3, <2>1 DEF Pending
  <2> QED BY <1>1, <1>3, <2>1, <2>2 DEF OneRequest
<1>5. Kept
  BY <1>1, <1>2, <1>3, <1>4 DEF Kept, GroupInv, ApprovalFollowsDecisions, OffIsChosen
<1>6. RestInv'
  BY <1>1, <1>2 DEF RestInv
<1> QED BY <1>1, <1>5, <1>6, Stepped

\* The handlers' reads: whoever asks is a user, the request exists, and the
\* bot joins a group whose status is not an approval.
LEMMA AskEnableInv == ASSUME IInv, NEW h \in Calls, NEW u \in Users, AskEnable(h, u) PROVE IInv'
<1> DEFINE c == [op |-> "enable", user |-> u, gen |-> group.gen,
                 proof |-> Known(u) /\ u \notin BotAdmins \cup Trusted /\ u \in people.admins]
<1>1. CallOK(c, group, DOMAIN request)
  BY DEF CallOK
<1>2. call' = [call EXCEPT ![h] = c] /\ UNCHANGED <<group, request, beta, people, changes, decided>>
  BY DEF AskEnable
<1> HIDE DEF c
<1> QED BY <1>1, <1>2, Read

LEMMA AskBetaInv ==
  ASSUME IInv, NEW h \in Calls, NEW u \in Users, NEW on \in BOOLEAN, AskBeta(h, u, on)
  PROVE  IInv'
<1> DEFINE c == [op |-> "beta", user |-> u, gen |-> group.gen, on |-> on]
<1>1. CallOK(c, group, DOMAIN request)
  BY DEF CallOK
<1>2. call' = [call EXCEPT ![h] = c] /\ UNCHANGED <<group, request, beta, people, changes, decided>>
  BY DEF AskBeta
<1> HIDE DEF c
<1> QED BY <1>1, <1>2, Read

LEMMA PressInv == ASSUME IInv, NEW h \in Calls, NEW u, NEW r, NEW v, Press(h, u, r, v) PROVE IInv'
<1> DEFINE c == [op |-> "decide", user |-> u, request |-> r, verdict |-> v]
<1>1. CallOK(c, group, DOMAIN request)
  BY DEF CallOK, Press
<1>2. call' = [call EXCEPT ![h] = c] /\ UNCHANGED <<group, request, beta, people, changes, decided>>
  BY DEF Press
<1> HIDE DEF c
<1> QED BY <1>1, <1>2, Read

LEMMA JoinInv == ASSUME IInv, NEW h \in Calls, Join(h) PROVE IInv'
<1> DEFINE c == [op |-> "join"]
<1>1. CallOK(c, group, DOMAIN request)
  BY DEF CallOK, Join, Bare
<1>2. call' = [call EXCEPT ![h] = c] /\ UNCHANGED <<group, request, beta, people, changes, decided>>
  BY DEF Join
<1> HIDE DEF c
<1> QED BY <1>1, <1>2, Read

LEMMA ToggleInv ==
  ASSUME IInv, NEW h \in Calls, NEW u \in Users, NEW w \in {<<"video">>, <<"post">>, Captures},
         Toggle(h, u, w)
  PROVE  IInv'
<1> DEFINE c == [op |-> "toggle", user |-> u, left |-> w,
                 on |-> \A i \in DOMAIN w : w[i] \notin group.on]
<1>1. c.on \in BOOLEAN /\ c.left = w /\ c.op = "toggle"
  OBVIOUS
<1>2. call' = [call EXCEPT ![h] = c] /\ UNCHANGED <<group, request, beta, people, changes, decided>>
  BY DEF Toggle
<1> HIDE DEF c
<1>3. CallOK(c, group, DOMAIN request)
  BY <1>1 DEF CallOK
<1> QED BY <1>2, <1>3, Read

LEMMA StutterInv == ASSUME IInv, UNCHANGED vars PROVE IInv'
<1>1. RestInv'
  BY DEF vars, IInv, RestInv
<1>2. Kept
  BY UnchangedKept DEF vars
<1> QED BY <1>1, <1>2, Stepped DEF vars

LEMMA NextInv == ASSUME IInv, [Next]_vars PROVE IInv'
<1>1. CASE \E h \in Calls, u \in Users :
             AskEnable(h, u) \/ Accept(h, u) \/ \E on \in BOOLEAN : AskBeta(h, u, on)
  BY <1>1, AskEnableInv, AskBetaInv DEF Accept
<1>2. CASE \E h \in Calls : Enable(h) \/ Decide(h) \/ Join(h) \/ Joined(h) \/ Write(h) \/ SetBeta(h)
  BY <1>2, EnableInv, DecideInv, JoinInv, JoinedInv, WriteInv, SetBetaInv
<1>3. CASE \E h \in Calls, u \in BotAdmins, r \in 1 .. MaxRequests, v \in {"approve", "reject"} :
             Press(h, u, r, v)
  BY <1>3, PressInv
<1>4. CASE \E h \in Calls, u \in Users, w \in {<<"video">>, <<"post">>, Captures} : Toggle(h, u, w)
  BY <1>4, ToggleInv
<1>5. CASE Grant \/ (\E basis \in {"explicit", "legacy"} : Revoke(basis)) \/ Recreate
  BY <1>5, GrantInv, RevokeInv, RecreateInv
<1>6. CASE (\E u \in Users, b \in BOOLEAN : GrantUser(u, b))
           \/ (\E b \in BOOLEAN : GrantGroup(b))
           \/ (\E u \in Users : Promote(u) \/ Ban(u) \/ Delete(u))
           \/ BanGroup
  BY <1>6, OthersInv
<1>7. CASE UNCHANGED vars
  BY <1>7, StutterInv
<1> QED BY <1>1, <1>2, <1>3, <1>4, <1>5, <1>6, <1>7 DEF Next

----------------------------------------------------------------------------
(***************************************************************************)
(* What a step does to the requests.                                       *)
(***************************************************************************)

\* A request is rejected by a button of its own, which was the only one
\* pending; every other step adds one, approves what is pending, or none.
RequestsStep ==
  \/ UNCHANGED request
  \/ request' = Closed("approved")
  \/ \E u \in Users : request' = Append(request, [gen |-> group.gen, by |-> u, state |-> "pending"])
  \/ /\ request' = Closed("rejected")
     /\ \E h \in Calls : call[h].op = "decide" /\ Pending = {call[h].request} /\ call'[h] = Idle

LEMMA DecideStep == ASSUME IInv, NEW h \in Calls, Decide(h) PROVE RequestsStep
<1>1. call'[h] = Idle
  BY DEF Decide, IInv, CallInv
<1>2. CASE UNCHANGED request
  BY <1>2 DEF RequestsStep
<1>3. CASE Approve
  BY <1>3 DEF Approve, RequestsStep
<1>4. CASE Reject /\ Pending = {call[h].request}
  BY <1>1, <1>4 DEF Reject, RequestsStep, Decide
<1> QED BY <1>2, <1>3, <1>4 DEF Decide

LEMMA NextRequests == ASSUME IInv, [Next]_vars PROVE RequestsStep
<1>1. CASE \E h \in Calls : Decide(h)
  BY <1>1, DecideStep
<1>2. CASE \E h \in Calls : Enable(h)
  <2>1. PICK h \in Calls : Enable(h)
    BY <1>2
  <2>2. call[h].user \in Users
    BY <2>1 DEF Enable, IInv, CallInv, CallOK
  <2> QED BY <2>1, <2>2 DEF Enable, Approve, Request, RequestsStep
<1>3. CASE Grant
  BY <1>3 DEF Grant, Approve, RequestsStep
<1>4. CASE UNCHANGED request
  BY <1>4 DEF RequestsStep
<1> QED BY <1>1, <1>2, <1>3, <1>4
    DEF Next, vars, AskEnable, Accept, AskBeta, Join, Joined, Write, SetBeta, Press, Toggle, Revoke,
        GrantUser, GrantGroup, Promote, Ban, Delete, BanGroup, Recreate

\* Of the requests that a step closes, none was decided before.
LEMMA DecidedOnce ==
  ASSUME IInv, RequestsStep
  PROVE  \A r \in DOMAIN request :
           /\ request[r].state # "pending" => request'[r] = request[r]
           /\ request'[r].state = "rejected" /\ request[r].state = "pending" =>
                \E h \in Calls : call[h].op = "decide" /\ call[h].request = r /\ call'[h] = Idle
<1>1. request \in Seq(Ask)
  BY DEF IInv, GroupInv
<1> SUFFICES ASSUME NEW r \in DOMAIN request
             PROVE  /\ request[r].state # "pending" => request'[r] = request[r]
                    /\ request'[r].state = "rejected" /\ request[r].state = "pending" =>
                         \E h \in Calls : call[h].op = "decide" /\ call[h].request = r /\ call'[h] = Idle
  OBVIOUS
<1>2. CASE UNCHANGED request
  BY <1>2
<1>3. CASE request' = Closed("approved")
  <2>1. request'[r] = IF r \in Pending THEN [request[r] EXCEPT !.state = "approved"] ELSE request[r]
    BY <1>3 DEF Closed
  <2>2. request[r] \in Ask
    BY <1>1
  <2> QED BY <2>1, <2>2 DEF Pending, Ask
<1>4. CASE \E u \in Users :
             request' = Append(request, [gen |-> group.gen, by |-> u, state |-> "pending"])
  <2>1. request'[r] = request[r]
    BY <1>1, <1>4
  <2> QED BY <2>1
<1>5. CASE /\ request' = Closed("rejected")
           /\ \E h \in Calls : call[h].op = "decide" /\ Pending = {call[h].request} /\ call'[h] = Idle
  <2>1. request'[r] = IF r \in Pending THEN [request[r] EXCEPT !.state = "rejected"] ELSE request[r]
    BY <1>5 DEF Closed
  <2>2. CASE r \in Pending
    BY <1>5, <2>2 DEF Pending
  <2>3. CASE r \notin Pending
    BY <2>1, <2>3 DEF Pending
  <2> QED BY <2>2, <2>3
<1> QED BY <1>2, <1>3, <1>4, <1>5 DEF RequestsStep

LEMMA OnePending == ASSUME IInv PROVE Cardinality(Pending) <= 1
<1>1. \A r, s \in Pending : r = s
  BY DEF IInv, GroupInv, OneRequest
<1>2. CASE Pending = {}
  BY <1>2, FS_EmptySet
<1>3. CASE Pending # {}
  <2>1. PICK r : r \in Pending
    BY <1>3
  <2>2. Pending = {r}
    BY <1>1, <2>1
  <2> QED BY <2>2, FS_Singleton
<1> QED BY <1>2, <1>3

----------------------------------------------------------------------------
(***************************************************************************)
(* The theorems.                                                           *)
(***************************************************************************)

\* The rows agree with each other and with the decisions about them, and what
\* the handlers at work remember stays usable, after any steps.
THEOREM Invariance == Spec => []IInv
<1>1. Init => IInv
  BY InitInv
<1>2. IInv /\ [Next]_vars => IInv'
  BY NextInv
<1> QED BY <1>1, <1>2, PTL DEF Spec

\* is_group_approved answers what the last decision about the group was: no
\* arrival of the bot, request, rejection, selection or withdrawal of another
\* basis changes the answer.
THEOREM Approvals == Spec => []ApprovalFollowsDecisions
<1>1. IInv => ApprovalFollowsDecisions
  BY DEF IInv, GroupInv
<1> QED BY <1>1, Invariance, PTL

\* Features a manager turned off stay off, and the beta feature stays on by
\* support given since it was last turned off.
THEOREM Consent == Spec => []ConsentCurrent
<1>1. ASSUME IInv PROVE ConsentCurrent
  <2>1. TypeOK
    BY <1>1 DEF IInv, GroupInv, RestInv, CallInv, CallOK, TypeOK, GroupRow, Ask
  <2>2. OffStays
    BY <1>1 DEF IInv, GroupInv, OffIsChosen, OffStays, CaptureAllowed, LegacyCapture
  <2>3. SupportIsCurrent
    BY <1>1 DEF IInv, RestInv, SupportIsCurrent, Available
  <2> QED BY <2>1, <2>2, <2>3 DEF ConsentCurrent
<1> QED BY <1>1, Invariance, PTL

\* One request at a time is pending, none is decided twice, and only a button
\* that names it rejects it.
THEOREM RequestsDecided == Spec => DecidedByItsButtons
<1>1. ASSUME IInv, [Next]_vars
      PROVE  [/\ Cardinality(Pending) <= 1
              /\ \A r \in DOMAIN request :
                   /\ request[r].state # "pending" => request'[r] = request[r]
                   /\ request'[r].state = "rejected" /\ request[r].state = "pending" =>
                        \E h \in Calls : call[h].op = "decide" /\ call[h].request = r /\ call'[h] = Idle]_vars
  BY <1>1, OnePending, NextRequests, DecidedOnce
<1> QED BY <1>1, Invariance, PTL DEF Spec, DecidedByItsButtons

=============================================================================
