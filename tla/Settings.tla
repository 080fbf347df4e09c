------------------------------- MODULE Settings -------------------------------
(***************************************************************************)
(* Settings windows and administrators' confirmations: a message with      *)
(* buttons, a token in the cache for the buttons of the last render, a     *)
(* deadline, and the index from which old messages are deleted.  A use of  *)
(* the cache, of the database or of Telegram by a handler is a step: two   *)
(* clicks, two openings, or a click and the sweep may interleave.          *)
(***************************************************************************)
EXTENDS Naturals, Sequences, FiniteSets

CONSTANTS
  Users,
  Group,               \* the chat of the group; a user's private chat is the user
  Calls,               \* handlers at work
  MaxWindows,          \* bound: windows opened
  MaxTokens,           \* bound: renders
  MaxConfirmations,    \* bound: previews of an administrator's change
  MaxChanges           \* bound: changes of authority and of identities

Chats == Users \cup {Group}
(* What the menus under the main one change; they also show the usage and  *)
(* the access of the group, which changes nothing.                         *)
Edits == {"language", "feature", "category"}

(* What is left of the thirty seconds: some or, with less than a second to *)
(* go, none; a click of the last second is one the deadline then overtakes.*)
Some == 1
None == 0

ASSUME SettingsAssumption ==
  /\ Group \notin Users
  /\ {MaxWindows, MaxTokens, MaxConfirmations, MaxChanges} \subseteq Nat

VARIABLES
  people,     \* who administers the bot, or the group; generations of users and of the group
  window,     \* messages: chat, time left since it was opened, there, given up
  token,      \* the context stored for each token
  cache,      \* tokens kept; the current one of each chat; confirmations kept
  cleanup,    \* index of messages to delete; the last window of each chat; the sweep
  call,       \* what each handler remembers
  changes,
  confirm     \* confirmations issued; history: how often each was executed

vars == <<people, window, token, cache, cleanup, call, changes, confirm>>

Idle == [op |-> "idle", window |-> 0]

Init ==
  /\ people = [admins |-> {}, locals |-> Users, gen |-> [u \in Users |-> 1], group |-> 1]
  /\ window = << >> /\ token = << >> /\ confirm = << >>
  /\ cache = [kept |-> {}, current |-> [c \in Chats |-> 0], confirms |-> {}]
  /\ cleanup = [index |-> << >>, single |-> [c \in Chats |-> 0], swept |-> {}]
  /\ call = [h \in Calls |-> Idle]
  /\ changes = 0
----------------------------------------------------------------------------
(* The service of sessions.                                                *)

Private(chat) == chat # Group
ChatOf(w) == window[w].chat

(* A private window is its user's; the group's is open to its managers.    *)
Manages(u) == u \in people.admins \cup people.locals
Authorized(u, target) == target = 0 \/ (target = people.group /\ Manages(u))

Offered(menu, chat) ==
  CASE menu = "groups" -> {"select", "close"}
    [] menu = "main"   -> {"edit", "close"} \cup {op \in {"groups"} : Private(chat)}
    [] menu = "edit"   -> Edits \cup {"main"}

(* The actor and the target are those the token was issued for.            *)
StillBound(u, c) ==
  /\ Private(ChatOf(c.window)) => u = ChatOf(c.window) /\ c.gen = people.gen[u]
  /\ c.target # 0 => c.target = people.group

\* Fault: whatever is kept resolves, current or not.
ResolvesKept(u, t, op) ==
  /\ t \in cache.kept /\ token[t].left = Some
  /\ op \in Offered(token[t].menu, ChatOf(token[t].window))
  /\ StillBound(u, token[t])

(* A button copied to another message never matches its token's window.    *)
Resolves(u, t, op) ==
  /\ t \in cache.kept /\ cache.current[ChatOf(token[t].window)] = t /\ token[t].left = Some
  /\ op \in Offered(token[t].menu, ChatOf(token[t].window))
  /\ StillBound(u, token[t])
----------------------------------------------------------------------------
(* Opening: the target and the actor are checked, a message is sent, the   *)
(* window it replaces deleted, and the first menu rendered.                *)

Registered(index, w) == [v \in DOMAIN index \cup {w} |-> IF v = w THEN "fresh" ELSE index[v]]
Unregistered(index, ws) == [v \in DOMAIN index \ ws |-> index[v]]

(* A message is deleted; one that Telegram does not delete is given up.    *)
Deleted(w, failed) ==
  IF w \notin DOMAIN window THEN window
  ELSE [window EXCEPT ![w].there = @ /\ failed, ![w].givenUp = @ \/ failed]

Handlers(ops) == {h \in Calls : call[h].op \in ops}
(* Bound: a render that has begun can be finished.                         *)
Room == Len(token) + Cardinality(Handlers({"seek", "replace", "render", "issue"} \cup Edits)) < MaxTokens

(* What the window is about, and for whom: of a group, its menu, of a      *)
(* private chat, the list of the groups its user manages.                  *)
Prepared(u, chat) ==
  [op |-> "seek", window |-> Len(window) + 1, user |-> u, gen |-> people.gen[u],
   target |-> IF Private(chat) THEN 0 ELSE people.group,
   menu |-> IF Private(chat) THEN "groups" ELSE "main",
   left |-> Some, from |-> 0, more |-> 0]

Open(h, u, chat) ==
  /\ call[h] = Idle /\ Room /\ chat \in {u, Group} /\ Len(window) < MaxWindows
  /\ Authorized(u, Prepared(u, chat).target)
  /\ window' = Append(window, [chat |-> chat, left |-> Some, there |-> TRUE, givenUp |-> FALSE])
  /\ call' = [call EXCEPT ![h] = Prepared(u, chat)]
  /\ UNCHANGED <<people, token, cache, cleanup, changes, confirm>>

(* replace_singleton_window reads the window it replaces first.            *)
Seek(h) ==
  /\ call[h].op = "seek"
  /\ call' = [call EXCEPT ![h].op = "replace",
                          ![h].more = cleanup.single[ChatOf(call[h].window)]]
  /\ UNCHANGED <<people, window, token, cache, cleanup, changes, confirm>>

(* Then it deletes that window, and takes it off the index even when the   *)
(* deletion failed.                                                        *)
Replace(h) ==
  LET c == call[h] IN
  /\ c.op = "replace"
  /\ \E failed \in BOOLEAN : window' = Deleted(c.more, failed)
  /\ cleanup' = [cleanup EXCEPT !.index = Registered(Unregistered(@, {c.more}), c.window),
                                !.single[ChatOf(c.window)] = c.window]
  /\ call' = [call EXCEPT ![h].op = "render", ![h].more = 0]
  /\ UNCHANGED <<people, token, cache, changes, confirm>>
----------------------------------------------------------------------------
(* Rendering: a token is issued for the rest of the window's time, the     *)
(* message edited, the token clicked consumed and the message registered   *)
(* again.                                                                  *)

(* With less than a second left the window only says it has expired.       *)
Expired(h) ==
  /\ call[h].op = "render" /\ call[h].left = None
  /\ call' = [call EXCEPT ![h] = Idle]
  /\ UNCHANGED <<people, window, token, cache, cleanup, changes, confirm>>

(* A listing keeps the group it shows, and with it the generation; the     *)
(* previous token of the chat is read and deleted ...                      *)
Withdraw(h) ==
  LET c == call[h] IN
  /\ c.op = "render" /\ c.left = Some
  /\ cache' = [cache EXCEPT !.kept = @ \ {cache.current[ChatOf(c.window)]}]
  /\ call' = [call EXCEPT ![h].op = "issue",
       ![h].more = IF c.menu = "groups" /\ Manages(c.user) THEN people.group ELSE 0]
  /\ UNCHANGED <<people, window, token, cleanup, changes, confirm>>

Context(c, left) ==
  [window |-> c.window, gen |-> c.gen, target |-> c.target, choice |-> c.more,
   menu |-> c.menu, left |-> left]

(* ... and a new one is stored, with the deadline of the window.           *)
Issue(h) ==
  LET c == call[h] t == Len(token) + 1 IN
  /\ c.op = "issue"
  /\ token' = Append(token, Context(c, c.left))
  /\ cache' = [cache EXCEPT !.kept = @ \cup {t}, !.current[ChatOf(c.window)] = t]
  /\ call' = [call EXCEPT ![h].op = "edit", ![h].more = 0]
  /\ UNCHANGED <<people, window, cleanup, changes, confirm>>

(* A message that was deleted cannot be edited, and Telegram may refuse:   *)
(* the handler ends there, and its buttons are never shown.                *)
Edit(h) ==
  /\ call[h].op = "edit"
  /\ \/ window[call[h].window].there /\ call' = [call EXCEPT ![h].op = "settle"]
     \/ call' = [call EXCEPT ![h] = Idle]
  /\ UNCHANGED <<people, window, token, cache, cleanup, changes, confirm>>

Settle(h) ==
  LET c == call[h] IN
  /\ c.op = "settle"
  /\ cache' = [cache EXCEPT !.kept = @ \ {c.from}]
  /\ cleanup' = [cleanup EXCEPT !.index = Registered(@, c.window),
                                !.single[ChatOf(c.window)] = c.window]
  /\ call' = [call EXCEPT ![h] = Idle]
  /\ UNCHANGED <<people, window, token, changes, confirm>>
----------------------------------------------------------------------------
(* Clicks.                                                                 *)

(* What follows a click that is accepted: a menu to render, a change to    *)
(* make first, or the window closed.                                       *)
Followed(u, t, op) ==
  LET c == token[t]
      next(step, target, menu) ==
        [op |-> step, window |-> c.window, user |-> u, gen |-> c.gen, target |-> target,
         menu |-> menu, left |-> c.left, from |-> t, more |-> 0] IN
  CASE op = "select" -> next("render", c.choice, "main")
    [] op = "groups" -> next("render", 0, "groups")
    [] op \in {"main", "edit"} -> next("render", c.target, op)
    [] op = "close" -> next("close", c.target, c.menu)
    [] op \in Edits -> next(op, c.target, "edit")

(* The token resolves but is not consumed; a group selected is authorized  *)
(* as it was listed.                                                       *)
Click(h, u, t, op) ==
  /\ call[h] = Idle /\ Room /\ t \in DOMAIN token /\ Resolves(u, t, op)
  /\ Authorized(u, token[t].target)
  /\ op = "select" => token[t].choice # 0 /\ Authorized(u, token[t].choice)
  /\ call' = [call EXCEPT ![h] = Followed(u, t, op)]
  /\ UNCHANGED <<people, window, token, cache, cleanup, changes, confirm>>

Close(h) ==
  LET c == call[h] IN
  /\ c.op = "close"
  /\ \E failed \in BOOLEAN : window' = Deleted(c.window, failed)
  /\ cleanup' = [cleanup EXCEPT !.index = Unregistered(@, {c.window})]
  /\ cache' = [cache EXCEPT !.kept = @ \ {c.from}]
  /\ call' = [call EXCEPT ![h] = Idle]
  /\ UNCHANGED <<people, token, changes, confirm>>

(* Languages are read, and written with the one change: the menu follows.  *)
SetLanguage(h) ==
  /\ call[h].op = "language"
  /\ call' = [call EXCEPT ![h].op = "render"]
  /\ UNCHANGED <<people, window, token, cache, cleanup, changes, confirm>>

(* A feature that is not available to the manager, or by now no longer, is *)
(* refused, and the keyboard stays as it was.                              *)
SetFeature(h) ==
  /\ call[h].op = "feature"
  /\ \E refused \in BOOLEAN :
       call' = [call EXCEPT ![h] = IF refused THEN Idle ELSE [@ EXCEPT !.op = "render"]]
  /\ UNCHANGED <<people, window, token, cache, cleanup, changes, confirm>>

(* So is a category of notifications, the actor's own or the group's.      *)
SetCategory(h) ==
  /\ call[h].op = "category"
  /\ \E refused \in BOOLEAN :
       call' = [call EXCEPT ![h] = IF refused THEN Idle ELSE [@ EXCEPT !.op = "render"]]
  /\ UNCHANGED <<people, window, token, cache, cleanup, changes, confirm>>
----------------------------------------------------------------------------
(* Administration: a preview bound to its actor and target, confirmed once.*)

BotAdmin(u) == u \in people.admins

Confirmation(u) ==
  [user |-> u, gen |-> people.gen[u], target |-> people.group, left |-> Some, done |-> 0]

Preview(u) ==
  /\ BotAdmin(u) /\ Len(confirm) < MaxConfirmations
  /\ confirm' = Append(confirm, Confirmation(u))
  /\ cache' = [cache EXCEPT !.confirms = @ \cup {Len(confirm) + 1}]
  /\ UNCHANGED <<people, window, token, cleanup, call, changes>>

(* The confirmation is read and compared with its actor ...                *)
Confirm(h, k, cancel) ==
  /\ call[h] = Idle /\ k \in cache.confirms
  /\ LET c == confirm[k] IN
     BotAdmin(c.user) /\ c.gen = people.gen[c.user] /\ c.left = Some
  /\ call' = [call EXCEPT ![h] = [op |-> "confirm", more |-> k, cancel |-> cancel, window |-> 0]]
  /\ UNCHANGED <<people, window, token, cache, cleanup, changes, confirm>>

Execute(k) ==
  IF BotAdmin(confirm[k].user) /\ confirm[k].target = people.group
    THEN [confirm EXCEPT ![k].done = @ + 1] ELSE confirm

\* Fault: the confirmation is deleted, but the handler does not look whether it was there.
PopBlindly(h) ==
  /\ call[h].op = "confirm"
  /\ cache' = [cache EXCEPT !.confirms = @ \ {call[h].more}]
  /\ confirm' = IF ~call[h].cancel THEN Execute(call[h].more) ELSE confirm
  /\ call' = [call EXCEPT ![h] = Idle]
  /\ UNCHANGED <<people, window, token, cleanup, changes>>

(* ... then taken from the cache, by whoever finds it there; the change    *)
(* checks authority and target again.                                      *)
Pop(h) ==
  LET k == call[h].more IN
  /\ call[h].op = "confirm"
  /\ cache' = [cache EXCEPT !.confirms = @ \ {k}]
  /\ confirm' = IF k \in cache.confirms /\ ~call[h].cancel THEN Execute(k) ELSE confirm
  /\ call' = [call EXCEPT ![h] = Idle]
  /\ UNCHANGED <<people, window, token, cleanup, changes>>
----------------------------------------------------------------------------
(* Time, the sweep of the worker, and what changes under the windows.  A   *)
(* key of the cache that expires within a second of the deadline only      *)
(* refuses clicks that the deadline refuses too, and is left out.          *)

(* The time of a window is over for its tokens and its handlers; windows   *)
(* end in the order they were opened.                                      *)
End(w) ==
  /\ window[w].left = Some /\ \A v \in 1 .. w - 1 : window[v].left = None
  /\ window' = [window EXCEPT ![w].left = None]
  /\ token' = [t \in DOMAIN token |->
                 IF token[t].window = w THEN [token[t] EXCEPT !.left = None] ELSE token[t]]
  /\ call' = [h \in Calls |->
                 IF call[h].window = w THEN [call[h] EXCEPT !.left = None] ELSE call[h]]
  /\ UNCHANGED <<people, cache, cleanup, changes, confirm>>

Outdate(k) ==
  /\ k \in cache.confirms /\ confirm[k].left = Some
  /\ confirm' = [confirm EXCEPT ![k].left = None]
  /\ UNCHANGED <<people, window, token, cache, cleanup, call, changes>>

Fall(w) ==
  /\ w \in DOMAIN cleanup.index /\ cleanup.index[w] = "fresh" /\ window[w].left = None
  /\ cleanup' = [cleanup EXCEPT !.index[w] = "due"]
  /\ UNCHANGED <<people, window, token, cache, call, changes, confirm>>

DueWindows == {w \in DOMAIN cleanup.index : cleanup.index[w] = "due"}

\* Fault: the sweep takes off the index whatever was due.
SweepAll(gone) ==
  /\ cleanup.swept = {} /\ DueWindows # {} /\ gone \subseteq {w \in DueWindows : window[w].there}
  /\ window' = [w \in DOMAIN window |-> [window[w] EXCEPT !.there = @ /\ w \notin gone]]
  /\ cleanup' = [cleanup EXCEPT !.swept = DueWindows]
  /\ UNCHANGED <<people, token, cache, call, changes, confirm>>

(* The sweep deletes what is due and takes off the index, later, what it   *)
(* deleted: a failed deletion is tried again.                              *)
Sweep(gone) ==
  /\ cleanup.swept = {} /\ gone # {} /\ gone \subseteq {w \in DueWindows : window[w].there}
  /\ window' = [w \in DOMAIN window |-> [window[w] EXCEPT !.there = @ /\ w \notin gone]]
  /\ cleanup' = [cleanup EXCEPT !.swept = gone]
  /\ UNCHANGED <<people, token, cache, call, changes, confirm>>

SweepEnd ==
  /\ cleanup.swept # {}
  /\ cleanup' = [cleanup EXCEPT !.index = Unregistered(@, cleanup.swept), !.swept = {}]
  /\ UNCHANGED <<people, window, token, cache, call, changes, confirm>>

Change(to) ==
  /\ changes < MaxChanges /\ changes' = changes + 1
  /\ people' = to /\ people' # people
  /\ UNCHANGED <<window, token, cache, cleanup, call, confirm>>

Demote(u) == Change([people EXCEPT !.admins = @ \ {u}, !.locals = @ \ {u}])
Promote(u) == \E role \in {"admins", "locals"} : Change([people EXCEPT ![role] = @ \cup {u}])
(* Another identity takes the user's, or the group's, Telegram identity.   *)
Renew(u) == Change([people EXCEPT !.gen[u] = @ + 1, !.admins = @ \ {u}])
RenewGroup == Change([people EXCEPT !.group = @ + 1])
----------------------------------------------------------------------------
Handler(h) ==
  \/ Seek(h) \/ Replace(h) \/ Expired(h) \/ Withdraw(h) \/ Issue(h) \/ Edit(h) \/ Settle(h)
  \/ Close(h) \/ SetLanguage(h) \/ SetFeature(h) \/ SetCategory(h) \/ Pop(h)

(* All windows opened, their time over and nothing left to do.             *)
Over ==
  /\ \A h \in Calls : call[h] = Idle
  /\ \A w \in DOMAIN window : window[w].left = None
  /\ UNCHANGED vars

Next ==
  \/ \E h \in Calls : Handler(h)
  \/ \E h \in Calls, u \in Users, chat \in Chats : Open(h, u, chat)
  \/ \E h \in Calls, u \in Users, t \in DOMAIN token :
       \E op \in Offered(token[t].menu, ChatOf(token[t].window)) : Click(h, u, t, op)
  \/ \E h \in Calls, k \in DOMAIN confirm, cancel \in BOOLEAN : Confirm(h, k, cancel)
  \/ \E u \in Users : Preview(u) \/ Demote(u) \/ Promote(u) \/ Renew(u)
  \/ SweepEnd \/ RenewGroup \/ Over
  \/ \E w \in DOMAIN window : End(w) \/ Fall(w)
  \/ \E k \in DOMAIN confirm : Outdate(k)
  \/ \E gone \in SUBSET DueWindows : Sweep(gone)

Spec == Init /\ [][Next]_vars
----------------------------------------------------------------------------
(* Properties.                                                             *)

(* The click that a handler has just accepted.                             *)
Accepted(t) ==
  \E h \in Calls : call[h] = Idle /\ call'[h].op \notin {"idle", "confirm"} /\ call'[h].from = t

(* SettingsSessionService.issue: once a later token was stored for the     *)
(* chat, by another click or by a window opened since, no button with an   *)
(* earlier token is accepted again, though two renders that overlap leave  *)
(* the earlier one in the cache.                                           *)
SupersededNeverActs ==
  [][\A t \in DOMAIN token : Accepted(t) =>
       \A later \in DOMAIN token : later > t =>
         ChatOf(token[later].window) # ChatOf(token[t].window)]_vars

(* No click is accepted after thirty seconds from the opening of its       *)
(* window, however often the window was rendered in between.               *)
DeadlineKept ==
  [][\A t \in DOMAIN token : Accepted(t) =>
       window[token[t].window].left = Some]_vars

(* AdminSessionService.resolve: a confirmation is executed at most once,   *)
(* also when two clicks read it before either takes it.                    *)
ConfirmedOnce == \A k \in DOMAIN confirm : confirm[k].done <= 1

\* Windows, tokens, cached keys and the index refer to what exists; a window may be about to.
TypeOK ==
  /\ people \in [admins : SUBSET Users, locals : SUBSET Users, gen : [Users -> Nat \ {0}], group : Nat \ {0}]
  /\ window \in Seq([chat : Chats, left : {Some, None}, there : BOOLEAN, givenUp : BOOLEAN])
  /\ \A t \in DOMAIN token :
       token[t].window \in DOMAIN window /\ token[t].left \in {Some, None}
  /\ cache.kept \subseteq DOMAIN token /\ cache.current \in [Chats -> 0..Len(token)]
  /\ cache.confirms \subseteq DOMAIN confirm
  /\ cleanup.index \in [DOMAIN cleanup.index -> {"fresh", "due"}]
  /\ DOMAIN cleanup.index \cup cleanup.swept \subseteq DOMAIN window
  /\ cleanup.single \in [Chats -> 0..Len(window)]
  /\ \A h \in Calls : call[h].window \in 0..Len(window) + 1
  /\ changes \in 0..MaxChanges

(* A window that is still there is in the index of messages to delete,     *)
(* unless its deletion was tried and failed when it was closed or          *)
(* replaced, or the handler that opened it has not registered it yet.      *)
WindowsAreTracked ==
  /\ TypeOK
  /\ \A w \in DOMAIN window : window[w].there =>
       \/ w \in DOMAIN cleanup.index
       \/ window[w].givenUp
       \/ \E h \in Handlers({"seek", "replace"}) : call[h].window = w

\* A click acts by the latest token of its chat and within the time of its window, whatever renders
\* overlap it (SettingsSessionService).
ClicksJudged == SupersededNeverActs /\ DeadlineKept
=============================================================================
