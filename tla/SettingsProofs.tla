----------------------------- MODULE SettingsProofs -----------------------------
(***************************************************************************)
(* Proofs about the windows of the settings and the confirmations of       *)
(* administrators, for any number of users, handlers, windows, renders and *)
(* confirmations.                                                          *)
(***************************************************************************)
EXTENDS Settings, SequenceTheorems, TLAPS

(***************************************************************************)
(* The inductive invariant.                                                *)
(***************************************************************************)

Menus == {"groups", "main", "edit"}
Lefts == {Some, None}
Steps == {"seek", "replace", "render", "issue", "edit", "settle", "close"} \cup Edits

People == [admins : SUBSET Users, locals : SUBSET Users, gen : [Users -> Nat \ {0}],
           group : Nat \ {0}]
Message == [chat : Chats, left : Lefts, there : BOOLEAN, givenUp : BOOLEAN]
Token == [window : Nat, gen : Nat, target : Nat, choice : Nat, menu : Menus, left : Lefts]
Confirmed == [user : Users, gen : Nat, target : Nat, left : Lefts, done : Nat]
Cache == [kept : SUBSET Nat, current : [Chats -> Nat], confirms : SUBSET Nat]
Work == [op : Steps, window : Nat, user : Users, gen : Nat, target : Nat, menu : Menus,
         left : Lefts, from : Nat, more : Nat]
Confirming == [op : {"confirm"}, more : Nat, cancel : BOOLEAN, window : {0}]

\* A handler at work is on a window that exists, and has no time of its own:
\* what it remembers of the window's time is over when the window's is.
CallOK(c, win, asked) ==
  \/ c = Idle
  \/ c \in Confirming /\ c.more \in asked
  \/ c \in Work /\ c.window \in DOMAIN win /\ (c.left = Some => win[c.window].left = Some)

RowsInv ==
  /\ people \in People /\ changes \in 0..MaxChanges
  /\ window \in Seq(Message) /\ token \in Seq(Token) /\ confirm \in Seq(Confirmed)
  /\ cache \in Cache

\* So has a token; and the current token of a chat is the last that was issued for it.
TokensInv ==
  /\ cache.kept \subseteq DOMAIN token
  /\ \A c \in Chats : cache.current[c] <= Len(token)
  /\ \A t \in DOMAIN token :
       /\ token[t].window \in DOMAIN window
       /\ token[t].left = Some => window[token[t].window].left = Some
       /\ t <= cache.current[ChatOf(token[t].window)]

\* A confirmation that is still in the cache was not executed yet.
ConfirmInv ==
  /\ cache.confirms \subseteq DOMAIN confirm
  /\ \A k \in DOMAIN confirm : confirm[k].done <= 1 /\ (k \in cache.confirms => confirm[k].done = 0)

\* What the sweep is about to take off the index is deleted.
CleanupInv ==
  /\ cleanup = [index |-> cleanup.index, single |-> cleanup.single, swept |-> cleanup.swept]
  /\ cleanup.index \in [DOMAIN cleanup.index -> {"fresh", "due"}]
  /\ DOMAIN cleanup.index \cup cleanup.swept \subseteq DOMAIN window
  /\ cleanup.single \in [Chats -> 0..Len(window)]
  /\ \A w \in cleanup.swept : ~window[w].there

Tracked ==
  \A w \in DOMAIN window : window[w].there =>
    \/ w \in DOMAIN cleanup.index
    \/ window[w].givenUp
    \/ \E h \in Handlers({"seek", "replace"}) : call[h].window = w

CallsInv ==
  /\ call = [h \in Calls |-> call[h]]
  /\ \A h \in Calls : CallOK(call[h], window, DOMAIN confirm)

IInv == RowsInv /\ TokensInv /\ ConfirmInv /\ CleanupInv /\ Tracked /\ CallsInv

LEMMA InitInv == Init => IInv
<1> SUFFICES ASSUME Init PROVE IInv
  OBVIOUS
<1>1. /\ window = << >> /\ token = << >> /\ confirm = << >>
      /\ cache = [kept |-> {}, current |-> [c \in Chats |-> 0], confirms |-> {}]
      /\ cleanup = [index |-> << >>, single |-> [c \in Chats |-> 0], swept |-> {}]
      /\ call = [h \in Calls |-> Idle] /\ changes = 0
  BY DEF Init
<1>2. /\ window \in Seq(Message) /\ token \in Seq(Token) /\ confirm \in Seq(Confirmed)
      /\ DOMAIN window = {} /\ DOMAIN token = {} /\ DOMAIN confirm = {}
      /\ Len(window) = 0 /\ Len(token) = 0
  BY <1>1
<1>3. RowsInv
  <2>1. people \in People
    BY DEF Init, People
  <2>2. cache \in Cache
    BY <1>1 DEF Cache
  <2>3. changes \in 0..MaxChanges
    BY <1>1, SettingsAssumption
  <2> QED BY <1>2, <2>1, <2>2, <2>3 DEF RowsInv
<1>4. TokensInv
  BY <1>1, <1>2 DEF TokensInv
<1>5. ConfirmInv
  BY <1>1, <1>2 DEF ConfirmInv
<1>6. CleanupInv
  <2>1. cleanup.index = << >> /\ cleanup.swept = {} /\ cleanup.single = [c \in Chats |-> 0]
    BY <1>1
  <2>2. DOMAIN cleanup.index = {} /\ cleanup.index \in [DOMAIN cleanup.index -> {"fresh", "due"}]
    BY <2>1
  <2> QED BY <1>1, <1>2, <2>1, <2>2 DEF CleanupInv
<1>7. Tracked
  BY <1>2 DEF Tracked
<1>8. CallsInv
  BY <1>1 DEF CallsInv, CallOK
<1> QED BY <1>3, <1>4, <1>5, <1>6, <1>7, <1>8 DEF IInv

----------------------------------------------------------------------------
(***************************************************************************)
(* Facts about the invariant.                                              *)
(***************************************************************************)

\* The rows by index.
LEMMA Rows ==
  ASSUME RowsInv
  PROVE  /\ DOMAIN window = 1..Len(window) /\ Len(window) \in Nat
         /\ DOMAIN token = 1..Len(token) /\ Len(token) \in Nat
         /\ DOMAIN confirm = 1..Len(confirm) /\ Len(confirm) \in Nat
         /\ \A w \in DOMAIN window : window[w] \in Message
         /\ \A t \in DOMAIN token : token[t] \in Token
         /\ \A k \in DOMAIN confirm : confirm[k] \in Confirmed
BY DEF RowsInv

\* A handler in one of the steps of a window is on that window.
LEMMA AtWork ==
  ASSUME CallsInv, NEW h \in Calls, call[h].op \in Steps
  PROVE  /\ call[h] \in Work /\ call[h].window \in DOMAIN window
         /\ call[h].left = Some => window[call[h].window].left = Some
<1>1. CallOK(call[h], window, DOMAIN confirm)
  BY DEF CallsInv
<1>2. call[h] # Idle
  BY DEF Idle, Steps, Edits
<1>3. call[h] \notin Confirming
  BY DEF Confirming, Steps, Edits
<1> QED BY <1>1, <1>2, <1>3 DEF CallOK

\* A step that changes what one handler remembers, to something in order, and
\* does not take from a window that was just opened the handler it has.
LEMMA CallStep ==
  ASSUME IInv, NEW h \in Calls, NEW c, CallOK(c, window, DOMAIN confirm),
         call[h].op \in {"seek", "replace"} =>
           c.op \in {"seek", "replace"} /\ c.window = call[h].window,
         call' = [call EXCEPT ![h] = c],
         UNCHANGED <<people, window, token, cache, cleanup, changes, confirm>>
  PROVE  IInv'
<1>1. RowsInv' /\ TokensInv' /\ ConfirmInv' /\ CleanupInv'
  BY DEF IInv, RowsInv, TokensInv, ConfirmInv, CleanupInv, ChatOf
<1>3. CallsInv'
  BY DEF IInv, CallsInv, CallOK
<1>4. Tracked'
  BY DEF IInv, Tracked, Handlers, CallsInv
<1> QED BY <1>1, <1>3, <1>4 DEF IInv

----------------------------------------------------------------------------
(***************************************************************************)
(* Opening, rendering and clicking.                                        *)
(***************************************************************************)

LEMMA OpenInv ==
  ASSUME IInv, NEW h \in Calls, NEW u \in Users, NEW chat \in Chats, Open(h, u, chat)
  PROVE  IInv'
<1> DEFINE c == Prepared(u, chat)
           m == [chat |-> chat, left |-> Some, there |-> TRUE, givenUp |-> FALSE]
           n == Len(window) + 1
<1>1. /\ call[h] = Idle /\ window' = Append(window, m) /\ call' = [call EXCEPT ![h] = c]
      /\ UNCHANGED <<people, token, cache, cleanup, changes, confirm>>
  BY DEF Open
<1>2. RowsInv /\ people \in People /\ window \in Seq(Message)
  BY DEF IInv, RowsInv
<1>3. m \in Message
  BY DEF Message, Lefts
<1>4. c \in Work /\ c.window = n /\ c.op = "seek"
  BY <1>2, Rows DEF Prepared, Work, Steps, Menus, Lefts, People
<1> HIDE DEF m, c
<1>5. /\ window' \in Seq(Message) /\ DOMAIN window' = DOMAIN window \cup {n}
      /\ Len(window') = n /\ window'[n] = m
      /\ \A w \in DOMAIN window : window'[w] = window[w] /\ w # n
  BY <1>1, <1>2, <1>3, AppendProperties, Rows
<1>6. m.left = Some
  BY DEF m
<1>7. RowsInv'
  BY <1>1, <1>2, <1>5 DEF RowsInv
<1>8. TokensInv'
  BY <1>1, <1>5 DEF IInv, TokensInv, ChatOf
<1>9. ConfirmInv'
  BY <1>1 DEF IInv, ConfirmInv
<1>10. CleanupInv'
  <2>1. cleanup.single \in [Chats -> 0..Len(window)] /\ Len(window) \in Nat
    BY <1>2, Rows DEF IInv, CleanupInv
  <2>2. cleanup.single \in [Chats -> 0..n]
    BY <2>1
  <2> QED BY <1>1, <1>5, <2>2 DEF IInv, CleanupInv
<1>11. CallsInv'
  <2>1. \A x : CallOK(x, window, DOMAIN confirm) => CallOK(x, window', DOMAIN confirm')
    BY <1>1, <1>5 DEF CallOK
  <2>2. CallOK(c, window', DOMAIN confirm')
    BY <1>4, <1>5, <1>6 DEF CallOK
  <2>3. call' = [k \in Calls |-> call'[k]] /\ \A k \in Calls : call'[k] = IF k = h THEN c ELSE call[k]
    BY <1>1 DEF IInv, CallsInv
  <2> QED BY <2>1, <2>2, <2>3 DEF IInv, CallsInv, CallOK
<1>12. Tracked'
  <2>1. \A k \in Calls : call'[k] = IF k = h THEN c ELSE call[k]
    BY <1>1 DEF IInv, CallsInv
  <2>2. h \in Handlers({"seek", "replace"})' /\ call'[h].window = n
    BY <1>4, <2>1 DEF Handlers
  <2>3. \A k \in Handlers({"seek", "replace"}) : k \in Handlers({"seek", "replace"})' /\ call'[k] = call[k]
    BY <1>1, <2>1 DEF Handlers, Idle
  <2> QED BY <1>1, <1>5, <2>2, <2>3 DEF IInv, Tracked
<1> QED BY <1>7, <1>8, <1>9, <1>10, <1>11, <1>12 DEF IInv

LEMMA SeekInv == ASSUME IInv, NEW h \in Calls, Seek(h) PROVE IInv'
<1> DEFINE v == cleanup.single[ChatOf(call[h].window)]
           c == [call[h] EXCEPT !.op = "replace", !.more = v]
<1>1. call[h].op = "seek" /\ call[h] \in Work /\ call[h].window \in DOMAIN window
      /\ (call[h].left = Some => window[call[h].window].left = Some)
  BY AtWork DEF Seek, Steps, IInv
<1>2. v \in Nat
  <2>1. window[call[h].window] \in Message
    BY <1>1, Rows DEF IInv
  <2>2. ChatOf(call[h].window) \in Chats
    BY <2>1 DEF ChatOf, Message
  <2> QED BY <2>2, Rows DEF IInv, CleanupInv
<1> HIDE DEF v
<1>3. c \in Work /\ c.window = call[h].window /\ c.op = "replace" /\ c.left = call[h].left
  BY <1>1, <1>2 DEF Work, Steps
<1>4. call' = [call EXCEPT ![h] = c] /\ UNCHANGED <<people, window, token, cache, cleanup, changes, confirm>>
  BY DEF Seek, v
<1> HIDE DEF c
<1>5. CallOK(c, window, DOMAIN confirm)
  BY <1>1, <1>3 DEF CallOK
<1> QED BY <1>3, <1>4, <1>5, CallStep

\* The steps of a handler that change only what it remembers.
LEMMA StepsInv ==
  ASSUME IInv, NEW h \in Calls, NEW c,
         call[h].op \in Steps \ {"seek", "replace"},
         c = Idle \/ \E op \in Steps : c = [call[h] EXCEPT !.op = op],
         call' = [call EXCEPT ![h] = c],
         UNCHANGED <<people, window, token, cache, cleanup, changes, confirm>>
  PROVE  IInv'
<1>1. call[h] \in Work /\ call[h].window \in DOMAIN window
      /\ (call[h].left = Some => window[call[h].window].left = Some)
  BY AtWork DEF IInv
<1>2. CallOK(c, window, DOMAIN confirm)
  <2>1. CASE c = Idle
    BY <2>1 DEF CallOK
  <2>2. CASE \E op \in Steps : c = [call[h] EXCEPT !.op = op]
    <3>1. c \in Work /\ c.window = call[h].window /\ c.left = call[h].left
      BY <1>1, <2>2 DEF Work
    <3> QED BY <1>1, <3>1 DEF CallOK
  <2> QED BY <2>1, <2>2
<1> QED BY <1>2, CallStep

\* Windows keep their chats and times; what is deleted or given up stays so.
SameWindows ==
  /\ window' \in Seq(Message) /\ DOMAIN window' = DOMAIN window /\ Len(window') = Len(window)
  /\ \A w \in DOMAIN window :
       /\ window'[w].chat = window[w].chat /\ window'[w].left = window[w].left
       /\ window'[w].there => window[w].there
       /\ window[w].givenUp => window'[w].givenUp

LEMMA WindowDeleted ==
  ASSUME RowsInv, NEW w, NEW failed \in BOOLEAN, window' = Deleted(w, failed)
  PROVE  /\ SameWindows
         /\ \A v \in DOMAIN window : window'[v].there /\ v = w => window'[v].givenUp
<1>1. CASE w \notin DOMAIN window
  BY <1>1 DEF Deleted, SameWindows, RowsInv
<1>2. CASE w \in DOMAIN window
  <2> DEFINE d == [window[w] EXCEPT !.there = @ /\ failed, !.givenUp = @ \/ failed]
  <2>1. window[w] \in Message /\ window \in Seq(Message)
    BY <1>2, Rows DEF RowsInv
  <2>2. /\ d \in Message /\ d.chat = window[w].chat /\ d.left = window[w].left
        /\ d.there <=> (window[w].there /\ failed)
        /\ d.givenUp <=> (window[w].givenUp \/ failed)
    BY <2>1 DEF Message
  <2>3. window' = [window EXCEPT ![w] = d]
    BY <1>2 DEF Deleted
  <2> HIDE DEF d
  <2>4. /\ window' \in Seq(Message) /\ DOMAIN window' = DOMAIN window /\ Len(window') = Len(window)
        /\ \A v \in DOMAIN window : window'[v] = IF v = w THEN d ELSE window[v]
    BY <1>2, <2>1, <2>2, <2>3, ExceptSeq
  <2> QED BY <2>2, <2>4 DEF SameWindows
<1> QED BY <1>1, <1>2

\* The parts of the invariant that such windows keep.
LEMMA SameWindowsKeep ==
  ASSUME IInv, SameWindows, UNCHANGED <<token, confirm>>, cache'.current = cache.current,
         cache'.kept \subseteq cache.kept
  PROVE  /\ TokensInv'
         /\ \A x : CallOK(x, window, DOMAIN confirm) => CallOK(x, window', DOMAIN confirm')
<1>1. TokensInv'
  BY DEF IInv, TokensInv, SameWindows, ChatOf
<1>2. ASSUME NEW x, CallOK(x, window, DOMAIN confirm)
      PROVE  CallOK(x, window', DOMAIN confirm')
  BY <1>2 DEF CallOK, SameWindows
<1> QED BY <1>1, <1>2

LEMMA ReplaceInv == ASSUME IInv, NEW h \in Calls, Replace(h) PROVE IInv'
<1> DEFINE c == call[h]
           w == c.window
           d == [c EXCEPT !.op = "render", !.more = 0]
<1>1. c.op = "replace" /\ c \in Work /\ w \in DOMAIN window
      /\ (c.left = Some => window[w].left = Some)
  BY AtWork DEF Replace, Steps, IInv
<1>2. PICK failed \in BOOLEAN : window' = Deleted(c.more, failed)
  BY DEF Replace
<1>3. /\ cleanup' = [cleanup EXCEPT !.index = Registered(Unregistered(@, {c.more}), w),
                                    !.single[ChatOf(w)] = w]
      /\ call' = [call EXCEPT ![h] = d]
      /\ UNCHANGED <<people, token, cache, changes, confirm>>
  BY DEF Replace
<1>4. d \in Work /\ d.window = w /\ d.left = c.left /\ d.op = "render"
  BY <1>1 DEF Work, Steps
<1> HIDE DEF d
<1>5. /\ SameWindows
      /\ \A v \in DOMAIN window : window'[v].there /\ v = c.more => window'[v].givenUp
  BY <1>2, WindowDeleted DEF IInv
<1>6. RowsInv'
  BY <1>3, <1>5 DEF IInv, RowsInv, SameWindows
<1>7. TokensInv' /\ \A x : CallOK(x, window, DOMAIN confirm) => CallOK(x, window', DOMAIN confirm')
  BY <1>3, <1>5, SameWindowsKeep
<1>8. ConfirmInv'
  BY <1>3 DEF IInv, ConfirmInv
<1>9. \A k \in Calls : call'[k] = IF k = h THEN d ELSE call[k]
  BY <1>3 DEF IInv, CallsInv
<1>10. CallsInv'
  <2>1. CallOK(d, window, DOMAIN confirm)
    BY <1>1, <1>4 DEF CallOK
  <2>2. call' = [k \in Calls |-> call'[k]]
    BY <1>3 DEF IInv, CallsInv
  <2> QED BY <1>7, <1>9, <2>1, <2>2 DEF IInv, CallsInv
<1>11. /\ cleanup'.index = Registered(Unregistered(cleanup.index, {c.more}), w)
       /\ cleanup'.single = [cleanup.single EXCEPT ![ChatOf(w)] = w]
       /\ cleanup'.swept = cleanup.swept
       /\ cleanup' = [index |-> cleanup'.index, single |-> cleanup'.single, swept |-> cleanup'.swept]
  BY <1>3 DEF IInv, CleanupInv
<1>12. /\ DOMAIN cleanup'.index = (DOMAIN cleanup.index \ {c.more}) \cup {w}
       /\ cleanup'.index \in [DOMAIN cleanup'.index -> {"fresh", "due"}]
  BY <1>11 DEF Registered, Unregistered, IInv, CleanupInv
<1>13. CleanupInv'
  <2>1. cleanup'.single \in [Chats -> 0..Len(window')]
    <3>1. w \in 0..Len(window)
      BY <1>1, Rows DEF IInv
    <3>2. cleanup.single \in [Chats -> 0..Len(window)] /\ Len(window') = Len(window)
      BY <1>5 DEF IInv, CleanupInv, SameWindows
    <3> HIDE DEF w
    <3> QED BY <1>11, <3>1, <3>2
  <2> QED BY <1>1, <1>5, <1>11, <1>12, <2>1 DEF IInv, CleanupInv, SameWindows
<1>14. Tracked'
  <2>1. \A k \in Handlers({"seek", "replace"}) \ {h} :
          k \in Handlers({"seek", "replace"})' /\ call'[k] = call[k]
    BY <1>9 DEF Handlers
  <2> QED BY <1>5, <1>12, <2>1 DEF IInv, Tracked, SameWindows
<1> QED BY <1>6, <1>7, <1>8, <1>10, <1>13, <1>14 DEF IInv

LEMMA WithdrawInv == ASSUME IInv, NEW h \in Calls, Withdraw(h) PROVE IInv'
<1> DEFINE more == IF call[h].menu = "groups" /\ Manages(call[h].user) THEN people.group ELSE 0
           d == [call[h] EXCEPT !.op = "issue", !.more = more]
           old == cache.current[ChatOf(call[h].window)]
<1>1. /\ call[h].op = "render" /\ call[h] \in Work /\ call[h].window \in DOMAIN window
      /\ (call[h].left = Some => window[call[h].window].left = Some)
  BY AtWork DEF Withdraw, Steps, IInv
<1>2. more \in Nat
  BY DEF IInv, RowsInv, People
<1>3. /\ cache' = [cache EXCEPT !.kept = @ \ {old}]
      /\ call' = [call EXCEPT ![h] = d]
      /\ UNCHANGED <<people, window, token, cleanup, changes, confirm>>
  BY DEF Withdraw
<1> HIDE DEF more, old
<1>4. d \in Work /\ d.window = call[h].window /\ d.left = call[h].left /\ d.op = "issue"
  BY <1>1, <1>2 DEF Work, Steps
<1> HIDE DEF d
<1>5. cache' \in Cache /\ cache'.current = cache.current /\ cache'.confirms = cache.confirms
      /\ cache'.kept \subseteq cache.kept
  BY <1>3 DEF IInv, RowsInv, Cache
<1>6. RowsInv' /\ TokensInv' /\ ConfirmInv' /\ CleanupInv'
  BY <1>3, <1>5 DEF IInv, RowsInv, TokensInv, ConfirmInv, CleanupInv, ChatOf
<1>7. \A k \in Calls : call'[k] = IF k = h THEN d ELSE call[k]
  BY <1>3 DEF IInv, CallsInv
<1>8. CallsInv'
  <2>1. CallOK(d, window, DOMAIN confirm)
    BY <1>1, <1>4 DEF CallOK
  <2> QED BY <1>3, <1>7, <2>1 DEF IInv, CallsInv
<1>9. Tracked'
  BY <1>1, <1>3, <1>7 DEF IInv, Tracked, Handlers
<1> QED BY <1>6, <1>8, <1>9 DEF IInv

\* The token just stored is the last of its chat.
LEMMA IssueInv == ASSUME IInv, NEW h \in Calls, Issue(h) PROVE IInv'
<1> DEFINE c == call[h]
           n == Len(token) + 1
           x == Context(c, c.left)
           d == [c EXCEPT !.op = "edit", !.more = 0]
           chat == ChatOf(c.window)
<1>1. /\ c.op = "issue" /\ c \in Work /\ c.window \in DOMAIN window
      /\ (c.left = Some => window[c.window].left = Some)
  BY AtWork DEF Issue, Steps, IInv
<1>2. /\ token' = Append(token, x)
      /\ cache' = [cache EXCEPT !.kept = @ \cup {n}, !.current[chat] = n]
      /\ call' = [call EXCEPT ![h] = d]
      /\ UNCHANGED <<people, window, cleanup, changes, confirm>>
  BY DEF Issue
<1>3. x \in Token /\ x.window = c.window /\ x.left = c.left
  BY <1>1 DEF Context, Token, Work
<1>4. d \in Work /\ d.window = c.window /\ d.left = c.left /\ d.op = "edit"
  BY <1>1 DEF Work, Steps
<1>5. chat \in Chats
  BY <1>1, Rows DEF ChatOf, Message, IInv
<1>6. RowsInv /\ token \in Seq(Token) /\ cache \in Cache /\ n \in Nat /\ n \notin DOMAIN token
  BY Rows DEF IInv, RowsInv
<1> HIDE DEF x, d
<1>7. /\ token' \in Seq(Token) /\ DOMAIN token' = DOMAIN token \cup {n} /\ Len(token') = n
      /\ token'[n] = x /\ \A t \in DOMAIN token : token'[t] = token[t] /\ t <= n /\ t # n
  BY <1>2, <1>3, <1>6, AppendProperties, Rows
<1>8. /\ cache' \in Cache /\ cache'.kept = cache.kept \cup {n} /\ cache'.confirms = cache.confirms
      /\ \A k \in Chats : cache'.current[k] = IF k = chat THEN n ELSE cache.current[k]
  BY <1>2, <1>5, <1>6 DEF Cache
<1>9. RowsInv'
  BY <1>2, <1>7, <1>8 DEF IInv, RowsInv
<1>10. TokensInv'
  <2>1. \A t \in DOMAIN token : ChatOf(token[t].window) \in Chats
    BY Rows DEF IInv, TokensInv, ChatOf, Message
  <2>2. \A k \in Chats : cache.current[k] <= Len(token) /\ cache.current[k] \in Nat
    BY <1>6 DEF IInv, TokensInv, Cache
  <2>3. \A k \in Chats : cache'.current[k] <= n
    BY <1>6, <1>8, <2>2, Rows
  <2>4. \A t \in DOMAIN token' :
          /\ token'[t].window \in DOMAIN window'
          /\ token'[t].left = Some => window'[token'[t].window].left = Some
    BY <1>1, <1>2, <1>3, <1>7 DEF IInv, TokensInv
  <2>5. \A t \in DOMAIN token : t <= cache'.current[ChatOf(token[t].window)]
    BY <1>7, <1>8, <2>1 DEF IInv, TokensInv
  <2>6. n <= cache'.current[ChatOf(x.window)]
    BY <1>3, <1>5, <1>6, <1>8
  <2>7. \A t \in DOMAIN token' : t <= cache'.current[ChatOf(token'[t].window)]
    BY <1>7, <2>5, <2>6
  <2> QED BY <1>2, <1>7, <1>8, <2>3, <2>4, <2>7 DEF IInv, TokensInv, ChatOf
<1>11. ConfirmInv' /\ CleanupInv'
  BY <1>2, <1>8 DEF IInv, ConfirmInv, CleanupInv
<1>12. \A k \in Calls : call'[k] = IF k = h THEN d ELSE call[k]
  BY <1>2 DEF IInv, CallsInv
<1>13. CallsInv'
  <2>1. CallOK(d, window, DOMAIN confirm)
    BY <1>1, <1>4 DEF CallOK
  <2> QED BY <1>2, <1>12, <2>1 DEF IInv, CallsInv
<1>14. Tracked'
  BY <1>1, <1>2, <1>12 DEF IInv, Tracked, Handlers
<1> QED BY <1>9, <1>10, <1>11, <1>13, <1>14 DEF IInv

LEMMA SettleInv == ASSUME IInv, NEW h \in Calls, Settle(h) PROVE IInv'
<1> DEFINE c == call[h]
           w == c.window
<1>1. c.op = "settle" /\ c \in Work /\ w \in DOMAIN window
  BY AtWork DEF Settle, Steps, IInv
<1>2. /\ cache' = [cache EXCEPT !.kept = @ \ {c.from}]
      /\ cleanup' = [cleanup EXCEPT !.index = Registered(@, w), !.single[ChatOf(w)] = w]
      /\ call' = [call EXCEPT ![h] = Idle]
      /\ UNCHANGED <<people, window, token, changes, confirm>>
  BY DEF Settle
<1>3. cache' \in Cache /\ cache'.current = cache.current /\ cache'.confirms = cache.confirms
      /\ cache'.kept \subseteq cache.kept
  BY <1>2 DEF IInv, RowsInv, Cache
<1>4. RowsInv' /\ TokensInv' /\ ConfirmInv'
  BY <1>2, <1>3 DEF IInv, RowsInv, TokensInv, ConfirmInv, ChatOf
<1>5. /\ cleanup'.index = Registered(cleanup.index, w)
      /\ cleanup'.single = [cleanup.single EXCEPT ![ChatOf(w)] = w]
      /\ cleanup'.swept = cleanup.swept
      /\ cleanup' = [index |-> cleanup'.index, single |-> cleanup'.single, swept |-> cleanup'.swept]
  BY <1>2 DEF IInv, CleanupInv
<1>6. /\ DOMAIN cleanup'.index = DOMAIN cleanup.index \cup {w}
      /\ cleanup'.index \in [DOMAIN cleanup'.index -> {"fresh", "due"}]
  BY <1>5 DEF Registered, IInv, CleanupInv
<1>7. cleanup'.single \in [Chats -> 0..Len(window)]
  <2>1. w \in 0..Len(window)
    BY <1>1, Rows DEF IInv
  <2>2. cleanup.single \in [Chats -> 0..Len(window)]
    BY DEF IInv, CleanupInv
  <2> HIDE DEF w
  <2> QED BY <1>5, <2>1, <2>2
<1>8. CleanupInv'
  BY <1>1, <1>2, <1>5, <1>6, <1>7 DEF IInv, CleanupInv
<1>9. \A k \in Calls : call'[k] = IF k = h THEN Idle ELSE call[k]
  BY <1>2 DEF IInv, CallsInv
<1>10. CallsInv'
  BY <1>2, <1>9 DEF IInv, CallsInv, CallOK
<1>11. Tracked'
  BY <1>1, <1>2, <1>6, <1>9 DEF IInv, Tracked, Handlers
<1> QED BY <1>4, <1>8, <1>10, <1>11 DEF IInv

LEMMA CloseInv == ASSUME IInv, NEW h \in Calls, Close(h) PROVE IInv'
<1> DEFINE c == call[h]
           w == c.window
<1>1. c.op = "close" /\ c \in Work /\ w \in DOMAIN window
  BY AtWork DEF Close, Steps, IInv
<1>2. PICK failed \in BOOLEAN : window' = Deleted(w, failed)
  BY DEF Close
<1>3. /\ cache' = [cache EXCEPT !.kept = @ \ {c.from}]
      /\ cleanup' = [cleanup EXCEPT !.index = Unregistered(@, {w})]
      /\ call' = [call EXCEPT ![h] = Idle]
      /\ UNCHANGED <<people, token, changes, confirm>>
  BY DEF Close
<1>4. /\ SameWindows
      /\ \A v \in DOMAIN window : window'[v].there /\ v = w => window'[v].givenUp
  BY <1>2, WindowDeleted DEF IInv
<1>5. cache' \in Cache /\ cache'.current = cache.current /\ cache'.confirms = cache.confirms
      /\ cache'.kept \subseteq cache.kept
  BY <1>3 DEF IInv, RowsInv, Cache
<1>6. TokensInv' /\ \A x : CallOK(x, window, DOMAIN confirm) => CallOK(x, window', DOMAIN confirm')
  BY <1>3, <1>4, <1>5, SameWindowsKeep
<1>7. RowsInv' /\ ConfirmInv'
  BY <1>3, <1>4, <1>5 DEF IInv, RowsInv, ConfirmInv, SameWindows
<1>8. /\ cleanup'.index = Unregistered(cleanup.index, {w})
      /\ cleanup'.single = cleanup.single /\ cleanup'.swept = cleanup.swept
      /\ cleanup' = [index |-> cleanup'.index, single |-> cleanup'.single, swept |-> cleanup'.swept]
  BY <1>3 DEF IInv, CleanupInv
<1>9. /\ DOMAIN cleanup'.index = DOMAIN cleanup.index \ {w}
      /\ cleanup'.index \in [DOMAIN cleanup'.index -> {"fresh", "due"}]
  BY <1>8 DEF Unregistered, IInv, CleanupInv
<1>10. CleanupInv'
  BY <1>4, <1>8, <1>9 DEF IInv, CleanupInv, SameWindows
<1>11. \A k \in Calls : call'[k] = IF k = h THEN Idle ELSE call[k]
  BY <1>3 DEF IInv, CallsInv
<1>12. CallsInv'
  BY <1>3, <1>6, <1>11 DEF IInv, CallsInv, CallOK
<1>13. Tracked'
  <2>1. \A k \in Handlers({"seek", "replace"}) :
          k \in Handlers({"seek", "replace"})' /\ call'[k] = call[k]
    BY <1>1, <1>11 DEF Handlers
  <2> QED BY <1>4, <1>9, <2>1 DEF IInv, Tracked, SameWindows
<1> QED BY <1>6, <1>7, <1>10, <1>12, <1>13 DEF IInv

LEMMA OfferedOps ==
  ASSUME NEW menu \in Menus, NEW chat
  PROVE  Offered(menu, chat) \subseteq {"select", "groups", "main", "edit", "close"} \cup Edits
BY DEF Offered, Menus

\* What follows a click is on the window of its token, for the rest of its time.
LEMMA FollowedWork ==
  ASSUME IInv, NEW u \in Users, NEW t \in DOMAIN token,
         NEW op \in {"select", "groups", "main", "edit", "close"} \cup Edits
  PROVE  /\ Followed(u, t, op) \in Work
         /\ Followed(u, t, op).window = token[t].window
         /\ Followed(u, t, op).left = token[t].left
         /\ Followed(u, t, op).from = t
<1> DEFINE row(step, target, menu) ==
      [op |-> step, window |-> token[t].window, user |-> u, gen |-> token[t].gen, target |-> target,
       menu |-> menu, left |-> token[t].left, from |-> t, more |-> 0]
<1>1. token[t] \in Token /\ t \in Nat
  BY Rows DEF IInv
<1>2. \E step \in Steps, target \in Nat, menu \in Menus : Followed(u, t, op) = row(step, target, menu)
  <2>1. CASE op = "select"
    <3>1. Followed(u, t, op) = row("render", token[t].choice, "main")
      BY <2>1 DEF Followed, Edits
    <3> QED BY <1>1, <3>1 DEF Steps, Menus, Token
  <2>2. CASE op = "groups"
    <3>1. Followed(u, t, op) = row("render", 0, "groups")
      BY <2>2 DEF Followed, Edits
    <3> QED BY <3>1 DEF Steps, Menus
  <2>3. CASE op \in {"main", "edit"}
    <3>1. Followed(u, t, op) = row("render", token[t].target, op)
      BY <2>3 DEF Followed, Edits
    <3> QED BY <1>1, <2>3, <3>1 DEF Steps, Menus, Token
  <2>4. CASE op = "close"
    <3>1. Followed(u, t, op) = row("close", token[t].target, token[t].menu)
      BY <2>4 DEF Followed, Edits
    <3> QED BY <1>1, <3>1 DEF Steps, Token
  <2>5. CASE op \in Edits
    <3>1. Followed(u, t, op) = row(op, token[t].target, "edit")
      BY <2>5 DEF Followed, Edits
    <3> QED BY <1>1, <2>5, <3>1 DEF Steps, Menus, Token
  <2> QED BY <2>1, <2>2, <2>3, <2>4, <2>5
<1>3. PICK step \in Steps, target \in Nat, menu \in Menus : Followed(u, t, op) = row(step, target, menu)
  BY <1>2
<1> QED BY <1>1, <1>3 DEF Work, Token

LEMMA ClickInv ==
  ASSUME IInv, NEW h \in Calls, NEW u \in Users, NEW t \in DOMAIN token,
         NEW op \in Offered(token[t].menu, ChatOf(token[t].window)), Click(h, u, t, op)
  PROVE  IInv'
<1> DEFINE c == Followed(u, t, op)
<1>1. op \in {"select", "groups", "main", "edit", "close"} \cup Edits
  BY Rows, OfferedOps DEF IInv, Token
<1>2. c \in Work /\ c.window = token[t].window /\ c.left = token[t].left
  BY <1>1, FollowedWork
<1>3. call[h] = Idle /\ call' = [call EXCEPT ![h] = c]
      /\ UNCHANGED <<people, window, token, cache, cleanup, changes, confirm>>
  BY DEF Click
<1> HIDE DEF c
<1>4. CallOK(c, window, DOMAIN confirm)
  BY <1>2 DEF IInv, TokensInv, CallOK
<1>5. call[h].op = "idle"
  BY <1>3 DEF Idle
<1> QED BY <1>3, <1>4, <1>5, CallStep

----------------------------------------------------------------------------
(***************************************************************************)
(* Confirmations.                                                          *)
(***************************************************************************)

LEMMA PreviewInv == ASSUME IInv, NEW u \in Users, Preview(u) PROVE IInv'
<1> DEFINE n == Len(confirm) + 1
           x == Confirmation(u)
<1>1. /\ confirm' = Append(confirm, x) /\ cache' = [cache EXCEPT !.confirms = @ \cup {n}]
      /\ UNCHANGED <<people, window, token, cleanup, call, changes>>
  BY DEF Preview
<1>2. x \in Confirmed /\ x.done = 0
  BY DEF IInv, RowsInv, People, Confirmation, Confirmed, Lefts, Some, None
<1>3. confirm \in Seq(Confirmed) /\ n \in Nat /\ n \notin DOMAIN confirm
  BY Rows DEF IInv, RowsInv
<1> HIDE DEF x
<1>4. /\ confirm' \in Seq(Confirmed) /\ DOMAIN confirm' = DOMAIN confirm \cup {n}
      /\ confirm'[n] = x /\ \A k \in DOMAIN confirm : confirm'[k] = confirm[k]
  BY <1>1, <1>2, <1>3, AppendProperties, Rows DEF IInv
<1>5. /\ cache' \in Cache /\ cache'.kept = cache.kept /\ cache'.current = cache.current
      /\ cache'.confirms = cache.confirms \cup {n}
  BY <1>1, <1>3 DEF IInv, RowsInv, Cache
<1>6. RowsInv' /\ TokensInv' /\ CleanupInv' /\ Tracked'
  BY <1>1, <1>4, <1>5 DEF IInv, RowsInv, TokensInv, ChatOf, CleanupInv, Tracked, Handlers
<1>7. ConfirmInv'
  BY <1>2, <1>3, <1>4, <1>5 DEF IInv, ConfirmInv
<1>8. CallsInv'
  BY <1>1, <1>4 DEF IInv, CallsInv, CallOK
<1> QED BY <1>6, <1>7, <1>8 DEF IInv

LEMMA ConfirmClick ==
  ASSUME IInv, NEW h \in Calls, NEW k \in DOMAIN confirm, NEW cancel \in BOOLEAN,
         Confirm(h, k, cancel)
  PROVE  IInv'
<1> DEFINE c == [op |-> "confirm", more |-> k, cancel |-> cancel, window |-> 0]
<1>1. call[h] = Idle /\ call' = [call EXCEPT ![h] = c]
      /\ UNCHANGED <<people, window, token, cache, cleanup, changes, confirm>>
  BY DEF Confirm
<1>2. c \in Confirming /\ c.more \in DOMAIN confirm
  BY Rows DEF IInv, Confirming
<1> HIDE DEF c
<1>3. CallOK(c, window, DOMAIN confirm) /\ call[h].op = "idle"
  BY <1>1, <1>2 DEF CallOK, Idle
<1> QED BY <1>1, <1>3, CallStep

\* A confirmation is executed by the handler that takes it from the cache.
LEMMA PopInv == ASSUME IInv, NEW h \in Calls, Pop(h) PROVE IInv'
<1> DEFINE k == call[h].more
<1>1. /\ call[h].op = "confirm" /\ cache' = [cache EXCEPT !.confirms = @ \ {k}]
      /\ confirm' = IF k \in cache.confirms /\ ~call[h].cancel THEN Execute(k) ELSE confirm
      /\ call' = [call EXCEPT ![h] = Idle]
      /\ UNCHANGED <<people, window, token, cleanup, changes>>
  BY DEF Pop
<1>2. /\ cache' \in Cache /\ cache'.kept = cache.kept /\ cache'.current = cache.current
      /\ cache'.confirms = cache.confirms \ {k}
  BY <1>1 DEF IInv, RowsInv, Cache
<1>3. confirm \in Seq(Confirmed) /\ ConfirmInv
  BY DEF IInv, RowsInv
<1>4. /\ confirm' \in Seq(Confirmed) /\ DOMAIN confirm' = DOMAIN confirm
      /\ \A j \in DOMAIN confirm \ {k} : confirm'[j] = confirm[j]
      /\ k \in DOMAIN confirm => confirm'[k].done <= 1
  <2>1. CASE confirm' = confirm
    BY <1>3, <2>1 DEF ConfirmInv
  <2>2. CASE k \in cache.confirms /\ confirm' = [confirm EXCEPT ![k].done = @ + 1]
    <3> DEFINE x == [confirm[k] EXCEPT !.done = @ + 1]
    <3>1. k \in DOMAIN confirm /\ confirm[k] \in Confirmed /\ confirm[k].done = 0
      BY <1>3, <2>2, Rows DEF IInv, ConfirmInv
    <3>2. x \in Confirmed /\ x.done = 1
      BY <3>1 DEF Confirmed
    <3>3. confirm' = [confirm EXCEPT ![k] = x]
      BY <2>2
    <3> HIDE DEF x, k
    <3>4. /\ confirm' \in Seq(Confirmed) /\ DOMAIN confirm' = DOMAIN confirm
          /\ \A j \in DOMAIN confirm : confirm'[j] = IF j = k THEN x ELSE confirm[j]
      BY <1>3, <3>1, <3>2, <3>3, ExceptSeq
    <3> QED BY <3>1, <3>2, <3>4
  <2> QED BY <1>1, <2>1, <2>2 DEF Execute
<1> HIDE DEF k
<1>5. RowsInv' /\ TokensInv' /\ CleanupInv'
  BY <1>1, <1>2, <1>4 DEF IInv, RowsInv, TokensInv, ChatOf, CleanupInv
<1>6. ConfirmInv'
  BY <1>2, <1>3, <1>4 DEF ConfirmInv
<1>7. \A j \in Calls : call'[j] = IF j = h THEN Idle ELSE call[j]
  BY <1>1 DEF IInv, CallsInv
<1>8. CallsInv'
  BY <1>1, <1>4, <1>7 DEF IInv, CallsInv, CallOK
<1>9. Tracked'
  BY <1>1, <1>7 DEF IInv, Tracked, Handlers
<1> QED BY <1>5, <1>6, <1>8, <1>9 DEF IInv

LEMMA OutdateInv == ASSUME IInv, NEW k \in DOMAIN confirm, Outdate(k) PROVE IInv'
<1> DEFINE x == [confirm[k] EXCEPT !.left = None]
<1>1. /\ confirm' = [confirm EXCEPT ![k] = x]
      /\ UNCHANGED <<people, window, token, cache, cleanup, call, changes>>
  BY DEF Outdate
<1>2. confirm \in Seq(Confirmed) /\ confirm[k] \in Confirmed
  BY Rows DEF IInv, RowsInv
<1>3. x \in Confirmed /\ x.done = confirm[k].done
  BY <1>2 DEF Confirmed, Lefts
<1> HIDE DEF x
<1>4. /\ confirm' \in Seq(Confirmed) /\ DOMAIN confirm' = DOMAIN confirm
      /\ \A j \in DOMAIN confirm : confirm'[j].done = confirm[j].done
  BY <1>1, <1>2, <1>3, ExceptSeq
<1> QED BY <1>1, <1>4
    DEF IInv, RowsInv, TokensInv, ChatOf, ConfirmInv, CleanupInv, Tracked, Handlers, CallsInv, CallOK

----------------------------------------------------------------------------
(***************************************************************************)
(* Time, the sweep and changes.                                            *)
(***************************************************************************)

LEMMA EndInv == ASSUME IInv, NEW w \in DOMAIN window, End(w) PROVE IInv'
<1> DEFINE m == [window[w] EXCEPT !.left = None]
<1>1. /\ window' = [window EXCEPT ![w] = m]
      /\ token' = [t \in DOMAIN token |->
                     IF token[t].window = w THEN [token[t] EXCEPT !.left = None] ELSE token[t]]
      /\ call' = [h \in Calls |->
                    IF call[h].window = w THEN [call[h] EXCEPT !.left = None] ELSE call[h]]
      /\ UNCHANGED <<people, cache, cleanup, changes, confirm>>
  BY DEF End
<1>2. window \in Seq(Message) /\ window[w] \in Message /\ token \in Seq(Token) /\ w \in Nat \ {0}
  BY Rows DEF IInv, RowsInv
<1>3. /\ m \in Message /\ m.left = None /\ m.chat = window[w].chat
      /\ m.there = window[w].there /\ m.givenUp = window[w].givenUp
  BY <1>2 DEF Message, Lefts
<1> HIDE DEF m
<1>4. /\ window' \in Seq(Message) /\ DOMAIN window' = DOMAIN window /\ Len(window') = Len(window)
      /\ \A v \in DOMAIN window : window'[v] = IF v = w THEN m ELSE window[v]
  BY <1>1, <1>2, <1>3, ExceptSeq
<1>5. \A v \in DOMAIN window : /\ window'[v].chat = window[v].chat /\ window'[v].there = window[v].there
                               /\ window'[v].givenUp = window[v].givenUp
                               /\ v # w => window'[v].left = window[v].left
  BY <1>3, <1>4
<1>6. /\ token' \in Seq(Token) /\ DOMAIN token' = DOMAIN token /\ Len(token') = Len(token)
      /\ \A t \in DOMAIN token : /\ token'[t].window = token[t].window
                                 /\ token'[t].left = IF token[t].window = w THEN None ELSE token[t].left
  <2>1. DOMAIN token = 1..Len(token) /\ Len(token) \in Nat /\ \A t \in DOMAIN token : token[t] \in Token
    BY Rows DEF IInv
  <2>2. \A t \in DOMAIN token : [token[t] EXCEPT !.left = None] \in Token
    BY <2>1 DEF Token, Lefts
  <2>3. \A t \in DOMAIN token : token'[t] \in Token
    BY <1>1, <2>1, <2>2
  <2>4. token' = [t \in 1..Len(token) |-> token'[t]]
    BY <1>1, <2>1
  <2>5. token' \in Seq(Token) /\ Len(token') = Len(token)
    BY <2>1, <2>3, <2>4, IsASeq
  <2> QED BY <1>1, <2>1, <2>5 DEF Token
<1>7. RowsInv'
  BY <1>1, <1>4, <1>6 DEF IInv, RowsInv
<1>8. TokensInv'
  <2>1. \A t \in DOMAIN token : token[t].window \in DOMAIN window
    BY DEF IInv, TokensInv
  <2>2. Some # None
    BY DEF Some, None
  <2>3. \A t \in DOMAIN token : token'[t].left = Some => window'[token'[t].window].left = Some
    BY <1>5, <1>6, <2>1, <2>2 DEF IInv, TokensInv
  <2> QED BY <1>1, <1>4, <1>5, <1>6, <2>1, <2>3 DEF IInv, TokensInv, ChatOf
<1>9. ConfirmInv' /\ CleanupInv'
  BY <1>1, <1>4, <1>5 DEF IInv, ConfirmInv, CleanupInv
<1>10. \A h \in Calls : CallOK(call'[h], window', DOMAIN confirm') /\ call'[h].op = call[h].op
                        /\ call'[h].window = call[h].window
  <2> SUFFICES ASSUME NEW h \in Calls
               PROVE  CallOK(call'[h], window', DOMAIN confirm') /\ call'[h].op = call[h].op
                      /\ call'[h].window = call[h].window
    OBVIOUS
  <2>1. CallOK(call[h], window, DOMAIN confirm)
    BY DEF IInv, CallsInv
  <2>2. CASE call[h] = Idle
    BY <1>1, <1>2, <2>2 DEF Idle, CallOK
  <2>3. CASE call[h] \in Confirming
    BY <1>1, <1>2, <2>1, <2>3 DEF Confirming, CallOK, Idle, Work, Steps, Edits
  <2>4. CASE call[h] \in Work /\ call[h].window = w
    <3>1. call'[h] = [call[h] EXCEPT !.left = None]
      BY <1>1, <2>4
    <3>2. call'[h] \in Work /\ call'[h].left = None /\ call'[h].window = w /\ call'[h].op = call[h].op
      BY <2>4, <3>1 DEF Work, Lefts
    <3> QED BY <1>4, <2>4, <3>2 DEF CallOK, Some, None
  <2>5. CASE call[h] \in Work /\ call[h].window # w
    <3>1. call'[h] = call[h]
      BY <1>1, <2>5
    <3>2. call[h].window \in DOMAIN window /\ (call[h].left = Some => window[call[h].window].left = Some)
      BY <2>1, <2>5 DEF CallOK, Idle, Confirming, Work, Steps, Edits
    <3> QED BY <1>4, <1>5, <2>5, <3>1, <3>2 DEF CallOK
  <2> QED BY <2>1, <2>2, <2>3, <2>4, <2>5 DEF CallOK
<1>11. CallsInv'
  <2>1. call' = [h \in Calls |-> call'[h]]
    BY <1>1
  <2> QED BY <1>10, <2>1 DEF CallsInv
<1>12. Tracked'
  BY <1>1, <1>4, <1>5, <1>10 DEF IInv, Tracked, Handlers
<1> QED BY <1>7, <1>8, <1>9, <1>11, <1>12 DEF IInv

LEMMA FallInv == ASSUME IInv, NEW w \in DOMAIN window, Fall(w) PROVE IInv'
<1>1. /\ cleanup' = [cleanup EXCEPT !.index[w] = "due"] /\ w \in DOMAIN cleanup.index
      /\ UNCHANGED <<people, window, token, cache, call, changes, confirm>>
  BY DEF Fall
<1>2. /\ cleanup'.index = [cleanup.index EXCEPT ![w] = "due"]
      /\ cleanup'.single = cleanup.single /\ cleanup'.swept = cleanup.swept
      /\ cleanup' = [index |-> cleanup'.index, single |-> cleanup'.single, swept |-> cleanup'.swept]
  BY <1>1 DEF IInv, CleanupInv
<1>3. /\ DOMAIN cleanup'.index = DOMAIN cleanup.index
      /\ cleanup'.index \in [DOMAIN cleanup'.index -> {"fresh", "due"}]
  BY <1>1, <1>2 DEF IInv, CleanupInv
<1> QED BY <1>1, <1>2, <1>3
    DEF IInv, RowsInv, TokensInv, ChatOf, ConfirmInv, CleanupInv, Tracked, Handlers, CallsInv, CallOK

LEMMA SweepInv == ASSUME IInv, NEW gone, Sweep(gone) PROVE IInv'
<1>1. /\ gone \subseteq DueWindows /\ gone \subseteq DOMAIN window /\ cleanup.swept = {}
      /\ window' = [w \in DOMAIN window |-> [window[w] EXCEPT !.there = @ /\ w \notin gone]]
      /\ cleanup' = [cleanup EXCEPT !.swept = gone]
      /\ UNCHANGED <<people, token, cache, call, changes, confirm>>
  BY DEF Sweep, DueWindows, IInv, CleanupInv
<1>2. /\ SameWindows
      /\ \A w \in DOMAIN window : window'[w].there <=> (window[w].there /\ w \notin gone)
  <2>1. DOMAIN window = 1..Len(window) /\ Len(window) \in Nat
        /\ \A w \in DOMAIN window : window[w] \in Message
    BY Rows DEF IInv
  <2>2. \A w \in DOMAIN window :
          /\ window'[w] \in Message /\ window'[w].chat = window[w].chat
          /\ window'[w].left = window[w].left /\ window'[w].givenUp = window[w].givenUp
          /\ window'[w].there <=> (window[w].there /\ w \notin gone)
    BY <1>1, <2>1 DEF Message
  <2>3. window' = [w \in 1..Len(window) |-> window'[w]]
    BY <1>1, <2>1
  <2>4. window' \in Seq(Message) /\ Len(window') = Len(window)
    BY <2>1, <2>2, <2>3, IsASeq
  <2> QED BY <1>1, <2>2, <2>4 DEF SameWindows
<1>3. RowsInv' /\ ConfirmInv'
  BY <1>1, <1>2 DEF IInv, RowsInv, ConfirmInv, SameWindows
<1>4. TokensInv' /\ \A x : CallOK(x, window, DOMAIN confirm) => CallOK(x, window', DOMAIN confirm')
  BY <1>1, <1>2, SameWindowsKeep
<1>5. /\ cleanup'.index = cleanup.index /\ cleanup'.single = cleanup.single /\ cleanup'.swept = gone
      /\ cleanup' = [index |-> cleanup'.index, single |-> cleanup'.single, swept |-> cleanup'.swept]
  BY <1>1 DEF IInv, CleanupInv
<1>6. CleanupInv'
  BY <1>1, <1>2, <1>5 DEF IInv, CleanupInv, SameWindows
<1>7. CallsInv'
  BY <1>1, <1>4 DEF IInv, CallsInv
<1>8. Tracked'
  BY <1>1, <1>2, <1>5 DEF IInv, Tracked, Handlers, SameWindows
<1> QED BY <1>3, <1>4, <1>6, <1>7, <1>8 DEF IInv

LEMMA SweepEndInv == ASSUME IInv, SweepEnd PROVE IInv'
<1>1. /\ cleanup' = [cleanup EXCEPT !.index = Unregistered(@, cleanup.swept), !.swept = {}]
      /\ UNCHANGED <<people, window, token, cache, call, changes, confirm>>
  BY DEF SweepEnd
<1>2. /\ cleanup'.index = Unregistered(cleanup.index, cleanup.swept)
      /\ cleanup'.single = cleanup.single /\ cleanup'.swept = {}
      /\ cleanup' = [index |-> cleanup'.index, single |-> cleanup'.single, swept |-> cleanup'.swept]
  BY <1>1 DEF IInv, CleanupInv
<1>3. /\ DOMAIN cleanup'.index = DOMAIN cleanup.index \ cleanup.swept
      /\ cleanup'.index \in [DOMAIN cleanup'.index -> {"fresh", "due"}]
  BY <1>2 DEF Unregistered, IInv, CleanupInv
<1>4. CleanupInv' /\ Tracked'
  BY <1>1, <1>2, <1>3 DEF IInv, CleanupInv, Tracked, Handlers
<1> QED BY <1>1, <1>4 DEF IInv, RowsInv, TokensInv, ChatOf, ConfirmInv, CallsInv, CallOK

LEMMA ChangeInv == ASSUME IInv, NEW to, to \in People, Change(to) PROVE IInv'
<1>1. /\ people' \in People /\ changes' \in 0..MaxChanges
      /\ UNCHANGED <<window, token, cache, cleanup, call, confirm>>
  BY SettingsAssumption DEF Change, IInv, RowsInv
<1> QED BY <1>1
    DEF IInv, RowsInv, TokensInv, ChatOf, ConfirmInv, CleanupInv, Tracked, Handlers, CallsInv, CallOK

LEMMA ChangesInv ==
  ASSUME IInv,
         \/ \E u \in Users : Demote(u) \/ Promote(u) \/ Renew(u)
         \/ RenewGroup
  PROVE  IInv'
<1>1. people \in People
  BY DEF IInv, RowsInv
<1>2. ASSUME NEW u \in Users, Demote(u) PROVE IInv'
  <2>1. [people EXCEPT !.admins = @ \ {u}, !.locals = @ \ {u}] \in People
    BY <1>1 DEF People
  <2> QED BY <1>2, <2>1, ChangeInv DEF Demote
<1>3. ASSUME NEW u \in Users, Promote(u) PROVE IInv'
  <2>1. [people EXCEPT !.admins = @ \cup {u}] \in People /\ [people EXCEPT !.locals = @ \cup {u}] \in People
    BY <1>1 DEF People
  <2> QED BY <1>3, <2>1, ChangeInv DEF Promote
<1>4. ASSUME NEW u \in Users, Renew(u) PROVE IInv'
  <2>1. people.gen \in [Users -> Nat \ {0}] /\ people.gen[u] + 1 \in Nat \ {0}
    BY <1>1 DEF People
  <2>2. [people.gen EXCEPT ![u] = people.gen[u] + 1] \in [Users -> Nat \ {0}]
    BY <2>1
  <2>3. [people EXCEPT !.gen[u] = @ + 1, !.admins = @ \ {u}]
          = [people EXCEPT !.gen = [people.gen EXCEPT ![u] = people.gen[u] + 1], !.admins = @ \ {u}]
    BY <1>1 DEF People
  <2>4. [people EXCEPT !.gen[u] = @ + 1, !.admins = @ \ {u}] \in People
    BY <1>1, <2>2, <2>3 DEF People
  <2> QED BY <1>4, <2>4, ChangeInv DEF Renew
<1>5. ASSUME RenewGroup PROVE IInv'
  <2>1. [people EXCEPT !.group = @ + 1] \in People
    BY <1>1 DEF People
  <2> QED BY <1>5, <2>1, ChangeInv DEF RenewGroup
<1> QED BY <1>2, <1>3, <1>4, <1>5

LEMMA StutterInv == ASSUME IInv, UNCHANGED vars PROVE IInv'
BY DEF vars, IInv, RowsInv, TokensInv, ChatOf, ConfirmInv, CleanupInv, Tracked, Handlers, CallsInv, CallOK

\* The handlers' steps that change only what they remember.
LEMMA LocalInv ==
  ASSUME IInv, NEW h \in Calls,
         Expired(h) \/ Edit(h) \/ SetLanguage(h) \/ SetFeature(h) \/ SetCategory(h)
  PROVE  IInv'
<1>1. CASE Expired(h)
  BY <1>1, StepsInv DEF Expired, Steps
<1>2. CASE Edit(h)
  <2>1. call[h].op = "edit" /\ UNCHANGED <<people, window, token, cache, cleanup, changes, confirm>>
        /\ (call' = [call EXCEPT ![h].op = "settle"] \/ call' = [call EXCEPT ![h] = Idle])
    BY <1>2 DEF Edit
  <2>2. "settle" \in Steps /\ "edit" \in Steps \ {"seek", "replace"}
    BY DEF Steps
  <2>3. call' = [call EXCEPT ![h] = [call[h] EXCEPT !.op = "settle"]] \/ call' = [call EXCEPT ![h] = Idle]
    BY <2>1
  <2> QED BY <2>1, <2>2, <2>3, StepsInv
<1>3. CASE SetLanguage(h) \/ SetFeature(h) \/ SetCategory(h)
  <2>1. /\ call[h].op \in Edits /\ UNCHANGED <<people, window, token, cache, cleanup, changes, confirm>>
        /\ \/ call' = [call EXCEPT ![h] = [call[h] EXCEPT !.op = "render"]]
           \/ call' = [call EXCEPT ![h] = Idle]
    BY <1>3 DEF SetLanguage, SetFeature, SetCategory, Edits
  <2>2. "render" \in Steps /\ Edits \subseteq Steps \ {"seek", "replace"}
    BY DEF Steps, Edits
  <2> QED BY <2>1, <2>2, StepsInv
<1> QED BY <1>1, <1>2, <1>3

LEMMA NextInv == ASSUME IInv, [Next]_vars PROVE IInv'
<1>1. CASE \E h \in Calls : Handler(h)
  BY <1>1, SeekInv, ReplaceInv, LocalInv, WithdrawInv, IssueInv, SettleInv, CloseInv, PopInv DEF Handler
<1>2. CASE \E h \in Calls, u \in Users, chat \in Chats : Open(h, u, chat)
  BY <1>2, OpenInv
<1>3. CASE \E h \in Calls, u \in Users, t \in DOMAIN token :
             \E op \in Offered(token[t].menu, ChatOf(token[t].window)) : Click(h, u, t, op)
  BY <1>3, ClickInv
<1>4. CASE \E h \in Calls, k \in DOMAIN confirm, cancel \in BOOLEAN : Confirm(h, k, cancel)
  BY <1>4, ConfirmClick
<1>5. CASE (\E u \in Users : Preview(u) \/ Demote(u) \/ Promote(u) \/ Renew(u)) \/ RenewGroup
  BY <1>5, PreviewInv, ChangesInv
<1>6. CASE SweepEnd \/ Over \/ UNCHANGED vars
  BY <1>6, SweepEndInv, StutterInv DEF Over
<1>7. CASE \E w \in DOMAIN window : End(w) \/ Fall(w)
  BY <1>7, EndInv, FallInv
<1>8. CASE (\E k \in DOMAIN confirm : Outdate(k)) \/ \E gone \in SUBSET DueWindows : Sweep(gone)
  BY <1>8, OutdateInv, SweepInv
<1> QED BY <1>1, <1>2, <1>3, <1>4, <1>5, <1>6, <1>7, <1>8 DEF Next

----------------------------------------------------------------------------
(***************************************************************************)
(* The clicks that are accepted.                                           *)
(***************************************************************************)

\* A token whose click was accepted resolved for it.
LEMMA AcceptedResolves ==
  ASSUME IInv, [Next]_vars, NEW t \in DOMAIN token, Accepted(t)
  PROVE  cache.current[ChatOf(token[t].window)] = t /\ token[t].left = Some
<1>1. PICK h \in Calls : call[h] = Idle /\ call'[h].op \notin {"idle", "confirm"} /\ call'[h].from = t
  BY DEF Accepted
<1>2. call = [k \in Calls |-> call[k]] /\ t \in Nat \ {0} /\ call'[h] # call[h] /\ call[h].op = "idle"
  BY <1>1, Rows DEF IInv, CallsInv, Idle
<1>3. ASSUME NEW k \in Calls, Handler(k) PROVE FALSE
  <2>1. CASE k = h
    BY <1>1, <1>2, <1>3, <2>1
    DEF Handler, Seek, Replace, Expired, Withdraw, Issue, Edit, Settle, Close, SetLanguage, SetFeature,
        SetCategory, Edits, Pop
  <2>2. CASE k # h
    <3>1. \E c : call' = [call EXCEPT ![k] = c]
      BY <1>3 DEF Handler, Seek, Replace, Expired, Withdraw, Issue, Edit, Settle, Close, SetLanguage,
                  SetFeature, SetCategory, Pop
    <3> QED BY <1>2, <2>2, <3>1
  <2> QED BY <2>1, <2>2
<1>4. ASSUME NEW k \in Calls, NEW u \in Users, NEW chat \in Chats, Open(k, u, chat) PROVE FALSE
  <2>1. call' = [call EXCEPT ![k] = Prepared(u, chat)]
    BY <1>4 DEF Open
  <2>2. Prepared(u, chat).from = 0
    BY DEF Prepared
  <2> QED BY <1>1, <1>2, <2>1, <2>2
<1>5. ASSUME NEW k \in Calls, NEW u \in Users, NEW s \in DOMAIN token,
             NEW op \in Offered(token[s].menu, ChatOf(token[s].window)), Click(k, u, s, op)
      PROVE  cache.current[ChatOf(token[t].window)] = t /\ token[t].left = Some
  <2>1. call' = [call EXCEPT ![k] = Followed(u, s, op)] /\ Resolves(u, s, op)
    BY <1>5 DEF Click
  <2>2. Followed(u, s, op).from = s
    BY Rows, OfferedOps, FollowedWork DEF IInv, Token
  <2>3. s = t
    BY <1>1, <1>2, <2>1, <2>2
  <2> QED BY <2>1, <2>3 DEF Resolves
<1>6. ASSUME NEW k \in Calls, NEW j \in DOMAIN confirm, NEW cancel \in BOOLEAN, Confirm(k, j, cancel)
      PROVE  FALSE
  <2>1. call' = [call EXCEPT ![k] = [op |-> "confirm", more |-> j, cancel |-> cancel, window |-> 0]]
    BY <1>6 DEF Confirm
  <2> QED BY <1>1, <1>2, <2>1
<1>7. ASSUME NEW w \in DOMAIN window, End(w) PROVE FALSE
  <2>1. w \in Nat \ {0}
    BY Rows DEF IInv
  <2>2. call' = [k \in Calls |->
                   IF call[k].window = w THEN [call[k] EXCEPT !.left = None] ELSE call[k]]
    BY <1>7 DEF End
  <2>3. call[h].window = 0
    BY <1>1 DEF Idle
  <2> QED BY <1>2, <2>1, <2>2, <2>3
<1>8. CASE UNCHANGED call
  BY <1>2, <1>8
<1> QED BY <1>3, <1>4, <1>5, <1>6, <1>7, <1>8
    DEF Next, vars, Over, Preview, Demote, Promote, Renew, RenewGroup, Change, SweepEnd, Fall, Outdate, Sweep

----------------------------------------------------------------------------
(***************************************************************************)
(* The theorems.                                                           *)
(***************************************************************************)

\* The rows, the cache, the index of deletions and what the handlers remember
\* agree, after any steps.
THEOREM Invariance == Spec => []IInv
<1>1. Init => IInv
  BY InitInv
<1>2. IInv /\ [Next]_vars => IInv'
  BY NextInv
<1> QED BY <1>1, <1>2, PTL DEF Spec

\* AdminSessionService executes a confirmation at most once, however many
\* clicks read it before one of them takes it.
THEOREM Confirmations == Spec => []ConfirmedOnce
<1>1. IInv => ConfirmedOnce
  BY DEF IInv, ConfirmInv, ConfirmedOnce
<1> QED BY <1>1, Invariance, PTL

\* No message with buttons is forgotten: it is indexed for the sweep, given up
\* after a failed deletion, or about to be registered by its handler.
THEOREM WindowsTracked == Spec => []WindowsAreTracked
<1>1. ASSUME IInv PROVE WindowsAreTracked
  <2>1. RowsInv /\ TokensInv /\ ConfirmInv /\ CleanupInv /\ CallsInv
    BY <1>1 DEF IInv
  <2>2. people \in [admins : SUBSET Users, locals : SUBSET Users, gen : [Users -> Nat \ {0}], group : Nat \ {0}]
        /\ window \in Seq([chat : Chats, left : {Some, None}, there : BOOLEAN, givenUp : BOOLEAN])
        /\ changes \in 0..MaxChanges
    BY <2>1 DEF RowsInv, People, Message, Lefts
  <2>3. \A t \in DOMAIN token : token[t].window \in DOMAIN window /\ token[t].left \in {Some, None}
    BY <2>1, Rows DEF TokensInv, Token, Lefts
  <2>4. cache.current \in [Chats -> 0..Len(token)] /\ cache.kept \subseteq DOMAIN token
    <3>1. cache.current \in [Chats -> Nat] /\ Len(token) \in Nat
      BY <2>1, Rows DEF RowsInv, Cache
    <3> QED BY <2>1, <3>1 DEF TokensInv
  <2>5. \A h \in Calls : call[h].window \in 0..Len(window) + 1
    <3> SUFFICES ASSUME NEW h \in Calls PROVE call[h].window \in 0..Len(window) + 1
      OBVIOUS
    <3>1. CallOK(call[h], window, DOMAIN confirm)
      BY <2>1 DEF CallsInv
    <3> QED BY <2>1, <3>1, Rows DEF CallOK, Idle, Confirming
  <2>6. TypeOK
    BY <2>1, <2>2, <2>3, <2>4, <2>5 DEF TypeOK, ConfirmInv, CleanupInv
  <2> QED BY <1>1, <2>6 DEF IInv, Tracked, WindowsAreTracked
<1> QED BY <1>1, Invariance, PTL

\* A click that is accepted was made on the last token of its chat and within
\* the time of its window.
THEOREM Clicks == Spec => ClicksJudged
<1>1. ASSUME IInv, [Next]_vars
      PROVE  /\ [\A t \in DOMAIN token : Accepted(t) =>
                   \A later \in DOMAIN token : later > t =>
                     ChatOf(token[later].window) # ChatOf(token[t].window)]_vars
             /\ [\A t \in DOMAIN token : Accepted(t) =>
                   window[token[t].window].left = Some]_vars
  <2> SUFFICES ASSUME NEW t \in DOMAIN token, Accepted(t)
               PROVE  /\ \A later \in DOMAIN token : later > t =>
                           ChatOf(token[later].window) # ChatOf(token[t].window)
                      /\ window[token[t].window].left = Some
    OBVIOUS
  <2>1. cache.current[ChatOf(token[t].window)] = t /\ token[t].left = Some
    BY <1>1, AcceptedResolves
  <2>2. \A later \in DOMAIN token : later \in Nat /\ t \in Nat
                                    /\ later <= cache.current[ChatOf(token[later].window)]
    BY <1>1, Rows DEF IInv, TokensInv
  <2> QED BY <1>1, <2>1, <2>2 DEF IInv, TokensInv
<1> QED BY <1>1, Invariance, PTL DEF Spec, ClicksJudged, SupersededNeverActs, DeadlineKept

=============================================================================
