------------------------------- MODULE Budget -------------------------------
(****************************************************************************)
(* Execution budgets: reservations that hold a quota window, a token bucket  *)
(* and a place in the concurrency sets of every usage policy that applies,   *)
(* acquired all at once, settled once, and reclaimed when their owner is     *)
(* gone (infrastructure/runtime/budgets.py and budget_state.py).  A          *)
(* WATCH/MULTI/EXEC transaction is one step; the clock, the policy and the   *)
(* durable totals that a request carries are read before it.                 *)
(*                                                                          *)
(* Tokens are floats in the code.  Here they are counted in 1/Seconds[s],    *)
(* in which every amount and refill is whole.  A terminal record is kept for *)
(* the horizon: its retention is longer than a request's life.               *)
(****************************************************************************)
EXTENDS Integers, FiniteSets, FiniteSetsExt

CONSTANTS
  Missing,    \* a key or request that is not there
  Ids,        \* reservations, one for each job
  Scopes,     \* subject, bucket, unit and window duration of a policy
  ScopesOf,   \* the scopes a reservation is charged to; none under bypass
  Seconds,    \* duration of a scope's window
  Amount,     \* estimate of a reservation
  Deadline,
  PoliciesOf, \* limits that overrides may give a scope
  GlobalLimit,
  Lifetime,   \* MAX_JOB_LIFETIME_SECONDS
  Grace,      \* STALE_RESERVATION_GRACE_SECONDS
  Retention,  \* RUNTIME_RETENTION_SECONDS
  Lag,        \* age of the clock reading and totals that reserve is given
  MaxTime     \* bound on the clock

ASSUME BudgetAssumption ==
  /\ IsFiniteSet(Ids)
  /\ ScopesOf \in [Ids -> SUBSET Scopes]
  /\ Seconds \in [Scopes -> Nat \ {0}]
  /\ Amount \in [Ids -> Nat \ {0}]
  /\ Deadline \in [Ids -> Nat]
  /\ PoliciesOf \in [Scopes ->
       SUBSET [limit : Nat \ {0}, burst : Nat \ {0}, concurrency : Nat \ {0}]]
  /\ GlobalLimit \in Nat \ {0} /\ Lifetime \in Nat /\ Grace \in Nat /\ Retention \in Nat
  /\ Lag \in Nat \ {0} /\ MaxTime \in Nat

\* A reservation is reclaimed, and a request applied, before the window is
\* forgotten: retention is an hour, and a job lives for five minutes.
ASSUME RetentionAssumption ==
  Lag <= Retention /\ Lifetime + Grace <= Retention

VARIABLES
  now,
  policy,     \* the limits in force for each scope
  ledger,     \* durable totals by scope and window
  request,    \* what each caller of reserve has read so far
  charged,    \* consumption of a reservation in its durable receipt
  record,     \* reservations
  window,     \* used and held amounts by scope and window
  rate,       \* token bucket of each scope
  members,    \* concurrency sets
  everywhere, \* the global concurrency set
  active      \* index of the reservations to reclaim

vars == <<now, policy, ledger, request, charged, record, window, rate,
          members, everywhere, active>>
resources == <<record, window, rate, members, everywhere, active>>

Forever == MaxTime + 1
Times == 0..MaxTime
Resolved == {p \in [Scopes -> UNION {PoliciesOf[s] : s \in Scopes}] :
               \A s \in Scopes : p[s] \in PoliciesOf[s]}
Start(s, t) == t - (t % Seconds[s])
Ends(s, t) == Start(s, t) + Seconds[s]

Init ==
  /\ now = 0
  /\ policy \in Resolved
  /\ ledger = [s \in Scopes |-> [t \in Times |-> 0]]
  /\ request = [i \in Ids |-> Missing]
  /\ charged = [i \in Ids |-> 0]
  /\ record = [i \in Ids |-> Missing]
  /\ window = [s \in Scopes |-> [t \in Times |-> Missing]]
  /\ rate = [s \in Scopes |-> Missing]
  /\ members = [s \in Scopes |-> {}]
  /\ everywhere = {}
  /\ active = {}

\* A key whose time to live has passed.
Lapsed(key, t) == key # Missing /\ key.expires <= t

Held(i) == record[i] # Missing /\ record[i].state = "RESERVED"

----------------------------------------------------------------------------
(****************************************************************************)
(* What the stored resources say.                                           *)
(****************************************************************************)
HeldWindow(i, s) == window[s][Start(s, record[i].at)]

\* verify_active_ownership, and the membership of the active index.
Owned(i) ==
  /\ i \in active
  /\ i \in everywhere
  /\ \A s \in ScopesOf[i] :
       /\ HeldWindow(i, s) # Missing
       /\ HeldWindow(i, s).held >= Amount[i]
       /\ rate[s] # Missing
       /\ rate[s].tokens <= record[i].policy[s].burst * Seconds[s]
       /\ i \in members[s]

Asked(i, s) == window[s][Start(s, request[i].at)]

\* verify_previous_window: a holder explains a missing window when it holds an
\* older one that has ended.
Previous(i, s, h) ==
  /\ Held(h)
  /\ Owned(h)
  /\ Start(s, record[h].at) # Start(s, request[i].at)
  /\ Ends(s, record[h].at) <= request[i].at

\* BudgetStateUnavailableError while a reservation is computed.
Unavailable(i) ==
  \E s \in ScopesOf[i] :
    \/ Asked(i, s) # Missing /\ rate[s] = Missing
    \/ /\ Asked(i, s) = Missing
       /\ members[s] # {}
       /\ \/ Cardinality(members[s]) > GlobalLimit
          \/ \E h \in members[s] : ~Previous(i, s, h)

Limits(i, s) == request[i].policy[s]

Used(i, s) ==
  IF Asked(i, s) = Missing THEN request[i].totals[s]
  ELSE Max({Asked(i, s).used, request[i].totals[s]})

HeldAmount(i, s) == IF Asked(i, s) = Missing THEN 0 ELSE Asked(i, s).held

Elapsed(t, s) == IF t > rate[s].at THEN t - rate[s].at ELSE 0

\* Tokens of a bucket at time t under the limits l, with a credit.
Refilled(s, t, l, credit) ==
  IF rate[s] = Missing THEN l.burst * Seconds[s]
  ELSE Min({l.burst * Seconds[s],
            rate[s].tokens + Elapsed(t, s) * l.limit + credit * Seconds[s]})

\* Fault: amounts that are held but not yet settled are not counted.
FitsUsed(i, s) ==
  /\ Amount[i] <= Limits(i, s).burst
  /\ Amount[i] <= Limits(i, s).limit
  /\ Used(i, s) + Amount[i] <= Limits(i, s).limit
  /\ Refilled(s, request[i].at, Limits(i, s), 0) >= Amount[i] * Seconds[s]
  /\ Cardinality(members[s]) < Limits(i, s).concurrency

\* calculate_reserve for one policy.
Fits(i, s) ==
  /\ Amount[i] <= Limits(i, s).burst
  /\ Amount[i] <= Limits(i, s).limit
  /\ Used(i, s) + HeldAmount(i, s) + Amount[i] <= Limits(i, s).limit
  /\ Refilled(s, request[i].at, Limits(i, s), 0) >= Amount[i] * Seconds[s]
  /\ Cardinality(members[s]) < Limits(i, s).concurrency

Grantable(i) ==
  /\ record[i] = Missing
  /\ request[i].at < Deadline[i]
  /\ ~Unavailable(i)
  /\ \A s \in ScopesOf[i] : Fits(i, s)
  /\ Cardinality(everywhere) < GlobalLimit

----------------------------------------------------------------------------
(****************************************************************************)
(* The operations.                                                          *)
(****************************************************************************)

\* BudgetService and the runner read the clock, the policies and the totals,
\* then call reserve.  A later stage asks again for the reservation it has, and
\* the answer, a replay or a conflict with its policy, writes nothing.  A job
\* has been accepted by then, with a deadline within its lifetime.
Ask(i) ==
  /\ request[i] = Missing
  /\ record[i] = Missing
  /\ Deadline[i] <= now + Lifetime
  /\ request' = [request EXCEPT ![i] =
       [at |-> now, policy |-> policy,
        totals |-> [s \in Scopes |-> ledger[s][Start(s, now)]]]]
  /\ UNCHANGED <<now, policy, ledger, charged, resources>>

\* Fault: a window's key is not kept past the window's end.
WindowForgotten(s, t) == Ends(s, t) - t

\* The key of a window outlives its end by the retention, for settlements to come.
WindowKept(s, t) == Ends(s, t) - t + Retention

\* The bucket's key outlives that of every window written with it.
Reserve(i) ==
  LET r == request[i] IN
  /\ r # Missing
  /\ Grantable(i)
  /\ record' = [record EXCEPT ![i] =
       [state |-> "RESERVED", at |-> r.at, policy |-> r.policy]]
  /\ window' = [s \in Scopes |->
       IF s \in ScopesOf[i]
       THEN [window[s] EXCEPT ![Start(s, r.at)] =
               [used |-> Used(i, s), held |-> HeldAmount(i, s) + Amount[i],
                expires |-> now + WindowKept(s, r.at)]]
       ELSE window[s]]
  /\ rate' = [s \in Scopes |->
       IF s \in ScopesOf[i]
       THEN [tokens |-> Refilled(s, r.at, Limits(i, s), 0) - Amount[i] * Seconds[s],
             at |-> r.at, expires |-> now + Seconds[s] + Retention]
       ELSE rate[s]]
  /\ members' = [s \in Scopes |->
       IF s \in ScopesOf[i] THEN members[s] \union {i} ELSE members[s]]
  /\ everywhere' = everywhere \union {i}
  /\ active' = active \union {i}
  /\ request' = [request EXCEPT ![i] = Missing]
  /\ UNCHANGED <<now, policy, ledger, charged>>

\* Every other answer writes nothing: WAITING, IMPOSSIBLE, EXPIRED, UNAVAILABLE.
Refuse(i) ==
  /\ request[i] # Missing
  /\ ~Grantable(i)
  /\ request' = [request EXCEPT ![i] = Missing]
  /\ UNCHANGED <<now, policy, ledger, charged, resources>>

\* The receipt of a job is applied to the durable ledger once, in the window of
\* the stage that delivered it, before its reservation is settled.
Charge(i) ==
  /\ Held(i)
  /\ charged[i] = 0
  /\ \E amount \in 1..Amount[i], t \in {record[i].at, now} :
       /\ charged' = [charged EXCEPT ![i] = amount]
       /\ ledger' = [s \in Scopes |->
            IF s \in ScopesOf[i]
            THEN [ledger[s] EXCEPT ![Start(s, t)] = @ + amount] ELSE ledger[s]]
  /\ UNCHANGED <<now, policy, request, resources>>

\* What a settlement writes to a bucket; a key that it creates never expires.
Credited(i, s, actual) ==
  [tokens  |-> Refilled(s, now, record[i].policy[s], Amount[i] - actual),
   at      |-> now,
   expires |-> IF rate[s] = Missing THEN Forever ELSE rate[s].expires]

\* Fault: only the windows that are still stored give their place back.
WriteKeepingPlaces(i, state, actual) ==
  /\ record' = [record EXCEPT ![i].state = state]
  /\ window' = [s \in Scopes |->
       IF s \in ScopesOf[i] /\ HeldWindow(i, s) # Missing
       THEN [window[s] EXCEPT ![Start(s, record[i].at)].used = @ + actual,
                              ![Start(s, record[i].at)].held = Max({0, @ - Amount[i]})]
       ELSE window[s]]
  /\ rate' = [s \in Scopes |->
       IF s \in ScopesOf[i] /\ HeldWindow(i, s) # Missing
       THEN Credited(i, s, actual) ELSE rate[s]]
  /\ members' = [s \in Scopes |->
       IF s \in ScopesOf[i] /\ HeldWindow(i, s) # Missing
       THEN members[s] \ {i} ELSE members[s]]
  /\ everywhere' = everywhere \ {i}
  /\ active' = active \ {i}
  /\ UNCHANGED <<now, policy, ledger, request, charged>>

\* _write_settlement_mutation of the updates that the settlement computed.
Write(i, state, actual) ==
  /\ record' = [record EXCEPT ![i].state = state]
  /\ window' = [s \in Scopes |->
       IF s \in ScopesOf[i] /\ HeldWindow(i, s) # Missing
       THEN [window[s] EXCEPT ![Start(s, record[i].at)].used = @ + actual,
                              ![Start(s, record[i].at)].held = Max({0, @ - Amount[i]})]
       ELSE window[s]]
  /\ rate' = [s \in Scopes |->
       IF s \in ScopesOf[i] /\ HeldWindow(i, s) # Missing
       THEN Credited(i, s, actual) ELSE rate[s]]
  /\ members' = [s \in Scopes |-> members[s] \ {i}]
  /\ everywhere' = everywhere \ {i}
  /\ active' = active \ {i}
  /\ UNCHANGED <<now, policy, ledger, request, charged>>

\* Fault: a reservation that has expired is settled when its receipt is replayed.
FinishExpired(i) ==
  /\ record[i] # Missing
  /\ record[i].state \in {"RESERVED", "EXPIRED"}
  /\ Write(i, IF charged[i] > 0 THEN "COMMITTED" ELSE "RELEASED", charged[i])

\* finish with the recorded consumption; its replay changes nothing.
Finish(i) ==
  /\ Held(i)
  /\ Owned(i)
  /\ Write(i, IF charged[i] > 0 THEN "COMMITTED" ELSE "RELEASED", charged[i])

\* expire_stale: consumption that was not settled is not counted as used.
Expire(i) ==
  /\ i \in active
  /\ Held(i)
  /\ now >= Deadline[i] + Grace
  /\ Write(i, "EXPIRED", 0)

\* An administrator overrides a scope's limits.
Override(s, p) ==
  /\ policy[s] # p
  /\ policy' = [policy EXCEPT ![s] = p]
  /\ UNCHANGED <<now, ledger, request, charged, resources>>

\* Keys expire as time passes; a request is given up before its reading is old.
Tick ==
  /\ now < MaxTime
  /\ \A i \in Ids : request[i] # Missing => now - request[i].at < Lag
  /\ now' = now + 1
  /\ window' = [s \in Scopes |-> [t \in Times |->
       IF Lapsed(window[s][t], now + 1) THEN Missing ELSE window[s][t]]]
  /\ rate' = [s \in Scopes |-> IF Lapsed(rate[s], now + 1) THEN Missing ELSE rate[s]]
  /\ UNCHANGED <<policy, ledger, request, charged, record, members, everywhere, active>>

Next ==
  \/ Tick
  \/ \E i \in Ids : Ask(i) \/ Reserve(i) \/ Refuse(i) \/ Charge(i) \/ Finish(i) \/ Expire(i)
  \/ \E s \in Scopes : \E p \in PoliciesOf[s] : Override(s, p)

Spec == Init /\ [][Next]_vars

----------------------------------------------------------------------------
(****************************************************************************)
(* Properties.                                                              *)
(****************************************************************************)
Records == [state : {"RESERVED", "COMMITTED", "RELEASED", "EXPIRED"},
            at : Times, policy : Resolved]
Requests == [at : Times, policy : Resolved, totals : [Scopes -> Nat]]
Windows == [used : Nat, held : Nat, expires : Nat]
Rates == [tokens : Nat, at : Times, expires : Nat]
\* What is not there is told from every value that is.
ASSUME MissingAssumption ==
  Missing \notin Records /\ Missing \notin Requests /\ Missing \notin Windows /\ Missing \notin Rates

\* Types; a stored counter is never negative, which parsing would refuse for
\* ever after (_integer and _number).
BudgetTypeOK ==
  /\ now \in Times
  /\ policy \in Resolved
  /\ ledger \in [Scopes -> [Times -> Nat]]
  /\ request \in [Ids -> Requests \union {Missing}]
  /\ charged \in [Ids -> Nat]
  /\ record \in [Ids -> Records \union {Missing}]
  /\ window \in [Scopes -> [Times -> Windows \union {Missing}]]
  /\ rate \in [Scopes -> Rates \union {Missing}]
  /\ members \in [Scopes -> SUBSET Ids]
  /\ everywhere \in SUBSET Ids
  /\ active \in SUBSET Ids

Holders == {i \in Ids : Held(i)}
In(s, t) == {i \in Ids : s \in ScopesOf[i] /\ record[i] # Missing
                          /\ Start(s, record[i].at) = t}
Holding(s, t) == In(s, t) \intersect Holders

\* Each place in a concurrency set and the index belongs to a live reservation:
\* a place is neither left behind nor given back twice.
PlacesExact ==
  /\ active = Holders
  /\ everywhere = Holders
  /\ \A s \in Scopes : members[s] = {i \in Holders : s \in ScopesOf[i]}

\* The units that reservations account for when i has an amount of f[i].
Units(f, S) == UNION {{i} \X (1..f[i]) : i \in S}

\* A window holds the estimates of exactly the live reservations made in it.
HeldExact ==
  \A s \in Scopes, t \in Times :
    window[s][t] # Missing =>
      window[s][t].held = Cardinality(Units(Amount, Holding(s, t)))

\* What reservations hold and what they have consumed in a window.
Committed(s, t) == {i \in In(s, t) : record[i].state = "COMMITTED"}
Spent(s, t) ==
  Cardinality(Units(Amount, Holding(s, t))) + Cardinality(Units(charged, Committed(s, t)))

\* Reservation i and the others are within the limits that i was granted under.
Affordable(i) ==
  /\ Cardinality(Holders) <= GlobalLimit
  /\ \A s \in ScopesOf[i] :
       LET limits == record[i].policy[s] IN
       /\ Spent(s, Start(s, record[i].at)) <= limits.limit
       /\ Cardinality({h \in Holders : s \in ScopesOf[h]}) <= limits.concurrency

\* A reservation is granted only within the window's limit, its concurrency and
\* the global concurrency, whatever other reservations did meanwhile.
QuotaHolds ==
  [][\A i \in Ids : record[i] = Missing /\ record'[i] # Missing => Affordable(i)']_vars

\* A settled reservation is never settled, released or acquired again.
SettledOnce ==
  [][\A i \in Ids : record[i] # Missing /\ ~Held(i) => record'[i] = record[i]]_vars

\* Until it is stale, a live reservation keeps everything that its settlement
\* verifies: quota windows, buckets and places outlast their owner's execution.
Settleable ==
  \A i \in Ids : Held(i) /\ now <= Deadline[i] + Grace => Owned(i)

\* A request whose clock is not behind that of any holder is decided: the
\* turn of a window is never mistaken for lost state.
DecidedInOrder ==
  \A i \in Ids :
    /\ request[i] # Missing
    /\ \A h \in Holders : record[h].at <= request[i].at /\ now <= Deadline[h] + Grace
    => ~Unavailable(i)

\* Places and index agree with the live reservations.
BudgetSound == BudgetTypeOK /\ PlacesExact

\* What a live reservation is settled from adds up and outlasts its owner, and
\* a request of a clock that is not behind is decided.
Reckoned == HeldExact /\ Settleable /\ DecidedInOrder

=============================================================================
