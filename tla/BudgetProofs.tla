----------------------------- MODULE BudgetProofs -----------------------------
(****************************************************************************)
(* Proofs about the execution budgets, for any reservations, scopes, policy *)
(* limits and overrides, window durations, deadlines and lag of a request,  *)
(* and, in the second half, about the access decision and the limits it     *)
(* hands to those budgets, for any registry of features.                    *)
(****************************************************************************)
EXTENDS Budget, Access, FiniteSetTheorems, SequenceTheorems, TLAPS

(****************************************************************************)
(* The inductive invariant.  A reservation is never charged more than its   *)
(* estimate, which is why a refund leaves its bucket's count a natural.     *)
(****************************************************************************)
CapOK == Cardinality(Holders) <= GlobalLimit

BudgetInv ==
  /\ BudgetTypeOK
  /\ \A i \in Ids : charged[i] <= Amount[i]
  /\ PlacesExact
  /\ CapOK

----------------------------------------------------------------------------
(****************************************************************************)
(* Arithmetic of windows and buckets.                                       *)
(****************************************************************************)
LEMMA WindowStart ==
  ASSUME NEW s \in Scopes, NEW t \in Times
  PROVE  /\ Start(s, t) \in Times /\ Start(s, t) <= t
         /\ Ends(s, t) \in Nat /\ Ends(s, t) > t
         /\ WindowKept(s, t) \in Nat
<1>1. Seconds[s] \in Nat /\ Seconds[s] > 0 /\ t \in Nat /\ t <= MaxTime
      /\ MaxTime \in Nat /\ Retention \in Nat
  BY BudgetAssumption DEF Times
<1>2. t % Seconds[s] \in 0..(Seconds[s] - 1) /\ t % Seconds[s] <= t
  <2> DEFINE d == Seconds[s]
  <2>1. d \in Nat /\ d > 0
    BY <1>1
  <2> HIDE DEF d
  <2>2. t % d \in 0..(d - 1) /\ t % d <= t
    BY <1>1, <2>1, Z3
  <2> QED BY <2>2 DEF d
<1>3. Start(s, t) \in Times /\ Start(s, t) <= t /\ Ends(s, t) \in Nat /\ Ends(s, t) > t
  BY <1>1, <1>2 DEF Start, Ends, Times
<1> QED BY <1>1, <1>3 DEF WindowKept

LEMMA MaxOfTwo ==
  ASSUME NEW a \in Nat, NEW b \in Nat
  PROVE  Max({a, b}) \in Nat /\ Max({a, b}) >= a /\ Max({a, b}) >= b
<1>1. \E x \in {a, b} : \A y \in {a, b} : x >= y
  OBVIOUS
<1> QED BY <1>1 DEF Max

LEMMA MinOfTwo ==
  ASSUME NEW a \in Nat, NEW b \in Nat
  PROVE  Min({a, b}) \in Nat /\ Min({a, b}) <= a /\ Min({a, b}) <= b
<1>1. \E x \in {a, b} : \A y \in {a, b} : x <= y
  OBVIOUS
<1> QED BY <1>1 DEF Min

LEMMA Product ==
  ASSUME NEW a \in Nat, NEW b \in Nat
  PROVE  a * b \in Nat
OBVIOUS

Limit == [limit : Nat \ {0}, burst : Nat \ {0}, concurrency : Nat \ {0}]

LEMMA PolicyType ==
  ASSUME NEW p \in Resolved, NEW s \in Scopes
  PROVE  p[s] \in Limit
BY BudgetAssumption DEF Resolved, Limit

LEMMA RefilledType ==
  ASSUME BudgetTypeOK, NEW s \in Scopes, NEW t \in Times, NEW l \in Limit, NEW c \in Nat
  PROVE  Refilled(s, t, l, c) \in Nat
<1>1. Seconds[s] \in Nat /\ l.burst \in Nat /\ l.limit \in Nat
  BY BudgetAssumption DEF Limit
<1>2. l.burst * Seconds[s] \in Nat /\ c * Seconds[s] \in Nat
  BY <1>1, Product
<1>3. CASE rate[s] = Missing
  BY <1>2, <1>3 DEF Refilled
<1>4. CASE rate[s] # Missing
  <2>1. rate[s].tokens \in Nat /\ rate[s].at \in Nat /\ t \in Nat
    BY <1>4 DEF BudgetTypeOK, Rates, Times
  <2>2. Elapsed(t, s) \in Nat
    BY <2>1 DEF Elapsed
  <2>3. Elapsed(t, s) * l.limit \in Nat
    BY <1>1, <2>2, Product
  <2>4. rate[s].tokens + Elapsed(t, s) * l.limit + c * Seconds[s] \in Nat
    BY <1>2, <2>1, <2>3
  <2> QED BY <1>2, <1>4, <2>4, MinOfTwo DEF Refilled
<1> QED BY <1>3, <1>4

LEMMA ReserveTyped ==
  ASSUME BudgetTypeOK, NEW i \in Ids, Reserve(i)
  PROVE  BudgetTypeOK'
<1> DEFINE r == request[i]
<1>0. /\ r \in Requests /\ now \in Times /\ Amount[i] \in Nat
      /\ now \in Nat /\ Retention \in Nat /\ MaxTime \in Nat
  <2>1. r \in Requests /\ now \in Times
    BY DEF Reserve, BudgetTypeOK
  <2>2. Amount[i] \in Nat /\ Retention \in Nat /\ MaxTime \in Nat
    BY BudgetAssumption
  <2> QED BY <2>1, <2>2 DEF Times
<1>1. r.at \in Times /\ r.policy \in Resolved /\ r.totals \in [Scopes -> Nat]
  BY <1>0 DEF Requests
<1>2. record' \in [Ids -> Records \union {Missing}]
  <2>1. [state |-> "RESERVED", at |-> r.at, policy |-> r.policy] \in Records
    BY <1>1 DEF Records
  <2> QED BY <2>1 DEF Reserve, BudgetTypeOK
<1>3. ASSUME NEW s \in Scopes
      PROVE  window'[s] \in [Times -> Windows \union {Missing}]
  <2>0. /\ Start(s, r.at) \in Times /\ WindowKept(s, r.at) \in Nat
        /\ window[s] \in [Times -> Windows \union {Missing}]
    BY <1>1, WindowStart DEF BudgetTypeOK
  <2>1. Asked(i, s) \in Windows \union {Missing}
    BY <2>0 DEF Asked
  <2>2. Used(i, s) \in Nat
    <3>1. request[i].totals[s] \in Nat
      BY <1>1
    <3>2. CASE Asked(i, s) # Missing
      <4>1. Asked(i, s).used \in Nat
        BY <2>1, <3>2 DEF Windows
      <4> QED BY <3>1, <3>2, <4>1, MaxOfTwo DEF Used
    <3> QED BY <3>1, <3>2 DEF Used
  <2>3. HeldAmount(i, s) + Amount[i] \in Nat
    BY <1>0, <2>1 DEF HeldAmount, Windows
  <2>4. now + WindowKept(s, r.at) \in Nat
    BY <1>0, <2>0
  <2>5. [used |-> Used(i, s), held |-> HeldAmount(i, s) + Amount[i],
         expires |-> now + WindowKept(s, r.at)] \in Windows
    BY <2>2, <2>3, <2>4 DEF Windows
  <2>6. window'[s] = IF s \in ScopesOf[i]
          THEN [window[s] EXCEPT ![Start(s, r.at)] =
                  [used |-> Used(i, s), held |-> HeldAmount(i, s) + Amount[i],
                   expires |-> now + WindowKept(s, r.at)]]
          ELSE window[s]
    BY DEF Reserve
  <2> QED BY <2>0, <2>5, <2>6
<1>4. window' \in [Scopes -> [Times -> Windows \union {Missing}]]
  <2>1. window' = [s \in Scopes |-> window'[s]]
    BY DEF Reserve
  <2> QED BY <1>3, <2>1
<1>5. ASSUME NEW s \in Scopes
      PROVE  rate'[s] \in Rates \union {Missing}
  <2>0. CASE s \notin ScopesOf[i]
    BY <2>0 DEF Reserve, BudgetTypeOK
  <2>1. CASE s \in ScopesOf[i]
    <3>1. Limits(i, s) \in Limit
      BY <1>1, PolicyType DEF Limits
    <3>2. Refilled(s, r.at, Limits(i, s), 0) \in Nat
      BY <1>1, <3>1, RefilledType
    <3>3. Amount[i] * Seconds[s] \in Nat /\ Seconds[s] \in Nat
      BY <1>0, Product, BudgetAssumption
    <3>4. Refilled(s, r.at, Limits(i, s), 0) >= Amount[i] * Seconds[s]
      BY <2>1 DEF Reserve, Grantable, Fits
    <3>5. Refilled(s, r.at, Limits(i, s), 0) - Amount[i] * Seconds[s] \in Nat
      BY <3>2, <3>3, <3>4
    <3>6. now + Seconds[s] + Retention \in Nat
      BY <1>0, <3>3
    <3>7. rate'[s] = [tokens |-> Refilled(s, r.at, Limits(i, s), 0) - Amount[i] * Seconds[s],
                      at |-> r.at, expires |-> now + Seconds[s] + Retention]
      BY <2>1 DEF Reserve
    <3> QED BY <1>1, <3>5, <3>6, <3>7 DEF Rates
  <2> QED BY <2>0, <2>1
<1>6. rate' \in [Scopes -> Rates \union {Missing}]
  <2>1. rate' = [s \in Scopes |-> rate'[s]]
    BY DEF Reserve
  <2> QED BY <1>5, <2>1
<1>7. members' \in [Scopes -> SUBSET Ids]
  BY DEF Reserve, BudgetTypeOK
<1> QED BY <1>2, <1>4, <1>6, <1>7 DEF Reserve, BudgetTypeOK

LEMMA WriteTyped ==
  ASSUME BudgetTypeOK, NEW i \in Ids, Held(i),
         NEW state \in {"COMMITTED", "RELEASED", "EXPIRED"},
         NEW actual \in Nat, actual <= Amount[i], Write(i, state, actual)
  PROVE  BudgetTypeOK'
<1>0. /\ record[i] \in Records /\ now \in Times /\ Amount[i] \in Nat
      /\ now \in Nat /\ MaxTime \in Nat
  BY BudgetAssumption DEF Held, BudgetTypeOK, Times
<1>1. record[i].at \in Times /\ record[i].policy \in Resolved
  BY <1>0 DEF Records
<1>2. record' \in [Ids -> Records \union {Missing}]
  <2>1. record' = [record EXCEPT ![i] = [record[i] EXCEPT !.state = state]]
    BY DEF Write
  <2>2. [record[i] EXCEPT !.state = state] \in Records
    BY <1>0 DEF Records
  <2> QED BY <2>1, <2>2 DEF BudgetTypeOK
<1>3. ASSUME NEW s \in Scopes
      PROVE  window'[s] \in [Times -> Windows \union {Missing}]
  <2> DEFINE t == Start(s, record[i].at)
  <2>0. t \in Times /\ window[s] \in [Times -> Windows \union {Missing}]
    BY <1>1, WindowStart DEF BudgetTypeOK
  <2>1. CASE ~(s \in ScopesOf[i] /\ HeldWindow(i, s) # Missing)
    BY <2>0, <2>1 DEF Write
  <2>2. CASE s \in ScopesOf[i] /\ HeldWindow(i, s) # Missing
    <3>1. window[s][t] \in Windows
      BY <2>0, <2>2 DEF HeldWindow
    <3> DEFINE m == Max({0, window[s][t].held - Amount[i]})
    <3>2. window[s][t].used + actual \in Nat /\ window[s][t].held - Amount[i] \in Int
      BY <1>0, <3>1 DEF Windows
    <3>3. Max({0, window[s][t].held - Amount[i]}) \in Nat
      <4> DEFINE b == window[s][t].held - Amount[i]
      <4>1. b \in Int
        BY <3>2
      <4> HIDE DEF b
      <4>2. \E x \in {0, b} : \A y \in {0, b} : x >= y
        BY <4>1
      <4>3. Max({0, b}) \in {0, b} /\ Max({0, b}) >= 0
        BY <4>2 DEF Max
      <4>4. Max({0, b}) \in Nat
        BY <4>1, <4>3
      <4> QED BY <4>4 DEF b
    <3>4. [used |-> window[s][t].used + actual, held |-> m,
           expires |-> window[s][t].expires] \in Windows
      BY <3>1, <3>2, <3>3 DEF Windows
    <3>5. window'[s] = [window[s] EXCEPT ![t].used = @ + actual,
                                         ![t].held = Max({0, @ - Amount[i]})]
      BY <2>2 DEF Write
    <3>6. window'[s] = [window[s] EXCEPT ![t] =
                          [used |-> window[s][t].used + actual, held |-> m,
                           expires |-> window[s][t].expires]]
      <4>1. window[s][t] = [used |-> window[s][t].used, held |-> window[s][t].held,
                            expires |-> window[s][t].expires]
        BY <3>1 DEF Windows
      <4> QED BY <2>0, <3>5, <4>1
    <3> HIDE DEF m
    <3> QED BY <2>0, <3>4, <3>6
  <2> QED BY <2>1, <2>2
<1>4. window' \in [Scopes -> [Times -> Windows \union {Missing}]]
  <2>1. window' = [s \in Scopes |-> window'[s]]
    BY DEF Write
  <2> QED BY <1>3, <2>1
<1>5. ASSUME NEW s \in Scopes
      PROVE  rate'[s] \in Rates \union {Missing}
  <2>1. rate[s] \in Rates \union {Missing}
    BY DEF BudgetTypeOK
  <2>2. Credited(i, s, actual) \in Rates
    <3>1. Refilled(s, now, record[i].policy[s], Amount[i] - actual) \in Nat
      <4>1. record[i].policy[s] \in Limit /\ Amount[i] - actual \in Nat
        BY <1>0, <1>1, PolicyType
      <4> QED BY <1>0, <4>1, RefilledType
    <3>2. Forever \in Nat
      BY <1>0 DEF Forever
    <3> QED BY <1>0, <2>1, <3>1, <3>2 DEF Credited, Rates
  <2> QED BY <2>1, <2>2 DEF Write
<1>6. rate' \in [Scopes -> Rates \union {Missing}]
  <2>1. rate' = [s \in Scopes |-> rate'[s]]
    BY DEF Write
  <2> QED BY <1>5, <2>1
<1>7. members' \in [Scopes -> SUBSET Ids] /\ everywhere' \in SUBSET Ids /\ active' \in SUBSET Ids
  BY DEF Write, BudgetTypeOK
<1> QED BY <1>2, <1>4, <1>6, <1>7 DEF Write, BudgetTypeOK

LEMMA AskTyped ==
  ASSUME BudgetTypeOK, NEW i \in Ids, Ask(i)
  PROVE  BudgetTypeOK'
<1> DEFINE totals == [s \in Scopes |-> ledger[s][Start(s, now)]]
<1>1. totals \in [Scopes -> Nat]
  BY WindowStart DEF BudgetTypeOK
<1>2. [at |-> now, policy |-> policy, totals |-> totals] \in Requests
  <2> HIDE DEF totals
  <2> QED BY <1>1 DEF Requests, BudgetTypeOK
<1>3. request' \in [Ids -> Requests \union {Missing}]
  <2>1. request' = [request EXCEPT ![i] =
                      [at |-> now, policy |-> policy, totals |-> totals]]
    BY DEF Ask
  <2> HIDE DEF totals
  <2> QED BY <1>2, <2>1 DEF BudgetTypeOK
<1> HIDE DEF totals
<1> QED BY <1>3 DEF Ask, BudgetTypeOK, resources

LEMMA ChargeTyped ==
  ASSUME BudgetTypeOK, NEW i \in Ids, Charge(i),
         \A k \in Ids : charged[k] <= Amount[k]
  PROVE  BudgetTypeOK' /\ \A k \in Ids : charged'[k] <= Amount[k]
<1>1. PICK amount \in 1..Amount[i], t \in {record[i].at, now} :
        /\ charged' = [charged EXCEPT ![i] = amount]
        /\ ledger' = [s \in Scopes |->
             IF s \in ScopesOf[i]
             THEN [ledger[s] EXCEPT ![Start(s, t)] = @ + amount] ELSE ledger[s]]
  BY DEF Charge
<1>2. Amount[i] \in Nat /\ amount \in Nat /\ amount <= Amount[i]
  BY BudgetAssumption
<1>3. t \in Times
  BY DEF Charge, Held, BudgetTypeOK, Records
<1>4. charged' \in [Ids -> Nat] /\ \A k \in Ids : charged'[k] <= Amount[k]
  BY <1>1, <1>2 DEF BudgetTypeOK
<1>5. ASSUME NEW s \in Scopes
      PROVE  ledger'[s] \in [Times -> Nat]
  <2>1. Start(s, t) \in Times /\ ledger[s] \in [Times -> Nat]
    BY <1>3, WindowStart DEF BudgetTypeOK
  <2>2. ledger[s][Start(s, t)] + amount \in Nat
    BY <1>2, <2>1
  <2>3. ledger'[s] = IF s \in ScopesOf[i]
          THEN [ledger[s] EXCEPT ![Start(s, t)] = ledger[s][Start(s, t)] + amount]
          ELSE ledger[s]
    BY <1>1
  <2> QED BY <2>1, <2>2, <2>3
<1>6. ledger' \in [Scopes -> [Times -> Nat]]
  <2>1. ledger' = [s \in Scopes |-> ledger'[s]]
    BY <1>1
  <2> QED BY <1>5, <2>1
<1> QED BY <1>4, <1>6 DEF Charge, BudgetTypeOK, resources

LEMMA TickTyped ==
  ASSUME BudgetTypeOK, Tick
  PROVE  BudgetTypeOK'
<1>1. now' \in Times
  BY BudgetAssumption DEF Tick, BudgetTypeOK, Times
<1>2. window' \in [Scopes -> [Times -> Windows \union {Missing}]]
  BY DEF Tick, BudgetTypeOK
<1>3. rate' \in [Scopes -> Rates \union {Missing}]
  BY DEF Tick, BudgetTypeOK
<1> QED BY <1>1, <1>2, <1>3 DEF Tick, BudgetTypeOK

LEMMA OverrideTyped ==
  ASSUME BudgetTypeOK, NEW s \in Scopes, NEW p \in PoliciesOf[s], Override(s, p)
  PROVE  BudgetTypeOK'
<1>1. policy' \in Resolved
  BY DEF Override, BudgetTypeOK, Resolved
<1> QED BY <1>1 DEF Override, BudgetTypeOK, resources

\* What a settlement writes is bounded by the reservation's estimate.
LEMMA Settlement ==
  ASSUME BudgetInv, NEW i \in Ids, Finish(i) \/ Expire(i)
  PROVE  /\ Held(i)
         /\ \E state \in {"COMMITTED", "RELEASED", "EXPIRED"}, actual \in Nat :
              actual <= Amount[i] /\ Write(i, state, actual)
<1>1. charged[i] \in Nat /\ charged[i] <= Amount[i] /\ Amount[i] \in Nat
  BY BudgetAssumption DEF BudgetInv, BudgetTypeOK
<1>2. CASE Finish(i)
  <2>1. Held(i) /\ \E state \in {"COMMITTED", "RELEASED", "EXPIRED"} :
                      Write(i, state, charged[i])
    BY <1>2 DEF Finish
  <2> QED BY <1>1, <2>1
<1>3. CASE Expire(i)
  <2>1. Held(i) /\ Write(i, "EXPIRED", 0)
    BY <1>3 DEF Expire
  <2> QED BY <1>1, <2>1
<1> QED BY <1>2, <1>3

----------------------------------------------------------------------------
(****************************************************************************)
(* Places.                                                                  *)
(****************************************************************************)
LEMMA HoldersFinite ==
  /\ IsFiniteSet(Holders) /\ Cardinality(Holders) \in Nat
  /\ \A s : IsFiniteSet({h \in Holders : s \in ScopesOf[h]})
            /\ Cardinality({h \in Holders : s \in ScopesOf[h]}) \in Nat
<1>1. IsFiniteSet(Ids)
  BY BudgetAssumption
<1>2. \A S \in SUBSET Ids : IsFiniteSet(S)
  BY <1>1, FS_Subset
<1>3. Holders \in SUBSET Ids /\ \A s : {h \in Holders : s \in ScopesOf[h]} \in SUBSET Ids
  BY DEF Holders
<1> QED BY <1>2, <1>3, FS_CardinalityType

LEMMA ReserveHolders ==
  ASSUME BudgetInv, NEW i \in Ids, Reserve(i)
  PROVE  /\ ~Held(i) /\ record'[i] # Missing
         /\ record'[i].policy = request[i].policy
         /\ Holders' = Holders \union {i}
         /\ \A k \in Ids \ {i} : record'[k] = record[k]
<1> DEFINE r == [state |-> "RESERVED", at |-> request[i].at, policy |-> request[i].policy]
<1>0. record[i] = Missing /\ request[i] \in Requests
  BY DEF Reserve, Grantable, BudgetInv, BudgetTypeOK
<1>1. r \in Records
  BY <1>0 DEF Records, Requests
<1>2. r # Missing
  BY <1>1, MissingAssumption
<1>3. record' = [record EXCEPT ![i] = r] /\ record \in [Ids -> Records \union {Missing}]
  BY DEF Reserve, BudgetInv, BudgetTypeOK
<1>4. record'[i] = r /\ \A k \in Ids \ {i} : record'[k] = record[k]
  BY <1>3
<1>5. Holders' = Holders \union {i}
  BY <1>2, <1>4 DEF Holders, Held
<1> QED BY <1>0, <1>2, <1>4, <1>5 DEF Held

LEMMA ReservePlaces ==
  ASSUME BudgetInv, NEW i \in Ids, Reserve(i)
  PROVE  PlacesExact'
<1>1. Holders' = Holders \union {i} /\ i \notin Holders
  BY ReserveHolders DEF Holders
<1>2. /\ active' = active \union {i} /\ everywhere' = everywhere \union {i}
      /\ \A s \in Scopes : members'[s] = IF s \in ScopesOf[i]
                                         THEN members[s] \union {i} ELSE members[s]
  BY DEF Reserve
<1>3. PlacesExact
  BY DEF BudgetInv
<1> QED BY <1>1, <1>2, <1>3 DEF PlacesExact

LEMMA ReserveCap ==
  ASSUME BudgetInv, NEW i \in Ids, Reserve(i)
  PROVE  /\ CapOK'
         /\ \A s \in ScopesOf[i] :
              Cardinality({h \in Holders' : s \in ScopesOf[h]})
                <= record'[i].policy[s].concurrency
<1>1. Holders' = Holders \union {i} /\ i \notin Holders
  BY ReserveHolders DEF Holders
<1>2. PlacesExact /\ GlobalLimit \in Nat
  BY BudgetAssumption DEF BudgetInv
<1>3. Cardinality(Holders') = Cardinality(Holders) + 1
  BY <1>1, HoldersFinite, FS_AddElement
<1>4. Cardinality(Holders) < GlobalLimit
  BY <1>2 DEF Reserve, Grantable, PlacesExact
<1>5. CapOK'
  BY <1>2, <1>3, <1>4, HoldersFinite DEF CapOK
<1>6. ASSUME NEW s \in ScopesOf[i]
      PROVE  Cardinality({h \in Holders' : s \in ScopesOf[h]})
               <= record'[i].policy[s].concurrency
  <2> DEFINE Q == {h \in Holders : s \in ScopesOf[h]}
  <2>0. s \in Scopes
    BY BudgetAssumption
  <2>1. {h \in Holders' : s \in ScopesOf[h]} = Q \union {i} /\ i \notin Q
    BY <1>1, <1>6
  <2>2. IsFiniteSet(Q) /\ Cardinality(Q) \in Nat
    BY HoldersFinite
  <2>3. Cardinality(Q \union {i}) = Cardinality(Q) + 1
    <3> HIDE DEF Q
    <3> QED BY <2>1, <2>2, FS_AddElement
  <2>4. members[s] = Q
    BY <1>2, <2>0 DEF PlacesExact
  <2>5. Cardinality(Q) < request[i].policy[s].concurrency
    BY <1>6, <2>4 DEF Reserve, Grantable, Fits, Limits
  <2>6. record'[i].policy = request[i].policy
    BY ReserveHolders
  <2>7. request[i].policy[s].concurrency \in Nat
    <3>1. request[i].policy \in Resolved
      BY DEF Reserve, BudgetInv, BudgetTypeOK, Requests
    <3> QED BY <2>0, <3>1, PolicyType DEF Limit
  <2>8. Cardinality({h \in Holders' : s \in ScopesOf[h]}) = Cardinality(Q) + 1
    BY <2>1, <2>3
  <2> DEFINE n == Cardinality({h \in Holders' : s \in ScopesOf[h]})
             m == Cardinality(Q)
             c == request[i].policy[s].concurrency
  <2>9. n = m + 1 /\ m \in Nat /\ c \in Nat /\ m < c
    BY <2>2, <2>5, <2>7, <2>8
  <2>10. n <= c
    <3> HIDE DEF n, m, c
    <3> QED BY <2>9
  <2>11. record'[i].policy[s].concurrency = c
    BY <2>6
  <2> HIDE DEF Q
  <2> QED BY <2>10, <2>11
<1> QED BY <1>5, <1>6

LEMMA WriteHolders ==
  ASSUME BudgetInv, NEW i \in Ids, Held(i),
         NEW state \in {"COMMITTED", "RELEASED", "EXPIRED"}, NEW actual,
         Write(i, state, actual)
  PROVE  /\ Holders' = Holders \ {i}
         /\ \A k \in Ids \ {i} : record'[k] = record[k]
         /\ PlacesExact' /\ CapOK'
<1>1. record \in [Ids -> Records \union {Missing}] /\ record[i] \in Records
  BY DEF BudgetInv, BudgetTypeOK, Held
<1>2. record' = [record EXCEPT ![i] = [record[i] EXCEPT !.state = state]]
  BY DEF Write
<1>3. record'[i].state = state /\ \A k \in Ids \ {i} : record'[k] = record[k]
  BY <1>1, <1>2 DEF Records
<1>4. Holders' = Holders \ {i}
  BY <1>3 DEF Holders, Held
<1>5. PlacesExact'
  BY <1>4 DEF Write, PlacesExact, BudgetInv
<1>6. Cardinality(Holders') <= Cardinality(Holders) /\ Cardinality(Holders') \in Nat
  <2>1. IsFiniteSet(Holders) /\ Holders' \subseteq Holders
    BY <1>4, HoldersFinite
  <2>2. IsFiniteSet(Holders') /\ Cardinality(Holders') <= Cardinality(Holders)
    BY <2>1, FS_Subset
  <2> QED BY <2>2, FS_CardinalityType
<1>7. CapOK'
  BY <1>6, HoldersFinite, BudgetAssumption DEF BudgetInv, CapOK
<1> QED BY <1>3, <1>4, <1>5, <1>7

LEMMA QuietPlaces ==
  ASSUME BudgetInv, UNCHANGED <<record, members, everywhere, active>>
  PROVE  PlacesExact' /\ CapOK'
<1>1. Holders' = Holders
  BY DEF Holders, Held
<1> QED BY <1>1 DEF BudgetInv, PlacesExact, CapOK

----------------------------------------------------------------------------
(****************************************************************************)
(* What is counted, unit by unit.                                           *)
(****************************************************************************)
LEMMA UnitsAdded ==
  ASSUME NEW f \in [Ids -> Nat], NEW A, A \subseteq Ids, NEW i \in Ids \ A
  PROVE  /\ IsFiniteSet(Units(f, A)) /\ Cardinality(Units(f, A)) \in Nat
         /\ Cardinality(Units(f, A \union {i})) = Cardinality(Units(f, A)) + f[i]
<1>1. ASSUME NEW k \in Ids
      PROVE  IsFiniteSet({k} \X (1..f[k])) /\ Cardinality({k} \X (1..f[k])) = f[k]
  <2> DEFINE S == {k}
             T == 1..f[k]
  <2>1. IsFiniteSet(S) /\ Cardinality(S) = 1
    BY FS_Singleton
  <2>2. f[k] \in Nat
    OBVIOUS
  <2>3. IsFiniteSet(T) /\ Cardinality(T) = f[k]
    BY <2>2, FS_Interval
  <2> HIDE DEF S, T
  <2>4. IsFiniteSet(S \X T) /\ Cardinality(S \X T) = Cardinality(S) * Cardinality(T)
    BY <2>1, <2>3, FS_Product
  <2>5. IsFiniteSet(S \X T) /\ Cardinality(S \X T) = f[k]
    BY <2>1, <2>2, <2>3, <2>4
  <2> QED BY <2>5 DEF S, T
<1>2. IsFiniteSet(Units(f, A))
  <2> DEFINE F == {{k} \X (1..f[k]) : k \in A}
             g == [k \in A |-> {k} \X (1..f[k])]
  <2>1. IsFiniteSet(A)
    BY FS_Subset, BudgetAssumption
  <2>2. g \in Surjection(A, F)
    BY DEF Surjection
  <2>3. \A T \in F : IsFiniteSet(T)
    BY <1>1
  <2> HIDE DEF F, g
  <2>4. IsFiniteSet(F)
    BY <2>1, <2>2, FS_Surjection
  <2>5. IsFiniteSet(UNION F)
    BY <2>3, <2>4, FS_UNION
  <2> QED BY <2>5 DEF Units, F
<1> DEFINE B == Units(f, A)
           C == {i} \X (1..f[i])
<1>3. Units(f, A \union {i}) = B \union C /\ B \intersect C = {}
  BY DEF Units
<1>4. IsFiniteSet(B) /\ IsFiniteSet(C) /\ Cardinality(C) = f[i] /\ f[i] \in Nat
  BY <1>1, <1>2
<1> HIDE DEF B, C
<1>5. Cardinality(B \union C) = Cardinality(B) + Cardinality(C) - Cardinality(B \intersect C)
  BY <1>4, FS_Union
<1>6. Cardinality(B \intersect C) = 0 /\ Cardinality(B) \in Nat
  BY <1>3, <1>4, FS_EmptySet, FS_CardinalityType
<1>7. Cardinality(B \union C) = Cardinality(B) + f[i]
  BY <1>4, <1>5, <1>6
<1> QED BY <1>3, <1>4, <1>6, <1>7 DEF B

LEMMA UnitsRemoved ==
  ASSUME NEW f \in [Ids -> Nat], NEW A, A \subseteq Ids, NEW i \in A
  PROVE  /\ Cardinality(Units(f, A)) \in Nat /\ Cardinality(Units(f, A)) >= f[i]
         /\ Cardinality(Units(f, A \ {i})) = Cardinality(Units(f, A)) - f[i]
<1> DEFINE B == A \ {i}
<1>1. B \subseteq Ids /\ i \in Ids \ B /\ B \union {i} = A
  OBVIOUS
<1> HIDE DEF B
<1>2. Cardinality(Units(f, B)) \in Nat
      /\ Cardinality(Units(f, B \union {i})) = Cardinality(Units(f, B)) + f[i]
  BY <1>1, UnitsAdded
<1>3. f[i] \in Nat /\ Cardinality(Units(f, A)) = Cardinality(Units(f, B)) + f[i]
  BY <1>1, <1>2
<1> QED BY <1>2, <1>3 DEF B

LEMMA UnitsType ==
  ASSUME NEW f \in [Ids -> Nat], NEW A, A \subseteq Ids
  PROVE  Cardinality(Units(f, A)) \in Nat
<1>1. CASE A = {}
  <2>1. Units(f, A) = {}
    BY <1>1 DEF Units
  <2> QED BY <2>1, FS_EmptySet
<1>2. CASE A # {}
  BY <1>2, UnitsRemoved
<1> QED BY <1>1, <1>2

LEMMA NoUnits == \A f : Cardinality(Units(f, {})) = 0
<1>1. \A f : Units(f, {}) = {}
  BY DEF Units
<1> QED BY <1>1, FS_EmptySet

LEMMA UnitsSame ==
  ASSUME NEW f, NEW g, NEW A, \A i \in A : f[i] = g[i]
  PROVE  Units(f, A) = Units(g, A)
BY DEF Units

\* Instants in the order of their windows.
LEMMA LaterWindow ==
  ASSUME NEW s \in Scopes, NEW a \in Times, NEW b \in Times,
         a <= b, Start(s, a) # Start(s, b)
  PROVE  Ends(s, a) <= b
<1> DEFINE d == Seconds[s]
<1>1. d \in Nat /\ d > 0 /\ a \in Nat /\ b \in Nat
  BY BudgetAssumption DEF Times
<1>2. Start(s, a) = a - (a % d) /\ Start(s, b) = b - (b % d) /\ Ends(s, a) = (a - (a % d)) + d
  BY DEF Start, Ends
<1> HIDE DEF d
<1> DEFINE p == a \div d
           q == b \div d
<1>3. p \in Int /\ q \in Int /\ a = d * p + (a % d) /\ b = d * q + (b % d)
      /\ a % d \in 0..(d - 1) /\ b % d \in 0..(d - 1)
  BY <1>1, Z3
<1> DEFINE x == a % d
           y == b % d
<1>4. x \in Nat /\ y \in Nat /\ x < d /\ y < d /\ a = d * p + x /\ b = d * q + y
      /\ Start(s, a) = a - x /\ Start(s, b) = b - y /\ Ends(s, a) = a - x + d
  BY <1>1, <1>2, <1>3
<1> HIDE DEF p, q, x, y
<1>5. p # q
  BY <1>1, <1>3, <1>4
<1>6. CASE q < p
  <2>1. q + 1 <= p /\ d * (q + 1) <= d * p /\ d * (q + 1) = d * q + d
    BY <1>1, <1>3, <1>6, Z3
  <2> QED BY <1>1, <1>3, <1>4, <2>1
<1>7. CASE p < q
  <2>1. p + 1 <= q /\ d * (p + 1) <= d * q /\ d * (p + 1) = d * p + d
    BY <1>1, <1>3, <1>7, Z3
  <2> QED BY <1>1, <1>3, <1>4, <2>1
<1> QED BY <1>3, <1>5, <1>6, <1>7

----------------------------------------------------------------------------
(****************************************************************************)
(* The windows.  A window holds what live reservations need and has counted *)
(* what was committed; its bucket is there while it is, and a window that   *)
(* is missing was never used or ended a retention ago, so that no request   *)
(* can still be applied to it.                                              *)
(****************************************************************************)

\* Overrides of a scope leave its burst alone.
FixedBursts == \A s \in Scopes : \A p, q \in PoliciesOf[s] : p.burst = q.burst

RateOK(s) ==
  rate[s] # Missing =>
    /\ rate[s].expires <= now + Seconds[s] + Retention
    /\ FixedBursts => \A p \in PoliciesOf[s] : rate[s].tokens <= p.burst * Seconds[s]

WindowOK(s, t) ==
  IF window[s][t] = Missing
  THEN In(s, t) = {} \/ now >= t + Seconds[s] + Retention
  ELSE /\ window[s][t].expires >= t + Seconds[s] + Retention
       /\ rate[s] # Missing /\ window[s][t].expires <= rate[s].expires
       /\ window[s][t].held = Cardinality(Units(Amount, Holding(s, t)))
       /\ window[s][t].used >= Cardinality(Units(charged, Committed(s, t)))

Timely(i) == request[i] # Missing => request[i].at <= now /\ now <= request[i].at + Lag

WindowsInv ==
  /\ \A s \in Scopes : RateOK(s) /\ \A t \in Times : WindowOK(s, t)
  /\ \A i \in Ids : Timely(i)

LEMMA Numbers ==
  /\ Retention \in Nat /\ Lag \in Nat /\ Lag <= Retention /\ MaxTime \in Nat /\ Grace \in Nat
  /\ Amount \in [Ids -> Nat] /\ \A i \in Ids : Amount[i] \in Nat /\ Amount[i] > 0
  /\ \A s \in Scopes : Seconds[s] \in Nat /\ Seconds[s] > 0
  /\ \A i \in Ids : ScopesOf[i] \subseteq Scopes
BY BudgetAssumption, RetentionAssumption

LEMMA InIds ==
  \A s, t : In(s, t) \subseteq Ids /\ Holding(s, t) \subseteq Ids /\ Committed(s, t) \subseteq Ids
BY DEF In, Holding, Committed

\* A step that leaves records, charges and requests alone only has to mind the clock.
LEMMA InSame ==
  ASSUME record' = record
  PROVE  \A s, t : In(s, t)' = In(s, t) /\ Holding(s, t)' = Holding(s, t)
                   /\ Committed(s, t)' = Committed(s, t)
BY DEF In, Holding, Committed, Holders, Held

LEMMA QuietWindows ==
  ASSUME WindowsInv, UNCHANGED <<now, charged, record, window, rate>>
  PROVE  \A s \in Scopes : RateOK(s)' /\ \A t \in Times : WindowOK(s, t)'
<1> SUFFICES ASSUME NEW s \in Scopes PROVE RateOK(s)' /\ \A t \in Times : WindowOK(s, t)'
  OBVIOUS
<1>1. RateOK(s)'
  BY DEF WindowsInv, RateOK
<1>2. ASSUME NEW t \in Times PROVE WindowOK(s, t)'
  <2>1. In(s, t)' = In(s, t) /\ Holding(s, t)' = Holding(s, t) /\ Committed(s, t)' = Committed(s, t)
    BY InSame
  <2>2. WindowOK(s, t)
    BY DEF WindowsInv
  <2> QED BY <2>1, <2>2 DEF WindowOK, Units
<1> QED BY <1>1, <1>2

\* A charge is of a live reservation, which has committed nothing yet.
LEMMA ChargeWindows ==
  ASSUME BudgetInv, WindowsInv, NEW i \in Ids, Charge(i)
  PROVE  \A s \in Scopes : RateOK(s)' /\ \A t \in Times : WindowOK(s, t)'
<1> SUFFICES ASSUME NEW s \in Scopes PROVE RateOK(s)' /\ \A t \in Times : WindowOK(s, t)'
  OBVIOUS
<1>0. UNCHANGED <<now, request, record, window, rate>> /\ Held(i)
  BY DEF Charge, resources
<1>1. RateOK(s)'
  BY <1>0 DEF WindowsInv, RateOK
<1>2. ASSUME NEW t \in Times PROVE WindowOK(s, t)'
  <2>1. In(s, t)' = In(s, t) /\ Holding(s, t)' = Holding(s, t) /\ Committed(s, t)' = Committed(s, t)
    BY <1>0, InSame
  <2>2. WindowOK(s, t)
    BY DEF WindowsInv
  <2>3. i \notin Committed(s, t) /\ Committed(s, t) \subseteq Ids
    BY <1>0, InIds DEF Committed, Held
  <2>4. \A k \in Committed(s, t) : charged'[k] = charged[k]
    BY <2>3 DEF Charge, BudgetInv, BudgetTypeOK
  <2>5. Units(charged', Committed(s, t)) = Units(charged, Committed(s, t))
    BY <2>4, UnitsSame
  <2>6. Units(charged, Committed(s, t))' = Units(charged, Committed(s, t))
    BY <2>1, <2>5 DEF Units
  <2>7. Units(Amount, Holding(s, t))' = Units(Amount, Holding(s, t))
    BY <2>1 DEF Units
  <2> QED BY <1>0, <2>1, <2>2, <2>6, <2>7 DEF WindowOK
<1> QED BY <1>1, <1>2

\* A window lapses a retention after its end, and before its bucket.
LEMMA TickWindows ==
  ASSUME BudgetInv, WindowsInv, Tick
  PROVE  WindowsInv'
<1>0. /\ now \in Nat /\ now' = now + 1 /\ UNCHANGED <<charged, request, record>>
      /\ \A s \in Scopes : rate'[s] = IF Lapsed(rate[s], now + 1) THEN Missing ELSE rate[s]
      /\ \A s \in Scopes, t \in Times :
           window'[s][t] = IF Lapsed(window[s][t], now + 1) THEN Missing ELSE window[s][t]
  BY DEF Tick, BudgetInv, BudgetTypeOK, Times
<1>1. ASSUME NEW i \in Ids PROVE Timely(i)'
  <2>1. Timely(i) /\ (request[i] # Missing => now - request[i].at < Lag /\ request[i].at \in Nat)
    BY DEF WindowsInv, Tick, BudgetInv, BudgetTypeOK, Requests, Times
  <2> QED BY <1>0, <2>1, Numbers DEF Timely
<1>2. ASSUME NEW s \in Scopes PROVE RateOK(s)'
  <2>1. RateOK(s)
    BY DEF WindowsInv
  <2>2. CASE rate[s] = Missing
    BY <1>0, <2>2 DEF RateOK, Lapsed
  <2>3. CASE rate[s] # Missing
    <3>1. rate[s].expires \in Nat
      BY <2>3 DEF BudgetInv, BudgetTypeOK, Rates
    <3>2. rate[s].expires <= now' + Seconds[s] + Retention
      BY <1>0, <2>1, <2>3, <3>1, Numbers DEF RateOK
    <3> QED BY <1>0, <2>1, <2>3, <3>2 DEF RateOK
  <2> QED BY <2>2, <2>3
<1>3. ASSUME NEW s \in Scopes, NEW t \in Times PROVE WindowOK(s, t)'
  <2>1. WindowOK(s, t) /\ t \in Nat
    BY DEF WindowsInv, Times
  <2>2. In(s, t)' = In(s, t) /\ Holding(s, t)' = Holding(s, t) /\ Committed(s, t)' = Committed(s, t)
    BY <1>0, InSame
  <2>3. Units(charged, Committed(s, t))' = Units(charged, Committed(s, t))
        /\ Units(Amount, Holding(s, t))' = Units(Amount, Holding(s, t))
    BY <1>0, <2>2 DEF Units
  <2>4. CASE window[s][t] = Missing
    <3>1. window'[s][t] = Missing
      BY <1>0, <2>4
    <3>2. In(s, t) = {} \/ now >= t + Seconds[s] + Retention
      BY <2>1, <2>4 DEF WindowOK
    <3>3. In(s, t) = {} \/ now' >= t + Seconds[s] + Retention
      BY <1>0, <2>1, <3>2, Numbers
    <3> QED BY <2>2, <3>1, <3>3 DEF WindowOK
  <2>5. CASE window[s][t] # Missing
    <3>1. window[s][t].expires \in Nat /\ rate[s] # Missing /\ rate[s].expires \in Nat
      BY <2>1, <2>5 DEF WindowOK, BudgetInv, BudgetTypeOK, Windows, Rates
    <3>2. window[s][t].expires >= t + Seconds[s] + Retention /\ window[s][t].expires <= rate[s].expires
      BY <2>1, <2>5 DEF WindowOK
    <3>3. CASE Lapsed(window[s][t], now + 1)
      <4>1. window'[s][t] = Missing /\ now' >= window[s][t].expires
        BY <1>0, <3>3 DEF Lapsed
      <4>2. now' >= t + Seconds[s] + Retention
        BY <1>0, <2>1, <3>1, <3>2, <4>1, Numbers
      <4> QED BY <4>1, <4>2 DEF WindowOK
    <3>4. CASE ~Lapsed(window[s][t], now + 1)
      <4>1. window'[s][t] = window[s][t] /\ ~(window[s][t].expires <= now + 1)
        BY <1>0, <2>5, <3>4 DEF Lapsed
      <4>2. ~(rate[s].expires <= now + 1)
        BY <1>0, <3>1, <3>2, <4>1
      <4>3. rate'[s] = rate[s]
        BY <1>0, <4>2 DEF Lapsed
      <4> QED BY <2>1, <2>3, <2>5, <3>1, <4>1, <4>3 DEF WindowOK
    <3> QED BY <3>3, <3>4
  <2> QED BY <2>4, <2>5
<1> QED BY <1>1, <1>2, <1>3 DEF WindowsInv

LEMMA RefilledBounded ==
  ASSUME BudgetTypeOK, NEW s \in Scopes, NEW t \in Times, NEW l \in Limit, NEW c \in Nat
  PROVE  Refilled(s, t, l, c) <= l.burst * Seconds[s]
<1>1. Seconds[s] \in Nat /\ l.burst \in Nat /\ l.limit \in Nat
  BY BudgetAssumption DEF Limit
<1>2. l.burst * Seconds[s] \in Nat /\ c * Seconds[s] \in Nat
  BY <1>1, Product
<1>3. CASE rate[s] = Missing
  BY <1>2, <1>3 DEF Refilled
<1>4. CASE rate[s] # Missing
  <2>1. rate[s].tokens \in Nat /\ rate[s].at \in Nat /\ t \in Nat
    BY <1>4 DEF BudgetTypeOK, Rates, Times
  <2>2. Elapsed(t, s) \in Nat
    BY <2>1 DEF Elapsed
  <2>3. Elapsed(t, s) * l.limit \in Nat
    BY <1>1, <2>2, Product
  <2>4. rate[s].tokens + Elapsed(t, s) * l.limit + c * Seconds[s] \in Nat
    BY <1>2, <2>1, <2>3
  <2> QED BY <1>2, <1>4, <2>4, MinOfTwo DEF Refilled
<1> QED BY <1>3, <1>4

\* A grant is counted in its window of every scope it is charged to.
LEMMA ReserveIn ==
  ASSUME BudgetInv, NEW i \in Ids, Reserve(i), NEW s, NEW t
  PROVE  /\ i \notin In(s, t) /\ Committed(s, t)' = Committed(s, t)
         /\ IF s \in ScopesOf[i] /\ t = Start(s, request[i].at)
            THEN In(s, t)' = In(s, t) \union {i} /\ Holding(s, t)' = Holding(s, t) \union {i}
            ELSE In(s, t)' = In(s, t) /\ Holding(s, t)' = Holding(s, t)
<1> DEFINE r == [state |-> "RESERVED", at |-> request[i].at, policy |-> request[i].policy]
<1>1. record[i] = Missing /\ record' = [record EXCEPT ![i] = r] /\ record \in [Ids -> Records \union {Missing}]
  BY DEF Reserve, Grantable, BudgetInv, BudgetTypeOK
<1>2. record'[i] = r /\ \A k \in Ids \ {i} : record'[k] = record[k]
  BY <1>1
<1>3. r # Missing /\ r.state = "RESERVED" /\ r.at = request[i].at
  BY <1>2, ReserveHolders
<1> HIDE DEF r
<1>4. i \notin In(s, t)
  BY <1>1 DEF In
<1>5. In(s, t)' = IF s \in ScopesOf[i] /\ t = Start(s, request[i].at)
                  THEN In(s, t) \union {i} ELSE In(s, t)
  BY <1>1, <1>2, <1>3 DEF In, Start
<1>6. Committed(s, t)' = Committed(s, t)
  <2>1. Committed(s, t)' = {k \in In(s, t)' : record'[k].state = "COMMITTED"}
    BY DEF Committed
  <2>2. \A k \in In(s, t) : k \in Ids \ {i} /\ record'[k] = record[k]
    BY <1>2, <1>4, InIds
  <2>3. record'[i].state # "COMMITTED"
    BY <1>2, <1>3
  <2> QED BY <1>5, <2>1, <2>2, <2>3 DEF Committed
<1>7. Holders' = Holders \union {i}
  BY ReserveHolders
<1> QED BY <1>4, <1>5, <1>6, <1>7 DEF Holding

\* What a request finds of its window: nothing was ever granted in a window
\* that is missing, for a request is not as old as a window's retention.
LEMMA AskedWindow ==
  ASSUME BudgetInv, WindowsInv, NEW i \in Ids, request[i] # Missing, NEW s \in ScopesOf[i]
  PROVE  LET t == Start(s, request[i].at) IN
         /\ s \in Scopes /\ request[i].at \in Times /\ t \in Times
         /\ HeldAmount(i, s) = Cardinality(Units(Amount, Holding(s, t)))
         /\ Used(i, s) \in Nat
         /\ Used(i, s) >= Cardinality(Units(charged, Committed(s, t)))
<1> DEFINE t == Start(s, request[i].at)
<1>1. s \in Scopes /\ request[i].at \in Times /\ request[i].totals[s] \in Nat
      /\ now \in Nat /\ request[i].at \in Nat
  BY Numbers DEF BudgetInv, BudgetTypeOK, Requests, Times
<1>2. t \in Times /\ t \in Nat /\ request[i].at < t + Seconds[s]
  BY <1>1, WindowStart DEF Times, Ends
<1>3. WindowOK(s, t) /\ now <= request[i].at + Lag
  BY <1>1, <1>2 DEF WindowsInv, Timely
<1>4. Asked(i, s) = window[s][t] /\ window[s][t] \in Windows \union {Missing}
  BY <1>1, <1>2 DEF Asked, BudgetInv, BudgetTypeOK
<1> HIDE DEF t
<1>5. CASE window[s][t] = Missing
  <2>1. In(s, t) = {}
    BY <1>1, <1>2, <1>3, <1>5, Numbers DEF WindowOK
  <2>2. Holding(s, t) = {} /\ Committed(s, t) = {}
    BY <2>1 DEF Holding, Committed
  <2>3. Cardinality(Units(Amount, Holding(s, t))) = 0 /\ Cardinality(Units(charged, Committed(s, t))) = 0
    BY <2>2, NoUnits
  <2>4. HeldAmount(i, s) = 0 /\ Used(i, s) = request[i].totals[s]
    BY <1>4, <1>5 DEF HeldAmount, Used
  <2> QED BY <1>1, <1>2, <2>3, <2>4 DEF t
<1>6. CASE window[s][t] # Missing
  <2>1. /\ window[s][t].held = Cardinality(Units(Amount, Holding(s, t)))
        /\ window[s][t].used >= Cardinality(Units(charged, Committed(s, t)))
    BY <1>3, <1>6 DEF WindowOK
  <2>2. HeldAmount(i, s) = window[s][t].held
    BY <1>4, <1>6 DEF HeldAmount
  <2>3. window[s][t].used \in Nat
    BY <1>4, <1>6 DEF Windows
  <2>4. Used(i, s) = Max({window[s][t].used, request[i].totals[s]})
    BY <1>4, <1>6 DEF Used
  <2>5. Used(i, s) \in Nat /\ Used(i, s) >= window[s][t].used
    BY <1>1, <2>3, <2>4, MaxOfTwo
  <2>6. Cardinality(Units(charged, Committed(s, t))) \in Nat
    BY InIds, UnitsType DEF BudgetInv, BudgetTypeOK
  <2>7. Used(i, s) >= Cardinality(Units(charged, Committed(s, t)))
    BY <2>1, <2>3, <2>5, <2>6
  <2> QED BY <1>1, <1>2, <2>1, <2>2, <2>5, <2>7 DEF t
<1> QED BY <1>5, <1>6

LEMMA ReserveWindows ==
  ASSUME BudgetInv, WindowsInv, NEW i \in Ids, Reserve(i)
  PROVE  WindowsInv'
<1> DEFINE r == request[i]
           keep(s) == now + Seconds[s] + Retention
<1>0. /\ r # Missing /\ r.at \in Times /\ r.policy \in Resolved /\ r.at <= now /\ now \in Nat /\ r.at \in Nat
      /\ UNCHANGED <<now, charged>>
  BY DEF Reserve, BudgetInv, BudgetTypeOK, Requests, WindowsInv, Timely, Times
<1>1. ASSUME NEW k \in Ids PROVE Timely(k)'
  <2>1. request'[k] = IF k = i THEN Missing ELSE request[k]
    BY DEF Reserve, BudgetInv, BudgetTypeOK
  <2> QED BY <1>0, <2>1 DEF WindowsInv, Timely
<1>2. ASSUME NEW s \in Scopes, s \in ScopesOf[i]
      PROVE  rate'[s].expires = keep(s) /\ RateOK(s)'
             /\ rate'[s] # Missing /\ (rate[s] # Missing => rate[s].expires <= keep(s))
  <2> DEFINE l == Limits(i, s)
             full == Refilled(s, r.at, l, 0)
             row == [tokens |-> full - Amount[i] * Seconds[s], at |-> r.at, expires |-> keep(s)]
  <2>1. rate'[s] = row
    BY <1>2 DEF Reserve
  <2>4. l \in Limit /\ l \in PoliciesOf[s]
    BY <1>0, PolicyType DEF Limits, Resolved
  <2>5. full \in Nat /\ full <= l.burst * Seconds[s] /\ Amount[i] * Seconds[s] \in Nat /\ l.burst * Seconds[s] \in Nat
    BY <1>0, <2>4, RefilledType, RefilledBounded, Product, Numbers DEF BudgetInv, Limit
  <2>11. full >= Amount[i] * Seconds[s]
    BY <1>2 DEF Reserve, Grantable, Fits
  <2>3. rate'[s] # Missing
    <3>1. now + Seconds[s] + Retention \in Nat /\ full - Amount[i] * Seconds[s] \in Nat
      BY <1>0, <2>5, <2>11, Numbers
    <3> HIDE DEF full
    <3>2. row \in Rates
      BY <1>0, <3>1 DEF Rates
    <3> QED BY <2>1, <3>2, MissingAssumption
  <2>6. rate'[s].expires = keep(s) /\ rate'[s].tokens = full - Amount[i] * Seconds[s]
    BY <2>1
  <2> HIDE DEF full
  <2>7. rate'[s].tokens <= l.burst * Seconds[s]
    BY <2>5, <2>6
  <2>8. FixedBursts => \A p \in PoliciesOf[s] : p.burst = l.burst
    BY <2>4 DEF FixedBursts
  <2>9. RateOK(s)'
    BY <1>0, <2>6, <2>7, <2>8, Numbers DEF RateOK
  <2>10. rate[s] # Missing => rate[s].expires <= keep(s)
    BY DEF WindowsInv, RateOK
  <2> QED BY <2>3, <2>6, <2>9, <2>10
<1>3. ASSUME NEW s \in Scopes, s \notin ScopesOf[i] PROVE RateOK(s)' /\ rate'[s] = rate[s]
  <2>1. rate'[s] = rate[s]
    BY <1>3 DEF Reserve
  <2> QED BY <1>0, <2>1 DEF WindowsInv, RateOK
<1>4. ASSUME NEW s \in Scopes, NEW t \in Times PROVE WindowOK(s, t)'
  <2>1. WindowOK(s, t) /\ t \in Nat
    BY DEF WindowsInv, Times
  <2>2. CASE s \in ScopesOf[i] /\ t = Start(s, r.at)
    <3> DEFINE row == [used |-> Used(i, s), held |-> HeldAmount(i, s) + Amount[i],
                       expires |-> now + WindowKept(s, r.at)]
    <3>1. window'[s][t] = row
      BY <2>2 DEF Reserve, BudgetInv, BudgetTypeOK
    <3>2. window'[s][t] # Missing
      <4>1. WindowKept(s, r.at) \in Nat
        BY <1>0, WindowStart
      <4>2. Used(i, s) \in Nat /\ HeldAmount(i, s) \in Nat
        BY <1>0, <2>2, AskedWindow, InIds, UnitsType, Numbers
      <4>3. now + WindowKept(s, r.at) \in Nat /\ HeldAmount(i, s) + Amount[i] \in Nat
        BY <1>0, <4>1, <4>2, Numbers
      <4>4. row \in Windows
        BY <4>2, <4>3 DEF Windows
      <4> QED BY <3>1, <4>4, MissingAssumption
    <3>3. /\ HeldAmount(i, s) = Cardinality(Units(Amount, Holding(s, t)))
          /\ Used(i, s) >= Cardinality(Units(charged, Committed(s, t)))
      BY <1>0, <2>2, AskedWindow
    <3>4. /\ i \notin Holding(s, t) /\ Holding(s, t)' = Holding(s, t) \union {i}
          /\ Committed(s, t)' = Committed(s, t)
      BY <2>2, ReserveIn DEF Holding
    <3>5. Cardinality(Units(Amount, Holding(s, t)))' = HeldAmount(i, s) + Amount[i]
      <4>1. Cardinality(Units(Amount, Holding(s, t) \union {i})) = HeldAmount(i, s) + Amount[i]
        BY <3>3, <3>4, InIds, Numbers, UnitsAdded
      <4> QED BY <3>4, <4>1 DEF Units
    <3>6. Units(charged, Committed(s, t))' = Units(charged, Committed(s, t))
      BY <1>0, <3>4 DEF Units
    <3>7. /\ window'[s][t].expires = now + WindowKept(s, r.at)
          /\ window'[s][t].used = Used(i, s) /\ window'[s][t].held = HeldAmount(i, s) + Amount[i]
      BY <3>1
    <3>8. /\ now + WindowKept(s, r.at) = now + ((t + Seconds[s]) - r.at) + Retention
          /\ t <= r.at
      BY <1>0, <2>1, <2>2, WindowStart, Numbers DEF WindowKept, Ends
    <3>9. now + WindowKept(s, r.at) >= t + Seconds[s] + Retention /\ now + WindowKept(s, r.at) <= keep(s)
      BY <1>0, <2>1, <3>8, Numbers
    <3> QED BY <1>2, <2>2, <3>2, <3>3, <3>5, <3>6, <3>7, <3>9 DEF WindowOK
  <2>3. CASE ~(s \in ScopesOf[i] /\ t = Start(s, r.at))
    <3>1. window'[s][t] = window[s][t]
      BY <1>0, <2>3, WindowStart DEF Reserve, BudgetInv, BudgetTypeOK
    <3>2. In(s, t)' = In(s, t) /\ Holding(s, t)' = Holding(s, t) /\ Committed(s, t)' = Committed(s, t)
      BY <2>3, ReserveIn
    <3>3. Units(charged, Committed(s, t))' = Units(charged, Committed(s, t))
          /\ Units(Amount, Holding(s, t))' = Units(Amount, Holding(s, t))
      BY <1>0, <3>2 DEF Units
    <3>4. CASE window[s][t] = Missing
      BY <1>0, <2>1, <3>1, <3>2, <3>4 DEF WindowOK
    <3>5. CASE window[s][t] # Missing
      <4>1. /\ window[s][t].expires >= t + Seconds[s] + Retention
            /\ rate[s] # Missing /\ window[s][t].expires <= rate[s].expires
            /\ window[s][t].held = Cardinality(Units(Amount, Holding(s, t)))
            /\ window[s][t].used >= Cardinality(Units(charged, Committed(s, t)))
        BY <2>1, <3>5 DEF WindowOK
      <4>2. window[s][t].expires \in Nat /\ rate[s].expires \in Nat /\ keep(s) \in Nat
        <5>1. window[s][t] \in Windows /\ rate[s] \in Rates
          BY <3>5, <4>1 DEF BudgetInv, BudgetTypeOK
        <5> QED BY <1>0, <5>1, Numbers DEF Windows, Rates
      <4>3. rate'[s] # Missing /\ window[s][t].expires <= rate'[s].expires
        <5>1. CASE s \in ScopesOf[i]
          <6>1. rate[s].expires <= keep(s) /\ rate'[s].expires = keep(s) /\ rate'[s] # Missing
            BY <1>2, <4>1, <5>1
          <6> HIDE DEF keep
          <6> QED BY <4>1, <4>2, <6>1
        <5>2. CASE s \notin ScopesOf[i]
          BY <1>3, <4>1, <5>2
        <5> QED BY <5>1, <5>2
      <4> QED BY <3>1, <3>3, <3>5, <4>1, <4>3 DEF WindowOK
    <3> QED BY <3>4, <3>5
  <2> QED BY <2>2, <2>3
<1> QED BY <1>1, <1>2, <1>3, <1>4 DEF WindowsInv

\* A settlement takes the reservation out of what is held, into what is
\* committed or nowhere.
LEMMA WriteIn ==
  ASSUME BudgetInv, NEW i \in Ids, Held(i),
         NEW state \in {"COMMITTED", "RELEASED", "EXPIRED"}, NEW actual,
         Write(i, state, actual), NEW s, NEW t
  PROVE  /\ In(s, t)' = In(s, t) /\ Holding(s, t)' = Holding(s, t) \ {i} /\ i \notin Committed(s, t)
         /\ IF state = "COMMITTED" /\ i \in In(s, t)
            THEN Committed(s, t)' = Committed(s, t) \union {i}
            ELSE Committed(s, t)' = Committed(s, t)
<1>1. record \in [Ids -> Records \union {Missing}] /\ record[i] \in Records /\ record[i].state = "RESERVED"
  BY DEF BudgetInv, BudgetTypeOK, Held
<1>2. record' = [record EXCEPT ![i] = [record[i] EXCEPT !.state = state]]
  BY DEF Write
<1>3. /\ record'[i].state = state /\ record'[i].at = record[i].at /\ record'[i] \in Records
      /\ \A k \in Ids \ {i} : record'[k] = record[k]
  BY <1>1, <1>2 DEF Records
<1>4. record[i] # Missing /\ record'[i] # Missing
  BY <1>1, <1>3, MissingAssumption
<1>5. In(s, t)' = In(s, t)
  BY <1>3, <1>4 DEF In, Start
<1>6. Holders' = Holders \ {i}
  BY WriteHolders
<1>7. i \notin Committed(s, t)
  BY <1>1 DEF Committed
<1>8. Committed(s, t)' = {k \in In(s, t) : record'[k].state = "COMMITTED"}
  BY <1>5 DEF Committed
<1>9. IF state = "COMMITTED" /\ i \in In(s, t)
      THEN Committed(s, t)' = Committed(s, t) \union {i}
      ELSE Committed(s, t)' = Committed(s, t)
  <2>1. \A k \in In(s, t) \ {i} : record'[k] = record[k]
    BY <1>3, InIds
  <2> QED BY <1>3, <1>7, <1>8, <2>1 DEF Committed
<1> QED BY <1>5, <1>6, <1>7, <1>9 DEF Holding

LEMMA WriteWindows ==
  ASSUME BudgetInv, WindowsInv, NEW i \in Ids, Held(i),
         NEW state \in {"COMMITTED", "RELEASED", "EXPIRED"},
         NEW actual \in Nat, actual <= Amount[i], Write(i, state, actual),
         state = "COMMITTED" =>
           actual = charged[i] /\ \A s \in ScopesOf[i] : HeldWindow(i, s) # Missing
  PROVE  WindowsInv'
<1>0. /\ record[i] \in Records /\ record[i].at \in Times /\ record[i].policy \in Resolved
      /\ now \in Nat /\ now \in Times /\ UNCHANGED <<now, charged, request>>
      /\ charged \in [Ids -> Nat] /\ Amount[i] \in Nat
  BY Numbers DEF Held, BudgetInv, BudgetTypeOK, Records, Write, Times
<1>1. ASSUME NEW k \in Ids PROVE Timely(k)'
  BY <1>0 DEF WindowsInv, Timely
<1>2. ASSUME NEW s \in Scopes PROVE HeldWindow(i, s) # Missing => rate[s] # Missing
  <2>1. Start(s, record[i].at) \in Times
    BY <1>0, WindowStart
  <2> QED BY <2>1 DEF WindowsInv, WindowOK, HeldWindow
<1>3. ASSUME NEW s \in Scopes
      PROVE  /\ RateOK(s)' /\ (rate[s] # Missing => rate'[s] # Missing /\ rate'[s].expires = rate[s].expires)
  <2>1. RateOK(s) /\ rate[s] \in Rates \union {Missing}
    BY DEF WindowsInv, BudgetInv, BudgetTypeOK
  <2>2. CASE s \in ScopesOf[i] /\ HeldWindow(i, s) # Missing
    <3> DEFINE l == record[i].policy[s]
               full == Refilled(s, now, l, Amount[i] - actual)
               row == [tokens |-> full, at |-> now, expires |-> rate[s].expires]
    <3>1. rate[s] # Missing /\ rate[s] \in Rates
      BY <1>2, <2>1, <2>2
    <3>2. rate'[s] = row
      BY <2>2, <3>1 DEF Write, Credited
    <3>3. l \in Limit /\ l \in PoliciesOf[s] /\ Amount[i] - actual \in Nat
      BY <1>0, PolicyType DEF Resolved
    <3>4. full \in Nat /\ full <= l.burst * Seconds[s] /\ l.burst * Seconds[s] \in Nat
      BY <1>0, <3>3, RefilledType, RefilledBounded, Product, Numbers DEF BudgetInv, Limit
    <3>5. FixedBursts => \A p \in PoliciesOf[s] : p.burst = l.burst
      BY <3>3 DEF FixedBursts
    <3> HIDE DEF full
    <3>6. row \in Rates
      BY <1>0, <3>1, <3>4 DEF Rates
    <3>7. rate'[s] # Missing /\ rate'[s].expires = rate[s].expires /\ rate'[s].tokens = full
      BY <3>2, <3>6, MissingAssumption
    <3> QED BY <1>0, <2>1, <3>1, <3>4, <3>5, <3>7 DEF RateOK
  <2>3. CASE ~(s \in ScopesOf[i] /\ HeldWindow(i, s) # Missing)
    <3>1. rate'[s] = rate[s]
      BY <2>3 DEF Write
    <3> QED BY <1>0, <2>1, <3>1 DEF RateOK
  <2> QED BY <2>2, <2>3
<1>4. ASSUME NEW s \in Scopes, NEW t \in Times PROVE WindowOK(s, t)'
  <2>1. WindowOK(s, t) /\ t \in Nat /\ window[s][t] \in Windows \union {Missing}
    <3>1. WindowOK(s, t)
      BY DEF WindowsInv
    <3>2. t \in Nat
      BY Numbers DEF Times
    <3>3. window[s][t] \in Windows \union {Missing}
      BY DEF BudgetInv, BudgetTypeOK
    <3> QED BY <3>1, <3>2, <3>3
  <2>2. /\ In(s, t)' = In(s, t) /\ Holding(s, t)' = Holding(s, t) \ {i} /\ i \notin Committed(s, t)
        /\ IF state = "COMMITTED" /\ i \in In(s, t)
           THEN Committed(s, t)' = Committed(s, t) \union {i}
           ELSE Committed(s, t)' = Committed(s, t)
    BY WriteIn
  <2>3. i \in In(s, t) <=> s \in ScopesOf[i] /\ Start(s, record[i].at) = t
    BY DEF In, Held
  <2>4. Units(Amount, Holding(s, t))' = Units(Amount, Holding(s, t) \ {i})
        /\ Units(charged, Committed(s, t))' = Units(charged, Committed(s, t)')
    BY <1>0, <2>2 DEF Units
  <2>5. CASE window[s][t] = Missing
    <3>1. window'[s][t] = Missing
      BY <1>0, <2>5, WindowStart DEF Write, HeldWindow, BudgetInv, BudgetTypeOK
    <3> QED BY <1>0, <2>1, <2>2, <2>5, <3>1 DEF WindowOK
  <2>6. CASE window[s][t] # Missing /\ i \notin In(s, t)
    <3>1. window'[s][t] = window[s][t]
      BY <1>0, <2>3, <2>6, WindowStart DEF Write, HeldWindow, BudgetInv, BudgetTypeOK
    <3>2. Holding(s, t)' = Holding(s, t) /\ Committed(s, t)' = Committed(s, t)
      BY <2>2, <2>6 DEF Holding
    <3>3. Units(Amount, Holding(s, t))' = Units(Amount, Holding(s, t))
          /\ Units(charged, Committed(s, t))' = Units(charged, Committed(s, t))
      BY <1>0, <3>2 DEF Units
    <3> QED BY <1>3, <2>1, <2>6, <3>1, <3>3 DEF WindowOK
  <2>7. CASE window[s][t] # Missing /\ i \in In(s, t)
    <3> DEFINE w == window[s][t]
               row == [used |-> w.used + actual, held |-> Max({0, w.held - Amount[i]}),
                       expires |-> w.expires]
    <3>1. w \in Windows /\ s \in ScopesOf[i] /\ Start(s, record[i].at) = t /\ HeldWindow(i, s) = w
      BY <2>1, <2>3, <2>7 DEF HeldWindow
    <3>2. window'[s][t] = row
      <4>1. window'[s] = [window[s] EXCEPT ![t].used = @ + actual,
                                           ![t].held = Max({0, @ - Amount[i]})]
        BY <2>7, <3>1 DEF Write
      <4>2. window[s] \in [Times -> Windows \union {Missing}]
        BY DEF BudgetInv, BudgetTypeOK
      <4>3. w = [used |-> w.used, held |-> w.held, expires |-> w.expires]
        BY <3>1 DEF Windows
      <4> QED BY <4>1, <4>2, <4>3
    <3>3. /\ w.held = Cardinality(Units(Amount, Holding(s, t)))
          /\ w.used >= Cardinality(Units(charged, Committed(s, t)))
          /\ w.expires >= t + Seconds[s] + Retention
          /\ rate[s] # Missing /\ w.expires <= rate[s].expires
      BY <2>1, <2>7 DEF WindowOK
    <3>4. i \in Holding(s, t)
      BY <2>7 DEF Holding, Holders
    <3>5. /\ w.held >= Amount[i] /\ w.held \in Nat
          /\ Cardinality(Units(Amount, Holding(s, t) \ {i})) = w.held - Amount[i]
      BY <3>1, <3>3, <3>4, InIds, Numbers, UnitsRemoved DEF Windows
    <3>6. Max({0, w.held - Amount[i]}) = w.held - Amount[i]
      <4> DEFINE b == w.held - Amount[i]
      <4>1. b \in Nat
        BY <1>0, <3>5
      <4> HIDE DEF b
      <4>2. Max({0, b}) \in {0, b} /\ Max({0, b}) >= b /\ Max({0, b}) >= 0
        <5>1. \E x \in {0, b} : \A y \in {0, b} : x >= y
          BY <4>1
        <5> QED BY <5>1 DEF Max
      <4>3. Max({0, b}) = b
        BY <4>1, <4>2
      <4> QED BY <4>3 DEF b
    <3>7. /\ row.used \in Nat /\ row.held \in Nat /\ row.expires \in Nat
      BY <1>0, <3>1, <3>5, <3>6 DEF Windows
    <3>8. window'[s][t] # Missing
      <4>1. row \in Windows
        BY <3>7 DEF Windows
      <4> QED BY <3>2, <4>1, MissingAssumption
    <3>9. w.used + actual >= Cardinality(Units(charged, Committed(s, t)'))
      <4>1. Cardinality(Units(charged, Committed(s, t))) \in Nat /\ w.used \in Nat
        BY <1>0, <3>1, InIds, UnitsType DEF Windows
      <4>2. CASE state = "COMMITTED"
        <5>1. Committed(s, t)' = Committed(s, t) \union {i} /\ actual = charged[i]
          BY <2>2, <2>7, <4>2
        <5>2. Cardinality(Units(charged, Committed(s, t) \union {i}))
                = Cardinality(Units(charged, Committed(s, t))) + charged[i]
          BY <1>0, <2>2, InIds, UnitsAdded
        <5> QED BY <3>3, <4>1, <5>1, <5>2
      <4>3. CASE state # "COMMITTED"
        <5>1. Committed(s, t)' = Committed(s, t)
          BY <2>2, <4>3
        <5> QED BY <3>3, <4>1, <5>1
      <4> QED BY <4>2, <4>3
    <3>10. /\ window'[s][t].used = w.used + actual /\ window'[s][t].held = w.held - Amount[i]
           /\ window'[s][t].expires = w.expires
      BY <3>2, <3>6
    <3>11. rate'[s] # Missing /\ w.expires <= rate'[s].expires
      BY <1>3, <3>3
    <3> HIDE DEF w, row
    <3>12. /\ window'[s][t].expires >= t + Seconds[s] + Retention
           /\ rate'[s] # Missing /\ window'[s][t].expires <= rate'[s].expires
           /\ window'[s][t].held = Cardinality(Units(Amount, Holding(s, t)))'
           /\ window'[s][t].used >= Cardinality(Units(charged, Committed(s, t)))'
      BY <2>4, <3>3, <3>5, <3>9, <3>10, <3>11
    <3> QED BY <3>8, <3>12 DEF WindowOK
  <2> QED BY <2>5, <2>6, <2>7
<1> QED BY <1>1, <1>3, <1>4 DEF WindowsInv

LEMMA InitWindows == Init => WindowsInv
<1> SUFFICES ASSUME Init PROVE WindowsInv
  OBVIOUS
<1>1. \A s, t : In(s, t) = {}
  BY DEF Init, In
<1> QED BY <1>1 DEF Init, WindowsInv, RateOK, WindowOK, Timely

LEMMA StepWindows ==
  ASSUME BudgetInv, WindowsInv, [Next]_vars
  PROVE  WindowsInv'
<1>0. ASSUME UNCHANGED <<now, charged, record, window, rate>>, \A i \in Ids : Timely(i)'
      PROVE  WindowsInv'
  BY <1>0, QuietWindows DEF WindowsInv
<1>1. CASE Tick
  BY <1>1, TickWindows
<1>2. ASSUME NEW i \in Ids, Ask(i)
      PROVE  WindowsInv'
  <2>1. UNCHANGED <<now, charged, record, window, rate>> /\ now \in Nat
    BY <1>2 DEF Ask, resources, BudgetInv, BudgetTypeOK, Times
  <2>2. ASSUME NEW k \in Ids PROVE Timely(k)'
    <3>1. CASE k = i
      <4>1. request'[i].at = now
        BY <1>2 DEF Ask, BudgetInv, BudgetTypeOK
      <4> QED BY <2>1, <3>1, <4>1, Numbers DEF Timely
    <3>2. CASE k # i
      <4>1. request'[k] = request[k]
        BY <1>2, <3>2 DEF Ask, BudgetInv, BudgetTypeOK
      <4> QED BY <2>1, <4>1 DEF WindowsInv, Timely
    <3> QED BY <3>1, <3>2
  <2> QED BY <1>0, <2>1, <2>2
<1>3. ASSUME NEW i \in Ids, Reserve(i)
      PROVE  WindowsInv'
  BY <1>3, ReserveWindows
<1>4. ASSUME NEW i \in Ids, Refuse(i)
      PROVE  WindowsInv'
  <2>1. UNCHANGED <<now, charged, record, window, rate>>
    BY <1>4 DEF Refuse, resources
  <2>2. ASSUME NEW k \in Ids PROVE Timely(k)'
    <3>1. request'[k] = Missing \/ request'[k] = request[k]
      BY <1>4 DEF Refuse, BudgetInv, BudgetTypeOK
    <3> QED BY <2>1, <3>1 DEF WindowsInv, Timely
  <2> QED BY <1>0, <2>1, <2>2
<1>5. ASSUME NEW i \in Ids, Charge(i)
      PROVE  WindowsInv'
  <2>1. UNCHANGED <<now, request>>
    BY <1>5 DEF Charge
  <2>2. \A k \in Ids : Timely(k)'
    BY <2>1 DEF WindowsInv, Timely
  <2> QED BY <1>5, <2>2, ChargeWindows DEF WindowsInv
<1>6. ASSUME NEW i \in Ids, Finish(i)
      PROVE  WindowsInv'
  <2>1. charged[i] \in Nat /\ charged[i] <= Amount[i]
    BY DEF BudgetInv, BudgetTypeOK
  <2>2. Held(i) /\ \A s \in ScopesOf[i] : HeldWindow(i, s) # Missing
    BY <1>6 DEF Finish, Owned
  <2>3. CASE charged[i] > 0
    <3>1. Write(i, "COMMITTED", charged[i])
      BY <1>6, <2>3 DEF Finish
    <3> QED BY <2>1, <2>2, <3>1, WriteWindows
  <2>4. CASE ~(charged[i] > 0)
    <3>1. Write(i, "RELEASED", charged[i])
      BY <1>6, <2>4 DEF Finish
    <3> QED BY <2>1, <2>2, <3>1, WriteWindows
  <2> QED BY <2>3, <2>4
<1>7. ASSUME NEW i \in Ids, Expire(i)
      PROVE  WindowsInv'
  <2>1. Held(i) /\ Write(i, "EXPIRED", 0) /\ 0 <= Amount[i]
    BY <1>7, Numbers DEF Expire
  <2> QED BY <2>1, WriteWindows
<1>8. ASSUME NEW s \in Scopes, NEW p \in PoliciesOf[s], Override(s, p)
      PROVE  WindowsInv'
  <2>1. UNCHANGED <<now, request, charged, record, window, rate>>
    BY <1>8 DEF Override, resources
  <2>2. \A k \in Ids : Timely(k)'
    BY <2>1 DEF WindowsInv, Timely
  <2> QED BY <1>0, <2>1, <2>2
<1>9. CASE UNCHANGED vars
  <2>1. UNCHANGED <<now, request, charged, record, window, rate>>
    BY <1>9 DEF vars
  <2>2. \A k \in Ids : Timely(k)'
    BY <2>1 DEF WindowsInv, Timely
  <2> QED BY <1>0, <2>1, <2>2
<1> QED BY <1>1, <1>2, <1>3, <1>4, <1>5, <1>6, <1>7, <1>8, <1>9 DEF Next

----------------------------------------------------------------------------
(****************************************************************************)
(* The invariant holds, and what follows from it.                           *)
(****************************************************************************)
LEMMA InitBudgetInv == Init => BudgetInv
<1> SUFFICES ASSUME Init PROVE BudgetInv
  OBVIOUS
<1>1. BudgetTypeOK
  BY BudgetAssumption DEF Init, BudgetTypeOK, Times
<1>2. \A i \in Ids : charged[i] <= Amount[i]
  BY BudgetAssumption DEF Init
<1>3. Holders = {}
  BY DEF Init, Holders, Held
<1>4. PlacesExact
  BY <1>3 DEF Init, PlacesExact
<1>5. CapOK
  BY <1>3, FS_EmptySet, BudgetAssumption DEF CapOK
<1> QED BY <1>1, <1>2, <1>4, <1>5 DEF BudgetInv

LEMMA StepBudgetInv ==
  ASSUME BudgetInv, [Next]_vars
  PROVE  BudgetInv'
<1>0. BudgetTypeOK /\ \A k \in Ids : charged[k] <= Amount[k]
  BY DEF BudgetInv
<1>1. CASE Tick
  <2>1. UNCHANGED <<charged, record, members, everywhere, active>>
    BY <1>1 DEF Tick
  <2> QED BY <1>0, <1>1, <2>1, TickTyped, QuietPlaces DEF BudgetInv
<1>2. ASSUME NEW i \in Ids, Ask(i)
      PROVE  BudgetInv'
  <2>1. UNCHANGED <<charged, record, members, everywhere, active>>
    BY <1>2 DEF Ask, resources
  <2> QED BY <1>0, <1>2, <2>1, AskTyped, QuietPlaces DEF BudgetInv
<1>3. ASSUME NEW i \in Ids, Reserve(i)
      PROVE  BudgetInv'
  <2>1. UNCHANGED charged
    BY <1>3 DEF Reserve
  <2> QED BY <1>0, <1>3, <2>1, ReserveTyped, ReservePlaces, ReserveCap DEF BudgetInv
<1>4. ASSUME NEW i \in Ids, Refuse(i)
      PROVE  BudgetInv'
  <2>1. UNCHANGED <<now, policy, ledger, charged, record, window, rate, members,
                    everywhere, active>>
    BY <1>4 DEF Refuse, resources
  <2>2. request' \in [Ids -> Requests \union {Missing}]
    BY <1>0, <1>4 DEF Refuse, BudgetTypeOK
  <2>3. BudgetTypeOK'
    BY <1>0, <2>1, <2>2 DEF BudgetTypeOK
  <2> QED BY <1>0, <2>1, <2>3, QuietPlaces DEF BudgetInv
<1>5. ASSUME NEW i \in Ids, Charge(i)
      PROVE  BudgetInv'
  <2>1. UNCHANGED <<record, members, everywhere, active>>
    BY <1>5 DEF Charge, resources
  <2> QED BY <1>0, <1>5, <2>1, ChargeTyped, QuietPlaces DEF BudgetInv
<1>6. ASSUME NEW i \in Ids, Finish(i) \/ Expire(i)
      PROVE  BudgetInv'
  <2>1. PICK state \in {"COMMITTED", "RELEASED", "EXPIRED"}, actual \in Nat :
          Held(i) /\ actual <= Amount[i] /\ Write(i, state, actual)
    BY <1>6, Settlement
  <2>2. BudgetTypeOK'
    BY <1>0, <2>1, WriteTyped
  <2>3. PlacesExact' /\ CapOK'
    BY <2>1, WriteHolders
  <2>4. UNCHANGED charged
    BY <2>1 DEF Write
  <2> QED BY <1>0, <2>2, <2>3, <2>4 DEF BudgetInv
<1>7. ASSUME NEW s \in Scopes, NEW p \in PoliciesOf[s], Override(s, p)
      PROVE  BudgetInv'
  <2>1. UNCHANGED <<charged, record, members, everywhere, active>>
    BY <1>7 DEF Override, resources
  <2> QED BY <1>0, <1>7, <2>1, OverrideTyped, QuietPlaces DEF BudgetInv
<1>8. CASE UNCHANGED vars
  <2>1. BudgetTypeOK'
    BY <1>0, <1>8 DEF vars, resources, BudgetTypeOK
  <2>2. UNCHANGED <<charged, record, members, everywhere, active>>
    BY <1>8 DEF vars
  <2> QED BY <1>0, <2>1, <2>2, QuietPlaces DEF BudgetInv
<1> QED BY <1>1, <1>2, <1>3, <1>4, <1>5, <1>6, <1>7, <1>8 DEF Next

\* The inductive invariant of the budget store, with stale requests, overrides
\* and expiring keys.
THEOREM BudgetInvariance == Spec => []BudgetInv
<1>1. Init => BudgetInv
  BY InitBudgetInv
<1>2. BudgetInv /\ [Next]_vars => BudgetInv'
  BY StepBudgetInv
<1> QED BY <1>1, <1>2, PTL DEF Spec

\* No window, bucket or receipt is ever written with a negative count, which
\* every later read of the key would refuse.
THEOREM BudgetTypeCorrect == Spec => []BudgetTypeOK
<1>1. BudgetInv => BudgetTypeOK
  BY DEF BudgetInv
<1> QED BY <1>1, BudgetInvariance, PTL

\* The concurrency sets and the index hold the live reservations and no others,
\* also when the window a reservation was made in has been forgotten.
THEOREM PlacesCorrect == Spec => []PlacesExact
<1>1. BudgetInv => PlacesExact
  BY DEF BudgetInv
<1> QED BY <1>1, BudgetInvariance, PTL

\* Places, index and windows together: what every later read relies on.
THEOREM BudgetConsistent == Spec => []BudgetSound
<1>1. BudgetInv => BudgetSound
  BY DEF BudgetInv, BudgetSound
<1> QED BY <1>1, BudgetInvariance, PTL

\* Live reservations never exceed the global concurrency.
THEOREM CapRespected == Spec => [](Cardinality(Holders) <= GlobalLimit)
<1>1. BudgetInv => Cardinality(Holders) <= GlobalLimit
  BY DEF BudgetInv, CapOK
<1> QED BY <1>1, BudgetInvariance, PTL

\* A reservation is granted only within the concurrency of every policy that it
\* was requested under, counting those granted since the request was read.
ConcurrencyHolds ==
  [][\A i \in Ids : record[i] = Missing /\ record'[i] # Missing =>
       \A s \in ScopesOf[i] :
         Cardinality({h \in Holders' : s \in ScopesOf[h]})
           <= record'[i].policy[s].concurrency]_vars

\* Only Reserve adds a record, and only a settlement changes one that is there.
LEMMA RecordChange ==
  ASSUME BudgetInv, [Next]_vars, NEW i \in Ids, record'[i] # record[i]
  PROVE  (Reserve(i) /\ record[i] = Missing) \/ Held(i)
<1>1. ASSUME NEW k \in Ids, Reserve(k)
      PROVE  k = i /\ record[i] = Missing
  <2>1. \A j \in Ids \ {k} : record'[j] = record[j]
    BY <1>1, ReserveHolders
  <2>2. record[k] = Missing
    BY <1>1 DEF Reserve, Grantable
  <2> QED BY <2>1, <2>2
<1>2. ASSUME NEW k \in Ids, Finish(k) \/ Expire(k)
      PROVE  Held(i)
  <2>1. PICK state \in {"COMMITTED", "RELEASED", "EXPIRED"}, actual \in Nat :
          Held(k) /\ Write(k, state, actual)
    BY <1>2, Settlement
  <2>2. \A j \in Ids \ {k} : record'[j] = record[j]
    BY <2>1, WriteHolders
  <2> QED BY <2>1, <2>2
<1> QED BY <1>1, <1>2
        DEF Next, Tick, Ask, Refuse, Charge, Override, vars, resources

\* Concurrency is never exceeded by a grant, whatever others do meanwhile.
THEOREM ConcurrencyRespected == Spec => ConcurrencyHolds
<1>1. BudgetInv /\ [Next]_vars =>
        [\A i \in Ids : record[i] = Missing /\ record'[i] # Missing =>
           \A s \in ScopesOf[i] :
             Cardinality({h \in Holders' : s \in ScopesOf[h]})
               <= record'[i].policy[s].concurrency]_vars
  <2>1. ASSUME BudgetInv, [Next]_vars, NEW i \in Ids,
               record[i] = Missing, record'[i] # Missing
        PROVE  \A s \in ScopesOf[i] :
                 Cardinality({h \in Holders' : s \in ScopesOf[h]})
                   <= record'[i].policy[s].concurrency
    <3>1. Reserve(i)
      BY <2>1, RecordChange DEF Held
    <3> QED BY <2>1, <3>1, ReserveCap
  <2> QED BY <2>1
<1> QED BY <1>1, BudgetInvariance, PTL DEF Spec, ConcurrencyHolds

\* A reservation that was committed, released or expired is never settled,
\* released or acquired again: not by a replayed receipt, not by a late sweep.
THEOREM SettledForGood == Spec => SettledOnce
<1>1. BudgetInv /\ [Next]_vars =>
        [\A i \in Ids : record[i] # Missing /\ ~Held(i) => record'[i] = record[i]]_vars
  <2>1. ASSUME BudgetInv, [Next]_vars, NEW i \in Ids, record[i] # Missing, ~Held(i)
        PROVE  record'[i] = record[i]
    BY <2>1, RecordChange
  <2> QED BY <2>1
<1> QED BY <1>1, BudgetInvariance, PTL DEF Spec, SettledOnce

----------------------------------------------------------------------------
(****************************************************************************)
(* What the windows say of reservations and requests.                       *)
(****************************************************************************)

\* Windows hold what live reservations need, in every reachable state.
THEOREM WindowsInvariance == Spec => []WindowsInv
<1>1. Init => WindowsInv
  BY InitWindows
<1>2. BudgetInv /\ WindowsInv /\ [Next]_vars => WindowsInv'
  BY StepWindows
<1> QED BY <1>1, <1>2, BudgetInvariance, PTL DEF Spec

\* A reservation is requested and made within the lifetime of its job.
LivedInv ==
  \A i \in Ids :
    /\ request[i] # Missing => Deadline[i] <= request[i].at + Lifetime
    /\ record[i] # Missing => Deadline[i] <= record[i].at + Lifetime

LEMMA StepLived ==
  ASSUME BudgetInv, LivedInv, [Next]_vars
  PROVE  LivedInv'
<1> SUFFICES ASSUME NEW i \in Ids
             PROVE  /\ (request[i] # Missing)' => Deadline[i] <= request'[i].at + Lifetime
                    /\ (record[i] # Missing)' => Deadline[i] <= record'[i].at + Lifetime
  BY DEF LivedInv
<1>1. CASE request'[i] # request[i] /\ request'[i] # Missing
  <2>1. ASSUME NEW k \in Ids, Ask(k) PROVE Deadline[i] <= request'[i].at + Lifetime
    <3>1. k = i
      BY <1>1, <2>1 DEF Ask, BudgetInv, BudgetTypeOK
    <3>2. request'[i].at = now
      BY <2>1, <3>1 DEF Ask, BudgetInv, BudgetTypeOK
    <3> QED BY <2>1, <3>1, <3>2 DEF Ask
  <2>2. \A k \in Ids : ~Reserve(k) /\ ~Refuse(k)
    BY <1>1 DEF Reserve, Refuse, BudgetInv, BudgetTypeOK
  <2>3. \E k \in Ids : Ask(k)
    BY <1>1, <2>2 DEF Next, Tick, Charge, Finish, Expire, Write, Override, vars
  <2>4. record'[i] = record[i]
    BY <2>3 DEF Ask, resources
  <2> QED BY <2>1, <2>3, <2>4 DEF LivedInv
<1>2. CASE record'[i] # record[i] /\ (request'[i] = request[i] \/ request'[i] = Missing)
  <2>1. CASE Reserve(i)
    <3>1. record'[i].at = request[i].at /\ request[i] # Missing
      BY <2>1 DEF Reserve, BudgetInv, BudgetTypeOK
    <3> QED BY <1>2, <3>1 DEF LivedInv
  <2>2. CASE Held(i)
    <3>1. record'[i].at = record[i].at /\ record[i] # Missing
      <4>1. ASSUME NEW k \in Ids, Finish(k) \/ Expire(k) PROVE record'[i].at = record[i].at
        <5>1. PICK state : record' = [record EXCEPT ![k].state = state]
          BY <4>1 DEF Finish, Expire, Write
        <5> QED BY <2>2, <5>1 DEF BudgetInv, BudgetTypeOK, Records, Held
      <4>2. \E k \in Ids : Finish(k) \/ Expire(k) \/ Reserve(k)
        BY <1>2 DEF Next, Tick, Ask, Refuse, Charge, Override, vars, resources
      <4>3. ASSUME NEW k \in Ids, Reserve(k) PROVE FALSE
        <5>1. record'[i] = record[i]
          BY <2>2, <4>3, ReserveHolders DEF Held
        <5> QED BY <1>2, <5>1
      <4> QED BY <2>2, <4>1, <4>2, <4>3 DEF Held
    <3> QED BY <1>2, <3>1 DEF LivedInv
  <2> QED BY <1>2, <2>1, <2>2, RecordChange
<1>3. CASE record'[i] = record[i] /\ (request'[i] = request[i] \/ request'[i] = Missing)
  BY <1>3 DEF LivedInv
<1> QED BY <1>1, <1>2, <1>3

\* A reservation is of a job that had not outlived its lifetime when it was asked for.
THEOREM LivedInvariance == Spec => []LivedInv
<1>1. Init => LivedInv
  BY DEF Init, LivedInv
<1>2. BudgetInv /\ LivedInv /\ [Next]_vars => LivedInv'
  BY StepLived
<1> QED BY <1>1, <1>2, BudgetInvariance, PTL DEF Spec

LEMMA HeldAddsUp == WindowsInv => HeldExact
BY DEF WindowsInv, WindowOK, HeldExact

\* A live reservation that is not yet stale owns all that its settlement
\* verifies: its windows are kept a retention past their end.
LEMMA Settles ==
  ASSUME FixedBursts, BudgetInv, WindowsInv, NEW i \in Ids, Held(i),
         LivedInv, now <= Deadline[i] + Grace
  PROVE  Owned(i)
<1>0. /\ record[i].at \in Times /\ record[i].policy \in Resolved
      /\ now \in Nat /\ PlacesExact /\ i \in Holders
  BY Numbers DEF Held, Holders, BudgetInv, BudgetTypeOK, Records, Times
<1>1. i \in active /\ i \in everywhere
  BY <1>0 DEF PlacesExact
<1>2. ASSUME NEW s \in ScopesOf[i]
      PROVE  /\ HeldWindow(i, s) # Missing
             /\ HeldWindow(i, s).held >= Amount[i]
             /\ rate[s] # Missing
             /\ rate[s].tokens <= record[i].policy[s].burst * Seconds[s]
             /\ i \in members[s]
  <2> DEFINE t == Start(s, record[i].at)
  <2>0. s \in Scopes /\ t \in Times /\ HeldWindow(i, s) = window[s][t]
    BY <1>0, Numbers, WindowStart DEF HeldWindow
  <2>1. i \in In(s, t) /\ i \in Holding(s, t)
    BY <1>0 DEF In, Holding, Held
  <2>2. WindowOK(s, t) /\ RateOK(s)
    BY <2>0 DEF WindowsInv
  <2> HIDE DEF t
  <2>3. window[s][t] # Missing
    <3>1. t \in Nat
      BY <2>0, Numbers DEF Times
    <3>2. /\ Deadline[i] \in Nat /\ Lifetime \in Nat /\ Lifetime + Grace <= Retention
          /\ Deadline[i] <= record[i].at + Lifetime
      BY BudgetAssumption, RetentionAssumption DEF LivedInv, Held
    <3>3. record[i].at < t + Seconds[s] /\ record[i].at \in Nat
      BY <1>0, <2>0, Numbers, WindowStart DEF t, Ends, Times
    <3>4. ~(now >= t + Seconds[s] + Retention)
      BY <1>0, <2>0, <3>1, <3>2, <3>3, Numbers
    <3> QED BY <2>1, <2>2, <3>4 DEF WindowOK
  <2>4. window[s][t].held >= Amount[i]
    BY <2>1, <2>2, <2>3, InIds, Numbers, UnitsRemoved DEF WindowOK
  <2>5. rate[s] # Missing
    BY <2>2, <2>3 DEF WindowOK
  <2>6. record[i].policy[s] \in PoliciesOf[s]
    BY <1>0, <2>0 DEF Resolved
  <2>7. rate[s].tokens <= record[i].policy[s].burst * Seconds[s]
    BY <2>2, <2>5, <2>6 DEF RateOK
  <2>8. i \in members[s]
    BY <1>0, <2>0 DEF PlacesExact
  <2> QED BY <2>0, <2>3, <2>4, <2>5, <2>7, <2>8
<1> QED BY <1>1, <1>2 DEF Owned

\* When no holder is stale or ahead of a request, whoever has a place in a scope
\* explains a window that is missing.
LEMMA Decided ==
  ASSUME FixedBursts, BudgetInv, WindowsInv, LivedInv, NEW i \in Ids, request[i] # Missing,
         \A h \in Holders : record[h].at <= request[i].at /\ now <= Deadline[h] + Grace
  PROVE  ~Unavailable(i)
<1>1. ASSUME NEW s \in ScopesOf[i], Asked(i, s) # Missing
      PROVE  rate[s] # Missing
  <2>1. s \in Scopes /\ Start(s, request[i].at) \in Times
    BY AskedWindow
  <2> QED BY <1>1, <2>1 DEF Asked, WindowsInv, WindowOK
<1>2. ASSUME NEW s \in ScopesOf[i], Asked(i, s) = Missing
      PROVE  ~(Cardinality(members[s]) > GlobalLimit) /\ \A h \in members[s] : Previous(i, s, h)
  <2>1. s \in Scopes /\ request[i].at \in Times
    BY AskedWindow
  <2>2. members[s] = {h \in Holders : s \in ScopesOf[h]}
    BY <2>1 DEF BudgetInv, PlacesExact
  <2>3. ~(Cardinality(members[s]) > GlobalLimit)
    <3>1. members[s] \subseteq Holders
      BY <2>2
    <3>2. Cardinality(members[s]) <= Cardinality(Holders) /\ Cardinality(members[s]) \in Nat
      <4>1. IsFiniteSet(Holders)
        BY HoldersFinite
      <4>2. IsFiniteSet(members[s]) /\ Cardinality(members[s]) <= Cardinality(Holders)
        BY <3>1, <4>1, FS_Subset
      <4> QED BY <4>2, FS_CardinalityType
    <3>3. Cardinality(Holders) <= GlobalLimit /\ Cardinality(Holders) \in Nat /\ GlobalLimit \in Nat
      BY HoldersFinite, BudgetAssumption DEF BudgetInv, CapOK
    <3> QED BY <3>2, <3>3
  <2>4. ASSUME NEW h \in members[s] PROVE Previous(i, s, h)
    <3>1. h \in Ids /\ Held(h) /\ s \in ScopesOf[h] /\ h \in Holders
      BY <2>2 DEF Holders
    <3>2. Owned(h)
      BY <3>1, Settles
    <3>3. record[h].at \in Times /\ record[h].at <= request[i].at
      BY <3>1 DEF Held, BudgetInv, BudgetTypeOK, Records
    <3>4. Start(s, record[h].at) # Start(s, request[i].at)
      BY <1>2, <3>1, <3>2 DEF Owned, HeldWindow, Asked
    <3>5. Ends(s, record[h].at) <= request[i].at
      BY <2>1, <3>3, <3>4, LaterWindow
    <3> QED BY <3>1, <3>2, <3>4, <3>5 DEF Previous
  <2> QED BY <2>3, <2>4
<1> QED BY <1>1, <1>2 DEF Unavailable

\* What a live reservation is settled from adds up and outlasts its owner, and a
\* request whose clock is not behind is decided, as long as overrides leave the
\* burst of a scope alone: verify_active_ownership compares the stored tokens
\* with the burst of the reservation's own policy, so that a larger burst that is
\* set meanwhile would have it refuse to settle.
THEOREM Reckoning ==
  ASSUME FixedBursts
  PROVE  Spec => []Reckoned
<1>1. BudgetInv /\ WindowsInv /\ LivedInv => Reckoned
  <2> SUFFICES ASSUME BudgetInv, WindowsInv, LivedInv PROVE Reckoned
    OBVIOUS
  <2>1. Settleable
    BY Settles DEF Settleable
  <2>2. DecidedInOrder
    BY Decided DEF DecidedInOrder
  <2> QED BY <2>1, <2>2, HeldAddsUp DEF Reckoned
<1> QED BY <1>1, BudgetInvariance, WindowsInvariance, LivedInvariance, PTL

\* Whatever overrides do, a window holds the estimates of its live reservations.
THEOREM HeldAmounts == Spec => []HeldExact
BY HeldAddsUp, WindowsInvariance, PTL

\* A grant counts what others hold and have consumed in the same window.
LEMMA ReserveSpends ==
  ASSUME BudgetInv, WindowsInv, NEW i \in Ids, Reserve(i), NEW s \in ScopesOf[i],
         NEW t, t = Start(s, request[i].at)
  PROVE  Spent(s, t)' <= request[i].policy[s].limit
<1>1. request[i] # Missing /\ Fits(i, s)
  BY DEF Reserve, Grantable
<1>2. /\ s \in Scopes /\ t \in Times /\ HeldAmount(i, s) = Cardinality(Units(Amount, Holding(s, t)))
      /\ Used(i, s) \in Nat /\ Used(i, s) >= Cardinality(Units(charged, Committed(s, t)))
  BY <1>1, AskedWindow
<1>3. /\ Committed(s, t)' = Committed(s, t) /\ Holding(s, t)' = Holding(s, t) \union {i}
      /\ i \notin Holding(s, t)
  <2>1. i \notin In(s, t) /\ Committed(s, t)' = Committed(s, t) /\ Holding(s, t)' = Holding(s, t) \union {i}
    BY ReserveIn
  <2> QED BY <2>1 DEF Holding
<1>4. Units(charged, Committed(s, t))' = Units(charged, Committed(s, t))
      /\ Units(Amount, Holding(s, t))' = Units(Amount, Holding(s, t) \union {i})
  BY <1>3 DEF Reserve, Units
<1>5. Cardinality(Units(Amount, Holding(s, t) \union {i})) = HeldAmount(i, s) + Amount[i]
      /\ HeldAmount(i, s) \in Nat
  BY <1>2, <1>3, InIds, Numbers, UnitsAdded
<1>6. Cardinality(Units(charged, Committed(s, t))) \in Nat
  BY InIds, UnitsType DEF BudgetInv, BudgetTypeOK
<1>7. request[i].policy[s].limit \in Nat
  <2>1. request[i].policy \in Resolved
    BY <1>1 DEF BudgetInv, BudgetTypeOK, Requests
  <2> QED BY <1>2, <2>1, PolicyType DEF Limit
<1>8. Used(i, s) + HeldAmount(i, s) + Amount[i] <= request[i].policy[s].limit
  BY <1>1 DEF Fits, Limits
<1>9. Spent(s, t)' = (HeldAmount(i, s) + Amount[i]) + Cardinality(Units(charged, Committed(s, t)))
  BY <1>4, <1>5 DEF Spent
<1> QED BY <1>2, <1>5, <1>6, <1>7, <1>8, <1>9, Numbers

\* A reservation is granted only within the window's limit, its concurrency and
\* the global concurrency, whatever other reservations and overrides did between
\* the reading of its request and the grant.
THEOREM QuotaKept == Spec => QuotaHolds
<1>1. ASSUME BudgetInv, WindowsInv, [Next]_vars, NEW i \in Ids,
             record[i] = Missing, record'[i] # Missing
      PROVE  Affordable(i)'
  <2>1. Reserve(i)
    BY <1>1, RecordChange DEF Held
  <2>2. record'[i].at = request[i].at /\ record'[i].policy = request[i].policy
    BY <1>1, <2>1 DEF Reserve, BudgetInv, BudgetTypeOK
  <2>3. CapOK' /\ \A s \in ScopesOf[i] :
          Cardinality({h \in Holders' : s \in ScopesOf[h]}) <= record'[i].policy[s].concurrency
    BY <1>1, <2>1, ReserveCap
  <2>4. \A s \in ScopesOf[i] : \A t :
          t = Start(s, request[i].at) => Spent(s, t)' <= request[i].policy[s].limit
    BY <1>1, <2>1, ReserveSpends
  <2>5. \A s \in ScopesOf[i] : \A t :
          t = Start(s, record[i].at)' => Spent(s, t)' <= record'[i].policy[s].limit
    BY <2>2, <2>4 DEF Start
  <2>6. \A s \in ScopesOf[i] : Spent(s, Start(s, record[i].at))' <= record'[i].policy[s].limit
    BY <2>5
  <2> QED BY <2>3, <2>6 DEF Affordable, CapOK
<1>2. BudgetInv /\ WindowsInv /\ [Next]_vars =>
        [\A i \in Ids : record[i] = Missing /\ record'[i] # Missing => Affordable(i)']_vars
  BY <1>1
<1> QED BY <1>2, BudgetInvariance, WindowsInvariance, PTL DEF Spec, QuotaHolds

----------------------------------------------------------------------------
(***************************************************************************)
(* The access of a request.                                                *)
(***************************************************************************)

\* The features that a command offers.
Offered(c) == {Keys(c)[i] : i \in DOMAIN Keys(c)}

Stages == {"none", "checking", "screening", "role", "trust", "policy", "again", "authority", "live",
           "approval", "entered", "sender", "addressed", "authored", "current", "stamped", "captured",
           "subject", "bypass", "queued", "reserved", "running", "extracted", "gated", "cleared",
           "delivered"} \cup Ended

Screening == {"screening", "role", "trust", "policy", "again", "authority", "live", "approval"}
Admitting == {"addressed", "authored", "current", "stamped", "captured", "subject", "bypass"}
Working == {"queued", "reserved", "running", "extracted", "gated", "cleared"}

\* What is left to read of a group, and what was read of one that is there.
ReadingStages ==
  {<<<<"banned", "fresh", "blocker", "approved">>, {"active"}>>,
   <<<<"fresh", "blocker", "approved">>, {"active", "banned"}>>,
   <<<<"blocker", "approved">>, {"active", "banned", "fresh"}>>,
   <<<<"approved">>, {"active", "banned", "fresh", "blocker"}>>,
   <<<< >>, {"active", "banned", "fresh", "blocker", "approved"}>>}

PersonRow ==
  [active : BOOLEAN, gen : Nat \ {0}, admin : BOOLEAN, trusted : BOOLEAN, banned : BOOLEAN,
   local : BOOLEAN, evidence : BOOLEAN, entitled : BOOLEAN]
AccessGroupRow ==
  [active : BOOLEAN, gen : Nat \ {0}, banned : BOOLEAN, fresh : BOOLEAN,
   blocker : {"none", "admin", "unknown"}, approved : BOOLEAN, rights : BOOLEAN, supported : BOOLEAN]
StopKeys == {StopKey(f) : f \in Features}
SwitchRow ==
  [on : [Chats -> SUBSET Features], legacy : BOOLEAN, stopped : SUBSET StopKeys,
   epoch : [StopKeys -> Nat]]

FactsOK ==
  /\ person \in PersonRow /\ group \in AccessGroupRow /\ switches \in SwitchRow
  /\ overrides \subseteq {"user", "group"} \X (Nat \ {0}) \X KnownBuckets
  /\ changes \in 0..MaxChanges
  /\ met \subseteq Names /\ unmet \subseteq Names

Request(r) ==
  /\ r = [at |-> r.at, e |-> r.e, left |-> r.left, seen |-> r.seen, ok |-> r.ok,
          author |-> r.author, target |-> r.target, epoch |-> r.epoch, usage |-> r.usage, f |-> r.f]
  /\ r.at \in Stages \ {"none"} /\ r.e \in Events /\ r.ok \in BOOLEAN
  /\ r.author \in Nat /\ r.target \in Nat

\* A feature that was evaluated and refused did not hold, and one was
\* accepted only if it held.
Evaluated(r, m, u) ==
  /\ r.left \in Seq(Features) /\ Len(r.left) > 0
  /\ \A i \in DOMAIN r.left : r.left[i] \in Offered(r.e.command)
  /\ r.ok => \E f \in Offered(r.e.command) : f \in m
  /\ ~r.ok => \A f \in Offered(r.e.command) : f \in u \/ \E i \in DOMAIN r.left : r.left[i] = f

\* A reading of a group remembers what held when it read it, of a group that
\* was there when the reading began.
Remembered(r, n, name, good, m, u) ==
  n \in DOMAIN r.seen => IF r.seen[n] = good THEN name \in m ELSE name \in u

ReadSoFar(r, m, u) ==
  \/ r.left = Reads /\ r.seen = [n \in {"active"} |-> FALSE]
  \/ r.left = << >> /\ "active" \in DOMAIN r.seen /\ r.seen["active"] = FALSE /\ "present" \in u
  \/ /\ <<r.left, DOMAIN r.seen>> \in ReadingStages /\ r.seen["active"] = TRUE /\ "present" \in m
     /\ r.seen = [n \in DOMAIN r.seen |-> r.seen[n]]
     /\ Remembered(r, "banned", "unbanned", FALSE, m, u)
     /\ Remembered(r, "fresh", "fresh", TRUE, m, u)
     /\ Remembered(r, "blocker", "clear", "none", m, u)
     /\ Remembered(r, "approved", "approved", TRUE, m, u)
     /\ "blocker" \in DOMAIN r.seen => r.seen["blocker"] \in {"none", "admin", "unknown"}
     /\ \A n \in {"banned", "fresh", "approved"} \cap DOMAIN r.seen : r.seen[n] \in BOOLEAN

\* What a screened command has passed.
Screened(r, m, u) ==
  /\ r.at \in Screening => r.e.command \in Plain /\ (r.e.chat = "group" => r.e.command # "admin")
  /\ r.at \in {"role", "trust"} => r.e.chat = "private" /\ "free" \in m
  /\ r.at = "trust" => r.e.command = "help" /\ "admin" \in u
  /\ r.at \in {"policy", "again", "authority", "live", "approval"} =>
       r.e.chat = "group" /\ (r.e.actor => "free" \in m)
  /\ r.at \in {"policy", "approval"} => ReadSoFar(r, m, u)
  /\ r.at \in {"again", "authority", "live", "approval"} =>
       /\ {"present", "unbanned"} \subseteq m
       /\ r.e.command = "settings" => {"fresh", "clear"} \subseteq m
  /\ r.at \in {"live", "approval"} => r.e.command = "settings" /\ (r.e.actor => "admin" \in u)
  /\ r.at = "approval" => r.e.actor /\ "local" \in m

\* Whom a request is charged to, as it was read.
Charging(r, m, u) ==
  /\ r.at \in {"subject", "bypass"} =>
       /\ r.usage = [kind |-> SubjectKind(r.e), gen |-> r.usage.gen, trusted |-> r.usage.trusted]
       /\ r.usage.trusted \in BOOLEAN
       /\ r.usage.trusted => Direct(r.e) /\ "trusted" \in m
       /\ Direct(r.e) => r.e.actor /\ (~r.usage.trusted => "trusted" \in u)
  /\ r.at = "bypass" /\ r.ok => Direct(r.e) /\ "admin" \in m

\* What a request of a feature has passed.
Admitted(r, m, u) ==
  /\ r.at \in {"checking", "sender"} \cup Admitting \cup Working => r.e.command \notin Plain
  /\ r.at \in {"checking", "stamped"} => Evaluated(r, m, u)
  /\ r.at = "checking" => ~r.ok
  /\ r.at \in Admitting \cup Working => r.target > 0
  /\ r.at \in Admitting \ {"addressed"} => "author" \in m
  /\ r.at \in Admitting \ {"addressed", "authored"} => "same" \in m
  /\ r.at \in {"captured", "subject", "bypass"} => \E f \in Offered(r.e.command) : f \in m
  /\ r.at \in {"extracted", "gated", "cleared"} =>
       r.f \in Captures /\ r.e.command = "media"
  /\ r.at \in {"gated", "cleared"} => "same" \in m
  /\ r.at = "cleared" => r.f \in m

RequestOK(r, m, u) ==
  r = Nowhere \/ (Request(r) /\ Screened(r, m, u) /\ Charging(r, m, u) /\ Admitted(r, m, u))

AccessInv == FactsOK /\ RequestOK(req, met, unmet)

(***************************************************************************)
(* What holds after a step, name by name: the history records exactly this.*)
(***************************************************************************)
LEMMA Recorded ==
  /\ Satisfied' \subseteq Names
  /\ "free" \in Satisfied' <=> ~person'.banned
  /\ "admin" \in Satisfied' <=> person'.active /\ person'.admin
  /\ "trusted" \in Satisfied' <=> person'.active /\ person'.trusted
  /\ "local" \in Satisfied' <=> person'.local
  /\ "present" \in Satisfied' <=> group'.active
  /\ "unbanned" \in Satisfied' <=> ~group'.banned
  /\ "fresh" \in Satisfied' <=> group'.fresh
  /\ "clear" \in Satisfied' <=> group'.blocker = "none"
  /\ "approved" \in Satisfied' <=> group'.approved
  /\ "same" \in Satisfied' <=> (req'.target = 0 \/ SameTarget')
  /\ "author" \in Satisfied' <=> SameAuthor'
  /\ "given" \in Satisfied' <=> (req'.e.command \notin Plain /\ Given(req.e)')
  /\ \A n \in Features : n \in Satisfied' <=> Usable(n, req.e)'
<1>0. AccessAssumption
  BY AccessAssumption
<1>1. Satisfied' \subseteq Names
  BY DEF Satisfied
<1>2. "free" \in Satisfied' <=> ~person'.banned
  BY <1>0 DEF Satisfied, Names, AccessAssumption, Words
<1>3. "admin" \in Satisfied' <=> person'.active /\ person'.admin
  BY <1>0 DEF Satisfied, Names, AccessAssumption, Words, BotAdmin
<1>4. "trusted" \in Satisfied' <=> person'.active /\ person'.trusted
  BY <1>0 DEF Satisfied, Names, AccessAssumption, Words
<1>5. "local" \in Satisfied' <=> person'.local
  BY <1>0 DEF Satisfied, Names, AccessAssumption, Words
<1>6. "present" \in Satisfied' <=> group'.active
  BY <1>0 DEF Satisfied, Names, AccessAssumption, Words
<1>7. "unbanned" \in Satisfied' <=> ~group'.banned
  BY <1>0 DEF Satisfied, Names, AccessAssumption, Words
<1>8. "fresh" \in Satisfied' <=> group'.fresh
  BY <1>0 DEF Satisfied, Names, AccessAssumption, Words
<1>9. "clear" \in Satisfied' <=> group'.blocker = "none"
  BY <1>0 DEF Satisfied, Names, AccessAssumption, Words
<1>10. "approved" \in Satisfied' <=> group'.approved
  BY <1>0 DEF Satisfied, Names, AccessAssumption, Words
<1>11. "same" \in Satisfied' <=> (req'.target = 0 \/ SameTarget')
  BY <1>0 DEF Satisfied, Names, AccessAssumption, Words
<1>12. "author" \in Satisfied' <=> SameAuthor'
  BY <1>0 DEF Satisfied, Names, AccessAssumption, Words
<1>13. "given" \in Satisfied' <=> (req'.e.command \notin Plain /\ Given(req.e)')
  BY <1>0 DEF Satisfied, Names, AccessAssumption, Words
<1>14. ASSUME NEW n \in Features PROVE n \in Satisfied' <=> Usable(n, req.e)'
  BY <1>0 DEF Satisfied, Names, AccessAssumption, Words
<1> QED BY <1>1, <1>2, <1>3, <1>4, <1>5, <1>6, <1>7, <1>8, <1>9, <1>10, <1>11, <1>12, <1>13, <1>14

----------------------------------------------------------------------------
LEMMA CapturesAreFeatures == Captures \subseteq Features
<1>1. Splits \in Seq(Features)
  BY AccessAssumption DEF AccessAssumption
<1>2. \A i \in DOMAIN Splits : Splits[i] \in Features
  BY <1>1
<1> QED BY <1>2 DEF Captures

\* Commands offer features or nothing at all.
LEMMA Offers ==
  ASSUME NEW c \in Commands
  PROVE  /\ Keys(c) \in Seq(Features)
         /\ Keys(c) = << >> <=> c \in Plain
         /\ Offered(c) \subseteq Features
         /\ \A f \in Offered(c) : StopKey(f) = c
<1>0. AccessAssumption
  BY AccessAssumption
<1>1. Captures \subseteq Features
  BY CapturesAreFeatures
<1>2. CASE c = "media"
  <2>1. Keys(c) = Splits
    BY <1>2 DEF Keys
  <2>2. Offered(c) = Captures
    BY <2>1 DEF Offered, Captures
  <2>3. Splits \in Seq(Features) /\ Splits # << >>
    BY <1>0 DEF AccessAssumption
  <2> QED BY <1>1, <1>2, <2>1, <2>2, <2>3 DEF StopKey, Plain
<1>3. CASE c \in Plain
  <2>1. c \notin Features /\ c # "media"
    BY <1>0, <1>3 DEF AccessAssumption, Plain, Words
  <2>2. Keys(c) = << >>
    BY <2>1 DEF Keys
  <2> QED BY <1>3, <2>2 DEF Offered
<1>4. CASE c \in Features \ Captures
  <2>1. c # "media" /\ c \notin Plain
    BY <1>0, <1>4 DEF AccessAssumption, Plain, Words
  <2>2. Keys(c) = <<c>>
    BY <1>4, <2>1 DEF Keys
  <2>3. Offered(c) = {c}
    BY <2>2 DEF Offered
  <2> QED BY <1>4, <2>1, <2>2, <2>3 DEF StopKey
<1> QED BY <1>2, <1>3, <1>4 DEF Commands

\* What the one evaluation decides is what the documents demand.
LEMMA EvaluatesUsable ==
  ASSUME FactsOK, NEW f \in Features, NEW e \in Events
  PROVE  Evaluate(f, e, FALSE) <=> Usable(f, e)
<1>1. /\ e.chat \in Chats /\ e.actor \in BOOLEAN /\ e.trigger \in {"direct", "automatic"}
      /\ e.chat = "private" => e.actor
  BY DEF Events
<1>2. person \in PersonRow /\ group \in AccessGroupRow
  BY DEF FactsOK
<1>3. CASE e.chat = "private"
  BY <1>1, <1>2, <1>3 DEF Evaluate, Usable, EntryAllowed, PrivateDecision, BotAdmin, PersonRow
<1>4. CASE e.chat = "group"
  <2>1. GroupAccess = "allowed" <=>
          group.active /\ ~group.banned /\ group.fresh /\ group.blocker = "none" /\ group.approved
    BY <1>2 DEF GroupAccess, Reason, AccessGroupRow
  <2> QED BY <1>1, <1>2, <1>4, <2>1 DEF Evaluate, Usable, EntryAllowed, GroupDecision, Capable
<1> QED BY <1>1, <1>3, <1>4 DEF Chats

\* The history of a request on its way grows by what holds after the step.
LEMMA Grows ==
  ASSUME AccessInv, Track(FALSE), req' # Nowhere
  PROVE  /\ met \subseteq met' /\ unmet \subseteq unmet'
         /\ Satisfied' \subseteq met'
         /\ \A n \in Names : n \notin Satisfied' => n \in unmet'
BY DEF Track

LEMMA Restarts ==
  ASSUME AccessInv, Track(TRUE), req' # Nowhere
  PROVE  met' = Satisfied' /\ unmet' = Names \ Satisfied'
BY DEF Track

\* What a history shows, a longer one shows.
LEMMA HistoryOnlyAdds ==
  ASSUME NEW r, NEW m, NEW u, RequestOK(r, m, u), NEW m2, NEW u2, m \subseteq m2, u \subseteq u2
  PROVE  RequestOK(r, m2, u2)
<1> SUFFICES ASSUME r # Nowhere
             PROVE  Request(r) /\ Screened(r, m2, u2) /\ Charging(r, m2, u2) /\ Admitted(r, m2, u2)
  BY DEF RequestOK
<1>1. Request(r) /\ Screened(r, m, u) /\ Charging(r, m, u) /\ Admitted(r, m, u)
  BY DEF RequestOK
<1>2. ReadSoFar(r, m, u) => ReadSoFar(r, m2, u2)
  BY DEF ReadSoFar, Remembered
<1>3. Screened(r, m2, u2)
  BY <1>1, <1>2 DEF Screened
<1>4. Charging(r, m2, u2)
  BY <1>1 DEF Charging
<1>5. Evaluated(r, m, u) => Evaluated(r, m2, u2)
  BY DEF Evaluated
<1>6. Admitted(r, m2, u2)
  BY <1>1, <1>5 DEF Admitted
<1> QED BY <1>1, <1>3, <1>4, <1>6

----------------------------------------------------------------------------
(***************************************************************************)
(* The facts.                                                              *)
(***************************************************************************)
LEMMA HistoryTyped ==
  ASSUME AccessInv, Track(TRUE) \/ Track(FALSE)
  PROVE  met' \subseteq Names /\ unmet' \subseteq Names
<1>1. met \subseteq Names /\ unmet \subseteq Names
  BY DEF AccessInv, FactsOK
<1>2. Satisfied' \subseteq Names
  BY Recorded
<1> QED BY <1>1, <1>2 DEF Track

LEMMA FactsStay ==
  ASSUME AccessInv, UNCHANGED <<facts, changes>>, Track(TRUE) \/ Track(FALSE)
  PROVE  FactsOK'
<1>1. met' \subseteq Names /\ unmet' \subseteq Names
  BY HistoryTyped
<1> QED BY <1>1 DEF AccessInv, FactsOK, facts

LEMMA PersonChanges == AccessInv /\ ChangePerson => FactsOK'
<1> SUFFICES ASSUME AccessInv, ChangePerson PROVE FactsOK'
  OBVIOUS
<1>1. met' \subseteq Names /\ unmet' \subseteq Names
  BY HistoryTyped DEF ChangePerson
<1>2. person \in PersonRow
  BY DEF AccessInv, FactsOK
<1>3. Lifecycle(person) \in PersonRow
  <2>1. CASE person.active
    BY <1>2, <2>1 DEF Lifecycle, PersonRow
  <2>2. CASE ~person.active
    <3>1. Lifecycle(person) = [person EXCEPT !.active = TRUE, !.gen = person.gen + 1]
      BY <2>2 DEF Lifecycle
    <3>2. person.gen + 1 \in Nat \ {0}
      BY <1>2 DEF PersonRow
    <3> QED BY <1>2, <3>1, <3>2 DEF PersonRow
  <2> QED BY <2>1, <2>2
<1>4. \A n \in {"admin", "trusted", "banned", "local", "evidence", "entitled"} : Turned(person, n) \in PersonRow
  BY <1>2 DEF Turned, PersonRow
<1>5. person' \in PersonRow
  BY <1>3, <1>4 DEF ChangePerson
<1>6. changes' \in 0..MaxChanges
  BY AccessAssumption DEF AccessAssumption, AccessInv, FactsOK, ChangePerson, Changes
<1> QED BY <1>1, <1>5, <1>6 DEF AccessInv, FactsOK, ChangePerson

LEMMA GroupChanges == AccessInv /\ ChangeGroup => FactsOK'
<1> SUFFICES ASSUME AccessInv, ChangeGroup PROVE FactsOK'
  OBVIOUS
<1>1. met' \subseteq Names /\ unmet' \subseteq Names
  BY HistoryTyped DEF ChangeGroup
<1>2. group \in AccessGroupRow
  BY DEF AccessInv, FactsOK
<1>3. Lifecycle(group) \in AccessGroupRow
  <2>1. CASE group.active
    BY <1>2, <2>1 DEF Lifecycle, AccessGroupRow
  <2>2. CASE ~group.active
    <3>1. Lifecycle(group) = [group EXCEPT !.active = TRUE, !.gen = group.gen + 1]
      BY <2>2 DEF Lifecycle
    <3>2. group.gen + 1 \in Nat \ {0}
      BY <1>2 DEF AccessGroupRow
    <3> QED BY <1>2, <3>1, <3>2 DEF AccessGroupRow
  <2> QED BY <2>1, <2>2
<1>4. \A n \in {"banned", "fresh", "approved", "rights", "supported"} : Turned(group, n) \in AccessGroupRow
  BY <1>2 DEF Turned, AccessGroupRow
<1>5. \A b \in {"none", "admin", "unknown"} : [group EXCEPT !.blocker = b] \in AccessGroupRow
  BY <1>2 DEF AccessGroupRow
<1>6. group' \in AccessGroupRow
  BY <1>3, <1>4, <1>5 DEF ChangeGroup
<1>7. changes' \in 0..MaxChanges
  BY AccessAssumption DEF AccessAssumption, AccessInv, FactsOK, ChangeGroup, Changes
<1> QED BY <1>1, <1>6, <1>7 DEF AccessInv, FactsOK, ChangeGroup

LEMMA SwitchesChange == AccessInv /\ ChangeSwitches => FactsOK'
<1> SUFFICES ASSUME AccessInv, ChangeSwitches PROVE FactsOK'
  OBVIOUS
<1>1. met' \subseteq Names /\ unmet' \subseteq Names
  BY HistoryTyped DEF ChangeSwitches
<1>2. switches \in SwitchRow
  BY DEF AccessInv, FactsOK
<1>3. ASSUME NEW k \in DOMAIN switches.epoch,
             switches' = [switches EXCEPT !.stopped = Toggled(@, k), !.epoch[k] = @ + 1]
      PROVE  switches' \in SwitchRow
  <2>1. k \in StopKeys /\ switches.epoch \in [StopKeys -> Nat] /\ switches.stopped \in SUBSET StopKeys
    BY <1>2, <1>3 DEF SwitchRow
  <2> DEFINE s == Toggled(switches.stopped, k)
             ep == [switches.epoch EXCEPT ![k] = switches.epoch[k] + 1]
  <2>2. s \in SUBSET StopKeys
    BY <2>1 DEF Toggled
  <2>3. ep \in [StopKeys -> Nat]
    BY <2>1
  <2>4. switches' = [on |-> switches.on, legacy |-> switches.legacy, stopped |-> s, epoch |-> ep]
    BY <1>2, <1>3 DEF SwitchRow
  <2> HIDE DEF s, ep
  <2> QED BY <1>2, <2>2, <2>3, <2>4 DEF SwitchRow
<1>4. ASSUME NEW c \in Chats, NEW f \in Features,
             switches' = [switches EXCEPT !.on[c] = Toggled(@, f), !.legacy = c = "private" /\ @]
      PROVE  switches' \in SwitchRow
  <2>1. switches.on \in [Chats -> SUBSET Features]
    BY <1>2 DEF SwitchRow
  <2> DEFINE o == [switches.on EXCEPT ![c] = Toggled(switches.on[c], f)]
             l == (c = "private" /\ switches.legacy)
  <2>2. Toggled(switches.on[c], f) \in SUBSET Features
    BY <2>1, <1>4 DEF Toggled
  <2>3. o \in [Chats -> SUBSET Features]
    BY <2>1, <2>2
  <2>4. l \in BOOLEAN
    OBVIOUS
  <2>5. switches' = [on |-> o, legacy |-> l, stopped |-> switches.stopped, epoch |-> switches.epoch]
    BY <1>2, <1>4 DEF SwitchRow
  <2> HIDE DEF o, l
  <2> QED BY <1>2, <2>3, <2>4, <2>5 DEF SwitchRow
<1>5. switches' \in SwitchRow
  BY <1>3, <1>4 DEF ChangeSwitches
<1>6. changes' \in 0..MaxChanges
  <2>1. Changes /\ changes \in 0..MaxChanges
    BY DEF AccessInv, FactsOK, ChangeSwitches
  <2> QED BY <2>1, AccessAssumption DEF AccessAssumption, Changes
<1> QED BY <1>1, <1>5, <1>6 DEF AccessInv, FactsOK, ChangeSwitches

LEMMA OverridesChange ==
  ASSUME AccessInv, NEW origin, NEW kind \in DOMAIN Subjects, NEW b \in KnownBuckets, NEW remove \in BOOLEAN,
         SetOverride(origin, kind, b, remove)
  PROVE  FactsOK'
<1>1. met' \subseteq Names /\ unmet' \subseteq Names
  BY HistoryTyped DEF SetOverride
<1>2. kind \in {"user", "group"} /\ Subjects[kind].gen \in Nat \ {0}
  BY DEF AccessInv, FactsOK, Subjects, PersonRow, AccessGroupRow
<1>3. <<kind, Subjects[kind].gen, b>> \in {"user", "group"} \X (Nat \ {0}) \X KnownBuckets
  BY <1>2
<1>4. overrides' \subseteq {"user", "group"} \X (Nat \ {0}) \X KnownBuckets
  BY <1>3 DEF AccessInv, FactsOK, SetOverride, Written
<1>5. changes' \in 0..MaxChanges
  <2>1. Changes /\ changes \in 0..MaxChanges
    BY DEF AccessInv, FactsOK, SetOverride
  <2> QED BY <2>1, AccessAssumption DEF AccessAssumption, Changes
<1> QED BY <1>1, <1>4, <1>5 DEF AccessInv, FactsOK, SetOverride

\* A change of the facts leaves the request what it is, and its history longer.
LEMMA RequestWaits ==
  ASSUME AccessInv, UNCHANGED req, Track(FALSE)
  PROVE  RequestOK(req, met, unmet)'
<1>1. CASE req = Nowhere
  BY <1>1 DEF RequestOK
<1>2. CASE req # Nowhere
  <2>1. met \subseteq met' /\ unmet \subseteq unmet'
    BY <1>2, Grows
  <2>2. RequestOK(req, met, unmet)
    BY DEF AccessInv
  <2>3. RequestOK(req, met', unmet')
    BY <2>1, <2>2, HistoryOnlyAdds
  <2> QED BY <2>3 DEF RequestOK, Request, Screened, Charging, Admitted
<1> QED BY <1>1, <1>2

----------------------------------------------------------------------------
(***************************************************************************)
(* The steps of the middleware.                                            *)
(***************************************************************************)

\* A step that only goes on: the rest of the request stays, the facts stay.
LEMMA GoesOn ==
  ASSUME AccessInv, req # Nowhere, NEW at \in Stages \ {"none"}, Goes(at)
  PROVE  /\ FactsOK' /\ UNCHANGED facts
         /\ req' = [req EXCEPT !.at = at] /\ req' # Nowhere /\ Request(req')
         /\ req'.at = at /\ req'.e = req.e /\ req'.left = req.left /\ req'.seen = req.seen
         /\ req'.ok = req.ok /\ req'.author = req.author /\ req'.target = req.target
         /\ req'.usage = req.usage /\ req'.f = req.f
         /\ met \subseteq met' /\ unmet \subseteq unmet'
         /\ Satisfied' \subseteq met'
         /\ \A n \in Names : n \notin Satisfied' => n \in unmet'
<1>1. Request(req)
  BY DEF AccessInv, RequestOK
<1>2. req' = [req EXCEPT !.at = at] /\ UNCHANGED facts /\ FactsOK'
  BY FactsStay DEF Goes, Step
<1>3. req'.at = at /\ Request(req')
  BY <1>1, <1>2 DEF Request
<1>4. req' # Nowhere
  BY <1>3 DEF Nowhere
<1>5. /\ req'.e = req.e /\ req'.left = req.left /\ req'.seen = req.seen
      /\ req'.ok = req.ok /\ req'.author = req.author /\ req'.target = req.target
      /\ req'.usage = req.usage /\ req'.f = req.f
  BY <1>2
<1>6. Track(FALSE)
  BY DEF Goes, Step
<1> QED BY <1>2, <1>3, <1>4, <1>5, <1>6, Grows

\* What an end of a request needs: nothing.
LEMMA EndsWell ==
  ASSUME NEW r, Request(r), r.at \in Ended \cup {"entered"}, NEW m, NEW u
  PROVE  RequestOK(r, m, u)
BY DEF RequestOK, Screened, Charging, Admitted, Ended, Screening, Admitting, Working

\* What is proved of each step: it keeps the invariant, lets through only what
\* is allowed, refuses for a cause, and reserves under the subject's limits.
Sound == AccessInv' /\ AllowedStep /\ CausedStep /\ LimitedStep

LEMMA PassesUnasked ==
  ASSUME req'.at \notin {"entered", "queued", "reserved", "delivered", "denied"} \/ req'.at = req.at
  PROVE  AllowedStep /\ CausedStep /\ LimitedStep
BY DEF AllowedStep, CausedStep, LimitedStep, Passes

LEMMA Enters ==
  ASSUME req'.at = "entered",
         IF Keys(req.e.command) # << >> THEN \E i \in DOMAIN Keys(req.e.command) : Keys(req.e.command)[i] \in met'
         ELSE IF req.e.chat = "group" THEN EntersGroup ELSE EntersPrivate
  PROVE  AllowedStep /\ CausedStep /\ LimitedStep
BY DEF AllowedStep, CausedStep, LimitedStep, Passes

LEMMA Refuses ==
  ASSUME req'.at = "denied",
         IF Keys(req'.e.command) = << >> THEN CommandBarred
         ELSE \/ Barred("same") \/ Barred("author")
              \/ \A i \in DOMAIN Keys(req'.e.command) : Barred(Keys(req'.e.command)[i])
  PROVE  AllowedStep /\ CausedStep /\ LimitedStep
BY DEF AllowedStep, CausedStep, LimitedStep, Passes

\* The evaluation of a step is what the history records of its moment.
LEMMA EvaluationRecorded ==
  ASSUME AccessInv, req # Nowhere, UNCHANGED facts, req'.e = req.e, NEW f \in Features
  PROVE  Evaluate(f, req.e, FALSE) <=> f \in Satisfied'
<1>1. req.e \in Events /\ FactsOK
  BY DEF AccessInv, RequestOK, Request
<1>2. Evaluate(f, req.e, FALSE) <=> Usable(f, req.e)
  BY <1>1, EvaluatesUsable
<1>3. Usable(f, req.e)' <=> Usable(f, req.e)
  BY DEF Usable, Selected, StopKey, facts
<1> QED BY <1>2, <1>3, Recorded

LEMMA LeftParts ==
  ASSUME NEW s \in Seq(Features), Len(s) > 0
  PROVE  /\ Head(s) \in Features /\ Tail(s) \in Seq(Features) /\ 1 \in DOMAIN s /\ s[1] = Head(s)
         /\ Len(s) = 1 => DOMAIN Tail(s) = {}
         /\ Len(s) > 1 <=> Len(s) # 1
         /\ Len(s) # 1 => Len(Tail(s)) > 0
         /\ \A i \in DOMAIN Tail(s) : i + 1 \in DOMAIN s /\ Tail(s)[i] = s[i + 1]
         /\ \A i \in DOMAIN s : s[i] = Head(s) \/ \E j \in DOMAIN Tail(s) : Tail(s)[j] = s[i]
<1>1. Len(s) \in Nat \ {0} /\ DOMAIN s = 1..Len(s) /\ Head(s) = s[1] /\ Head(s) \in Features
  OBVIOUS
<1>2. Tail(s) \in Seq(Features) /\ Len(Tail(s)) = Len(s) - 1
  OBVIOUS
<1>3. \A i \in 1..(Len(s) - 1) : Tail(s)[i] = s[i + 1]
  OBVIOUS
<1>4. DOMAIN Tail(s) = 1..(Len(s) - 1)
  BY <1>2
<1>5. Len(s) # 1 => Len(Tail(s)) > 0
  BY <1>1, <1>2
<1>6. ASSUME NEW i \in DOMAIN s
      PROVE  s[i] = Head(s) \/ \E j \in DOMAIN Tail(s) : Tail(s)[j] = s[i]
  <2>1. CASE i = 1
    BY <1>1, <2>1
  <2>2. CASE i # 1
    <3>1. i - 1 \in 1..(Len(s) - 1) /\ (i - 1) + 1 = i
      BY <1>1, <1>6, <2>2
    <3> QED BY <1>3, <1>4, <3>1
  <2> QED BY <2>1, <2>2
<1> QED BY <1>1, <1>2, <1>3, <1>4, <1>5, <1>6

LEMMA Arrives ==
  ASSUME AccessInv, NEW e \in Events, Arrive(e)
  PROVE  Sound
<1> DEFINE c == e.command
<1>1. c \in Commands /\ e \in Events
  BY DEF Events
<1>2. /\ Keys(c) \in Seq(Features) /\ (Keys(c) = << >> <=> c \in Plain)
      /\ Offered(c) \subseteq Features
  BY <1>1, Offers
<1>3. FactsOK'
  BY FactsStay DEF Arrive, Begin
<1>4. /\ req' = [at |-> req'.at, e |-> e, left |-> Keys(c), seen |-> [n \in {"active"} |-> FALSE],
                 ok |-> FALSE, author |-> 0, target |-> 0, epoch |-> 0, usage |-> << >>, f |-> "none"]
      /\ req'.at = IF Keys(c) # << >> THEN "checking"
                   ELSE IF c = "admin" /\ e.chat = "group" THEN "denied" ELSE "screening"
  BY DEF Arrive
<1> HIDE DEF c
<1>5. req'.at \in {"checking", "denied", "screening"} /\ Request(req') /\ req'.e = e
  <2>1. req'.at \in {"checking", "denied", "screening"}
    BY <1>4
  <2>2. req'.e = e /\ req'.author = 0 /\ req'.target = 0
    BY <1>4
  <2>3. req' = [at |-> req'.at, e |-> req'.e, left |-> req'.left, seen |-> req'.seen, ok |-> req'.ok,
                author |-> req'.author, target |-> req'.target, epoch |-> req'.epoch,
                usage |-> req'.usage, f |-> req'.f]
    BY <1>4
  <2>4. req'.at \in Stages \ {"none"}
    BY <2>1 DEF Stages, Ended
  <2>5. req'.e \in Events /\ req'.author \in Nat /\ req'.target \in Nat
    BY <1>1, <2>2
  <2>6. req'.ok \in BOOLEAN
    <3>1. req'.ok = FALSE
      BY <1>4
    <3> QED BY <3>1, Zenon
  <2> QED BY <2>1, <2>2, <2>3, <2>4, <2>5, <2>6, Zenon DEF Request
<1>6. CASE req'.at = "checking"
  <2>1. Keys(c) # << >> /\ c \notin Plain
    BY <1>2, <1>4, <1>6
  <2>2. \A i \in DOMAIN Keys(c) : Keys(c)[i] \in Offered(c)
    BY DEF Offered
  <2>3. \A f \in Offered(c) : \E i \in DOMAIN Keys(c) : Keys(c)[i] = f
    BY DEF Offered
  <2>4. req'.left = Keys(c) /\ req'.ok = FALSE /\ req'.e.command = c
    BY <1>4 DEF c
  <2>5. Evaluated(req', met', unmet')
    <3>1. Len(Keys(c)) > 0
      BY <1>2, <2>1, EmptySeq
    <3> QED BY <1>2, <2>2, <2>3, <2>4, <3>1 DEF Evaluated
  <2>6. RequestOK(req', met', unmet')
    BY <1>5, <1>6, <2>1, <2>4, <2>5 DEF RequestOK, Screened, Charging, Admitted, Screening, Admitting, Working
  <2> QED BY <1>3, <1>6, <2>6, PassesUnasked DEF Sound, AccessInv
<1>7. CASE req'.at = "denied"
  <2>1. Keys(req'.e.command) = << >> /\ req'.e.command = "admin" /\ req'.e.chat = "group"
    BY <1>4, <1>5, <1>7 DEF c
  <2>2. CommandBarred
    BY <2>1 DEF CommandBarred
  <2>3. RequestOK(req', met', unmet')
    BY <1>5, <1>7, EndsWell DEF Ended
  <2> QED BY <1>3, <1>7, <2>1, <2>2, <2>3, Refuses DEF Sound, AccessInv
<1>8. CASE req'.at = "screening"
  <2>1. req'.e.command \in Plain /\ (req'.e.chat = "group" => req'.e.command # "admin")
    BY <1>2, <1>4, <1>5, <1>8 DEF c
  <2>2. RequestOK(req', met', unmet')
    BY <1>5, <1>8, <2>1 DEF RequestOK, Screened, Charging, Admitted, Screening, Admitting, Working
  <2> QED BY <1>3, <1>8, <2>2, PassesUnasked DEF Sound, AccessInv
<1> QED BY <1>5, <1>6, <1>7, <1>8

LEMMA Leaves == AccessInv /\ Leave => Sound
<1> SUFFICES ASSUME AccessInv, Leave PROVE Sound
  OBVIOUS
<1>1. FactsOK'
  BY FactsStay DEF Leave, Begin
<1>2. req' = Nowhere /\ req'.at = "none"
  BY DEF Leave, Nowhere
<1>3. RequestOK(req', met', unmet')
  BY <1>2 DEF RequestOK
<1> QED BY <1>1, <1>2, <1>3, PassesUnasked DEF Sound, AccessInv

LEMMA Checks == AccessInv /\ Check => Sound
<1> SUFFICES ASSUME AccessInv, Check PROVE Sound
  OBVIOUS
<1> DEFINE h == Head(req.left)
           allowed == Evaluate(h, req.e, FALSE)
           at == IF allowed THEN "entered" ELSE IF Len(req.left) = 1 THEN "denied" ELSE "checking"
           c == req.e.command
<1>1. req.at = "checking" /\ req # Nowhere
  BY DEF Check, Nowhere
<1>2. Request(req) /\ Evaluated(req, met, unmet) /\ ~req.ok /\ c \notin Plain
  BY <1>1 DEF AccessInv, RequestOK, Admitted
<1>3. c \in Commands /\ Offered(c) \subseteq Features /\ Keys(c) # << >>
  BY <1>2, Offers DEF Request, Events
<1>4. FactsOK' /\ UNCHANGED facts /\ Track(FALSE)
  BY FactsStay DEF Check, Step
<1>5. req' = [req EXCEPT !.left = Tail(@), !.at = at]
  BY <1>1 DEF Check
<1> HIDE DEF at
<1>6. /\ req'.at = at /\ req'.e = req.e /\ req'.left = Tail(req.left) /\ req'.ok = req.ok
      /\ at \in {"entered", "denied", "checking"}
  BY <1>2, <1>5 DEF Request, at
<1>7. Request(req') /\ req' # Nowhere
  BY <1>2, <1>5, <1>6 DEF Request, Stages, Ended, Nowhere
<1>8. /\ met \subseteq met' /\ unmet \subseteq unmet' /\ Satisfied' \subseteq met'
      /\ \A n \in Names : n \notin Satisfied' => n \in unmet'
  BY <1>4, <1>7, Grows
<1>9. req.left \in Seq(Features) /\ Len(req.left) > 0
  BY <1>2 DEF Evaluated
<1>10. h \in Features /\ h \in Names /\ h \in Offered(c) /\ (allowed <=> h \in Satisfied')
  <2>1. h \in Features /\ h = req.left[1] /\ 1 \in DOMAIN req.left
    BY <1>9, LeftParts
  <2> QED BY <1>1, <1>2, <1>4, <1>6, <2>1, EvaluationRecorded DEF Evaluated, Names
<1>11. \A f \in Offered(c) : f \in unmet \/ f = h \/ \E i \in DOMAIN Tail(req.left) : Tail(req.left)[i] = f
  BY <1>2, <1>9, LeftParts DEF Evaluated
<1>12. CASE allowed
  <2>1. at = "entered" /\ h \in met'
    BY <1>8, <1>10, <1>12 DEF at
  <2>2. \E i \in DOMAIN Keys(c) : Keys(c)[i] \in met'
    BY <1>10, <2>1 DEF Offered
  <2>3. AllowedStep /\ CausedStep /\ LimitedStep
    BY <1>3, <1>6, <2>1, <2>2, Enters
  <2> QED BY <1>4, <1>6, <1>7, <2>1, <2>3, EndsWell DEF Sound, AccessInv
<1>13. CASE ~allowed /\ Len(req.left) = 1
  <2>1. at = "denied" /\ h \in unmet'
    BY <1>8, <1>10, <1>13 DEF at
  <2>3. DOMAIN Tail(req.left) = {}
    BY <1>9, <1>13, LeftParts
  <2>4. \A i \in DOMAIN Keys(c) : Barred(Keys(c)[i])
    BY <1>8, <1>11, <2>1, <2>3 DEF Offered, Barred
  <2>5. AllowedStep /\ CausedStep /\ LimitedStep
    BY <1>3, <1>6, <2>1, <2>4, Refuses
  <2> QED BY <1>4, <1>6, <1>7, <2>1, <2>5, EndsWell DEF Sound, AccessInv, Ended
<1>14. CASE ~allowed /\ Len(req.left) # 1
  <2>1. at = "checking" /\ h \in unmet'
    BY <1>8, <1>10, <1>14 DEF at
  <2>2. Tail(req.left) \in Seq(Features) /\ Len(Tail(req.left)) > 0
    BY <1>9, <1>14, LeftParts
  <2>3. \A i \in DOMAIN Tail(req.left) : Tail(req.left)[i] \in Offered(c)
    BY <1>2, <1>9, LeftParts DEF Evaluated
  <2>4. Evaluated(req', met', unmet')
    BY <1>2, <1>6, <1>8, <1>11, <2>1, <2>2, <2>3 DEF Evaluated
  <2>5. RequestOK(req', met', unmet')
    BY <1>2, <1>6, <1>7, <2>1, <2>4 DEF RequestOK, Screened, Charging, Admitted, Screening, Admitting, Working
  <2> QED BY <1>1, <1>4, <1>6, <2>1, <2>5, PassesUnasked DEF Sound, AccessInv
<1> QED BY <1>12, <1>13, <1>14

\* Commands that are screened offer no features.
LEMMA ScreenedIsPlain ==
  ASSUME AccessInv, req # Nowhere, req.at \in Screening
  PROVE  /\ Request(req) /\ Screened(req, met, unmet) /\ req.e \in Events
         /\ req.e.command \in Plain /\ Keys(req.e.command) = << >>
         /\ req.e.chat \in Chats /\ req.e.actor \in BOOLEAN /\ req.e.command \in {"help", "settings", "admin"}
<1>1. Request(req) /\ Screened(req, met, unmet)
  BY DEF AccessInv, RequestOK
<1>2. req.e \in Events /\ req.e.command \in Plain
  BY <1>1 DEF Request, Screened
<1> QED BY <1>1, <1>2, Offers DEF Events, Plain

LEMMA ScreensPrivate == AccessInv /\ ScreenPrivate => Sound
<1> SUFFICES ASSUME AccessInv, ScreenPrivate PROVE Sound
  OBVIOUS
<1>1. req # Nowhere /\ req.at = "screening" /\ req.e.chat = "private"
  BY DEF ScreenPrivate, Nowhere
<1>2. Screened(req, met, unmet) /\ req.e.command \in Plain /\ Keys(req.e.command) = << >>
  BY <1>1, ScreenedIsPlain DEF Screening
<1>3. CASE person.banned
  <2>1. Goes("denied") /\ "denied" \in Ended \cap (Stages \ {"none"})
    BY <1>3 DEF ScreenPrivate, Ended, Stages
  <2>2. /\ FactsOK' /\ Request(req') /\ req'.at = "denied" /\ req'.e = req.e /\ UNCHANGED facts
        /\ \A n \in Names : n \notin Satisfied' => n \in unmet'
    BY <1>1, <2>1, GoesOn
  <2>3. Barred("free")
    BY <1>3, <2>2, Recorded DEF facts, Names, Barred
  <2>4. AllowedStep /\ CausedStep /\ LimitedStep
    BY <1>1, <1>2, <2>2, <2>3, Refuses DEF CommandBarred
  <2> QED BY <2>1, <2>2, <2>4, EndsWell DEF Sound, AccessInv
<1>4. CASE ~person.banned
  <2>1. Goes("role") /\ "role" \in Stages \ {"none"}
    BY <1>4 DEF ScreenPrivate, Stages
  <2>2. FactsOK' /\ Request(req') /\ req'.at = "role" /\ req'.e = req.e /\ UNCHANGED facts /\ Satisfied' \subseteq met'
    BY <1>1, <2>1, GoesOn
  <2>3. "free" \in met'
    BY <1>4, <2>2, Recorded DEF facts
  <2>4. RequestOK(req', met', unmet')
    BY <1>1, <1>2, <2>2, <2>3 DEF RequestOK, Screened, Charging, Admitted, Screening, Admitting, Working
  <2> QED BY <2>2, <2>4, PassesUnasked DEF Sound, AccessInv
<1> QED BY <1>3, <1>4

LEMMA Roles == AccessInv /\ Role => Sound
<1> SUFFICES ASSUME AccessInv, Role PROVE Sound
  OBVIOUS
<1>1. req # Nowhere /\ req.at = "role"
  BY DEF Role, Nowhere
<1>2. /\ Screened(req, met, unmet) /\ req.e.command \in {"help", "settings", "admin"}
      /\ Keys(req.e.command) = << >> /\ req.e.chat = "private" /\ "free" \in met
  BY <1>1, ScreenedIsPlain DEF Screening, Screened
<1> DEFINE at == IF BotAdmin \/ req.e.command = "settings" THEN "entered"
                 ELSE IF req.e.command = "admin" THEN "denied" ELSE "trust"
<1>3. Goes(at) /\ at \in {"entered", "denied", "trust"}
  BY DEF Role
<1>4. at \in Stages \ {"none"}
  BY <1>3 DEF Stages, Ended
<1>5. /\ FactsOK' /\ Request(req') /\ req'.at = at /\ req'.e = req.e /\ UNCHANGED facts
      /\ met \subseteq met' /\ Satisfied' \subseteq met'
      /\ \A n \in Names : n \notin Satisfied' => n \in unmet'
  BY <1>1, <1>3, <1>4, GoesOn
<1>6. "admin" \in Satisfied' <=> BotAdmin
  BY <1>5, Recorded DEF facts, BotAdmin
<1>7. CASE BotAdmin \/ req.e.command = "settings"
  <2>1. AllowedStep /\ CausedStep /\ LimitedStep
    BY <1>2, <1>5, <1>6, <1>7, Enters DEF EntersPrivate
  <2> QED BY <1>5, <1>7, <2>1, EndsWell DEF Sound, AccessInv
<1>8. CASE ~BotAdmin /\ req.e.command = "admin"
  <2>1. Barred("admin")
    BY <1>5, <1>6, <1>8 DEF Barred, Names
  <2>2. AllowedStep /\ CausedStep /\ LimitedStep
    BY <1>2, <1>5, <1>8, <2>1, Refuses DEF CommandBarred
  <2> QED BY <1>5, <1>8, <2>2, EndsWell DEF Sound, AccessInv, Ended
<1>9. CASE ~BotAdmin /\ req.e.command = "help"
  <2>1. "admin" \in unmet'
    BY <1>5, <1>6, <1>9 DEF Names
  <2>2. RequestOK(req', met', unmet')
    BY <1>2, <1>5, <1>9, <2>1 DEF RequestOK, Screened, Charging, Admitted, Screening, Admitting, Working, Plain
  <2> QED BY <1>5, <1>9, <2>2, PassesUnasked DEF Sound, AccessInv
<1> QED BY <1>2, <1>7, <1>8, <1>9

LEMMA Trusts == AccessInv /\ Trust => Sound
<1> SUFFICES ASSUME AccessInv, Trust PROVE Sound
  OBVIOUS
<1>1. req # Nowhere /\ req.at = "trust"
  BY DEF Trust, Nowhere
<1>2. /\ Keys(req.e.command) = << >> /\ req.e.command = "help"
      /\ req.e.chat = "private" /\ "free" \in met /\ "admin" \in unmet
  BY <1>1, ScreenedIsPlain DEF Screening, Screened
<1> DEFINE trusted == person.active /\ person.trusted
           at == IF trusted THEN "entered" ELSE "denied"
<1>3. Goes(at) /\ at \in {"entered", "denied"}
  BY DEF Trust
<1>4. at \in Stages \ {"none"} /\ at \in Ended \cup {"entered"}
  BY <1>3 DEF Stages, Ended
<1>5. /\ FactsOK' /\ Request(req') /\ req'.at = at /\ req'.e = req.e /\ UNCHANGED facts
      /\ met \subseteq met' /\ unmet \subseteq unmet' /\ Satisfied' \subseteq met'
      /\ \A n \in Names : n \notin Satisfied' => n \in unmet'
  BY <1>1, <1>3, <1>4, GoesOn
<1>6. "trusted" \in Satisfied' <=> trusted
  BY <1>5, Recorded DEF facts
<1>7. AccessInv'
  BY <1>4, <1>5, EndsWell DEF AccessInv
<1>8. CASE trusted
  <2>1. "trusted" \in met' /\ "free" \in met'
    BY <1>2, <1>5, <1>6, <1>8
  <2> QED BY <1>2, <1>5, <1>7, <1>8, <2>1, Enters DEF Sound, EntersPrivate
<1>9. CASE ~trusted
  <2>1. Barred("trusted") /\ Barred("admin")
    BY <1>2, <1>5, <1>6, <1>9 DEF Names, Barred
  <2> QED BY <1>2, <1>5, <1>7, <1>9, <2>1, Refuses DEF Sound, CommandBarred
<1> QED BY <1>8, <1>9

----------------------------------------------------------------------------
(***************************************************************************)
(* A group, read fact by fact.                                             *)
(***************************************************************************)
Reading == {"policy", "approval"}

\* Where a reading begins, nothing has been read.
LEMMA ReadingBegins ==
  ASSUME AccessInv, req # Nowhere, NEW at \in Reading, StartsReading(at), Step
  PROVE  /\ FactsOK' /\ UNCHANGED facts /\ Request(req') /\ req'.at = at /\ req'.e = req.e
         /\ ReadSoFar(req', met', unmet')
         /\ met \subseteq met' /\ unmet \subseteq unmet' /\ Satisfied' \subseteq met'
         /\ \A n \in Names : n \notin Satisfied' => n \in unmet'
<1>1. Request(req)
  BY DEF AccessInv, RequestOK
<1>2. req' = [req EXCEPT !.at = at, !.left = Reads, !.seen = [n \in {"active"} |-> FALSE]]
  BY DEF StartsReading
<1>3. req'.at = at /\ req'.e = req.e /\ req'.left = Reads /\ req'.seen = [n \in {"active"} |-> FALSE]
  BY <1>1, <1>2 DEF Request
<1>4. Request(req') /\ req' # Nowhere
  BY <1>1, <1>2, <1>3 DEF Request, Stages, Nowhere, Reading
<1>5. FactsOK' /\ UNCHANGED facts /\ Track(FALSE)
  BY FactsStay DEF Step
<1>6. ReadSoFar(req', met', unmet')
  BY <1>3 DEF ReadSoFar
<1> QED BY <1>3, <1>4, <1>5, <1>6, Grows

LEMMA ReadsOn ==
  ASSUME AccessInv, Read
  PROVE  /\ req.at \in Reading /\ req # Nowhere /\ req'.at = req.at /\ req'.e = req.e
         /\ FactsOK' /\ Request(req') /\ ReadSoFar(req', met', unmet')
         /\ met \subseteq met' /\ unmet \subseteq unmet'
<1> DEFINE n == Head(req.left)
           seen == [m \in DOMAIN req.seen \cup {n} |-> IF m = n THEN group[n] ELSE req.seen[m]]
           left == IF n = "active" /\ ~group.active THEN << >> ELSE Tail(req.left)
<1>1. req.at \in Reading /\ req # Nowhere /\ req.left # << >>
  BY DEF Read, Reading, Nowhere
<1>2. Request(req) /\ ReadSoFar(req, met, unmet)
  BY <1>1 DEF AccessInv, RequestOK, Screened, Reading
<1>3. req' = [req EXCEPT !.seen = seen, !.left = left]
  BY DEF Read
<1>4. FactsOK' /\ UNCHANGED facts /\ Track(FALSE) /\ group \in AccessGroupRow
  BY FactsStay DEF Read, Step, AccessInv, FactsOK
<1>5. req'.at = req.at /\ req'.e = req.e /\ req'.seen = seen /\ req'.left = left
  <2> HIDE DEF seen, left
  <2> QED BY <1>2, <1>3 DEF Request
<1>6. Request(req') /\ req' # Nowhere
  <2> HIDE DEF seen, left
  <2> QED BY <1>1, <1>2, <1>3, <1>5 DEF Request, Nowhere, Reading
<1>7. /\ met \subseteq met' /\ unmet \subseteq unmet' /\ Satisfied' \subseteq met'
      /\ \A k \in Names : k \notin Satisfied' => k \in unmet'
  BY <1>4, <1>6, Grows
<1>8. /\ IF group.active THEN "present" \in met' ELSE "present" \in unmet'
      /\ IF group.banned = FALSE THEN "unbanned" \in met' ELSE "unbanned" \in unmet'
      /\ IF group.fresh = TRUE THEN "fresh" \in met' ELSE "fresh" \in unmet'
      /\ IF group.blocker = "none" THEN "clear" \in met' ELSE "clear" \in unmet'
      /\ IF group.approved = TRUE THEN "approved" \in met' ELSE "approved" \in unmet'
  BY <1>4, <1>7, Recorded DEF facts, Names, AccessGroupRow
<1>9. /\ group.active \in BOOLEAN /\ group.banned \in BOOLEAN /\ group.fresh \in BOOLEAN /\ group.approved \in BOOLEAN
      /\ group.blocker \in {"none", "admin", "unknown"}
  BY <1>4 DEF AccessGroupRow
<1> DEFINE Goal == ReadSoFar(req', met', unmet')
<1>10. ASSUME req.left = Reads PROVE Goal
  <2>1. n = "active" /\ Tail(req.left) = <<"banned", "fresh", "blocker", "approved">>
    BY <1>10 DEF Reads
  <2>2. req.seen = [m \in {"active"} |-> FALSE]
    BY <1>2, <1>10 DEF ReadSoFar, ReadingStages, Reads
  <2>3. DOMAIN seen = {"active"} /\ seen["active"] = group.active /\ seen = [m \in DOMAIN seen |-> seen[m]]
    BY <2>1, <2>2
  <2>4. CASE group.active
    <3>1. left = <<"banned", "fresh", "blocker", "approved">> /\ seen["active"] = TRUE /\ "present" \in met'
      BY <1>8, <1>9, <2>1, <2>3, <2>4
    <3> HIDE DEF seen, left
    <3> QED BY <1>5, <2>3, <3>1 DEF ReadSoFar, ReadingStages, Remembered
  <2>5. CASE ~group.active
    <3>1. left = << >> /\ seen["active"] = FALSE /\ "present" \in unmet'
      BY <1>8, <1>9, <2>1, <2>3, <2>5
    <3> HIDE DEF seen, left
    <3> QED BY <1>5, <2>3, <3>1 DEF ReadSoFar
  <2> QED BY <2>4, <2>5
<1>11. ASSUME req.left # Reads PROVE Goal
  <2>1. /\ <<req.left, DOMAIN req.seen>> \in ReadingStages /\ req.seen["active"] = TRUE /\ "present" \in met'
        /\ Remembered(req, "banned", "unbanned", FALSE, met', unmet')
        /\ Remembered(req, "fresh", "fresh", TRUE, met', unmet')
        /\ Remembered(req, "blocker", "clear", "none", met', unmet')
        /\ Remembered(req, "approved", "approved", TRUE, met', unmet')
        /\ "blocker" \in DOMAIN req.seen => req.seen["blocker"] \in {"none", "admin", "unknown"}
        /\ \A k \in {"banned", "fresh", "approved"} \cap DOMAIN req.seen : req.seen[k] \in BOOLEAN
    BY <1>1, <1>2, <1>7, <1>11 DEF ReadSoFar, Remembered
  <2>2. CASE req.left = <<"banned", "fresh", "blocker", "approved">>
    <3>1. n = "banned" /\ left = <<"fresh", "blocker", "approved">> /\ DOMAIN req.seen = {"active"}
      BY <2>1, <2>2 DEF ReadingStages
    <3>2. /\ DOMAIN seen = {"active", "banned"}
          /\ seen["banned"] = group.banned /\ seen["active"] = req.seen["active"]
          /\ seen = [m \in DOMAIN seen |-> seen[m]]
      BY <3>1
    <3> HIDE DEF n, seen, left
    <3> QED BY <1>5, <1>8, <1>9, <2>1, <3>1, <3>2 DEF ReadSoFar, ReadingStages, Remembered
  <2>3. CASE req.left = <<"fresh", "blocker", "approved">>
    <3>1. n = "fresh" /\ left = <<"blocker", "approved">> /\ DOMAIN req.seen = {"active", "banned"}
      BY <2>1, <2>3 DEF ReadingStages
    <3>2. /\ DOMAIN seen = {"active", "banned", "fresh"}
          /\ seen["fresh"] = group.fresh /\ seen["active"] = req.seen["active"] /\ seen["banned"] = req.seen["banned"]
          /\ seen = [m \in DOMAIN seen |-> seen[m]]
      BY <3>1
    <3> HIDE DEF n, seen, left
    <3> QED BY <1>5, <1>8, <1>9, <2>1, <3>1, <3>2 DEF ReadSoFar, ReadingStages, Remembered
  <2>4. CASE req.left = <<"blocker", "approved">>
    <3>1. n = "blocker" /\ left = <<"approved">> /\ DOMAIN req.seen = {"active", "banned", "fresh"}
      BY <2>1, <2>4 DEF ReadingStages
    <3>2. /\ DOMAIN seen = {"active", "banned", "fresh", "blocker"}
          /\ seen["blocker"] = group.blocker /\ seen["active"] = req.seen["active"] /\ seen["banned"] = req.seen["banned"] /\ seen["fresh"] = req.seen["fresh"]
          /\ seen = [m \in DOMAIN seen |-> seen[m]]
      BY <3>1
    <3> HIDE DEF n, seen, left
    <3> QED BY <1>5, <1>8, <1>9, <2>1, <3>1, <3>2 DEF ReadSoFar, ReadingStages, Remembered
  <2>5. CASE req.left = <<"approved">>
    <3>1. n = "approved" /\ left = << >> /\ DOMAIN req.seen = {"active", "banned", "fresh", "blocker"}
      BY <2>1, <2>5 DEF ReadingStages
    <3>2. /\ DOMAIN seen = {"active", "banned", "fresh", "blocker", "approved"}
          /\ seen["approved"] = group.approved /\ seen["active"] = req.seen["active"] /\ seen["banned"] = req.seen["banned"] /\ seen["fresh"] = req.seen["fresh"] /\ seen["blocker"] = req.seen["blocker"]
          /\ seen = [m \in DOMAIN seen |-> seen[m]]
      BY <3>1
    <3> HIDE DEF n, seen, left
    <3> QED BY <1>5, <1>8, <1>9, <2>1, <3>1, <3>2 DEF ReadSoFar, ReadingStages, Remembered
  <2> QED BY <1>1, <2>1, <2>2, <2>3, <2>4, <2>5 DEF ReadingStages
<1> QED BY <1>1, <1>4, <1>5, <1>6, <1>7, <1>10, <1>11

\* The decision about what was read is about what held as it was read.
LEMMA ReasonsRecorded ==
  ASSUME NEW r, NEW m, NEW u, ReadSoFar(r, m, u), r.left = << >>
  PROVE  LET why == Reason(r.seen) IN
         /\ why \in {"unavailable", "banned", "unverified", "admin banned", "allowed", "not approved"}
         /\ why = "unavailable" => "present" \in u
         /\ why = "banned" => "unbanned" \in u
         /\ why \in {"unverified", "admin banned"} => "fresh" \in u \/ "clear" \in u
         /\ why = "not approved" => "approved" \in u
         /\ why \notin {"unavailable", "banned"} => {"present", "unbanned"} \subseteq m
         /\ why \notin {"unavailable", "banned", "unverified", "admin banned"} => {"fresh", "clear"} \subseteq m
         /\ why = "allowed" => "approved" \in m
<1>1. r.left # Reads
  BY DEF Reads
<1>2. CASE r.seen["active"] = FALSE
  <2>1. Reason(r.seen) = "unavailable" /\ "present" \in u
    BY <1>1, <1>2 DEF ReadSoFar, Reason
  <2> QED BY <2>1
<1>3. CASE r.seen["active"] # FALSE
  <2>1. <<r.left, DOMAIN r.seen>> \in ReadingStages /\ r.seen["active"] = TRUE /\ "present" \in m
    BY <1>1, <1>3 DEF ReadSoFar
  <2>2. DOMAIN r.seen = {"active", "banned", "fresh", "blocker", "approved"}
    BY <2>1 DEF ReadingStages
  <2>3. /\ IF r.seen["banned"] = FALSE THEN "unbanned" \in m ELSE "unbanned" \in u
        /\ IF r.seen["fresh"] = TRUE THEN "fresh" \in m ELSE "fresh" \in u
        /\ IF r.seen["blocker"] = "none" THEN "clear" \in m ELSE "clear" \in u
        /\ IF r.seen["approved"] = TRUE THEN "approved" \in m ELSE "approved" \in u
        /\ r.seen["banned"] \in BOOLEAN /\ r.seen["fresh"] \in BOOLEAN /\ r.seen["approved"] \in BOOLEAN
        /\ r.seen["blocker"] \in {"none", "admin", "unknown"}
    BY <1>1, <1>3, <2>2 DEF ReadSoFar, Remembered
  <2> QED BY <2>1, <2>3 DEF Reason
<1> QED BY <1>2, <1>3

LEMMA ScreensGroup == AccessInv /\ ScreenGroup => Sound
<1> SUFFICES ASSUME AccessInv, ScreenGroup PROVE Sound
  OBVIOUS
<1>1. req # Nowhere /\ req.at = "screening" /\ req.e.chat = "group"
  BY DEF ScreenGroup, Nowhere
<1>2. Screened(req, met, unmet) /\ req.e.command \in Plain /\ Keys(req.e.command) = << >> /\ req.e.actor \in BOOLEAN
  BY <1>1, ScreenedIsPlain DEF Screening
<1>3. CASE req.e.actor /\ person.banned
  <2>1. Goes("denied") /\ "denied" \in Ended \cap (Stages \ {"none"})
    BY <1>3 DEF ScreenGroup, Ended, Stages
  <2>2. /\ FactsOK' /\ Request(req') /\ req'.at = "denied" /\ req'.e = req.e /\ UNCHANGED facts
        /\ \A n \in Names : n \notin Satisfied' => n \in unmet'
    BY <1>1, <2>1, GoesOn
  <2>3. Barred("free")
    BY <1>3, <2>2, Recorded DEF facts, Names, Barred
  <2>4. AllowedStep /\ CausedStep /\ LimitedStep
    BY <1>1, <1>2, <1>3, <2>2, <2>3, Refuses DEF CommandBarred
  <2> QED BY <2>1, <2>2, <2>4, EndsWell DEF Sound, AccessInv
<1>4. CASE ~(req.e.actor /\ person.banned)
  <2>1. StartsReading("policy") /\ Step /\ "policy" \in Reading
    BY <1>4 DEF ScreenGroup, Reading
  <2>2. /\ FactsOK' /\ UNCHANGED facts /\ Request(req') /\ req'.at = "policy" /\ req'.e = req.e
        /\ ReadSoFar(req', met', unmet') /\ Satisfied' \subseteq met'
    BY <1>1, <2>1, ReadingBegins
  <2>3. req.e.actor => "free" \in met'
    BY <1>4, <2>2, Recorded DEF facts
  <2>4. RequestOK(req', met', unmet')
    BY <1>1, <1>2, <2>2, <2>3 DEF RequestOK, Screened, Charging, Admitted, Screening, Admitting, Working
  <2> QED BY <2>2, <2>4, PassesUnasked DEF Sound, AccessInv
<1> QED BY <1>3, <1>4

LEMMA ReadsGroup == AccessInv /\ Read => Sound
<1> SUFFICES ASSUME AccessInv, Read PROVE Sound
  OBVIOUS
<1>1. /\ req.at \in Reading /\ req # Nowhere /\ req'.at = req.at /\ req'.e = req.e
      /\ FactsOK' /\ Request(req') /\ ReadSoFar(req', met', unmet')
      /\ met \subseteq met' /\ unmet \subseteq unmet'
  BY ReadsOn
<1>2. Screened(req, met, unmet)
  BY <1>1 DEF AccessInv, RequestOK
<1>3. Screened(req', met', unmet')
  BY <1>1, <1>2 DEF Screened, Reading
<1>4. Charging(req', met', unmet') /\ Admitted(req', met', unmet')
  BY <1>1 DEF Reading, Charging, Admitted, Admitting, Working
<1> QED BY <1>1, <1>3, <1>4, PassesUnasked DEF Sound, AccessInv, RequestOK

LEMMA JudgesGroup == AccessInv /\ GroupPolicy => Sound
<1> SUFFICES ASSUME AccessInv, GroupPolicy PROVE Sound
  OBVIOUS
<1> DEFINE closed == {"banned", "unavailable"}
                     \cup IF req.e.command = "settings" THEN {"unverified", "admin banned"} ELSE {}
           why == Reason(req.seen)
           at == IF why \in closed THEN "denied" ELSE "again"
<1>1. req # Nowhere /\ req.at = "policy" /\ req.left = << >>
  <2>1. req.at = "policy" /\ req.left = << >>
    BY DEF GroupPolicy
  <2> QED BY <2>1 DEF Nowhere
<1>2. /\ Screened(req, met, unmet) /\ req.e.command \in Plain /\ Keys(req.e.command) = << >>
      /\ req.e.chat = "group" /\ ReadSoFar(req, met, unmet)
  BY <1>1, ScreenedIsPlain DEF Screening, Screened
<1>3. Goes(at)
  BY DEF GroupPolicy
<1>4. at \in {"denied", "again"} /\ at \in Stages \ {"none"}
  BY DEF Stages, Ended
<1>5. /\ FactsOK' /\ Request(req') /\ req'.at = at /\ req'.e = req.e
      /\ met \subseteq met' /\ unmet \subseteq unmet'
  BY <1>1, <1>3, <1>4, GoesOn
<1>6. /\ why \in {"unavailable", "banned", "unverified", "admin banned", "allowed", "not approved"}
      /\ why = "unavailable" => "present" \in unmet'
      /\ why = "banned" => "unbanned" \in unmet'
      /\ why \in {"unverified", "admin banned"} => "fresh" \in unmet' \/ "clear" \in unmet'
      /\ why \notin {"unavailable", "banned"} => {"present", "unbanned"} \subseteq met'
      /\ why \notin {"unavailable", "banned", "unverified", "admin banned"} => {"fresh", "clear"} \subseteq met'
  <2> HIDE DEF closed, at
  <2> QED BY <1>1, <1>2, <1>5, ReasonsRecorded
<1> HIDE DEF why
<1>7. CASE why \in closed
  <2>1. CommandBarred
    BY <1>2, <1>5, <1>6, <1>7 DEF CommandBarred, Barred
  <2>2. AllowedStep /\ CausedStep /\ LimitedStep
    BY <1>2, <1>5, <1>7, <2>1, Refuses
  <2> QED BY <1>5, <1>7, <2>2, EndsWell DEF Sound, AccessInv, Ended
<1>8. CASE why \notin closed
  <2>1. {"present", "unbanned"} \subseteq met' /\ (req.e.command = "settings" => {"fresh", "clear"} \subseteq met')
    BY <1>6, <1>8
  <2>2. req'.at = "again"
    BY <1>5, <1>8
  <2> HIDE DEF at, closed
  <2>3. RequestOK(req', met', unmet')
    BY <1>1, <1>2, <1>5, <2>1, <2>2 DEF RequestOK, Screened, Charging, Admitted, Screening, Admitting, Working
  <2> QED BY <1>5, <2>2, <2>3, PassesUnasked DEF Sound, AccessInv
<1> QED BY <1>7, <1>8

LEMMA JudgesAgain == AccessInv /\ Again => Sound
<1> SUFFICES ASSUME AccessInv, Again PROVE Sound
  OBVIOUS
<1> DEFINE at == IF req.e.actor /\ person.banned THEN "denied" ELSE "authority"
<1>1. req # Nowhere /\ req.at = "again" /\ Goes(at)
  BY DEF Again, Nowhere
<1>2. /\ Screened(req, met, unmet) /\ req.e.command \in Plain /\ Keys(req.e.command) = << >> /\ req.e.chat = "group"
  BY <1>1, ScreenedIsPlain DEF Screening, Screened
<1>3. at \in {"denied", "authority"} /\ at \in Stages \ {"none"}
  BY DEF Stages, Ended
<1>4. /\ FactsOK' /\ Request(req') /\ req'.at = at /\ req'.e = req.e /\ UNCHANGED facts
      /\ met \subseteq met' /\ unmet \subseteq unmet'
      /\ \A n \in Names : n \notin Satisfied' => n \in unmet'
  BY <1>1, <1>3, GoesOn
<1>5. CASE req.e.actor /\ person.banned
  <2>1. Barred("free")
    BY <1>4, <1>5, Recorded DEF facts, Names, Barred
  <2>2. AllowedStep /\ CausedStep /\ LimitedStep
    BY <1>2, <1>4, <1>5, <2>1, Refuses DEF CommandBarred
  <2> QED BY <1>4, <1>5, <2>2, EndsWell DEF Sound, AccessInv, Ended
<1>6. CASE ~(req.e.actor /\ person.banned)
  <2>1. req'.at = "authority"
    BY <1>4, <1>6
  <2> HIDE DEF at
  <2>2. RequestOK(req', met', unmet')
    BY <1>1, <1>2, <1>4, <2>1 DEF RequestOK, Screened, Charging, Admitted, Screening, Admitting, Working
  <2> QED BY <1>4, <2>1, <2>2, PassesUnasked DEF Sound, AccessInv
<1> QED BY <1>5, <1>6

LEMMA JudgesAuthority == AccessInv /\ Authority => Sound
<1> SUFFICES ASSUME AccessInv, Authority PROVE Sound
  OBVIOUS
<1> DEFINE at == IF (req.e.actor /\ BotAdmin) \/ req.e.command = "help" THEN "entered" ELSE "live"
<1>1. req # Nowhere /\ req.at = "authority" /\ Goes(at)
  BY DEF Authority, Nowhere
<1>2. /\ Screened(req, met, unmet) /\ req.e.command \in {"help", "settings"} /\ Keys(req.e.command) = << >>
      /\ req.e.chat = "group" /\ (req.e.actor => "free" \in met) /\ {"present", "unbanned"} \subseteq met
      /\ req.e.command = "settings" => {"fresh", "clear"} \subseteq met
  BY <1>1, ScreenedIsPlain DEF Screening, Screened
<1>3. at \in {"entered", "live"} /\ at \in Stages \ {"none"}
  BY DEF Stages, Ended
<1>4. /\ FactsOK' /\ Request(req') /\ req'.at = at /\ req'.e = req.e /\ UNCHANGED facts
      /\ met \subseteq met' /\ unmet \subseteq unmet' /\ Satisfied' \subseteq met'
      /\ \A n \in Names : n \notin Satisfied' => n \in unmet'
  BY <1>1, <1>3, GoesOn
<1>5. "admin" \in Satisfied' <=> BotAdmin
  BY <1>4, Recorded DEF facts, BotAdmin
<1>6. CASE (req.e.actor /\ BotAdmin) \/ req.e.command = "help"
  <2>1. EntersGroup
    BY <1>2, <1>4, <1>5, <1>6 DEF EntersGroup
  <2>2. AllowedStep /\ CausedStep /\ LimitedStep
    BY <1>2, <1>4, <1>6, <2>1, Enters
  <2> QED BY <1>4, <1>6, <2>2, EndsWell DEF Sound, AccessInv
<1>7. CASE ~((req.e.actor /\ BotAdmin) \/ req.e.command = "help")
  <2>1. req'.at = "live" /\ (req.e.actor => "admin" \in unmet')
    BY <1>4, <1>5, <1>7 DEF Names
  <2>2. req.e.command = "settings"
    BY <1>2, <1>7
  <2> HIDE DEF at
  <2>3. RequestOK(req', met', unmet')
    BY <1>1, <1>2, <1>4, <2>1, <2>2 DEF RequestOK, Screened, Charging, Admitted, Screening, Admitting, Working, Plain
  <2> QED BY <1>4, <2>1, <2>3, PassesUnasked DEF Sound, AccessInv
<1> QED BY <1>6, <1>7

LEMMA AsksTelegram == AccessInv /\ Live => Sound
<1> SUFFICES ASSUME AccessInv, Live PROVE Sound
  OBVIOUS
<1>1. req # Nowhere /\ req.at = "live"
  BY DEF Live, Nowhere
<1>2. /\ Screened(req, met, unmet) /\ req.e.command = "settings" /\ Keys(req.e.command) = << >>
      /\ req.e.chat = "group" /\ (req.e.actor => "free" \in met) /\ {"present", "unbanned"} \subseteq met
      /\ {"fresh", "clear"} \subseteq met /\ (req.e.actor => "admin" \in unmet)
  BY <1>1, ScreenedIsPlain DEF Screening, Screened
<1>3. CASE req.e.actor /\ person.local
  <2>1. StartsReading("approval") /\ Step /\ "approval" \in Reading
    BY <1>3 DEF Live, Reading
  <2>2. /\ FactsOK' /\ UNCHANGED facts /\ Request(req') /\ req'.at = "approval" /\ req'.e = req.e
        /\ met \subseteq met' /\ unmet \subseteq unmet'
        /\ ReadSoFar(req', met', unmet') /\ Satisfied' \subseteq met'
    BY <1>1, <2>1, ReadingBegins
  <2>3. "local" \in met'
    BY <1>3, <2>2, Recorded DEF facts
  <2>4. RequestOK(req', met', unmet')
    BY <1>1, <1>2, <1>3, <2>2, <2>3 DEF RequestOK, Screened, Charging, Admitted, Screening, Admitting, Working, Plain
  <2> QED BY <2>2, <2>4, PassesUnasked DEF Sound, AccessInv
<1>4. CASE ~(req.e.actor /\ person.local)
  <2>1. Goes("denied") /\ "denied" \in Ended \cap (Stages \ {"none"})
    BY <1>4 DEF Live, Ended, Stages
  <2>2. /\ FactsOK' /\ Request(req') /\ req'.at = "denied" /\ req'.e = req.e /\ UNCHANGED facts
        /\ met \subseteq met' /\ unmet \subseteq unmet'
        /\ \A n \in Names : n \notin Satisfied' => n \in unmet'
    BY <1>1, <2>1, GoesOn
  <2>3. ~req.e.actor \/ Barred("local")
    BY <1>4, <2>2, Recorded DEF facts, Names, Barred
  <2>4. ~req.e.actor \/ Barred("admin")
    BY <1>2, <2>2 DEF Barred
  <2>5. CommandBarred
    BY <1>2, <2>2, <2>3, <2>4 DEF CommandBarred
  <2> QED BY <1>2, <2>1, <2>2, <2>5, EndsWell, Refuses DEF Sound, AccessInv
<1> QED BY <1>3, <1>4

LEMMA JudgesApproval == AccessInv /\ Approval => Sound
<1> SUFFICES ASSUME AccessInv, Approval PROVE Sound
  OBVIOUS
<1> DEFINE why == Reason(req.seen)
           at == IF why = "allowed" THEN "entered" ELSE "denied"
<1>1. req # Nowhere /\ req.at = "approval" /\ req.left = << >> /\ Goes(at)
  BY DEF Approval, Nowhere
<1>2. /\ Screened(req, met, unmet) /\ req.e.command = "settings" /\ Keys(req.e.command) = << >>
      /\ req.e.chat = "group" /\ req.e.actor /\ "free" \in met /\ {"present", "unbanned"} \subseteq met
      /\ {"fresh", "clear"} \subseteq met /\ "admin" \in unmet /\ "local" \in met
      /\ ReadSoFar(req, met, unmet)
  BY <1>1, ScreenedIsPlain DEF Screening, Screened
<1>3. at \in {"entered", "denied"} /\ at \in Stages \ {"none"} /\ at \in Ended \cup {"entered"}
  BY DEF Stages, Ended
<1>4. /\ FactsOK' /\ Request(req') /\ req'.at = at /\ req'.e = req.e
      /\ met \subseteq met' /\ unmet \subseteq unmet'
  BY <1>1, <1>3, GoesOn
<1>5. /\ why \in {"unavailable", "banned", "unverified", "admin banned", "allowed", "not approved"}
      /\ why = "unavailable" => "present" \in unmet'
      /\ why = "banned" => "unbanned" \in unmet'
      /\ why \in {"unverified", "admin banned"} => "fresh" \in unmet' \/ "clear" \in unmet'
      /\ why = "not approved" => "approved" \in unmet'
      /\ why = "allowed" => "approved" \in met'
  <2> HIDE DEF at
  <2> QED BY <1>1, <1>2, <1>4, ReasonsRecorded
<1> HIDE DEF why
<1>6. AccessInv'
  BY <1>3, <1>4, EndsWell DEF AccessInv
<1>7. CASE why = "allowed"
  <2>1. EntersGroup
    BY <1>2, <1>4, <1>5, <1>7 DEF EntersGroup
  <2> QED BY <1>2, <1>4, <1>6, <1>7, <2>1, Enters DEF Sound
<1>8. CASE why # "allowed"
  <2>1. CommandBarred
    BY <1>2, <1>4, <1>5, <1>8 DEF CommandBarred, Barred
  <2> QED BY <1>2, <1>4, <1>6, <1>8, <2>1, Refuses DEF Sound
<1> QED BY <1>7, <1>8

----------------------------------------------------------------------------
(***************************************************************************)
(* The handlers and what admission reads.                                  *)
(***************************************************************************)

\* A request of a feature offers at least one.
LEMMA OfferedRequest ==
  ASSUME AccessInv, req # Nowhere, req.e.command \notin Plain
  PROVE  /\ Request(req) /\ Charging(req, met, unmet) /\ Admitted(req, met, unmet)
         /\ req.e \in Events /\ req.e.command \in Commands
         /\ req.e.chat \in Chats /\ req.e.actor \in BOOLEAN /\ req.e.trigger \in {"direct", "automatic"}
         /\ Keys(req.e.command) \in Seq(Features) /\ Keys(req.e.command) # << >>
         /\ Len(Keys(req.e.command)) > 0
         /\ Offered(req.e.command) \subseteq Features
         /\ \A f \in Offered(req.e.command) : StopKey(f) = req.e.command
<1>1. Request(req) /\ Charging(req, met, unmet) /\ Admitted(req, met, unmet)
  BY DEF AccessInv, RequestOK
<1>2. /\ req.e \in Events /\ req.e.command \in Commands
      /\ req.e.chat \in Chats /\ req.e.actor \in BOOLEAN /\ req.e.trigger \in {"direct", "automatic"}
  BY <1>1 DEF Request, Events
<1>3. /\ Keys(req.e.command) \in Seq(Features) /\ Keys(req.e.command) # << >>
      /\ Offered(req.e.command) \subseteq Features
      /\ \A f \in Offered(req.e.command) : StopKey(f) = req.e.command
  BY <1>2, Offers
<1> QED BY <1>1, <1>2, <1>3, EmptySeq

\* The identities a handler remembers are compared with those of this moment.
LEMMA SameStays ==
  ASSUME UNCHANGED facts, req'.e = req.e, req'.target = req.target, req'.author = req.author
  PROVE  (SameTarget' <=> SameTarget) /\ (SameAuthor' <=> SameAuthor)
BY DEF SameTarget, SameAuthor, facts

LEMMA Configures ==
  ASSUME AccessInv, NEW f \in Features, Configure(f)
  PROVE  Sound
<1> DEFINE at == IF Evaluate(f, req.e, TRUE) THEN "configured" ELSE "refused"
<1>1. req # Nowhere /\ req.at = "entered" /\ Goes(at)
  <2>1. req.at = "entered" /\ Goes(at)
    BY DEF Configure
  <2> HIDE DEF at
  <2> QED BY <2>1 DEF Nowhere
<1>2. at \in {"configured", "refused"} /\ at \in Ended \cap (Stages \ {"none"})
  BY DEF Ended, Stages
<1> HIDE DEF at
<1>3. FactsOK' /\ Request(req') /\ req'.at = at
  BY <1>1, <1>2, GoesOn
<1> QED BY <1>2, <1>3, EndsWell, PassesUnasked DEF Sound, AccessInv

LEMMA Answers == AccessInv /\ Answer => Sound
<1> SUFFICES ASSUME AccessInv, Answer PROVE Sound
  OBVIOUS
<1>1. req # Nowhere /\ Goes("refused") /\ "refused" \in Ended \cap (Stages \ {"none"})
  BY DEF Answer, Nowhere, Ended, Stages
<1>2. FactsOK' /\ Request(req') /\ req'.at = "refused"
  BY <1>1, GoesOn
<1> QED BY <1>1, <1>2, EndsWell, PassesUnasked DEF Sound, AccessInv

LEMMA ReadsSender == AccessInv /\ Sender => Sound
<1> SUFFICES ASSUME AccessInv, Sender PROVE Sound
  OBVIOUS
<1>1. req # Nowhere /\ req.at = "entered" /\ req.e.command \notin Plain
  BY DEF Sender, Nowhere
<1>2. Request(req)
  BY <1>1, OfferedRequest
<1>3. FactsOK' /\ person \in PersonRow
  BY FactsStay DEF Sender, Begin, AccessInv, FactsOK
<1>4. CASE req.e.actor /\ ~person.active
  <2>1. req' = [req EXCEPT !.at = "dropped"]
    BY <1>4 DEF Sender
  <2>2. req'.at = "dropped" /\ Request(req')
    BY <1>2, <2>1 DEF Request, Stages, Ended
  <2> QED BY <1>3, <2>2, EndsWell, PassesUnasked DEF Sound, AccessInv, Ended
<1>5. CASE ~(req.e.actor /\ ~person.active)
  <2> DEFINE author == IF req.e.actor THEN person.gen ELSE 0
  <2>1. req' = [req EXCEPT !.at = "sender", !.author = author] /\ author \in Nat
    BY <1>3, <1>5 DEF Sender, PersonRow
  <2> HIDE DEF author
  <2>2. req'.at = "sender" /\ req'.e = req.e /\ Request(req')
    BY <1>2, <2>1 DEF Request, Stages, Ended
  <2>3. RequestOK(req', met', unmet')
    BY <1>1, <2>2 DEF RequestOK, Screened, Charging, Admitted, Screening, Admitting, Working
  <2> QED BY <1>3, <2>2, <2>3, PassesUnasked DEF Sound, AccessInv
<1> QED BY <1>4, <1>5

LEMMA ReadsTarget == AccessInv /\ Target => Sound
<1> SUFFICES ASSUME AccessInv, Target PROVE Sound
  OBVIOUS
<1> DEFINE e == req.e
           there == IF e.chat = "private" THEN person.active ELSE group.active
           target == IF e.chat = "private" THEN person.gen ELSE group.gen
           trigger == IF e.chat = "private" THEN "direct" ELSE e.trigger
<1>1. req # Nowhere /\ req.at = "sender"
  BY DEF Target, Nowhere
<1>2. e.command \notin Plain
  BY <1>1 DEF AccessInv, RequestOK, Admitted
<1>3. Request(req) /\ e \in Events
  BY <1>1, <1>2, OfferedRequest
<1>4. FactsOK' /\ person \in PersonRow /\ group \in AccessGroupRow
  BY FactsStay DEF Target, Step, AccessInv, FactsOK
<1>5. CASE ~there \/ (Direct(e) /\ ~e.actor)
  <2>1. req' = [req EXCEPT !.at = "dropped"]
    BY <1>5 DEF Target
  <2>2. req'.at = "dropped" /\ Request(req')
    BY <1>3, <2>1 DEF Request, Stages, Ended
  <2> QED BY <1>4, <2>2, EndsWell, PassesUnasked DEF Sound, AccessInv, Ended
<1>6. CASE ~(~there \/ (Direct(e) /\ ~e.actor))
  <2>1. req' = [req EXCEPT !.at = "addressed", !.target = target, !.e.trigger = trigger]
    BY <1>6 DEF Target
  <2>2. target \in Nat /\ target > 0
    BY <1>4 DEF PersonRow, AccessGroupRow
  <2>3. trigger \in {"direct", "automatic"} /\ (e.command \in Plain => trigger = "direct")
    BY <1>3 DEF Events
  <2> DEFINE e2 == [e EXCEPT !.trigger = trigger]
  <2>4. e2 \in Events /\ e2.command = e.command
    BY <1>3, <2>3 DEF Events
  <2>5. req' = [req EXCEPT !.at = "addressed", !.target = target, !.e = e2]
    <3> HIDE DEF target, trigger
    <3> QED BY <1>3, <2>1 DEF Request
  <2> HIDE DEF e2, target
  <2>6. req'.at = "addressed" /\ req'.e = e2 /\ req'.target = target /\ Request(req')
    BY <1>3, <2>2, <2>4, <2>5 DEF Request, Stages
  <2>7. RequestOK(req', met', unmet')
    BY <1>2, <2>2, <2>4, <2>6 DEF RequestOK, Screened, Charging, Admitted, Screening, Admitting, Working
  <2> QED BY <1>4, <2>6, <2>7, PassesUnasked DEF Sound, AccessInv
<1> QED BY <1>5, <1>6

LEMMA ChecksActor == AccessInv /\ CurrentActor => Sound
<1> SUFFICES ASSUME AccessInv, CurrentActor PROVE Sound
  OBVIOUS
<1> DEFINE stale == ~SameAuthor \/ (req.e.chat = "private" /\ ~SameTarget)
           at == IF stale THEN "denied" ELSE IF req.e.chat = "private" THEN "current" ELSE "authored"
<1>1. req # Nowhere /\ req.at = "addressed" /\ Goes(at)
  BY DEF CurrentActor, Nowhere
<1>2. at \in {"denied", "current", "authored"} /\ at \in Stages \ {"none"}
  BY DEF Stages, Ended
<1>3. req.e.command \notin Plain /\ req.target > 0
  BY <1>1 DEF AccessInv, RequestOK, Admitted, Admitting
<1>4. Keys(req.e.command) # << >> /\ req.target \in Nat
  BY <1>1, <1>3, OfferedRequest DEF Request
<1>5. /\ FactsOK' /\ Request(req') /\ req'.at = at /\ req'.e = req.e /\ UNCHANGED facts
      /\ req'.target = req.target /\ req'.author = req.author
      /\ Satisfied' \subseteq met' /\ \A n \in Names : n \notin Satisfied' => n \in unmet'
  BY <1>1, <1>2, GoesOn
<1>6. ("same" \in Satisfied' <=> SameTarget) /\ ("author" \in Satisfied' <=> SameAuthor)
  <2>1. (SameTarget' <=> SameTarget) /\ (SameAuthor' <=> SameAuthor)
    BY <1>5, SameStays
  <2>2. req'.target # 0
    BY <1>3, <1>4, <1>5
  <2> QED BY <2>1, <2>2, Recorded
<1>7. CASE stale
  <2>1. Barred("same") \/ Barred("author")
    BY <1>5, <1>6, <1>7 DEF Barred, Names
  <2>2. AllowedStep /\ CausedStep /\ LimitedStep
    BY <1>4, <1>5, <1>7, <2>1, Refuses
  <2> QED BY <1>5, <1>7, <2>2, EndsWell DEF Sound, AccessInv, Ended
<1>8. CASE ~stale
  <2>1. "author" \in met' /\ (req.e.chat = "private" => "same" \in met')
    BY <1>5, <1>6, <1>8
  <2>2. req'.at = IF req.e.chat = "private" THEN "current" ELSE "authored"
    BY <1>5, <1>8
  <2> HIDE DEF stale, at
  <2>3. RequestOK(req', met', unmet')
    BY <1>3, <1>5, <2>1, <2>2 DEF RequestOK, Screened, Charging, Admitted, Screening, Admitting, Working
  <2> QED BY <1>5, <2>2, <2>3, PassesUnasked DEF Sound, AccessInv
<1> QED BY <1>7, <1>8

LEMMA ChecksGroup == AccessInv /\ CurrentGroup => Sound
<1> SUFFICES ASSUME AccessInv, CurrentGroup PROVE Sound
  OBVIOUS
<1> DEFINE at == IF SameTarget THEN "current" ELSE "denied"
<1>1. req # Nowhere /\ req.at = "authored" /\ Goes(at)
  BY DEF CurrentGroup, Nowhere
<1>2. at \in {"denied", "current"} /\ at \in Stages \ {"none"}
  BY DEF Stages, Ended
<1>3. req.e.command \notin Plain /\ req.target > 0 /\ "author" \in met
  BY <1>1 DEF AccessInv, RequestOK, Admitted, Admitting
<1>4. Keys(req.e.command) # << >> /\ req.target \in Nat
  BY <1>1, <1>3, OfferedRequest DEF Request
<1>5. /\ FactsOK' /\ Request(req') /\ req'.at = at /\ req'.e = req.e /\ UNCHANGED facts
      /\ req'.target = req.target /\ req'.author = req.author /\ met \subseteq met'
      /\ Satisfied' \subseteq met' /\ \A n \in Names : n \notin Satisfied' => n \in unmet'
  BY <1>1, <1>2, GoesOn
<1>6. "same" \in Satisfied' <=> SameTarget
  <2>1. SameTarget' <=> SameTarget
    BY <1>5, SameStays
  <2>2. req'.target # 0
    BY <1>3, <1>4, <1>5
  <2> QED BY <2>1, <2>2, Recorded
<1>7. CASE ~SameTarget
  <2>1. Barred("same")
    BY <1>5, <1>6, <1>7 DEF Barred, Names
  <2>2. AllowedStep /\ CausedStep /\ LimitedStep
    BY <1>4, <1>5, <1>7, <2>1, Refuses
  <2> QED BY <1>5, <1>7, <2>2, EndsWell DEF Sound, AccessInv, Ended
<1>8. CASE SameTarget
  <2>1. "author" \in met' /\ "same" \in met' /\ req'.at = "current"
    BY <1>3, <1>5, <1>6, <1>8
  <2>2. RequestOK(req', met', unmet')
    BY <1>3, <1>5, <2>1 DEF RequestOK, Screened, Charging, Admitted, Screening, Admitting, Working
  <2> QED BY <1>5, <2>1, <2>2, PassesUnasked DEF Sound, AccessInv
<1> QED BY <1>7, <1>8

LEMMA ReadsStop == AccessInv /\ ReadStop => Sound
<1> SUFFICES ASSUME AccessInv, ReadStop PROVE Sound
  OBVIOUS
<1> DEFINE k == req.e.command
           at == IF k \in switches.stopped THEN "denied" ELSE "stamped"
<1>1. req # Nowhere /\ req.at = "current"
  BY DEF ReadStop, Nowhere
<1>2. k \notin Plain /\ req.target > 0 /\ "author" \in met /\ "same" \in met
  BY <1>1 DEF AccessInv, RequestOK, Admitted, Admitting
<1>3. /\ Request(req) /\ Keys(k) # << >> /\ Keys(k) \in Seq(Features) /\ Len(Keys(k)) > 0
      /\ Offered(k) \subseteq Features /\ \A f \in Offered(k) : StopKey(f) = k
  BY <1>1, <1>2, OfferedRequest
<1>4. req' = [req EXCEPT !.at = at, !.epoch = switches.epoch[k], !.left = Keys(k), !.ok = FALSE]
  BY DEF ReadStop
<1>5. at \in {"denied", "stamped"}
  OBVIOUS
<1> HIDE DEF at
<1>6. req'.at = at /\ req'.e = req.e /\ req'.left = Keys(k) /\ ~req'.ok /\ req'.target = req.target
  BY <1>3, <1>4 DEF Request
<1>7. Request(req') /\ req' # Nowhere
  BY <1>3, <1>4, <1>5, <1>6 DEF Request, Stages, Ended, Nowhere
<1>8. FactsOK' /\ UNCHANGED facts /\ Track(FALSE)
  BY FactsStay DEF ReadStop, Step
<1>9. met \subseteq met' /\ \A n \in Names : n \notin Satisfied' => n \in unmet'
  BY <1>7, <1>8, Grows
<1>10. CASE k \in switches.stopped
  <2>1. at = "denied"
    BY <1>10 DEF at
  <2>2. ASSUME NEW f \in Offered(k) PROVE f \in unmet'
    <3>1. f \in Features /\ StopKey(f) = k
      BY <1>3, <2>2
    <3>2. ~Usable(f, req.e)
      BY <1>10, <3>1 DEF Usable
    <3>3. Usable(f, req.e)' <=> Usable(f, req.e)
      BY <1>6, <1>8 DEF Usable, Selected, StopKey, facts
    <3> QED BY <1>9, <3>1, <3>2, <3>3, Recorded DEF Names
  <2>3. \A i \in DOMAIN Keys(k) : Barred(Keys(k)[i])
    BY <2>2 DEF Offered, Barred
  <2>4. AllowedStep /\ CausedStep /\ LimitedStep
    BY <1>3, <1>6, <2>1, <2>3, Refuses
  <2> QED BY <1>6, <1>7, <1>8, <2>1, <2>4, EndsWell DEF Sound, AccessInv, Ended
<1>11. CASE k \notin switches.stopped
  <2>1. at = "stamped"
    BY <1>11 DEF at
  <2>2. /\ \A i \in DOMAIN Keys(k) : Keys(k)[i] \in Offered(k)
        /\ \A f \in Offered(k) : \E i \in DOMAIN Keys(k) : Keys(k)[i] = f
    BY DEF Offered
  <2>3. Evaluated(req', met', unmet')
    BY <1>3, <1>6, <2>2 DEF Evaluated
  <2>4. RequestOK(req', met', unmet')
    BY <1>2, <1>6, <1>7, <1>9, <2>1, <2>3 DEF RequestOK, Screened, Charging, Admitted, Screening, Admitting, Working
  <2> QED BY <1>6, <1>8, <2>1, <2>4, PassesUnasked DEF Sound, AccessInv
<1> QED BY <1>10, <1>11

LEMMA Captured == AccessInv /\ Capture => Sound
<1> SUFFICES ASSUME AccessInv, Capture PROVE Sound
  OBVIOUS
<1> DEFINE h == Head(req.left)
           c == req.e.command
           passes == Evaluate(h, req.e, FALSE)
           ok == req.ok \/ passes
           at == IF Len(req.left) > 1 THEN "stamped" ELSE IF ok THEN "captured" ELSE "denied"
<1>1. req # Nowhere /\ req.at = "stamped"
  BY DEF Capture, Nowhere
<1>2. /\ c \notin Plain /\ req.target > 0 /\ "author" \in met /\ "same" \in met
      /\ Evaluated(req, met, unmet)
  BY <1>1 DEF AccessInv, RequestOK, Admitted, Admitting
<1>3. Request(req) /\ Keys(c) # << >> /\ Offered(c) \subseteq Features
  BY <1>1, <1>2, OfferedRequest
<1>4. req' = [req EXCEPT !.ok = ok, !.left = Tail(@), !.at = at]
  BY <1>1 DEF Capture
<1>5. at \in {"denied", "captured", "stamped"} /\ ok \in BOOLEAN
  BY <1>3 DEF Request, Evaluate
<1>6. /\ req'.at = at /\ req'.e = req.e /\ req'.left = Tail(req.left) /\ (req'.ok <=> ok)
      /\ req'.target = req.target
  <2> HIDE DEF at, ok
  <2> QED BY <1>3, <1>4 DEF Request
<1>7. Request(req') /\ req' # Nowhere
  <2> HIDE DEF at, ok
  <2> QED BY <1>3, <1>4, <1>5, <1>6 DEF Request, Stages, Ended, Nowhere
<1>8. FactsOK' /\ UNCHANGED facts /\ Track(FALSE)
  BY FactsStay DEF Capture, Step
<1>9. /\ met \subseteq met' /\ unmet \subseteq unmet' /\ Satisfied' \subseteq met'
      /\ \A n \in Names : n \notin Satisfied' => n \in unmet'
  BY <1>7, <1>8, Grows
<1>10. req.left \in Seq(Features) /\ Len(req.left) > 0 /\ Len(req.left) \in Nat
  BY <1>2 DEF Evaluated
<1>11. h \in Names /\ h \in Offered(c) /\ (passes <=> h \in Satisfied')
  <2>1. h \in Features /\ h = req.left[1] /\ 1 \in DOMAIN req.left
    BY <1>10, LeftParts
  <2>2. passes <=> h \in Satisfied'
    <3> HIDE DEF h
    <3> QED BY <1>1, <1>6, <1>8, <2>1, EvaluationRecorded
  <2> QED BY <1>2, <2>1, <2>2 DEF Evaluated, Names
<1>12. ok => \E f \in Offered(c) : f \in met'
  BY <1>2, <1>9, <1>11 DEF Evaluated
<1>13. ASSUME ~ok, NEW f \in Offered(c)
       PROVE  f \in unmet' \/ \E i \in DOMAIN Tail(req.left) : Tail(req.left)[i] = f
  <2>1. ~req.ok /\ ~passes
    BY <1>13
  <2>2. h \in unmet'
    BY <1>9, <1>11, <2>1
  <2>3. f \in unmet \/ \E i \in DOMAIN req.left : req.left[i] = f
    BY <1>2, <2>1 DEF Evaluated
  <2> QED BY <1>9, <1>10, <2>2, <2>3, LeftParts
<1> HIDE DEF passes, h
<1>14. CASE Len(req.left) > 1
  <2>1. at = "stamped" /\ Len(req.left) # 1
    BY <1>10, <1>14, LeftParts
  <2>2. Tail(req.left) \in Seq(Features) /\ Len(Tail(req.left)) > 0
    BY <1>10, <2>1, LeftParts
  <2>3. \A i \in DOMAIN Tail(req.left) : Tail(req.left)[i] \in Offered(c)
    BY <1>2, <1>10, LeftParts DEF Evaluated
  <2> HIDE DEF ok, at
  <2>4. Evaluated(req', met', unmet')
    BY <1>6, <1>12, <1>13, <2>2, <2>3 DEF Evaluated
  <2>5. RequestOK(req', met', unmet')
    BY <1>2, <1>6, <1>7, <1>9, <2>1, <2>4 DEF RequestOK, Screened, Charging, Admitted, Screening, Admitting, Working
  <2> QED BY <1>1, <1>6, <1>8, <2>1, <2>5, PassesUnasked DEF Sound, AccessInv
<1>15. CASE ~(Len(req.left) > 1) /\ ok
  <2>1. at = "captured"
    BY <1>15
  <2> HIDE DEF at
  <2>2. \E f \in Offered(c) : f \in met'
    BY <1>12, <1>15
  <2>3. RequestOK(req', met', unmet')
    BY <1>2, <1>6, <1>7, <1>9, <2>1, <2>2 DEF RequestOK, Screened, Charging, Admitted, Screening, Admitting, Working
  <2> QED BY <1>6, <1>8, <2>1, <2>3, PassesUnasked DEF Sound, AccessInv
<1>16. CASE ~(Len(req.left) > 1) /\ ~ok
  <2>1. at = "denied"
    BY <1>16
  <2> HIDE DEF at
  <2>2. Len(req.left) = 1
    BY <1>10, <1>16, LeftParts
  <2>3. DOMAIN Tail(req.left) = {}
    BY <1>10, <2>2, LeftParts
  <2>4. \A i \in DOMAIN Keys(c) : Barred(Keys(c)[i])
    BY <1>13, <1>16, <2>3 DEF Offered, Barred
  <2>5. AllowedStep /\ CausedStep /\ LimitedStep
    BY <1>3, <1>6, <2>1, <2>4, Refuses
  <2> QED BY <1>6, <1>7, <1>8, <2>1, <2>5, EndsWell DEF Sound, AccessInv, Ended
<1> QED BY <1>14, <1>15, <1>16

LEMMA ResolvesSubject == AccessInv /\ Subject => Sound
<1> SUFFICES ASSUME AccessInv, Subject PROVE Sound
  OBVIOUS
<1>1. req # Nowhere /\ req.at = "captured"
  BY DEF Subject, Nowhere
<1>2. /\ req.e.command \notin Plain /\ req.target > 0 /\ "author" \in met /\ "same" \in met
      /\ \E f \in Offered(req.e.command) : f \in met
  BY <1>1 DEF AccessInv, RequestOK, Admitted, Admitting
<1>3. Request(req)
  BY <1>1, <1>2, OfferedRequest
<1>4. FactsOK' /\ UNCHANGED facts /\ Track(FALSE) /\ person \in PersonRow
  BY FactsStay DEF Subject, Step, AccessInv, FactsOK
<1>5. CASE ~SubjectActive(req.e)
  <2>1. req' = [req EXCEPT !.at = "dropped"]
    BY <1>5 DEF Subject
  <2>2. req'.at = "dropped" /\ Request(req')
    BY <1>3, <2>1 DEF Request, Stages, Ended
  <2> QED BY <1>4, <2>2, EndsWell, PassesUnasked DEF Sound, AccessInv, Ended
<1>6. CASE SubjectActive(req.e)
  <2> DEFINE trusted == Direct(req.e) /\ person.trusted
             usage == [kind |-> SubjectKind(req.e), gen |-> SubjectGen(req.e), trusted |-> trusted]
  <2>1. req' = [req EXCEPT !.at = "subject", !.usage = usage]
    BY <1>6 DEF Subject
  <2>2. trusted \in BOOLEAN
    BY <1>4 DEF PersonRow, Direct
  <2>3. usage = [kind |-> SubjectKind(req.e), gen |-> usage.gen, trusted |-> usage.trusted] /\ usage.trusted = trusted
    OBVIOUS
  <2>4. Direct(req.e) => req.e.actor /\ person.active
    BY <1>6 DEF SubjectActive
  <2> HIDE DEF usage
  <2>5. req'.at = "subject" /\ req'.e = req.e /\ req'.usage = usage /\ req'.target = req.target /\ Request(req')
    BY <1>3, <2>1 DEF Request, Stages
  <2>6. /\ met \subseteq met' /\ Satisfied' \subseteq met'
        /\ \A n \in Names : n \notin Satisfied' => n \in unmet'
    BY <1>4, <2>5, Grows DEF Nowhere
  <2>7. /\ trusted => Direct(req.e) /\ "trusted" \in met'
        /\ Direct(req.e) /\ ~trusted => "trusted" \in unmet'
    BY <1>4, <2>4, <2>6, Recorded DEF facts, Names
  <2> HIDE DEF trusted
  <2>8. Charging(req', met', unmet')
    <3>1. SubjectKind(req'.e) = SubjectKind(req.e) /\ (Direct(req'.e) <=> Direct(req.e))
      BY <2>5
    <3>2. usage.trusted \in BOOLEAN /\ (usage.trusted => Direct(req.e) /\ "trusted" \in met')
      BY <2>2, <2>3, <2>7
    <3>3. Direct(req.e) => req.e.actor /\ (~usage.trusted => "trusted" \in unmet')
      BY <2>3, <2>4, <2>7
    <3> QED BY <2>3, <2>5, <3>1, <3>2, <3>3 DEF Charging
  <2>9. Screened(req', met', unmet') /\ Admitted(req', met', unmet')
    BY <1>2, <2>5, <2>6 DEF Screened, Admitted, Screening, Admitting, Working
  <2> QED BY <1>4, <2>5, <2>8, <2>9, PassesUnasked DEF Sound, AccessInv, RequestOK
<1> QED BY <1>5, <1>6

LEMMA ReadsRole == AccessInv /\ Bypass => Sound
<1> SUFFICES ASSUME AccessInv, Bypass PROVE Sound
  OBVIOUS
<1> DEFINE ok == req.usage.kind = "user" /\ BotAdmin
<1>1. req # Nowhere /\ req.at = "subject"
  BY DEF Bypass, Nowhere
<1>2. /\ req.e.command \notin Plain /\ req.target > 0 /\ "author" \in met /\ "same" \in met
      /\ \E f \in Offered(req.e.command) : f \in met
  BY <1>1 DEF AccessInv, RequestOK, Admitted, Admitting
<1>3. Request(req) /\ Charging(req, met, unmet)
  BY <1>1, <1>2, OfferedRequest
<1>4. FactsOK' /\ UNCHANGED facts /\ Track(FALSE)
  BY FactsStay DEF Bypass, Step
<1>5. req' = [req EXCEPT !.at = "bypass", !.ok = ok] /\ ok \in BOOLEAN
  BY DEF Bypass, BotAdmin
<1>6. ok => BotAdmin /\ Direct(req.e)
  <2>1. req.usage = [kind |-> SubjectKind(req.e), gen |-> req.usage.gen, trusted |-> req.usage.trusted]
    BY <1>1, <1>3 DEF Charging
  <2>2. req.usage.kind = SubjectKind(req.e)
    BY <2>1
  <2> QED BY <2>2 DEF SubjectKind
<1> HIDE DEF ok
<1>7. /\ req'.at = "bypass" /\ req'.e = req.e /\ req'.usage = req.usage /\ req'.target = req.target
      /\ (req'.ok <=> ok) /\ Request(req')
  BY <1>3, <1>5 DEF Request, Stages
<1>8. met \subseteq met' /\ unmet \subseteq unmet' /\ Satisfied' \subseteq met'
  BY <1>4, <1>7, Grows DEF Nowhere
<1>9. ok => "admin" \in met'
  BY <1>4, <1>6, <1>8, Recorded DEF facts, BotAdmin
<1>10. Charging(req', met', unmet')
  BY <1>1, <1>3, <1>6, <1>7, <1>8, <1>9 DEF Charging
<1>11. Screened(req', met', unmet') /\ Admitted(req', met', unmet')
  BY <1>2, <1>7, <1>8 DEF Screened, Admitted, Screening, Admitting, Working
<1> QED BY <1>4, <1>7, <1>10, <1>11, PassesUnasked DEF Sound, AccessInv, RequestOK

----------------------------------------------------------------------------
(***************************************************************************)
(* The limits.                                                             *)
(***************************************************************************)
LEMMA ChargedFeature ==
  ASSUME NEW c \in Commands, c \notin Plain
  PROVE  Charged(c) \in Features
<1>1. AccessAssumption
  BY AccessAssumption
<1>2. Splits[1] \in Features
  BY <1>1 DEF AccessAssumption
<1>3. c = "media" \/ c \in Features
  BY DEF Commands
<1> QED BY <1>2, <1>3 DEF Charged

\* Limits that cover a feature are the defaults of the subject's kind, or its
\* own of this very generation.
LEMMA LimitsOfKind ==
  ASSUME NEW f \in Features, NEW kind, NEW gen, NEW trusted \in BOOLEAN,
         Covered(f, LimitsFor(f, kind, gen, trusted))
  PROVE  LET limits == OfFamily(f, LimitsFor(f, kind, gen, trusted)) IN
         /\ \E b \in DOMAIN limits : TRUE
         /\ \A b \in DOMAIN limits :
              \/ /\ limits[b] = "override"
                 /\ b \in DOMAIN OfFamily(f, [d \in Buckets(f) |-> "own"])
                 /\ IsCurrent(kind, gen) /\ <<kind, gen, b>> \in overrides
              \/ limits[b] = (IF kind = "group" THEN "group" ELSE IF trusted THEN "trusted" ELSE "ordinary")
<1> DEFINE all == LimitsFor(f, kind, gen, trusted)
           limits == OfFamily(f, all)
           own == Own(f, kind, gen)
           tier == IF kind = "group" THEN "group" ELSE IF trusted THEN "trusted" ELSE "ordinary"
           shared == IF f \in Captures THEN {Definition[f].family} ELSE Buckets(f)
<1>1. Buckets(f) \subseteq DOMAIN all
  BY DEF Covered
<1>2. shared \subseteq Buckets(f) /\ \E b \in shared : TRUE
  BY DEF Buckets
<1>3. own \subseteq Buckets(f) /\ \A b \in own : IsCurrent(kind, gen) /\ <<kind, gen, b>> \in overrides
  BY DEF Own
<1>4. /\ DOMAIN all \subseteq Buckets(f)
      /\ \A b \in DOMAIN all : IF b \in own THEN all[b] = "override" ELSE all[b] = tier
  <2>1. CASE Definition[f].family # "media"
    <3>1. Defaults(f, kind, trusted) = << >>
      BY <2>1 DEF Defaults
    <3>2. DOMAIN << >> = {}
      OBVIOUS
    <3>3. all = [b \in own |-> IF b \in own THEN "override" ELSE Defaults(f, kind, trusted)[b]]
      BY <3>1, <3>2 DEF LimitsFor
    <3> HIDE DEF own, all, tier
    <3> QED BY <1>3, <3>3
  <2>2. CASE Definition[f].family = "media"
    <3>1. Defaults(f, kind, trusted) = [b \in Buckets(f) |-> tier]
      BY <2>2 DEF Defaults
    <3>2. all = [b \in Buckets(f) \cup own |-> IF b \in own THEN "override" ELSE Defaults(f, kind, trusted)[b]]
      BY <3>1 DEF LimitsFor
    <3> HIDE DEF own, all, tier
    <3> QED BY <1>3, <3>1, <3>2
  <2> QED BY <2>1, <2>2
<1>5. limits = [b \in DOMAIN all \cap shared |-> all[b]]
  BY DEF OfFamily
<1>6. DOMAIN OfFamily(f, [d \in Buckets(f) |-> "own"]) = Buckets(f) \cap shared
  BY DEF OfFamily
<1> HIDE DEF all, limits, own, tier, shared
<1>7. DOMAIN limits = shared /\ \A b \in shared : limits[b] = all[b]
  BY <1>1, <1>2, <1>5
<1> QED BY <1>1, <1>2, <1>3, <1>4, <1>6, <1>7 DEF limits, all, tier

\* Limits resolved of the subject that is there are what the history allows.
LEMMA LimitsAllowed ==
  ASSUME AccessInv, UNCHANGED facts, NEW e \in Events, req'.e = e, e.command \notin Plain,
         NEW gen, NEW trusted \in BOOLEAN, NEW bypass \in BOOLEAN,
         NEW f, f = Charged(e.command),
         Covered(f, LimitsFor(f, SubjectKind(e), gen, trusted)),
         req'.usage = [kind |-> SubjectKind(e), bypass |-> bypass,
                       limits |-> OfFamily(f, LimitsFor(f, SubjectKind(e), gen, trusted))],
         Satisfied' \subseteq met',
         Direct(e) => e.actor,
         bypass => Direct(e) /\ "admin" \in met',
         trusted => Direct(e) /\ "trusted" \in met',
         Direct(e) /\ ~trusted => "trusted" \in unmet'
  PROVE  LET u == req'.usage
             tiers == {u.limits[b] : b \in DOMAIN u.limits} IN
         /\ tiers # {}
         /\ "override" \in tiers => "given" \in met'
         /\ IF Direct(req'.e)
            THEN /\ u.kind = "user" /\ "group" \notin tiers
                 /\ u.bypass => "admin" \in met'
                 /\ "trusted" \in tiers => "trusted" \in met'
                 /\ "ordinary" \in tiers => "trusted" \in unmet'
            ELSE u.kind = "group" /\ ~u.bypass /\ tiers \subseteq {"group", "override"}
<1> DEFINE kind == SubjectKind(e)
           limits == OfFamily(f, LimitsFor(f, kind, gen, trusted))
           tier == IF kind = "group" THEN "group" ELSE IF trusted THEN "trusted" ELSE "ordinary"
           tiers == {limits[b] : b \in DOMAIN limits}
<1>1. f \in Features /\ e.command \in Commands
  BY ChargedFeature DEF Events
<1>2. /\ \E b \in DOMAIN limits : TRUE
      /\ \A b \in DOMAIN limits :
           \/ /\ limits[b] = "override"
              /\ b \in DOMAIN OfFamily(f, [d \in Buckets(f) |-> "own"])
              /\ IsCurrent(kind, gen) /\ <<kind, gen, b>> \in overrides
           \/ limits[b] = tier
  BY <1>1, LimitsOfKind
<1>3. req'.usage.kind = kind /\ (req'.usage.bypass <=> bypass) /\ req'.usage.limits = limits
  OBVIOUS
<1>4. kind = IF Direct(e) THEN "user" ELSE "group"
  BY DEF SubjectKind
<1>5. ASSUME NEW b \in DOMAIN limits, limits[b] = "override"
      PROVE  "given" \in met'
  <2>1. limits[b] # tier
    BY <1>5
  <2>2. /\ b \in DOMAIN OfFamily(f, [d \in Buckets(f) |-> "own"])
        /\ IsCurrent(kind, gen) /\ <<kind, gen, b>> \in overrides
    BY <1>2, <1>5, <2>1
  <2>3. SubjectGen(e) = gen /\ SubjectActive(e)
    BY <1>4, <2>2 DEF SubjectGen, SubjectActive, IsCurrent, Subjects
  <2>4. Given(e)
    BY <2>2, <2>3 DEF Given
  <2>5. Given(req.e)' <=> Given(e)
    BY DEF Given, SubjectActive, SubjectKind, SubjectGen, Subjects, Direct, facts
  <2> QED BY <2>4, <2>5, Recorded
<1>6. tiers # {} /\ tiers \subseteq {"override", tier}
  <2> HIDE DEF limits, tier
  <2> QED BY <1>2
<1>7. "override" \in tiers => "given" \in met'
  BY <1>5
<1>8. Direct(req'.e) <=> Direct(e)
  OBVIOUS
<1> HIDE DEF limits, tiers
<1>9. CASE Direct(e)
  BY <1>3, <1>4, <1>6, <1>7, <1>8, <1>9 DEF tiers
<1>10. CASE ~Direct(e)
  BY <1>3, <1>4, <1>6, <1>7, <1>8, <1>10 DEF tiers
<1> QED BY <1>9, <1>10

LEMMA ResolvesLimits == AccessInv /\ Overrides => Sound
<1> SUFFICES ASSUME AccessInv, Overrides PROVE Sound
  OBVIOUS
<1> DEFINE e == req.e
           f == Charged(e.command)
           limits == LimitsFor(f, req.usage.kind, req.usage.gen, req.usage.trusted)
           usage == [kind |-> req.usage.kind, bypass |-> req.ok, limits |-> OfFamily(f, limits)]
<1>1. req # Nowhere /\ req.at = "bypass"
  BY DEF Overrides, Nowhere
<1>2. /\ e.command \notin Plain /\ req.target > 0 /\ "author" \in met /\ "same" \in met
      /\ \E k \in Offered(e.command) : k \in met
  BY <1>1 DEF AccessInv, RequestOK, Admitted, Admitting
<1>3. Request(req) /\ Charging(req, met, unmet) /\ e \in Events
  BY <1>1, <1>2, OfferedRequest
<1>4. FactsOK' /\ UNCHANGED facts /\ Track(FALSE)
  BY FactsStay DEF Overrides, Step
<1>5. CASE ~Covered(f, limits)
  <2>1. req' = [req EXCEPT !.at = "dropped"]
    BY <1>5 DEF Overrides
  <2>2. req'.at = "dropped" /\ Request(req')
    BY <1>3, <2>1 DEF Request, Stages, Ended
  <2> QED BY <1>4, <2>2, EndsWell, PassesUnasked DEF Sound, AccessInv, Ended
<1>6. CASE Covered(f, limits)
  <2>1. req' = [req EXCEPT !.at = "queued", !.usage = usage]
    BY <1>6 DEF Overrides
  <2> HIDE DEF usage
  <2>2. req'.at = "queued" /\ req'.e = e /\ req'.usage = usage /\ req'.target = req.target /\ Request(req')
    BY <1>3, <2>1 DEF Request, Stages
  <2>3. met \subseteq met' /\ unmet \subseteq unmet' /\ Satisfied' \subseteq met'
    BY <1>4, <2>2, Grows DEF Nowhere
  <2>4. /\ req.usage = [kind |-> SubjectKind(e), gen |-> req.usage.gen, trusted |-> req.usage.trusted]
        /\ req.usage.trusted \in BOOLEAN /\ req.ok \in BOOLEAN
        /\ req.usage.trusted => Direct(e) /\ "trusted" \in met'
        /\ Direct(e) => e.actor /\ (~req.usage.trusted => "trusted" \in unmet')
        /\ req.ok => Direct(e) /\ "admin" \in met'
    BY <1>1, <1>3, <2>3 DEF Charging, Request
  <2>5. req.usage.kind = SubjectKind(e)
    BY <2>4
  <2>6. /\ Covered(f, LimitsFor(f, SubjectKind(e), req.usage.gen, req.usage.trusted))
        /\ req'.usage = [kind |-> SubjectKind(e), bypass |-> req.ok,
                         limits |-> OfFamily(f, LimitsFor(f, SubjectKind(e), req.usage.gen, req.usage.trusted))]
    BY <1>6, <2>2, <2>5 DEF usage
  <2> HIDE DEF limits, f, e
  <2>7. LimitedStep
    <3>1. f = Charged(e.command)
      BY DEF f
    <3> QED BY <1>2, <1>3, <1>4, <2>2, <2>3, <2>4, <2>6, <3>1, LimitsAllowed DEF LimitedStep
  <2>8. \E i \in DOMAIN Keys(e.command) : Keys(e.command)[i] \in met'
    BY <1>2, <2>3 DEF Offered
  <2>9. AllowedStep /\ CausedStep
    BY <1>2, <2>2, <2>3, <2>8 DEF AllowedStep, CausedStep, Passes, e
  <2>10. RequestOK(req', met', unmet')
    BY <1>2, <2>2 DEF RequestOK, Screened, Charging, Admitted, Screening, Admitting, Working, e
  <2> QED BY <1>4, <2>7, <2>9, <2>10 DEF Sound, AccessInv
<1> QED BY <1>5, <1>6

----------------------------------------------------------------------------
(***************************************************************************)
(* The worker.                                                             *)
(***************************************************************************)
LEMMA ReservesLimits == AccessInv /\ WorkerReserves => Sound
<1> SUFFICES ASSUME AccessInv, WorkerReserves PROVE Sound
  OBVIOUS
<1> DEFINE e == req.e
           f == Charged(e.command)
           trusted == Direct(e) /\ person.trusted
           bypass == Direct(e) /\ BotAdmin
<1>1. req # Nowhere /\ req.at = "queued"
  BY DEF WorkerReserves, Nowhere
<1>2. e.command \notin Plain /\ req.target > 0
  BY <1>1 DEF AccessInv, RequestOK, Admitted, Working
<1>3. Request(req) /\ e \in Events
  BY <1>1, <1>2, OfferedRequest
<1>4. FactsOK' /\ UNCHANGED facts /\ Track(TRUE) /\ person \in PersonRow
  BY FactsStay DEF WorkerReserves, Begin, AccessInv, FactsOK
<1>5. CASE ~Resolvable(f, e)
  <2>1. req' = [req EXCEPT !.at = "abandoned"]
    BY <1>5 DEF WorkerReserves
  <2>2. req'.at = "abandoned" /\ Request(req')
    BY <1>3, <2>1 DEF Request, Stages, Ended
  <2> QED BY <1>4, <2>2, EndsWell, PassesUnasked DEF Sound, AccessInv, Ended
<1>6. CASE Resolvable(f, e)
  <2>1. req' = [req EXCEPT !.at = "reserved", !.usage = Usage(f, e)]
    BY <1>6 DEF WorkerReserves
  <2>2. /\ req'.at = "reserved" /\ req'.e = e /\ req'.usage = Usage(f, e)
        /\ req'.target = req.target /\ Request(req')
    BY <1>3, <2>1 DEF Request, Stages
  <2>3. met' = Satisfied' /\ unmet' = Names \ Satisfied'
    BY <1>4, <2>2, Restarts DEF Nowhere
  <2>4. /\ Covered(f, LimitsFor(f, SubjectKind(e), SubjectGen(e), trusted))
        /\ SubjectActive(e)
    BY <1>6 DEF Resolvable
  <2>5. req'.usage = [kind |-> SubjectKind(e), bypass |-> bypass,
                      limits |-> OfFamily(f, LimitsFor(f, SubjectKind(e), SubjectGen(e), trusted))]
    BY <2>2 DEF Usage
  <2>6. Direct(e) => e.actor /\ person.active
    BY <2>4 DEF SubjectActive
  <2>7. trusted \in BOOLEAN /\ bypass \in BOOLEAN
    BY <1>4 DEF PersonRow, BotAdmin, Direct
  <2>8. /\ bypass => Direct(e) /\ "admin" \in met'
        /\ trusted => Direct(e) /\ "trusted" \in met'
        /\ Direct(e) /\ ~trusted => "trusted" \in unmet'
    BY <1>4, <2>3, <2>6, Recorded DEF BotAdmin, facts, Names
  <2> HIDE DEF f, e, trusted, bypass
  <2>9. LimitedStep
    <3>1. f = Charged(e.command) /\ (Direct(e) => e.actor) /\ Satisfied' \subseteq met'
      BY <2>3, <2>6 DEF f
    <3> QED BY <1>2, <1>3, <1>4, <2>2, <2>4, <2>5, <2>7, <2>8, <3>1, LimitsAllowed DEF LimitedStep
  <2>10. AllowedStep /\ CausedStep
    BY <2>2 DEF AllowedStep, CausedStep, Passes
  <2>11. RequestOK(req', met', unmet')
    BY <1>2, <2>2 DEF RequestOK, Screened, Charging, Admitted, Screening, Admitting, Working, e
  <2> QED BY <1>4, <2>9, <2>10, <2>11 DEF Sound, AccessInv
<1> QED BY <1>5, <1>6

LEMMA ChecksStop == AccessInv /\ CheckStop => Sound
<1> SUFFICES ASSUME AccessInv, CheckStop PROVE Sound
  OBVIOUS
<1>1. req # Nowhere /\ req.at = "reserved"
  BY DEF CheckStop, Nowhere
<1>2. req.e.command \notin Plain /\ req.target > 0
  BY <1>1 DEF AccessInv, RequestOK, Admitted, Working
<1>3. PICK at \in {"cancelled", "running"} : Goes(at)
  BY DEF CheckStop
<1>4. at \in Stages \ {"none"}
  BY <1>3 DEF Stages, Ended
<1>5. FactsOK' /\ Request(req') /\ req'.at = at /\ req'.e = req.e /\ req'.target = req.target
  BY <1>1, <1>3, <1>4, GoesOn
<1>6. RequestOK(req', met', unmet')
  BY <1>2, <1>3, <1>5 DEF RequestOK, Screened, Charging, Admitted, Screening, Admitting, Working, Ended
<1> QED BY <1>3, <1>5, <1>6, PassesUnasked DEF Sound, AccessInv

LEMMA Extracts ==
  ASSUME AccessInv, NEW f \in Features, Extract(f)
  PROVE  Sound
<1>1. req # Nowhere /\ req.at = "running" /\ f \in Captures
  <2>1. req.at = "running" /\ f \in Captures
    BY DEF Extract
  <2> QED BY <2>1 DEF Nowhere
<1>2. req.e.command \notin Plain /\ req.target > 0 /\ Request(req)
  BY <1>1 DEF AccessInv, RequestOK, Admitted, Working
<1>3. FactsOK'
  BY FactsStay DEF Extract, Begin
<1>4. CASE req.e.command = "media"
  <2>1. req' = [req EXCEPT !.at = "extracted", !.f = f]
    BY <1>4 DEF Extract
  <2>2. req'.at = "extracted" /\ req'.e = req.e /\ req'.target = req.target /\ req'.f = f /\ Request(req')
    BY <1>2, <2>1 DEF Request, Stages
  <2>3. RequestOK(req', met', unmet')
    BY <1>1, <1>2, <1>4, <2>2 DEF RequestOK, Screened, Charging, Admitted, Screening, Admitting, Working
  <2> QED BY <1>3, <2>2, <2>3, PassesUnasked DEF Sound, AccessInv
<1>5. CASE req.e.command # "media"
  <2>1. req' = [req EXCEPT !.at = "failed"]
    BY <1>5 DEF Extract
  <2>2. req'.at = "failed" /\ Request(req')
    BY <1>2, <2>1 DEF Request, Stages, Ended
  <2> QED BY <1>3, <2>2, EndsWell, PassesUnasked DEF Sound, AccessInv, Ended
<1> QED BY <1>4, <1>5

LEMMA ChecksTarget == AccessInv /\ TargetGate => Sound
<1> SUFFICES ASSUME AccessInv, TargetGate PROVE Sound
  OBVIOUS
<1> DEFINE at == IF SameTarget THEN "gated" ELSE "skipped"
<1>1. req # Nowhere /\ req.at = "extracted" /\ Goes(at)
  BY DEF TargetGate, Nowhere
<1>2. at \in {"gated", "skipped"} /\ at \in Stages \ {"none"}
  BY DEF Stages, Ended
<1>3. req.e.command \notin Plain /\ req.target > 0 /\ req.f \in Captures /\ req.e.command = "media"
  BY <1>1 DEF AccessInv, RequestOK, Admitted, Working
<1>4. /\ FactsOK' /\ Request(req') /\ req'.at = at /\ req'.e = req.e /\ UNCHANGED facts
      /\ req'.target = req.target /\ req'.author = req.author /\ req'.f = req.f /\ Satisfied' \subseteq met'
  BY <1>1, <1>2, GoesOn
<1>5. at = "gated" => "same" \in met'
  <2>1. SameTarget' <=> SameTarget
    BY <1>4, SameStays
  <2> QED BY <1>4, <2>1, Recorded
<1> HIDE DEF at
<1>6. RequestOK(req', met', unmet')
  BY <1>2, <1>3, <1>4, <1>5 DEF RequestOK, Screened, Charging, Admitted, Screening, Admitting, Working, Ended
<1> QED BY <1>2, <1>4, <1>6, PassesUnasked DEF Sound, AccessInv

LEMMA ChecksSplit == AccessInv /\ SplitGate => Sound
<1> SUFFICES ASSUME AccessInv, SplitGate PROVE Sound
  OBVIOUS
<1> DEFINE passes == Evaluate(req.f, req.e, FALSE)
           at == IF passes THEN "cleared" ELSE "skipped"
<1>1. req # Nowhere /\ req.at = "gated" /\ Goes(at)
  <2>1. req.at = "gated" /\ Goes(at)
    BY DEF SplitGate
  <2> HIDE DEF at
  <2> QED BY <2>1 DEF Nowhere
<1>2. at \in {"cleared", "skipped"} /\ at \in Stages \ {"none"}
  BY DEF Stages, Ended
<1>3. /\ req.e.command \notin Plain /\ req.target > 0 /\ req.f \in Captures /\ req.e.command = "media"
      /\ "same" \in met
  BY <1>1 DEF AccessInv, RequestOK, Admitted, Working
<1>4. /\ FactsOK' /\ Request(req') /\ req'.at = at /\ req'.e = req.e /\ UNCHANGED facts
      /\ req'.target = req.target /\ req'.f = req.f /\ met \subseteq met' /\ Satisfied' \subseteq met'
  BY <1>1, <1>2, GoesOn
<1>5. req.f \in Features
  BY <1>3, CapturesAreFeatures
<1>6. passes <=> req.f \in Satisfied'
  <2> HIDE DEF at
  <2> QED BY <1>1, <1>4, <1>5, EvaluationRecorded
<1>7. at = "cleared" => req.f \in met'
  BY <1>4, <1>6
<1> HIDE DEF passes, at
<1>8. RequestOK(req', met', unmet')
  BY <1>2, <1>3, <1>4, <1>7 DEF RequestOK, Screened, Charging, Admitted, Screening, Admitting, Working, Ended
<1> QED BY <1>2, <1>4, <1>8, PassesUnasked DEF Sound, AccessInv

LEMMA Delivers ==
  ASSUME AccessInv, NEW outcome \in {"delivered", "uncertain", "rejected"}, Deliver(outcome)
  PROVE  Sound
<1>1. req # Nowhere /\ req.at = "cleared" /\ Goes(outcome)
  <2>1. req.at = "cleared" /\ Goes(outcome)
    BY DEF Deliver
  <2> QED BY <2>1 DEF Nowhere
<1>2. outcome \in Stages \ {"none"}
  BY DEF Stages, Ended
<1>3. /\ req.e.command \notin Plain /\ req.target > 0 /\ req.f \in Captures /\ req.e.command = "media"
      /\ "same" \in met /\ req.f \in met
  BY <1>1 DEF AccessInv, RequestOK, Admitted, Working
<1>4. FactsOK' /\ Request(req') /\ req'.at = outcome /\ req'.e = req.e /\ met \subseteq met'
  BY <1>1, <1>2, GoesOn
<1>5. AllowedStep /\ CausedStep /\ LimitedStep
  BY <1>3, <1>4 DEF AllowedStep, CausedStep, LimitedStep, Passes
<1>6. RequestOK(req', met', unmet')
  BY <1>3, <1>4 DEF RequestOK, Screened, Charging, Admitted, Screening, Admitting, Working, Ended
<1> QED BY <1>4, <1>5, <1>6 DEF Sound, AccessInv

LEMMA SettlesRequest == AccessInv /\ Settle => Sound
<1> SUFFICES ASSUME AccessInv, Settle PROVE Sound
  OBVIOUS
<1>1. req # Nowhere /\ \E at \in {"charged", "unsettled"} : Goes(at)
  BY DEF Settle, Nowhere
<1>2. PICK at \in {"charged", "unsettled"} : Goes(at)
  BY <1>1
<1>3. at \in Ended \cap (Stages \ {"none"})
  BY <1>2 DEF Ended, Stages
<1>4. FactsOK' /\ Request(req') /\ req'.at = at
  BY <1>1, <1>2, <1>3, GoesOn
<1> QED BY <1>2, <1>3, <1>4, EndsWell, PassesUnasked DEF Sound, AccessInv

----------------------------------------------------------------------------
(***************************************************************************)
(* The theorems.                                                           *)
(***************************************************************************)
LEMMA AccessBegins == AccessInit => AccessInv
<1> SUFFICES ASSUME AccessInit PROVE AccessInv
  OBVIOUS
<1>1. person \in PersonRow
  <2>1. /\ person = [active |-> person.active, gen |-> person.gen, admin |-> person.admin,
                     trusted |-> person.trusted, banned |-> person.banned, local |-> person.local,
                     evidence |-> person.evidence, entitled |-> person.entitled]
        /\ person.active \in {TRUE} /\ person.gen \in {1} /\ person.admin \in BOOLEAN
        /\ person.trusted \in BOOLEAN /\ person.banned \in {FALSE} /\ person.local \in {TRUE}
        /\ person.evidence \in {TRUE} /\ person.entitled \in {TRUE}
    BY DEF AccessInit
  <2>2. {TRUE} \subseteq BOOLEAN /\ {FALSE} \subseteq BOOLEAN /\ {1} \subseteq Nat \ {0}
    OBVIOUS
  <2>3. /\ person.active \in BOOLEAN /\ person.gen \in Nat \ {0} /\ person.banned \in BOOLEAN
        /\ person.local \in BOOLEAN /\ person.evidence \in BOOLEAN /\ person.entitled \in BOOLEAN
    BY <2>1, <2>2, Zenon
  <2> QED BY <2>1, <2>3 DEF PersonRow
<1>2. group \in AccessGroupRow
  BY DEF AccessInit, AccessGroupRow
<1>3. switches \in SwitchRow
  <2>1. switches \in [on : {[c \in Chats |-> Features], [c \in Chats |-> {}]}, legacy : {TRUE}, stopped : {{}},
                      epoch : {[k \in {StopKey(f) : f \in Features} |-> 0]}]
    BY DEF AccessInit
  <2>2. switches.on \in [Chats -> SUBSET Features]
    BY <2>1
  <2>3. switches.epoch \in [StopKeys -> Nat]
    BY <2>1 DEF StopKeys
  <2>4. /\ switches = [on |-> switches.on, legacy |-> switches.legacy, stopped |-> switches.stopped,
                       epoch |-> switches.epoch]
        /\ switches.legacy \in {TRUE} /\ switches.stopped \in {{}}
    BY <2>1
  <2>5. switches.legacy \in BOOLEAN /\ switches.stopped \in SUBSET StopKeys
    <3>1. {TRUE} \subseteq BOOLEAN /\ {{}} \subseteq SUBSET StopKeys
      OBVIOUS
    <3> QED BY <2>4, <3>1, Zenon
  <2> QED BY <2>2, <2>3, <2>4, <2>5 DEF SwitchRow
<1>4. overrides \subseteq {"user", "group"} \X (Nat \ {0}) \X KnownBuckets
  <2>1. overrides = {"user", "group"} \X {1} \X UNION {Buckets(f) : f \in Features \ Captures}
    BY DEF AccessInit
  <2>2. UNION {Buckets(f) : f \in Features \ Captures} \subseteq KnownBuckets
    BY DEF KnownBuckets
  <2> QED BY <2>1, <2>2
<1>5. changes \in 0..MaxChanges /\ met \subseteq Names /\ unmet \subseteq Names
  BY AccessAssumption DEF AccessAssumption, AccessInit
<1>6. RequestOK(req, met, unmet)
  BY DEF AccessInit, RequestOK
<1> QED BY <1>1, <1>2, <1>3, <1>4, <1>5, <1>6 DEF AccessInv, FactsOK

\* A change of the facts passes no stage.
LEMMA FactsChange ==
  ASSUME AccessInv, FactsOK', UNCHANGED req, Track(FALSE)
  PROVE  Sound
<1>1. AccessInv'
  BY RequestWaits DEF AccessInv
<1> QED BY <1>1, PassesUnasked DEF Sound

LEMMA EachStepSound == AccessInv /\ AccessNext => Sound
<1> SUFFICES ASSUME AccessInv, AccessNext PROVE Sound
  OBVIOUS
<1>1. ASSUME NEW e \in Events, Arrive(e) PROVE Sound
  BY <1>1, Arrives
<1>2. CASE Leave \/ Check \/ ScreenPrivate \/ Role \/ Trust
  BY <1>2, Leaves, Checks, ScreensPrivate, Roles, Trusts
<1>3. CASE ScreenGroup \/ Read \/ GroupPolicy \/ Again \/ Authority \/ Live \/ Approval
  BY <1>3, ScreensGroup, ReadsGroup, JudgesGroup, JudgesAgain, JudgesAuthority, AsksTelegram, JudgesApproval
<1>4. ASSUME NEW f \in Features, Configure(f) \/ Extract(f) PROVE Sound
  BY <1>4, Configures, Extracts
<1>5. CASE Answer \/ Sender \/ Target \/ CurrentActor \/ CurrentGroup \/ ReadStop \/ Capture
  BY <1>5, Answers, ReadsSender, ReadsTarget, ChecksActor, ChecksGroup, ReadsStop, Captured
<1>6. CASE Subject \/ Bypass \/ Overrides
  BY <1>6, ResolvesSubject, ReadsRole, ResolvesLimits
<1>7. CASE WorkerReserves \/ CheckStop \/ TargetGate \/ SplitGate \/ Settle
  BY <1>7, ReservesLimits, ChecksStop, ChecksTarget, ChecksSplit, SettlesRequest
<1>8. ASSUME NEW outcome \in {"delivered", "uncertain", "rejected"}, Deliver(outcome) PROVE Sound
  BY <1>8, Delivers
<1>9. CASE ChangePerson
  BY <1>9, PersonChanges, FactsChange DEF ChangePerson, Changes
<1>10. CASE ChangeGroup
  BY <1>10, GroupChanges, FactsChange DEF ChangeGroup, Changes
<1>11. CASE ChangeSwitches
  BY <1>11, SwitchesChange, FactsChange DEF ChangeSwitches, Changes
<1>12. ASSUME NEW origin \in {"cli", "telegram"}, NEW kind \in DOMAIN Subjects, NEW b \in KnownBuckets,
              NEW remove \in BOOLEAN, SetOverride(origin, kind, b, remove)
       PROVE  Sound
  <2>1. FactsOK'
    BY <1>12, OverridesChange
  <2>2. UNCHANGED req /\ Track(FALSE)
    BY <1>12 DEF SetOverride, Changes
  <2> QED BY <2>1, <2>2, FactsChange
<1> QED BY <1>1, <1>2, <1>3, <1>4, <1>5, <1>6, <1>7, <1>8, <1>9, <1>10, <1>11, <1>12 DEF AccessNext

LEMMA StutterKeeps == AccessInv /\ UNCHANGED accessVars => AccessInv'
BY DEF AccessInv, FactsOK, RequestOK, Request, Screened, Charging, Admitted, accessVars, facts,
       PersonRow, AccessGroupRow, SwitchRow

\* The facts stay what the tables allow, and whatever a request remembers of
\* them, its history shows.
THEOREM AccessRemembers == AccessSpec => []AccessInv
<1>1. AccessInv /\ [AccessNext]_accessVars => AccessInv'
  BY EachStepSound, StutterKeeps DEF Sound
<1> QED BY <1>1, AccessBegins, PTL DEF AccessSpec

\* A request passes a stage only if each of its requirements held meanwhile.
THEOREM OnlyTheAllowedPass == AccessSpec => OnlyIfAllowed
<1>1. AccessInv /\ [AccessNext]_accessVars => [AllowedStep]_accessVars
  BY EachStepSound DEF Sound
<1> QED BY <1>1, AccessRemembers, PTL DEF AccessSpec, OnlyIfAllowed

\* Nothing is refused that was allowed all the while.
THEOREM RefusalsHaveCauses == AccessSpec => RefusedForCause
<1>1. AccessInv /\ [AccessNext]_accessVars => [CausedStep]_accessVars
  BY EachStepSound DEF Sound
<1> QED BY <1>1, AccessRemembers, PTL DEF AccessSpec, RefusedForCause

\* A request is admitted and reserved under the limits of its subject.
THEOREM LimitsBelongToSubjects == AccessSpec => LimitsOfTheSubject
<1>1. AccessInv /\ [AccessNext]_accessVars => [LimitedStep]_accessVars
  BY EachStepSound DEF Sound
<1> QED BY <1>1, AccessRemembers, PTL DEF AccessSpec, LimitsOfTheSubject

=============================================================================
