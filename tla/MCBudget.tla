------------------------------ MODULE MCBudget ------------------------------
(* Instances of the execution budgets for TLC. *)
EXTENDS Budget, TLC

CONSTANTS i1, i2, i3, own, shared

Three == {i1, i2, i3}
BothScopes == {own, shared}

\* Every reservation is charged to one scope, and one of them to another.
Overlapping == [i \in Ids |-> IF i = i3 THEN {own, shared} ELSE {shared}]
Same == [i \in Ids |-> {shared}]
OneOrTwo == [s \in Scopes |-> IF s = own THEN 2 ELSE 1]
OneUnit == [i \in Ids |-> 1]
OneOrTwoLater == [i \in Ids |-> IF i = i3 THEN 2 ELSE 1]

\* Two running at once in a window of two units; an override of the shared scope.
TwoUnits == [limit |-> 2, burst |-> 2, concurrency |-> 2]
LimitChanges ==
  [s \in Scopes |-> IF s = own THEN {TwoUnits}
                    ELSE {TwoUnits, [limit |-> 3, burst |-> 2, concurrency |-> 1]}]

PairSymmetry == Permutations({i1, i2})

=============================================================================
