------------------------------ MODULE MCGroups ------------------------------
(* A bot administrator, a manager of the group, and one handler at work.   *)
EXTENDS Groups, TLC
CONSTANTS a, m, h1
TwoUsers == {a, m}
OneAdmin == {a}
OneLocal == {m}
Nobody == {}
OneCall == {h1}
=============================================================================
