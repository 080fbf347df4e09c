-------------------------- MODULE CapacityContract --------------------------
(****************************************************************************)
(* What bounded admission promises, without counters, indexes, tokens or    *)
(* time: a job is open at most once in its life, it is open until it is     *)
(* closed, and no job is opened past the global, subject or ingress limit.  *)
(* Admission.tla implements this module.                                    *)
(****************************************************************************)
EXTENDS Integers, FiniteSets

CONSTANTS Jobs, SubjectOf, IngressOf,
          GlobalPending, SubjectPending, IngressPending

VARIABLES open,   \* work that holds capacity
          closed  \* work that never holds it again

vars == <<open, closed>>

Init == open = {} /\ closed = {}

HasRoom(j) ==
  /\ Cardinality(open) < GlobalPending
  /\ Cardinality({k \in open : SubjectOf[k] = SubjectOf[j]}) < SubjectPending
  /\ Cardinality({k \in open : IngressOf[k] = IngressOf[j]}) < IngressPending

Open(j) ==
  /\ j \notin open \union closed
  /\ HasRoom(j)
  /\ open' = open \union {j}
  /\ UNCHANGED closed

Close(j) ==
  /\ j \in open
  /\ open' = open \ {j}
  /\ closed' = closed \union {j}

\* Work that was not accepted before its deadline never will be.
Lapse(S) ==
  /\ S \intersect (open \union closed) = {}
  /\ closed' = closed \union S
  /\ UNCHANGED open

Next ==
  \/ \E j \in Jobs : Open(j) \/ Close(j)
  \/ \E S \in SUBSET Jobs : Lapse(S)

Spec == Init /\ [][Next]_vars

=============================================================================
