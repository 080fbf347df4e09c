---------------------------- MODULE MCFeatureJobs ----------------------------
(* Instances of the job pipeline for TLC. *)
EXTENDS FeatureJobs, TLC

CONSTANTS j1, j2, s1, w1, w2

OneJob == {j1}
TwoWorkers == {w1, w2}
OneWorker == {w1}

\* Distinct actions of one subject in one chat and lane.
SameSubject == [j \in Jobs |-> s1]
OwnAction == [j \in Jobs |-> j]
OneByte == [j \in Jobs |-> 1]
FromStart == [j \in Jobs |-> 0]
AtOne == [j \in Jobs |-> 1]

EveryCapture == Stages \X (0..MaxAttempt)
EveryTime == 0..(MaxTime + 1)
EveryOutcome == {"COMPLETE", "EXPIRED", "PAYLOAD_UNAVAILABLE", "FAILED", "CANCELLED"}
EveryKind == {"DELAYED", "TERMINAL", "FAILURE"}

WorkerSymmetry == Permutations(Workers)

=============================================================================
