----------------------------- MODULE MCAdmission -----------------------------
(* Instances of the admission store for TLC. *)
EXTENDS Admission, TLC

CONSTANTS first, other, again, s1, s2, i1, i2

\* Two jobs of one subject by different actors, and a third that repeats the
\* incoming action of the first when another subject is charged for it.  The
\* subject's limit keeps the first two apart, the dedupe slot the first and
\* the third.
ThreeJobs == {first, other, again}
Charged == [j \in Jobs |-> IF j = again THEN s2 ELSE s1]
TwoIngresses == [j \in Jobs |-> IF j = other THEN i2 ELSE i1]
Actions == [j \in Jobs |-> IF j = again THEN first ELSE j]
Sizes == [j \in Jobs |-> IF j = other THEN 2 ELSE 1]
Arrivals == [j \in Jobs |-> IF j = again THEN 1 ELSE 0]
Deadlines == [j \in Jobs |-> IF j = other THEN 1 ELSE 2]

\* What publications remember of a ticket: the first of each stage.
FirstPublications == {<<"MEDIA", 0>>, <<"BROWSER", 1>>}

=============================================================================
