---------------------------- MODULE MCDirtyQueue ----------------------------
(* DirtyQueue on small instances: which pipeline and project an issue has. *)
EXTENDS DirtyQueue, TLC

CONSTANTS i1, i2, p1, p2, A, B

OneIssue   == {i1}
TwoIssues  == {i1, i2}
OnePipe    == [i \in Issue |-> p1]
TwoPipes   == [i \in Issue |-> IF i = i1 THEN p1 ELSE p2]
OneProject == [i \in Issue |-> A]
TwoProjects == [i \in Issue |-> IF i = i1 THEN A ELSE B]
IssueSymmetry == Permutations(Issue)
=============================================================================
