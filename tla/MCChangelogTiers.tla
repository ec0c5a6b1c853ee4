-------------------------- MODULE MCChangelogTiers --------------------------
(* Two issues, and edits that make none, one or two histories.             *)
EXTENDS ChangelogTiers

CONSTANTS open, closed

TwoIssues  == 1..2
Statuses   == {open, closed}
Comment    == << >>
AnyEdit    == {Comment, <<closed>>, <<closed, open>>}
=============================================================================
