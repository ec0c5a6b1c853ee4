--------------------------- MODULE MCDcSearchWalk ---------------------------
(* DcSearchWalk on a small instance.                                       *)
EXTENDS DcSearchWalk

FourIssues == 1..4
=============================================================================
