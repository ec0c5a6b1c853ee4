---------------------------- MODULE MCExtraction ----------------------------
(* Extraction on small instances.                                          *)
EXTENDS Extraction

CONSTANTS i1, i2, i3, kafka, n1

TwoIssues   == {i1, i2}
ThreeIssues == {i1, i2, i3}
Changelog   == {"issue_changelog"}

(* One project's pipeline.                                                 *)
OneCovers == [s \in {kafka} |-> Issue]
OneName   == [s \in {kafka} |-> n1]
=============================================================================
