--------------------------- MODULE MCFieldRebuild ---------------------------
(* FieldRebuild on small instances: which versions were saved before.      *)
EXTENDS FieldRebuild, TLC

CONSTANTS f1, f2, a, b, i1, i2, s1, s2, text, number

OneField  == <<{[field |-> f1, column |-> a, live |-> TRUE]}>>
NoneSaved == << >>

SameType == [f \in Field |-> text]

AllOrOne == {Issue, {i1}}

ProcessSymmetry == Permutations(Saver) \cup Permutations(Worker)
=============================================================================
