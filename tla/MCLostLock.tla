----------------------------- MODULE MCLostLock -----------------------------
(* LostLock on a small instance: no version saved before, and three fields *)
(* that compete for one column, two of which have one type.                *)
EXTENDS LostLock

CONSTANTS f1, f2, f3, a, i1, s1, s2, text, number

NoneSaved == << >>

TwoTypes == [f \in Field |-> IF f = f3 THEN number ELSE text]

AllOrOne == {Issue, {i1}}
=============================================================================
