---------------------------- MODULE SelectionLog ----------------------------
(***************************************************************************)
(* What field_selection promises: an append-only log of versions.  Each    *)
(* version is complete by itself, follows from the one before it by one    *)
(* save, and never changes again; no two of its live fields share a        *)
(* column.                                                                 *)
(***************************************************************************)
EXTENDS FieldSelection, Sequences

CONSTANT Selected0   \* the versions saved before the behaviour starts

VARIABLE log

Newest == IF log = << >> THEN {} ELSE log[Len(log)]

Init == log = Selected0

(* One save: an atomic read, check and append.                             *)
Save ==
  \E c \in Changes(Newest) :
    /\ NoCollision(Applied(Newest, c))
    /\ log' = Append(log, Applied(Newest, c))

Spec == Init /\ [][Save]_log

=============================================================================
