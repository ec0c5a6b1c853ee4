--------------------------- MODULE FieldSelection ---------------------------
(***************************************************************************)
(* One version of the field selection, and what a save makes of it.        *)
(*                                                                         *)
(* A row says which column (or bridge table) of analytics a Jira field is  *)
(* promoted to.  A demoted field keeps its row: live is FALSE where the    *)
(* code has deprecated_at set.                                             *)
(***************************************************************************)
CONSTANTS
  Field,   \* (field_name, schema_type) pairs
  Column   \* columns of analytics.issue and bridge tables, by (target, name)

Row == [field : Field, column : Column, live : BOOLEAN]

Fields(rows) == {r.field : r \in rows}
Live(rows)   == {r \in rows : r.live}

(* _check_no_column_name_collisions *)
NoCollision(rows) == \A r, q \in Live(rows) : r.column = q.column => r = q

(* What save_selection() is asked for: rows to promote, one per field, and *)
(* fields to demote, which must be selected.                               *)
Changes(rows) ==
  {c \in [promote : SUBSET {r \in Row : r.live}, demote : SUBSET Fields(rows)] :
     /\ \A r, q \in c.promote : r.field = q.field => r = q
     /\ Fields(c.promote) \cap c.demote = {}
     /\ c.promote # {} \/ c.demote # {}}

(* Mutant: fields that the save does not mention are left out.             *)
AppliedOnly(rows, c) ==
  c.promote \cup {[r EXCEPT !.live = FALSE] : r \in {q \in rows : q.field \in c.demote}}

(* The full snapshot a save writes: every row, with the changes applied.   *)
Applied(rows, c) ==
  {r \in rows : r.field \notin Fields(c.promote) \cup c.demote}
    \cup c.promote
    \cup {[r EXCEPT !.live = FALSE] : r \in {q \in rows : q.field \in c.demote}}

=============================================================================
