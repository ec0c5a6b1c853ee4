---------------------------- MODULE MCFieldNames ----------------------------
(* Two fields that can share a display name, and two schema types.         *)
EXTENDS FieldNames

CONSTANTS f1, f2, n1, d1, d2, number, array, points, tags

Targets == [t \in Type |-> IF t = array THEN {tags} ELSE {points}]

(* Documents: an entry with the id of a field that may never have borne    *)
(* the name, one without an id, one without a column; and one with two     *)
(* entries, one of them deprecated.                                        *)
Entry(id, column) == [id |-> id, column |-> column, promote |-> TRUE]

OneEntry ==
  [[name : Name, type : {array}] -> {Entry(f1, tags), Entry(None, tags), Entry(f1, None)}]

TwoEntries ==
  {[k \in Key |-> IF k.type = array THEN Entry(f2, None)
                  ELSE [id |-> None, column |-> points, promote |-> FALSE]]}

Documents == OneEntry \cup TwoEntries
=============================================================================
