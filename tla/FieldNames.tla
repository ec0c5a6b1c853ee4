----------------------------- MODULE FieldNames -----------------------------
(***************************************************************************)
(* From the names of Jira's fields to the ids a transform reads.           *)
(*                                                                         *)
(* `flowbi fields discover` copies Jira's field list, and how often each   *)
(* field is filled, into flowbi_ops; `fields promote | demote` look a name *)
(* up in that copy and save the id they find; `fields import` saves what a *)
(* document says, looked up nowhere: it may be an edited export, that of   *)
(* another instance, or written by hand.  Meanwhile fields are created,    *)
(* renamed and deleted in Jira, and loads change what the raw issues hold. *)
(* Discovers overlap; concurrent saves are FieldRebuild's, here a save is  *)
(* one step.                                                               *)
(***************************************************************************)
EXTENDS Integers, FiniteSets

CONSTANTS
  Field,        \* field ids
  Name, Type,   \* display names and schema types
  Column,       \* columns and bridge tables, by (target, name)
  TargetOf,     \* the columns that a field of a schema type can be promoted to
  None,
  Discoverer,   \* processes that run `fields discover`
  Document,     \* the documents that may be imported
  MaxChanges,   \* bound: edits of fields, loads, look-ups, imports
  MaxFault      \* bound: short answers to GET /field, and failed discovers

ASSUME NoneType   == None \notin Field \cup Name \cup Type \cup Column
ASSUME TargetType == TargetOf \in [Type -> SUBSET Column]
ASSUME BoundsType == MaxChanges \in Nat /\ MaxFault \in Nat

VARIABLES
  jira,        \* the fields that GET /field shows
  filled,      \* the fields that issues of jira_raw have values for
  definition,  \* flowbi_ops.field_definition
  stats,       \* flowbi_ops.field_stats: was the field filled in the sample
  discover,    \* the run of each discoverer
  command,     \* the promote or demote under way
  selection,   \* the latest version of flowbi_ops.field_selection
  bore,        \* history: the keys each field has had in Jira
  imported,    \* history: the ids that documents promoted a key with
  bare,        \* history: the keys that a document selected without id or column
  changes, faults  \* counted towards the bounds

flowbi_ops == <<definition, stats>>
documents  == <<imported, bare>>
vars == <<jira, filled, flowbi_ops, discover, command, selection, bore, documents,
          changes, faults>>

(* What a selection row is keyed by, and what GET /field says of a field.  *)
(* (A field without a schema type is like none: it can never be promoted.) *)
Key == [name : Name, type : Type]

Definition == [shown : Key, disappeared : BOOLEAN]
Row        == [id : Field \cup {None}, column : Column \cup {None}, live : BOOLEAN]
(* SelectionChange.                                                        *)
Change     == [id : Field \cup {None}, column : Column \cup {None}, promote : BOOLEAN]

(* What a document asks of some keys, one entry for each of them.          *)
ASSUME DocumentType == Document \subseteq UNION {[keys -> Change] : keys \in SUBSET Key}

ASSUME NoneIsNoRow == None \notin Row

Idle == [step |-> "idle"]
Run  == [step : {"fetched"}, fetched : [Field -> Key \cup {None}]]
          \cup [step : {"refreshed"}]
          \cup [step : {"sampled"}, known : SUBSET Field, sampled : SUBSET Field]

NoCommand == [step |-> "none"]
Command   == [key : Key, change : Change]

Init ==
  /\ jira \in [Field -> Key \cup {None}]
  /\ filled = {}
  /\ definition = [f \in Field |-> None]
  /\ stats = [f \in Field |-> None]
  /\ discover = [d \in Discoverer |-> Idle]
  /\ command = NoCommand
  /\ selection = [k \in Key |-> None]
  /\ bore = [f \in Field |-> {jira[f]} \ {None}]
  /\ imported = [k \in Key |-> {}]
  /\ bare = {}
  /\ changes = 0
  /\ faults = 0

-----------------------------------------------------------------------------
(* Jira and the loads.                                                     *)

Changed == changes < MaxChanges /\ changes' = changes + 1

(* A field is created, renamed, given another type, hidden or deleted.     *)
EditField(f, shown) ==
  /\ jira[f] # shown
  /\ Changed
  /\ jira' = [jira EXCEPT ![f] = shown]
  /\ bore' = [bore EXCEPT ![f] = @ \cup ({shown} \ {None})]
  /\ UNCHANGED <<filled, flowbi_ops, discover, command, selection, documents, faults>>

(* A load brings the first value of a field, or takes the last one.        *)
LoadIssues(f) ==
  /\ Changed
  /\ filled' = (filled \cup {f}) \ (filled \cap {f})
  /\ UNCHANGED <<jira, flowbi_ops, discover, command, selection, bore, documents, faults>>

-----------------------------------------------------------------------------
(* fields discover: two transactions, after what each has read before.     *)

Goto(d, run) == discover' = [discover EXCEPT ![d] = run]

(* GET /field.  An account without the permission sees fewer fields.       *)
Fetch(d) ==
  /\ discover[d] = Idle
  /\ \E hidden \in SUBSET Field :
       /\ faults' = faults + (IF hidden = {} THEN 0 ELSE 1) /\ faults' <= MaxFault
       /\ Goto(d, [step |-> "fetched",
                   fetched |-> [f \in Field |-> IF f \in hidden THEN None ELSE jira[f]]])
  /\ UNCHANGED <<jira, filled, flowbi_ops, command, selection, bore, documents, changes>>

(* Mutant: a field that reappears keeps its stamp.                         *)
UpsertKeepsStamp(f, shown) ==
  IF shown # None
  THEN [shown |-> shown, disappeared |-> definition[f] # None /\ definition[f].disappeared]
  ELSE IF definition[f] # None THEN [definition[f] EXCEPT !.disappeared = TRUE]
  ELSE None

(* Mutant: what is missing is stamped, known or not.                       *)
UpsertStampsUnknown(f, shown) ==
  IF shown # None THEN [shown |-> shown, disappeared |-> FALSE]
  ELSE IF definition[f] # None THEN [definition[f] EXCEPT !.disappeared = TRUE]
  ELSE [shown |-> None, disappeared |-> TRUE]

(* A definition is never deleted: what is missing is stamped.              *)
Upsert(f, shown) ==
  IF shown # None THEN [shown |-> shown, disappeared |-> FALSE]
  ELSE IF definition[f] # None THEN [definition[f] EXCEPT !.disappeared = TRUE]
  ELSE None

(* refresh_field_definitions.                                              *)
Refresh(d) ==
  /\ discover[d].step = "fetched"
  /\ definition' = [f \in Field |-> Upsert(f, discover[d].fetched[f])]
  /\ Goto(d, [step |-> "refreshed"])
  /\ UNCHANGED <<jira, filled, stats, command, selection, bore, documents, changes, faults>>

(* compute_field_stats: the known fields, and the sampled issues.          *)
Sample(d) ==
  LET known == {f \in Field : definition[f] # None}
  IN /\ discover[d].step = "refreshed"
     /\ Goto(d, IF known = {} THEN Idle
                ELSE [step |-> "sampled", known |-> known, sampled |-> filled])
     /\ UNCHANGED <<jira, filled, flowbi_ops, command, selection, bore, documents, changes, faults>>

SaveStats(d) ==
  /\ discover[d].step = "sampled"
  /\ stats' = [f \in Field |-> IF f \in discover[d].known THEN f \in discover[d].sampled
                               ELSE stats[f]]
  /\ Goto(d, Idle)
  /\ UNCHANGED <<jira, filled, definition, command, selection, bore, documents, changes, faults>>

(* A request or a transaction fails, or the process dies.                  *)
FailDiscover(d) ==
  /\ discover[d] # Idle /\ faults < MaxFault
  /\ faults' = faults + 1
  /\ Goto(d, Idle)
  /\ UNCHANGED <<jira, filled, flowbi_ops, command, selection, bore, documents, changes>>

-----------------------------------------------------------------------------
(* save_selection.                                                         *)

Or(value, prior) == IF value # None THEN value ELSE prior

Prior(k) == IF selection[k] = None THEN [id |-> None, column |-> None] ELSE selection[k]

(* Mutant: a promote takes the document's word for it.                     *)
PromotedAsGiven(k, change) == [id |-> change.id, column |-> change.column, live |-> TRUE]

Promoted(k, change) ==
  [id |-> Or(change.id, Prior(k).id), column |-> Or(change.column, Prior(k).column), live |-> TRUE]

(* The next version: the latest one, with the changes to some keys applied. *)
Applied(edits) ==
  [k \in Key |->
     IF k \notin DOMAIN edits THEN selection[k]
     ELSE IF edits[k].promote THEN Promoted(k, edits[k])
     ELSE [selection[k] EXCEPT !.live = FALSE]]

Live(rows) == {k \in Key : rows[k] # None /\ rows[k].live}

(* Any refused change refuses all of them.                                 *)
Accepted(edits) ==
  /\ DOMAIN edits # {}
  /\ \A k \in DOMAIN edits :
       IF edits[k].promote THEN edits[k].column \in TargetOf[k.type] \cup {None}
       ELSE selection[k] # None
  /\ LET next == Applied(edits)
     IN \A k, l \in Live(next) :
          k # l /\ next[k].column = next[l].column => next[k].column = None

Save(edits) ==
  /\ Accepted(edits)
  /\ selection' = Applied(edits)

-----------------------------------------------------------------------------
(* fields promote and demote: a look-up, then a save.                      *)

(* Mutant: --schema-type does not narrow the look-up.                      *)
MatchesByName(name, type) ==
  {f \in Field : definition[f] # None /\ definition[f].shown.name = name}

(* Fields that have disappeared match as well.                             *)
Matches(name, type) ==
  {f \in Field : /\ definition[f] # None
                 /\ definition[f].shown.name = name
                 /\ type # None => definition[f].shown.type = type}

(* resolve_field_name refuses none or several.                             *)
Resolve(name, type, column, promote) ==
  /\ command = NoCommand
  /\ Changed
  /\ \E f \in Matches(name, type) :
       /\ Matches(name, type) = {f}
       /\ command' = [key |-> [name |-> name, type |-> Or(type, definition[f].shown.type)],
                      change |-> [id |-> f, column |-> column, promote |-> promote]]
  /\ UNCHANGED <<jira, filled, flowbi_ops, discover, selection, bore, documents, faults>>

SaveCommand ==
  LET edits == [k \in {command.key} |-> command.change]
  IN /\ command # NoCommand
     /\ command' = NoCommand
     /\ IF Accepted(edits) THEN Save(edits) ELSE UNCHANGED selection
     /\ UNCHANGED <<jira, filled, flowbi_ops, discover, bore, documents, changes, faults>>

(* import_yaml.  The document's instance_id is not looked at, and neither  *)
(* is field_definition: an id is whatever the document says, and the id    *)
(* and the column may be left out.                                         *)
Import ==
  /\ \E edits \in Document :
       LET promoted == {k \in DOMAIN edits : edits[k].promote}
       IN /\ Save(edits)
          /\ imported' = [k \in Key |->
               imported[k] \cup ({edits[x].id : x \in {k} \cap promoted} \ {None})]
          /\ bare' = bare \cup
               {k \in promoted : selection[k] = None /\ None \in {edits[k].id, edits[k].column}}
  /\ Changed
  /\ UNCHANGED <<jira, filled, flowbi_ops, discover, command, bore, faults>>

-----------------------------------------------------------------------------
DiscoverStep(d) == Fetch(d) \/ Refresh(d) \/ Sample(d) \/ SaveStats(d)

Next ==
  \/ \E f \in Field : LoadIssues(f) \/ \E shown \in Key \cup {None} : EditField(f, shown)
  \/ \E d \in Discoverer : DiscoverStep(d) \/ FailDiscover(d)
  \/ \E name \in Name, type \in Type \cup {None} :
       \/ \E column \in Column : Resolve(name, type, column, TRUE)
       \/ Resolve(name, type, None, FALSE)
  \/ SaveCommand \/ Import

Spec == Init /\ [][Next]_vars

(* Discovers are run again and again.                                      *)
Fairness == \A d \in Discoverer : WF_vars(DiscoverStep(d))

FairSpec == Spec /\ Fairness

-----------------------------------------------------------------------------
TypeOK ==
  /\ jira \in [Field -> Key \cup {None}]
  /\ filled \in SUBSET Field
  /\ definition \in [Field -> Definition \cup {None}]
  /\ stats \in [Field -> BOOLEAN \cup {None}]
  /\ discover \in [Discoverer -> Run \cup {Idle}]
  /\ command \in Command \cup {NoCommand}
  /\ selection \in [Key -> Row \cup {None}]
  /\ bore \in [Field -> SUBSET Key]
  /\ imported \in [Key -> SUBSET Field]
  /\ bare \in SUBSET Key
  /\ changes \in 0..MaxChanges /\ faults \in 0..MaxFault

(* rebuild_issue_columns asserts, of each live row, a column and an id     *)
(* ("save_selection() requires both"): without them no transform commits   *)
(* any more.  However promotes, demotes and imports follow each other, a   *)
(* row that lacks one belongs to a field that a document selected first,   *)
(* without it: no save loses what a row had.                               *)
TransformCanBuild ==
  \A k \in Live(selection) : \/ selection[k].id # None /\ selection[k].column # None
                             \/ k \in bare

(* "Maps Jira fields by (name, schema type) -- never by id": a row's id is *)
(* one that Jira gave this name and type, whatever was renamed, deleted or *)
(* hidden before the copy was made, since, or between look-up and save; or *)
(* it is one that a document gave this very name and type.                 *)
PromotedBoreItsName ==
  \A k \in Key : selection[k] # None /\ selection[k].id # None =>
    k \in bore[selection[k].id] \/ selection[k].id \in imported[k]

(* "A field previously seen ... but absent from this fetch is stamped ...; *)
(* a field that reappears has it cleared": once Jira and the raw issues    *)
(* rest, the definitions and the stats come to agree with them for good,   *)
(* also when overlapping discovers commit what they fetched long before.   *)
Agrees(f) ==
  /\ IF jira[f] = None THEN definition[f] = None \/ definition[f].disappeared
     ELSE definition[f] = [shown |-> jira[f], disappeared |-> FALSE]
  /\ definition[f] # None => stats[f] = (f \in filled)

DiscoveryCatchesUp == <>[](\A f \in Field : Agrees(f))
=============================================================================
