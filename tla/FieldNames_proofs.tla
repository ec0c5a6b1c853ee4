-------------------------- MODULE FieldNames_proofs --------------------------
(***************************************************************************)
(* Theorems about FieldNames, for every set of fields, names and types:    *)
(* what a selection holds is a field that bore the name it is kept under,  *)
(* or what a document gave that name; and a transform finds an id and a    *)
(* column in every live row but those that a document selected without.    *)
(***************************************************************************)
EXTENDS FieldNames, TLAPS

LEMMA TypeInit == Init => TypeOK
  BY BoundsType DEF Init, TypeOK, Key, Idle, NoCommand

(* A promote writes a row.                                                 *)
LEMMA PromotedType ==
  ASSUME TypeOK, NEW k \in Key, NEW change \in Change
  PROVE  Promoted(k, change) \in Row
<1>1. change.id \in Field \cup {None} /\ change.column \in Column \cup {None}
  BY DEF Change
<1>2. Prior(k).id \in Field \cup {None} /\ Prior(k).column \in Column \cup {None}
  BY DEF Prior, TypeOK, Row
<1> QED BY <1>1, <1>2 DEF Promoted, Or, Row

(* What a save does to the selection, whoever asks for it.                 *)
LEMMA SaveTypes ==
  ASSUME TypeOK, NEW edits, DOMAIN edits \subseteq Key,
         \A k \in DOMAIN edits : edits[k] \in Change, Save(edits)
  PROVE  selection' \in [Key -> Row \cup {None}]
<1>1. ASSUME NEW k \in Key PROVE Applied(edits)[k] \in Row \cup {None}
  <2>1. CASE k \notin DOMAIN edits
    BY <2>1 DEF Applied, TypeOK
  <2>2. CASE k \in DOMAIN edits /\ edits[k].promote
    <3>1. Promoted(k, edits[k]) \in Row
      BY <2>2, PromotedType
    <3> QED BY <2>2, <3>1 DEF Applied
  <2>3. CASE k \in DOMAIN edits /\ ~edits[k].promote
    <3>1. selection[k] \in Row
      BY <2>3 DEF Save, Accepted, TypeOK
    <3>2. [selection[k] EXCEPT !.live = FALSE] \in Row
      BY <3>1 DEF Row
    <3> QED BY <2>3, <3>2 DEF Applied
  <2> QED BY <2>1, <2>2, <2>3
<1> QED BY <1>1 DEF Save, Applied

(* A document asks for changes to keys.                                    *)
LEMMA DocumentAsks ==
  ASSUME NEW edits \in Document
  PROVE  DOMAIN edits \subseteq Key /\ \A k \in DOMAIN edits : edits[k] \in Change
<1>1. PICK keys \in SUBSET Key : edits \in [keys -> Change]
  BY DocumentType
<1> QED BY <1>1

(* What a save writes in a row.                                            *)
LEMMA SavedRow ==
  ASSUME TypeOK, NEW edits, DOMAIN edits \subseteq Key,
         \A k \in DOMAIN edits : edits[k] \in Change, Save(edits), NEW k \in Key
  PROVE  /\ k \notin DOMAIN edits => selection'[k] = selection[k]
         /\ k \in DOMAIN edits /\ edits[k].promote =>
              /\ selection'[k] # None
              /\ selection'[k].id = Or(edits[k].id, Prior(k).id)
              /\ selection'[k].column = Or(edits[k].column, Prior(k).column)
         /\ k \in DOMAIN edits /\ ~edits[k].promote =>
              /\ selection[k] # None /\ selection'[k] # None
              /\ selection'[k].id = selection[k].id
              /\ selection'[k].column = selection[k].column
<1>0. selection'[k] = Applied(edits)[k]
  BY DEF Save
<1>1. k \notin DOMAIN edits => selection'[k] = selection[k]
  BY <1>0 DEF Applied
<1>2. ASSUME k \in DOMAIN edits, edits[k].promote
      PROVE  /\ selection'[k] # None
             /\ selection'[k].id = Or(edits[k].id, Prior(k).id)
             /\ selection'[k].column = Or(edits[k].column, Prior(k).column)
  <2>1. selection'[k] = Promoted(k, edits[k])
    BY <1>0, <1>2 DEF Applied
  <2>2. Promoted(k, edits[k]) # None
    BY <1>2, PromotedType, NoneIsNoRow
  <2> QED BY <2>1, <2>2 DEF Promoted
<1>3. ASSUME k \in DOMAIN edits, ~edits[k].promote
      PROVE  /\ selection[k] # None /\ selection'[k] # None
             /\ selection'[k].id = selection[k].id
             /\ selection'[k].column = selection[k].column
  <2>1. selection[k] \in Row /\ selection[k] # None
    BY <1>3 DEF Save, Accepted, TypeOK
  <2>2. selection'[k] = [selection[k] EXCEPT !.live = FALSE]
    BY <1>0, <1>3 DEF Applied
  <2>3. selection'[k] # None
    BY <2>1, <2>2, NoneIsNoRow DEF Row
  <2> QED BY <2>1, <2>2, <2>3 DEF Row
<1> QED BY <1>1, <1>2, <1>3

LEMMA TypeNext == TypeOK /\ [Next]_vars => TypeOK'
<1> SUFFICES ASSUME TypeOK, [Next]_vars PROVE TypeOK'
  OBVIOUS
<1> USE BoundsType
<1>1. CASE \E f \in Field : LoadIssues(f)
  BY <1>1 DEF TypeOK, LoadIssues, Changed, flowbi_ops, documents
<1>2. ASSUME NEW f \in Field, NEW shown \in Key \cup {None}, EditField(f, shown)
      PROVE  TypeOK'
  BY <1>2 DEF TypeOK, EditField, Changed, flowbi_ops, documents
<1>3. ASSUME NEW d \in Discoverer, Fetch(d) PROVE TypeOK'
  <2>1. PICK hidden \in SUBSET Field :
          /\ faults' = faults + (IF hidden = {} THEN 0 ELSE 1) /\ faults' <= MaxFault
          /\ Goto(d, [step |-> "fetched",
                      fetched |-> [f \in Field |-> IF f \in hidden THEN None ELSE jira[f]]])
    BY <1>3 DEF Fetch
  <2>2. [step |-> "fetched",
         fetched |-> [f \in Field |-> IF f \in hidden THEN None ELSE jira[f]]] \in Run
    BY DEF TypeOK, Run
  <2>3. discover' \in [Discoverer -> Run \cup {Idle}]
    BY <2>1, <2>2 DEF TypeOK, Goto
  <2>4. faults' \in 0..MaxFault
    BY <2>1 DEF TypeOK
  <2> QED BY <1>3, <2>3, <2>4 DEF Fetch, TypeOK, flowbi_ops, documents
<1>4. ASSUME NEW d \in Discoverer, Refresh(d) PROVE TypeOK'
  <2>1. discover[d] \in [step : {"fetched"}, fetched : [Field -> Key \cup {None}]]
    BY <1>4 DEF TypeOK, Refresh, Run, Idle
  <2>2. \A f \in Field : Upsert(f, discover[d].fetched[f]) \in Definition \cup {None}
    <3> SUFFICES ASSUME NEW f \in Field
                 PROVE  Upsert(f, discover[d].fetched[f]) \in Definition \cup {None}
      OBVIOUS
    <3>1. discover[d].fetched[f] \in Key \cup {None}
      BY <2>1
    <3>2. definition[f] # None => [definition[f] EXCEPT !.disappeared = TRUE] \in Definition
      BY DEF TypeOK, Definition
    <3> QED BY <3>1, <3>2 DEF Upsert, Definition
  <2>3. [step |-> "refreshed"] \in Run
    BY DEF Run
  <2>4. discover' \in [Discoverer -> Run \cup {Idle}]
    BY <1>4, <2>3 DEF TypeOK, Refresh, Goto
  <2> QED BY <1>4, <2>2, <2>4 DEF TypeOK, Refresh, documents
<1>5. ASSUME NEW d \in Discoverer, Sample(d) PROVE TypeOK'
  <2> DEFINE known == {f \in Field : definition[f] # None}
             next == [step |-> "sampled", known |-> known, sampled |-> filled]
  <2>1. next \in Run
    BY DEF TypeOK, Run
  <2>2. discover' = [discover EXCEPT ![d] = IF known = {} THEN Idle ELSE next]
    BY <1>5 DEF Sample, Goto
  <2>3. discover' \in [Discoverer -> Run \cup {Idle}]
    BY <2>1, <2>2 DEF TypeOK
  <2> QED BY <1>5, <2>3 DEF TypeOK, Sample, flowbi_ops, documents
<1>6. ASSUME NEW d \in Discoverer, SaveStats(d) PROVE TypeOK'
  <2>1. discover' \in [Discoverer -> Run \cup {Idle}]
    BY <1>6 DEF TypeOK, SaveStats, Goto
  <2>2. stats' \in [Field -> BOOLEAN \cup {None}]
    BY <1>6 DEF TypeOK, SaveStats
  <2> QED BY <1>6, <2>1, <2>2 DEF TypeOK, SaveStats, documents
<1>7. ASSUME NEW d \in Discoverer, FailDiscover(d) PROVE TypeOK'
  BY <1>7 DEF TypeOK, FailDiscover, Goto, flowbi_ops, documents
<1>8. ASSUME NEW name \in Name, NEW type \in Type \cup {None}, NEW column \in Column \cup {None},
             NEW promote \in BOOLEAN, Resolve(name, type, column, promote)
      PROVE  TypeOK'
  <2>1. PICK f \in Matches(name, type) :
          command' = [key |-> [name |-> name, type |-> Or(type, definition[f].shown.type)],
                      change |-> [id |-> f, column |-> column, promote |-> promote]]
    BY <1>8 DEF Resolve
  <2>2. f \in Field /\ definition[f] \in Definition
    BY DEF Matches, TypeOK
  <2>3. Or(type, definition[f].shown.type) \in Type
    BY <2>2 DEF Or, Definition, Key
  <2>4. command' \in Command
    BY <2>1, <2>2, <2>3 DEF Command, Key, Change
  <2> QED BY <1>8, <2>4 DEF TypeOK, Resolve, Changed, flowbi_ops, documents
<1>9. CASE SaveCommand
  <2>1. command \in Command
    BY <1>9 DEF TypeOK, SaveCommand
  <2> DEFINE edits == [k \in {command.key} |-> command.change]
  <2>2. DOMAIN edits \subseteq Key /\ \A k \in DOMAIN edits : edits[k] \in Change
    BY <2>1 DEF Command
  <2>3. selection' \in [Key -> Row \cup {None}]
    <3>1. CASE Save(edits)
      BY <2>2, <3>1, SaveTypes
    <3>2. CASE UNCHANGED selection
      BY <3>2 DEF TypeOK
    <3> QED BY <1>9, <3>1, <3>2 DEF SaveCommand
  <2> QED BY <1>9, <2>3 DEF TypeOK, SaveCommand, flowbi_ops, documents
<1>10. CASE Import
  <2> DEFINE promoted(edits) == {k \in DOMAIN edits : edits[k].promote}
  <2>1. PICK edits \in Document :
          /\ Save(edits)
          /\ imported' = [k \in Key |->
               imported[k] \cup ({edits[x].id : x \in {k} \cap promoted(edits)} \ {None})]
          /\ bare' = bare \cup {k \in promoted(edits) :
               selection[k] = None /\ None \in {edits[k].id, edits[k].column}}
    BY <1>10 DEF Import
  <2>2. DOMAIN edits \subseteq Key /\ \A k \in DOMAIN edits : edits[k] \in Change
    BY DocumentAsks
  <2>3. selection' \in [Key -> Row \cup {None}]
    BY <2>1, <2>2, SaveTypes
  <2>4. \A x \in DOMAIN edits : edits[x].id \in Field \cup {None}
    BY <2>2 DEF Change
  <2>5. imported' \in [Key -> SUBSET Field]
    BY <2>1, <2>4 DEF TypeOK
  <2>6. bare' \in SUBSET Key
    BY <2>1, <2>2 DEF TypeOK
  <2> QED BY <1>10, <2>3, <2>5, <2>6 DEF TypeOK, Import, Changed, flowbi_ops
<1>11. CASE UNCHANGED vars
  BY <1>11 DEF TypeOK, vars, flowbi_ops, documents
<1> QED
  BY <1>1, <1>2, <1>3, <1>4, <1>5, <1>6, <1>7, <1>8, <1>9, <1>10, <1>11
  DEF Next, DiscoverStep

(* Every reachable state is well typed.                                    *)
THEOREM TypeCorrect == Spec => []TypeOK
  BY TypeInit, TypeNext, PTL DEF Spec

-----------------------------------------------------------------------------
(* Names: what any copy of Jira's field list holds, a field has borne, and *)
(* no copy or look-up brings an id from anywhere else.                     *)
CopiesBore ==
  \A f \in Field :
    /\ jira[f] # None => jira[f] \in bore[f]
    /\ definition[f] # None => definition[f].shown \in bore[f]
    /\ \A d \in Discoverer :
         discover[d].step = "fetched" /\ discover[d].fetched[f] # None
           => discover[d].fetched[f] \in bore[f]

CommandBore ==
  command # NoCommand => command.change.id \in Field /\ command.key \in bore[command.change.id]

NamesInv == CopiesBore /\ CommandBore /\ PromotedBoreItsName

LEMMA NamesInit == Init => NamesInv
  BY NoneType DEF Init, NamesInv, CopiesBore, CommandBore, PromotedBoreItsName, Idle

(* A save of changes whose ids have a source.                              *)
LEMMA SaveNames ==
  ASSUME TypeOK, PromotedBoreItsName, bore' = bore, \A k \in Key : imported[k] \subseteq imported'[k],
         NEW edits, DOMAIN edits \subseteq Key, \A k \in DOMAIN edits : edits[k] \in Change,
         \A k \in DOMAIN edits : edits[k].promote /\ edits[k].id # None =>
           k \in bore'[edits[k].id] \/ edits[k].id \in imported'[k],
         Save(edits)
  PROVE  PromotedBoreItsName'
<1> SUFFICES ASSUME NEW k \in Key, selection'[k] # None, selection'[k].id # None
             PROVE  k \in bore'[selection'[k].id] \/ selection'[k].id \in imported'[k]
  BY DEF PromotedBoreItsName
<1>0. ASSUME selection[k] # None, selection'[k].id = selection[k].id
      PROVE  k \in bore'[selection'[k].id] \/ selection'[k].id \in imported'[k]
  BY <1>0 DEF PromotedBoreItsName
<1>1. CASE k \notin DOMAIN edits
  BY <1>0, <1>1, SavedRow
<1>2. CASE k \in DOMAIN edits /\ edits[k].promote
  <2>1. selection'[k].id = Or(edits[k].id, Prior(k).id)
    BY <1>2, SavedRow
  <2>2. CASE edits[k].id # None
    BY <1>2, <2>1, <2>2 DEF Or
  <2>3. CASE edits[k].id = None
    <3>1. selection'[k].id = Prior(k).id
      BY <2>1, <2>3 DEF Or
    <3>2. selection[k] # None /\ selection'[k].id = selection[k].id
      BY <3>1 DEF Prior
    <3> QED BY <1>0, <3>2
  <2> QED BY <2>2, <2>3
<1>3. CASE k \in DOMAIN edits /\ ~edits[k].promote
  BY <1>0, <1>3, SavedRow
<1> QED BY <1>1, <1>2, <1>3

LEMMA NamesNext == TypeOK /\ NamesInv /\ [Next]_vars => NamesInv'
<1> SUFFICES ASSUME TypeOK, NamesInv, [Next]_vars PROVE NamesInv'
  OBVIOUS
<1> USE DEF NamesInv
<1>0. ASSUME UNCHANGED <<selection, imported>>, \A f \in Field : bore[f] \subseteq bore'[f]
      PROVE  PromotedBoreItsName'
  <2> SUFFICES ASSUME NEW k \in Key, selection[k] # None, selection[k].id # None
               PROVE  k \in bore'[selection[k].id] \/ selection[k].id \in imported[k]
    BY <1>0 DEF PromotedBoreItsName
  <2>1. selection[k].id \in Field
    BY DEF TypeOK, Row
  <2> QED BY <1>0, <2>1 DEF PromotedBoreItsName
<1>1. CASE \E f \in Field : LoadIssues(f)
  BY <1>1 DEF LoadIssues, CopiesBore, CommandBore, PromotedBoreItsName, flowbi_ops, documents
<1>2. ASSUME NEW f \in Field, NEW shown \in Key \cup {None}, EditField(f, shown)
      PROVE  NamesInv'
  <2>1. \A g \in Field : bore[g] \subseteq bore'[g]
    BY <1>2 DEF EditField, TypeOK
  <2>2. \A g \in Field : jira'[g] # None => jira'[g] \in bore'[g]
    BY <1>2 DEF EditField, TypeOK, CopiesBore
  <2>3. CopiesBore'
    BY <1>2, <2>1, <2>2 DEF EditField, CopiesBore, flowbi_ops
  <2>4. CommandBore'
    BY <1>2, <2>1 DEF EditField, CommandBore
  <2>5. PromotedBoreItsName'
    BY <1>0, <1>2, <2>1 DEF EditField, documents
  <2> QED BY <2>3, <2>4, <2>5
<1>3. ASSUME NEW d \in Discoverer, Fetch(d) PROVE NamesInv'
  <2>1. PICK hidden \in SUBSET Field :
          Goto(d, [step |-> "fetched",
                   fetched |-> [f \in Field |-> IF f \in hidden THEN None ELSE jira[f]]])
    BY <1>3 DEF Fetch
  <2>2. CopiesBore'
    BY <1>3, <2>1 DEF Fetch, Goto, CopiesBore, TypeOK, flowbi_ops
  <2> QED BY <1>3, <2>2 DEF Fetch, CommandBore, PromotedBoreItsName, documents
<1>4. ASSUME NEW d \in Discoverer, Refresh(d) PROVE NamesInv'
  <2>1. ASSUME NEW f \in Field, definition'[f] # None
        PROVE  definition'[f].shown \in bore[f]
    <3>1. definition'[f] = Upsert(f, discover[d].fetched[f])
      BY <1>4 DEF Refresh
    <3>2. CASE discover[d].fetched[f] # None
      BY <1>4, <3>1, <3>2 DEF Upsert, CopiesBore, Refresh
    <3>3. CASE discover[d].fetched[f] = None
      <4>1. definition[f] \in Definition
        BY <2>1, <3>1, <3>3 DEF Upsert, TypeOK
      <4>2. definition'[f].shown = definition[f].shown
        BY <2>1, <3>1, <3>3, <4>1 DEF Upsert, Definition
      <4> QED BY <2>1, <3>1, <3>3, <4>2 DEF Upsert, CopiesBore
    <3> QED BY <3>2, <3>3
  <2>2. CopiesBore'
    BY <1>4, <2>1 DEF Refresh, Goto, CopiesBore, TypeOK
  <2> QED BY <1>4, <2>2 DEF Refresh, CommandBore, PromotedBoreItsName, documents
<1>5. ASSUME NEW d \in Discoverer, Sample(d) \/ SaveStats(d) \/ FailDiscover(d) PROVE NamesInv'
  <2>1. \A e \in Discoverer : discover'[e].step = "fetched" => discover'[e] = discover[e]
    BY <1>5 DEF Sample, SaveStats, FailDiscover, Goto, Idle, TypeOK
  <2>2. UNCHANGED <<jira, definition, bore, command, selection, imported>>
    BY <1>5 DEF Sample, SaveStats, FailDiscover, flowbi_ops, documents
  <2> QED BY <2>1, <2>2 DEF CopiesBore, CommandBore, PromotedBoreItsName
<1>6. ASSUME NEW name \in Name, NEW type \in Type \cup {None}, NEW column \in Column \cup {None},
             NEW promote \in BOOLEAN, Resolve(name, type, column, promote)
      PROVE  NamesInv'
  <2>1. PICK f \in Matches(name, type) :
          command' = [key |-> [name |-> name, type |-> Or(type, definition[f].shown.type)],
                      change |-> [id |-> f, column |-> column, promote |-> promote]]
    BY <1>6 DEF Resolve
  <2>2. f \in Field /\ definition[f] \in Definition /\ definition[f] # None
    BY DEF Matches, TypeOK
  <2>3. [name |-> name, type |-> Or(type, definition[f].shown.type)] = definition[f].shown
    BY <2>2 DEF Matches, Or, Definition, Key
  <2>4. definition[f].shown \in bore[f]
    BY <2>2 DEF CopiesBore
  <2>5. CommandBore'
    BY <1>6, <2>1, <2>2, <2>3, <2>4 DEF CommandBore, Resolve
  <2> QED BY <1>6, <2>5 DEF Resolve, CopiesBore, PromotedBoreItsName, documents, flowbi_ops
<1>7. CASE SaveCommand
  <2>1. command \in Command
    BY <1>7 DEF TypeOK, SaveCommand
  <2> DEFINE edits == [k \in {command.key} |-> command.change]
  <2>2. /\ DOMAIN edits \subseteq Key
        /\ \A k \in DOMAIN edits : edits[k] \in Change
        /\ \A k \in DOMAIN edits : edits[k].id # None => k \in bore[edits[k].id]
    BY <1>7, <2>1 DEF Command, CommandBore, SaveCommand
  <2>3. bore' = bore /\ imported' = imported
    BY <1>7 DEF SaveCommand, documents
  <2>4. PromotedBoreItsName'
    <3>1. CASE Save(edits)
      <4> HIDE DEF edits
      <4>1. \A k \in DOMAIN edits : edits[k].promote /\ edits[k].id # None =>
              k \in bore'[edits[k].id] \/ edits[k].id \in imported'[k]
        BY <2>2, <2>3
      <4> QED BY <2>2, <2>3, <3>1, <4>1, SaveNames
    <3>2. CASE UNCHANGED selection
      BY <2>3, <3>2 DEF PromotedBoreItsName
    <3> QED BY <1>7, <3>1, <3>2 DEF SaveCommand
  <2> QED BY <1>7, <2>4 DEF SaveCommand, CopiesBore, CommandBore, flowbi_ops
<1>8. CASE Import
  <2>1. bore' = bore
    BY <1>8 DEF Import
  <2> DEFINE promoted(edits) == {k \in DOMAIN edits : edits[k].promote}
  <2>2. PICK edits \in Document :
          /\ Save(edits)
          /\ imported' = [k \in Key |->
               imported[k] \cup ({edits[x].id : x \in {k} \cap promoted(edits)} \ {None})]
    BY <1>8 DEF Import
  <2>3. DOMAIN edits \subseteq Key /\ \A k \in DOMAIN edits : edits[k] \in Change
    BY DocumentAsks
  <2>4. \A k \in Key : imported[k] \subseteq imported'[k]
    BY <2>2
  <2>5. \A k \in DOMAIN edits : edits[k].promote /\ edits[k].id # None =>
          k \in bore'[edits[k].id] \/ edits[k].id \in imported'[k]
    BY <2>2, <2>3
  <2>6. PromotedBoreItsName'
    BY <2>1, <2>2, <2>3, <2>4, <2>5, SaveNames
  <2> QED BY <1>8, <2>1, <2>6 DEF Import, CopiesBore, CommandBore, flowbi_ops
<1>9. CASE UNCHANGED vars
  BY <1>9 DEF vars, flowbi_ops, documents, CopiesBore, CommandBore, PromotedBoreItsName
<1> QED
  BY <1>1, <1>2, <1>3, <1>4, <1>5, <1>6, <1>7, <1>8, <1>9 DEF Next, DiscoverStep

(* The id in a selection row is one that Jira gave the name and type the   *)
(* row is kept under, or one that a document promoted them with, whatever  *)
(* is renamed or imported between fetch, look-up and save.                 *)
THEOREM NamesAreKept == Spec => []PromotedBoreItsName
<1>1. NamesInv => PromotedBoreItsName
  BY DEF NamesInv
<1> QED BY <1>1, TypeInit, TypeNext, NamesInit, NamesNext, PTL DEF Spec

-----------------------------------------------------------------------------
(* Rows: every row, demoted ones too, has its id and its column, but for   *)
(* what a document selected without.                                       *)
Whole(row) == row.id # None /\ row.column # None

RowsWhole ==
  /\ \A k \in Key : selection[k] # None => Whole(selection[k]) \/ k \in bare
  /\ command # NoCommand /\ command.change.promote => Whole(command.change)

LEMMA RowsInit == Init => RowsWhole
  BY DEF Init, RowsWhole

(* A save whose promotes bring an id and a column, or find a row.          *)
LEMMA SaveRows ==
  ASSUME TypeOK, RowsWhole, bare \subseteq bare',
         NEW edits, DOMAIN edits \subseteq Key, \A k \in DOMAIN edits : edits[k] \in Change,
         \A k \in DOMAIN edits :
           edits[k].promote => selection[k] # None \/ Whole(edits[k]) \/ k \in bare',
         Save(edits)
  PROVE  \A k \in Key : selection'[k] # None => Whole(selection'[k]) \/ k \in bare'
<1> SUFFICES ASSUME NEW k \in Key, selection'[k] # None, k \notin bare'
             PROVE  Whole(selection'[k])
  OBVIOUS
<1>1. CASE k \notin DOMAIN edits
  BY <1>1, SavedRow DEF RowsWhole
<1>2. CASE k \in DOMAIN edits /\ edits[k].promote
  <2>1. /\ selection'[k].id = Or(edits[k].id, Prior(k).id)
        /\ selection'[k].column = Or(edits[k].column, Prior(k).column)
    BY <1>2, SavedRow
  <2>2. CASE Whole(edits[k])
    BY <2>1, <2>2 DEF Or, Whole
  <2>3. CASE selection[k] # None
    <3>1. Prior(k) = selection[k] /\ Whole(selection[k])
      BY <2>3 DEF Prior, RowsWhole
    <3> QED BY <2>1, <3>1 DEF Or, Whole
  <2> QED BY <1>2, <2>2, <2>3
<1>3. CASE k \in DOMAIN edits /\ ~edits[k].promote
  <2>1. /\ selection[k] # None
        /\ selection'[k].id = selection[k].id /\ selection'[k].column = selection[k].column
    BY <1>3, SavedRow
  <2> QED BY <2>1 DEF RowsWhole, Whole
<1> QED BY <1>1, <1>2, <1>3

LEMMA RowsNext == TypeOK /\ RowsWhole /\ [Next]_vars => RowsWhole'
<1> SUFFICES ASSUME TypeOK, RowsWhole, [Next]_vars PROVE RowsWhole'
  OBVIOUS
<1>1. CASE UNCHANGED <<selection, bare, command>>
  BY <1>1 DEF RowsWhole
<1>2. ASSUME NEW name \in Name, NEW type \in Type \cup {None}, NEW column \in Column,
             Resolve(name, type, column, TRUE)
      PROVE  RowsWhole'
  <2>1. PICK f \in Matches(name, type) :
          command' = [key |-> [name |-> name, type |-> Or(type, definition[f].shown.type)],
                      change |-> [id |-> f, column |-> column, promote |-> TRUE]]
    BY <1>2 DEF Resolve
  <2>2. f # None /\ column # None
    BY NoneType DEF Matches
  <2> QED BY <1>2, <2>1, <2>2 DEF Resolve, RowsWhole, Whole, documents
<1>3. ASSUME NEW name \in Name, NEW type \in Type \cup {None}, Resolve(name, type, None, FALSE)
      PROVE  RowsWhole'
  BY <1>3 DEF Resolve, RowsWhole, documents
<1>4. CASE SaveCommand
  <2>1. command \in Command
    BY <1>4 DEF TypeOK, SaveCommand
  <2> DEFINE edits == [k \in {command.key} |-> command.change]
  <2>2. /\ DOMAIN edits \subseteq Key
        /\ \A k \in DOMAIN edits : edits[k] \in Change
        /\ \A k \in DOMAIN edits : edits[k].promote => Whole(edits[k])
    BY <1>4, <2>1 DEF Command, RowsWhole, SaveCommand
  <2>3. bare' = bare
    BY <1>4 DEF SaveCommand, documents
  <2>4. CASE Save(edits)
    <3> HIDE DEF edits
    <3>1. \A k \in Key : selection'[k] # None => Whole(selection'[k]) \/ k \in bare'
      BY <2>2, <2>3, <2>4, SaveRows
    <3> QED BY <1>4, <3>1 DEF SaveCommand, RowsWhole
  <2>5. CASE UNCHANGED selection
    BY <1>4, <2>3, <2>5 DEF SaveCommand, RowsWhole
  <2> QED BY <1>4, <2>4, <2>5 DEF SaveCommand
<1>5. CASE Import
  <2> DEFINE promoted(edits) == {k \in DOMAIN edits : edits[k].promote}
  <2>1. PICK edits \in Document :
          /\ Save(edits)
          /\ bare' = bare \cup {k \in promoted(edits) :
               selection[k] = None /\ None \in {edits[k].id, edits[k].column}}
    BY <1>5 DEF Import
  <2>2. DOMAIN edits \subseteq Key /\ \A k \in DOMAIN edits : edits[k] \in Change
    BY DocumentAsks
  <2>3. \A k \in DOMAIN edits :
          edits[k].promote => selection[k] # None \/ Whole(edits[k]) \/ k \in bare'
    BY <2>1 DEF Whole
  <2>4. \A k \in Key : selection'[k] # None => Whole(selection'[k]) \/ k \in bare'
    BY <2>1, <2>2, <2>3, SaveRows
  <2> QED BY <1>5, <2>4 DEF Import, RowsWhole
<1>6. CASE \/ \E f \in Field : LoadIssues(f) \/ \E shown \in Key \cup {None} : EditField(f, shown)
           \/ \E d \in Discoverer : DiscoverStep(d) \/ FailDiscover(d)
           \/ UNCHANGED vars
  <2>1. UNCHANGED <<selection, bare, command>>
    BY <1>6 DEF LoadIssues, EditField, DiscoverStep, Fetch, Refresh, Sample, SaveStats,
                FailDiscover, vars, documents
  <2> QED BY <1>1, <2>1
<1> QED BY <1>2, <1>3, <1>4, <1>5, <1>6 DEF Next

(* Every live row has the column and the id that rebuild_issue_columns     *)
(* asserts, in whatever order promotes, demotes and imports come, unless   *)
(* its field was first selected by a document that left one out.           *)
THEOREM TransformsCanBuild == Spec => []TransformCanBuild
<1>1. RowsWhole => TransformCanBuild
  BY DEF RowsWhole, TransformCanBuild, Live, Whole
<1> QED BY <1>1, TypeInit, TypeNext, RowsInit, RowsNext, PTL DEF Spec
=============================================================================
