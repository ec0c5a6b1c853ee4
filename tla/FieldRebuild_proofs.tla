------------------------- MODULE FieldRebuild_proofs -------------------------
(***************************************************************************)
(* Proofs about FieldRebuild.  With one version saved before, saves that   *)
(* read the same version cannot both commit: fields are never dropped, so  *)
(* the loser's snapshot shares one with the winner's and the unique        *)
(* constraint refuses it.  The log is then an append-only one.  As long as *)
(* no lock is lost, drains exclude each other and answer a request once.   *)
(***************************************************************************)
EXTENDS FieldRebuild, SequenceTheorems, TLAPS

(* What the selection's theorems ask of the versions saved before: there   *)
(* is one, and each has fields, keeps those of the one before it, and is   *)
(* self-consistent.                                                        *)
SavedBefore ==
  /\ Selected0 # << >>
  /\ \A v \in 1..Len(Selected0) : Fields(Selected0[v]) # {}
  /\ \A v \in 1..(Len(Selected0) - 1) : Fields(Selected0[v]) \subseteq Fields(Selected0[v + 1])
  /\ \A v \in 1..Len(Selected0) : NoCollision(Selected0[v])

-----------------------------------------------------------------------------
(* The selection, as the saves leave it.                                   *)

(* Fields survive, and none of the versions is empty.                      *)
GrowInv ==
  /\ Len(selection) >= 1
  /\ \A v \in 1..Len(selection) : Fields(selection[v]) # {}
  /\ \A v \in 1..(Len(selection) - 1) : Fields(selection[v]) \subseteq Fields(selection[v + 1])
  /\ SelfConsistent

(* A saver works on a committed version, exactly as it still is.           *)
SaverInv ==
  \A s \in Saver : saver[s].step = "read" =>
    /\ saver[s].version \in 1..Len(selection)
    /\ saver[s].rows = selection[saver[s].version]

LogInv == TypeOK /\ GrowInv /\ SaverInv

-----------------------------------------------------------------------------
(* The drains, while no lock is lost.                                      *)

(* Whoever is at work holds the lock.                                      *)
HolderInv ==
  /\ drops = 0
  /\ \A w \in Worker : IF worker[w].step = "idle" THEN worker[w].todo = {} ELSE lock = w

(* Time stamps tell requests, and the saves that will make one, apart.     *)
StampInv ==
  /\ \A r \in requests : r.at < clock
  /\ \A r, q \in requests : r.at = q.at => r = q
  /\ \A s \in Saver : saver[s].step # "idle" =>
       /\ saver[s].at < clock
       /\ \A r \in requests : r.at # saver[s].at
       /\ \A t \in Saver : t # s /\ saver[t].step # "idle" => saver[t].at # saver[s].at

(* What a drain has still to do is running.                                *)
TodoInv ==
  \A w \in Worker : \A at \in worker[w].todo :
    /\ at < clock
    /\ \A s \in Saver : saver[s].step # "idle" => saver[s].at # at
    /\ \A r \in requests : r.at = at => r.status = "running"

DrainInv == TypeOK /\ HolderInv /\ StampInv /\ TodoInv

-----------------------------------------------------------------------------
(* Types.                                                                  *)

(* A fitting column is filled from a selected field.                       *)
LEMMA FieldOfType ==
  ASSUME NEW rows \in SUBSET Row, NEW c, NEW x \in Field \cup {NoField}
  PROVE  /\ FieldOf(rows, c, x) \in Field \cup {NoField}
         /\ (\E r \in Fitting(rows) : r.column = c) => FieldOf(rows, c, x) \in Field
<1>1. CASE \E r \in Fitting(rows) : r.column = c
  <2>1. (CHOOSE r \in Fitting(rows) : r.column = c) \in Fitting(rows)
    BY <1>1
  <2>2. (CHOOSE r \in Fitting(rows) : r.column = c) \in Row
    BY <2>1 DEF Fitting, Live
  <2> QED BY <1>1, <2>2 DEF FieldOf, Row
<1>2. CASE ~\E r \in Fitting(rows) : r.column = c
  BY <1>2 DEF FieldOf
<1> QED BY <1>1, <1>2

(* Every version, saved or not, is a set of rows.                          *)
LEMMA AtType == ASSUME TypeOK, NEW v PROVE At(v) \in SUBSET Row
BY DEF At, TypeOK

(* A rebuild fills columns with fields and creates them with their types.  *)
LEMMA RebuildType ==
  ASSUME TypeOK, NEW rows \in SUBSET Row, NEW S, Rebuild(rows, S)
  PROVE  /\ content' \in [Column -> [Issue -> Field \cup {NoField}]]
         /\ columnType' \in [Column -> Type \cup {NoType}]
<1>1. /\ content' = [c \in Column |-> [i \in Issue |->
            IF i \in S THEN FieldOf(rows, c, content[c][i]) ELSE content[c][i]]]
      /\ columnType' = [c \in Column |->
            IF S # {} /\ \E r \in Fitting(rows) : r.column = c
            THEN TypeOf[FieldOf(rows, c, NoField)] ELSE columnType[c]]
  BY DEF Rebuild
<1>2. ASSUME NEW c \in Column, NEW i \in Issue
      PROVE  (IF i \in S THEN FieldOf(rows, c, content[c][i]) ELSE content[c][i])
               \in Field \cup {NoField}
  <2>1. content[c][i] \in Field \cup {NoField}
    BY DEF TypeOK
  <2> QED BY <2>1, FieldOfType
<1>3. ASSUME NEW c \in Column
      PROVE  (IF S # {} /\ \E r \in Fitting(rows) : r.column = c
              THEN TypeOf[FieldOf(rows, c, NoField)] ELSE columnType[c]) \in Type \cup {NoType}
  BY FieldOfType, TypeOfType DEF TypeOK
<1> QED BY <1>1, <1>2, <1>3

(* A save applies rows to rows, keeps every field and adds the promoted.   *)
LEMMA AppliedRows ==
  ASSUME NEW rows \in SUBSET Row, NEW c \in Changes(rows)
  PROVE  Applied(rows, c) \in SUBSET Row
<1>1. c.promote \subseteq Row
  BY DEF Changes
<1>2. ASSUME NEW q \in rows PROVE [q EXCEPT !.live = FALSE] \in Row
  BY DEF Row
<1> QED BY <1>1, <1>2 DEF Applied

LEMMA AppliedFields ==
  ASSUME NEW rows \in SUBSET Row, NEW c \in Changes(rows)
  PROVE  /\ Fields(rows) \subseteq Fields(Applied(rows, c))
         /\ Fields(Applied(rows, c)) # {}
<1>1. ASSUME NEW r \in rows PROVE r.field \in Fields(Applied(rows, c))
  <2>1. CASE r.field \in Fields(c.promote)
    BY <2>1 DEF Applied, Fields
  <2>2. CASE r.field \in c.demote
    <3>1. [r EXCEPT !.live = FALSE] \in Applied(rows, c)
      BY <2>2 DEF Applied
    <3> QED BY <3>1 DEF Fields, Row
  <2>3. CASE r.field \notin Fields(c.promote) \cup c.demote
    BY <2>3 DEF Applied, Fields
  <2> QED BY <2>1, <2>2, <2>3
<1>2. Fields(rows) \subseteq Fields(Applied(rows, c))
  BY <1>1 DEF Fields
<1>3. Fields(Applied(rows, c)) # {}
  <2>1. c.demote \subseteq Fields(rows) /\ (c.promote # {} \/ c.demote # {})
    BY DEF Changes
  <2>2. c.promote \subseteq Applied(rows, c)
    BY DEF Applied
  <2> QED BY <2>1, <2>2, <1>2 DEF Fields
<1> QED BY <1>2, <1>3

(* What SaveWrite(s) does, for some change of what s has read.             *)
Written(s, c) ==
  LET version == saver[s].version + 1
      rows == Applied(saver[s].rows, c)
  IN /\ NoCollision(rows)
     /\ ~Taken(version, rows)
     /\ selection' = IF version <= Latest
                     THEN [selection EXCEPT ![version] = @ \cup rows]
                     ELSE Append(selection, rows)
     /\ requests' = requests \cup
          [at : IF c.promote = {} THEN {} ELSE {saver[s].at}, version : {version},
           scope : {Issue}, status : {"queued"}]

(* The new request, if there is one, carries the saver's time stamp.       *)
LEMMA NewRequests ==
  ASSUME NEW s, NEW c, Written(s, c), NEW r \in requests', r \notin requests
  PROVE  r = [at |-> saver[s].at, version |-> saver[s].version + 1,
              scope |-> Issue, status |-> "queued"]
BY DEF Written

(* Steps keep the types.                                                   *)
LEMMA TypeSave ==
  ASSUME TypeOK, NEW s \in Saver, SaveBegin(s) \/ SaveRead(s) \/ SaveWrite(s) \/ SaveAbort(s)
  PROVE  TypeOK'
<1>1. CASE SaveBegin(s)
  <2>1. [IdleSaver EXCEPT !.step = "begun", !.at = clock] \in SaverCall
    BY DEF TypeOK, IdleSaver, SaverCall
  <2> QED BY <1>1, <2>1 DEF TypeOK, SaveBegin, tables, bounds
<1>2. CASE SaveRead(s)
  <2>1. At(Latest) \in SUBSET Row /\ Latest \in Nat
    BY AtType DEF TypeOK, Latest
  <2>2. [saver[s] EXCEPT !.step = "read", !.version = Latest, !.rows = At(Latest)] \in SaverCall
    BY <2>1 DEF TypeOK, SaverCall
  <2> QED BY <1>2, <2>2 DEF TypeOK, SaveRead, tables, bounds
<1>3. CASE SaveWrite(s)
  <2>1. PICK c \in Changes(saver[s].rows) : Written(s, c)
    BY <1>3, Zenon DEF SaveWrite, Written
  <2>2. saver[s].version \in Nat /\ saver[s].at \in Nat /\ saver[s].rows \in SUBSET Row
    BY DEF TypeOK, SaverCall
  <2>3. Applied(saver[s].rows, c) \in SUBSET Row
    BY <2>2, AppliedRows
  <2>4. selection' \in Seq(SUBSET Row)
    <3> DEFINE version == saver[s].version + 1
               rows == Applied(saver[s].rows, c)
    <3>1. selection \in Seq(SUBSET Row) /\ version \in Nat \ {0}
      BY <2>2 DEF TypeOK
    <3>2. selection' = IF version <= Len(selection)
                       THEN [selection EXCEPT ![version] = @ \cup rows]
                       ELSE Append(selection, rows)
      BY <2>1 DEF Written, Latest
    <3>3. rows \in SUBSET Row
      BY <2>3
    <3> HIDE DEF version, rows
    <3>4. CASE version <= Len(selection)
      BY <3>1, <3>2, <3>3, <3>4
    <3>5. CASE ~(version <= Len(selection))
      BY <3>1, <3>2, <3>3, <3>5
    <3> QED BY <3>4, <3>5
  <2>5. requests' \subseteq Request
    BY <2>1, <2>2, NewRequests DEF TypeOK, Request, Status
  <2> QED BY <1>3, <2>4, <2>5 DEF TypeOK, SaveWrite, IdleSaver, SaverCall, bounds
<1>4. CASE SaveAbort(s)
  BY <1>4 DEF TypeOK, SaveAbort, IdleSaver, SaverCall, tables, bounds
<1> QED BY <1>1, <1>2, <1>3, <1>4

LEMMA TypeRequest ==
  ASSUME TypeOK, NEW q \in Requester, RequestRead(q) \/ RequestWrite(q)
  PROVE  TypeOK'
<1>1. CASE RequestRead(q)
  BY <1>1 DEF TypeOK, RequestRead, tables, bounds, Latest
<1>2. CASE RequestWrite(q)
  <2>1. requester[q].version \in Nat
    BY DEF TypeOK
  <2>2. requests' \subseteq Request
    BY <1>2, <2>1 DEF TypeOK, RequestWrite, Request, Status
  <2> QED BY <1>2, <2>2 DEF TypeOK, RequestWrite, IdleRequester, bounds
<1> QED BY <1>1, <1>2

LEMMA TypeWorker ==
  ASSUME TypeOK, NEW w \in Worker, TakeLock(w) \/ WorkerStep(w) \/ Crash(w)
  PROVE  TypeOK'
<1>0. /\ worker[w] \in WorkerCall
      /\ \A x \in WorkerCall : [worker EXCEPT ![w] = x] \in [Worker -> WorkerCall]
  BY DEF TypeOK
<1>1. CASE TakeLock(w)
  <2>1. [worker[w] EXCEPT !.step = "locked"] \in WorkerCall
    BY <1>0 DEF WorkerCall
  <2> QED BY <1>0, <1>1, <2>1 DEF TypeOK, TakeLock, tables, bounds
<1>2. CASE ReadSelection(w)
  <2>1. [worker[w] EXCEPT !.step = "selected", !.version = Latest, !.rows = At(Latest)] \in WorkerCall
    <3>1. Latest \in Nat /\ At(Latest) \in SUBSET Row
      BY AtType DEF TypeOK, Latest
    <3> QED BY <1>0, <3>1 DEF WorkerCall
  <2> QED BY <1>0, <1>2, <2>1 DEF TypeOK, ReadSelection, tables, bounds
<1>3. CASE RebuildDirty(w)
  <2>1. [worker[w] EXCEPT !.step = "transformed"] \in WorkerCall
    BY <1>0 DEF WorkerCall
  <2>2. /\ content' \in [Column -> [Issue -> Field \cup {NoField}]]
        /\ columnType' \in [Column -> Type \cup {NoType}]
    <3>1. worker[w].rows \in SUBSET Row
      BY <1>0 DEF WorkerCall
    <3> QED BY <1>3, <3>1, RebuildType DEF RebuildDirty
  <2> QED BY <1>0, <1>3, <2>1, <2>2 DEF TypeOK, RebuildDirty, bounds
<1>4. CASE Sweep(w)
  <2> DEFINE open == {r \in requests : r.status \in {"queued", "running"}}
             x == [worker[w] EXCEPT !.step = "draining", !.todo = {r.at : r \in open}]
  <2>1. {r.at : r \in open} \subseteq Nat
    BY DEF TypeOK, Request
  <2>2. x \in WorkerCall
    BY <1>0, <2>1 DEF WorkerCall
  <2>3. ASSUME NEW r \in requests PROVE [r EXCEPT !.status = "running"] \in Request
    BY DEF TypeOK, Request, Status
  <2>4. requests' \subseteq Request
    BY <1>4, <2>3 DEF TypeOK, Sweep
  <2>5. worker' = [worker EXCEPT ![w] = x]
    BY <1>4 DEF Sweep
  <2> HIDE DEF x
  <2> QED BY <1>0, <1>4, <2>2, <2>4, <2>5 DEF TypeOK, Sweep, bounds
<1>5. ASSUME NEW r \in requests, RequestSucceeds(w, r) \/ RequestFails(w, r) PROVE TypeOK'
  <2>1. ASSUME NEW status \in Status PROVE [r EXCEPT !.status = status] \in Request
    BY DEF TypeOK, Request
  <2>2. \E status \in Status : Finish(w, r, status)
    BY <1>5 DEF RequestSucceeds, RequestFails, Status
  <2>3. requests' \subseteq Request
    BY <2>1, <2>2 DEF TypeOK, Finish
  <2>4. [worker[w] EXCEPT !.todo = @ \ {r.at}] \in WorkerCall
    BY <1>0 DEF WorkerCall
  <2>5. worker' \in [Worker -> WorkerCall]
    BY <1>0, <2>2, <2>4 DEF Finish
  <2>6. /\ content' \in [Column -> [Issue -> Field \cup {NoField}]]
        /\ columnType' \in [Column -> Type \cup {NoType}]
    BY <1>5, AtType, RebuildType DEF TypeOK, RequestSucceeds, RequestFails
  <2> QED BY <1>5, <2>3, <2>5, <2>6 DEF TypeOK, RequestSucceeds, RequestFails, bounds
<1>6. CASE ReleaseLock(w)
  BY <1>0, <1>6 DEF TypeOK, ReleaseLock, IdleWorker, WorkerCall, tables, bounds
<1>7. CASE Crash(w)
  BY <1>0, <1>7 DEF TypeOK, Crash, IdleWorker, WorkerCall, tables
<1> QED BY <1>1, <1>2, <1>3, <1>4, <1>5, <1>6, <1>7 DEF WorkerStep

LEMMA TypeInit == Init => TypeOK
<1> SUFFICES ASSUME Init PROVE TypeOK
  OBVIOUS
<1>1. requests \subseteq Request
  <2>1. Latest \in Nat
    BY Selected0Type DEF Init, Latest
  <2> QED BY <2>1 DEF Init, Request, Status
<1> QED BY <1>1, Selected0Type DEF Init, TypeOK, IdleSaver, IdleRequester, IdleWorker, SaverCall, WorkerCall

LEMMA TypeNext == TypeOK /\ [Next]_vars => TypeOK'
<1> SUFFICES ASSUME TypeOK, [Next]_vars PROVE TypeOK'
  OBVIOUS
<1>1. CASE DropLock
  BY <1>1 DEF TypeOK, DropLock, tables, calls
<1>2. CASE UNCHANGED vars
  BY <1>2 DEF TypeOK, vars, tables, calls, bounds
<1> QED BY <1>1, <1>2, TypeSave, TypeRequest, TypeWorker DEF Next, CommandStep

(* Every reachable state is well typed, lost locks included.               *)
THEOREM TypeCorrect == Spec => []TypeOK
BY TypeInit, TypeNext, PTL DEF Spec

-----------------------------------------------------------------------------
(* The log.                                                                *)

LEMMA LogInit == SavedBefore /\ Init => LogInv
<1> SUFFICES ASSUME SavedBefore, Init PROVE LogInv
  OBVIOUS
<1>1. selection = Selected0
  BY DEF Init
<1>2. Selected0 \in Seq(SUBSET Row) /\ Len(Selected0) >= 1
  BY Selected0Type DEF SavedBefore
<1>3. SaverInv
  BY DEF Init, SaverInv, IdleSaver
<1>4. GrowInv
  <2>1. DOMAIN selection = 1..Len(selection)
    BY <1>1, <1>2
  <2> QED BY <1>1, <1>2, <2>1 DEF SavedBefore, GrowInv, SelfConsistent
<1> QED BY <1>3, <1>4, TypeInit DEF LogInv

(* A step that writes no version leaves the log; one saver at most moves.  *)
LEMMA LogKept ==
  ASSUME LogInv, TypeOK', selection' = selection,
         \A s \in Saver : saver'[s].step = "read" =>
            saver'[s] = saver[s] \/ /\ saver'[s].version \in 1..Len(selection)
                                    /\ saver'[s].rows = selection[saver'[s].version]
  PROVE  LogInv'
BY DEF LogInv, GrowInv, SaverInv, SelfConsistent

(* The unique constraint lets a save through only if no other one took its *)
(* version: it then extends the log that its saver has read.               *)
LEMMA WriteAppends ==
  ASSUME LogInv, NEW s \in Saver, saver[s].step = "read",
         NEW c \in Changes(saver[s].rows), Written(s, c)
  PROVE  /\ saver[s].rows = selection[Len(selection)]
         /\ selection' = Append(selection, Applied(saver[s].rows, c))
<1> DEFINE version == saver[s].version
           rows == saver[s].rows
<1>1. /\ selection \in Seq(SUBSET Row)
      /\ version \in 1..Len(selection)
      /\ rows = selection[version]
  BY DEF LogInv, TypeOK, SaverInv
<1>2. rows \in SUBSET Row
  BY <1>1
<1>3. Fields(rows) \subseteq Fields(Applied(rows, c)) /\ Fields(rows) # {}
  BY <1>1, <1>2, AppliedFields DEF LogInv, GrowInv
<1>4. ~(version + 1 <= Len(selection))
  <2> SUFFICES ASSUME version + 1 <= Len(selection) PROVE FALSE
    OBVIOUS
  <2>1. Fields(rows) \subseteq Fields(selection[version + 1])
    <3>1. version \in 1..(Len(selection) - 1)
      BY <1>1
    <3> QED BY <1>1, <3>1 DEF LogInv, GrowInv
  <2>2. At(version + 1) = selection[version + 1]
    BY <1>1 DEF At
  <2>3. Fields(Applied(rows, c)) \cap Fields(At(version + 1)) = {}
    BY DEF Written, Taken
  <2> QED BY <1>3, <2>1, <2>2, <2>3
<1>5. version = Len(selection)
  BY <1>1, <1>4
<1> QED BY <1>1, <1>4, <1>5 DEF Written, Latest

LEMMA LogWrite ==
  ASSUME LogInv, TypeOK', NEW s \in Saver, SaveWrite(s)
  PROVE  LogInv'
<1>0. TypeOK'
  OBVIOUS
<1>1. PICK c \in Changes(saver[s].rows) : Written(s, c)
  BY Zenon DEF SaveWrite, Written
<1>2. saver[s].step = "read" /\ saver' = [saver EXCEPT ![s] = IdleSaver]
  BY DEF SaveWrite
<1> DEFINE n == Len(selection)
           rows == Applied(saver[s].rows, c)
<1>3. selection' = Append(selection, rows) /\ saver[s].rows = selection[n]
  BY <1>1, <1>2, WriteAppends
<1>4. selection \in Seq(SUBSET Row) /\ n \in Nat \ {0}
  BY DEF LogInv, TypeOK, GrowInv
<1>5. NoCollision(rows)
  BY <1>1 DEF Written
<1>6. Fields(selection[n]) \subseteq Fields(rows) /\ Fields(rows) # {}
  BY <1>3, <1>4, AppliedFields
<1> HIDE DEF rows
<1>7. /\ Len(selection') = n + 1
      /\ selection'[n + 1] = rows
      /\ \A v \in 1..n : selection'[v] = selection[v]
  BY <1>3, <1>4
<1>8. GrowInv'
  <2>1. ASSUME NEW v \in 1..(n + 1)
        PROVE  Fields(selection'[v]) # {} /\ NoCollision(selection'[v])
    <3>1. CASE v = n + 1
      BY <1>5, <1>6, <1>7, <3>1
    <3>2. CASE v # n + 1
      <4>1. v \in 1..n /\ selection'[v] = selection[v]
        BY <1>4, <1>7, <3>2
      <4>2. v \in DOMAIN selection
        BY <1>4, <4>1
      <4> QED BY <4>1, <4>2 DEF LogInv, GrowInv, SelfConsistent
    <3> QED BY <3>1, <3>2
  <2>2. ASSUME NEW v \in 1..n
        PROVE  Fields(selection'[v]) \subseteq Fields(selection'[v + 1])
    <3>1. CASE v = n
      BY <1>4, <1>6, <1>7, <3>1
    <3>2. CASE v # n
      <4>1. v \in 1..(n - 1) /\ selection'[v] = selection[v] /\ selection'[v + 1] = selection[v + 1]
        BY <1>4, <1>7, <3>2
      <4> QED BY <4>1 DEF LogInv, GrowInv
    <3> QED BY <3>1, <3>2
  <2>3. DOMAIN selection' = 1..(n + 1) /\ n + 1 >= 1 /\ 1..(Len(selection') - 1) = 1..n
    BY <1>0, <1>4, <1>7 DEF TypeOK
  <2> QED BY <1>7, <2>1, <2>2, <2>3 DEF GrowInv, SelfConsistent
<1>9. SaverInv'
  <2> SUFFICES ASSUME NEW t \in Saver, saver'[t].step = "read"
               PROVE  /\ saver'[t].version \in 1..Len(selection')
                      /\ saver'[t].rows = selection'[saver'[t].version]
    BY DEF SaverInv
  <2>1. t # s /\ saver'[t] = saver[t]
    BY <1>2 DEF LogInv, TypeOK, IdleSaver
  <2> QED BY <1>4, <1>7, <2>1 DEF LogInv, SaverInv
<1> QED BY <1>8, <1>9 DEF LogInv

LEMMA LogNext == LogInv /\ [Next]_vars => LogInv'
<1> SUFFICES ASSUME LogInv, [Next]_vars PROVE LogInv'
  OBVIOUS
<1>0. TypeOK'
  BY TypeNext DEF LogInv
<1>1. ASSUME NEW s \in Saver, SaveRead(s) PROVE LogInv'
  <2>1. Latest = Len(selection) /\ Latest \in 1..Len(selection) /\ At(Latest) = selection[Latest]
    BY DEF LogInv, TypeOK, GrowInv, Latest, At
  <2>2. ASSUME NEW t \in Saver, saver'[t] # saver[t]
        PROVE  saver'[t].version = Latest /\ saver'[t].rows = At(Latest)
    BY <1>1, <2>2 DEF SaveRead, LogInv, TypeOK, SaverCall
  <2>3. selection' = selection
    BY <1>1 DEF SaveRead, tables
  <2> QED BY <1>0, <2>1, <2>2, <2>3, LogKept
<1>2. ASSUME NEW s \in Saver, SaveBegin(s) \/ SaveAbort(s) PROVE LogInv'
  <2>1. selection' = selection
    BY <1>2 DEF SaveBegin, SaveAbort, tables
  <2>2. ASSUME NEW t \in Saver, saver'[t] # saver[t] PROVE saver'[t].step # "read"
    <3>1. saver \in [Saver -> SaverCall]
      BY DEF LogInv, TypeOK
    <3>2. CASE SaveAbort(s)
      BY <2>2, <3>1, <3>2 DEF SaveAbort, IdleSaver
    <3>3. CASE SaveBegin(s)
      <4> DEFINE x == [IdleSaver EXCEPT !.step = "begun", !.at = clock]
      <4>1. x.step = "begun"
        BY DEF IdleSaver
      <4>2. saver' = [saver EXCEPT ![s] = x]
        BY <3>3 DEF SaveBegin
      <4> HIDE DEF x
      <4> QED BY <2>2, <3>1, <4>1, <4>2
    <3> QED BY <1>2, <3>2, <3>3
  <2> QED BY <1>0, <2>1, <2>2, LogKept
<1>3. CASE saver' = saver /\ selection' = selection
  BY <1>0, <1>3, LogKept
<1>4. ASSUME NEW q \in Requester, RequestRead(q) \/ RequestWrite(q) PROVE LogInv'
  BY <1>3, <1>4 DEF RequestRead, RequestWrite, tables
<1>5. ASSUME NEW w \in Worker, TakeLock(w) \/ WorkerStep(w) \/ Crash(w) PROVE LogInv'
  BY <1>3, <1>5 DEF TakeLock, WorkerStep, ReadSelection, RebuildDirty, Sweep, ReleaseLock,
     RequestSucceeds, RequestFails, Crash, tables
<1>6. CASE DropLock
  BY <1>3, <1>6 DEF DropLock, tables, calls
<1>7. CASE UNCHANGED vars
  BY <1>3, <1>7 DEF vars, tables, calls
<1> QED BY <1>0, <1>1, <1>2, <1>4, <1>5, <1>6, <1>7, LogWrite DEF Next, CommandStep

(* However saves interleave, no version has two live fields in a column,   *)
(* if one good version was saved before.                                   *)
THEOREM VersionsConsistent == ASSUME SavedBefore PROVE Spec => []SelfConsistent
<1>1. Init => LogInv
  BY LogInit
<1>2. LogInv => SelfConsistent
  BY DEF LogInv, GrowInv
<1> QED BY <1>1, <1>2, LogNext, PTL DEF Spec

(* However saves interleave, field_selection is the append-only log of     *)
(* complete versions, if one good version was saved before.                *)
THEOREM Implements == ASSUME SavedBefore PROVE Spec => ImplementsSelectionLog
<1>1. Init => LogInv
  BY LogInit
<1>2. Init => Log!Init
  BY DEF Init, Log!Init
<1>3. LogInv /\ [Next]_vars => [Log!Save]_selection
  <2> SUFFICES ASSUME LogInv, [Next]_vars, selection' # selection PROVE Log!Save
    OBVIOUS
  <2>1. PICK s \in Saver : SaveWrite(s)
    BY DEF Next, CommandStep, vars, tables, calls, bounds, SaveBegin, SaveRead, SaveAbort, RequestRead,
       RequestWrite, TakeLock, WorkerStep, ReadSelection, RebuildDirty, Sweep, ReleaseLock,
       RequestSucceeds, RequestFails, Crash, DropLock
  <2>2. PICK c \in Changes(saver[s].rows) : Written(s, c)
    BY <2>1, Zenon DEF SaveWrite, Written
  <2>3. saver[s].step = "read"
    BY <2>1 DEF SaveWrite
  <2>4. /\ saver[s].rows = selection[Len(selection)]
        /\ selection' = Append(selection, Applied(saver[s].rows, c))
    BY <2>2, <2>3, WriteAppends
  <2>5. NoCollision(Applied(saver[s].rows, c))
    BY <2>2 DEF Written
  <2>6. Log!Newest = saver[s].rows
    <3>1. selection # << >>
      BY DEF LogInv, GrowInv, TypeOK
    <3> QED BY <2>4, <3>1 DEF Log!Newest
  <2> QED BY <2>2, <2>4, <2>5, <2>6 DEF Log!Save, Log!Changes, Log!Applied, Log!NoCollision, Log!Fields, Log!Live, Log!Row,
       Changes, Applied, NoCollision, Fields, Live, Row
<1> QED BY <1>1, <1>2, <1>3, LogNext, PTL DEF Spec, ImplementsSelectionLog, Log!Spec

-----------------------------------------------------------------------------
(* The drains.                                                             *)

LEMMA DrainInit == Init => DrainInv
BY TypeInit DEF Init, DrainInv, HolderInv, StampInv, TodoInv, IdleSaver, IdleWorker

(* Savers that only finish, or go on with the same time stamp.             *)
SaversGoOn == \A s \in Saver : saver'[s].step # "idle" =>
                saver[s].step # "idle" /\ saver'[s].at = saver[s].at

LEMMA StampKept ==
  ASSUME StampInv, requests' = requests, clock' = clock, SaversGoOn
  PROVE  StampInv'
BY DEF StampInv, SaversGoOn

LEMMA TodoKept ==
  ASSUME TodoInv, requests' = requests, clock' = clock, SaversGoOn,
         \A w \in Worker : worker'[w].todo \subseteq worker[w].todo
  PROVE  TodoInv'
BY DEF TodoInv, SaversGoOn

(* Only one worker is at work: the others are idle and have nothing to do. *)
LEMMA Alone ==
  ASSUME HolderInv, NEW w \in Worker, NEW v \in Worker, v # w, worker[w].step # "idle"
  PROVE  worker[v].step = "idle" /\ worker[v].todo = {} /\ lock = w
BY DEF HolderInv

LEMMA DrainSave ==
  ASSUME DrainInv, TypeOK', NEW s \in Saver,
         SaveBegin(s) \/ SaveRead(s) \/ SaveWrite(s) \/ SaveAbort(s)
  PROVE  DrainInv'
<1>0. /\ clock \in Nat /\ saver \in [Saver -> SaverCall] /\ requests \subseteq Request
      /\ \A w \in Worker : worker[w].todo \in SUBSET Nat
  BY DEF DrainInv, TypeOK, WorkerCall
<1>1. HolderInv'
  BY DEF DrainInv, HolderInv, SaveBegin, SaveRead, SaveWrite, SaveAbort, bounds
<1>2. worker' = worker
  BY DEF SaveBegin, SaveRead, SaveWrite, SaveAbort
<1>3. CASE SaveBegin(s)
  <2> DEFINE x == [IdleSaver EXCEPT !.step = "begun", !.at = clock]
  <2>1. x.at = clock
    BY DEF IdleSaver
  <2>2. saver' = [saver EXCEPT ![s] = x] /\ requests' = requests /\ clock' = clock + 1
        /\ saver[s].step = "idle"
    BY <1>3 DEF SaveBegin, tables
  <2> HIDE DEF x
  <2>3. saver'[s].at = clock /\ \A t \in Saver : t # s => saver'[t] = saver[t]
    BY <1>0, <2>1, <2>2
  <2>4. \A r \in requests : r.at \in Nat /\ r.at < clock
    BY <1>0 DEF DrainInv, StampInv, Request
  <2>5. \A t \in Saver : saver[t].at \in Nat
    BY <1>0 DEF SaverCall
  <2>6. StampInv'
    BY <1>0, <2>2, <2>3, <2>4, <2>5 DEF DrainInv, StampInv
  <2>7. TodoInv'
    BY <1>0, <1>2, <2>2, <2>3, <2>4 DEF DrainInv, TodoInv
  <2> QED BY <1>1, <2>6, <2>7 DEF DrainInv
<1>4. CASE SaveRead(s) \/ SaveAbort(s)
  <2>1. SaversGoOn
    <3> DEFINE x == [saver[s] EXCEPT !.step = "read", !.version = Latest, !.rows = At(Latest)]
    <3>1. x.at = saver[s].at
      BY <1>0 DEF SaverCall
    <3>2. SaveRead(s) => saver[s].step # "idle" /\ saver' = [saver EXCEPT ![s] = x]
      BY DEF SaveRead
    <3> HIDE DEF x
    <3>3. CASE SaveRead(s)
      BY <1>0, <3>1, <3>2, <3>3 DEF SaversGoOn
    <3>4. CASE SaveAbort(s)
      BY <1>0, <3>4 DEF SaveAbort, IdleSaver, SaversGoOn
    <3> QED BY <1>4, <3>3, <3>4
  <2>2. requests' = requests /\ clock' = clock
    BY <1>4 DEF SaveRead, SaveAbort, tables
  <2> QED BY <1>1, <1>2, <2>1, <2>2, StampKept, TodoKept DEF DrainInv
<1>5. CASE SaveWrite(s)
  <2>1. PICK c \in Changes(saver[s].rows) : Written(s, c)
    BY <1>5, Zenon DEF SaveWrite, Written
  <2>2. saver[s].step # "idle" /\ saver' = [saver EXCEPT ![s] = IdleSaver] /\ clock' = clock
    BY <1>5 DEF SaveWrite
  <2>3. saver'[s].step = "idle" /\ \A t \in Saver : t # s => saver'[t] = saver[t]
    BY <1>0, <2>2 DEF IdleSaver
  <2>4. requests \subseteq requests'
    BY <2>1 DEF Written
  <2>5. ASSUME NEW r \in requests', r \notin requests
        PROVE  r = [at |-> saver[s].at, version |-> saver[s].version + 1,
                    scope |-> Issue, status |-> "queued"]
    BY <2>1, <2>5, NewRequests
  <2>6. StampInv'
    <3>1. saver[s].at < clock /\ \A r \in requests : r.at # saver[s].at
      BY <2>2 DEF DrainInv, StampInv
    <3>2. \A r \in requests' : r.at < clock
      BY <2>5, <3>1 DEF DrainInv, StampInv
    <3>3. \A r, q \in requests' : r.at = q.at => r = q
      BY <2>5, <3>1 DEF DrainInv, StampInv
    <3>4. ASSUME NEW t \in Saver, saver'[t].step # "idle"
          PROVE  /\ saver'[t].at < clock
                 /\ \A r \in requests' : r.at # saver'[t].at
                 /\ \A u \in Saver : u # t /\ saver'[u].step # "idle" => saver'[u].at # saver'[t].at
      BY <2>2, <2>3, <2>5, <3>4 DEF DrainInv, StampInv
    <3> QED BY <2>2, <3>2, <3>3, <3>4 DEF StampInv
  <2>7. TodoInv'
    BY <1>2, <2>2, <2>3, <2>5 DEF DrainInv, TodoInv
  <2> QED BY <1>1, <2>6, <2>7 DEF DrainInv
<1> QED BY <1>3, <1>4, <1>5

LEMMA DrainRequest ==
  ASSUME DrainInv, TypeOK', NEW q \in Requester, RequestRead(q) \/ RequestWrite(q)
  PROVE  DrainInv'
<1>0. clock \in Nat /\ requests \subseteq Request /\ saver \in [Saver -> SaverCall]
  BY DEF DrainInv, TypeOK
<1>1. HolderInv' /\ worker' = worker /\ saver' = saver
  BY DEF DrainInv, HolderInv, RequestRead, RequestWrite, bounds
<1>2. CASE RequestRead(q)
  <2>1. SaversGoOn /\ requests' = requests /\ clock' = clock
    BY <1>1, <1>2 DEF RequestRead, tables, SaversGoOn
  <2> QED BY <1>1, <2>1, StampKept, TodoKept DEF DrainInv
<1>3. CASE RequestWrite(q)
  <2>1. PICK scope \in Scopes : requests' = requests \cup
          {[at |-> clock, version |-> requester[q].version, scope |-> scope, status |-> "queued"]}
    BY <1>3 DEF RequestWrite
  <2>2. clock' = clock + 1
    BY <1>3 DEF RequestWrite
  <2>3. ASSUME NEW r \in requests', r \notin requests PROVE r.at = clock
    BY <2>1, <2>3
  <2>4. \A r \in requests : r.at \in Nat /\ r.at < clock
    BY <1>0 DEF DrainInv, StampInv, Request
  <2>5. \A s \in Saver : saver[s].at \in Nat
    BY <1>0 DEF SaverCall
  <2>6. StampInv'
    <3>1. \A r \in requests' : r.at < clock'
      BY <1>0, <2>2, <2>3, <2>4
    <3>2. \A r, p \in requests' : r.at = p.at => r = p
      BY <1>0, <2>1, <2>4 DEF DrainInv, StampInv
    <3>3. ASSUME NEW t \in Saver, saver'[t].step # "idle"
          PROVE  /\ saver'[t].at < clock'
                 /\ \A r \in requests' : r.at # saver'[t].at
                 /\ \A u \in Saver : u # t /\ saver'[u].step # "idle" => saver'[u].at # saver'[t].at
      BY <1>0, <1>1, <2>2, <2>3, <2>5, <3>3 DEF DrainInv, StampInv
    <3> QED BY <3>1, <3>2, <3>3 DEF StampInv
  <2>7. TodoInv'
    <3>1. ASSUME NEW w \in Worker, NEW at \in worker[w].todo PROVE at \in Nat
      BY DEF DrainInv, TypeOK, WorkerCall
    <3> QED BY <1>0, <1>1, <2>2, <2>3, <3>1 DEF DrainInv, TodoInv
  <2> QED BY <1>1, <2>6, <2>7 DEF DrainInv
<1> QED BY <1>2, <1>3

(* A worker that starts, goes on or stops, without touching the queue.     *)
LEMMA DrainMoves ==
  ASSUME DrainInv, TypeOK', NEW w \in Worker, NEW x \in WorkerCall,
         worker' = [worker EXCEPT ![w] = x],
         \/ x.todo = {} /\ x.step = "idle" /\ lock' = IF lock = w THEN Nobody ELSE lock
         \/ x.todo = worker[w].todo /\ x.step # "idle" /\ lock' = w /\ lock \in {w, Nobody},
         worker[w].step = "idle" => lock = Nobody,
         requests' = requests, saver' = saver, clock' = clock, drops' = drops
  PROVE  DrainInv'
<1>0. worker \in [Worker -> WorkerCall] /\ lock \in Worker \cup {Nobody}
  BY DEF DrainInv, TypeOK
<1>1. worker'[w] = x /\ \A v \in Worker : v # w => worker'[v] = worker[v]
  BY <1>0
<1>2. ASSUME NEW v \in Worker, v # w PROVE worker[v].step = "idle" /\ worker[v].todo = {}
  BY <1>2, NobodyType DEF DrainInv, HolderInv
<1>3. HolderInv'
  BY <1>1, <1>2 DEF DrainInv, HolderInv
<1>4. \A v \in Worker : worker'[v].todo \subseteq worker[v].todo
  BY <1>1
<1>5. SaversGoOn
  BY DEF SaversGoOn
<1> QED BY <1>3, <1>4, <1>5, StampKept, TodoKept DEF DrainInv

(* A sweep takes only what nobody else is working on.                      *)
LEMMA DrainSweep ==
  ASSUME DrainInv, TypeOK', NEW w \in Worker, Sweep(w)
  PROVE  DrainInv'
<1> DEFINE open == {r \in requests : r.status \in {"queued", "running"}}
           x == [worker[w] EXCEPT !.step = "draining", !.todo = {r.at : r \in open}]
<1>0. worker \in [Worker -> WorkerCall] /\ requests \subseteq Request
  BY DEF DrainInv, TypeOK
<1>1. x.step = "draining" /\ x.todo = {r.at : r \in open}
  BY <1>0 DEF WorkerCall
<1>2. /\ worker[w].step # "idle"
      /\ worker' = [worker EXCEPT ![w] = x]
      /\ requests' = (requests \ open) \cup {[r EXCEPT !.status = "running"] : r \in open}
      /\ saver' = saver /\ clock' = clock /\ lock' = lock /\ drops' = drops
  BY DEF Sweep, bounds
<1> HIDE DEF x
<1>3. worker'[w] = x /\ \A v \in Worker : v # w => worker'[v] = worker[v]
  BY <1>0, <1>2
<1>4. \A v \in Worker : v # w => worker[v].todo = {} /\ worker[v].step = "idle"
  BY <1>2, Alone DEF DrainInv
<1>5. HolderInv'
  BY <1>1, <1>2, <1>3, <1>4, Alone DEF DrainInv, HolderInv
<1>6. ASSUME NEW q \in requests'
      PROVE  \/ q \in requests /\ q \notin open
             \/ q.status = "running" /\ \E r \in open : q.at = r.at /\ q = [r EXCEPT !.status = "running"]
  <2>1. ASSUME NEW r \in open
        PROVE  [r EXCEPT !.status = "running"].at = r.at /\ [r EXCEPT !.status = "running"].status = "running"
    BY <1>0 DEF Request
  <2> QED BY <1>2, <2>1
<1>7. StampInv'
  BY <1>2, <1>6 DEF DrainInv, StampInv
<1>8. TodoInv'
  <2> SUFFICES ASSUME NEW v \in Worker, NEW at \in worker'[v].todo
               PROVE  /\ at < clock'
                      /\ \A s \in Saver : saver'[s].step # "idle" => saver'[s].at # at
                      /\ \A r \in requests' : r.at = at => r.status = "running"
    BY DEF TodoInv
  <2>1. v = w
    BY <1>3, <1>4
  <2>2. PICK p \in open : at = p.at
    BY <1>1, <1>3, <2>1
  <2>3. \A r \in requests' : r.at = at => r.status = "running"
    BY <1>6, <2>2 DEF DrainInv, StampInv
  <2> QED BY <1>2, <2>2, <2>3 DEF DrainInv, StampInv
<1> QED BY <1>5, <1>7, <1>8 DEF DrainInv

(* A request is finished once, and only that one.                          *)
LEMMA DrainFinish ==
  ASSUME DrainInv, TypeOK', NEW w \in Worker, NEW r \in requests, NEW status \in Status,
         IsNext(w, r), Finish(w, r, status),
         saver' = saver, clock' = clock, lock' = lock, drops' = drops
  PROVE  DrainInv' /\ r.status = "running"
<1> DEFINE x == [worker[w] EXCEPT !.todo = @ \ {r.at}]
           done == [r EXCEPT !.status = status]
<1>0. worker \in [Worker -> WorkerCall] /\ requests \subseteq Request
  BY DEF DrainInv, TypeOK
<1>1. x.step = worker[w].step /\ x.todo = worker[w].todo \ {r.at} /\ done.at = r.at
  BY <1>0 DEF WorkerCall, Request
<1>2. /\ worker[w].step # "idle" /\ r.at \in worker[w].todo
      /\ worker' = [worker EXCEPT ![w] = x]
      /\ requests' = (requests \ {r}) \cup {done}
  BY DEF IsNext, Finish
<1> HIDE DEF x, done
<1>3. worker'[w] = x /\ \A v \in Worker : v # w => worker'[v] = worker[v]
  BY <1>0, <1>2
<1>4. \A v \in Worker : v # w => worker[v].todo = {} /\ worker[v].step = "idle"
  BY <1>2, Alone DEF DrainInv
<1>5. HolderInv'
  BY <1>1, <1>2, <1>3, <1>4, Alone DEF DrainInv, HolderInv
<1>6. StampInv'
  BY <1>1, <1>2 DEF DrainInv, StampInv
<1>7. TodoInv'
  BY <1>1, <1>2, <1>3, <1>4 DEF DrainInv, TodoInv
<1>8. r.status = "running"
  BY <1>2 DEF DrainInv, TodoInv
<1> QED BY <1>5, <1>6, <1>7, <1>8 DEF DrainInv

LEMMA DrainWorker ==
  ASSUME DrainInv, TypeOK', NEW w \in Worker, TakeLock(w) \/ WorkerStep(w) \/ Crash(w)
  PROVE  DrainInv'
<1>0. worker[w] \in WorkerCall
  BY DEF DrainInv, TypeOK
<1>1. worker[w].step # "idle" => lock = w
  BY DEF DrainInv, HolderInv
<1>2. IdleWorker \in WorkerCall /\ IdleWorker.todo = {} /\ IdleWorker.step = "idle"
  BY DEF IdleWorker, WorkerCall
<1>3. CASE TakeLock(w)
  <2> DEFINE x == [worker[w] EXCEPT !.step = "locked"]
  <2>1. x \in WorkerCall /\ x.todo = worker[w].todo /\ x.step = "locked"
    BY <1>0 DEF WorkerCall
  <2>2. worker' = [worker EXCEPT ![w] = x] /\ lock = Nobody /\ lock' = w
        /\ requests' = requests /\ saver' = saver /\ clock' = clock /\ drops' = drops
    BY <1>3 DEF TakeLock, tables, bounds
  <2> HIDE DEF x
  <2> QED BY <2>1, <2>2, DrainMoves
<1>4. CASE ReadSelection(w)
  <2> DEFINE x == [worker[w] EXCEPT !.step = "selected", !.version = Latest, !.rows = At(Latest)]
  <2>1. Latest \in Nat /\ At(Latest) \in SUBSET Row
    BY AtType DEF DrainInv, TypeOK, Latest
  <2>2. x \in WorkerCall /\ x.todo = worker[w].todo /\ x.step = "selected"
    BY <1>0, <2>1 DEF WorkerCall
  <2>3. worker' = [worker EXCEPT ![w] = x] /\ worker[w].step # "idle" /\ lock' = lock
        /\ requests' = requests /\ saver' = saver /\ clock' = clock /\ drops' = drops
    BY <1>4 DEF ReadSelection, tables, bounds
  <2> HIDE DEF x
  <2> QED BY <1>1, <2>2, <2>3, DrainMoves
<1>5. CASE RebuildDirty(w)
  <2> DEFINE x == [worker[w] EXCEPT !.step = "transformed"]
  <2>1. x \in WorkerCall /\ x.todo = worker[w].todo /\ x.step = "transformed"
    BY <1>0 DEF WorkerCall
  <2>2. worker' = [worker EXCEPT ![w] = x] /\ worker[w].step # "idle" /\ lock' = lock
        /\ requests' = requests /\ saver' = saver /\ clock' = clock /\ drops' = drops
    BY <1>5 DEF RebuildDirty, bounds
  <2> HIDE DEF x
  <2> QED BY <1>1, <2>1, <2>2, DrainMoves
<1>6. CASE Sweep(w)
  BY <1>6, DrainSweep
<1>7. ASSUME NEW r \in requests, RequestSucceeds(w, r) \/ RequestFails(w, r) PROVE DrainInv'
  <2>1. IsNext(w, r) /\ \E status \in Status : Finish(w, r, status)
    BY <1>7 DEF RequestSucceeds, RequestFails, Status
  <2>2. saver' = saver /\ clock' = clock /\ lock' = lock /\ drops' = drops
    BY <1>7 DEF RequestSucceeds, RequestFails, bounds
  <2> QED BY <2>1, <2>2, DrainFinish
<1>8. CASE ReleaseLock(w) \/ Crash(w)
  <2>1. /\ worker' = [worker EXCEPT ![w] = IdleWorker] /\ worker[w].step # "idle"
        /\ lock' = IF lock = w THEN Nobody ELSE lock
        /\ requests' = requests /\ saver' = saver /\ clock' = clock /\ drops' = drops
    BY <1>8 DEF ReleaseLock, Crash, tables, bounds
  <2> QED BY <1>2, <2>1, DrainMoves
<1> QED BY <1>3, <1>4, <1>5, <1>6, <1>7, <1>8 DEF WorkerStep

LEMMA DrainNext == MaxDrop = 0 /\ DrainInv /\ [Next]_vars => DrainInv'
<1> SUFFICES ASSUME MaxDrop = 0, DrainInv, [Next]_vars PROVE DrainInv'
  OBVIOUS
<1>0. TypeOK'
  BY TypeNext DEF DrainInv
<1>1. CASE DropLock
  BY <1>1 DEF DropLock, DrainInv, HolderInv
<1>2. CASE UNCHANGED vars
  BY <1>0, <1>2 DEF vars, tables, calls, bounds, DrainInv, HolderInv, StampInv, TodoInv
<1> QED BY <1>0, <1>1, <1>2, DrainSave, DrainRequest, DrainWorker DEF Next, CommandStep

(* No drain takes over what a living one is working on, while no lock is   *)
(* lost.                                                                   *)
THEOREM DrainsExclude == ASSUME MaxDrop = 0 PROVE Spec => SweepOnlyAfterCrash
<1>1. DrainInv /\ [Next]_vars =>
        [\A w, v \in Worker : v # w /\ Sweep(w) => worker'[w].todo \cap worker[v].todo = {}]_vars
  <2> SUFFICES ASSUME DrainInv, NEW w \in Worker, NEW v \in Worker, v # w, Sweep(w)
               PROVE  worker'[w].todo \cap worker[v].todo = {}
    OBVIOUS
  <2> QED BY Alone DEF DrainInv, Sweep
<1>2. DrainInv /\ [Next]_vars => DrainInv'
  BY DrainNext
<1> QED BY <1>1, <1>2, DrainInit, PTL DEF Spec, SweepOnlyAfterCrash

(* A request is answered once, crashes and retries included, while no lock *)
(* is lost.                                                                *)
THEOREM AnsweredOnce == ASSUME MaxDrop = 0 PROVE Spec => FinishedOnce
<1>1. DrainInv /\ [Next]_vars =>
        [\A r \in requests : r.status \in {"succeeded", "failed"} =>
           \E q \in requests' : q.at = r.at /\ q.status = r.status]_vars
  <2> SUFFICES ASSUME DrainInv, Next, NEW r \in requests, r.status \in {"succeeded", "failed"}
               PROVE  r \in requests'
    BY DEF vars, tables
  <2>1. ASSUME NEW s \in Saver, SaveWrite(s) PROVE r \in requests'
    BY <2>1 DEF SaveWrite
  <2>2. ASSUME NEW q \in Requester, RequestWrite(q) PROVE r \in requests'
    BY <2>2 DEF RequestWrite
  <2>3. ASSUME NEW w \in Worker, Sweep(w) PROVE r \in requests'
    BY <2>3 DEF Sweep
  <2>4. ASSUME NEW w \in Worker, NEW q \in requests, RequestSucceeds(w, q) \/ RequestFails(w, q)
        PROVE  r \in requests'
    <3>1. IsNext(w, q) /\ \E status \in Status : Finish(w, q, status)
      BY <2>4 DEF RequestSucceeds, RequestFails, Status
    <3>2. q.status = "running"
      BY <3>1 DEF IsNext, DrainInv, TodoInv
    <3> QED BY <3>1, <3>2 DEF Finish
  <2>5. CASE requests' = requests
    BY <2>5
  <2> QED BY <2>1, <2>2, <2>3, <2>4, <2>5 DEF Next, CommandStep, WorkerStep, SaveBegin, SaveRead, SaveAbort,
       RequestRead, TakeLock, ReadSelection, RebuildDirty, ReleaseLock, Crash, DropLock, tables
<1>2. DrainInv /\ [Next]_vars => DrainInv'
  BY DrainNext
<1> QED BY <1>1, <1>2, DrainInit, PTL DEF Spec, FinishedOnce

=============================================================================
