---------------------------- MODULE FieldRebuild ----------------------------
(***************************************************************************)
(* From a field selection to the promoted columns of analytics.            *)
(*                                                                         *)
(* `flowbi fields promote | demote | import` save a new version of the     *)
(* selection and queue a rebuild of it; `fields request-rebuild` queues    *)
(* one more; `flowbi transform` writes the promoted columns of the dirty   *)
(* issues, then drains the queue.  All of them are separate processes on   *)
(* one READ COMMITTED database: each action below is one transaction, or   *)
(* one statement of it that other processes can come between.  Transforms  *)
(* hold a session-level advisory lock, which is lost with its connection.  *)
(***************************************************************************)
EXTENDS FieldSelection, Integers, Sequences, FiniteSets

CONSTANTS
  Issue,       \* issues with a row in analytics.issue
  Scopes,      \* what a request can cover: all issues, or those of a project
  Saver,       \* processes that save a selection
  Requester,   \* processes that run `fields request-rebuild`
  Worker,      \* processes that run `flowbi transform`
  Nobody,      \* holds the transform lock when no worker does
  NoField,     \* what a column holds of an issue before it was filled
  Type,        \* SQL types of columns
  TypeOf,      \* the type a field's column is created with
  NoType,      \* of a column that does not exist yet
  Selected0,   \* the versions saved before the behaviour starts
  MaxVersion,  \* bound: versions
  MaxClock,    \* bound: transactions that take a time stamp
  MaxFault,    \* bound: deaths and failures
  MaxDrop      \* bound: lost lock connections

ASSUME ScopesType    == Scopes \subseteq (SUBSET Issue) \ {{}}
ASSUME Selected0Type == Selected0 \in Seq(SUBSET Row)
ASSUME NobodyType    == Nobody \notin Worker
ASSUME TypeOfType    == TypeOf \in [Field -> Type] /\ NoType \notin Type
ASSUME BoundsType    == MaxVersion \in Nat /\ MaxClock \in Nat /\ MaxFault \in Nat
                          /\ MaxDrop \in Nat

VARIABLES
  selection,  \* flowbi_ops.field_selection: the rows of version v are selection[v]
  requests,   \* flowbi_ops.rebuild_request
  columnType, \* the columns and bridge tables of analytics that exist, by type
  content,    \* the field each promoted column of an issue was filled from
  saver,      \* the save_selection() call of each saver
  requester,  \* the request_rebuild() call of each requester
  worker,     \* the run_transform() call of each worker
  lock,       \* the holder of the transform lock
  clock,      \* now(), as transactions see it when they begin
  faults,     \* deaths and failures so far
  drops       \* lost lock connections so far

calls  == <<saver, requester, worker>>
tables == <<selection, requests, columnType, content>>
bounds == <<faults, drops>>
vars   == <<tables, calls, lock, clock, bounds>>

-----------------------------------------------------------------------------
Latest == Len(selection)

(* current_selection() at a version; 0 and unknown versions have no rows.  *)
At(v) == IF v \in DOMAIN selection THEN selection[v] ELSE {}

(* The live rows that a rebuild writes.  A column that exists with another *)
(* type is left as it is.                                                  *)
Fitting(rows) == {r \in Live(rows) : columnType[r.column] \in {NoType, TypeOf[r.field]}}

(* The field a rebuild fills column c from.                                *)
FieldOf(rows, c, otherwise) ==
  IF \E r \in Fitting(rows) : r.column = c
  THEN (CHOOSE r \in Fitting(rows) : r.column = c).field
  ELSE otherwise

Status  == {"queued", "running", "succeeded", "failed"}
Request == [at : Nat, version : Nat, scope : Scopes \cup {Issue}, status : Status]

SaverCall  == [step : {"idle", "begun", "read"}, at : Nat, version : Nat, rows : SUBSET Row]
WorkerCall == [step : {"idle", "locked", "selected", "transformed", "draining"},
               version : Nat, rows : SUBSET Row, todo : SUBSET Nat]

IdleSaver     == [step |-> "idle", at |-> 0, version |-> 0, rows |-> {}]
IdleRequester == [step |-> "idle", version |-> 0]
IdleWorker    == [step |-> "idle", version |-> 0, rows |-> {}, todo |-> {}]

(* The save of the last version has queued its rebuild.                    *)
Init ==
  /\ selection = Selected0
  /\ requests = [at : {0}, version : {Latest} \ {0}, scope : {Issue}, status : {"queued"}]
  /\ columnType = [c \in Column |-> NoType]
  /\ content = [c \in Column |-> [i \in Issue |-> NoField]]
  /\ saver = [s \in Saver |-> IdleSaver]
  /\ requester = [q \in Requester |-> IdleRequester]
  /\ worker = [w \in Worker |-> IdleWorker]
  /\ lock = Nobody
  /\ clock = 1
  /\ faults = 0
  /\ drops = 0

-----------------------------------------------------------------------------
(* save_selection().                                                       *)

(* The transaction begins, which fixes its now().                          *)
SaveBegin(s) ==
  /\ saver[s].step = "idle"
  /\ Latest < MaxVersion /\ clock <= MaxClock
  /\ saver' = [saver EXCEPT ![s] = [IdleSaver EXCEPT !.step = "begun", !.at = clock]]
  /\ clock' = clock + 1
  /\ UNCHANGED <<tables, requester, worker, lock, bounds>>

(* The latest version and its rows, as committed by now.                   *)
SaveRead(s) ==
  /\ saver[s].step = "begun"
  /\ saver' = [saver EXCEPT ![s] = [@ EXCEPT !.step = "read", !.version = Latest,
                                             !.rows = At(Latest)]]
  /\ UNCHANGED <<tables, requester, worker, lock, clock, bounds>>

(* Mutant: no unique constraint.                                           *)
NeverTaken(version, rows) == FALSE

(* The unique constraint (version, instance_id, field_name, schema_type).  *)
Taken(version, rows) == Fields(rows) \cap Fields(At(version)) # {}

(* Mutant: promoting queues nothing.                                       *)
SaveWithoutRequest(s) ==
  LET version == saver[s].version + 1
  IN /\ saver[s].step = "read"
     /\ \E c \in Changes(saver[s].rows) :
          LET rows == Applied(saver[s].rows, c)
          IN /\ NoCollision(rows)
             /\ ~Taken(version, rows)
             /\ selection' = IF version <= Latest
                             THEN [selection EXCEPT ![version] = @ \cup rows]
                             ELSE Append(selection, rows)
             /\ requests' = requests
     /\ saver' = [saver EXCEPT ![s] = IdleSaver]
     /\ UNCHANGED <<columnType, content, requester, worker, lock, clock, bounds>>

(* The snapshot is inserted under the next number, with a rebuild request  *)
(* if the save promotes anything, and the transaction commits.             *)
SaveWrite(s) ==
  LET version == saver[s].version + 1
  IN /\ saver[s].step = "read"
     /\ \E c \in Changes(saver[s].rows) :
          LET rows == Applied(saver[s].rows, c)
          IN /\ NoCollision(rows)
             /\ ~Taken(version, rows)
             /\ selection' = IF version <= Latest
                             THEN [selection EXCEPT ![version] = @ \cup rows]
                             ELSE Append(selection, rows)
             /\ requests' = requests \cup
                  [at : IF c.promote = {} THEN {} ELSE {saver[s].at}, version : {version},
                   scope : {Issue}, status : {"queued"}]
     /\ saver' = [saver EXCEPT ![s] = IdleSaver]
     /\ UNCHANGED <<columnType, content, requester, worker, lock, clock, bounds>>

(* A change is refused, the constraint is violated, or the process dies.   *)
SaveAbort(s) ==
  /\ saver[s].step # "idle"
  /\ saver' = [saver EXCEPT ![s] = IdleSaver]
  /\ UNCHANGED <<tables, requester, worker, lock, clock, bounds>>

-----------------------------------------------------------------------------
(* request_rebuild().                                                      *)

(* The version is the operator's, or the latest if there is one.           *)
RequestRead(q) ==
  /\ requester[q].step = "idle"
  /\ \E v \in 1..Latest :
       requester' = [requester EXCEPT ![q] = [step |-> "read", version |-> v]]
  /\ UNCHANGED <<tables, saver, worker, lock, clock, bounds>>

RequestWrite(q) ==
  /\ requester[q].step = "read"
  /\ clock <= MaxClock
  /\ clock' = clock + 1
  /\ \E scope \in Scopes :
       requests' = requests \cup
         {[at |-> clock, version |-> requester[q].version, scope |-> scope, status |-> "queued"]}
  /\ requester' = [requester EXCEPT ![q] = IdleRequester]
  /\ UNCHANGED <<selection, columnType, content, saver, worker, lock, bounds>>

-----------------------------------------------------------------------------
(* run_transform().                                                        *)

(* Mutant: the lock does not wait.                                         *)
TakeLockNoWait(w) ==
  /\ worker[w].step = "idle"
  /\ lock' = w
  /\ worker' = [worker EXCEPT ![w].step = "locked"]
  /\ UNCHANGED <<tables, saver, requester, clock, bounds>>

TakeLock(w) ==
  /\ worker[w].step = "idle"
  /\ lock = Nobody
  /\ lock' = w
  /\ worker' = [worker EXCEPT ![w].step = "locked"]
  /\ UNCHANGED <<tables, saver, requester, clock, bounds>>

(* _transform() reads the selection before its transaction, on a           *)
(* connection of its own.                                                  *)
ReadSelection(w) ==
  /\ worker[w].step = "locked"
  /\ worker' = [worker EXCEPT ![w] = [@ EXCEPT !.step = "selected", !.version = Latest,
                                               !.rows = At(Latest)]]
  /\ UNCHANGED <<tables, saver, requester, lock, clock, bounds>>

(* rebuild_issue_columns(): for the issues of S, if any, every missing     *)
(* column of the rows is added, and every fitting one filled.  Postgres    *)
(* refuses an UPDATE that sets a column twice.                             *)
Rebuild(rows, S) ==
  /\ S # {} => NoCollision(Fitting(rows))
  /\ content' = [c \in Column |-> [i \in Issue |->
       IF i \in S THEN FieldOf(rows, c, content[c][i]) ELSE content[c][i]]]
  /\ columnType' = [c \in Column |->
       IF S # {} /\ \E r \in Fitting(rows) : r.column = c
       THEN TypeOf[FieldOf(rows, c, NoField)] ELSE columnType[c]]

(* The transform's own transaction, for the issues it found dirty, or for  *)
(* all of them (--rebuild-all).                                            *)
RebuildDirty(w) ==
  /\ worker[w].step = "selected"
  /\ \E S \in SUBSET Issue : Rebuild(worker[w].rows, S)
  /\ worker' = [worker EXCEPT ![w].step = "transformed"]
  /\ UNCHANGED <<selection, requests, saver, requester, lock, clock, bounds>>

(* Mutant: only queued requests are taken.                                 *)
SweepQueued(w) ==
  LET open == {r \in requests : r.status = "queued"}
  IN /\ worker[w].step = "transformed"
     /\ worker' = [worker EXCEPT ![w] = [@ EXCEPT !.step = "draining",
                                                  !.todo = {r.at : r \in open}]]
     /\ requests' = (requests \ open) \cup {[r EXCEPT !.status = "running"] : r \in open}
     /\ UNCHANGED <<selection, columnType, content, saver, requester, lock, clock, bounds>>

(* One transaction: what a crashed run left running is queued again, and   *)
(* everything queued is taken and set running.                             *)
Sweep(w) ==
  LET open == {r \in requests : r.status \in {"queued", "running"}}
  IN /\ worker[w].step = "transformed"
     /\ worker' = [worker EXCEPT ![w] = [@ EXCEPT !.step = "draining",
                                                  !.todo = {r.at : r \in open}]]
     /\ requests' = (requests \ open) \cup {[r EXCEPT !.status = "running"] : r \in open}
     /\ UNCHANGED <<selection, columnType, content, saver, requester, lock, clock, bounds>>

(* The next request of the drain, in the order of requested_at.            *)
IsNext(w, r) == /\ worker[w].step = "draining"
                /\ r \in requests
                /\ r.at \in worker[w].todo
                /\ \A at \in worker[w].todo : r.at <= at

(* Finishing a request sets its status, whatever it is by now.             *)
Finish(w, r, status) ==
  /\ requests' = (requests \ {r}) \cup {[r EXCEPT !.status = status]}
  /\ worker' = [worker EXCEPT ![w].todo = @ \ {r.at}]

RequestSucceeds(w, r) ==
  /\ IsNext(w, r)
  /\ Rebuild(At(r.version), r.scope)
  /\ Finish(w, r, "succeeded")
  /\ UNCHANGED <<selection, saver, requester, lock, clock, bounds>>

(* Mutant: a status no reader knows.                                       *)
RequestFailsWithError(w, r) ==
  /\ IsNext(w, r)
  /\ faults < MaxFault /\ faults' = faults + 1
  /\ Finish(w, r, "error")
  /\ UNCHANGED <<selection, columnType, content, saver, requester, lock, clock, drops>>

(* A request whose rebuild is refused or fails is not tried again.         *)
RequestFails(w, r) ==
  /\ IsNext(w, r)
  /\ \/ ~NoCollision(Fitting(At(r.version))) /\ UNCHANGED faults
     \/ faults < MaxFault /\ faults' = faults + 1
  /\ Finish(w, r, "failed")
  /\ UNCHANGED <<selection, columnType, content, saver, requester, lock, clock, drops>>


(* The unlock of a lock that is already lost is only logged.               *)
ReleaseLock(w) ==
  /\ worker[w].step = "draining" /\ worker[w].todo = {}
  /\ lock' = IF lock = w THEN Nobody ELSE lock
  /\ worker' = [worker EXCEPT ![w] = IdleWorker]
  /\ UNCHANGED <<tables, saver, requester, clock, bounds>>

(* The process dies or raises; open transactions roll back, the session    *)
(* and its lock end.                                                       *)
Crash(w) ==
  /\ worker[w].step # "idle"
  /\ \/ /\ worker[w].step = "selected"
        /\ ~NoCollision(Fitting(worker[w].rows))
        /\ UNCHANGED faults
     \/ faults < MaxFault /\ faults' = faults + 1
  /\ lock' = IF lock = w THEN Nobody ELSE lock
  /\ worker' = [worker EXCEPT ![w] = IdleWorker]
  /\ UNCHANGED <<tables, saver, requester, clock, drops>>

(* The lock's own connection, idle while its holder works, drops.          *)
DropLock ==
  /\ lock # Nobody
  /\ drops < MaxDrop
  /\ drops' = drops + 1
  /\ lock' = Nobody
  /\ UNCHANGED <<tables, calls, clock, faults>>

-----------------------------------------------------------------------------
WorkerStep(w) ==
  \/ ReadSelection(w) \/ RebuildDirty(w) \/ Sweep(w) \/ ReleaseLock(w)
  \/ \E r \in requests : RequestSucceeds(w, r) \/ RequestFails(w, r)

CommandStep ==
  \/ \E s \in Saver : SaveBegin(s) \/ SaveRead(s) \/ SaveWrite(s) \/ SaveAbort(s)
  \/ \E q \in Requester : RequestRead(q) \/ RequestWrite(q)
  \/ \E w \in Worker : TakeLock(w) \/ WorkerStep(w) \/ Crash(w)

Next == CommandStep \/ DropLock

Spec == Init /\ [][Next]_vars

(* No lock is lost while its holder works.                                 *)
HeldSpec == Init /\ [][CommandStep]_vars

(* A transform that runs goes on, unless its selection cannot be written,  *)
(* and transforms are scheduled again and again; nothing is asked of the   *)
(* other commands.                                                         *)
Fairness ==
  /\ WF_vars(\E w \in Worker : TakeLock(w))
  /\ \A w \in Worker : WF_vars(NoCollision(worker[w].rows) /\ WorkerStep(w))

-----------------------------------------------------------------------------
TypeOK ==
  /\ selection \in Seq(SUBSET Row)
  /\ requests \subseteq Request
  /\ columnType \in [Column -> Type \cup {NoType}]
  /\ content \in [Column -> [Issue -> Field \cup {NoField}]]
  /\ saver \in [Saver -> SaverCall]
  /\ requester \in [Requester -> [step : {"idle", "read"}, version : Nat]]
  /\ worker \in [Worker -> WorkerCall]
  /\ lock \in Worker \cup {Nobody}
  /\ clock \in Nat /\ faults \in Nat /\ drops \in Nat

(* Whatever saves interleave, field_selection is the log it promises to    *)
(* be: each version is the one before it with one save applied, complete   *)
(* and unchanged ever after.                                               *)
Log == INSTANCE SelectionLog WITH log <- selection
ImplementsSelectionLog == Log!Spec

(* The drain goes by time stamps.  A request stamped after one for a newer *)
(* version undoes that one: `request-rebuild` of an old version, or a save *)
(* whose transaction began before that of the save it follows.             *)
Undoing(r) == \E q \in requests : q.version > r.version /\ q.at < r.at

(* The requests for every issue, at the newest version there is one for.   *)
NewestFull == {r \in requests :
                 r.scope = Issue /\ \A q \in requests : q.scope = Issue => q.version <= r.version}

Drained == \A r \in requests : r.status \notin {"queued", "running"}

(* Once the queue is drained, every promoted column holds the values of    *)
(* its field for every issue, not only for the issues a transform found    *)
(* dirty: unless the newest rebuild failed, or was undone by an older one, *)
(* or the column has another type.                                         *)
ColumnsFollowSelection ==
  /\ Drained
  /\ \A r \in NewestFull : r.status = "succeeded"
  /\ \A r \in requests : ~Undoing(r)
  => \A r \in Fitting(At(Latest)), i \in Issue : content[r.column][i] = r.field

(* A drain takes over only the running requests of a drain that is gone.   *)
SweepOnlyAfterCrash ==
  [][\A w, v \in Worker :
       v # w /\ Sweep(w) => worker'[w].todo \cap worker[v].todo = {}]_vars

(* A finished request stays finished.                                      *)
FinishedOnce ==
  [][\A r \in requests : r.status \in {"succeeded", "failed"} =>
       \E q \in requests' : q.at = r.at /\ q.status = r.status]_vars

(* "Always a complete, self-consistent view": no version has two live      *)
(* fields in one column.                                                   *)
SelfConsistent == \A v \in DOMAIN selection : NoCollision(selection[v])

(* Every request is answered, crashes and lost locks or not, and none      *)
(* stays running forever: as long as transforms can write the selection.   *)
EveryRequestFinishes == []SelfConsistent => []<>Drained

=============================================================================
