----------------------------- MODULE DirtyQueue -----------------------------
(***************************************************************************)
(* From a committed load to a rebuilt analytics row.                       *)
(*                                                                         *)
(* `flowbi extract` leaves dlt packages on disk, loads them into jira_raw  *)
(* and then queues their issues in flowbi_ops.issue_dirty; `flowbi         *)
(* transform` claims the queue and rebuilds the status intervals and the   *)
(* issue columns of what it claimed, in one READ COMMITTED transaction.    *)
(* Extract runs and transforms are different processes: every statement    *)
(* below interleaves with every step of a load.  A process may die at any  *)
(* of its steps.                                                           *)
(*                                                                         *)
(* An issue's content is abstracted to its version, the order of its       *)
(* `updated` stamps; 0 stands for "no row".                                *)
(***************************************************************************)
EXTENDS Integers, FiniteSets

CONSTANTS
  Issue,       \* issue ids of one Jira instance
  Pipeline,    \* dlt pipelines, one per project the instance is extracted by
  PipelineOf,  \* the pipeline whose extractions see an issue
  Project,     \* project keys
  ProjectOf,   \* the project of an issue
  NoProject,   \* no --project option
  Scopes,      \* the values of `transform --project` in use
  MaxVersion,  \* bound: versions per issue
  MaxLoad,     \* bound: packages ever extracted
  MaxFault     \* bound: deaths and failures of processes

ASSUME PipelineOfType == PipelineOf \in [Issue -> Pipeline]
ASSUME ProjectOfType  == ProjectOf \in [Issue -> Project]
ASSUME ScopesType     == Scopes \subseteq Project \cup {NoProject}
ASSUME BoundsType     == MaxVersion \in Nat /\ MaxLoad \in Nat /\ MaxFault \in Nat

VARIABLES
  jira,       \* the version of each issue in Jira
  issues,     \* jira_raw.issues: version and _dlt_load_id of each row
  changelog,  \* jira_raw.issue_changelog: the version whose history its rows hold
  status,     \* jira_raw.issue_changelog_status
  nextLoad,   \* the next dlt load id
  packages,   \* packages in each pipeline's working directory, not yet loaded
  run,        \* the extract process of each pipeline
  opsReady,   \* flowbi_ops has been migrated
  dirty,      \* flowbi_ops.issue_dirty
  intervals,  \* analytics.issue_status_interval: what its rows were built from
  columns,    \* analytics.issue: the version of the raw row it was built from
  tx,         \* the transaction of the process that holds the transform lock
  faults,     \* deaths and failures so far
  unmarked,   \* history: the loads no run will ever mark, and why
  dropped     \* history: claimed, then left out by --project

raw      == <<issues, changelog, status>>
extract  == <<nextLoad, packages, run>>
analytic == <<intervals, columns>>
history  == <<unmarked, dropped>>
vars     == <<jira, raw, extract, opsReady, dirty, analytic, tx, faults, history>>

-----------------------------------------------------------------------------
Resource == {"issues", "issue_changelog"}

(* One package holds one resource; issue_changelog feeds two tables.       *)
TablesOf(res) == IF res = "issues" THEN {"issues"}
                 ELSE {"issue_changelog", "issue_changelog_status"}

RawRow    == [version : Nat, load : Nat]
StatusRow == [version : Nat, complete : BOOLEAN, load : Nat]
Package   == [id : Nat, res : Resource,
              rows : [Issue -> [version : Nat, complete : BOOLEAN]],
              merged : SUBSET {"issues", "issue_changelog", "issue_changelog_status"}]
InPackage(g) == {i \in Issue : g.rows[i].version > 0}
Built     == [changelog : Nat, issue : Nat]

(* The extract process: its step, and the load ids its LoadInfo will name. *)
Steps   == {"idle", "extracted", "loading", "mark_issues", "mark_changelog"}
IdleRun == [step |-> "idle", loads |-> {}]

(* Mutant: names the tables that are read instead of the resources.        *)
ToMarkTables(step) ==
  IF step = "idle" THEN {} ELSE {"issues", "issue_changelog_status"}

(* The resources a run has still to mark once its load is through: every   *)
(* dirty-marking table, not just the resource it extracted.                *)
ToMark(step) == IF step = "idle" THEN {}
                ELSE IF step = "mark_changelog" THEN {"issue_changelog"}
                ELSE Resource

(* The rows a load stamped, read from issues and issue_changelog_status.   *)
LoadedBy(res, loads) == IF res = "issues"
                        THEN {i \in Issue : issues[i].load \in loads}
                        ELSE {i \in Issue : status[i].load \in loads}

(* Mutant: an older changelog will do.                                     *)
CompleteAnyVersion(i) == status[i].complete

(* partition_incomplete: a whole changelog, extracted for the version of   *)
(* the issue that jira_raw.issues holds (or for an issue with no row).     *)
Complete(i) == /\ status[i].complete
               /\ status[i].version >= issues[i].version

IdleTx == [step |-> "idle", claimed |-> {}, candidates |-> {}, ids |-> {},
           complete |-> {}, intervals |-> intervals, columns |-> columns]

Init ==
  /\ jira = [i \in Issue |-> 1]
  /\ issues = [i \in Issue |-> [version |-> 0, load |-> 0]]
  /\ changelog = [i \in Issue |-> 0]
  /\ status = [i \in Issue |-> [version |-> 0, complete |-> FALSE, load |-> 0]]
  /\ nextLoad = 1
  /\ packages = [p \in Pipeline |-> {}]
  /\ run = [p \in Pipeline |-> IdleRun]
  /\ opsReady \in BOOLEAN
  /\ dirty = {}
  /\ intervals = [i \in Issue |-> [changelog |-> 0, issue |-> 0]]
  /\ columns = [i \in Issue |-> 0]
  /\ tx = IdleTx
  /\ faults = 0
  /\ unmarked = {}
  /\ dropped = {}

-----------------------------------------------------------------------------
(* Jira and the operator.                                                  *)

Update(i) ==
  /\ jira[i] < MaxVersion
  /\ jira' = [jira EXCEPT ![i] = @ + 1]
  /\ UNCHANGED <<raw, extract, opsReady, dirty, analytic, tx, faults, history>>

Migrate ==
  /\ ~opsReady
  /\ opsReady' = TRUE
  /\ UNCHANGED <<jira, raw, extract, dirty, analytic, tx, faults, history>>

-----------------------------------------------------------------------------
(* The extract process.                                                    *)

(* What a walk that found the issues S wrote to its package: each at its   *)
(* current version, its changelog whole only for the issues in W.          *)
Walked(S, W) ==
  [i \in Issue |-> [version |-> IF i \in S THEN jira[i] ELSE 0, complete |-> i \in W]]

(* extract() and normalize(): the package is on disk.  A walk that found   *)
(* nothing leaves no package, and the run goes on to load leftovers.       *)
Extract(p, res) ==
  /\ run[p].step = "idle"
  /\ run' = [run EXCEPT ![p].step = "extracted"]
  /\ \/ /\ packages[p] # {}
        /\ UNCHANGED <<packages, nextLoad>>
     \/ /\ nextLoad <= MaxLoad
        /\ nextLoad' = nextLoad + 1
        /\ \E S \in SUBSET {i \in Issue : PipelineOf[i] = p} \ {{}} :
             \E W \in IF res = "issues" THEN {S} ELSE SUBSET S :
               packages' = [packages EXCEPT ![p] = @ \cup
                 {[id |-> nextLoad, res |-> res, rows |-> Walked(S, W), merged |-> {}]}]
  /\ UNCHANGED <<jira, raw, opsReady, dirty, analytic, tx, faults, history>>

(* with load_lock: blocks while another pipeline loads.                    *)
TakeLoadLock(p) ==
  /\ run[p].step = "extracted"
  /\ \A q \in Pipeline : run[q].step # "loading"
  /\ run' = [run EXCEPT ![p].step = "loading"]
  /\ UNCHANGED <<jira, raw, nextLoad, packages, opsReady, dirty, analytic, tx, faults, history>>

(* Mutant: any package may be next.                                        *)
IsAny(p, g) == g \in packages[p]

(* load() works through the packages oldest first.                         *)
IsNext(p, g) == /\ g \in packages[p]
                /\ \A h \in packages[p] : g.id <= h.id

(* The merge of one table, its own transaction.  A row of issues or of     *)
(* issue_changelog_status replaces the one before it; history rows are     *)
(* keyed by history and item, so a merge adds the ones that are missing,   *)
(* and a fetch that came back incomplete brings none.                      *)
MergedIssues(g) ==
  [i \in Issue |-> IF i \in InPackage(g)
     THEN [version |-> g.rows[i].version, load |-> g.id] ELSE issues[i]]

(* Mutant: the rows of an issue are replaced.                              *)
ReplacedChangelog(g) ==
  [i \in Issue |-> IF i \in InPackage(g)
     THEN IF g.rows[i].complete THEN g.rows[i].version ELSE 0 ELSE changelog[i]]

MergedChangelog(g) ==
  [i \in Issue |-> IF g.rows[i].complete /\ g.rows[i].version > changelog[i]
     THEN g.rows[i].version ELSE changelog[i]]

(* Mutant: every fetch is recorded as complete.                            *)
StatusAlwaysComplete(g) ==
  [i \in Issue |-> IF i \in InPackage(g)
     THEN [version |-> g.rows[i].version, complete |-> TRUE, load |-> g.id]
     ELSE status[i]]

MergedStatus(g) ==
  [i \in Issue |-> IF i \in InPackage(g)
     THEN [version |-> g.rows[i].version, complete |-> g.rows[i].complete, load |-> g.id]
     ELSE status[i]]

MergeTable(p, g, t) ==
  /\ run[p].step = "loading"
  /\ IsNext(p, g)
  /\ t \in TablesOf(g.res) \ g.merged
  /\ packages' = [packages EXCEPT ![p] =
                    (@ \ {g}) \cup {[g EXCEPT !.merged = @ \cup {t}]}]
  /\ issues' = IF t = "issues" THEN MergedIssues(g) ELSE issues
  /\ changelog' = IF t = "issue_changelog" THEN MergedChangelog(g) ELSE changelog
  /\ status' = IF t = "issue_changelog_status" THEN MergedStatus(g) ELSE status
  /\ UNCHANGED <<jira, nextLoad, run, opsReady, dirty, analytic, tx, faults, history>>

(* The package is recorded as loaded; from here no later run loads it.     *)
CompletePackage(p, g) ==
  /\ run[p].step = "loading"
  /\ IsNext(p, g)
  /\ g.merged = TablesOf(g.res)
  /\ packages' = [packages EXCEPT ![p] = @ \ {g}]
  /\ run' = [run EXCEPT ![p].loads = @ \cup {g.id}]
  /\ UNCHANGED <<jira, raw, nextLoad, opsReady, dirty, analytic, tx, faults, history>>

(* load() returns and the lock is released; after_load follows.            *)
FinishLoad(p) ==
  /\ run[p].step = "loading"
  /\ packages[p] = {}
  /\ run' = [run EXCEPT ![p].step = "mark_issues"]
  /\ UNCHANGED <<jira, raw, nextLoad, packages, opsReady, dirty, analytic, tx, faults, history>>

Marking(p) == run[p].step \in {"mark_issues", "mark_changelog"}

(* Mutant: the mark does not wait, and finds the claimed rows queued.      *)
MarkDirtyNoWait(p) ==
  LET res == IF run[p].step = "mark_issues" THEN "issues" ELSE "issue_changelog"
      ids == LoadedBy(res, run[p].loads)
  IN /\ Marking(p)
     /\ opsReady
     /\ dirty' = dirty \cup ids
     /\ dropped' = dropped \ ids
     /\ run' = [run EXCEPT ![p] = IF res = "issues"
                                  THEN [@ EXCEPT !.step = "mark_changelog"] ELSE IdleRun]
     /\ UNCHANGED <<jira, raw, nextLoad, packages, opsReady, analytic, tx, faults, unmarked>>

(* mark_dirty for one resource.  The upsert waits for a row that an open   *)
(* transaction has deleted.                                                *)
MarkDirty(p) ==
  LET res == IF run[p].step = "mark_issues" THEN "issues" ELSE "issue_changelog"
      ids == LoadedBy(res, run[p].loads)
  IN /\ Marking(p)
     /\ opsReady
     /\ ids \cap tx.claimed = {}
     /\ dirty' = dirty \cup ids
     /\ dropped' = dropped \ ids
     /\ run' = [run EXCEPT ![p] = IF res = "issues"
                                  THEN [@ EXCEPT !.step = "mark_changelog"] ELSE IdleRun]
     /\ UNCHANGED <<jira, raw, nextLoad, packages, opsReady, analytic, tx, faults, unmarked>>

(* The resources this run will never mark, and why.                        *)
Unmark(p, why) ==
  unmarked' = unmarked \cup [why : {why}, resource : ToMark(run[p].step), load : run[p].loads]

(* The mark fails: DirtyMarkError, the command fails, nothing was queued.  *)
MarkFails(p) ==
  /\ Marking(p) /\ opsReady
  /\ faults < MaxFault
  /\ faults' = faults + 1
  /\ Unmark(p, "DirtyMarkError")
  /\ run' = [run EXCEPT ![p] = IdleRun]
  /\ UNCHANGED <<jira, raw, nextLoad, packages, opsReady, dirty, analytic, tx, dropped>>

(* flowbi_ops is not migrated: a warning, and the run ends as if marked.   *)
MarkUnavailable(p) ==
  /\ run[p].step = "mark_issues" /\ ~opsReady
  /\ Unmark(p, "issue_dirty_unavailable")
  /\ run' = [run EXCEPT ![p] = IdleRun]
  /\ UNCHANGED <<jira, raw, nextLoad, packages, opsReady, dirty, analytic, tx, faults, dropped>>

(* The process dies, or load() raises.  dlt either remembers that a table  *)
(* of the package was merged or merges it again in the next run.           *)
Kill(p) ==
  /\ run[p].step # "idle"
  /\ faults < MaxFault
  /\ faults' = faults + 1
  /\ Unmark(p, "killed")
  /\ run' = [run EXCEPT ![p] = IdleRun]
  /\ packages' \in {packages,
                    [packages EXCEPT ![p] = {[g EXCEPT !.merged = {}] : g \in @}]}
  /\ UNCHANGED <<jira, raw, nextLoad, opsReady, dirty, analytic, tx, dropped>>

-----------------------------------------------------------------------------
(* The transform process: _transform, under the transform lock.            *)

(* _issue_ids_for_project *)
IssuesOf(scope) ==
  {i \in Issue : issues[i].version > 0 /\ (scope = NoProject \/ ProjectOf[i] = scope)}

(* claim_dirty deletes every row of the instance; --project then narrows   *)
(* what was claimed.  The deletes hold the rows' locks until the end.      *)
ClaimDirty(scope) ==
  LET ids == IF scope = NoProject THEN dirty ELSE IssuesOf(scope) \cap dirty
  IN /\ tx.step = "idle" /\ opsReady
     /\ tx' = [tx EXCEPT !.step = "scoped", !.claimed = dirty, !.candidates = ids, !.ids = ids]
     /\ UNCHANGED <<jira, raw, extract, opsReady, dirty, analytic, faults, history>>

(* --rebuild-all leaves issue_dirty alone.  Without --project the columns  *)
(* are rebuilt for whatever row exists by then.                            *)
RebuildAll(scope) ==
  /\ tx.step = "idle" /\ opsReady
  /\ tx' = [tx EXCEPT !.step = "scoped", !.candidates = IssuesOf(scope),
                      !.ids = IF scope = NoProject THEN Issue ELSE IssuesOf(scope)]
  /\ UNCHANGED <<jira, raw, extract, opsReady, dirty, analytic, faults, history>>

Partition ==
  /\ tx.step = "scoped"
  /\ tx' = [tx EXCEPT !.step = "partitioned", !.complete = {i \in tx.candidates : Complete(i)}]
  /\ UNCHANGED <<jira, raw, extract, opsReady, dirty, analytic, faults, history>>

(* Delete and reinsert, from the rows this statement sees.                 *)
RebuildIntervals ==
  /\ tx.step = "partitioned"
  /\ tx' = [tx EXCEPT !.step = "intervals",
              !.intervals = [i \in Issue |-> IF i \in tx.complete
                 THEN [changelog |-> changelog[i], issue |-> issues[i].version] ELSE @[i]]]
  /\ UNCHANGED <<jira, raw, extract, opsReady, dirty, analytic, faults, history>>

(* Mutant: the queue is emptied at the end instead of claimed at the start. *)
CommitEmptiesQueue ==
  /\ tx.step = "columns"
  /\ intervals' = tx.intervals
  /\ columns' = tx.columns
  /\ dirty' = {}
  /\ dropped' = dropped \cup (tx.claimed \ tx.ids)
  /\ tx' = IdleTx'
  /\ UNCHANGED <<jira, raw, extract, opsReady, faults, unmarked>>

RebuildColumns ==
  /\ tx.step = "intervals"
  /\ tx' = [tx EXCEPT !.step = "columns",
              !.columns = [i \in Issue |-> IF i \in tx.ids /\ issues[i].version > 0
                             THEN issues[i].version ELSE @[i]]]
  /\ UNCHANGED <<jira, raw, extract, opsReady, dirty, analytic, faults, history>>

Commit ==
  /\ tx.step = "columns"
  /\ intervals' = tx.intervals
  /\ columns' = tx.columns
  /\ dirty' = dirty \ tx.claimed
  /\ dropped' = dropped \cup (tx.claimed \ tx.ids)
  /\ tx' = IdleTx'
  /\ UNCHANGED <<jira, raw, extract, opsReady, faults, unmarked>>

(* Mutant: the claim was committed on its own.                             *)
RollbackLosesClaim ==
  /\ tx.step # "idle"
  /\ faults < MaxFault
  /\ faults' = faults + 1
  /\ tx' = IdleTx
  /\ dirty' = dirty \ tx.claimed
  /\ UNCHANGED <<jira, raw, extract, opsReady, analytic, history>>

(* A statement fails or the process dies: the transaction rolls back.      *)
Rollback ==
  /\ tx.step # "idle"
  /\ faults < MaxFault
  /\ faults' = faults + 1
  /\ tx' = IdleTx
  /\ UNCHANGED <<jira, raw, extract, opsReady, dirty, analytic, history>>

-----------------------------------------------------------------------------
ExtractStep(p) ==
  \/ TakeLoadLock(p) \/ FinishLoad(p) \/ MarkDirty(p) \/ MarkUnavailable(p)
  \/ \E g \in packages[p] :
       CompletePackage(p, g) \/ \E t \in TablesOf(g.res) : MergeTable(p, g, t)

TransformStep == Partition \/ RebuildIntervals \/ RebuildColumns \/ Commit

Next ==
  \/ \E i \in Issue : Update(i)
  \/ Migrate
  \/ \E p \in Pipeline : \/ \E res \in Resource : Extract(p, res)
                         \/ ExtractStep(p) \/ MarkFails(p) \/ Kill(p)
  \/ \E scope \in Scopes : ClaimDirty(scope) \/ RebuildAll(scope)
  \/ TransformStep \/ Rollback

Spec == Init /\ [][Next]_vars

(* What the deployment promises: a process that runs goes on; extraction   *)
(* and the incremental transform are scheduled again and again; Postgres   *)
(* grants an advisory lock or a row lock to its waiters in order, so none  *)
(* is passed over forever.                                                 *)
Fairness ==
  /\ WF_vars(Migrate)
  /\ WF_vars(TransformStep)
  /\ SF_vars(ClaimDirty(NoProject))
  /\ \A p \in Pipeline : /\ WF_vars(\E res \in Resource : Extract(p, res))
                         /\ SF_vars(ExtractStep(p))

FairSpec == Spec /\ Fairness

-----------------------------------------------------------------------------
AnyWhy == {"killed", "DirtyMarkError", "issue_dirty_unavailable"}

TypeOK ==
  /\ jira \in [Issue -> Nat]
  /\ issues \in [Issue -> RawRow]
  /\ changelog \in [Issue -> Nat]
  /\ status \in [Issue -> StatusRow]
  /\ nextLoad \in Nat
  /\ packages \in [Pipeline -> SUBSET Package]
  /\ run \in [Pipeline -> [step : Steps, loads : SUBSET Nat]]
  /\ opsReady \in BOOLEAN
  /\ dirty \subseteq Issue
  /\ intervals \in [Issue -> Built]
  /\ columns \in [Issue -> Nat]
  /\ tx \in [step : {"idle", "scoped", "partitioned", "intervals", "columns"},
            claimed : SUBSET Issue, candidates : SUBSET Issue, ids : SUBSET Issue,
            complete : SUBSET Issue, intervals : [Issue -> Built], columns : [Issue -> Nat]]
  /\ faults \in Nat
  /\ unmarked \subseteq [why : AnyWhy, resource : Resource, load : Nat]
  /\ dropped \subseteq Issue

(* The analytics rows of an issue lag behind its jira_raw rows.            *)
ColumnsStale(i)   == columns[i] # issues[i].version
IntervalsStale(i) == intervals[i] # [changelog |-> changelog[i], issue |-> issues[i].version]

(* The issue's row came with a load that will be marked (Due), or that     *)
(* never will be, for one of the given reasons (Lost).                     *)
Waiting(i)       == \E g \in packages[PipelineOf[i]] : i \in InPackage(g)
Due(res, i)      == LET r == run[PipelineOf[i]]
                    IN res \in ToMark(r.step) /\ i \in LoadedBy(res, r.loads)
Lost(res, i, Whys) == \E m \in unmarked : /\ m.why \in Whys
                                          /\ m.resource = res
                                          /\ i \in LoadedBy(res, {m.load})

(* The next steps of the processes that are alive will rebuild the issue.  *)
Pending(i) == i \in dirty \/ Waiting(i) \/ \E res \in Resource : Due(res, i)

(* A rebuild is never forgotten.  Whatever the interleaving of loads,      *)
(* marks, transforms and crashes: analytics rows that lag behind jira_raw  *)
(* belong to an issue that is queued or about to be, unless its load died  *)
(* or failed between commit and mark, or --project left it out, or (for    *)
(* intervals) its changelog is incomplete.                                 *)
NoForgottenRebuild ==
  \A i \in Issue :
    /\ ColumnsStale(i) => Pending(i) \/ Lost("issues", i, AnyWhy) \/ i \in dropped
    /\ IntervalsStale(i) => \/ Pending(i) \/ \E res \in Resource : Lost(res, i, AnyWhy)
                           \/ i \in dropped \/ ~Complete(i)

(* changelog_complete means what it says: once the package that carries it *)
(* is through, the item rows hold the history up to the recorded version.  *)
CompleteMeansWhole ==
  \A i \in Issue : status[i].complete /\ ~Waiting(i) => changelog[i] >= status[i].version

(* Time in status is right once an issue is settled: no rebuild pending or *)
(* lost and a complete changelog mean intervals built from the current row *)
(* and from a history at least as new, never seeded from a later status.   *)
Settled(i) == /\ ~Pending(i) /\ Complete(i) /\ i \notin dropped
              /\ \A res \in Resource : ~Lost(res, i, AnyWhy)
SettledIntervalsAreWhole ==
  \A i \in Issue : Settled(i) => /\ intervals[i].changelog >= intervals[i].issue
                                 /\ intervals[i].issue = issues[i].version
                                 /\ columns[i] = issues[i].version

(* Delete-and-reinsert never replaces an issue's intervals by intervals    *)
(* built from less history, whatever failed fetch or old package came in.  *)
HistoryNeverShrinks ==
  [][\A i \in Issue : intervals'[i].changelog >= intervals[i].changelog]_vars

(* What loads make of jira_raw, of half merged and repeated packages too,  *)
(* is deliveries of Feed: a row is never replaced by an older one, and     *)
(* comes of its issue's own pipeline.  Cursors are left out, so no mark    *)
(* passes anything.  Extraction implements the same feed with cursors.     *)
Loads == INSTANCE Feed
  WITH Source <- Pipeline,
       Of <- [p \in Pipeline |-> {i \in Issue : PipelineOf[i] = p}],
       Grace <- 0,
       version <- jira,
       copy <- [res \in Resource |->
                  [i \in Issue |-> IF res = "issues" THEN issues[i].version ELSE status[i].version]],
       mark <- [p \in Pipeline |-> [res \in Resource |-> 0]]
LoadsDeliver == Loads!Spec

(* Under fair scheduling every change that reaches jira_raw reaches        *)
(* analytics, with the exceptions of NoForgottenRebuild.                   *)
EventuallyRebuilt ==
  \A i \in Issue :
    /\ []<>(~ColumnsStale(i) \/ Lost("issues", i, AnyWhy) \/ i \in dropped)
    /\ []<>(\/ ~IntervalsStale(i) \/ \E res \in Resource : Lost(res, i, AnyWhy)
           \/ i \in dropped \/ ~Complete(i))

-----------------------------------------------------------------------------
(* Claims of the repository that the code does not keep.                   *)

(* dirty.py: "Incremental `flowbi transform` rebuilds exactly the issues   *)
(* queued here": a claimed issue is never left stale and unqueued.         *)
QueuedIsRebuilt ==
  \A i \in Issue : ColumnsStale(i) => Pending(i) \/ Lost("issues", i, AnyWhy)

(* run.py: a mark is not best-effort, "a failure fails the command" and    *)
(* says how to recover; resume-after-kill is safe (source.py).  So only a  *)
(* reported failure leaves loaded issues unqueued.                         *)
OnlyReportedLoss ==
  \A i \in Issue : ColumnsStale(i) =>
    \/ Pending(i) \/ i \in dropped
    \/ Lost("issues", i, {"DirtyMarkError", "issue_dirty_unavailable"})
=============================================================================
