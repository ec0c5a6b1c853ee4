----------------------------- MODULE Extraction -----------------------------
(***************************************************************************)
(* Incremental extraction: the cursor of each pipeline and resource, the   *)
(* walk over Jira's search from an hour before it, and the packages that   *)
(* carry rows and cursors to the destination.                              *)
(*                                                                         *)
(* Jira's search is an index that lags behind the issues and is sorted by  *)
(* `updated`.  Edits move issues while a walk runs, a run may be limited   *)
(* or die anywhere, and a container may lose its disk.                     *)
(*                                                                         *)
(* Time is counted in ticks of Jira's clock; an issue's version is the     *)
(* stamp of its last edit, 0 for none.  What a Server/DC walk yields is    *)
(* what DcSearchWalk shows of it.                                          *)
(***************************************************************************)
EXTENDS Integers, Sequences, FiniteSets

CONSTANTS
  Issue,
  Scope,       \* the values of FLOWBI_JIRA_PROJECT, the whole instance included
  Covers,      \* the issues of a scope
  Name,        \* dlt pipeline names
  NameOf,      \* pipeline_name: the slug of a scope
  Resource,    \* {"issues", "issue_changelog"}, or one of them
  Overlap,     \* OVERLAP_SECONDS, dlt's lag
  MinuteSlip,  \* a JQL floor is cut to the minute
  ZoneSlip,    \* how late a JQL floor can be read: local times name no instant
  MaxLag,      \* how long the index may lag behind an edit
  MaxWalk,     \* how long a Cloud walk may take
  Limits,      \* the values of --limit in use, 0 for none
  Scheduled,   \* the one that the scheduled runs use
  NoState,     \* no .dlt directory on this host
  Began,       \* Jira's clock at first
  MaxClock,    \* bound: the last tick
  MaxFault     \* bound: deaths and lost disks

ASSUME ScopeType    == Covers \in [Scope -> SUBSET Issue] /\ NameOf \in [Scope -> Name]
ASSUME ResourceType == Resource \subseteq {"issues", "issue_changelog"}
ASSUME TimesType    == /\ Overlap \in Nat /\ MinuteSlip \in Nat /\ ZoneSlip \in Nat
                       /\ MaxLag \in Nat /\ MaxWalk \in Nat
                       /\ Began \in Nat /\ MaxClock \in Nat /\ MaxFault \in Nat
ASSUME NoStateType  == NoState \notin [Resource -> Nat]
ASSUME LimitsType   == Limits \subseteq Nat /\ Scheduled \in Limits

VARIABLES
  isCloud,   \* profile.is_cloud; otherwise Server or Data Center
  now,       \* Jira's clock
  updated,   \* fields.updated of each issue
  indexed,   \* what the search index has of it
  cursor,    \* by pipeline name: the local last_value of each resource
  packages,  \* by pipeline name: packages on disk, the oldest first
  run,       \* by pipeline name: the extract process
  stored,    \* by pipeline name: the pipeline state in the destination
  raw,       \* jira_raw: the version of each resource's row of an issue
  faults

jira == <<isCloud, now, updated, indexed>>
disk == <<cursor, packages>>
dest == <<stored, raw>>
vars == <<jira, disk, run, dest, faults>>

-----------------------------------------------------------------------------
AtLeast0(n) == IF n < 0 THEN 0 ELSE n

Cursors == [Resource -> Nat]
NoRows  == [i \in Issue |-> 0]
Package == [res : Resource, rows : [Issue -> Nat], cursors : Cursors]

(* The process: a walk in progress, or packages being loaded.              *)
IdleRun == [step |-> "idle"]
Walk == [step : {"walking"}, scope : Scope, res : Resource, limit : Limits,
         start : Nat,          \* updated.start_value: dlt drops rows below it
         floor : Nat,          \* where the JQL floor really is
         begun : Nat,          \* Jira's clock at the first page
         pos : Nat,            \* the stamp of the last row
         seen : [Issue -> Nat],\* the stamp an issue was last seen with
         rows : [Issue -> Nat],\* the version that dlt will keep of an issue
         count : Nat]          \* rows that count for --limit

(* Mutant: no lag.                                                         *)
NoLag(c) == c

(* Mutant: the lag reaches below the initial value.                        *)
LagBeforeEpoch(c) == c - Overlap

(* What dlt asks for again: its lag, but never below the initial value.    *)
Start(c) == IF c = 0 THEN 0 ELSE AtLeast0(c - Overlap)

(* _updated_floor and jql_updated_floor: cut to the minute, and read in a  *)
(* zone that may be the wrong one (UTC), or at an hour that comes twice.   *)
Floors(c) == AtLeast0(Start(c) - MinuteSlip) ..
             (IF c = 0 THEN 0 ELSE AtLeast0(c - Overlap + ZoneSlip))

Init ==
  /\ isCloud \in BOOLEAN
  /\ now = Began
  /\ updated \in [Issue -> 1..Began]
  /\ indexed = updated
  /\ cursor = [n \in Name |-> NoState]
  /\ packages = [n \in Name |-> << >>]
  /\ run = [n \in Name |-> IdleRun]
  /\ stored = [n \in Name |-> [r \in Resource |-> 0]]
  /\ raw = [r \in Resource |-> NoRows]
  /\ faults = 0

-----------------------------------------------------------------------------
(* Jira.                                                                   *)

(* The index is not later than MaxLag, a Cloud walk not longer than MaxWalk. *)
Tick ==
  /\ now < MaxClock
  /\ \A i \in Issue : indexed[i] # updated[i] => now < updated[i] + MaxLag
  /\ \A n \in Name : run[n].step = "walking" /\ isCloud => now < run[n].begun + MaxWalk
  /\ now' = now + 1
  /\ UNCHANGED <<isCloud, updated, indexed, disk, run, dest, faults>>

Edit(i) ==
  /\ updated[i] < now
  /\ updated' = [updated EXCEPT ![i] = now]
  /\ UNCHANGED <<isCloud, now, indexed, disk, run, dest, faults>>

Index(i) ==
  /\ indexed[i] # updated[i]
  /\ indexed' = [indexed EXCEPT ![i] = updated[i]]
  /\ UNCHANGED <<isCloud, now, updated, disk, run, dest, faults>>

-----------------------------------------------------------------------------
(* run(), up to extract().                                                 *)

(* sync_destination: a fresh container gets the cursors the destination has. *)
Restored(n) == IF cursor[n] = NoState THEN stored[n] ELSE cursor[n]

(* _reset_watermarks, for `extract changelog` only.                        *)
Reset(cs, res) == [cs EXCEPT ![res] = 0]

StartRun(s, res, limit, reset) ==
  LET n  == NameOf[s]
      cs == IF reset THEN Reset(Restored(n), res) ELSE Restored(n)
  IN /\ run[n].step = "idle"
     /\ reset => res = "issue_changelog"
     /\ cursor' = [cursor EXCEPT ![n] = cs]
     /\ \E floor \in Floors(cs[res]) :
          run' = [run EXCEPT ![n] =
                   [step |-> "walking", scope |-> s, res |-> res, limit |-> limit,
                    start |-> Start(cs[res]), floor |-> floor, begun |-> now, pos |-> 0,
                    seen |-> NoRows, rows |-> NoRows, count |-> 0]]
     /\ UNCHANGED <<jira, packages, dest, faults>>

(* The rows a walk may still read: from its position on, in the order of   *)
(* the search.  On Server and Data Center an issue is read once, and what  *)
(* was edited since the walk began is left for the next run.               *)
Ahead(w) ==
  {i \in Covers[w.scope] :
     /\ w.floor <= indexed[i] /\ w.pos <= indexed[i] /\ w.seen[i] < indexed[i]
     /\ isCloud \/ (w.seen[i] = 0 /\ indexed[i] <= w.begun)}

Limited(w) == w.limit > 0 /\ w.count >= w.limit

(* A row below start is dropped; it counts for the changelog's limit,      *)
(* which is in issues, and not for add_limit.                              *)
Counts(w, i) == w.limit > 0 /\ (w.res = "issue_changelog" \/ indexed[i] >= w.start)

(* An issue that is read twice is deduplicated by its key alone: either    *)
(* version may be kept.                                                    *)
Row(n, i) ==
  LET w == run[n]
  IN /\ w.step = "walking"
     /\ ~Limited(w)
     /\ i \in Ahead(w)
     /\ \A j \in Ahead(w) : indexed[i] <= indexed[j]
     /\ \E v \in IF indexed[i] < w.start THEN {w.rows[i]}
                 ELSE IF w.rows[i] = 0 THEN {indexed[i]}
                 ELSE {w.rows[i], indexed[i]} :
          run' = [run EXCEPT ![n] =
                   [w EXCEPT !.pos = indexed[i],
                             !.seen = [@ EXCEPT ![i] = indexed[i]],
                             !.rows = [@ EXCEPT ![i] = v],
                             !.count = IF Counts(w, i) THEN @ + 1 ELSE @]]
     /\ UNCHANGED <<jira, disk, dest, faults>>

(* Mutant: the cursor is the time the walk began.                          *)
CursorBegan(c, w) == w.begun

(* last_value: the latest row that was kept, or the cursor as it was.      *)
CursorAfter(c, w) == IF w.pos > c THEN w.pos ELSE c

(* extract() ends, and its package with rows and cursors is on disk; a     *)
(* walk that brought nothing leaves none.                                  *)
EndWalk(n) ==
  LET w  == run[n]
      cs == [cursor[n] EXCEPT ![w.res] = CursorAfter(@, w)]
  IN /\ w.step = "walking"
     /\ Limited(w) \/ Ahead(w) = {}
     /\ IF w.rows = NoRows
        THEN UNCHANGED disk
        ELSE /\ cursor' = [cursor EXCEPT ![n] = cs]
             /\ packages' = [packages EXCEPT ![n] =
                  Append(@, [res |-> w.res, rows |-> w.rows, cursors |-> cs])]
     /\ run' = [run EXCEPT ![n] = [step |-> "loading"]]
     /\ UNCHANGED <<jira, dest, faults>>

-----------------------------------------------------------------------------
(* load(): the packages on disk, the ones of killed runs included.         *)

Merged(g) == [raw EXCEPT ![g.res] =
                [i \in Issue |-> IF g.rows[i] > 0 THEN g.rows[i] ELSE @[i]]]

(* Mutant: the cursors as they are now, not as they were extracted.        *)
CursorsNow(n, g) == cursor[n]

CursorsOf(n, g) == g.cursors

(* Mutant: the newest first.                                               *)
LoadNewest(n) ==
  LET g == packages[n][Len(packages[n])]
  IN /\ run[n].step = "loading"
     /\ packages[n] # << >>
     /\ raw' = Merged(g)
     /\ stored' = [stored EXCEPT ![n] = CursorsOf(n, g)]
     /\ packages' = [packages EXCEPT ![n] = SubSeq(@, 1, Len(@) - 1)]
     /\ UNCHANGED <<jira, cursor, run, faults>>

Load(n) ==
  LET g == Head(packages[n])
  IN /\ run[n].step = "loading"
     /\ packages[n] # << >>
     /\ raw' = Merged(g)
     /\ stored' = [stored EXCEPT ![n] = CursorsOf(n, g)]
     /\ packages' = [packages EXCEPT ![n] = Tail(@)]
     /\ UNCHANGED <<jira, cursor, run, faults>>

Finish(n) ==
  /\ run[n].step = "loading"
  /\ packages[n] = << >>
  /\ run' = [run EXCEPT ![n] = IdleRun]
  /\ UNCHANGED <<jira, disk, dest, faults>>

-----------------------------------------------------------------------------
(* Faults.                                                                 *)

(* The process dies, or a request or the load fails: a walk leaves nothing *)
(* behind, packages stay on disk for the next run.                         *)
Crash(n) ==
  /\ run[n].step # "idle"
  /\ faults < MaxFault
  /\ faults' = faults + 1
  /\ run' = [run EXCEPT ![n] = IdleRun]
  /\ UNCHANGED <<jira, disk, dest>>

(* The container is replaced.                                              *)
LoseDisk(n) ==
  /\ cursor[n] # NoState
  /\ faults < MaxFault
  /\ faults' = faults + 1
  /\ run' = [run EXCEPT ![n] = IdleRun]
  /\ cursor' = [cursor EXCEPT ![n] = NoState]
  /\ packages' = [packages EXCEPT ![n] = << >>]
  /\ UNCHANGED <<jira, dest>>

RunStep(n) == (\E i \in Issue : Row(n, i)) \/ EndWalk(n) \/ Load(n) \/ Finish(n)

JiraStep == Tick \/ \E i \in Issue : Edit(i) \/ Index(i)

Next ==
  \/ JiraStep
  \/ \E s \in Scope, r \in Resource, limit \in Limits, reset \in BOOLEAN :
       StartRun(s, r, limit, reset)
  \/ \E n \in Name : RunStep(n) \/ Crash(n) \/ LoseDisk(n)

Spec == Init /\ [][Next]_vars

(* A run goes on, the index catches up, and a scheduler starts the run of  *)
(* each scope and resource again and again.                                *)
Fairness ==
  /\ \A n \in Name : WF_vars(RunStep(n))
  /\ \A i \in Issue : WF_vars(Index(i))
  /\ \A s \in Scope, r \in Resource : SF_vars(StartRun(s, r, Scheduled, FALSE))

FairSpec == Spec /\ Fairness

-----------------------------------------------------------------------------
TypeOK ==
  /\ isCloud \in BOOLEAN
  /\ now \in Nat
  /\ updated \in [Issue -> Nat] /\ indexed \in [Issue -> Nat]
  /\ cursor \in [Name -> Cursors \cup {NoState}]
  /\ packages \in [Name -> Seq(Package)]
  /\ run \in [Name -> Walk \cup {[step |-> "idle"], [step |-> "loading"]}]
  /\ stored \in [Name -> Cursors]
  /\ raw \in [Resource -> [Issue -> Nat]]
  /\ faults \in Nat

(* An edit that the next walk from cursor c will not come past.            *)
Passed(i, c) == updated[i] + Overlap < c + ZoneSlip

InPackages(n, r, i) ==
  \E k \in 1..Len(packages[n]) : packages[n][k].res = r /\ packages[n][k].rows[i] = updated[i]

(* "instead of silently skipping issues that were never walked": whatever  *)
(* a cursor passed is loaded, or on its way to be, --limit, --reset-       *)
(* watermark, late indexing and deaths notwithstanding.                    *)
NothingSkipped ==
  \A s \in Scope, r \in Resource : \A i \in Covers[s] :
    Passed(i, Restored(NameOf[s])[r]) =>
      raw[r][i] = updated[i] \/ InPackages(NameOf[s], r, i)

(* The cursors a fresh container finds are never ahead of the rows: a lost *)
(* package is walked again.                                                *)
StoredIsDelivered ==
  \A s \in Scope, r \in Resource : \A i \in Covers[s] :
    Passed(i, stored[NameOf[s]][r]) => raw[r][i] = updated[i]

(* A row is never replaced by an older version of its issue.               *)
NeverOlder == [][\A r \in Resource, i \in Issue : raw'[r][i] >= raw[r][i]]_raw

(* The destination is the copy that an incremental feed promises: walks,   *)
(* packages, deaths and lost disks come to deliveries of rows together     *)
(* with cursors that pass nothing that is not there, and to nothing else.  *)
FeedOf == [n \in Name |-> UNION {Covers[s] : s \in {t \in Scope : NameOf[t] = n}}]

Copy == INSTANCE Feed
  WITH Source <- Name, Of <- FeedOf, Grace <- Overlap - ZoneSlip,
       version <- updated, copy <- raw, mark <- stored
ImplementsFeed == Copy!Spec

(* Every edit reaches jira_raw, late in the index or not, as long as the   *)
(* scheduled runs go on: once edits stop, jira_raw has caught up.          *)
CatchesUp == <>[](\A r \in Resource, i \in Issue : raw[r][i] = updated[i])

(* "Combine with --limit to backfill in chunks: only the first run resets, *)
(* later runs without the flag continue from there": they get to every     *)
(* issue in the end.                                                       *)
ChunksReachEveryIssue == \A r \in Resource, i \in Issue : <>(raw[r][i] > 0)
=============================================================================
