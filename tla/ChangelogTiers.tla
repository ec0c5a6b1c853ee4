--------------------------- MODULE ChangelogTiers ---------------------------
(***************************************************************************)
(* extract changelog: the search pages, the batches they are cut into, the *)
(* three tiers that resolve a batch, and the rows that come of it, down to *)
(* the status intervals that the transform builds from them.               *)
(*                                                                         *)
(* Jira answers each request from what it holds at that moment: issues are *)
(* edited while a walk goes on.  A history is a change of status, or of    *)
(* something else (from = to); an edit may make several histories with one *)
(* stamp, or none.                                                         *)
(***************************************************************************)
EXTENDS Integers, Sequences, FiniteSets, SequencesExt

CONSTANTS
  Issue,        \* issue ids, in the order Jira lists issues of one stamp
  Status, Initial,
  Targets,      \* the edits in use: a status for each history an edit makes
  PageSize,     \* rows of a search page
  ShortPages,   \* Cloud may return fewer rows than it was asked for
  BatchSize,    \* FETCH_BATCH_SIZE
  EmbedMax,     \* histories that a search response embeds
  ChunkSize,    \* BULKFETCH_MAX_ISSUES
  HistoryPage,  \* histories of a bulkfetch page, and PER_ISSUE_PAGE_SIZE
  IdRollover,   \* the history of an issue whose id is a digit longer
  Overlap,      \* OVERLAP_SECONDS
  Limits,       \* the values of --limit in use, 0 for none
  MaxClock, MaxHistories  \* bounds: the last tick, the histories of all issues

ASSUME IssueType  == Issue \subseteq Nat /\ IsFiniteSet(Issue)
ASSUME StatusType == Initial \in Status /\ Targets \subseteq Seq(Status)
ASSUME SizesType  == /\ {PageSize, BatchSize, ChunkSize, HistoryPage} \subseteq Nat \ {0}
                     /\ {EmbedMax, IdRollover, Overlap, MaxClock, MaxHistories} \subseteq Nat
                     /\ Limits \subseteq Nat /\ ShortPages \in BOOLEAN

VARIABLES
  isCloud,    \* profile.is_cloud
  now,        \* Jira's clock
  updated,    \* fields.updated
  histories,  \* the changelog of each issue
  walk,       \* the run of extract changelog
  cursor,     \* the incremental cursor of issue_changelog
  rows,       \* jira_raw.issue_changelog: the histories of each issue that are stored
  status,     \* jira_raw.issue_changelog_status, None without a row
  issues      \* jira_raw.issues, None without a row

jira == <<isCloud, now, updated, histories>>
raw  == <<cursor, rows, status, issues>>
vars == <<jira, walk, raw>>

None    == [updated |-> -1]
History == [at : Nat, from : Status, to : Status]

CurrentStatus(i) == IF histories[i] = << >> THEN Initial ELSE Last(histories[i]).to

(* A row of the search response: the issue's stamp, and how many histories *)
(* it has in all.                                                          *)
FoundRow == [issue : Issue, updated : Nat, total : Nat]
(* What a tier brought: the first histories, complete or not.              *)
Result    == [complete : BOOLEAN, histories : Nat]
StatusRow == [updated : Nat, complete : BOOLEAN]
IssueRow  == [updated : Nat, status : Status]

NothingRead == [i \in Issue |-> 0]
Unresolved  == [i \in Issue |-> [complete |-> FALSE, histories |-> 0]]
NoWalk == [step |-> "idle"]
Walk ==
  [step : {"search", "bulk", "single", "yield"}, limit : Limits,
   floor : Nat, begun : Nat, \* the JQL floor, and Jira's clock at the first page
   found : Seq(FoundRow),    \* what the search has yielded
   last : BOOLEAN,           \* there are no more pages
   taken : Nat,              \* rows of found that are yielded
   batchEnd : Nat,           \* the last row of the batch under way
   tapped : [Issue -> Nat \cup {-1}],  \* issue_updated, -1 for no entry
   resolved : [Issue -> Result],
   pending : SUBSET Nat,     \* rows of found that the next tier has to resolve
   asked : SUBSET Nat,       \* the ones of these that are dealt with
   got : [Issue -> Nat],     \* histories read, of the chunk or issue under way
   read : SUBSET Issue,      \* read to the end
   bulk : [Issue -> Nat],    \* the result of fetch_bulk, 0 if an issue is not in it
   count : Nat,              \* issues yielded
   high : Nat,               \* the highest stamp yielded
   status : [Issue -> StatusRow \cup {None}],
   rows : [Issue -> Nat]]

Init ==
  /\ isCloud \in BOOLEAN
  /\ now = 0
  /\ updated = [i \in Issue |-> 0]
  /\ histories = [i \in Issue |-> << >>]
  /\ walk = NoWalk
  /\ cursor = 0
  /\ rows = NothingRead
  /\ status = [i \in Issue |-> None]
  /\ issues = [i \in Issue |-> None]

-----------------------------------------------------------------------------
(* Jira, and the other resource.                                           *)

Tick ==
  /\ now < MaxClock
  /\ now' = now + 1
  /\ UNCHANGED <<isCloud, updated, histories, walk, raw>>

Edit(i, tos) ==
  LET from == <<CurrentStatus(i)>> \o tos
  IN /\ updated[i] < now
     /\ Len(tos) + FoldFunction(LAMBDA h, n : n + Len(h), 0, histories) <= MaxHistories
     /\ updated' = [updated EXCEPT ![i] = now]
     /\ histories' = [histories EXCEPT ![i] =
          @ \o [k \in 1..Len(tos) |-> [at |-> now, from |-> from[k], to |-> tos[k]]]]
     /\ UNCHANGED <<isCloud, now, walk, raw>>

(* extract issues brings the issue as it is.                               *)
LoadIssue(i) ==
  /\ issues' = [issues EXCEPT ![i] = [updated |-> updated[i], status |-> CurrentStatus(i)]]
  /\ UNCHANGED <<jira, walk, cursor, rows, status>>

-----------------------------------------------------------------------------
(* _search_pages and the batches it is cut into.                           *)

LowerOf(a, b) == IF a < b THEN a ELSE b
HigherOf(a, b) == IF a > b THEN a ELSE b

StartWalk(limit) ==
  /\ walk = NoWalk
  /\ walk' = [step |-> "search", limit |-> limit,
               floor |-> IF cursor < Overlap THEN 0 ELSE cursor - Overlap, begun |-> now,
               found |-> << >>, last |-> FALSE, taken |-> 0, batchEnd |-> 0,
               tapped |-> [i \in Issue |-> -1],
               resolved |-> Unresolved,
               pending |-> {}, asked |-> {}, got |-> NothingRead,
               read |-> {}, bulk |-> NothingRead, count |-> 0, high |-> 0,
               status |-> [i \in Issue |-> None], rows |-> NothingRead]
  /\ UNCHANGED <<jira, raw>>

Limited(w) == w.limit > 0 /\ w.count >= w.limit

(* What the search has still to yield.  Cloud yields an issue that was     *)
(* edited meanwhile again; Server and Data Center leave it to the next run. *)
Ahead(w) ==
  {i \in Issue :
     /\ w.floor <= updated[i]
     /\ w.found # << >> => Last(w.found).updated <= updated[i]
     /\ \A k \in 1..Len(w.found) : w.found[k].issue = i => isCloud /\ w.found[k].updated # updated[i]
     /\ isCloud \/ updated[i] <= w.begun}

Before(i, j) == updated[i] < updated[j] \/ (updated[i] = updated[j] /\ i < j)

(* The next page, read only when the batch needs more rows.                *)
SearchPage ==
  LET ahead == Ahead(walk)
      full  == LowerOf(PageSize, Cardinality(ahead))
  IN /\ walk.step = "search" /\ ~Limited(walk)
     /\ ~walk.last /\ Len(walk.found) < walk.taken + BatchSize
     /\ \E size \in IF isCloud /\ ShortPages /\ full > 0 THEN 1..full ELSE {full} :
          \E page \in [1..size -> ahead] :
            /\ \A k, l \in 1..size : k < l => Before(page[k], page[l])
            /\ \A j \in ahead, k \in 1..size : Before(j, page[k]) => \E l \in 1..size : page[l] = j
            /\ walk' = [walk EXCEPT
                 !.found = @ \o [k \in 1..size |-> [issue |-> page[k], updated |-> updated[page[k]],
                                                    total |-> Len(histories[page[k]])]],
                 !.last = (size = Cardinality(ahead))]
     /\ UNCHANGED <<jira, raw>>

(* The rows of the next batch, as positions in found.                      *)
BatchEnd(w) == LowerOf(w.taken + BatchSize, Len(w.found))
Batch(w) == w.taken + 1 .. BatchEnd(w)

NextTier(pending) ==
  IF pending = {} THEN "yield" ELSE IF isCloud THEN "bulk" ELSE "single"

(* Mutant: what is embedded is taken for all of it.                        *)
FromExpandAsIs(row) == [complete |-> TRUE, histories |-> LowerOf(row.total, EmbedMax)]

FromExpand(row) ==
  [complete |-> row.total <= EmbedMax, histories |-> LowerOf(row.total, EmbedMax)]

RowsOf(found, i) == {k \in Batch(walk) : found[k].issue = i}

(* Mutant: _tap is not in the way of the rows.                             *)
TappedLate(found) == walk.tapped

(* _tap has seen a batch: the latest stamp of each issue.                  *)
Tapped(found) ==
  [i \in Issue |-> IF RowsOf(found, i) = {} THEN walk.tapped[i]
                   ELSE found[Max(RowsOf(found, i))].updated]

(* The first tier, when a batch has its rows.                              *)
ExpandInOrder(found) ==
  LET whole(i) == {k \in RowsOf(found, i) : FromExpand(found[k]).complete}
      pending == {k \in Batch(walk) : ~FromExpand(found[k]).complete}
  IN /\ walk.step = "search" /\ ~Limited(walk)
     /\ walk.last \/ Len(walk.found) >= walk.taken + BatchSize
     /\ Batch(walk) # {}
     /\ walk' = [walk EXCEPT
          !.found = found, !.batchEnd = BatchEnd(walk),
          !.tapped = Tapped(found),
          !.resolved = [i \in Issue |-> IF whole(i) = {} THEN @[i] ELSE FromExpand(found[Max(whole(i))])],
          !.pending = pending, !.asked = {}, !.step = NextTier(pending),
          !.got = NothingRead, !.read = {}, !.bulk = NothingRead]
     /\ UNCHANGED <<jira, raw>>

(* Mutant: issues that need another tier come last.                        *)
ExpandDefers ==
  LET batch == SubSeq(walk.found, walk.taken + 1, BatchEnd(walk))
      deferred(row) == ~FromExpand(row).complete
  IN ExpandInOrder(SubSeq(walk.found, 1, walk.taken)
                   \o SelectSeq(batch, LAMBDA row : ~deferred(row)) \o SelectSeq(batch, deferred)
                   \o SubSeq(walk.found, BatchEnd(walk) + 1, Len(walk.found)))

(* Results are yielded in the order the issues arrived.                    *)
Expand == ExpandInOrder(walk.found)

-----------------------------------------------------------------------------
(* fetch_bulk: chunk after chunk, each of one or more pages.               *)

Unasked(w) == w.pending \ w.asked
Chunk(w) == {p \in Unasked(w) : Cardinality({q \in Unasked(w) : q < p}) < ChunkSize}
InChunk(i) == \E p \in Chunk(walk) : walk.found[p].issue = i

(* A chunk is done; after the last one its results leave the rest to the   *)
(* per-issue tier.                                                         *)
ChunkDone(chunk, bulk) ==
  LET asked == walk.asked \cup chunk
      rest  == {p \in walk.pending : bulk[walk.found[p].issue] = 0}
      next == [walk EXCEPT !.asked = asked, !.bulk = bulk,
                           !.got = NothingRead, !.read = {}]
  IN walk' = IF asked # walk.pending THEN next
             ELSE [next EXCEPT
                    !.resolved = [i \in Issue |-> IF bulk[i] = 0 THEN @[i]
                                    ELSE [complete |-> TRUE, histories |-> bulk[i]]],
                    !.pending = rest, !.asked = {}, !.bulk = NothingRead,
                    !.step = IF rest = {} THEN "yield" ELSE "single"]

(* A page with histories of one issue, and a nextPageToken.                *)
BulkPage(i) ==
  LET got == LowerOf(walk.got[i] + HistoryPage, Len(histories[i]))
  IN /\ walk.step = "bulk"
     /\ InChunk(i) /\ i \notin walk.read
     /\ \A j \in Issue \ {i} : walk.got[j] = 0 \/ j \in walk.read
     /\ walk' = [walk EXCEPT !.got[i] = got,
                             !.read = IF got = Len(histories[i]) THEN @ \cup {i} ELSE @]
     /\ UNCHANGED <<jira, raw>>

(* No token: every issue of the answer has been read to its end.  Jira may *)
(* leave issues out of its answer.                                         *)
BulkEnd ==
  /\ walk.step = "bulk"
  /\ \A i \in Issue : walk.got[i] = 0 \/ i \in walk.read
  /\ ChunkDone(Chunk(walk),
       [i \in Issue |-> IF i \in walk.read THEN walk.got[i] ELSE walk.bulk[i]])
  /\ UNCHANGED <<jira, raw>>

(* A 4xx other than auth, on any page: the chunk is left out.              *)
BulkRejected ==
  /\ walk.step = "bulk"
  /\ ChunkDone(Chunk(walk), walk.bulk)
  /\ UNCHANGED <<jira, raw>>

(* _BulkfetchUnavailable: stop asking.                                     *)
BulkUnavailable ==
  /\ walk.step = "bulk"
  /\ ChunkDone(Unasked(walk), walk.bulk)
  /\ UNCHANGED <<jira, raw>>

-----------------------------------------------------------------------------
(* fetch_per_issue: pages by offset until the total of the last answer.    *)

IsNext(p) == \A q \in Unasked(walk) : p <= q

SingleDone(p, result) ==
  LET all == Unasked(walk) = {p}
  IN walk' = [walk EXCEPT
       !.resolved[walk.found[p].issue] = result,
       !.pending = IF all THEN {} ELSE @,
       !.asked = IF all THEN {} ELSE @ \cup {p},
       !.got = NothingRead,
       !.step = IF all THEN "yield" ELSE "single"]

SinglePage ==
  /\ walk.step = "single"
  /\ \E p \in Unasked(walk) :
       LET i   == walk.found[p].issue
           got == LowerOf(walk.got[i] + HistoryPage, Len(histories[i]))
       IN /\ IsNext(p)
          /\ IF got < Len(histories[i])
             THEN walk' = [walk EXCEPT !.got[i] = got]
             ELSE SingleDone(p, [complete |-> TRUE, histories |-> got])
  /\ UNCHANGED <<jira, raw>>

(* A 404, on any page.                                                     *)
SingleMissing ==
  /\ walk.step = "single"
  /\ \E p \in Unasked(walk) : IsNext(p) /\ SingleDone(p, [complete |-> FALSE, histories |-> 0])
  /\ UNCHANGED <<jira, raw>>

-----------------------------------------------------------------------------
(* The rows, and the end of the run.                                       *)

(* flatten.changelog and flatten.changelog_status.  An issue that is       *)
(* yielded twice is deduplicated by its key: either status row may stay.   *)
Yield ==
  LET i  == walk.found[walk.taken + 1].issue
      r  == walk.resolved[i]
      new == [updated |-> walk.tapped[i], complete |-> r.complete]
  IN /\ walk.step = "yield" /\ ~Limited(walk)
     /\ \E s \in {new} \cup ({walk.status[i]} \ {None}) :
          walk' = [walk EXCEPT
            !.status[i] = s,
            !.rows[i] = HigherOf(@, r.histories),
            !.high = HigherOf(@, new.updated),
            !.count = @ + 1, !.taken = @ + 1,
            !.resolved = IF walk.taken + 1 = walk.batchEnd THEN Unresolved ELSE @,
            !.step = IF walk.taken + 1 = walk.batchEnd THEN "search" ELSE "yield"]
     /\ UNCHANGED <<jira, raw>>

(* The walk ends, or --limit ends it; its package is loaded.               *)
Finish ==
  /\ walk.step \in {"search", "yield"}
  /\ Limited(walk) \/ (walk.step = "search" /\ walk.last /\ walk.taken = Len(walk.found))
  /\ cursor' = HigherOf(cursor, walk.high)
  /\ status' = [i \in Issue |-> IF walk.status[i] = None THEN status[i] ELSE walk.status[i]]
  /\ rows' = [i \in Issue |-> HigherOf(rows[i], walk.rows[i])]
  /\ walk' = NoWalk
  /\ UNCHANGED <<jira, issues>>

(* A request that raises, or the process dies: the walk leaves nothing.    *)
Fail ==
  /\ walk # NoWalk
  /\ walk' = NoWalk
  /\ UNCHANGED <<jira, raw>>

WalkStep ==
  \/ SearchPage \/ Expand
  \/ (\E i \in Issue : BulkPage(i)) \/ BulkEnd \/ BulkRejected \/ BulkUnavailable
  \/ SinglePage \/ SingleMissing
  \/ Yield \/ Finish

Next ==
  \/ Tick
  \/ \E i \in Issue : LoadIssue(i) \/ \E tos \in Targets : Edit(i, tos)
  \/ \E limit \in Limits : StartWalk(limit)
  \/ WalkStep \/ Fail

Spec == Init /\ [][Next]_vars

-----------------------------------------------------------------------------
TypeOK ==
  /\ isCloud \in BOOLEAN
  /\ now \in Nat
  /\ updated \in [Issue -> Nat]
  /\ histories \in [Issue -> Seq(History)]
  /\ walk \in Walk \cup {NoWalk}
  /\ cursor \in Nat
  /\ rows \in [Issue -> Nat]
  /\ status \in [Issue -> StatusRow \cup {None}]
  /\ issues \in [Issue -> IssueRow \cup {None}]

(* "a chunk is only returned once all of its pages are in", "a tier's      *)
(* result is taken whole": an issue is recorded as complete only with all  *)
(* the histories it had when the search found it, whatever tier answered,  *)
(* and whatever was rejected or edited on the way.                         *)
CompleteIsWhole ==
  \A i \in Issue : status[i] # None /\ status[i].complete =>
    \A k \in 1..Len(histories[i]) : histories[i][k].at <= status[i].updated => k <= rows[i]

(* partition_incomplete.                                                   *)
Trusted(i) ==
  /\ status[i] # None /\ status[i].complete
  /\ issues[i] = None \/ issues[i].updated <= status[i].updated

(* ORDER BY changed_at, history_id: ids are text.                          *)
IdBefore(j, k) == IF (j < IdRollover) = (k < IdRollover) THEN j < k ELSE k < j

(* Mutant: by stamp alone.                                                 *)
OrderedByStamp(h, j, k) == h[j].at < h[k].at \/ (h[j].at = h[k].at /\ k < j)

Ordered(h, j, k) == h[j].at < h[k].at \/ (h[j].at = h[k].at /\ IdBefore(j, k))

(* issue_status_interval.sql, for one issue: seq 0 is seeded from the      *)
(* first change, or without one from the issue; the last is open-ended.    *)
Open == MaxClock + 1
Intervals(i) ==
  LET h       == histories[i]
      changes == {j \in 1..rows[i] : h[j].from # h[j].to}
      rn(j)   == 1 + Cardinality({k \in changes : Ordered(h, k, j)})
      nth(n)  == h[CHOOSE j \in changes : rn(j) = n]
      count   == Cardinality(changes)
  IN [seq \in 0..count |->
       [status  |-> IF seq > 0 THEN nth(seq).to
                    ELSE IF count > 0 THEN nth(1).from ELSE issues[i].status,
        entered |-> IF seq > 0 THEN nth(seq).at ELSE 0,
        exited  |-> IF seq < count THEN nth(seq + 1).at ELSE Open]]

(* The status an issue really had at an instant.                           *)
StatusAt(i, t) ==
  LET made == {k \in 1..Len(histories[i]) : histories[i][k].at <= t}
  IN IF made = {} THEN Initial ELSE histories[i][Max(made)].to

(* "rebuilt from every issue's complete changelog, ... starting correctly  *)
(* at the issue's creation": whenever the transform trusts a changelog,    *)
(* its intervals give, for each instant up to the version that was         *)
(* extracted, exactly one status, and it is the one the issue had.         *)
IntervalsTellHistory ==
  \A i \in Issue : Trusted(i) /\ issues[i] # None =>
    LET iv == Intervals(i)
    IN \A t \in 0..status[i].updated :
         /\ Cardinality({s \in DOMAIN iv : iv[s].entered <= t /\ t < iv[s].exited}) = 1
         /\ \A s \in DOMAIN iv :
              iv[s].entered <= t /\ t < iv[s].exited => iv[s].status = StatusAt(i, t)

(* "A --limit-bounded caller can then only stop at an issue boundary in    *)
(* cursor order": where it stops, the cursor is not past an issue that the *)
(* search had found and that was not yielded, by more than the overlap.    *)
LimitStopsInOrder ==
  walk # NoWalk /\ Limited(walk) =>
    \A k \in walk.taken + 1..Len(walk.found) : walk.high <= walk.found[k].updated + Overlap
=============================================================================
