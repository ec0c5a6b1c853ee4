---------------------------- MODULE DcSearchWalk ----------------------------
(***************************************************************************)
(* The offset walk over GET /search of a Jira Server or Data Center, while *)
(* issues are edited, created and deleted (_dc_search_pages).              *)
(*                                                                         *)
(* The search is sorted by `updated`, so an edit moves an issue to the end *)
(* and shifts every later row to the left.  Each page therefore re-reads   *)
(* the end of the one before it, and is refused unless its first row was   *)
(* read before and has not changed.                                        *)
(*                                                                         *)
(* Stamps are ticks of Jira's clock.  Every edit during the walk has a     *)
(* stamp of its own; issues that were edited before may share one.         *)
(***************************************************************************)
EXTENDS Integers, FiniteSets

CONSTANTS
  Issue,        \* issue ids; the search breaks ties of `updated` by id
  PageSize,     \* rows of a page
  PageOverlap,  \* DC_PAGE_OVERLAP
  Began,        \* the clock when the walk begins
  DateEarly,    \* how far the Date header may lag behind the search it came with
  DateLate,     \* how far it may be ahead of it
  MaxClock      \* bound: edits during the walk

ASSUME IssueType    == Issue \subseteq Nat /\ IsFiniteSet(Issue)
ASSUME PageSizeType == PageSize \in Nat \ {0} /\ PageOverlap \in Nat \ {0}
ASSUME ClockType    == /\ Began \in Nat /\ MaxClock \in Nat
                       /\ DateEarly \in Nat /\ DateLate \in Nat

VARIABLES
  now,           \* Jira's clock
  updated,       \* `updated` of each issue the search finds, 0 for the others
  pc,            \* the walk: about to "request", in a "page", or "done"
  startAt, rewind, nextPosition,
  begun,         \* history: the clock when the first page was searched
  ceiling,       \* the first response's Date
  page,          \* the stamps of the rows of the page that are not handled yet
  total,         \* `total` of the last response
  yielded        \* the stamp an issue was yielded with, 0 if it was not

jira == <<now, updated>>
walk == <<pc, startAt, rewind, nextPosition, begun, ceiling, page, total, yielded>>
vars == <<jira, walk>>

-----------------------------------------------------------------------------
NotSet == -1
AtLeast0(n) == IF n < 0 THEN 0 ELSE n

Found == {i \in Issue : updated[i] > 0}

(* `order by updated asc` on rows <<stamp, issue>>.                        *)
Earlier(s, i, t, j) == s < t \/ (s = t /\ i < j)

Position(i) == Cardinality({j \in Found : Earlier(updated[j], j, updated[i], i)})
PageAt(n) == {i \in Found : n <= Position(i) /\ Position(i) < n + PageSize}

(* Mutant: any issue that was read will do.                                *)
WasYielded(i) == yielded[i] > 0

(* _unchanged *)
Unchanged(i) == yielded[i] > 0 /\ yielded[i] = updated[i]

(* The page continues what was read: it is the first one, or its first row *)
(* was yielded and has not changed.                                        *)
Continues(n) == n = 0 \/ \E i \in PageAt(n) : Position(i) = n /\ Unchanged(i)

Init ==
  /\ now = Began
  /\ updated \in [Issue -> 0..Began]
  /\ pc = "request"
  /\ startAt = 0 /\ rewind = PageOverlap /\ nextPosition = 0
  /\ begun = 0
  /\ ceiling = NotSet
  /\ page = [i \in Issue |-> 0]
  /\ total = 0
  /\ yielded = [i \in Issue |-> 0]

-----------------------------------------------------------------------------
(* An issue is created or edited.                                          *)
Edit(i) ==
  /\ now < MaxClock
  /\ now' = now + 1
  /\ updated' = [updated EXCEPT ![i] = now']
  /\ UNCHANGED walk

(* An issue is deleted, or moved out of the project.                       *)
Delete(i) ==
  /\ i \in Found
  /\ now < MaxClock
  /\ now' = now + 1
  /\ updated' = [updated EXCEPT ![i] = 0]
  /\ UNCHANGED walk

(* Mutant: the ceiling moves with every page.                              *)
ReadDateEachTime ==
  /\ begun' = IF ceiling = NotSet THEN now ELSE begun
  /\ ceiling' \in AtLeast0(now - DateEarly)..(now + DateLate)

(* _server_time, for the first response.  The header is in seconds, and is *)
(* written after the search was made; without it, it is the host's clock.  *)
ReadDate ==
  IF ceiling = NotSet
  THEN begun' = now /\ ceiling' \in AtLeast0(now - DateEarly)..(now + DateLate)
  ELSE UNCHANGED <<begun, ceiling>>

AcceptPage ==
  /\ pc = "request"
  /\ Continues(startAt)
  /\ ReadDate
  /\ page' = [i \in Issue |-> IF i \in PageAt(startAt) THEN updated[i] ELSE 0]
  /\ nextPosition' = startAt + Cardinality(PageAt(startAt))
  /\ total' = Cardinality(Found)
  /\ pc' = "page"
  /\ UNCHANGED <<jira, startAt, rewind, yielded>>

(* Mutant: one step back is all there is.                                  *)
RewindOnce ==
  /\ pc = "request"
  /\ ~Continues(startAt)
  /\ rewind' = PageOverlap
  /\ startAt' = AtLeast0(nextPosition - rewind')
  /\ UNCHANGED <<jira, pc, nextPosition, begun, ceiling, page, total, yielded>>

(* Mutant: a step back past the first row.                                 *)
RewindPastStart ==
  /\ pc = "request"
  /\ ~Continues(startAt)
  /\ rewind' = 2 * rewind
  /\ startAt' = nextPosition - rewind'
  /\ UNCHANGED <<jira, pc, nextPosition, begun, ceiling, page, total, yielded>>

(* More rows moved away than the overlap: step further back.               *)
Rewind ==
  /\ pc = "request"
  /\ ~Continues(startAt)
  /\ rewind' = 2 * rewind
  /\ startAt' = AtLeast0(nextPosition - rewind')
  /\ UNCHANGED <<jira, pc, nextPosition, begun, ceiling, page, total, yielded>>

(* The next row of the page in hand.                                       *)
IsNextRow(i) ==
  /\ pc = "page" /\ page[i] > 0
  /\ \A j \in Issue : page[j] > 0 => ~Earlier(page[j], j, page[i], i)

YieldRow(i) ==
  /\ IsNextRow(i)
  /\ page[i] <= ceiling
  /\ page' = [page EXCEPT ![i] = 0]
  /\ yielded' = [yielded EXCEPT ![i] = IF @ = 0 THEN page[i] ELSE @]
  /\ UNCHANGED <<jira, pc, startAt, rewind, nextPosition, begun, ceiling, total>>

(* The first issue that was updated after the walk began ends it.          *)
StopAtCeiling(i) ==
  /\ IsNextRow(i)
  /\ page[i] > ceiling
  /\ pc' = "done"
  /\ UNCHANGED <<jira, startAt, rewind, nextPosition, begun, ceiling, page, total, yielded>>

PageRead == pc = "page" /\ \A i \in Issue : page[i] = 0

NextPage ==
  /\ PageRead
  /\ nextPosition < total
  /\ rewind' = PageOverlap
  /\ startAt' = AtLeast0(nextPosition - rewind')
  /\ pc' = "request"
  /\ UNCHANGED <<jira, nextPosition, begun, ceiling, page, total, yielded>>

LastPage ==
  /\ PageRead
  /\ nextPosition >= total
  /\ pc' = "done"
  /\ UNCHANGED <<jira, startAt, rewind, nextPosition, begun, ceiling, page, total, yielded>>

WalkStep == \/ AcceptPage \/ Rewind \/ NextPage \/ LastPage
            \/ \E i \in Issue : YieldRow(i) \/ StopAtCeiling(i)

Next == WalkStep \/ \E i \in Issue : Edit(i) \/ Delete(i)

Spec == Init /\ [][Next]_vars

(* The process that walks goes on.                                         *)
FairSpec == Spec /\ WF_vars(WalkStep)

-----------------------------------------------------------------------------
TypeOK ==
  /\ now \in Nat
  /\ updated \in [Issue -> Nat]
  /\ pc \in {"request", "page", "done"}
  /\ startAt \in Nat /\ rewind \in Nat \ {0} /\ nextPosition \in Nat
  /\ begun \in Nat
  /\ ceiling \in Nat \cup {NotSet}
  /\ page \in [Issue -> Nat]
  /\ total \in Nat
  /\ yielded \in [Issue -> Nat]

(* "The watermark never passes an edit this walk stepped over": at every   *)
(* moment, since --limit may cut the walk at any row, an issue older than  *)
(* one that was yielded has been yielded as it is now, but for edits that  *)
(* are newer than the first search, by no more than its Date is late.      *)
NothingSteppedOver ==
  \A i, j \in Issue :
    yielded[i] > 0 /\ updated[j] > 0 /\ updated[j] + DateLate < yielded[i]
      => yielded[j] = updated[j]

(* Shifting rows, however many and in whichever page, make no issue that   *)
(* was there when the walk began be skipped (up to the ceiling).           *)
WalkIsComplete ==
  pc = "done" => \A j \in Issue :
    0 < updated[j] /\ updated[j] <= begun /\ updated[j] <= ceiling => yielded[j] = updated[j]

(* An issue that was read was edited again, after the first search and not *)
(* after its Date.                                                         *)
EditedBeforeCeiling ==
  \E i \in Issue : /\ yielded[i] > 0 /\ updated[i] > 0
                  /\ yielded[i] # updated[i] /\ updated[i] <= ceiling

(* "the walk steps further back until it is": whatever else moves, this    *)
(* ends, and so does the walk.  A row that was edited as above is neither  *)
(* yielded again nor ever unchanged, and a page of them can turn the walk  *)
(* round for good.                                                         *)
WalkEnds == <>(pc = "done" \/ EditedBeforeCeiling)
=============================================================================
