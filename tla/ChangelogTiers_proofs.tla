----------------------- MODULE ChangelogTiers_proofs -----------------------
(***************************************************************************)
(* A changelog that is recorded as complete is whole, for every number of  *)
(* issues and histories and all sizes of batches, chunks and pages.        *)
(*                                                                         *)
(* The argument: what is added to a changelog has a later stamp than the   *)
(* issue had, so histories that are all there were at one moment are all   *)
(* there are up to any stamp the issue had by then (WholeKept).  Each tier *)
(* reads to the end, or its result is not taken; and what one tier         *)
(* resolved is only trusted once no row of its issue awaits a later one,   *)
(* which answers for the later stamp (ResolvedInv).                        *)
(***************************************************************************)
EXTENDS ChangelogTiers, SequenceTheorems, FiniteSetTheorems, WellFoundedInduction, TLAPS

(* The first n histories of an issue are all it had at time t.             *)
Whole(i, t, n) ==
  \A k \in 1..Len(histories[i]) : histories[i][k].at <= t => k <= n

HistoryInv ==
  \A i \in Issue : \A k \in 1..Len(histories[i]) : histories[i][k].at <= updated[i]

ClockInv == \A i \in Issue : updated[i] <= now

RowOK(i, row, n) ==
  row # None => row.updated <= updated[i] /\ (row.complete => Whole(i, row.updated, n))

StoredInv == \A i \in Issue : RowOK(i, status[i], rows[i])

(* The rows a walk has made so far.                                        *)
YieldedInv == \A i \in Issue : RowOK(i, walk.status[i], walk.rows[i])

FoundInv ==
  \A k \in 1..Len(walk.found) :
    /\ walk.found[k].updated <= updated[walk.found[k].issue]
    /\ Whole(walk.found[k].issue, walk.found[k].updated, walk.found[k].total)

TappedInv == \A i \in Issue : walk.tapped[i] <= updated[i]

(* The batch under way, and its rows that the next tier has to resolve.    *)
InBatch == {"bulk", "single", "yield"}
BatchInv ==
  walk.step \in InBatch =>
    /\ walk.taken < walk.batchEnd /\ walk.batchEnd <= Len(walk.found)
    /\ \A k \in walk.taken + 1 .. walk.batchEnd : walk.tapped[walk.found[k].issue] \in Nat
    /\ walk.step \in {"bulk", "single"} =>
         walk.pending \subseteq 1..Len(walk.found)

(* A row of the issue has still to be resolved.                            *)
Awaits(i) ==
  /\ walk.step \in {"bulk", "single"}
  /\ \E p \in IF walk.step = "bulk" THEN walk.pending ELSE Unasked(walk) :
       walk.found[p].issue = i

ResolvedInv ==
  /\ walk.step = "search" => walk.resolved = Unresolved
  /\ \A i \in Issue :
       walk.resolved[i].complete => Awaits(i) \/ Whole(i, walk.tapped[i], walk.resolved[i].histories)

(* What bulkfetch has read to the end.                                     *)
BulkInv ==
  walk.step = "bulk" => \A i \in Issue :
    /\ i \in walk.read => Whole(i, walk.tapped[i], walk.got[i])
    /\ walk.bulk[i] # 0 => Whole(i, walk.tapped[i], walk.bulk[i])

WalkInv ==
  walk # NoWalk =>
    YieldedInv /\ FoundInv /\ TappedInv /\ BatchInv /\ ResolvedInv /\ BulkInv

IInv == TypeOK /\ HistoryInv /\ ClockInv /\ StoredInv /\ WalkInv

-----------------------------------------------------------------------------
(* The helpers.                                                            *)
LEMMA Bounds ==
  \A a, b \in Nat : /\ LowerOf(a, b) \in Nat /\ LowerOf(a, b) <= a /\ LowerOf(a, b) <= b
                    /\ HigherOf(a, b) \in Nat /\ a <= HigherOf(a, b) /\ b <= HigherOf(a, b)
  BY DEF LowerOf, HigherOf

LEMMA MaxIsIn ==
  ASSUME NEW n \in Nat, NEW S \in SUBSET (1..n), S # {}
  PROVE  Max(S) \in S /\ \A y \in S : y <= Max(S)
<1> DEFINE T == {n - x : x \in S}
           R == OpToRel(<, Nat)
<1>1. T \subseteq Nat /\ T # {}
  <2>1. \A x \in S : n - x \in Nat /\ n - x \in T
    OBVIOUS
  <2> QED BY <2>1
<1>2. PICK t \in T : \A u \in T : <<u, t>> \notin R
  <2>1. IsWellFoundedOn(R, Nat)
    BY NatLessThanWellFounded
  <2> HIDE DEF T, R
  <2> QED BY <2>1, <1>1, WFMin
<1>3. PICK x \in S : t = n - x
  OBVIOUS
<1>4. ASSUME NEW y \in S PROVE x >= y
  <2>1. n - y \in T /\ n - y \in Nat /\ t \in Nat
    BY <1>1
  <2>2. ~(n - y < t)
    BY <1>2, <2>1 DEF OpToRel
  <2> QED BY <2>1, <2>2, <1>3
<1> QED BY <1>3, <1>4 DEF Max

LEMMA WalkTypes ==
  ASSUME TypeOK, walk # NoWalk
  PROVE  /\ walk \in Walk
         /\ walk.step \in {"search", "bulk", "single", "yield"}
         /\ walk.limit \in Nat /\ walk.floor \in Nat /\ walk.begun \in Nat
         /\ walk.found \in Seq(FoundRow) /\ Len(walk.found) \in Nat
         /\ \A k \in 1..Len(walk.found) :
              /\ walk.found[k].issue \in Issue /\ walk.found[k].updated \in Nat
              /\ walk.found[k].total \in Nat
         /\ walk.last \in BOOLEAN /\ walk.taken \in Nat /\ walk.batchEnd \in Nat
         /\ walk.tapped \in [Issue -> Nat \cup {-1}] /\ walk.resolved \in [Issue -> Result]
         /\ walk.pending \in SUBSET Nat /\ walk.asked \in SUBSET Nat
         /\ walk.got \in [Issue -> Nat] /\ walk.read \in SUBSET Issue
         /\ walk.bulk \in [Issue -> Nat] /\ walk.count \in Nat /\ walk.high \in Nat
         /\ walk.status \in [Issue -> StatusRow \cup {None}] /\ walk.rows \in [Issue -> Nat]
<1>1. walk \in Walk
  BY DEF TypeOK
<1>2. walk.found \in Seq(FoundRow) /\ walk.limit \in Limits
  BY <1>1 DEF Walk
<1>3. \A k \in 1..Len(walk.found) : walk.found[k] \in FoundRow
  BY <1>2
<1>4. walk.limit \in Nat /\ Len(walk.found) \in Nat
  <2>1. Len(walk.found) \in Nat
    BY <1>2
  <2>2. walk.limit \in Nat
    BY <1>2, SizesType
  <2> QED BY <2>1, <2>2
<1>5. /\ walk.step \in {"search", "bulk", "single", "yield"}
      /\ walk.floor \in Nat /\ walk.begun \in Nat
      /\ walk.last \in BOOLEAN /\ walk.taken \in Nat /\ walk.batchEnd \in Nat
      /\ walk.tapped \in [Issue -> Nat \cup {-1}] /\ walk.resolved \in [Issue -> Result]
      /\ walk.pending \in SUBSET Nat /\ walk.asked \in SUBSET Nat
  BY <1>1 DEF Walk
<1>6. /\ walk.got \in [Issue -> Nat] /\ walk.read \in SUBSET Issue
      /\ walk.bulk \in [Issue -> Nat] /\ walk.count \in Nat /\ walk.high \in Nat
      /\ walk.status \in [Issue -> StatusRow \cup {None}] /\ walk.rows \in [Issue -> Nat]
  BY <1>1 DEF Walk
<1>7. \A k \in 1..Len(walk.found) :
        /\ walk.found[k].issue \in Issue /\ walk.found[k].updated \in Nat
        /\ walk.found[k].total \in Nat
  BY <1>3 DEF FoundRow
<1> QED BY <1>1, <1>2, <1>4, <1>5, <1>6, <1>7

LEMMA HistoryTypes ==
  ASSUME TypeOK, NEW i \in Issue
  PROVE  /\ Len(histories[i]) \in Nat /\ updated[i] \in Nat /\ rows[i] \in Nat
         /\ \A k \in 1..Len(histories[i]) :
              /\ histories[i][k].at \in Nat
              /\ histories[i][k].from \in Status /\ histories[i][k].to \in Status
<1>1. histories[i] \in Seq(History)
  BY DEF TypeOK
<1>2. \A k \in 1..Len(histories[i]) : histories[i][k] \in History
  BY <1>1
<1> QED BY <1>1, <1>2 DEF TypeOK, History

LEMMA ArrayTypes ==
  /\ NothingRead \in [Issue -> Nat]
  /\ Unresolved \in [Issue -> Result]
  /\ \A i \in Issue : NothingRead[i] = 0 /\ ~Unresolved[i].complete
  BY DEF NothingRead, Unresolved, Result

LEMMA InitIInv == Init => IInv
<1> SUFFICES ASSUME Init PROVE IInv
  OBVIOUS
<1>1. TypeOK
  BY ArrayTypes DEF Init, TypeOK
<1> QED BY <1>1, ArrayTypes
        DEF Init, IInv, HistoryInv, ClockInv, StoredInv, RowOK, WalkInv

-----------------------------------------------------------------------------
(* Jira, and the other resource.                                           *)

(* An edit changes nothing up to the stamp an issue had.                   *)
LEMMA WholeKept ==
  ASSUME TypeOK, HistoryInv, ClockInv, NEW i \in Issue, NEW tos \in Targets, Edit(i, tos)
  PROVE  /\ TypeOK' /\ HistoryInv' /\ ClockInv'
         /\ \A j \in Issue : updated[j] <= updated'[j]
         /\ \A j \in Issue, t \in Int, n \in Nat :
              t <= updated[j] /\ Whole(j, t, n) => Whole(j, t, n)'
<1> DEFINE from == <<CurrentStatus(i)>> \o tos
           new  == [k \in 1..Len(tos) |-> [at |-> now, from |-> from[k], to |-> tos[k]]]
<1>1. tos \in Seq(Status) /\ Len(tos) \in Nat /\ \A k \in 1..Len(tos) : tos[k] \in Status
  BY StatusType
<1>2. CurrentStatus(i) \in Status
  <2>1. ASSUME histories[i] # << >> PROVE Last(histories[i]).to \in Status
    <3>1. histories[i] \in Seq(History) /\ Len(histories[i]) \in 1..Len(histories[i])
      BY <2>1 DEF TypeOK
    <3> QED BY <3>1, HistoryTypes DEF Last
  <2> QED BY <2>1, StatusType DEF CurrentStatus
<1>3. from \in Seq(Status) /\ Len(from) = Len(tos) + 1
  BY <1>1, <1>2
<1>4. now \in Nat /\ new \in Seq(History) /\ Len(new) = Len(tos)
  <2>1. \A k \in 1..Len(tos) : from[k] \in Status
    BY <1>1, <1>3
  <2> QED BY <2>1, <1>1 DEF TypeOK, History
<1>5. \A k \in 1..Len(new) : new[k].at = now
  BY <1>4
<1> HIDE DEF new
<1>6. /\ histories' = [histories EXCEPT ![i] = @ \o new]
      /\ updated' = [updated EXCEPT ![i] = now]
      /\ updated[i] < now
      /\ UNCHANGED <<isCloud, now, walk, cursor, rows, status, issues>>
  BY DEF Edit, new, raw
<1>7. /\ histories'[i] = histories[i] \o new /\ updated'[i] = now
      /\ \A j \in Issue : j # i => histories'[j] = histories[j] /\ updated'[j] = updated[j]
  BY <1>6 DEF TypeOK
<1>8. histories[i] \in Seq(History)
  BY DEF TypeOK
<1>9. /\ Len(histories'[i]) = Len(histories[i]) + Len(new)
      /\ \A k \in 1..Len(histories'[i]) :
           histories'[i][k] = IF k <= Len(histories[i]) THEN histories[i][k]
                              ELSE new[k - Len(histories[i])]
  <2>1. \A S : \A a, b \in Seq(S) :
          /\ Len(a \o b) = Len(a) + Len(b)
          /\ \A k \in 1..Len(a) + Len(b) : (a \o b)[k] = IF k <= Len(a) THEN a[k] ELSE b[k - Len(a)]
    BY ConcatProperties
  <2>2. /\ Len(histories[i] \o new) = Len(histories[i]) + Len(new)
        /\ \A k \in 1..Len(histories[i]) + Len(new) :
             (histories[i] \o new)[k] = IF k <= Len(histories[i]) THEN histories[i][k]
                                        ELSE new[k - Len(histories[i])]
    BY <2>1, <1>4, <1>8
  <2> QED BY <2>2, <1>7
<1>10. \A k \in 1..Len(histories'[i]) :
         /\ k <= Len(histories[i]) => histories'[i][k] = histories[i][k]
         /\ k > Len(histories[i]) => histories'[i][k].at = now
  BY <1>4, <1>5, <1>8, <1>9
<1>11. TypeOK'
  <2>1. histories[i] \o new \in Seq(History)
    BY <1>4, <1>8
  <2> QED BY <2>1, <1>4, <1>6 DEF TypeOK
<1>12. \A j \in Issue : updated[j] \in Nat /\ updated[j] <= updated'[j]
  BY <1>4, <1>6, <1>7 DEF TypeOK
<1>13. HistoryInv'
  <2> SUFFICES ASSUME NEW j \in Issue, NEW k \in 1..Len(histories'[j])
               PROVE  histories'[j][k].at <= updated'[j]
    BY DEF HistoryInv
  <2>1. CASE j # i
    BY <2>1, <1>7 DEF HistoryInv
  <2>2. CASE j = i /\ k <= Len(histories[i])
    BY <2>2, <1>6, <1>7, <1>8, <1>9, <1>12, HistoryTypes, <1>4 DEF HistoryInv
  <2>3. CASE j = i /\ k > Len(histories[i])
    BY <2>3, <1>7, <1>10, <1>4
  <2> QED BY <2>1, <2>2, <2>3, <1>8
<1>14. ClockInv'
  BY <1>4, <1>6, <1>7 DEF ClockInv
<1>15. ASSUME NEW j \in Issue, NEW t \in Int, NEW n \in Nat, t <= updated[j], Whole(j, t, n),
              NEW k \in 1..Len(histories'[j]), histories'[j][k].at <= t
       PROVE  k <= n
  <2>1. CASE j # i
    BY <2>1, <1>7, <1>15 DEF Whole
  <2>2. CASE j = i /\ k <= Len(histories[i])
    BY <2>2, <1>8, <1>9, <1>15 DEF Whole
  <2>3. CASE j = i /\ k > Len(histories[i])
    BY <2>3, <1>4, <1>6, <1>10, <1>12, <1>15
  <2> QED BY <2>1, <2>2, <2>3, <1>8
<1> QED BY <1>11, <1>12, <1>13, <1>14, <1>15 DEF Whole

LEMMA EditInv ==
  ASSUME IInv, NEW i \in Issue, NEW tos \in Targets, Edit(i, tos)
  PROVE  IInv'
<1> USE DEF IInv
<1>1. /\ TypeOK' /\ HistoryInv' /\ ClockInv'
      /\ \A j \in Issue : updated[j] <= updated'[j]
      /\ \A j \in Issue, t \in Int, n \in Nat :
           t <= updated[j] /\ Whole(j, t, n) => Whole(j, t, n)'
  BY WholeKept
<1>2. UNCHANGED <<walk, rows, status>>
  BY DEF Edit, raw
<1>3. \A j \in Issue : updated[j] \in Nat /\ updated'[j] \in Nat
  BY <1>1 DEF TypeOK
<1>t. \A j \in Issue, t \in Int : t <= updated[j] => t <= updated'[j]
  BY <1>1, <1>3
<1>4. ASSUME NEW j \in Issue, NEW row \in StatusRow \cup {None}, NEW n \in Nat, RowOK(j, row, n)
      PROVE  RowOK(j, row, n)'
  <2>1. row # None => row.updated \in Nat
    BY DEF StatusRow
  <2> QED BY <1>1, <1>3, <1>4, <2>1 DEF RowOK
<1>5. StoredInv'
  BY <1>2, <1>4, HistoryTypes DEF StoredInv, TypeOK
<1>6. ASSUME walk # NoWalk
      PROVE  (YieldedInv /\ FoundInv /\ TappedInv /\ BatchInv /\ ResolvedInv /\ BulkInv)'
  <2>0. YieldedInv /\ FoundInv /\ TappedInv /\ BatchInv /\ ResolvedInv /\ BulkInv
    BY <1>6 DEF WalkInv
  <2> USE WalkTypes, <1>6
  <2>1. YieldedInv'
    BY <1>2, <1>4, <2>0 DEF YieldedInv
  <2>2. FoundInv'
    <3> SUFFICES ASSUME NEW k \in 1..Len(walk.found)
                 PROVE  /\ walk.found[k].updated <= updated'[walk.found[k].issue]
                        /\ Whole(walk.found[k].issue, walk.found[k].updated, walk.found[k].total)'
      BY <1>2 DEF FoundInv
    <3>1. /\ walk.found[k].issue \in Issue /\ walk.found[k].updated \in Nat
          /\ walk.found[k].total \in Nat
      OBVIOUS
    <3>2. /\ walk.found[k].updated <= updated[walk.found[k].issue]
          /\ Whole(walk.found[k].issue, walk.found[k].updated, walk.found[k].total)
      BY <2>0 DEF FoundInv
    <3>3. walk.found[k].updated <= updated'[walk.found[k].issue]
      BY <1>t, <3>1, <3>2
    <3>4. Whole(walk.found[k].issue, walk.found[k].updated, walk.found[k].total)'
      BY <1>1, <1>2, <3>1, <3>2
    <3> QED BY <3>3, <3>4
  <2>t. \A j \in Issue : walk.tapped[j] \in Int
    OBVIOUS
  <2>3. TappedInv'
    <3> SUFFICES ASSUME NEW j \in Issue PROVE walk.tapped[j] <= updated'[j]
      BY <1>2 DEF TappedInv
    <3> QED BY <1>t, <2>0, <2>t DEF TappedInv
  <2>4. BatchInv'
    BY <1>2, <2>0 DEF BatchInv
  <2>5. ResolvedInv'
    <3>1. \A j \in Issue : walk.resolved[j].histories \in Nat
      BY DEF Result
    <3> QED BY <1>1, <1>2, <2>0, <2>t, <3>1 DEF ResolvedInv, TappedInv, Awaits, Unasked
  <2>6. BulkInv'
    BY <1>1, <1>2, <2>0, <2>t DEF BulkInv, TappedInv
  <2> QED BY <2>1, <2>2, <2>3, <2>4, <2>5, <2>6
<1>7. WalkInv'
  BY <1>2, <1>6 DEF WalkInv
<1> QED BY <1>1, <1>5, <1>7

(* Steps that leave Jira and the walk alone.                               *)
LEMMA OtherInv ==
  ASSUME IInv, Tick \/ \E i \in Issue : LoadIssue(i)
  PROVE  IInv'
<1> USE DEF IInv
<1>1. UNCHANGED <<isCloud, updated, histories, walk, cursor, rows, status>>
  BY DEF Tick, LoadIssue, raw, jira
<1>2. now \in Nat /\ now' \in Nat /\ now <= now'
  BY DEF Tick, LoadIssue, jira, TypeOK
<1>3. TypeOK'
  <2>1. CASE Tick
    BY <2>1, <1>2 DEF Tick, TypeOK, raw
  <2>2. ASSUME NEW i \in Issue, LoadIssue(i) PROVE TypeOK'
    <3>1. CurrentStatus(i) \in Status
      <4>1. ASSUME histories[i] # << >> PROVE Last(histories[i]).to \in Status
        <5>1. histories[i] \in Seq(History) /\ Len(histories[i]) \in 1..Len(histories[i])
          BY <4>1 DEF TypeOK
        <5> QED BY <5>1, HistoryTypes DEF Last
      <4> QED BY <4>1, StatusType DEF CurrentStatus
    <3>2. [updated |-> updated[i], status |-> CurrentStatus(i)] \in IssueRow
      BY <3>1, HistoryTypes DEF IssueRow
    <3> QED BY <2>2, <3>2 DEF LoadIssue, TypeOK, jira
  <2> QED BY <2>1, <2>2
<1>4. \A i, t, n : Whole(i, t, n)' <=> Whole(i, t, n)
  BY <1>1 DEF Whole
<1>5. HistoryInv' /\ ClockInv' /\ StoredInv'
  BY <1>1, <1>2, <1>4 DEF HistoryInv, ClockInv, StoredInv, RowOK, TypeOK
<1>6. WalkInv'
  BY <1>1, <1>4 DEF WalkInv, YieldedInv, RowOK, FoundInv, TappedInv, BatchInv, ResolvedInv,
                    Awaits, Unasked, BulkInv
<1> QED BY <1>3, <1>5, <1>6

-----------------------------------------------------------------------------
(* The walk.  Its steps leave Jira alone.                                  *)
LEMMA JiraSame ==
  ASSUME IInv, UNCHANGED jira
  PROVE  /\ HistoryInv' /\ ClockInv'
         /\ UNCHANGED <<isCloud, now, updated, histories>>
         /\ \A i, t, n : Whole(i, t, n)' <=> Whole(i, t, n)
         /\ \A i, row, n : RowOK(i, row, n)' <=> RowOK(i, row, n)
BY DEF IInv, HistoryInv, ClockInv, jira, Whole, RowOK

(* And what is stored, but for Finish.                                     *)
LEMMA RawSame ==
  ASSUME IInv, UNCHANGED <<jira, raw>>, walk' \in Walk \cup {NoWalk}
  PROVE  TypeOK' /\ HistoryInv' /\ ClockInv' /\ StoredInv'
<1>1. UNCHANGED <<isCloud, now, updated, histories, cursor, rows, status, issues>>
  BY DEF jira, raw
<1>2. TypeOK'
  BY <1>1 DEF IInv, TypeOK
<1>3. StoredInv'
  BY <1>1, JiraSame DEF IInv, StoredInv
<1> QED BY <1>2, <1>3, JiraSame

LEMMA StartWalkInv ==
  ASSUME IInv, NEW limit \in Limits, StartWalk(limit)
  PROVE  IInv'
<1>1. UNCHANGED <<jira, raw>>
  BY DEF StartWalk
<1>2. now \in Nat /\ cursor \in Nat /\ Overlap \in Nat /\ Limits \subseteq Nat
  <2>1. {EmbedMax, IdRollover, Overlap, MaxClock, MaxHistories} \subseteq Nat
    BY SizesType
  <2> QED BY <2>1, SizesType DEF IInv, TypeOK
<1>3. walk' \in Walk
  BY <1>2, ArrayTypes DEF StartWalk, Walk, None
<1>4. /\ walk'.step = "search" /\ walk'.found = << >> /\ walk'.resolved = Unresolved
      /\ \A i \in Issue : walk'.status[i] = None /\ walk'.tapped[i] = -1
  BY DEF StartWalk
<1>5. WalkInv'
  <2>1. \A i \in Issue : updated'[i] \in Nat
    BY <1>1 DEF jira, IInv, TypeOK
  <2> QED BY <1>4, <2>1, ArrayTypes DEF WalkInv, YieldedInv, RowOK, FoundInv, TappedInv, BatchInv,
                            InBatch, ResolvedInv, BulkInv
<1> QED BY <1>1, <1>3, <1>5, RawSame DEF IInv

LEMMA FailInv ==
  ASSUME IInv, Fail
  PROVE  IInv'
BY RawSame DEF IInv, Fail, WalkInv

LEMMA FinishInv ==
  ASSUME IInv, Finish
  PROVE  IInv'
<1> USE DEF IInv
<1>1. walk # NoWalk /\ walk' = NoWalk /\ UNCHANGED jira /\ UNCHANGED issues
  BY DEF Finish, NoWalk
<1>2. \A i \in Issue : rows[i] \in Nat /\ walk.rows[i] \in Nat
  BY <1>1, WalkTypes DEF TypeOK
<1>3. \A i \in Issue : rows'[i] \in Nat /\ rows[i] <= rows'[i] /\ walk.rows[i] <= rows'[i]
  BY <1>2, Bounds DEF Finish
<1>4. TypeOK'
  <2>1. cursor' \in Nat
    BY <1>1, WalkTypes, Bounds DEF Finish, TypeOK
  <2>2. rows' \in [Issue -> Nat]
    BY <1>3 DEF Finish
  <2>3. status' \in [Issue -> StatusRow \cup {None}]
    BY <1>1, WalkTypes DEF Finish, TypeOK
  <2> QED BY <1>1, <2>1, <2>2, <2>3 DEF TypeOK, jira
<1>5. StoredInv'
  <2> SUFFICES ASSUME NEW i \in Issue PROVE RowOK(i, status'[i], rows'[i])
    BY JiraSame, <1>1 DEF StoredInv
  <2>1. RowOK(i, status[i], rows[i]) /\ RowOK(i, walk.status[i], walk.rows[i])
    BY <1>1 DEF StoredInv, WalkInv, YieldedInv
  <2>2. status'[i] = IF walk.status[i] = None THEN status[i] ELSE walk.status[i]
    BY DEF Finish
  <2>3. Len(histories[i]) \in Nat
    BY HistoryTypes
  <2> QED BY <1>2, <1>3, <2>1, <2>2, <2>3 DEF RowOK, Whole
<1> QED BY <1>1, <1>4, <1>5, JiraSame DEF WalkInv

(* What another step of the walk has to keep.                              *)
LEMMA WalkStepInv ==
  ASSUME IInv, UNCHANGED <<jira, raw>>, walk' \in Walk,
         YieldedInv', FoundInv', TappedInv', BatchInv', ResolvedInv', BulkInv'
  PROVE  IInv'
BY RawSame DEF IInv, WalkInv

LEMMA WalkHas ==
  ASSUME IInv, walk # NoWalk
  PROVE  YieldedInv /\ FoundInv /\ TappedInv /\ BatchInv /\ ResolvedInv /\ BulkInv
BY DEF IInv, WalkInv

LEMMA SizeTypes ==
  /\ PageSize \in Nat /\ BatchSize \in Nat /\ BatchSize > 0 /\ ChunkSize \in Nat
  /\ HistoryPage \in Nat /\ EmbedMax \in Nat
<1>1. {PageSize, BatchSize, ChunkSize, HistoryPage} \subseteq Nat \ {0}
  BY SizesType
<1>2. {EmbedMax, IdRollover, Overlap, MaxClock, MaxHistories} \subseteq Nat
  BY SizesType
<1> QED BY <1>1, <1>2

(* A page is appended to what was found.                                   *)
LEMMA PageAppended ==
  ASSUME IInv, SearchPage
  PROVE  \E found \in Seq(FoundRow), last \in BOOLEAN :
           /\ walk' = [walk EXCEPT !.found = found, !.last = last]
           /\ Len(walk.found) <= Len(found)
           /\ \A k \in 1..Len(walk.found) : found[k] = walk.found[k]
           /\ \A k \in Len(walk.found) + 1 .. Len(found) :
                /\ found[k].issue \in Issue /\ found[k].updated = updated[found[k].issue]
                /\ found[k].total = Len(histories[found[k].issue])
<1> DEFINE ahead == Ahead(walk)
<1>0. walk # NoWalk /\ walk.step = "search" /\ UNCHANGED <<jira, raw>>
  BY DEF SearchPage, NoWalk
<1>1. ahead \subseteq Issue /\ Cardinality(ahead) \in Nat
  <2>1. ahead \subseteq Issue
    BY DEF Ahead
  <2> QED BY <2>1, IssueType, FS_Subset, FS_CardinalityType
<1>2. PICK size \in Nat : \E page \in [1..size -> ahead] :
        walk' = [walk EXCEPT
          !.found = @ \o [k \in 1..size |-> [issue |-> page[k], updated |-> updated[page[k]],
                                             total |-> Len(histories[page[k]])]],
          !.last = (size = Cardinality(ahead))]
  <2> DEFINE full == LowerOf(PageSize, Cardinality(ahead))
  <2>1. full \in Nat
    BY <1>1, SizeTypes, Bounds
  <2> DEFINE sizes == IF isCloud /\ ShortPages /\ full > 0 THEN 1..full ELSE {full}
  <2>2. sizes \subseteq Nat
    BY <2>1
  <2>3. PICK size \in sizes : \E page \in [1..size -> ahead] :
          walk' = [walk EXCEPT
            !.found = @ \o [k \in 1..size |-> [issue |-> page[k], updated |-> updated[page[k]],
                                               total |-> Len(histories[page[k]])]],
            !.last = (size = Cardinality(ahead))]
    <3> HIDE DEF ahead
    <3> QED BY Zenon DEF SearchPage, ahead
  <2>4. size \in Nat
    BY <2>2, <2>3
  <2> QED BY <2>3, <2>4
<1>p. PICK page \in [1..size -> ahead] :
        walk' = [walk EXCEPT
          !.found = @ \o [k \in 1..size |-> [issue |-> page[k], updated |-> updated[page[k]],
                                             total |-> Len(histories[page[k]])]],
          !.last = (size = Cardinality(ahead))]
  BY <1>2
<1> DEFINE new == [k \in 1..size |-> [issue |-> page[k], updated |-> updated[page[k]],
                                      total |-> Len(histories[page[k]])]]
           found == walk.found \o new
<1>3. \A k \in 1..size : page[k] \in Issue
  BY <1>1
<1>4. /\ new \in Seq(FoundRow) /\ Len(new) = size
      /\ \A k \in 1..size : /\ new[k].issue = page[k] /\ new[k].updated = updated[page[k]]
                            /\ new[k].total = Len(histories[page[k]])
  <2>1. \A k \in 1..size : new[k] \in FoundRow
    BY <1>3, HistoryTypes DEF FoundRow, IInv
  <2> QED BY <2>1
<1>5. /\ walk.found \in Seq(FoundRow) /\ walk \in Walk /\ Len(walk.found) \in Nat
  BY <1>0, WalkTypes DEF IInv
<1> HIDE DEF new
<1>6. /\ found \in Seq(FoundRow) /\ Len(found) = Len(walk.found) + size
      /\ \A k \in 1..Len(found) :
           found[k] = IF k <= Len(walk.found) THEN walk.found[k] ELSE new[k - Len(walk.found)]
  <2>1. \A S : \A a, b \in Seq(S) :
          /\ a \o b \in Seq(S) /\ Len(a \o b) = Len(a) + Len(b)
          /\ \A k \in 1..Len(a) + Len(b) : (a \o b)[k] = IF k <= Len(a) THEN a[k] ELSE b[k - Len(a)]
    BY ConcatProperties
  <2>2. /\ walk.found \o new \in Seq(FoundRow)
        /\ Len(walk.found \o new) = Len(walk.found) + Len(new)
        /\ \A k \in 1..Len(walk.found) + Len(new) :
             (walk.found \o new)[k] = IF k <= Len(walk.found) THEN walk.found[k]
                                      ELSE new[k - Len(walk.found)]
    <3> DEFINE R == FoundRow
    <3>1. walk.found \in Seq(R) /\ new \in Seq(R)
      BY <1>4, <1>5
    <3> HIDE DEF R
    <3>2. \A a, b \in Seq(R) :
            /\ a \o b \in Seq(R) /\ Len(a \o b) = Len(a) + Len(b)
            /\ \A k \in 1..Len(a) + Len(b) : (a \o b)[k] = IF k <= Len(a) THEN a[k] ELSE b[k - Len(a)]
      BY <2>1
    <3> USE DEF R
    <3> QED BY <3>1, <3>2
  <2> QED BY <2>2, <1>4
<1>7. walk' = [walk EXCEPT !.found = found, !.last = (size = Cardinality(ahead))]
  BY <1>p DEF new
<1> HIDE DEF found, ahead
<1>8. \A k \in 1..Len(walk.found) : found[k] = walk.found[k]
  BY <1>5, <1>6
<1>9. ASSUME NEW k \in Len(walk.found) + 1 .. Len(found)
      PROVE  /\ found[k].issue \in Issue /\ found[k].updated = updated[found[k].issue]
             /\ found[k].total = Len(histories[found[k].issue])
  <2>1. k - Len(walk.found) \in 1..size /\ found[k] = new[k - Len(walk.found)]
    BY <1>5, <1>6
  <2>2. PICK l \in 1..size : found[k] = new[l]
    BY <2>1
  <2> QED BY <1>3, <1>4, <2>2
<1>10. Len(walk.found) <= Len(found)
  BY <1>5, <1>6
<1> QED BY <1>6, <1>7, <1>8, <1>9, <1>10

LEMMA SearchPageInv ==
  ASSUME IInv, SearchPage
  PROVE  IInv'
<1>0. walk # NoWalk /\ walk.step = "search" /\ UNCHANGED <<jira, raw>>
  BY DEF SearchPage, NoWalk
<1>1. PICK found \in Seq(FoundRow) : \E last \in BOOLEAN :
        /\ walk' = [walk EXCEPT !.found = found, !.last = last]
        /\ Len(walk.found) <= Len(found)
        /\ \A k \in 1..Len(walk.found) : found[k] = walk.found[k]
        /\ \A k \in Len(walk.found) + 1 .. Len(found) :
             /\ found[k].issue \in Issue /\ found[k].updated = updated[found[k].issue]
             /\ found[k].total = Len(histories[found[k].issue])
  BY PageAppended
<1>2. PICK last \in BOOLEAN : walk' = [walk EXCEPT !.found = found, !.last = last]
  BY <1>1
<1>3. walk \in Walk /\ Len(walk.found) \in Nat /\ Len(found) \in Nat
  BY <1>0, WalkTypes DEF IInv
<1>8. walk' \in Walk
  BY <1>2, <1>3 DEF Walk
<1>9. /\ walk'.step = "search" /\ walk'.found = found
      /\ walk'.status = walk.status /\ walk'.rows = walk.rows /\ walk'.tapped = walk.tapped
      /\ walk'.resolved = walk.resolved
  BY <1>0, <1>2, <1>3 DEF Walk
<1>10. YieldedInv' /\ TappedInv' /\ BatchInv' /\ BulkInv'
  BY <1>0, <1>9, WalkHas, JiraSame DEF YieldedInv, TappedInv, BatchInv, InBatch, BulkInv
<1>11. ResolvedInv'
  BY <1>0, <1>9, WalkHas, ArrayTypes DEF ResolvedInv
<1>12. FoundInv'
  <2> SUFFICES ASSUME NEW k \in 1..Len(found)
               PROVE  /\ found[k].updated <= updated[found[k].issue]
                      /\ Whole(found[k].issue, found[k].updated, found[k].total)
    BY <1>0, <1>9, JiraSame DEF FoundInv
  <2>1. CASE k <= Len(walk.found)
    <3>1. k \in 1..Len(walk.found)
      BY <2>1, <1>3
    <3> QED BY <3>1, <1>0, <1>1, WalkHas DEF FoundInv
  <2>2. CASE k > Len(walk.found)
    <3>1. k \in Len(walk.found) + 1 .. Len(found)
      BY <2>2, <1>3
    <3>2. /\ found[k].issue \in Issue /\ found[k].updated = updated[found[k].issue]
          /\ found[k].total = Len(histories[found[k].issue])
      BY <1>1, <3>1
    <3>3. updated[found[k].issue] \in Nat /\ Len(histories[found[k].issue]) \in Nat
      BY <3>2, HistoryTypes DEF IInv
    <3> QED BY <3>2, <3>3 DEF Whole
  <2> QED BY <2>1, <2>2, <1>3
<1> QED BY <1>0, <1>8, <1>10, <1>11, <1>12, WalkStepInv

(* The rows of the batch under way.                                        *)
LEMMA BatchTypes ==
  ASSUME TypeOK, walk # NoWalk
  PROVE  /\ BatchEnd(walk) \in Nat /\ BatchEnd(walk) <= Len(walk.found)
         /\ Batch(walk) \subseteq 1..Len(walk.found)
         /\ Batch(walk) # {} => walk.taken < BatchEnd(walk)
<1>1. walk.taken + BatchSize \in Nat /\ Len(walk.found) \in Nat /\ walk.taken \in Nat
  BY WalkTypes, SizeTypes
<1>2. BatchEnd(walk) \in Nat /\ BatchEnd(walk) <= Len(walk.found)
  BY <1>1, Bounds DEF BatchEnd
<1> QED BY <1>1, <1>2 DEF Batch

LEMMA ExpandInv ==
  ASSUME IInv, Expand
  PROVE  IInv'
<1> DEFINE found == walk.found
           whole(i) == {k \in RowsOf(found, i) : FromExpand(found[k]).complete}
           pending == {k \in Batch(walk) : ~FromExpand(found[k]).complete}
<1>0. walk # NoWalk /\ walk.step = "search" /\ UNCHANGED <<jira, raw>> /\ Batch(walk) # {}
  BY DEF Expand, ExpandInOrder, NoWalk
<1>1. walk \in Walk /\ Len(found) \in Nat /\ walk.taken \in Nat
  BY <1>0, WalkTypes DEF IInv
<1>2. /\ BatchEnd(walk) \in Nat /\ BatchEnd(walk) <= Len(found)
      /\ Batch(walk) \subseteq 1..Len(found) /\ walk.taken < BatchEnd(walk)
  BY <1>0, BatchTypes DEF IInv
<1>3. walk' = [walk EXCEPT
          !.found = found, !.batchEnd = BatchEnd(walk),
          !.tapped = Tapped(found),
          !.resolved = [i \in Issue |-> IF whole(i) = {} THEN walk.resolved[i]
                                        ELSE FromExpand(found[Max(whole(i))])],
          !.pending = pending, !.asked = {}, !.step = NextTier(pending),
          !.got = NothingRead, !.read = {}, !.bulk = NothingRead]
  BY <1>1 DEF Expand, ExpandInOrder, Walk
<1>4. \A k \in 1..Len(found) :
        /\ found[k].issue \in Issue /\ found[k].updated \in Nat /\ found[k].total \in Nat
        /\ found[k].updated <= updated[found[k].issue]
        /\ Whole(found[k].issue, found[k].updated, found[k].total)
  BY <1>0, WalkTypes, WalkHas DEF IInv, FoundInv
<1>5. \A i \in Issue : /\ RowsOf(found, i) \subseteq 1..Len(found)
                       /\ \A k \in RowsOf(found, i) : found[k].issue = i
                       /\ \A k \in Batch(walk) : found[k].issue = i => k \in RowsOf(found, i)
  BY <1>2 DEF RowsOf
<1>6. \A i \in Issue :
        /\ RowsOf(found, i) # {} => Max(RowsOf(found, i)) \in RowsOf(found, i)
        /\ whole(i) # {} => Max(whole(i)) \in whole(i)
  <2> SUFFICES ASSUME NEW i \in Issue
               PROVE  /\ RowsOf(found, i) # {} => Max(RowsOf(found, i)) \in RowsOf(found, i)
                      /\ whole(i) # {} => Max(whole(i)) \in whole(i)
    OBVIOUS
  <2>1. RowsOf(found, i) \in SUBSET (1..Len(found)) /\ whole(i) \in SUBSET (1..Len(found))
    BY <1>5
  <2> HIDE DEF whole, found
  <2> QED BY <1>1, <2>1, MaxIsIn
<1>7. \A k \in 1..Len(found) :
        /\ FromExpand(found[k]) \in Result
        /\ FromExpand(found[k]).complete => FromExpand(found[k]).histories = found[k].total
  <2> SUFFICES ASSUME NEW k \in 1..Len(found)
               PROVE  /\ FromExpand(found[k]) \in Result
                      /\ FromExpand(found[k]).complete => FromExpand(found[k]).histories = found[k].total
    OBVIOUS
  <2> DEFINE t == found[k].total
  <2>1. t \in Nat /\ EmbedMax \in Nat
    BY <1>4, SizeTypes
  <2>2. LowerOf(t, EmbedMax) \in Nat /\ (t <= EmbedMax => LowerOf(t, EmbedMax) = t)
    BY <2>1 DEF LowerOf
  <2>3. (t <= EmbedMax) \in BOOLEAN
    OBVIOUS
  <2>4. FromExpand(found[k]) = [complete |-> t <= EmbedMax, histories |-> LowerOf(t, EmbedMax)]
    BY DEF FromExpand
  <2>5. FromExpand(found[k]) \in Result
    BY <2>2, <2>3, <2>4 DEF Result
  <2>6. FromExpand(found[k]).complete => t <= EmbedMax
    BY DEF FromExpand
  <2>7. FromExpand(found[k]).histories = LowerOf(t, EmbedMax)
    BY <2>4
  <2> QED BY <2>2, <2>5, <2>6, <2>7
<1>8. Tapped(found) \in [Issue -> Nat \cup {-1}]
  <2> SUFFICES ASSUME NEW i \in Issue, RowsOf(found, i) # {}
               PROVE  found[Max(RowsOf(found, i))].updated \in Nat
    BY <1>0, WalkTypes DEF Tapped, IInv
  <2> QED BY <1>4, <1>5, <1>6
<1>9. pending \subseteq 1..Len(found) /\ pending \in SUBSET Nat
  BY <1>2
<1>10. NextTier(pending) \in {"bulk", "single", "yield"} /\ (NextTier(pending) = "yield" <=> pending = {})
  BY DEF NextTier
<1>11. ASSUME NEW i \in Issue, whole(i) # {}
       PROVE  /\ Max(whole(i)) \in 1..Len(found) /\ Max(whole(i)) \in RowsOf(found, i)
              /\ FromExpand(found[Max(whole(i))]).complete
  <2>1. Max(whole(i)) \in whole(i)
    BY <1>6, <1>11
  <2> QED BY <2>1, <1>5
<1> DEFINE resolved == [i \in Issue |-> IF whole(i) = {} THEN walk.resolved[i]
                                        ELSE FromExpand(found[Max(whole(i))])]
<1>12. resolved \in [Issue -> Result]
  <2> SUFFICES ASSUME NEW i \in Issue, whole(i) # {}
               PROVE  FromExpand(found[Max(whole(i))]) \in Result
    BY <1>0, WalkTypes DEF IInv
  <2> QED BY <1>7, <1>11
<1> HIDE DEF resolved, pending
<1>13. walk' = [walk EXCEPT
          !.found = found, !.batchEnd = BatchEnd(walk), !.tapped = Tapped(found),
          !.resolved = resolved, !.pending = pending, !.asked = {}, !.step = NextTier(pending),
          !.got = NothingRead, !.read = {}, !.bulk = NothingRead]
  BY <1>3 DEF resolved, pending
<1>14. walk' \in Walk
  BY <1>1, <1>2, <1>8, <1>9, <1>10, <1>12, <1>13, ArrayTypes DEF Walk
<1>15. /\ walk'.step = NextTier(pending) /\ walk'.found = walk.found /\ walk'.taken = walk.taken
       /\ walk'.batchEnd = BatchEnd(walk) /\ walk'.tapped = Tapped(found)
       /\ walk'.resolved = resolved /\ walk'.pending = pending /\ walk'.asked = {}
       /\ walk'.read = {} /\ walk'.bulk = NothingRead
       /\ walk'.status = walk.status /\ walk'.rows = walk.rows
  BY <1>1, <1>13 DEF Walk
<1>16. YieldedInv' /\ FoundInv'
  BY <1>0, <1>15, WalkHas, JiraSame DEF YieldedInv, FoundInv
<1>17. TappedInv'
  <2> SUFFICES ASSUME NEW i \in Issue PROVE Tapped(found)[i] <= updated[i]
    BY <1>0, <1>15, JiraSame DEF TappedInv
  <2>1. CASE RowsOf(found, i) = {}
    BY <2>1, <1>0, WalkHas DEF Tapped, TappedInv
  <2>2. CASE RowsOf(found, i) # {}
    BY <2>2, <1>4, <1>5, <1>6 DEF Tapped
  <2> QED BY <2>1, <2>2
<1>18. BatchInv'
  <2>1. ASSUME NEW k \in walk.taken + 1 .. BatchEnd(walk)
        PROVE  Tapped(found)[found[k].issue] \in Nat
    <3>1. k \in Batch(walk) /\ k \in 1..Len(found)
      BY <1>2 DEF Batch
    <3>2. found[k].issue \in Issue /\ k \in RowsOf(found, found[k].issue)
      BY <1>4, <1>5, <3>1
    <3>3. Max(RowsOf(found, found[k].issue)) \in 1..Len(found)
      BY <1>5, <1>6, <3>2
    <3> QED BY <1>4, <3>2, <3>3 DEF Tapped
  <2> QED BY <2>1, <1>2, <1>9, <1>15 DEF BatchInv
<1>19. ResolvedInv'
  <2> SUFFICES ASSUME NEW i \in Issue, resolved[i].complete, ~Awaits(i)'
               PROVE  Whole(i, Tapped(found)[i], resolved[i].histories)
    BY <1>0, <1>10, <1>15, JiraSame DEF ResolvedInv
  <2>1. whole(i) # {}
    BY <1>0, WalkHas, ArrayTypes DEF resolved, ResolvedInv
  <2>2. \A p \in pending : found[p].issue # i
    <3> SUFFICES ASSUME NEW p \in pending, found[p].issue = i PROVE FALSE
      OBVIOUS
    <3>1. walk'.step \in {"bulk", "single"}
      BY <1>10, <1>15
    <3>2. p \in walk'.pending /\ p \in Unasked(walk')
      BY <1>15 DEF Unasked
    <3>3. Awaits(i)'
      BY <3>1, <3>2, <1>15 DEF Awaits
    <3> QED BY <3>3
  <2>3. whole(i) = RowsOf(found, i)
    BY <2>2 DEF pending, RowsOf
  <2> DEFINE m == Max(RowsOf(found, i))
  <2>4. m \in 1..Len(found) /\ found[m].issue = i /\ FromExpand(found[m]).complete
    BY <1>5, <1>11, <2>1, <2>3
  <2>5. resolved[i] = FromExpand(found[m]) /\ Tapped(found)[i] = found[m].updated
    BY <2>1, <2>3 DEF resolved, Tapped
  <2> HIDE DEF m
  <2> QED BY <1>4, <1>7, <2>4, <2>5
<1>20. BulkInv'
  BY <1>15, ArrayTypes DEF BulkInv
<1> QED BY <1>0, <1>14, <1>16, <1>17, <1>18, <1>19, <1>20, WalkStepInv

LEMMA BulkPageInv ==
  ASSUME IInv, NEW i \in Issue, BulkPage(i)
  PROVE  IInv'
<1> DEFINE got == LowerOf(walk.got[i] + HistoryPage, Len(histories[i]))
           read == IF got = Len(histories[i]) THEN walk.read \cup {i} ELSE walk.read
<1>0. walk # NoWalk /\ walk.step = "bulk" /\ UNCHANGED <<jira, raw>> /\ i \notin walk.read
  BY DEF BulkPage, NoWalk
<1>1. walk \in Walk /\ walk.got \in [Issue -> Nat] /\ walk.read \in SUBSET Issue
  BY <1>0, WalkTypes DEF IInv
<1>2. got \in Nat /\ Len(histories[i]) \in Nat
  <2>1. walk.got[i] + HistoryPage \in Nat
    BY <1>1, SizeTypes
  <2> QED BY <2>1, Bounds, HistoryTypes DEF IInv
<1>3. walk' = [walk EXCEPT !.got = [walk.got EXCEPT ![i] = got], !.read = read]
  BY <1>1 DEF BulkPage, Walk
<1>4. got = Len(histories[i]) => \A t : Whole(i, t, got)
  BY <1>2 DEF Whole
<1>5. read \in SUBSET Issue /\ (i \in read => got = Len(histories[i]))
  BY <1>0, <1>1
<1>6. \A j \in Issue : j # i /\ j \in read => j \in walk.read
  OBVIOUS
<1> HIDE DEF got, read
<1>7. walk' \in Walk
  BY <1>1, <1>2, <1>3, <1>5 DEF Walk
<1>8. /\ walk'.step = walk.step /\ walk'.found = walk.found /\ walk'.taken = walk.taken
      /\ walk'.batchEnd = walk.batchEnd /\ walk'.tapped = walk.tapped
      /\ walk'.resolved = walk.resolved /\ walk'.pending = walk.pending /\ walk'.asked = walk.asked
      /\ walk'.read = read /\ walk'.got = [walk.got EXCEPT ![i] = got]
      /\ walk'.bulk = walk.bulk /\ walk'.status = walk.status /\ walk'.rows = walk.rows
  BY <1>1, <1>3 DEF Walk
<1>9. YieldedInv' /\ FoundInv' /\ TappedInv' /\ BatchInv'
  BY <1>0, <1>8, WalkHas, JiraSame DEF YieldedInv, FoundInv, TappedInv, BatchInv
<1>10. ResolvedInv'
  BY <1>0, <1>8, WalkHas, JiraSame DEF ResolvedInv, Awaits, Unasked
<1>11. BulkInv'
  <2> SUFFICES ASSUME NEW j \in Issue
               PROVE  /\ j \in read => Whole(j, walk.tapped[j], walk'.got[j])
                      /\ walk.bulk[j] # 0 => Whole(j, walk.tapped[j], walk.bulk[j])
    BY <1>0, <1>8, JiraSame DEF BulkInv
  <2>1. BulkInv
    BY <1>0, WalkHas
  <2>2. ASSUME j \in read PROVE Whole(j, walk.tapped[j], walk'.got[j])
    <3>1. CASE j = i
      BY <2>2, <3>1, <1>1, <1>4, <1>5, <1>8
    <3>2. CASE j # i
      BY <2>1, <2>2, <3>2, <1>0, <1>1, <1>6, <1>8 DEF BulkInv
    <3> QED BY <3>1, <3>2
  <2> QED BY <2>1, <2>2, <1>0 DEF BulkInv
<1> QED BY <1>0, <1>7, <1>9, <1>10, <1>11, WalkStepInv

(* A chunk is done: what it adds to the results is whole.                  *)
LEMMA ChunkDoneInv ==
  ASSUME IInv, walk # NoWalk, walk.step = "bulk", UNCHANGED <<jira, raw>>,
         NEW chunk \in SUBSET walk.pending, NEW bulk \in [Issue -> Nat],
         \A i \in Issue : bulk[i] # 0 => Whole(i, walk.tapped[i], bulk[i]),
         ChunkDone(chunk, bulk)
  PROVE  IInv'
<1> DEFINE asked == walk.asked \cup chunk
           rest  == {p \in walk.pending : bulk[walk.found[p].issue] = 0}
           resolved == [i \in Issue |-> IF bulk[i] = 0 THEN walk.resolved[i]
                                        ELSE [complete |-> TRUE, histories |-> bulk[i]]]
<1>1. /\ walk \in Walk /\ walk.pending \in SUBSET Nat /\ walk.asked \in SUBSET Nat
      /\ walk.resolved \in [Issue -> Result]
  BY WalkTypes DEF IInv
<1>2. BatchInv /\ ResolvedInv /\ walk.pending \subseteq 1..Len(walk.found)
  BY WalkHas DEF BatchInv, InBatch
<1>3. asked \in SUBSET Nat /\ rest \in SUBSET Nat /\ rest \subseteq walk.pending
  BY <1>1
<1>4. resolved \in [Issue -> Result]
  BY <1>1 DEF Result
<1>5. CASE asked # walk.pending
  <2>1. walk' = [walk EXCEPT !.asked = asked, !.bulk = bulk, !.got = NothingRead, !.read = {}]
    BY <1>5 DEF ChunkDone
  <2> HIDE DEF asked
  <2>2. walk' \in Walk
    BY <1>1, <1>3, <2>1, ArrayTypes DEF Walk
  <2>3. /\ walk'.step = walk.step /\ walk'.found = walk.found /\ walk'.taken = walk.taken
        /\ walk'.batchEnd = walk.batchEnd /\ walk'.tapped = walk.tapped
        /\ walk'.resolved = walk.resolved /\ walk'.pending = walk.pending
        /\ walk'.read = {} /\ walk'.bulk = bulk
        /\ walk'.status = walk.status /\ walk'.rows = walk.rows
    BY <1>1, <2>1 DEF Walk
  <2>4. YieldedInv' /\ FoundInv' /\ TappedInv' /\ BatchInv'
    BY <2>3, WalkHas, JiraSame DEF YieldedInv, FoundInv, TappedInv, BatchInv
  <2>5. ResolvedInv'
    BY <2>3, <1>2, JiraSame DEF ResolvedInv, Awaits
  <2>6. BulkInv'
    BY <2>3, JiraSame DEF BulkInv
  <2> QED BY <2>2, <2>4, <2>5, <2>6, WalkStepInv
<1>6. CASE asked = walk.pending
  <2> DEFINE step == IF rest = {} THEN "yield" ELSE "single"
  <2>1. walk' = [walk EXCEPT !.asked = {}, !.bulk = NothingRead, !.got = NothingRead, !.read = {},
                   !.resolved = resolved, !.pending = rest, !.step = step]
    BY <1>1, <1>6 DEF ChunkDone, Walk
  <2>s. step \in {"yield", "single"} /\ (step = "yield" <=> rest = {})
    OBVIOUS
  <2> HIDE DEF rest, resolved, step
  <2>2. walk' \in Walk
    BY <1>1, <1>3, <1>4, <2>1, <2>s, ArrayTypes DEF Walk
  <2>3. /\ walk'.step = step /\ walk'.found = walk.found /\ walk'.taken = walk.taken
        /\ walk'.batchEnd = walk.batchEnd /\ walk'.tapped = walk.tapped
        /\ walk'.resolved = resolved /\ walk'.pending = rest /\ walk'.asked = {}
        /\ walk'.status = walk.status /\ walk'.rows = walk.rows
    BY <1>1, <2>1 DEF Walk
  <2>4. YieldedInv' /\ FoundInv' /\ TappedInv' /\ BulkInv'
    BY <2>3, <2>s, WalkHas, JiraSame DEF YieldedInv, FoundInv, TappedInv, BulkInv
  <2>5. BatchInv'
    BY <2>3, <2>s, <1>2, <1>3 DEF BatchInv, InBatch
  <2>6. ResolvedInv'
    <3> SUFFICES ASSUME NEW i \in Issue, resolved[i].complete, ~Awaits(i)'
                 PROVE  Whole(i, walk.tapped[i], resolved[i].histories)
      BY <2>3, <2>s, JiraSame DEF ResolvedInv
    <3>1. CASE bulk[i] # 0
      BY <3>1 DEF resolved
    <3>2. CASE bulk[i] = 0
      <4>1. resolved[i] = walk.resolved[i]
        BY <3>2 DEF resolved
      <4>2. ~Awaits(i)
        <5> SUFFICES ASSUME NEW p \in walk.pending, walk.found[p].issue = i PROVE FALSE
          BY DEF Awaits
        <5>1. p \in rest
          BY <3>2 DEF rest
        <5>2. Awaits(i)'
          BY <5>1, <2>3, <2>s DEF Awaits, Unasked
        <5> QED BY <5>2
      <4> QED BY <4>1, <4>2, <1>2 DEF ResolvedInv
    <3> QED BY <3>1, <3>2
  <2> QED BY <2>2, <2>4, <2>5, <2>6, WalkStepInv
<1> QED BY <1>5, <1>6

LEMMA BulkEndsInv ==
  ASSUME IInv, BulkEnd \/ BulkRejected \/ BulkUnavailable
  PROVE  IInv'
<1>0. walk # NoWalk /\ walk.step = "bulk" /\ UNCHANGED <<jira, raw>>
  BY DEF BulkEnd, BulkRejected, BulkUnavailable, NoWalk
<1>1. /\ BulkInv /\ walk.bulk \in [Issue -> Nat] /\ walk.got \in [Issue -> Nat]
      /\ Chunk(walk) \in SUBSET walk.pending /\ Unasked(walk) \in SUBSET walk.pending
  BY <1>0, WalkTypes, WalkHas DEF Chunk, Unasked, IInv
<1>2. CASE BulkEnd
  <2> DEFINE bulk == [i \in Issue |-> IF i \in walk.read THEN walk.got[i] ELSE walk.bulk[i]]
  <2>1. bulk \in [Issue -> Nat]
    BY <1>1
  <2>2. \A i \in Issue : bulk[i] # 0 => Whole(i, walk.tapped[i], bulk[i])
    BY <1>0, <1>1 DEF BulkInv
  <2>3. ChunkDone(Chunk(walk), bulk)
    BY <1>2 DEF BulkEnd
  <2> HIDE DEF bulk
  <2> QED BY <1>0, <1>1, <2>1, <2>2, <2>3, ChunkDoneInv
<1>3. \A i \in Issue : walk.bulk[i] # 0 => Whole(i, walk.tapped[i], walk.bulk[i])
  BY <1>0, <1>1 DEF BulkInv
<1>4. CASE BulkRejected
  BY <1>0, <1>1, <1>3, <1>4, ChunkDoneInv DEF BulkRejected
<1>5. CASE BulkUnavailable
  BY <1>0, <1>1, <1>3, <1>5, ChunkDoneInv DEF BulkUnavailable
<1> QED BY <1>2, <1>4, <1>5

(* An issue is dealt with: its result is whole, or not complete.           *)
LEMMA SingleDoneInv ==
  ASSUME IInv, walk # NoWalk, walk.step = "single", UNCHANGED <<jira, raw>>,
         NEW p \in Unasked(walk), NEW result \in Result,
         result.complete => Whole(walk.found[p].issue, walk.tapped[walk.found[p].issue], result.histories),
         SingleDone(p, result)
  PROVE  IInv'
<1> DEFINE all == Unasked(walk) = {p}
           i == walk.found[p].issue
           resolved == [walk.resolved EXCEPT ![i] = result]
           pending == IF all THEN {} ELSE walk.pending
           asked == IF all THEN {} ELSE walk.asked \cup {p}
           step == IF all THEN "yield" ELSE "single"
<1>1. /\ walk \in Walk /\ walk.pending \in SUBSET Nat /\ walk.asked \in SUBSET Nat
      /\ walk.resolved \in [Issue -> Result]
  BY WalkTypes DEF IInv
<1>2. BatchInv /\ ResolvedInv /\ walk.pending \subseteq 1..Len(walk.found)
  BY WalkHas DEF BatchInv, InBatch
<1>3. p \in Nat /\ i \in Issue
  <2>1. p \in 1..Len(walk.found)
    BY <1>2 DEF Unasked
  <2> QED BY <2>1, WalkTypes DEF IInv
<1>4. resolved \in [Issue -> Result]
  BY <1>1, <1>3
<1>5. /\ pending \in SUBSET Nat /\ pending \subseteq walk.pending /\ asked \in SUBSET Nat
      /\ step \in {"yield", "single"}
      /\ step = "yield" => Unasked(walk) = {p}
      /\ step = "single" => pending = walk.pending /\ asked = walk.asked \cup {p}
  BY <1>1, <1>3
<1>6. walk' = [walk EXCEPT !.resolved = resolved, !.pending = pending, !.asked = asked,
                 !.got = NothingRead, !.step = step]
  BY <1>1 DEF SingleDone, Walk
<1>7. \A j \in Issue : resolved[j] = IF j = i THEN result ELSE walk.resolved[j]
  BY <1>1
<1> HIDE DEF resolved, pending, asked, step
<1>8. walk' \in Walk
  BY <1>1, <1>4, <1>5, <1>6, ArrayTypes DEF Walk
<1>9. /\ walk'.step = step /\ walk'.found = walk.found /\ walk'.taken = walk.taken
      /\ walk'.batchEnd = walk.batchEnd /\ walk'.tapped = walk.tapped
      /\ walk'.resolved = resolved /\ walk'.pending = pending /\ walk'.asked = asked
      /\ walk'.status = walk.status /\ walk'.rows = walk.rows
  BY <1>1, <1>6 DEF Walk
<1>10. YieldedInv' /\ FoundInv' /\ TappedInv' /\ BulkInv'
  BY <1>5, <1>9, WalkHas, JiraSame DEF YieldedInv, FoundInv, TappedInv, BulkInv
<1>11. BatchInv'
  BY <1>2, <1>5, <1>9 DEF BatchInv, InBatch
<1>12. ResolvedInv'
  <2> SUFFICES ASSUME NEW j \in Issue, resolved[j].complete, ~Awaits(j)'
               PROVE  Whole(j, walk.tapped[j], resolved[j].histories)
    BY <1>5, <1>9, JiraSame DEF ResolvedInv
  <2>1. CASE j = i
    BY <2>1, <1>7
  <2>2. CASE j # i
    <3>1. ~Awaits(j)
      <4> SUFFICES ASSUME NEW q \in Unasked(walk), walk.found[q].issue = j PROVE FALSE
        BY DEF Awaits
      <4>1. q # p
        BY <2>2
      <4>2. step = "single"
        BY <4>1, <1>5
      <4>3. q \in pending \ asked
        BY <4>1, <4>2, <1>5 DEF Unasked
      <4>4. Awaits(j)'
        BY <4>2, <4>3, <1>9 DEF Awaits, Unasked
      <4> QED BY <4>4
    <3> QED BY <2>2, <3>1, <1>2, <1>7 DEF ResolvedInv
  <2> QED BY <2>1, <2>2
<1> QED BY <1>8, <1>10, <1>11, <1>12, WalkStepInv

LEMMA SinglePageInv ==
  ASSUME IInv, SinglePage
  PROVE  IInv'
<1>0. walk # NoWalk /\ walk.step = "single" /\ UNCHANGED <<jira, raw>>
  BY DEF SinglePage, NoWalk
<1>1. walk \in Walk /\ walk.got \in [Issue -> Nat]
  BY <1>0, WalkTypes DEF IInv
<1> DEFINE i(p) == walk.found[p].issue
           got(p) == LowerOf(walk.got[i(p)] + HistoryPage, Len(histories[i(p)]))
<1>2. PICK p \in Unasked(walk) :
        IF got(p) < Len(histories[i(p)])
        THEN walk' = [walk EXCEPT !.got[i(p)] = got(p)]
        ELSE SingleDone(p, [complete |-> TRUE, histories |-> got(p)])
  BY DEF SinglePage
<1>3. i(p) \in Issue
  <2>1. p \in 1..Len(walk.found)
    BY <1>0, WalkHas DEF Unasked, BatchInv, InBatch
  <2> QED BY <2>1, <1>0, WalkTypes DEF IInv
<1>4. got(p) \in Nat /\ got(p) <= Len(histories[i(p)]) /\ Len(histories[i(p)]) \in Nat
  <2>1. walk.got[i(p)] + HistoryPage \in Nat
    BY <1>1, <1>3, SizeTypes
  <2>2. Len(histories[i(p)]) \in Nat
    BY <1>3, HistoryTypes DEF IInv
  <2> QED BY <2>1, <2>2, Bounds
<1> HIDE DEF got
<1>5. CASE got(p) < Len(histories[i(p)])
  <2>1. walk' = [walk EXCEPT !.got = [walk.got EXCEPT ![i(p)] = got(p)]]
    BY <1>1, <1>2, <1>5 DEF Walk
  <2> HIDE DEF i
  <2>2. walk' \in Walk
    BY <1>1, <1>3, <1>4, <2>1 DEF Walk
  <2>3. /\ walk'.step = walk.step /\ walk'.found = walk.found /\ walk'.taken = walk.taken
        /\ walk'.batchEnd = walk.batchEnd /\ walk'.tapped = walk.tapped
        /\ walk'.resolved = walk.resolved /\ walk'.pending = walk.pending /\ walk'.asked = walk.asked
        /\ walk'.status = walk.status /\ walk'.rows = walk.rows
    BY <1>1, <2>1 DEF Walk
  <2>4. YieldedInv' /\ FoundInv' /\ TappedInv' /\ BatchInv' /\ BulkInv'
    BY <1>0, <2>3, WalkHas, JiraSame DEF YieldedInv, FoundInv, TappedInv, BatchInv, BulkInv
  <2>5. ResolvedInv'
    BY <1>0, <2>3, WalkHas, JiraSame DEF ResolvedInv, Awaits, Unasked
  <2> QED BY <1>0, <2>2, <2>4, <2>5, WalkStepInv
<1>6. CASE ~(got(p) < Len(histories[i(p)]))
  <2> DEFINE result == [complete |-> TRUE, histories |-> got(p)]
  <2>1. SingleDone(p, result)
    BY <1>2, <1>6
  <2>2. result \in Result /\ result.histories = got(p)
    BY <1>4 DEF Result
  <2>3. Whole(i(p), walk.tapped[i(p)], got(p))
    BY <1>4, <1>6 DEF Whole
  <2> HIDE DEF result
  <2> QED BY <1>0, <2>1, <2>2, <2>3, SingleDoneInv
<1> QED BY <1>5, <1>6

LEMMA SingleMissingInv ==
  ASSUME IInv, SingleMissing
  PROVE  IInv'
<1> DEFINE result == [complete |-> FALSE, histories |-> 0]
<1>1. walk # NoWalk /\ walk.step = "single" /\ UNCHANGED <<jira, raw>>
  BY DEF SingleMissing, NoWalk
<1>2. PICK p \in Unasked(walk) : SingleDone(p, result)
  BY DEF SingleMissing
<1>3. result \in Result /\ ~result.complete
  BY DEF Result
<1> HIDE DEF result
<1> QED BY <1>1, <1>2, <1>3, SingleDoneInv

LEMMA YieldInv ==
  ASSUME IInv, Yield
  PROVE  IInv'
<1> DEFINE k == walk.taken + 1
           i == walk.found[k].issue
           r == walk.resolved[i]
           new == [updated |-> walk.tapped[i], complete |-> r.complete]
           resolved == IF k = walk.batchEnd THEN Unresolved ELSE walk.resolved
           step == IF k = walk.batchEnd THEN "search" ELSE "yield"
           n == HigherOf(walk.rows[i], r.histories)
<1>0. walk # NoWalk /\ walk.step = "yield" /\ UNCHANGED <<jira, raw>>
  BY DEF Yield, NoWalk
<1>1. /\ walk \in Walk /\ walk.taken \in Nat /\ walk.batchEnd \in Nat /\ Len(walk.found) \in Nat
      /\ walk.count \in Nat /\ walk.high \in Nat
      /\ walk.resolved \in [Issue -> Result]
      /\ walk.status \in [Issue -> StatusRow \cup {None}] /\ walk.rows \in [Issue -> Nat]
  BY <1>0, WalkTypes DEF IInv
<1>2. YieldedInv /\ FoundInv /\ TappedInv /\ BatchInv /\ ResolvedInv
  BY <1>0, WalkHas
<1>3. /\ walk.taken < walk.batchEnd /\ walk.batchEnd <= Len(walk.found)
      /\ \A l \in walk.taken + 1 .. walk.batchEnd : walk.tapped[walk.found[l].issue] \in Nat
  BY <1>0, <1>2 DEF BatchInv, InBatch
<1>4. k \in walk.taken + 1 .. walk.batchEnd /\ k \in 1..Len(walk.found) /\ k \in Nat
  BY <1>1, <1>3
<1>5. i \in Issue /\ walk.tapped[i] \in Nat
  BY <1>0, <1>3, <1>4, WalkTypes DEF IInv
<1>6. r.complete \in BOOLEAN /\ r.histories \in Nat /\ walk.rows[i] \in Nat
  BY <1>1, <1>5 DEF Result
<1>7. n \in Nat /\ walk.rows[i] <= n /\ r.histories <= n /\ HigherOf(walk.high, new.updated) \in Nat
  BY <1>1, <1>5, <1>6, Bounds
<1>8. new \in StatusRow
  BY <1>5, <1>6 DEF StatusRow
<1>9. r.complete => Whole(i, walk.tapped[i], r.histories)
  BY <1>0, <1>2, <1>5 DEF ResolvedInv, Awaits
<1>10. PICK s \in {new} \cup ({walk.status[i]} \ {None}) :
         walk' = [walk EXCEPT
           !.status[i] = s, !.rows[i] = n, !.high = HigherOf(@, new.updated),
           !.count = @ + 1, !.taken = k, !.resolved = resolved, !.step = step]
  BY <1>1 DEF Yield, Walk
<1>11. s \in StatusRow \cup {None}
  BY <1>1, <1>5, <1>8, <1>10
<1> DEFINE high == HigherOf(walk.high, new.updated)
<1>12. walk' = [walk EXCEPT
         !.status = [walk.status EXCEPT ![i] = s], !.rows = [walk.rows EXCEPT ![i] = n],
         !.high = high, !.count = walk.count + 1, !.taken = k, !.resolved = resolved, !.step = step]
  BY <1>1, <1>10 DEF Walk
<1>13. /\ resolved \in [Issue -> Result] /\ step \in {"search", "yield"}
       /\ step = "search" => resolved = Unresolved
       /\ step = "yield" => k # walk.batchEnd
       /\ \A j \in Issue : resolved[j].complete => resolved = walk.resolved
  BY <1>1, ArrayTypes
<1>14. \A m \in Nat : m <= n => \A t : Whole(i, t, m) => Whole(i, t, n)
  <2> SUFFICES ASSUME NEW m \in Nat, m <= n, NEW t, Whole(i, t, m),
                      NEW l \in 1..Len(histories[i]), histories[i][l].at <= t
               PROVE  l <= n
    BY DEF Whole
  <2>1. l <= m
    BY DEF Whole
  <2>2. l \in Nat
    BY <1>5, HistoryTypes DEF IInv
  <2> HIDE DEF n
  <2> QED BY <1>7, <2>1, <2>2
<1>15. RowOK(i, new, n)
  BY <1>2, <1>5, <1>6, <1>7, <1>9, <1>14 DEF RowOK, TappedInv
<1>16. RowOK(i, walk.status[i], n)
  BY <1>2, <1>5, <1>6, <1>7, <1>14 DEF RowOK, YieldedInv
<1>17. RowOK(i, s, n)
  BY <1>10, <1>15, <1>16
<1> HIDE DEF k, i, r, new, resolved, step, n, high
<1>18. walk' \in Walk
  <2>1. high \in Nat
    BY <1>7 DEF high
  <2>2. /\ [walk.status EXCEPT ![i] = s] \in [Issue -> StatusRow \cup {None}]
        /\ [walk.rows EXCEPT ![i] = n] \in [Issue -> Nat]
    BY <1>1, <1>5, <1>7, <1>11
  <2>3. walk.count + 1 \in Nat
    BY <1>1
  <2> QED BY <2>1, <2>2, <2>3, <1>1, <1>4, <1>12, <1>13 DEF Walk
<1>19. /\ walk'.step = step /\ walk'.found = walk.found /\ walk'.taken = k
       /\ walk'.batchEnd = walk.batchEnd /\ walk'.tapped = walk.tapped
       /\ walk'.resolved = resolved
       /\ walk'.status = [walk.status EXCEPT ![i] = s] /\ walk'.rows = [walk.rows EXCEPT ![i] = n]
  BY <1>1, <1>12 DEF Walk
<1>20. FoundInv' /\ TappedInv' /\ BulkInv'
  BY <1>2, <1>13, <1>19, <1>0, JiraSame DEF FoundInv, TappedInv, BulkInv
<1>21. YieldedInv'
  <2> SUFFICES ASSUME NEW j \in Issue PROVE RowOK(j, walk'.status[j], walk'.rows[j])
    BY <1>0, JiraSame DEF YieldedInv
  <2>1. CASE j = i
    BY <2>1, <1>1, <1>17, <1>19
  <2>2. CASE j # i
    BY <2>2, <1>1, <1>2, <1>19 DEF YieldedInv
  <2> QED BY <2>1, <2>2
<1>22. BatchInv'
  <2> SUFFICES ASSUME step = "yield"
               PROVE  /\ k < walk.batchEnd /\ walk.batchEnd <= Len(walk.found)
                      /\ \A l \in k + 1 .. walk.batchEnd : walk.tapped[walk.found[l].issue] \in Nat
    BY <1>13, <1>19 DEF BatchInv, InBatch
  <2> QED BY <1>1, <1>3, <1>4, <1>13 DEF k
<1>23. ResolvedInv'
  <2>1. ASSUME NEW j \in Issue, resolved[j].complete
        PROVE  Whole(j, walk.tapped[j], resolved[j].histories)
    BY <2>1, <1>0, <1>2, <1>13 DEF ResolvedInv, Awaits
  <2> QED BY <2>1, <1>0, <1>13, <1>19, JiraSame DEF ResolvedInv
<1> QED BY <1>0, <1>18, <1>20, <1>21, <1>22, <1>23, WalkStepInv

LEMMA NextIInv == IInv /\ [Next]_vars => IInv'
<1> SUFFICES ASSUME IInv, [Next]_vars PROVE IInv'
  OBVIOUS
<1>1. CASE Tick
  BY <1>1, OtherInv
<1>2. ASSUME NEW i \in Issue, LoadIssue(i) PROVE IInv'
  BY <1>2, OtherInv
<1>3. ASSUME NEW i \in Issue, NEW tos \in Targets, Edit(i, tos) PROVE IInv'
  BY <1>3, EditInv
<1>4. ASSUME NEW limit \in Limits, StartWalk(limit) PROVE IInv'
  BY <1>4, StartWalkInv
<1>5. CASE WalkStep
  BY <1>5, SearchPageInv, ExpandInv, BulkPageInv, BulkEndsInv, SinglePageInv, SingleMissingInv,
     YieldInv, FinishInv DEF WalkStep
<1>6. CASE Fail
  BY <1>6, FailInv
<1>7. CASE UNCHANGED vars
  <2>1. UNCHANGED <<isCloud, now, updated, histories, walk, cursor, rows, status, issues>>
    BY <1>7 DEF vars, jira, raw
  <2>2. \A i, t, n : Whole(i, t, n)' <=> Whole(i, t, n)
    BY <2>1 DEF Whole
  <2> QED BY <2>1, <2>2 DEF IInv, TypeOK, HistoryInv, ClockInv, StoredInv, RowOK, WalkInv, YieldedInv,
             FoundInv, TappedInv, BatchInv, ResolvedInv, Awaits, Unasked, BulkInv
<1> QED BY <1>1, <1>2, <1>3, <1>4, <1>5, <1>6, <1>7 DEF Next

LEMMA CompleteOfIInv == IInv => CompleteIsWhole
  BY DEF IInv, StoredInv, RowOK, Whole, CompleteIsWhole

LEMMA Inductive == Spec => []IInv
  BY InitIInv, NextIInv, PTL DEF Spec

(* Jira's state, the walk and the tables have their types, whatever the    *)
(* sizes: a batch holds only rows that the search found, and every issue   *)
(* that is yielded has the stamp _tap saw.                                 *)
THEOREM TypeCorrect == Spec => []TypeOK
<1>1. IInv => TypeOK
  BY DEF IInv
<1> QED BY <1>1, Inductive, PTL

(* "a chunk is only returned once all of its pages are in": whatever tier  *)
(* answers, for any number of issues, histories and pages, and whatever is *)
(* rejected, missing or edited meanwhile, a changelog that is recorded as  *)
(* complete holds every history the issue had at the stamp recorded.       *)
THEOREM CompleteChangelogsAreWhole == Spec => []CompleteIsWhole
  BY CompleteOfIInv, Inductive, PTL

-----------------------------------------------------------------------------
(* The limit.  A batch is a page: pages are as large as batches, and full. *)
PagesAreBatches == PageSize = BatchSize /\ ~ShortPages

(* What the search yields is in the order of stamps.                       *)
SortedInv ==
  \A k, l \in 1..Len(walk.found) : k < l => walk.found[k].updated <= walk.found[l].updated

(* The rows found and not yielded are those of one page.                   *)
PageInv ==
  /\ walk.taken <= Len(walk.found)
  /\ walk.step \in InBatch => walk.batchEnd = Len(walk.found)
  /\ walk.step = "search" =>
       /\ Len(walk.found) <= walk.taken + BatchSize
       /\ walk.last \/ Len(walk.found) = walk.taken \/ Len(walk.found) = walk.taken + BatchSize

(* So an issue is in it once, and tapped as it was found.                  *)
OnceInv ==
  /\ \A k, l \in walk.taken + 1 .. Len(walk.found) :
       walk.found[k].issue = walk.found[l].issue => k = l
  /\ walk.step \in InBatch =>
       \A k \in walk.taken + 1 .. Len(walk.found) :
         walk.tapped[walk.found[k].issue] = walk.found[k].updated

HighInv ==
  /\ \A k \in walk.taken + 1 .. Len(walk.found) : walk.high <= walk.found[k].updated
  /\ \A k \in 1..Len(walk.found) : k = Len(walk.found) => walk.high <= walk.found[k].updated
  /\ walk.found = << >> => walk.high = 0

LimitInv == walk # NoWalk => SortedInv /\ PageInv /\ OnceInv /\ HighInv

(* Steps of the tiers.                                                     *)
LEMMA LimitTiers ==
  ASSUME LimitInv, walk # NoWalk, walk.step \in InBatch, walk'.step \in InBatch,
         walk'.found = walk.found, walk'.taken = walk.taken, walk'.batchEnd = walk.batchEnd,
         walk'.tapped = walk.tapped, walk'.high = walk.high
  PROVE  LimitInv'
BY DEF LimitInv, SortedInv, PageInv, OnceInv, HighInv, InBatch

LEMMA LimitStart ==
  ASSUME NEW limit \in Limits, StartWalk(limit)
  PROVE  LimitInv'
<1>1. walk'.found = << >> /\ walk'.taken = 0 /\ walk'.step = "search" /\ walk'.high = 0
  BY DEF StartWalk
<1>2. Len(walk'.found) = 0
  BY <1>1
<1> QED BY <1>1, <1>2, SizeTypes DEF LimitInv, SortedInv, PageInv, OnceInv, HighInv, InBatch

LEMMA LimitSearch ==
  ASSUME PagesAreBatches, IInv, LimitInv, SearchPage
  PROVE  LimitInv'
<1> DEFINE ahead == Ahead(walk)
           full  == LowerOf(PageSize, Cardinality(ahead))
<1>0. walk # NoWalk /\ walk.step = "search" /\ ~walk.last /\ Len(walk.found) < walk.taken + BatchSize
  BY DEF SearchPage, NoWalk
<1>1. /\ walk \in Walk /\ walk.found \in Seq(FoundRow) /\ Len(walk.found) \in Nat /\ walk.taken \in Nat
      /\ walk.high \in Nat /\ \A k \in 1..Len(walk.found) : walk.found[k].updated \in Nat
  BY <1>0, WalkTypes DEF IInv
<1>2. SortedInv /\ PageInv /\ OnceInv /\ HighInv /\ Len(walk.found) = walk.taken
  BY <1>0, <1>1 DEF LimitInv, PageInv
<1>3. ahead \subseteq Issue /\ Cardinality(ahead) \in Nat
  <2>1. ahead \subseteq Issue
    BY DEF Ahead
  <2> QED BY <2>1, IssueType, FS_Subset, FS_CardinalityType
<1>4. full \in Nat /\ full <= BatchSize /\ (full = Cardinality(ahead) \/ full = BatchSize)
  BY <1>3, SizeTypes DEF PagesAreBatches, LowerOf
<1> HIDE DEF full
<1>5. PICK page \in [1..full -> ahead] :
        /\ \A k, l \in 1..full : k < l => Before(page[k], page[l])
        /\ walk' = [walk EXCEPT
             !.found = @ \o [k \in 1..full |-> [issue |-> page[k], updated |-> updated[page[k]],
                                                total |-> Len(histories[page[k]])]],
             !.last = (full = Cardinality(ahead))]
  <2> DEFINE sizes == IF isCloud /\ ShortPages /\ full > 0 THEN 1..full ELSE {full}
  <2>1. sizes = {full}
    BY DEF PagesAreBatches
  <2>2. PICK size \in sizes : \E page \in [1..size -> ahead] :
          /\ \A k, l \in 1..size : k < l => Before(page[k], page[l])
          /\ walk' = [walk EXCEPT
               !.found = @ \o [k \in 1..size |-> [issue |-> page[k], updated |-> updated[page[k]],
                                                  total |-> Len(histories[page[k]])]],
               !.last = (size = Cardinality(ahead))]
    <3> HIDE DEF ahead
    <3> USE DEF full
    <3> QED BY Zenon DEF SearchPage, ahead
  <2>3. size = full
    BY <2>1, <2>2
  <2> QED BY <2>2, <2>3
<1> DEFINE new == [k \in 1..full |-> [issue |-> page[k], updated |-> updated[page[k]],
                                      total |-> Len(histories[page[k]])]]
           found == walk.found \o new
<1>6. \A k \in 1..full : /\ page[k] \in Issue /\ page[k] \in ahead /\ updated[page[k]] \in Nat
                         /\ Len(histories[page[k]]) \in Nat
  BY <1>3, HistoryTypes DEF IInv
<1>7. \A k, l \in 1..full : k < l => updated[page[k]] <= updated[page[l]] /\ page[k] # page[l]
  <2> SUFFICES ASSUME NEW k \in 1..full, NEW l \in 1..full, k < l
               PROVE  updated[page[k]] <= updated[page[l]] /\ page[k] # page[l]
    OBVIOUS
  <2>1. Before(page[k], page[l]) /\ page[k] \in Nat /\ page[l] \in Nat
    BY <1>5, <1>6, IssueType
  <2> QED BY <2>1, <1>6 DEF Before
<1>8. /\ new \in Seq(FoundRow) /\ Len(new) = full
      /\ \A k \in 1..full : new[k].issue = page[k] /\ new[k].updated = updated[page[k]]
  <2>1. \A k \in 1..full : new[k] \in FoundRow
    BY <1>6 DEF FoundRow
  <2> QED BY <2>1, <1>4
<1> HIDE DEF new
<1> DEFINE size == Len(walk.found)
<1>9. /\ found \in Seq(FoundRow) /\ Len(found) = size + full
      /\ \A k \in 1..size + full : found[k] = IF k <= size THEN walk.found[k] ELSE new[k - size]
  <2> DEFINE R == FoundRow
  <2>1. walk.found \in Seq(R) /\ new \in Seq(R)
    BY <1>1, <1>8
  <2> HIDE DEF R
  <2>2. \A a, b \in Seq(R) :
          /\ a \o b \in Seq(R) /\ Len(a \o b) = Len(a) + Len(b)
          /\ \A k \in 1..Len(a) + Len(b) : (a \o b)[k] = IF k <= Len(a) THEN a[k] ELSE b[k - Len(a)]
    BY ConcatProperties
  <2> USE DEF R
  <2> QED BY <2>1, <2>2, <1>8
<1>10. /\ walk' = [walk EXCEPT !.found = found, !.last = (full = Cardinality(ahead))]
  BY <1>5 DEF new
<1> HIDE DEF found, ahead
<1>11. /\ walk'.found = found /\ walk'.last = (full = Cardinality(ahead))
       /\ walk'.taken = walk.taken /\ walk'.high = walk.high /\ walk'.step = "search"
  BY <1>0, <1>1, <1>10 DEF Walk
<1>12. \A k \in 1..size : found[k] = walk.found[k]
  BY <1>1, <1>4, <1>9
<1>13. \A k \in size + 1 .. size + full :
         /\ k - size \in 1..full
         /\ found[k].issue = page[k - size] /\ found[k].updated = updated[page[k - size]]
  BY <1>1, <1>4, <1>8, <1>9
<1>14. size # 0 => \A j \in ahead : walk.found[size].updated <= updated[j]
  BY <1>1 DEF Ahead, Last, ahead
<1>15. \A k \in 1..size : \A l \in 1..full : walk.found[k].updated <= updated[page[l]]
  <2> SUFFICES ASSUME NEW k \in 1..size, NEW l \in 1..full
               PROVE  walk.found[k].updated <= updated[page[l]]
    OBVIOUS
  <2>1. walk.found[k].updated <= walk.found[size].updated
    BY <1>1, <1>2 DEF SortedInv
  <2> QED BY <1>1, <1>6, <1>14, <2>1
<1>16. \A l \in 1..full : walk.high <= updated[page[l]]
  <2> SUFFICES ASSUME NEW l \in 1..full PROVE walk.high <= updated[page[l]]
    OBVIOUS
  <2>1. CASE size = 0
    BY <2>1, <1>1, <1>2, <1>6 DEF HighInv
  <2>2. CASE size # 0
    BY <2>2, <1>1, <1>2, <1>6, <1>15 DEF HighInv
  <2> QED BY <2>1, <2>2
<1> HIDE DEF size
<1>17. size \in Nat /\ walk.taken = size /\ Len(found) = size + full
  BY <1>1, <1>2, <1>9 DEF size
<1>18. SortedInv'
  <2> SUFFICES ASSUME NEW k \in 1..size + full, NEW l \in 1..size + full, k < l
               PROVE  found[k].updated <= found[l].updated
    BY <1>11, <1>17 DEF SortedInv
  <2>1. CASE l <= size
    BY <2>1, <1>2, <1>12, <1>17 DEF SortedInv, size
  <2>2. CASE l > size /\ k <= size
    BY <2>2, <1>12, <1>13, <1>15, <1>4, <1>17
  <2>3. CASE k > size
    <3>1. /\ k \in size + 1 .. size + full /\ l \in size + 1 .. size + full
          /\ k - size < l - size
      BY <2>3, <1>4, <1>17
    <3>2. /\ k - size \in 1..full /\ l - size \in 1..full
          /\ found[k].updated = updated[page[k - size]]
          /\ found[l].updated = updated[page[l - size]]
      BY <3>1, <1>13
    <3> QED BY <3>1, <3>2, <1>7
  <2> QED BY <2>1, <2>2, <2>3, <1>4, <1>17
<1>19. PageInv'
  <2>1. walk'.step \notin InBatch
    BY <1>11 DEF InBatch
  <2>2. walk'.last \/ full = BatchSize
    BY <1>4, <1>11
  <2>3. /\ size <= Len(found) /\ Len(found) <= size + BatchSize
        /\ full = BatchSize => Len(found) = size + BatchSize
    BY <1>4, <1>17, SizeTypes
  <2> QED BY <2>1, <2>2, <2>3, <1>11, <1>17 DEF PageInv
<1>20. OnceInv'
  <2> SUFFICES ASSUME NEW k \in size + 1 .. size + full, NEW l \in size + 1 .. size + full,
                      found[k].issue = found[l].issue
               PROVE  k = l
    BY <1>11, <1>17 DEF OnceInv, InBatch
  <2>1. page[k - size] = page[l - size] /\ k - size \in 1..full /\ l - size \in 1..full
    BY <1>13
  <2> QED BY <2>1, <1>7, <1>4, <1>17
<1>21. HighInv'
  <2>1. \A k \in size + 1 .. size + full : walk.high <= found[k].updated
    BY <1>13, <1>16
  <2>2. ASSUME full = 0 PROVE found = walk.found
    BY <2>2, <1>1, <1>9, <1>12, <1>17 DEF size
  <2>3. CASE full = 0
    BY <2>1, <2>2, <2>3, <1>2, <1>11, <1>17 DEF HighInv
  <2>4. CASE full # 0
    <3>1. size + full \in size + 1 .. size + full /\ found # << >>
      BY <2>4, <1>4, <1>17
    <3> QED BY <2>1, <3>1, <1>11, <1>17 DEF HighInv
  <2> QED BY <2>3, <2>4
<1> QED BY <1>18, <1>19, <1>20, <1>21 DEF LimitInv

LEMMA LimitExpand ==
  ASSUME PagesAreBatches, IInv, LimitInv, Expand
  PROVE  LimitInv'
<1> DEFINE found == walk.found
<1>0. /\ walk # NoWalk /\ walk.step = "search"
      /\ walk.last \/ Len(found) >= walk.taken + BatchSize
  BY DEF Expand, ExpandInOrder, NoWalk
<1>1. /\ walk \in Walk /\ Len(found) \in Nat /\ walk.taken \in Nat
      /\ \A k \in 1..Len(found) : found[k].issue \in Issue
  BY <1>0, WalkTypes DEF IInv
<1>2. SortedInv /\ PageInv /\ OnceInv /\ HighInv
  BY <1>0 DEF LimitInv
<1>3. BatchEnd(walk) = Len(found)
  BY <1>0, <1>1, <1>2, SizeTypes DEF BatchEnd, LowerOf, PageInv
<1>4. /\ walk'.found = found /\ walk'.taken = walk.taken /\ walk'.batchEnd = Len(found)
      /\ walk'.tapped = Tapped(found) /\ walk'.high = walk.high /\ walk'.step \in InBatch
  BY <1>1, <1>3 DEF Expand, ExpandInOrder, Walk, NextTier, InBatch
<1>5. ASSUME NEW k \in walk.taken + 1 .. Len(found)
      PROVE  Tapped(found)[found[k].issue] = found[k].updated
  <2> DEFINE i == found[k].issue
  <2>1. k \in 1..Len(found) /\ i \in Issue /\ k \in Nat
    BY <1>1
  <2>2. RowsOf(found, i) = {k}
    BY <1>2, <1>3, <2>1 DEF RowsOf, Batch, OnceInv
  <2>3. Max({k}) = k
    <3>1. Max({k}) \in {k}
      <4> DEFINE n == Len(found)
      <4>1. n \in Nat /\ {k} \in SUBSET (1..n) /\ {k} # {}
        BY <1>1, <2>1
      <4> HIDE DEF n
      <4> QED BY <4>1, MaxIsIn
    <3> QED BY <3>1
  <2> QED BY <2>1, <2>2, <2>3 DEF Tapped
<1>6. SortedInv' /\ PageInv' /\ HighInv'
  BY <1>1, <1>2, <1>4 DEF SortedInv, PageInv, HighInv, InBatch
<1>7. OnceInv'
  BY <1>2, <1>4, <1>5 DEF OnceInv
<1> QED BY <1>6, <1>7 DEF LimitInv

LEMMA LimitYield ==
  ASSUME PagesAreBatches, IInv, LimitInv, Yield
  PROVE  LimitInv'
<1> DEFINE k == walk.taken + 1
           stamp == walk.tapped[walk.found[k].issue]
<1>0. walk # NoWalk /\ walk.step = "yield"
  BY DEF Yield, NoWalk
<1>1. /\ walk \in Walk /\ walk.taken \in Nat /\ walk.batchEnd \in Nat /\ Len(walk.found) \in Nat
      /\ walk.high \in Nat /\ \A l \in 1..Len(walk.found) : walk.found[l].updated \in Nat
  BY <1>0, WalkTypes DEF IInv
<1>2. SortedInv /\ PageInv /\ OnceInv /\ HighInv
  BY <1>0 DEF LimitInv
<1>3. BatchInv
  BY <1>0, WalkHas
<1>4. k \in walk.taken + 1 .. Len(walk.found) /\ k \in 1..Len(walk.found)
      /\ walk.batchEnd = Len(walk.found)
  BY <1>0, <1>1, <1>2, <1>3 DEF BatchInv, PageInv, InBatch
<1>5. stamp = walk.found[k].updated
  BY <1>0, <1>2, <1>4 DEF OnceInv, InBatch
<1>6. /\ walk'.found = walk.found /\ walk'.taken = k /\ walk'.batchEnd = walk.batchEnd
      /\ walk'.tapped = walk.tapped /\ walk'.last = walk.last
      /\ walk'.high = HigherOf(walk.high, stamp)
      /\ walk'.step = IF k = walk.batchEnd THEN "search" ELSE "yield"
  BY <1>1 DEF Yield, Walk
<1>7. \A l \in k..Len(walk.found) : HigherOf(walk.high, stamp) <= walk.found[l].updated
  <2> SUFFICES ASSUME NEW l \in k..Len(walk.found)
               PROVE  HigherOf(walk.high, stamp) <= walk.found[l].updated
    OBVIOUS
  <2>1. l \in walk.taken + 1 .. Len(walk.found) /\ l \in 1..Len(walk.found)
    BY <1>1
  <2>2. walk.high <= walk.found[l].updated
    BY <1>2, <2>1 DEF HighInv
  <2>3. stamp <= walk.found[l].updated
    BY <1>1, <1>2, <1>4, <1>5, <2>1 DEF SortedInv
  <2> QED BY <2>2, <2>3 DEF HigherOf
<1> HIDE DEF k, stamp
<1>8. k = walk.taken + 1
  BY DEF k
<1>9. SortedInv' /\ OnceInv'
  BY <1>1, <1>2, <1>6, <1>8, <1>0 DEF SortedInv, OnceInv, InBatch
<1>10. PageInv'
  BY <1>1, <1>2, <1>4, <1>6, <1>8, SizeTypes DEF PageInv, InBatch
<1>11. HighInv'
  <2>1. walk.found # << >>
    BY <1>4, <1>1
  <2> QED BY <1>1, <1>4, <1>6, <1>7, <1>8, <2>1 DEF HighInv
<1> QED BY <1>9, <1>10, <1>11 DEF LimitInv

(* The other steps of a walk leave what was found, and what is tapped.     *)
LEMMA LimitBulk ==
  ASSUME IInv, LimitInv, walk # NoWalk, walk.step = "bulk", NEW chunk, NEW bulk,
         ChunkDone(chunk, bulk)
  PROVE  LimitInv'
<1>1. walk \in Walk
  BY WalkTypes DEF IInv
<1>2. /\ walk'.found = walk.found /\ walk'.taken = walk.taken /\ walk'.batchEnd = walk.batchEnd
      /\ walk'.tapped = walk.tapped /\ walk'.high = walk.high
      /\ walk'.step \in {"bulk", "single", "yield"}
  BY <1>1 DEF ChunkDone, Walk
<1> QED BY <1>2, LimitTiers DEF InBatch

LEMMA LimitSingle ==
  ASSUME IInv, LimitInv, walk # NoWalk, walk.step = "single", NEW p, NEW result,
         SingleDone(p, result)
  PROVE  LimitInv'
<1>1. walk \in Walk
  BY WalkTypes DEF IInv
<1>2. /\ walk'.found = walk.found /\ walk'.taken = walk.taken /\ walk'.batchEnd = walk.batchEnd
      /\ walk'.tapped = walk.tapped /\ walk'.high = walk.high
      /\ walk'.step \in {"single", "yield"}
  BY <1>1 DEF SingleDone, Walk
<1> QED BY <1>2, LimitTiers DEF InBatch

LEMMA LimitReads ==
  ASSUME IInv, LimitInv, (\E i \in Issue : BulkPage(i)) \/ SinglePage
  PROVE  LimitInv'
<1>1. CASE \E i \in Issue : BulkPage(i)
  <2>1. PICK i \in Issue : BulkPage(i)
    BY <1>1
  <2>2. walk # NoWalk /\ walk.step = "bulk"
    <3>1. walk.step = "bulk"
      BY <2>1, Zenon DEF BulkPage
    <3> QED BY <3>1 DEF NoWalk
  <2>3. walk \in Walk
    BY <2>2, WalkTypes DEF IInv
  <2>4. /\ walk'.found = walk.found /\ walk'.taken = walk.taken /\ walk'.batchEnd = walk.batchEnd
        /\ walk'.tapped = walk.tapped /\ walk'.high = walk.high /\ walk'.step = "bulk"
    BY <2>1, <2>2, <2>3 DEF BulkPage, Walk
  <2> QED BY <2>2, <2>4, LimitTiers DEF InBatch
<1>2. CASE SinglePage
  <2>1. walk # NoWalk /\ walk.step = "single"
    BY <1>2 DEF SinglePage, NoWalk
  <2>2. walk \in Walk
    BY <2>1, WalkTypes DEF IInv
  <2>3. \/ \E i, got : walk' = [walk EXCEPT !.got[i] = got]
        \/ \E p, result : SingleDone(p, result)
    BY <1>2 DEF SinglePage
  <2>4. CASE \E p, result : SingleDone(p, result)
    BY <2>1, <2>4, LimitSingle
  <2>5. CASE \E i, got : walk' = [walk EXCEPT !.got[i] = got]
    <3>1. /\ walk'.found = walk.found /\ walk'.taken = walk.taken
          /\ walk'.batchEnd = walk.batchEnd
          /\ walk'.tapped = walk.tapped /\ walk'.high = walk.high /\ walk'.step = "single"
      BY <2>1, <2>2, <2>5 DEF Walk
    <3> QED BY <2>1, <3>1, LimitTiers DEF InBatch
  <2> QED BY <2>3, <2>4, <2>5
<1> QED BY <1>1, <1>2

LEMMA LimitNext ==
  ASSUME PagesAreBatches, IInv, LimitInv, [Next]_vars
  PROVE  LimitInv'
<1>1. ASSUME UNCHANGED walk PROVE LimitInv'
  BY <1>1 DEF LimitInv, SortedInv, PageInv, OnceInv, HighInv
<1>2. ASSUME walk' = NoWalk PROVE LimitInv'
  BY <1>2 DEF LimitInv
<1>3. ASSUME NEW limit \in Limits, StartWalk(limit) PROVE LimitInv'
  BY <1>3, LimitStart
<1>4. CASE WalkStep
  <2>1. CASE BulkEnd
    <3>1. walk # NoWalk /\ walk.step = "bulk" /\ \E chunk, bulk : ChunkDone(chunk, bulk)
      <4>1. walk.step = "bulk" /\ \E chunk, bulk : ChunkDone(chunk, bulk)
        BY <2>1, Zenon DEF BulkEnd
      <4> QED BY <4>1 DEF NoWalk
    <3> QED BY <3>1, LimitBulk
  <2>2. CASE BulkRejected
    BY <2>2, LimitBulk DEF BulkRejected, NoWalk
  <2>3. CASE BulkUnavailable
    BY <2>3, LimitBulk DEF BulkUnavailable, NoWalk
  <2>4. CASE SingleMissing
    <3>1. walk # NoWalk /\ walk.step = "single" /\ \E p, result : SingleDone(p, result)
      BY <2>4 DEF SingleMissing, NoWalk
    <3> QED BY <3>1, LimitSingle
  <2>5. CASE Finish
    BY <2>5, <1>2 DEF Finish
  <2> QED BY <1>4, <2>1, <2>2, <2>3, <2>4, <2>5, LimitSearch, LimitExpand, LimitReads, LimitYield
          DEF WalkStep
<1>5. CASE Fail
  BY <1>5, <1>2 DEF Fail
<1>6. ASSUME Tick \/ (\E i \in Issue : LoadIssue(i) \/ \E tos \in Targets : Edit(i, tos))
      PROVE  UNCHANGED walk
  BY <1>6, Zenon DEF Tick, LoadIssue, Edit, jira
<1>7. CASE UNCHANGED vars
  BY <1>7, <1>1 DEF vars
<1> QED BY <1>1, <1>3, <1>4, <1>5, <1>6, <1>7 DEF Next

LEMMA LimitOfInv == IInv /\ LimitInv => LimitStopsInOrder
<1> SUFFICES ASSUME IInv, LimitInv, walk # NoWalk, NEW k \in walk.taken + 1..Len(walk.found)
             PROVE  walk.high <= walk.found[k].updated + Overlap
  BY DEF LimitStopsInOrder
<1>1. walk.high <= walk.found[k].updated
  BY DEF LimitInv, HighInv
<1>2. /\ walk.high \in Nat /\ walk.found[k].updated \in Nat
  <2>1. walk.taken \in Nat /\ Len(walk.found) \in Nat /\ walk.high \in Nat
        /\ \A l \in 1..Len(walk.found) : walk.found[l].updated \in Nat
    BY WalkTypes DEF IInv
  <2>2. k \in 1..Len(walk.found)
    BY <2>1
  <2> QED BY <2>1, <2>2
<1>3. Overlap \in Nat
  BY SizesType
<1> QED BY <1>1, <1>2, <1>3

(* "A --limit-bounded caller can then only stop at an issue boundary in    *)
(* cursor order": when the pages of the search are full and as large as    *)
(* the batches, as the code asks for, wherever the limit stops a walk the  *)
(* cursor is not past an issue that was found and not yielded.             *)
THEOREM LimitStops ==
  ASSUME PagesAreBatches
  PROVE  Spec => []LimitStopsInOrder
<1>1. Init => LimitInv
  BY DEF Init, LimitInv
<1>2. IInv /\ LimitInv /\ [Next]_vars => LimitInv'
  BY LimitNext
<1> QED BY <1>1, <1>2, LimitOfInv, Inductive, PTL DEF Spec
=============================================================================
