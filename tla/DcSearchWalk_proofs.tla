------------------------ MODULE DcSearchWalk_proofs ------------------------
(***************************************************************************)
(* The offset walk skips nothing, whatever is edited while it runs, for    *)
(* every set of issues, page size and overlap.                             *)
(*                                                                         *)
(* The argument: what was yielded is closed under "earlier in the search", *)
(* as far as issues go that were not edited since the first search (P).  A *)
(* page that is accepted starts at an unchanged row, so everything before  *)
(* it is yielded, and its rows keep the closure (P with the page in hand). *)
(***************************************************************************)
EXTENDS DcSearchWalk, TLAPS, FiniteSetTheorems

(* Untouched since the first search was made.                              *)
Old(j) == 0 < updated[j] /\ updated[j] <= begun

ClockInv ==
  /\ \A i \in Issue : updated[i] <= now
  /\ begun <= now
  /\ ceiling # NotSet => ceiling <= begun + DateLate
  /\ ceiling = NotSet => /\ pc = "request" /\ begun = 0
                         /\ \A i \in Issue : yielded[i] = 0 /\ page[i] = 0
  /\ \A i \in Issue : yielded[i] > 0 => yielded[i] <= ceiling

(* What was yielded is as it is now, and all before it was yielded too.    *)
ClosedInv ==
  \A i, j \in Issue :
    /\ yielded[i] > 0 /\ Old(i) => yielded[i] = updated[i]
    /\ yielded[i] > 0 /\ Old(j) /\ Earlier(updated[j], j, yielded[i], i)
         => yielded[j] = updated[j]

(* The same with the rows of the page in hand.                             *)
PageInv ==
  \A i, j \in Issue :
    /\ page[i] > 0 /\ Old(i) => page[i] = updated[i]
    /\ page[i] > 0 /\ Old(j) /\ Earlier(updated[j], j, page[i], i)
         => yielded[j] = updated[j] \/ page[j] = updated[j]

(* The page that ends the walk leaves nothing behind it.                   *)
LastPageInv ==
  pc = "page" /\ nextPosition >= total
    => \A j \in Issue : Old(j) => yielded[j] = updated[j] \/ page[j] = updated[j]

IInv == /\ TypeOK /\ ClockInv /\ ClosedInv /\ PageInv /\ LastPageInv /\ WalkIsComplete

-----------------------------------------------------------------------------
LEMMA FoundFinite == IsFiniteSet(Found) /\ Cardinality(Found) \in Nat
<1>1. IsFiniteSet(Found)
  BY IssueType, FS_Subset DEF Found
<1> QED BY <1>1, FS_CardinalityType

(* Positions count rows, and keep the order of the search.                 *)
LEMMA PositionType ==
  ASSUME TypeOK, NEW i \in Found
  PROVE  Position(i) \in Nat /\ Position(i) < Cardinality(Found)
<1> DEFINE B == {j \in Found : Earlier(updated[j], j, updated[i], i)}
<1>1. IsFiniteSet(B) /\ Cardinality(B) <= Cardinality(Found)
                     /\ (Cardinality(Found) = Cardinality(B) => Found = B)
  <2>1. B \in SUBSET Found
    OBVIOUS
  <2> QED BY <2>1, FoundFinite, FS_Subset
<1>2. i \notin B
  <2>1. updated[i] \in Nat /\ i \in Nat
    BY IssueType DEF TypeOK, Found
  <2> QED BY <2>1 DEF Earlier
<1>3. Found # B
  BY <1>2
<1>4. Cardinality(B) \in Nat
  BY <1>1, FS_CardinalityType
<1> QED BY <1>1, <1>3, <1>4, FoundFinite DEF Position

LEMMA PositionOrder ==
  ASSUME TypeOK, NEW i \in Found, NEW j \in Found, Earlier(updated[j], j, updated[i], i)
  PROVE  Position(j) < Position(i)
<1> DEFINE B(k) == {l \in Found : Earlier(updated[l], l, updated[k], k)}
<1>1. \A l \in Issue : updated[l] \in Nat /\ l \in Nat
  BY IssueType DEF TypeOK
<1>2. i \in Issue /\ j \in Issue /\ Found \subseteq Issue
  BY DEF Found
<1>3. B(j) \in SUBSET B(i)
  BY <1>1, <1>2 DEF Earlier
<1>4. j \in B(i) /\ j \notin B(j)
  BY <1>1, <1>2 DEF Earlier
<1>5. IsFiniteSet(B(i)) /\ IsFiniteSet(B(j))
  <2>1. B(i) \in SUBSET Found /\ B(j) \in SUBSET Found
    OBVIOUS
  <2> QED BY <2>1, FoundFinite, FS_Subset
<1>6. Cardinality(B(j)) <= Cardinality(B(i)) /\ Cardinality(B(j)) # Cardinality(B(i))
  <2>1. B(i) # B(j)
    BY <1>4
  <2>2. /\ Cardinality(B(j)) <= Cardinality(B(i))
        /\ Cardinality(B(i)) = Cardinality(B(j)) => B(i) = B(j)
    BY <1>3, <1>5, FS_Subset
  <2> QED BY <2>1, <2>2
<1>7. Cardinality(B(j)) \in Nat /\ Cardinality(B(i)) \in Nat
  BY <1>5, FS_CardinalityType
<1> QED BY <1>6, <1>7 DEF Position

(* The search is a total order.                                            *)
LEMMA PositionInjective ==
  ASSUME TypeOK, NEW i \in Found, NEW j \in Found, i # j
  PROVE  /\ Earlier(updated[i], i, updated[j], j) \/ Earlier(updated[j], j, updated[i], i)
         /\ Position(i) # Position(j)
<1>1. Earlier(updated[i], i, updated[j], j) \/ Earlier(updated[j], j, updated[i], i)
  BY IssueType DEF Earlier, TypeOK, Found
<1> QED BY <1>1, PositionOrder, PositionType

(* A page holds no more than PageSize rows.                                *)
LEMMA PageSmall ==
  ASSUME TypeOK, NEW n \in Nat
  PROVE  Cardinality(PageAt(n)) \in Nat /\ Cardinality(PageAt(n)) <= PageSize
<1> DEFINE T == n .. (n + PageSize - 1)
           f == [i \in PageAt(n) |-> Position(i)]
<1>1. IsFiniteSet(T) /\ Cardinality(T) = PageSize
  <2>1. n \in Int /\ n + PageSize - 1 \in Int /\ PageSize \in Nat /\ PageSize > 0
    BY PageSizeType
  <2> QED BY <2>1, FS_Interval
<1>2. f \in Injection(PageAt(n), T)
  <2>1. \A i \in PageAt(n) : i \in Found /\ Position(i) \in T
    BY PositionType, PageSizeType DEF PageAt
  <2>2. f \in [PageAt(n) -> T]
    BY <2>1
  <2>3. \A i, j \in PageAt(n) : i # j => f[i] # f[j]
    BY <2>1, PositionInjective
  <2> QED BY <2>2, <2>3 DEF Injection, IsInjective
<1>3. IsFiniteSet(PageAt(n)) /\ Cardinality(PageAt(n)) <= Cardinality(T)
  BY <1>1, <1>2, FS_Injection
<1> QED BY <1>1, <1>3, FS_CardinalityType

(* The page that is accepted leaves nothing unread before its end.         *)
LEMMA Continued ==
  ASSUME TypeOK, ClosedInv, NEW n \in Nat, Continues(n),
         NEW j \in Found, Position(j) < n + PageSize,
         Old(j)
  PROVE  yielded[j] = updated[j] \/ j \in PageAt(n)
<1>1. CASE n <= Position(j)
  BY <1>1 DEF PageAt
<1>2. CASE Position(j) < n
  <2>1. n # 0
    BY <1>2, PositionType
  <2>2. PICK f \in PageAt(n) : Position(f) = n /\ Unchanged(f)
    BY <2>1 DEF Continues
  <2>3. f \in Found /\ f # j /\ j \in Issue /\ f \in Issue
    BY <2>2, <1>2 DEF PageAt, Found
  <2>4. Earlier(updated[j], j, updated[f], f)
    <3>1. ~Earlier(updated[f], f, updated[j], j)
      BY <2>2, <2>3, <1>2, PositionOrder, PositionType
    <3> QED BY <3>1, <2>3, PositionInjective
  <2> QED BY <2>2, <2>3, <2>4 DEF Unchanged, ClosedInv
<1> QED BY <1>1, <1>2, PositionType

-----------------------------------------------------------------------------
LEMMA InitIInv == Init => IInv
<1> SUFFICES ASSUME Init PROVE IInv
  OBVIOUS
<1>1. TypeOK
  BY PageSizeType, ClockType DEF Init, TypeOK, NotSet
<1>2. ClockInv
  BY ClockType, <1>1 DEF Init, ClockInv, NotSet, TypeOK
<1> QED BY <1>1, <1>2 DEF Init, IInv, ClosedInv, PageInv, LastPageInv, WalkIsComplete

(* Jira's steps: a stamp is newer than the walk.                           *)
LEMMA JiraStep ==
  ASSUME IInv, NEW i \in Issue, Edit(i) \/ Delete(i)
  PROVE  IInv'
<1> USE DEF IInv
<1>1. UNCHANGED walk /\ now' = now + 1 /\ \A j \in Issue : j # i => updated'[j] = updated[j]
  BY DEF Edit, Delete, TypeOK
<1>2. TypeOK'
  BY <1>1 DEF Edit, Delete, TypeOK, walk
<1>3. updated'[i] = 0 \/ updated'[i] = now + 1
  BY DEF Edit, Delete, TypeOK
<1>4. ClockInv'
  BY <1>1, <1>2, <1>3 DEF ClockInv, walk, TypeOK
<1>5. \A j \in Issue : Old(j)' => j # i /\ Old(j) /\ updated'[j] = updated[j]
  BY <1>1, <1>3 DEF Old, walk, ClockInv, TypeOK
<1>6. ClosedInv'
  BY <1>1, <1>5 DEF ClosedInv, walk
<1>7. PageInv'
  BY <1>1, <1>5 DEF PageInv, walk
<1>8. LastPageInv'
  BY <1>1, <1>5 DEF LastPageInv, walk
<1>9. WalkIsComplete'
  BY <1>1, <1>5 DEF WalkIsComplete, Old, walk
<1> QED BY <1>2, <1>4, <1>6, <1>7, <1>8, <1>9

LEMMA AcceptPageStep ==
  ASSUME IInv, AcceptPage
  PROVE  IInv'
<1> USE DEF IInv
<1>u. UNCHANGED <<jira, startAt, rewind, yielded>> /\ pc' = "page"
  BY DEF AcceptPage
<1>t. Cardinality(PageAt(startAt)) \in Nat /\ Cardinality(PageAt(startAt)) <= PageSize
  BY PageSmall DEF TypeOK
<1>d. /\ begun' \in Nat /\ begun' <= now
      /\ ceiling' \in Nat /\ ceiling' <= begun' + DateLate
      /\ ceiling # NotSet => begun' = begun /\ ceiling' = ceiling
  BY ClockType DEF AcceptPage, ReadDate, TypeOK, ClockInv, AtLeast0
<1>p. \A i \in Issue : page'[i] = IF i \in PageAt(startAt) THEN updated[i] ELSE 0
  BY DEF AcceptPage
<1>1. TypeOK'
  <2>1. page' \in [Issue -> Nat]
    BY DEF AcceptPage, TypeOK
  <2>2. nextPosition' \in Nat
    BY <1>t DEF AcceptPage, TypeOK
  <2>3. total' \in Nat
    BY FoundFinite DEF AcceptPage
  <2> QED BY <1>u, <1>d, <2>1, <2>2, <2>3 DEF TypeOK, jira
<1>2. ClockInv'
  BY <1>u, <1>d DEF ClockInv, jira, NotSet
<1>3. \A j \in Issue : Old(j)' /\ ceiling # NotSet => Old(j)
  BY <1>u, <1>d DEF Old, jira
<1>4. ClosedInv /\ ClosedInv'
  <2>1. CASE ceiling = NotSet
    BY <2>1, <1>u DEF ClosedInv, ClockInv
  <2>2. CASE ceiling # NotSet
    BY <2>2, <1>3, <1>u DEF ClosedInv, jira
  <2> QED BY <2>1, <2>2
<1>5. \A j \in Issue : Old(j)' /\ j \in Found /\ Position(j) < startAt + PageSize
        => yielded[j] = updated[j] \/ j \in PageAt(startAt)
  <2> TAKE j \in Issue
  <2> HAVE Old(j)' /\ j \in Found /\ Position(j) < startAt + PageSize
  <2>1. CASE ceiling = NotSet
    <3>1. startAt = 0
      BY <2>1 DEF AcceptPage, Continues, Unchanged, PageAt, Found, ClockInv
    <3> QED BY <3>1, PositionType DEF PageAt
  <2>2. CASE ceiling # NotSet
    BY <2>2, <1>3, Continued DEF AcceptPage, TypeOK
  <2> QED BY <2>1, <2>2
<1>6. PageInv'
  <2> SUFFICES ASSUME NEW i \in Issue, NEW j \in Issue, page'[i] > 0
               PROVE  /\ Old(i)' => page'[i] = updated'[i]
                      /\ Old(j)' /\ Earlier(updated'[j], j, page'[i], i)
                           => yielded'[j] = updated'[j] \/ page'[j] = updated'[j]
    BY DEF PageInv
  <2>1. i \in PageAt(startAt) /\ i \in Found /\ page'[i] = updated[i]
    BY <1>p DEF PageAt
  <2>2. ASSUME Old(j)', Earlier(updated'[j], j, page'[i], i)
        PROVE  yielded'[j] = updated'[j] \/ page'[j] = updated'[j]
    <3>1. j \in Found /\ Earlier(updated[j], j, updated[i], i)
      BY <2>1, <2>2, <1>u DEF Found, Old, jira
    <3>2. Position(j) < Position(i) /\ Position(i) < startAt + PageSize
      BY <3>1, <2>1, PositionOrder DEF PageAt
    <3>3. Position(j) < startAt + PageSize
      BY <3>1, <3>2, <2>1, PositionType, PageSizeType DEF TypeOK
    <3> QED BY <3>1, <3>3, <2>2, <1>5, <1>p, <1>u DEF jira
  <2> QED BY <2>1, <2>2, <1>u DEF jira
<1>7. LastPageInv'
  <2> SUFFICES ASSUME nextPosition' >= total', NEW j \in Issue, Old(j)'
               PROVE  yielded'[j] = updated'[j] \/ page'[j] = updated'[j]
    BY DEF LastPageInv
  <2>1. j \in Found
    BY <1>u DEF Found, Old, jira
  <2>2. Position(j) < Cardinality(Found) /\ Position(j) \in Nat
    BY <2>1, PositionType
  <2>3. Position(j) < startAt + PageSize
    BY <2>2, <1>t, FoundFinite, PageSizeType DEF AcceptPage, TypeOK
  <2> QED BY <2>1, <2>3, <1>5, <1>p, <1>u DEF jira
<1>8. WalkIsComplete'
  BY <1>u DEF WalkIsComplete
<1> QED BY <1>1, <1>2, <1>4, <1>6, <1>7, <1>8

(* Steps that only move the walk's position.                               *)
LEMMA MoveStep ==
  ASSUME IInv, Rewind \/ NextPage
  PROVE  IInv'
<1> USE DEF IInv
<1>1. UNCHANGED <<jira, nextPosition, begun, ceiling, page, total, yielded>> /\ pc' = "request"
  BY DEF Rewind, NextPage
<1>2. TypeOK'
  <2>1. rewind' \in Nat \ {0}
    BY PageSizeType DEF Rewind, NextPage, TypeOK
  <2>2. startAt' = AtLeast0(nextPosition - rewind')
    BY DEF Rewind, NextPage
  <2>3. nextPosition - rewind' \in Int
    BY <2>1 DEF TypeOK
  <2>4. \A n \in Int : AtLeast0(n) \in Nat
    BY DEF AtLeast0
  <2>5. startAt' \in Nat
    BY <2>2, <2>3, <2>4
  <2> QED BY <1>1, <2>1, <2>5 DEF TypeOK, jira
<1>3. ClockInv'
  BY <1>1 DEF ClockInv, jira
<1>4. ClosedInv'
  BY <1>1 DEF ClosedInv, Old, jira
<1>5. PageInv'
  BY <1>1 DEF PageInv, Old, jira
<1>6. LastPageInv' /\ WalkIsComplete'
  BY <1>1 DEF LastPageInv, WalkIsComplete
<1> QED BY <1>2, <1>3, <1>4, <1>5, <1>6

LEMMA YieldRowStep ==
  ASSUME IInv, NEW i \in Issue, YieldRow(i)
  PROVE  IInv'
<1> USE DEF IInv
<1>u. UNCHANGED <<jira, pc, startAt, rewind, nextPosition, begun, ceiling, total>> /\ pc = "page"
  BY DEF YieldRow, IsNextRow
<1>r. /\ page[i] > 0 /\ page[i] <= ceiling
      /\ \A j \in Issue : page[j] > 0 => ~Earlier(page[j], j, page[i], i)
  BY DEF YieldRow, IsNextRow
<1>n. /\ \A j \in Issue : page'[j] = IF j = i THEN 0 ELSE page[j]
      /\ \A j \in Issue : yielded'[j] = IF j = i /\ yielded[i] = 0 THEN page[i] ELSE yielded[j]
  BY DEF YieldRow, TypeOK
<1>1. TypeOK'
  BY <1>u DEF YieldRow, TypeOK, jira
<1>c. ceiling # NotSet
  BY <1>u DEF ClockInv
<1>2. ClockInv'
  BY <1>u, <1>r, <1>n, <1>c DEF ClockInv, jira
<1>o. \A j \in Issue : (Old(j)' <=> Old(j)) /\ updated'[j] = updated[j] /\ (Old(j) => updated[j] > 0)
  BY <1>u DEF Old, jira
(* What is yielded as it is now stays so, and so does the row in hand.     *)
<1>k. \A j \in Issue : Old(j) /\ (yielded[j] = updated[j] \/ page[j] = updated[j])
        => yielded'[j] = updated[j] \/ page'[j] = updated[j]
  BY <1>n, <1>o DEF ClosedInv, TypeOK
<1>y. \A j \in Issue : Old(j) /\ yielded[j] = updated[j] => yielded'[j] = updated[j]
  BY <1>n, <1>o
<1>3. ClosedInv'
  <2> SUFFICES ASSUME NEW k \in Issue, NEW j \in Issue, yielded'[k] > 0
               PROVE  /\ Old(k) => yielded'[k] = updated[k]
                      /\ Old(j) /\ Earlier(updated[j], j, yielded'[k], k)
                           => yielded'[j] = updated[j]
    BY <1>o DEF ClosedInv
  <2>1. CASE k = i /\ yielded[i] = 0
    <3>1. yielded'[k] = page[i]
      BY <2>1, <1>n
    <3>2. Old(k) => page[i] = updated[k]
      BY <2>1, <1>r DEF PageInv
    <3>3. ASSUME Old(j), Earlier(updated[j], j, page[i], i) PROVE yielded'[j] = updated[j]
      <4>1. yielded[j] = updated[j] \/ page[j] = updated[j]
        BY <3>3, <1>r DEF PageInv
      <4>2. page[j] # updated[j]
        BY <3>3, <1>r, <1>o
      <4> QED BY <3>3, <4>1, <4>2, <1>y
    <3> QED BY <2>1, <3>1, <3>2, <3>3
  <2>2. CASE ~(k = i /\ yielded[i] = 0)
    <3>1. yielded'[k] = yielded[k]
      BY <2>2, <1>n
    <3> QED BY <3>1, <1>y DEF ClosedInv
  <2> QED BY <2>1, <2>2
<1>4. PageInv'
  <2> SUFFICES ASSUME NEW k \in Issue, NEW j \in Issue, page'[k] > 0
               PROVE  /\ Old(k) => page'[k] = updated[k]
                      /\ Old(j) /\ Earlier(updated[j], j, page'[k], k)
                           => yielded'[j] = updated[j] \/ page'[j] = updated[j]
    BY <1>o DEF PageInv
  <2>1. page'[k] = page[k]
    BY <1>n
  <2> QED BY <2>1, <1>k DEF PageInv
<1>5. LastPageInv'
  BY <1>u, <1>k, <1>o DEF LastPageInv
<1>6. WalkIsComplete'
  BY <1>u DEF WalkIsComplete
<1> QED BY <1>1, <1>2, <1>3, <1>4, <1>5, <1>6

(* The two ways the walk ends.                                             *)
LEMMA EndStep ==
  ASSUME IInv, LastPage \/ \E i \in Issue : StopAtCeiling(i)
  PROVE  IInv'
<1> USE DEF IInv
<1>1. UNCHANGED <<jira, startAt, rewind, nextPosition, begun, ceiling, page, total, yielded>>
  BY DEF LastPage, StopAtCeiling
<1>2. pc' = "done" /\ pc = "page"
  BY DEF LastPage, StopAtCeiling, PageRead, IsNextRow
<1>3. TypeOK'
  BY <1>1, <1>2 DEF TypeOK, jira
<1>4. ClockInv'
  BY <1>1, <1>2 DEF ClockInv, jira
<1>5. ClosedInv' /\ PageInv'
  BY <1>1 DEF ClosedInv, PageInv, Old, jira
<1>6. LastPageInv'
  BY <1>2 DEF LastPageInv
<1>7. WalkIsComplete'
  <2> SUFFICES ASSUME NEW j \in Issue, Old(j), updated[j] <= ceiling
               PROVE  yielded[j] = updated[j]
    BY <1>1 DEF WalkIsComplete, Old, jira
  <2>1. updated[j] > 0
    BY DEF Old
  <2>2. CASE LastPage
    BY <2>1, <2>2, <1>2 DEF LastPage, PageRead, LastPageInv
  <2>3. ASSUME NEW i \in Issue, StopAtCeiling(i) PROVE yielded[j] = updated[j]
    <3>1. page[i] > ceiling /\ page[i] > 0 /\ \A k \in Issue : page[k] > 0 => ~Earlier(page[k], k, page[i], i)
      BY <2>3 DEF StopAtCeiling, IsNextRow
    <3>c. ceiling \in Nat
      BY <1>2 DEF ClockInv, TypeOK
    <3>2. Earlier(updated[j], j, page[i], i)
      BY <3>1, <3>c DEF Earlier, TypeOK
    <3>3. page[j] # updated[j]
      BY <3>1, <3>2, <2>1
    <3> QED BY <3>1, <3>2, <3>3 DEF PageInv
  <2> QED BY <2>2, <2>3
<1> QED BY <1>3, <1>4, <1>5, <1>6, <1>7

LEMMA NextIInv == IInv /\ [Next]_vars => IInv'
<1> SUFFICES ASSUME IInv, [Next]_vars PROVE IInv'
  OBVIOUS
<1>1. CASE UNCHANGED vars
  BY <1>1 DEF IInv, TypeOK, ClockInv, ClosedInv, PageInv, LastPageInv, WalkIsComplete, Old,
              vars, jira, walk
<1>2. CASE AcceptPage
  BY <1>2, AcceptPageStep
<1>3. CASE Rewind \/ NextPage
  BY <1>3, MoveStep
<1>4. CASE LastPage \/ \E i \in Issue : StopAtCeiling(i)
  BY <1>4, EndStep
<1>5. CASE \E i \in Issue : YieldRow(i)
  BY <1>5, YieldRowStep
<1>6. CASE \E i \in Issue : Edit(i) \/ Delete(i)
  BY <1>6, JiraStep
<1> QED BY <1>1, <1>2, <1>3, <1>4, <1>5, <1>6 DEF Next, WalkStep

LEMMA Inductive == Spec => []IInv
BY InitIInv, NextIInv, PTL DEF Spec

-----------------------------------------------------------------------------
(* The walk's variables keep their types: positions never go below 0.      *)
THEOREM TypeCorrect == Spec => []TypeOK
<1>1. IInv => TypeOK
  BY DEF IInv
<1> QED BY <1>1, Inductive, PTL

(* At no moment is an issue yielded while an older one, that was not       *)
(* edited since, was stepped over.                                         *)
THEOREM NothingIsSteppedOver == Spec => []NothingSteppedOver
<1>1. IInv => NothingSteppedOver
  <2> SUFFICES ASSUME IInv, NEW i \in Issue, NEW j \in Issue,
                      yielded[i] > 0, updated[j] > 0, updated[j] + DateLate < yielded[i]
               PROVE  yielded[j] = updated[j]
    BY DEF NothingSteppedOver
  <2>1. yielded[i] <= ceiling /\ ceiling # NotSet /\ ceiling <= begun + DateLate
    BY DEF IInv, ClockInv
  <2>2. Old(j) /\ updated[j] < yielded[i]
    BY <2>1, ClockType DEF Old, IInv, TypeOK, NotSet
  <2> QED BY <2>2 DEF IInv, ClosedInv, Earlier
<1> QED BY <1>1, Inductive, PTL

(* A walk that ended has yielded every issue that was there and older than *)
(* its ceiling when it began, as it is, unless it was edited or deleted.   *)
THEOREM WalkCompletes == Spec => []WalkIsComplete
<1>1. IInv => WalkIsComplete
  BY DEF IInv
<1> QED BY <1>1, Inductive, PTL
=============================================================================
