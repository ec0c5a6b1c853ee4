----------------------- MODULE StatusIntervals_proofs -----------------------
(***************************************************************************)
(* The intervals of issue_status_interval.sql tell each issue's history,   *)
(* for every number of issues and histories.                               *)
(*                                                                         *)
(* The argument: numbering the changes in the order of the query is a      *)
(* bijection onto 1..count, and the order is the one in which they were    *)
(* made (RankOfChanges).  So the interval that holds an instant is the one *)
(* whose number is the number of changes up to then (TellOfInv), and the   *)
(* histories between two changes keep the status (StatusKept), since       *)
(* each begins with the status in which the last one ended (ChainInv).     *)
(***************************************************************************)
EXTENDS ChangelogTiers_proofs

-----------------------------------------------------------------------------
(* row_number().                                                           *)
LEMMA RankOfChanges ==
  ASSUME NEW n \in Nat, NEW C \in SUBSET (1..n), NEW rank,
         rank = [j \in C |-> 1 + Cardinality({k \in C : k < j})]
  PROVE  /\ IsFiniteSet(C) /\ Cardinality(C) \in Nat
         /\ \A j \in C : rank[j] \in 1..Cardinality(C)
         /\ \A j, k \in C : j < k => rank[j] < rank[k]
         /\ \A m \in 1..Cardinality(C) : \E j \in C : rank[j] = m
<1> DEFINE Earlier(j) == {k \in C : k < j}
           size == Cardinality(C)
<1>1. IsFiniteSet(C) /\ size \in Nat
  <2>1. IsFiniteSet(1..n)
    BY FS_Interval
  <2>2. IsFiniteSet(C)
    BY <2>1, FS_Subset
  <2> QED BY <2>2, FS_CardinalityType
<1>2. \A j \in C : IsFiniteSet(Earlier(j)) /\ Cardinality(Earlier(j)) \in Nat
  <2> SUFFICES ASSUME NEW j \in C
               PROVE  IsFiniteSet(Earlier(j)) /\ Cardinality(Earlier(j)) \in Nat
    OBVIOUS
  <2>1. Earlier(j) \in SUBSET C
    OBVIOUS
  <2>2. IsFiniteSet(Earlier(j))
    BY <1>1, <2>1, FS_Subset
  <2> QED BY <2>2, FS_CardinalityType
<1>3. \A j \in C : Cardinality(Earlier(j) \cup {j}) = Cardinality(Earlier(j)) + 1
  <2> SUFFICES ASSUME NEW j \in C
               PROVE  Cardinality(Earlier(j) \cup {j}) = Cardinality(Earlier(j)) + 1
    OBVIOUS
  <2>1. j \notin Earlier(j)
    OBVIOUS
  <2> HIDE DEF Earlier
  <2> QED BY <1>2, <2>1, FS_AddElement
<1>4. \A j \in C : rank[j] \in 1..size
  <2> SUFFICES ASSUME NEW j \in C PROVE rank[j] \in 1..size
    OBVIOUS
  <2>1. Earlier(j) \cup {j} \in SUBSET C
    OBVIOUS
  <2>2. Cardinality(Earlier(j) \cup {j}) <= size
    BY <1>1, <2>1, FS_Subset
  <2>3. rank[j] = 1 + Cardinality(Earlier(j))
    OBVIOUS
  <2> HIDE DEF Earlier, size
  <2> QED BY <1>1, <1>2, <1>3, <2>2, <2>3
<1>5. \A j, k \in C : j < k => rank[j] < rank[k]
  <2> SUFFICES ASSUME NEW j \in C, NEW k \in C, j < k PROVE rank[j] < rank[k]
    OBVIOUS
  <2>1. Earlier(j) \cup {j} \in SUBSET Earlier(k)
    <3> SUFFICES ASSUME NEW l \in C, l < j \/ l = j PROVE l < k
      OBVIOUS
    <3>1. j \in Nat /\ k \in Nat /\ l \in Nat
      OBVIOUS
    <3> HIDE DEF Earlier
    <3> QED BY <3>1
  <2>2. rank[j] = 1 + Cardinality(Earlier(j)) /\ rank[k] = 1 + Cardinality(Earlier(k))
    OBVIOUS
  <2> HIDE DEF Earlier
  <2>3. Cardinality(Earlier(j) \cup {j}) <= Cardinality(Earlier(k))
    BY <1>2, <2>1, FS_Subset
  <2> QED BY <1>2, <1>3, <2>2, <2>3
<1>6. rank \in Surjection(C, 1..size)
  <2>1. \A j, k \in C : rank[j] = rank[k] => j = k
    <3> SUFFICES ASSUME NEW j \in C, NEW k \in C, rank[j] = rank[k], j # k PROVE FALSE
      OBVIOUS
    <3>1. (j < k \/ k < j) /\ rank[j] \in Nat /\ rank[k] \in Nat
      BY <1>1, <1>4
    <3> QED BY <3>1, <1>5
  <2>2. rank \in [C -> 1..size]
    BY <1>4
  <2>3. rank \in Injection(C, 1..size)
    BY <2>1, <2>2 DEF Injection, IsInjective
  <2>4. IsFiniteSet(1..size) /\ Cardinality(1..size) = size
    <3>1. size \in Int /\ 1 \in Int
      BY <1>1
    <3> HIDE DEF size
    <3> QED BY <1>1, <3>1, FS_Interval
  <2> HIDE DEF size
  <2>5. Cardinality(C) = Cardinality(1..size)
    BY <2>4 DEF size
  <2> QED BY <2>3, <2>4, <2>5, FS_Injection
<1>7. \A m \in 1..size : \E j \in C : rank[j] = m
  BY <1>6 DEF Surjection
<1> QED BY <1>1, <1>4, <1>5, <1>7

-----------------------------------------------------------------------------
(* A changelog: each history begins where the last one ended.              *)
After(i, n) == IF n = 0 THEN Initial ELSE histories[i][n].to

ChainInv ==
  \A i \in Issue : \A k \in 1..Len(histories[i]) :
    /\ histories[i][k].from = After(i, k - 1)
    /\ \A l \in 1..Len(histories[i]) : k <= l => histories[i][k].at <= histories[i][l].at

(* Nothing was read that is not there.                                     *)
ReadInv ==
  /\ \A k \in 1..Len(walk.found) : walk.found[k].total <= Len(histories[walk.found[k].issue])
  /\ \A i \in Issue :
       /\ walk.resolved[i].histories <= Len(histories[i])
       /\ walk.got[i] <= Len(histories[i])
       /\ walk.bulk[i] <= Len(histories[i])
       /\ walk.rows[i] <= Len(histories[i])

RowsInv ==
  /\ \A i \in Issue : rows[i] <= Len(histories[i])
  /\ walk # NoWalk => ReadInv

(* An issue's row has the status of some moment, not after its stamp.      *)
IssueInv ==
  \A i \in Issue : issues[i] # None =>
    \E n \in 0..Len(histories[i]) :
      /\ issues[i].status = After(i, n)
      /\ \A k \in 1..n : histories[i][k].at <= issues[i].updated

NowInv == now <= MaxClock

TellInv == ChainInv /\ RowsInv /\ IssueInv /\ NowInv

LEMMA EditAppends ==
  ASSUME TypeOK, NEW i \in Issue, NEW tos \in Targets, Edit(i, tos)
  PROVE  \A j \in Issue :
           /\ Len(histories[j]) <= Len(histories'[j])
           /\ \A k \in 1..Len(histories[j]) : histories'[j][k] = histories[j][k]
           /\ \A k \in Len(histories[j]) + 1 .. Len(histories'[j]) :
                histories'[j][k].at = now /\ histories'[j][k].from = After(j, k - 1)'
<1> DEFINE old  == histories[i]
           from == <<CurrentStatus(i)>> \o tos
           new  == [k \in 1..Len(tos) |-> [at |-> now, from |-> from[k], to |-> tos[k]]]
<1>1. tos \in Seq(Status) /\ Len(tos) \in Nat
  BY StatusType
<1>2. old \in Seq(History) /\ Len(old) \in Nat
  BY DEF TypeOK
<1>3. CurrentStatus(i) = After(i, Len(old))
  BY <1>2 DEF CurrentStatus, After, Last
<1>4. \A k \in 1..Len(tos) : from[k] = IF k = 1 THEN After(i, Len(old)) ELSE tos[k - 1]
  BY <1>1, <1>3
<1> DEFINE S == Status \cup {CurrentStatus(i)}
           R == [at : Nat, from : S, to : S] \cup History
<1>5. new \in Seq(R) /\ Len(new) = Len(tos)
  <2>1. now \in Nat /\ \A k \in 1..Len(tos) : tos[k] \in S /\ from[k] \in S
    <3>1. \A k \in 1..Len(tos) : tos[k] \in S
      BY <1>1
    <3>2. \A k \in 1..Len(tos) : k # 1 => k - 1 \in 1..Len(tos)
      BY <1>1
    <3> QED BY <3>1, <3>2, <1>3, <1>4 DEF TypeOK
  <2> HIDE DEF from
  <2> QED BY <1>1, <2>1
<1>6. \A k \in 1..Len(tos) : /\ new[k].at = now /\ new[k].to = tos[k]
                             /\ new[k].from = from[k]
  OBVIOUS
<1> HIDE DEF new
<1>7. /\ histories'[i] = old \o new
      /\ \A j \in Issue : j # i => histories'[j] = histories[j]
  BY DEF Edit, new, TypeOK
<1>8. /\ Len(histories'[i]) = Len(old) + Len(new)
      /\ \A k \in 1..Len(histories'[i]) :
           histories'[i][k] = IF k <= Len(old) THEN old[k] ELSE new[k - Len(old)]
  <2>1. old \in Seq(R)
    BY <1>2
  <2> HIDE DEF R, old
  <2>2. \A a, b \in Seq(R) :
          /\ Len(a \o b) = Len(a) + Len(b)
          /\ \A k \in 1..Len(a) + Len(b) : (a \o b)[k] = IF k <= Len(a) THEN a[k] ELSE b[k - Len(a)]
    BY ConcatProperties
  <2>3. /\ Len(old \o new) = Len(old) + Len(new)
        /\ \A k \in 1..Len(old) + Len(new) :
             (old \o new)[k] = IF k <= Len(old) THEN old[k] ELSE new[k - Len(old)]
    BY <1>5, <2>1, <2>2
  <2> QED BY <2>3, <1>7
<1> HIDE DEF from, R
<1>9. ASSUME NEW k \in Len(old) + 1 .. Len(histories'[i])
      PROVE  histories'[i][k].at = now /\ histories'[i][k].from = After(i, k - 1)'
  <2>1. k \in 1..Len(histories'[i]) /\ k - Len(old) \in 1..Len(tos) /\ ~(k <= Len(old))
    BY <1>1, <1>2, <1>5, <1>8
  <2>2. histories'[i][k] = new[k - Len(old)]
    BY <1>8, <2>1
  <2>3. /\ histories'[i][k].at = now
        /\ histories'[i][k].from = IF k - Len(old) = 1 THEN After(i, Len(old)) ELSE tos[k - Len(old) - 1]
    BY <1>4, <1>6, <2>1, <2>2
  <2>4. CASE k - Len(old) = 1
    <3>1. k - 1 = Len(old)
      BY <1>2, <2>1, <2>4
    <3>2. Len(old) # 0 => histories'[i][Len(old)] = old[Len(old)]
      <4>1. Len(old) # 0 => Len(old) \in 1..Len(histories'[i]) /\ Len(old) <= Len(old)
        BY <1>2, <1>1, <1>5, <1>8
      <4> QED BY <4>1, <1>8
    <3> QED BY <2>3, <2>4, <3>1, <3>2 DEF After
  <2>5. CASE k - Len(old) # 1
    <3>1. /\ k - 1 \in 1..Len(histories'[i]) /\ ~(k - 1 <= Len(old)) /\ k - 1 # 0
          /\ (k - 1) - Len(old) = k - Len(old) - 1 /\ k - Len(old) - 1 \in 1..Len(tos)
      BY <1>1, <1>2, <1>5, <1>8, <2>1, <2>5
    <3>2. histories'[i][k - 1] = new[k - Len(old) - 1]
      BY <1>8, <3>1
    <3>3. After(i, k - 1)' = tos[k - Len(old) - 1]
      BY <1>6, <3>1, <3>2 DEF After
    <3> QED BY <2>3, <2>5, <3>3
  <2> QED BY <2>4, <2>5
<1>10. /\ Len(old) <= Len(histories'[i])
       /\ \A k \in 1..Len(old) : histories'[i][k] = old[k]
  BY <1>1, <1>2, <1>5, <1>8
<1>11. \A j \in Issue : Len(histories[j]) \in Nat
  BY HistoryTypes
<1>12. ASSUME NEW j \in Issue, j # i
       PROVE  /\ Len(histories[j]) <= Len(histories'[j])
              /\ \A k \in 1..Len(histories[j]) : histories'[j][k] = histories[j][k]
              /\ ~\E k \in Len(histories[j]) + 1 .. Len(histories'[j]) : TRUE
  <2>1. histories'[j] = histories[j] /\ Len(histories[j]) \in Nat
    BY <1>7, <1>11, <1>12
  <2> QED BY <2>1
<1> QED BY <1>9, <1>10, <1>12

-----------------------------------------------------------------------------
(* Jira, and the other resource.                                           *)
LEMMA InitTell == Init => TellInv
<1> SUFFICES ASSUME Init PROVE TellInv
  OBVIOUS
<1>1. \A i \in Issue : histories[i] = << >> /\ rows[i] = 0 /\ issues[i] = None
  BY DEF Init, NothingRead
<1>2. walk = NoWalk /\ now = 0 /\ MaxClock \in Nat
  <2>1. {EmbedMax, IdRollover, Overlap, MaxClock, MaxHistories} \subseteq Nat
    BY SizesType
  <2> QED BY <2>1 DEF Init
<1>3. \A i \in Issue : Len(histories[i]) = 0
  BY <1>1
<1> QED BY <1>1, <1>2, <1>3 DEF TellInv, ChainInv, RowsInv, IssueInv, NowInv

LEMMA EditTell ==
  ASSUME IInv, TellInv, NEW i \in Issue, NEW tos \in Targets, Edit(i, tos)
  PROVE  TellInv'
<1>1. /\ UNCHANGED <<now, walk, rows, issues>>
      /\ updated[i] < now
  BY DEF Edit, raw
<1>2. \A j \in Issue :
        /\ Len(histories[j]) <= Len(histories'[j])
        /\ \A k \in 1..Len(histories[j]) : histories'[j][k] = histories[j][k]
        /\ \A k \in Len(histories[j]) + 1 .. Len(histories'[j]) :
             histories'[j][k].at = now /\ histories'[j][k].from = After(j, k - 1)'
  BY EditAppends DEF IInv
<1>3. \A j \in Issue : /\ Len(histories[j]) \in Nat /\ updated[j] \in Nat
                       /\ \A k \in 1..Len(histories[j]) : histories[j][k].at \in Nat
  BY HistoryTypes DEF IInv
<1>4. /\ TypeOK'
      /\ \A j \in Issue : Len(histories'[j]) \in Nat
  <2>1. TypeOK'
    BY WholeKept DEF IInv
  <2>2. \A j \in Issue : histories'[j] \in Seq(History)
    BY <2>1 DEF TypeOK
  <2> QED BY <2>1, <2>2
<1>5. ChainInv'
  <2> SUFFICES ASSUME NEW j \in Issue, NEW k \in 1..Len(histories'[j])
               PROVE  /\ histories'[j][k].from = After(j, k - 1)'
                      /\ \A l \in 1..Len(histories'[j]) :
                           k <= l => histories'[j][k].at <= histories'[j][l].at
    BY DEF ChainInv
  <2> DEFINE size == Len(histories[j])
  <2>1. CASE k <= size
    <3>1. k \in 1..size /\ (k # 1 => k - 1 \in 1..size) /\ k \in Nat
      BY <2>1, <1>3, <1>4
    <3>2. /\ histories'[j][k] = histories[j][k]
          /\ k # 1 => histories'[j][k - 1] = histories[j][k - 1]
      BY <1>2, <3>1
    <3>3. After(j, k - 1)' = After(j, k - 1)
      BY <3>1, <3>2 DEF After
    <3>4. histories[j][k].from = After(j, k - 1)
      BY <3>1 DEF TellInv, ChainInv
    <3>5. ASSUME NEW l \in 1..Len(histories'[j]), k <= l
          PROVE  histories'[j][k].at <= histories'[j][l].at
      <4>1. CASE l <= size
        <5>1. l \in 1..size
          BY <4>1, <1>3, <1>4
        <5>2. histories'[j][l] = histories[j][l]
          BY <1>2, <5>1
        <5> QED BY <5>1, <5>2, <3>1, <3>2, <3>5 DEF TellInv, ChainInv
      <4>2. CASE l > size
        <5>1. l \in size + 1 .. Len(histories'[j])
          BY <4>2, <1>3, <1>4
        <5>2. histories'[j][l].at = now
          BY <1>2, <5>1
        <5>3. histories[j][k].at <= updated[j] /\ updated[j] <= now /\ now \in Nat
          BY <3>1 DEF IInv, HistoryInv, ClockInv, TypeOK
        <5> QED BY <5>2, <5>3, <3>1, <3>2, <1>3
      <4> QED BY <4>1, <4>2, <1>3, <1>4
    <3> QED BY <3>2, <3>3, <3>4, <3>5
  <2>2. CASE k > size
    <3>1. k \in size + 1 .. Len(histories'[j])
      BY <2>2, <1>3, <1>4
    <3>2. \A l \in 1..Len(histories'[j]) : k <= l => l \in size + 1 .. Len(histories'[j])
      BY <2>2, <1>3, <1>4
    <3>3. now \in Nat
      BY DEF IInv, TypeOK
    <3> QED BY <1>2, <3>1, <3>2, <3>3
  <2> QED BY <2>1, <2>2, <1>3, <1>4
<1>6. \A n \in Nat : \A j \in Issue : n <= Len(histories[j]) => n <= Len(histories'[j])
  BY <1>2, <1>3, <1>4
<1>7. RowsInv'
  <2>1. \A j \in Issue : rows'[j] <= Len(histories'[j])
    BY <1>1, <1>6, HistoryTypes DEF IInv, TellInv, RowsInv
  <2>2. ASSUME walk # NoWalk PROVE ReadInv'
    <3>1. /\ \A k \in 1..Len(walk.found) :
               walk.found[k].issue \in Issue /\ walk.found[k].total \in Nat
          /\ \A j \in Issue : /\ walk.resolved[j].histories \in Nat /\ walk.got[j] \in Nat
                              /\ walk.bulk[j] \in Nat /\ walk.rows[j] \in Nat
      <4>1. walk.resolved \in [Issue -> Result]
        BY <2>2, WalkTypes DEF IInv
      <4>2. \A j \in Issue : walk.resolved[j].histories \in Nat
        BY <4>1 DEF Result
      <4> QED BY <2>2, <4>2, WalkTypes DEF IInv
    <3>2. ReadInv
      BY <2>2 DEF TellInv, RowsInv
    <3> QED BY <1>1, <1>6, <3>1, <3>2 DEF ReadInv
  <2> QED BY <1>1, <2>1, <2>2 DEF RowsInv
<1>8. IssueInv'
  <2> SUFFICES ASSUME NEW j \in Issue, issues[j] # None
               PROVE  \E n \in 0..Len(histories'[j]) :
                        /\ issues[j].status = After(j, n)'
                        /\ \A k \in 1..n : histories'[j][k].at <= issues[j].updated
    BY <1>1 DEF IssueInv
  <2>1. PICK n \in 0..Len(histories[j]) :
          /\ issues[j].status = After(j, n)
          /\ \A k \in 1..n : histories[j][k].at <= issues[j].updated
    BY DEF TellInv, IssueInv
  <2>2. n \in 0..Len(histories'[j]) /\ \A k \in 1..n : k \in 1..Len(histories[j])
    BY <1>3, <1>4, <1>2
  <2>3. \A k \in 1..n : histories'[j][k] = histories[j][k]
    BY <1>2, <2>2
  <2>4. After(j, n)' = After(j, n)
    <3>1. n # 0 => n \in 1..n
      BY <1>3
    <3> QED BY <2>3, <3>1 DEF After
  <2> QED BY <2>1, <2>2, <2>3, <2>4
<1> QED BY <1>1, <1>5, <1>7, <1>8 DEF TellInv, NowInv

LEMMA OtherTell ==
  ASSUME IInv, TellInv, Tick \/ \E i \in Issue : LoadIssue(i)
  PROVE  TellInv'
<1>1. UNCHANGED <<histories, updated, walk, rows>>
  BY DEF Tick, LoadIssue, raw, jira
<1>2. \A i, n : After(i, n)' = After(i, n)
  BY <1>1 DEF After
<1>3. ChainInv' /\ RowsInv'
  BY <1>1, <1>2 DEF TellInv, ChainInv, RowsInv, ReadInv
<1>4. CASE Tick
  <2>1. UNCHANGED issues /\ now' <= MaxClock
    <3>1. now \in Nat /\ MaxClock \in Nat
      <4>1. {EmbedMax, IdRollover, Overlap, MaxClock, MaxHistories} \subseteq Nat
        BY SizesType
      <4> QED BY <4>1 DEF IInv, TypeOK
    <3> QED BY <3>1, <1>4 DEF Tick, raw
  <2> QED BY <2>1, <1>1, <1>2, <1>3 DEF TellInv, IssueInv, NowInv
<1>5. ASSUME NEW i \in Issue, LoadIssue(i) PROVE TellInv'
  <2>1. /\ UNCHANGED now
        /\ \A j \in Issue : j # i => issues'[j] = issues[j]
        /\ issues'[i] = [updated |-> updated[i], status |-> CurrentStatus(i)]
    BY <1>5 DEF LoadIssue, jira, IInv, TypeOK
  <2>2. CurrentStatus(i) = After(i, Len(histories[i])) /\ Len(histories[i]) \in Nat
    <3>1. histories[i] \in Seq(History) /\ Len(histories[i]) \in Nat
      BY DEF IInv, TypeOK
    <3> QED BY <3>1 DEF CurrentStatus, After, Last
  <2>3. IssueInv'
    <3> SUFFICES ASSUME NEW j \in Issue, issues'[j] # None
                 PROVE  \E n \in 0..Len(histories[j]) :
                          /\ issues'[j].status = After(j, n)
                          /\ \A k \in 1..n : histories[j][k].at <= issues'[j].updated
      BY <1>1, <1>2 DEF IssueInv
    <3>1. CASE j # i
      BY <3>1, <2>1 DEF TellInv, IssueInv
    <3>2. CASE j = i
      <4>1. \A k \in 1..Len(histories[i]) : histories[i][k].at <= updated[i]
        BY DEF IInv, HistoryInv
      <4> QED BY <3>2, <4>1, <2>1, <2>2
    <3> QED BY <3>1, <3>2
  <2> QED BY <1>3, <2>1, <2>3 DEF TellInv, NowInv
<1> QED BY <1>4, <1>5

-----------------------------------------------------------------------------
(* The walk.                                                               *)
LEMMA WalkTell ==
  ASSUME TellInv, UNCHANGED <<jira, issues>>, RowsInv'
  PROVE  TellInv'
<1>1. UNCHANGED <<histories, now, issues>>
  BY DEF jira
<1> QED BY <1>1 DEF TellInv, ChainInv, IssueInv, NowInv, After

(* What a step of a walk has to keep.                                      *)
LEMMA ReadTell ==
  ASSUME TellInv, UNCHANGED <<jira, raw>>, walk # NoWalk,
         ReadInv => ReadInv'
  PROVE  TellInv'
<1>1. UNCHANGED <<histories, rows, issues>>
  BY DEF jira, raw
<1>2. RowsInv'
  BY <1>1 DEF TellInv, RowsInv
<1> QED BY <1>1, <1>2, WalkTell

LEMMA StartTell ==
  ASSUME IInv, TellInv, NEW limit \in Limits, StartWalk(limit)
  PROVE  TellInv'
<1>1. UNCHANGED <<jira, raw>> /\ UNCHANGED <<histories, rows, issues>>
  BY DEF StartWalk, jira, raw
<1>2. /\ walk'.found = << >> /\ walk'.resolved = Unresolved
      /\ walk'.got = NothingRead /\ walk'.bulk = NothingRead /\ walk'.rows = NothingRead
  BY DEF StartWalk
<1>3. \A i \in Issue : Len(histories[i]) \in Nat
  BY HistoryTypes DEF IInv
<1>4. \A i \in Issue : NothingRead[i] = 0 /\ Unresolved[i].histories = 0
  BY DEF NothingRead, Unresolved
<1>5. ReadInv'
  BY <1>1, <1>2, <1>3, <1>4 DEF ReadInv
<1> QED BY <1>1, <1>5, WalkTell DEF TellInv, RowsInv

LEMMA SearchTell ==
  ASSUME IInv, TellInv, SearchPage
  PROVE  TellInv'
<1>1. walk # NoWalk /\ walk.step = "search" /\ UNCHANGED <<jira, raw>>
  BY DEF SearchPage, NoWalk
<1>2. walk \in Walk /\ Len(walk.found) \in Nat
  BY <1>1, WalkTypes DEF IInv
<1>3. PICK found \in Seq(FoundRow) : \E last \in BOOLEAN :
        /\ walk' = [walk EXCEPT !.found = found, !.last = last]
        /\ \A k \in 1..Len(walk.found) : found[k] = walk.found[k]
        /\ \A k \in Len(walk.found) + 1 .. Len(found) :
             found[k].issue \in Issue /\ found[k].total = Len(histories[found[k].issue])
  BY PageAppended
<1>4. /\ walk'.found = found /\ walk'.resolved = walk.resolved /\ walk'.got = walk.got
      /\ walk'.bulk = walk.bulk /\ walk'.rows = walk.rows /\ UNCHANGED histories
  BY <1>1, <1>2, <1>3 DEF Walk, jira
<1>5. ASSUME ReadInv, NEW k \in 1..Len(found)
      PROVE  found[k].total <= Len(histories[found[k].issue])
  <2>1. CASE k <= Len(walk.found)
    <3>1. k \in 1..Len(walk.found)
      BY <2>1, <1>2
    <3> QED BY <3>1, <1>3, <1>5 DEF ReadInv
  <2>2. CASE k > Len(walk.found)
    <3>1. k \in Len(walk.found) + 1 .. Len(found)
      BY <2>2, <1>2
    <3>2. found[k].issue \in Issue /\ found[k].total = Len(histories[found[k].issue])
      BY <3>1, <1>3
    <3>3. Len(histories[found[k].issue]) \in Nat
      BY <3>2, HistoryTypes DEF IInv
    <3> QED BY <3>2, <3>3
  <2> QED BY <2>1, <2>2, <1>2
<1>6. ReadInv => ReadInv'
  BY <1>4, <1>5 DEF ReadInv
<1> QED BY <1>1, <1>6, ReadTell

LEMMA ExpandTell ==
  ASSUME IInv, TellInv, Expand
  PROVE  TellInv'
<1> DEFINE whole(i) == {k \in RowsOf(walk.found, i) : FromExpand(walk.found[k]).complete}
           resolved == [i \in Issue |-> IF whole(i) = {} THEN walk.resolved[i]
                                        ELSE FromExpand(walk.found[Max(whole(i))])]
<1>1. walk # NoWalk /\ UNCHANGED <<jira, raw>> /\ Batch(walk) # {}
  BY DEF Expand, ExpandInOrder, NoWalk
<1>2. walk \in Walk /\ Len(walk.found) \in Nat
  BY <1>1, WalkTypes DEF IInv
<1>3. /\ walk'.found = walk.found /\ walk'.resolved = resolved
      /\ walk'.got = NothingRead /\ walk'.bulk = NothingRead /\ walk'.rows = walk.rows
      /\ UNCHANGED histories
  BY <1>1, <1>2 DEF Expand, ExpandInOrder, Walk, jira
<1>4. ASSUME ReadInv, NEW i \in Issue PROVE resolved[i].histories <= Len(histories[i])
  <2>1. CASE whole(i) = {}
    BY <2>1, <1>4 DEF ReadInv
  <2>2. CASE whole(i) # {}
    <3> DEFINE m == Max(whole(i))
    <3>1. whole(i) \in SUBSET (1..Len(walk.found))
      BY <1>1, BatchTypes DEF RowsOf, IInv
    <3>2. m \in whole(i)
      <4> DEFINE S == whole(i)
                 n == Len(walk.found)
      <4>1. S \in SUBSET (1..n) /\ S # {} /\ n \in Nat
        BY <1>2, <2>2, <3>1
      <4> HIDE DEF S, n
      <4>2. Max(S) \in S
        BY <4>1, MaxIsIn
      <4> QED BY <4>2 DEF S
    <3>3. m \in 1..Len(walk.found) /\ walk.found[m].issue = i
      BY <3>1, <3>2 DEF RowsOf
    <3>4. resolved[i].histories = LowerOf(walk.found[m].total, EmbedMax)
      BY <2>2 DEF FromExpand
    <3> HIDE DEF m, resolved
    <3>5. walk.found[m].total \in Nat /\ walk.found[m].total <= Len(histories[i])
      BY <1>1, <1>4, <3>3, WalkTypes DEF ReadInv, IInv
    <3> QED BY <3>4, <3>5, Bounds, SizeTypes, HistoryTypes DEF IInv
  <2> QED BY <2>1, <2>2
<1> HIDE DEF resolved
<1>5. \A i \in Issue : NothingRead[i] <= Len(histories[i])
  BY HistoryTypes, ArrayTypes DEF IInv
<1>6. ReadInv => ReadInv'
  BY <1>3, <1>4, <1>5 DEF ReadInv
<1> QED BY <1>1, <1>6, ReadTell

LEMMA BulkPageTell ==
  ASSUME IInv, TellInv, NEW i \in Issue, BulkPage(i)
  PROVE  TellInv'
<1> DEFINE got == LowerOf(walk.got[i] + HistoryPage, Len(histories[i]))
<1>1. walk # NoWalk /\ UNCHANGED <<jira, raw>>
  <2>1. walk.step = "bulk" /\ UNCHANGED <<jira, raw>>
    BY Zenon DEF BulkPage
  <2> QED BY <2>1 DEF NoWalk
<1>2. walk \in Walk /\ walk.got \in [Issue -> Nat]
  BY <1>1, WalkTypes DEF IInv
<1>3. got <= Len(histories[i])
  <2>1. walk.got[i] + HistoryPage \in Nat /\ Len(histories[i]) \in Nat
    BY <1>2, SizeTypes, HistoryTypes DEF IInv
  <2> QED BY <2>1, Bounds
<1> HIDE DEF got
<1>4. walk' = [walk EXCEPT !.got = [walk.got EXCEPT ![i] = got], !.read = walk'.read]
  BY <1>2 DEF BulkPage, got, Walk
<1>5. /\ walk'.found = walk.found /\ walk'.resolved = walk.resolved
      /\ walk'.got = [walk.got EXCEPT ![i] = got]
      /\ walk'.bulk = walk.bulk /\ walk'.rows = walk.rows /\ UNCHANGED histories
  BY <1>1, <1>2, <1>4 DEF Walk, jira
<1>6. ReadInv => ReadInv'
  BY <1>2, <1>3, <1>5 DEF ReadInv
<1> QED BY <1>1, <1>6, ReadTell

LEMMA ChunkTell ==
  ASSUME IInv, TellInv, walk # NoWalk, UNCHANGED <<jira, raw>>, NEW chunk, NEW bulk,
         bulk \in [Issue -> Nat], \A i \in Issue : ReadInv => bulk[i] <= Len(histories[i]),
         ChunkDone(chunk, bulk)
  PROVE  TellInv'
<1> DEFINE resolved == [i \in Issue |-> IF bulk[i] = 0 THEN walk.resolved[i]
                                        ELSE [complete |-> TRUE, histories |-> bulk[i]]]
<1>1. walk \in Walk
  BY WalkTypes DEF IInv
<1>2. /\ walk'.found = walk.found /\ walk'.got = NothingRead /\ walk'.rows = walk.rows
      /\ walk'.bulk = bulk \/ walk'.bulk = NothingRead
      /\ walk'.resolved = walk.resolved \/ walk'.resolved = resolved
      /\ UNCHANGED histories
  BY <1>1 DEF ChunkDone, Walk, jira
<1>3. \A i \in Issue : NothingRead[i] <= Len(histories[i])
  BY HistoryTypes, ArrayTypes DEF IInv
<1>4. ReadInv => \A i \in Issue : resolved[i].histories <= Len(histories[i])
  BY DEF ReadInv
<1> HIDE DEF resolved
<1>5. ReadInv => ReadInv'
  BY <1>2, <1>3, <1>4 DEF ReadInv
<1> QED BY <1>5, ReadTell

LEMMA BulkEndsTell ==
  ASSUME IInv, TellInv, BulkEnd \/ BulkRejected \/ BulkUnavailable
  PROVE  TellInv'
<1>1. walk # NoWalk /\ UNCHANGED <<jira, raw>>
  <2>1. walk.step = "bulk" /\ UNCHANGED <<jira, raw>>
    BY Zenon DEF BulkEnd, BulkRejected, BulkUnavailable
  <2> QED BY <2>1 DEF NoWalk
<1>2. walk.bulk \in [Issue -> Nat] /\ walk.got \in [Issue -> Nat]
  BY <1>1, WalkTypes DEF IInv
<1>3. CASE BulkEnd
  <2> DEFINE bulk == [i \in Issue |-> IF i \in walk.read THEN walk.got[i] ELSE walk.bulk[i]]
  <2>1. ChunkDone(Chunk(walk), bulk)
    BY <1>3 DEF BulkEnd
  <2>2. bulk \in [Issue -> Nat] /\ \A i \in Issue : ReadInv => bulk[i] <= Len(histories[i])
    BY <1>2 DEF ReadInv
  <2> HIDE DEF bulk
  <2> QED BY <1>1, <2>1, <2>2, ChunkTell
<1>4. CASE BulkRejected \/ BulkUnavailable
  <2>1. PICK chunk : ChunkDone(chunk, walk.bulk)
    BY <1>4, Zenon DEF BulkRejected, BulkUnavailable
  <2> QED BY <1>1, <1>2, <2>1, ChunkTell DEF ReadInv
<1> QED BY <1>3, <1>4

LEMMA SingleTell ==
  ASSUME IInv, TellInv, SinglePage \/ SingleMissing
  PROVE  TellInv'
<1>1. walk # NoWalk /\ walk.step = "single" /\ UNCHANGED <<jira, raw>>
  <2>1. walk.step = "single" /\ UNCHANGED <<jira, raw>>
    BY Zenon DEF SinglePage, SingleMissing
  <2> QED BY <2>1 DEF NoWalk
<1>2. /\ walk \in Walk /\ walk.got \in [Issue -> Nat] /\ walk.resolved \in [Issue -> Result]
      /\ walk.pending \in SUBSET Nat /\ UNCHANGED histories
  BY <1>1, WalkTypes DEF IInv, jira
<1>3. \A i \in Issue : Len(histories[i]) \in Nat /\ NothingRead[i] <= Len(histories[i])
  BY HistoryTypes, ArrayTypes DEF IInv
<1>4. ASSUME NEW p \in Unasked(walk), NEW result,
             result.histories <= Len(histories[walk.found[p].issue]), SingleDone(p, result)
      PROVE  TellInv'
  <2> DEFINE i == walk.found[p].issue
  <2>1. /\ walk'.found = walk.found /\ walk'.resolved = [walk.resolved EXCEPT ![i] = result]
        /\ walk'.got = NothingRead /\ walk'.bulk = walk.bulk /\ walk'.rows = walk.rows
    BY <1>2, <1>4 DEF SingleDone, Walk
  <2>2. ReadInv => ReadInv'
    BY <1>2, <1>3, <1>4, <2>1 DEF ReadInv
  <2> QED BY <1>1, <2>2, ReadTell
<1>5. CASE SinglePage
  <2>1. PICK p \in Unasked(walk) :
          LET i   == walk.found[p].issue
              got == LowerOf(walk.got[i] + HistoryPage, Len(histories[i]))
          IN IF got < Len(histories[i])
             THEN walk' = [walk EXCEPT !.got[i] = got]
             ELSE SingleDone(p, [complete |-> TRUE, histories |-> got])
    BY <1>5 DEF SinglePage
  <2> DEFINE i   == walk.found[p].issue
             got == LowerOf(walk.got[i] + HistoryPage, Len(histories[i]))
  <2>2. p \in 1..Len(walk.found) /\ i \in Issue
    <3>1. walk.pending \subseteq 1..Len(walk.found)
      BY <1>1, WalkHas DEF BatchInv, InBatch
    <3> QED BY <1>1, <3>1, WalkTypes DEF Unasked, IInv
  <2>3. got <= Len(histories[i])
    <3>1. walk.got[i] + HistoryPage \in Nat /\ Len(histories[i]) \in Nat
      BY <1>2, <1>3, <2>2, SizeTypes
    <3> QED BY <3>1, Bounds
  <2>4. CASE got < Len(histories[i])
    <3> HIDE DEF got
    <3>1. walk' = [walk EXCEPT !.got = [walk.got EXCEPT ![i] = got]]
      BY <1>2, <2>1, <2>4 DEF Walk, got
    <3>2. /\ walk'.found = walk.found /\ walk'.resolved = walk.resolved
          /\ walk'.got = [walk.got EXCEPT ![i] = got]
          /\ walk'.bulk = walk.bulk /\ walk'.rows = walk.rows
      BY <1>2, <3>1 DEF Walk
    <3>3. ReadInv => ReadInv'
      BY <1>2, <2>3, <3>2 DEF ReadInv
    <3> QED BY <1>1, <3>3, ReadTell
  <2>5. CASE ~(got < Len(histories[i]))
    <3> DEFINE result == [complete |-> TRUE, histories |-> got]
    <3>1. SingleDone(p, result) /\ result.histories = got
      BY <2>1, <2>5
    <3> HIDE DEF result, got
    <3> QED BY <1>4, <2>3, <3>1
  <2> QED BY <2>4, <2>5
<1>6. CASE SingleMissing
  <2> DEFINE result == [complete |-> FALSE, histories |-> 0]
  <2>1. PICK p \in Unasked(walk) : SingleDone(p, result)
    BY <1>6 DEF SingleMissing
  <2>2. walk.found[p].issue \in Issue
    <3>1. walk.pending \subseteq 1..Len(walk.found)
      BY <1>1, WalkHas DEF BatchInv, InBatch
    <3> QED BY <1>1, <3>1, WalkTypes DEF Unasked, IInv
  <2>3. result.histories <= Len(histories[walk.found[p].issue])
    BY <1>3, <2>2
  <2> HIDE DEF result
  <2> QED BY <1>4, <2>1, <2>3
<1> QED BY <1>5, <1>6

LEMMA YieldTell ==
  ASSUME IInv, TellInv, Yield
  PROVE  TellInv'
<1> DEFINE k == walk.taken + 1
           i == walk.found[k].issue
           n == HigherOf(walk.rows[i], walk.resolved[i].histories)
<1>1. walk # NoWalk /\ walk.step = "yield" /\ UNCHANGED <<jira, raw>>
  <2>1. walk.step = "yield" /\ UNCHANGED <<jira, raw>>
    BY Zenon DEF Yield
  <2> QED BY <2>1 DEF NoWalk
<1>2. walk \in Walk /\ walk.rows \in [Issue -> Nat] /\ UNCHANGED histories
  BY <1>1, WalkTypes DEF IInv, jira
<1>3. /\ walk'.found = walk.found
      /\ walk'.resolved = walk.resolved \/ walk'.resolved = Unresolved
      /\ walk'.got = walk.got /\ walk'.bulk = walk.bulk
      /\ walk'.rows = [walk.rows EXCEPT ![i] = n]
  BY <1>2 DEF Yield, Walk
<1>4. \A j \in Issue : Len(histories[j]) \in Nat /\ Unresolved[j].histories = 0
  BY HistoryTypes DEF IInv, Unresolved
<1>5. ASSUME ReadInv, i \in Issue PROVE n <= Len(histories[i])
  BY <1>5 DEF HigherOf, ReadInv
<1> HIDE DEF n, i
<1>6. ReadInv => \A j \in Issue : walk'.rows[j] <= Len(histories[j])
  <2> SUFFICES ASSUME ReadInv, NEW j \in Issue PROVE walk'.rows[j] <= Len(histories[j])
    OBVIOUS
  <2>1. CASE j = i
    BY <2>1, <1>2, <1>3, <1>5
  <2>2. CASE j # i
    BY <2>2, <1>2, <1>3 DEF ReadInv
  <2> QED BY <2>1, <2>2
<1>7. ReadInv => ReadInv'
  BY <1>2, <1>3, <1>4, <1>6 DEF ReadInv
<1> QED BY <1>1, <1>7, ReadTell

LEMMA FinishTell ==
  ASSUME IInv, TellInv, Finish
  PROVE  TellInv'
<1>1. walk # NoWalk /\ walk' = NoWalk /\ UNCHANGED jira /\ UNCHANGED issues
  BY DEF Finish, NoWalk
<1>2. \A i \in Issue : rows'[i] = HigherOf(rows[i], walk.rows[i])
  BY DEF Finish
<1>3. \A i \in Issue : rows'[i] <= Len(histories[i])
  BY <1>1, <1>2 DEF HigherOf, TellInv, RowsInv, ReadInv
<1>4. RowsInv'
  BY <1>1, <1>3 DEF RowsInv, jira
<1> QED BY <1>1, <1>4, WalkTell

LEMMA NextTell == IInv /\ TellInv /\ [Next]_vars => TellInv'
<1> SUFFICES ASSUME IInv, TellInv, [Next]_vars PROVE TellInv'
  OBVIOUS
<1>1. CASE Tick
  BY <1>1, OtherTell
<1>2. ASSUME NEW i \in Issue, LoadIssue(i) PROVE TellInv'
  BY <1>2, OtherTell
<1>3. ASSUME NEW i \in Issue, NEW tos \in Targets, Edit(i, tos) PROVE TellInv'
  BY <1>3, EditTell
<1>4. ASSUME NEW limit \in Limits, StartWalk(limit) PROVE TellInv'
  BY <1>4, StartTell
<1>5. CASE WalkStep
  BY <1>5, SearchTell, ExpandTell, BulkPageTell, BulkEndsTell, SingleTell, YieldTell, FinishTell
     DEF WalkStep
<1>6. CASE Fail
  <2>1. walk' = NoWalk /\ UNCHANGED <<histories, rows, issues>> /\ UNCHANGED jira
    BY <1>6 DEF Fail, jira, raw
  <2>2. RowsInv'
    BY <2>1 DEF TellInv, RowsInv
  <2> QED BY <2>1, <2>2, WalkTell
<1>7. CASE UNCHANGED vars
  <2>1. UNCHANGED <<histories, rows, issues, walk, now>>
    BY <1>7 DEF vars, jira, raw
  <2> QED BY <2>1 DEF TellInv, ChainInv, RowsInv, ReadInv, IssueInv, NowInv, After
<1> QED BY <1>1, <1>2, <1>3, <1>4, <1>5, <1>6, <1>7 DEF Next

-----------------------------------------------------------------------------
(* What the query makes of a changelog.                                    *)

(* Between two histories of one stamp the ids do not get a digit longer.   *)
NoEditStraddles ==
  \A i \in Issue : \A j, k \in 1..Len(histories[i]) :
    histories[i][j].at = histories[i][k].at => (j < IdRollover <=> k < IdRollover)

(* The histories between two changes keep the status.                      *)
LEMMA StatusKept ==
  ASSUME IInv, ChainInv, NEW i \in Issue, NEW m \in 0..Len(histories[i]), NEW n \in 0..m,
         \A k \in n + 1 .. m : histories[i][k].from = histories[i][k].to
  PROVE  After(i, m) = After(i, n)
<1> DEFINE T == {k \in n..m : After(i, k) # After(i, n)}
           R == OpToRel(<, Nat)
<1> SUFFICES ASSUME After(i, m) # After(i, n) PROVE FALSE
  OBVIOUS
<1>1. Len(histories[i]) \in Nat /\ n \in Nat /\ m \in Nat /\ n <= m
  BY HistoryTypes DEF IInv
<1>2. m \in T /\ T \subseteq Nat
  BY <1>1
<1>3. PICK k \in T : \A l \in T : <<l, k>> \notin R
  <2>1. IsWellFoundedOn(R, Nat)
    BY NatLessThanWellFounded
  <2> HIDE DEF T, R
  <2> QED BY <2>1, <1>2, WFMin
<1>4. k \in n + 1 .. m /\ k - 1 \in n..m /\ k \in 1..Len(histories[i]) /\ k # 0
  <2>1. k \in n..m /\ After(i, k) # After(i, n)
    BY <1>3
  <2>2. k # n
    BY <2>1
  <2> QED BY <1>1, <2>1, <2>2
<1>5. After(i, k - 1) = After(i, n)
  <2>1. k - 1 \in Nat /\ k \in Nat /\ k - 1 < k
    BY <1>1, <1>4
  <2>2. k - 1 \notin T
    BY <1>3, <2>1 DEF OpToRel
  <2> QED BY <2>2, <1>4
<1>6. histories[i][k].from = After(i, k - 1) /\ histories[i][k].from = histories[i][k].to
  BY <1>4 DEF ChainInv
<1>7. After(i, k) = histories[i][k].to
  BY <1>4 DEF After
<1> QED BY <1>3, <1>5, <1>6, <1>7

(* The changes are numbered in the order they were made.                   *)
LEMMA ChangesInOrder ==
  ASSUME IInv, TellInv, NoEditStraddles, NEW i \in Issue
  PROVE  \E count \in Nat : \E at \in [1..count -> 1..rows[i]] :
           /\ \A m, n \in 1..count : m < n => at[m] < at[n]
           /\ \A k \in 1..rows[i] :
                histories[i][k].from # histories[i][k].to <=> \E n \in 1..count : at[n] = k
           /\ DOMAIN Intervals(i) = 0..count
           /\ \A n \in 0..count :
                /\ Intervals(i)[n].status = IF n > 0 THEN histories[i][at[n]].to
                                            ELSE IF count > 0 THEN histories[i][at[1]].from
                                            ELSE issues[i].status
                /\ Intervals(i)[n].entered = IF n > 0 THEN histories[i][at[n]].at ELSE 0
                /\ Intervals(i)[n].exited = IF n < count THEN histories[i][at[n + 1]].at ELSE Open
<1> DEFINE h == histories[i]
           C == {j \in 1..rows[i] : h[j].from # h[j].to}
           count == Cardinality(C)
           rn(j) == 1 + Cardinality({k \in C : Ordered(h, k, j)})
           pick(n) == CHOOSE j \in C : rn(j) = n
           at == [n \in 1..count |-> pick(n)]
           rank == [j \in C |-> 1 + Cardinality({k \in C : k < j})]
<1>1. rows[i] \in Nat /\ Len(h) \in Nat /\ rows[i] <= Len(h)
  BY HistoryTypes DEF IInv, TellInv, RowsInv
<1>2. C \in SUBSET (1..rows[i]) /\ C \subseteq 1..Len(h) /\ \A j \in C : j \in Nat
  BY <1>1
<1>3. \A j, k \in C : Ordered(h, k, j) <=> k < j
  <2> SUFFICES ASSUME NEW j \in C, NEW k \in C PROVE Ordered(h, k, j) <=> k < j
    OBVIOUS
  <2>1. j \in 1..Len(h) /\ k \in 1..Len(h) /\ j \in Nat /\ k \in Nat
    BY <1>2
  <2>2. h[j].at \in Nat /\ h[k].at \in Nat
    BY <2>1, HistoryTypes DEF IInv
  <2>3. (j <= k => h[j].at <= h[k].at) /\ (k <= j => h[k].at <= h[j].at)
    BY <2>1 DEF TellInv, ChainInv
  <2>4. h[j].at = h[k].at => (j < IdRollover <=> k < IdRollover)
    BY <2>1 DEF NoEditStraddles
  <2>5. IdRollover \in Nat
    <3>1. {EmbedMax, IdRollover, Overlap, MaxClock, MaxHistories} \subseteq Nat
      BY SizesType
    <3> QED BY <3>1
  <2>6. h[j].at = h[k].at => (IdBefore(k, j) <=> k < j)
    <3>1. (k < IdRollover) \in BOOLEAN /\ (j < IdRollover) \in BOOLEAN
      OBVIOUS
    <3> HIDE DEF h, C
    <3> QED BY <2>1, <2>4, <2>5, <3>1 DEF IdBefore
  <2> HIDE DEF h, C
  <2> QED BY <2>1, <2>2, <2>3, <2>6 DEF Ordered
<1>4. \A j \in C : rn(j) = rank[j]
  <2> SUFFICES ASSUME NEW j \in C PROVE rn(j) = rank[j]
    OBVIOUS
  <2>1. {k \in C : Ordered(h, k, j)} = {k \in C : k < j}
    <3> HIDE DEF C, h
    <3> QED BY <1>3
  <2> HIDE DEF C, h
  <2> QED BY <2>1
<1>5. /\ count \in Nat
      /\ \A j \in C : rank[j] \in 1..count
      /\ \A j, k \in C : j < k => rank[j] < rank[k]
      /\ \A m \in 1..count : \E j \in C : rank[j] = m
  <2> DEFINE bound == rows[i]
  <2>1. bound \in Nat /\ C \in SUBSET (1..bound)
    BY <1>1
  <2> HIDE DEF bound, C
  <2> QED BY <2>1, RankOfChanges
<1>6. \A n \in 1..count : pick(n) \in C /\ rank[pick(n)] = n
  <2> SUFFICES ASSUME NEW n \in 1..count PROVE pick(n) \in C /\ rank[pick(n)] = n
    OBVIOUS
  <2>1. \E j \in C : rn(j) = n
    BY <1>4, <1>5
  <2> HIDE DEF C, rn
  <2>2. pick(n) \in C /\ rn(pick(n)) = n
    BY <2>1
  <2> QED BY <1>4, <2>2
<1>7. Intervals(i) =
        [seq \in 0..count |->
          [status  |-> IF seq > 0 THEN h[pick(seq)].to
                       ELSE IF count > 0 THEN h[pick(1)].from ELSE issues[i].status,
           entered |-> IF seq > 0 THEN h[pick(seq)].at ELSE 0,
           exited  |-> IF seq < count THEN h[pick(seq + 1)].at ELSE Open]]
  BY Zenon DEF Intervals
<1> HIDE DEF C, count, pick, rank, h, rn
<1>8. \A n \in 1..count : at[n] = pick(n)
  OBVIOUS
<1>9. at \in [1..count -> 1..rows[i]]
  BY <1>2, <1>6
<1> HIDE DEF at
<1>10. \A m, n \in 1..count : m < n => at[m] < at[n]
  <2> SUFFICES ASSUME NEW m \in 1..count, NEW n \in 1..count, m < n PROVE at[m] < at[n]
    OBVIOUS
  <2>1. /\ at[m] \in C /\ at[n] \in C /\ rank[at[m]] = m /\ rank[at[n]] = n
        /\ at[m] \in Nat /\ at[n] \in Nat
    BY <1>2, <1>6, <1>8
  <2> QED BY <1>5, <2>1
<1>11. \A k \in 1..rows[i] : h[k].from # h[k].to <=> \E n \in 1..count : at[n] = k
  <2> SUFFICES ASSUME NEW k \in 1..rows[i] PROVE k \in C <=> \E n \in 1..count : at[n] = k
    BY DEF C
  <2>1. ASSUME k \in C PROVE \E n \in 1..count : at[n] = k
    <3>1. rank[k] \in 1..count
      BY <1>5, <2>1
    <3>2. pick(rank[k]) \in C /\ rank[pick(rank[k])] = rank[k]
      BY <1>6, <3>1
    <3>3. pick(rank[k]) = k
      <4> DEFINE p == pick(rank[k])
      <4>1. p \in C /\ rank[p] = rank[k]
        BY <3>2
      <4> HIDE DEF p
      <4>2. p \in Nat /\ k \in Nat
        BY <1>2, <4>1
      <4>3. rank[k] \in Nat
        BY <1>5, <3>1
      <4>4. ~(k < p) /\ ~(p < k)
        BY <1>5, <2>1, <4>1, <4>3
      <4>5. p = k
        BY <4>2, <4>4
      <4> QED BY <4>5 DEF p
    <3> QED BY <1>8, <3>1, <3>3
  <2> QED BY <2>1, <1>6, <1>8
<1>12. \A n \in 0..count :
         /\ n > 0 => n \in 1..count
         /\ count > 0 => 1 \in 1..count
         /\ n < count => n + 1 \in 1..count
  BY <1>5
<1>13. \A n \in 0..count :
         /\ Intervals(i)[n].status = IF n > 0 THEN h[at[n]].to
                                     ELSE IF count > 0 THEN h[at[1]].from ELSE issues[i].status
         /\ Intervals(i)[n].entered = IF n > 0 THEN h[at[n]].at ELSE 0
         /\ Intervals(i)[n].exited = IF n < count THEN h[at[n + 1]].at ELSE Open
  BY <1>7, <1>8, <1>12
<1>14. DOMAIN Intervals(i) = 0..count
  BY <1>7
<1> QED BY <1>5, <1>9, <1>10, <1>11, <1>13, <1>14 DEF h

(* The interval that holds an instant is the one after the last change.    *)
LEMMA TellOfInv == IInv /\ TellInv /\ NoEditStraddles => IntervalsTellHistory
<1> SUFFICES ASSUME IInv, TellInv, NoEditStraddles,
                    NEW i \in Issue, Trusted(i), issues[i] # None,
                    NEW t \in 0..status[i].updated
             PROVE  LET iv == Intervals(i)
                        holds == {s \in DOMAIN iv : iv[s].entered <= t /\ t < iv[s].exited}
                    IN /\ Cardinality(holds) = 1
                       /\ \A s \in holds : iv[s].status = StatusAt(i, t)
  BY DEF IntervalsTellHistory
<1> DEFINE h  == histories[i]
           iv == Intervals(i)
<1>1. /\ Len(h) \in Nat /\ rows[i] \in Nat /\ rows[i] <= Len(h)
      /\ \A k \in 1..Len(h) : h[k].at \in Nat
  BY HistoryTypes DEF IInv, TellInv, RowsInv
<1>2. PICK count \in Nat : \E at \in [1..count -> 1..rows[i]] :
        /\ \A m, n \in 1..count : m < n => at[m] < at[n]
        /\ \A k \in 1..rows[i] : h[k].from # h[k].to <=> \E n \in 1..count : at[n] = k
        /\ DOMAIN iv = 0..count
        /\ \A n \in 0..count :
             /\ iv[n].status = IF n > 0 THEN h[at[n]].to
                               ELSE IF count > 0 THEN h[at[1]].from ELSE issues[i].status
             /\ iv[n].entered = IF n > 0 THEN h[at[n]].at ELSE 0
             /\ iv[n].exited = IF n < count THEN h[at[n + 1]].at ELSE Open
  BY ChangesInOrder
<1>3. PICK at \in [1..count -> 1..rows[i]] :
        /\ \A m, n \in 1..count : m < n => at[m] < at[n]
        /\ \A k \in 1..rows[i] : h[k].from # h[k].to <=> \E n \in 1..count : at[n] = k
        /\ DOMAIN iv = 0..count
        /\ \A n \in 0..count :
             /\ iv[n].status = IF n > 0 THEN h[at[n]].to
                               ELSE IF count > 0 THEN h[at[1]].from ELSE issues[i].status
             /\ iv[n].entered = IF n > 0 THEN h[at[n]].at ELSE 0
             /\ iv[n].exited = IF n < count THEN h[at[n + 1]].at ELSE Open
  BY <1>2
<1> HIDE DEF iv
<1>4. \A n \in 1..count : /\ at[n] \in 1..rows[i] /\ at[n] \in 1..Len(h) /\ at[n] \in Nat
                          /\ h[at[n]].at \in Nat
  BY <1>1, <1>3
<1>5. \A j, k \in 1..Len(h) : j <= k => h[j].at <= h[k].at
  BY DEF TellInv, ChainInv
<1>6. \A m, n \in 1..count : m <= n => h[at[m]].at <= h[at[n]].at
  <2> SUFFICES ASSUME NEW m \in 1..count, NEW n \in 1..count, m <= n
               PROVE  h[at[m]].at <= h[at[n]].at
    OBVIOUS
  <2>1. CASE m = n
    BY <2>1, <1>4
  <2>2. CASE m # n
    <3>1. at[m] < at[n]
      BY <2>2, <1>3
    <3> QED BY <3>1, <1>4, <1>5
  <2> QED BY <2>1, <2>2
(* m is the number of changes up to t.                                     *)
<1>7. PICK m \in 0..count : \A n \in 1..count : h[at[n]].at <= t <=> n <= m
  <2> DEFINE S == {n \in 1..count : h[at[n]].at <= t}
  <2>1. CASE S = {}
    <3>1. \A n \in 1..count : ~(h[at[n]].at <= t) /\ ~(n <= 0)
      BY <2>1
    <3>2. 0 \in 0..count
      OBVIOUS
    <3> QED BY <3>1, <3>2
  <2>2. CASE S # {}
    <3>1. S \in SUBSET (1..count)
      OBVIOUS
    <3> DEFINE m == Max(S)
    <3>2. m \in S /\ \A n \in S : n <= m
      <4> HIDE DEF S
      <4> QED BY <2>2, <3>1, MaxIsIn
    <3> HIDE DEF m
    <3>3. ASSUME NEW n \in 1..count, n <= m PROVE h[at[n]].at <= t
      <4>1. m \in 1..count /\ h[at[m]].at <= t /\ h[at[n]].at <= h[at[m]].at
        BY <1>6, <3>2, <3>3
      <4> QED BY <4>1, <1>4, <1>1
    <3> QED BY <3>2, <3>3
  <2> QED BY <2>1, <2>2
<1>8. t < Open /\ t \in Nat
  <2>1. MaxClock \in Nat
    <3>1. {EmbedMax, IdRollover, Overlap, MaxClock, MaxHistories} \subseteq Nat
      BY SizesType
    <3> QED BY <3>1
  <2>2. /\ status[i].updated <= updated[i] /\ updated[i] <= now /\ now <= MaxClock
        /\ status[i].updated \in Nat /\ updated[i] \in Nat /\ now \in Nat
    <3>1. status[i] \in StatusRow
      BY DEF Trusted, IInv, TypeOK
    <3>2. status[i].updated \in Nat
      BY <3>1 DEF StatusRow
    <3> QED BY <3>2 DEF Trusted, IInv, StoredInv, RowOK, ClockInv, TellInv, NowInv, TypeOK
  <2> QED BY <2>1, <2>2 DEF Open
<1>9. \A s \in 0..count : (iv[s].entered <= t /\ t < iv[s].exited) <=> s = m
  <2> SUFFICES ASSUME NEW s \in 0..count
               PROVE  (iv[s].entered <= t /\ t < iv[s].exited) <=> s = m
    OBVIOUS
  <2>1. iv[s].entered <= t <=> s <= m
    <3>1. CASE s = 0
      BY <3>1, <1>3, <1>8
    <3>2. CASE s # 0
      <4>1. s \in 1..count /\ s > 0
        BY <3>2
      <4> QED BY <4>1, <1>3, <1>7
    <3> QED BY <3>1, <3>2
  <2>2. t < iv[s].exited <=> m <= s
    <3>1. CASE s < count
      <4>1. s + 1 \in 1..count
        BY <3>1
      <4>2. h[at[s + 1]].at <= t <=> s + 1 <= m
        BY <4>1, <1>7
      <4>3. iv[s].exited = h[at[s + 1]].at /\ iv[s].exited \in Nat
        BY <3>1, <4>1, <1>3, <1>4
      <4> QED BY <4>2, <4>3, <1>8
    <3>2. CASE ~(s < count)
      BY <3>2, <1>3, <1>8
    <3> QED BY <3>1, <3>2
  <2> QED BY <2>1, <2>2
<1>10. {s \in DOMAIN iv : iv[s].entered <= t /\ t < iv[s].exited} = {m}
  BY <1>3, <1>9
<1>11. Cardinality({m}) = 1
  BY FS_Singleton
(* The histories up to t are the first ones, and all of them were read.    *)
<1>12. Whole(i, status[i].updated, rows[i]) /\ status[i].updated \in Nat
  <2>1. status[i] \in StatusRow /\ Whole(i, status[i].updated, rows[i])
    BY DEF Trusted, IInv, TypeOK, StoredInv, RowOK
  <2> QED BY <2>1 DEF StatusRow
<1>13. PICK last \in 0..Len(h) : /\ StatusAt(i, t) = After(i, last)
                                 /\ \A k \in 1..Len(h) : h[k].at <= t <=> k <= last
  <2> DEFINE made == {k \in 1..Len(h) : h[k].at <= t}
             size == Len(h)
  <2>1. CASE made = {}
    <3>1. StatusAt(i, t) = After(i, 0)
      BY <2>1 DEF StatusAt, After
    <3> QED BY <2>1, <3>1, <1>1
  <2>2. CASE made # {}
    <3> DEFINE last == Max(made)
    <3>1. StatusAt(i, t) = h[last].to
      BY <2>2 DEF StatusAt
    <3>2. made \in SUBSET (1..size) /\ size \in Nat
      BY <1>1
    <3>3. last \in made /\ \A k \in made : k <= last
      <4> HIDE DEF made, size
      <4> QED BY <2>2, <3>2, MaxIsIn
    <3> HIDE DEF last
    <3>4. last \in 1..size /\ h[last].at <= t
      BY <3>3
    <3>5. \A k \in 1..size : h[k].at <= t => k <= last
      BY <3>3
    <3>6. ASSUME NEW k \in 1..size, k <= last PROVE h[k].at <= t
      <4>1. h[k].at <= h[last].at
        BY <1>5, <3>4, <3>6
      <4> QED BY <4>1, <3>4, <1>1
    <3>7. StatusAt(i, t) = After(i, last)
      BY <3>1, <3>4 DEF After
    <3> QED BY <3>4, <3>5, <3>6, <3>7
  <2> QED BY <2>1, <2>2
<1>14. last <= rows[i] /\ last \in Nat
  <2>1. CASE last = 0
    BY <2>1, <1>1
  <2>2. CASE last # 0
    <3>1. last \in 1..Len(h) /\ h[last].at <= t
      BY <2>2, <1>1, <1>13
    <3>2. h[last].at <= status[i].updated
      BY <3>1, <1>1, <1>12
    <3> QED BY <3>1, <3>2, <1>12 DEF Whole
  <2> QED BY <2>1, <2>2
<1>15. ASSUME NEW j \in 0..rows[i], NEW n \in 0..j,
              \A k \in 1..count : ~(at[k] > n /\ at[k] <= j)
       PROVE  After(i, j) = After(i, n)
  <2>1. j \in 0..Len(h) /\ \A k \in n + 1 .. j : k \in 1..rows[i] /\ k > n /\ k <= j
    BY <1>1
  <2>2. \A k \in n + 1 .. j : h[k].from = h[k].to
    <3> SUFFICES ASSUME NEW k \in n + 1 .. j, h[k].from # h[k].to PROVE FALSE
      OBVIOUS
    <3>1. PICK l \in 1..count : at[l] = k
      BY <1>3, <2>1
    <3> QED BY <1>15, <2>1, <3>1
  <2> QED BY <2>1, <2>2, StatusKept DEF TellInv
<1>16. iv[m].status = StatusAt(i, t)
  <2>1. CASE m # 0
    <3>1. m \in 1..count /\ at[m] <= last /\ at[m] \in 0..last
      <4>1. m \in 1..count
        BY <2>1
      <4>2. h[at[m]].at <= t
        BY <4>1, <1>7
      <4> QED BY <4>1, <4>2, <1>4, <1>13, <1>14
    <3>2. ASSUME NEW k \in 1..count, at[k] > at[m], at[k] <= last PROVE FALSE
      <4>1. h[at[k]].at <= t
        BY <3>2, <1>4, <1>13
      <4>2. k <= m
        BY <4>1, <1>7
      <4>3. CASE k = m
        BY <4>3, <3>2, <1>4
      <4>4. CASE k # m
        <5>1. at[k] < at[m]
          BY <4>2, <4>4, <3>1, <1>3
        <5> QED BY <5>1, <3>1, <3>2, <1>4
      <4> QED BY <4>3, <4>4
    <3>3. After(i, last) = After(i, at[m])
      BY <3>1, <3>2, <1>1, <1>14, <1>15
    <3>4. After(i, at[m]) = h[at[m]].to
      BY <3>1, <1>4 DEF After
    <3>5. iv[m].status = h[at[m]].to
      BY <2>1, <1>3
    <3> QED BY <3>3, <3>4, <3>5, <1>13
  <2>2. CASE m = 0
    <3>1. After(i, last) = After(i, 0)
      <4>1. ASSUME NEW k \in 1..count, at[k] > 0, at[k] <= last PROVE FALSE
        <5>1. h[at[k]].at <= t
          BY <4>1, <1>4, <1>13
        <5> QED BY <5>1, <1>7, <2>2
      <4> QED BY <4>1, <1>1, <1>14, <1>15
    <3>2. After(i, 0) = Initial
      BY DEF After
    <3>3. CASE count > 0
      <4>1. 1 \in 1..count /\ at[1] \in 1..Len(h) /\ at[1] \in 1..rows[i]
        BY <3>3, <1>4
      <4>2. iv[0].status = h[at[1]].from
        BY <3>3, <1>3
      <4>3. h[at[1]].from = After(i, at[1] - 1)
        BY <4>1 DEF TellInv, ChainInv
      <4>4. ASSUME NEW k \in 1..count, at[k] > 0, at[k] <= at[1] - 1 PROVE FALSE
        <5>1. k = 1 \/ at[1] < at[k]
          BY <4>1, <1>3
        <5> QED BY <5>1, <4>1, <4>4, <1>4
      <4>5. at[1] - 1 \in 0..rows[i] /\ 0 \in 0..(at[1] - 1)
        BY <4>1, <1>1
      <4>6. After(i, at[1] - 1) = After(i, 0)
        BY <4>4, <4>5, <1>15
      <4> QED BY <2>2, <3>1, <3>2, <4>2, <4>3, <4>6, <1>13
    <3>4. CASE count = 0
      <4>1. iv[0].status = issues[i].status
        BY <3>4, <1>3
      <4>2. PICK n \in 0..Len(h) : /\ issues[i].status = After(i, n)
                                   /\ \A k \in 1..n : h[k].at <= issues[i].updated
        BY DEF TellInv, IssueInv
      <4>3. n \in 0..rows[i]
        <5>1. CASE n = 0
          BY <5>1, <1>1
        <5>2. CASE n # 0
          <6>1. n \in 1..n /\ n \in 1..Len(h)
            BY <5>2, <1>1
          <6>2. issues[i] \in IssueRow
            BY DEF IInv, TypeOK
          <6>3. issues[i].updated \in Nat /\ issues[i].updated <= status[i].updated
            BY <6>2 DEF IssueRow, Trusted
          <6>4. h[n].at <= status[i].updated
            BY <6>1, <6>3, <4>2, <1>1, <1>12
          <6> QED BY <6>1, <6>4, <1>1, <1>12 DEF Whole
        <5> QED BY <5>1, <5>2
      <4>4. After(i, n) = After(i, 0)
        BY <3>4, <4>3, <1>1, <1>15
      <4> QED BY <2>2, <3>1, <3>2, <4>1, <4>2, <4>4, <1>13
    <3> QED BY <3>3, <3>4
  <2> QED BY <2>1, <2>2
<1> DEFINE holds == {s \in DOMAIN iv : iv[s].entered <= t /\ t < iv[s].exited}
<1>17. Cardinality(holds) = 1 /\ \A s \in holds : iv[s].status = StatusAt(i, t)
  BY <1>10, <1>11, <1>16
<1> QED BY <1>17 DEF iv

(* "rebuilt from every issue's complete changelog, ... starting correctly  *)
(* at the issue's creation": for any number of issues, edits and changes,  *)
(* whatever tier answered and whatever was edited meanwhile, the intervals *)
(* of a changelog that the transform trusts give each instant exactly one  *)
(* status, the one the issue had, unless an edit straddles a change in the *)
(* length of history ids.                                                  *)
THEOREM IntervalsTell == Spec => [](NoEditStraddles => IntervalsTellHistory)
<1>1. Spec => []TellInv
  BY InitTell, NextTell, Inductive, PTL DEF Spec
<1> QED BY <1>1, TellOfInv, Inductive, PTL
=============================================================================
