------------------------ MODULE FieldColumns_proofs ------------------------
(***************************************************************************)
(* A drained queue leaves every promoted column with the values of its     *)
(* field, for every number of issues, fields, savers and workers.          *)
(*                                                                         *)
(* The argument: the newest request for every issue names a version whose  *)
(* live rows hold all that are live since (DemotedInv), so its success     *)
(* fills the columns of the latest version.  What could undo it is a       *)
(* rebuild of an older version: by a transform that read the selection     *)
(* before, but then no drain can have touched the request (StaleInv); or   *)
(* by an older request, but drains go by time stamps, and a request that   *)
(* is older in both has been answered first (OrderInv).                    *)
(***************************************************************************)
EXTENDS FieldRebuild_proofs, WellFoundedInduction

Open(r) == r.status \in {"queued", "running"}

(* Nobody knows a version that was not saved.                              *)
VersionsInv ==
  /\ \A r \in requests : r.version <= Latest
  /\ \A q \in Requester : requester[q].version <= Latest
  /\ \A w \in Worker : worker[w].version <= Latest

(* While a transform holds a version of the selection, no request for a    *)
(* later one is touched.                                                   *)
StaleInv ==
  \A w \in Worker : worker[w].step = "selected" =>
    /\ worker[w].rows = At(worker[w].version)
    /\ \A q \in requests : q.version > worker[w].version => q.status = "queued"

(* A request is answered after those that are older in stamp and version.  *)
OrderInv ==
  \A q, r \in requests : Open(q) /\ q.at < r.at /\ q.version < r.version =>
    Open(r) /\ \A w \in Worker : r.at \in worker[w].todo => q.at \in worker[w].todo

(* Every request for all issues is for version u or older.                 *)
NoneFullAfter(u) == \A q \in requests : q.scope = Issue => q.version <= u

(* Saves that ask for no rebuild only demote.                              *)
DemotedInv ==
  \A u, v \in 0..Latest : u < v /\ NoneFullAfter(u) => Live(At(v)) \subseteq Live(At(u))

Good == \A r \in Fitting(At(Latest)), i \in Issue : content[r.column][i] = r.field

Settled ==
  /\ \A r \in NewestFull : r.status = "succeeded"
  /\ \A r \in requests : ~Undoing(r)

SettledInv == Settled => Good

ColumnsInv == VersionsInv /\ StaleInv /\ OrderInv /\ DemotedInv /\ SettledInv
IInv == LogInv /\ DrainInv /\ ColumnsInv

-----------------------------------------------------------------------------
(* Types, and the newest request.                                          *)
LEMMA Types ==
  ASSUME TypeOK
  PROVE  /\ Latest \in Nat /\ selection \in Seq(SUBSET Row)
         /\ \A r \in requests : r \in Request /\ r.at \in Nat /\ r.version \in Nat
                                /\ r.scope \in SUBSET Issue /\ r.status \in Status
         /\ \A q \in Requester : requester[q].version \in Nat
         /\ \A w \in Worker : /\ worker[w] \in WorkerCall /\ worker[w].version \in Nat
                              /\ worker[w].todo \in SUBSET Nat
         /\ \A s \in Saver : saver[s] \in SaverCall
<1>1. \A r \in requests : r \in Request /\ r.at \in Nat /\ r.version \in Nat
                          /\ r.scope \in Scopes \cup {Issue} /\ r.status \in Status
  BY DEF TypeOK, Request
<1>2. Scopes \cup {Issue} \subseteq SUBSET Issue
  BY ScopesType
<1>3. selection \in Seq(SUBSET Row) /\ Latest \in Nat
  BY DEF TypeOK, Latest
<1>4. \A w \in Worker : worker[w] \in WorkerCall
  BY DEF TypeOK
<1> QED BY <1>1, <1>2, <1>3, <1>4 DEF TypeOK, WorkerCall

(* What is asked for all issues has a newest version.                      *)
LEMMA NewestExists ==
  ASSUME TypeOK, VersionsInv, NEW p \in requests, p.scope = Issue
  PROVE  \E r \in NewestFull : p.version <= r.version
<1> DEFINE full == {r \in requests : r.scope = Issue}
           T == {Latest - r.version : r \in full}
           R == OpToRel(<, Nat)
<1>0. Latest \in Nat /\ \A r \in full : r.version \in Nat /\ r.version <= Latest
  BY Types DEF VersionsInv
<1>1. T \subseteq Nat /\ T # {}
  <2>1. \A r \in full : Latest - r.version \in Nat
    BY <1>0
  <2>2. p \in full
    OBVIOUS
  <2> QED BY <2>1, <2>2
<1>2. PICK t \in T : \A u \in T : <<u, t>> \notin R
  <2>1. IsWellFoundedOn(R, Nat)
    BY NatLessThanWellFounded
  <2> HIDE DEF T, R
  <2> QED BY <2>1, <1>1, WFMin
<1>3. PICK r \in full : t = Latest - r.version
  OBVIOUS
<1>4. ASSUME NEW q \in full PROVE q.version <= r.version
  <2>1. Latest - q.version \in T /\ Latest - q.version \in Nat /\ t \in Nat
    BY <1>1
  <2>2. ~(Latest - q.version < t)
    BY <1>2, <2>1 DEF OpToRel
  <2> QED BY <2>1, <2>2, <1>0, <1>3
<1>5. r \in NewestFull
  BY <1>4 DEF NewestFull
<1> QED BY <1>4, <1>5

(* At the newest version or a later one, the latest live rows are live.    *)
LEMMA LiveSince ==
  ASSUME TypeOK, DemotedInv, NEW v \in Nat, v <= Latest, NoneFullAfter(v)
  PROVE  Live(At(Latest)) \subseteq Live(At(v))
<1>1. Latest \in Nat
  BY Types
<1>2. CASE v = Latest
  BY <1>2
<1>3. CASE v # Latest
  <2>1. v \in 0..Latest /\ Latest \in 0..Latest /\ v < Latest
    BY <1>1, <1>3
  <2> QED BY <2>1 DEF DemotedInv
<1> QED BY <1>2, <1>3

(* A rebuild of a version that holds the latest live rows leaves the       *)
(* columns good, or makes them good if it is for all issues.               *)
LEMMA RebuildGood ==
  ASSUME TypeOK, NEW v, NEW S \in SUBSET Issue, Rebuild(At(v), S), selection' = selection,
         Live(At(Latest)) \subseteq Live(At(v)), Good \/ S = Issue
  PROVE  Good'
<1> DEFINE rows == At(v)
           chosen(c) == CHOOSE q \in Fitting(rows) : q.column = c
<1>1. Latest' = Latest /\ At(Latest)' = At(Latest)
  BY DEF Latest, At
<1> SUFFICES ASSUME NEW r \in Fitting(At(Latest))', NEW i \in Issue
             PROVE  content'[r.column][i] = r.field
  BY DEF Good
<1>2. /\ r \in Live(At(Latest)) /\ r \in Row /\ r.column \in Column
      /\ columnType'[r.column] \in {NoType, TypeOf[r.field]}
  BY <1>1, AtType DEF Fitting, Live, Row
<1>3. /\ content'[r.column][i] =
           IF i \in S THEN FieldOf(rows, r.column, content[r.column][i]) ELSE content[r.column][i]
      /\ columnType'[r.column] = IF S # {} /\ \E q \in Fitting(rows) : q.column = r.column
                                 THEN TypeOf[FieldOf(rows, r.column, NoField)] ELSE columnType[r.column]
      /\ S # {} => NoCollision(Fitting(rows))
  BY <1>2 DEF Rebuild
<1>4. columnType[r.column] \in {NoType, TypeOf[r.field]}
  <2>1. CASE ~(S # {} /\ \E q \in Fitting(rows) : q.column = r.column)
    BY <2>1, <1>2, <1>3
  <2>2. CASE S # {} /\ \E q \in Fitting(rows) : q.column = r.column
    <3>1. chosen(r.column) \in Fitting(rows) /\ chosen(r.column).column = r.column
      BY <2>2
    <3>2. columnType[r.column] \in {NoType, TypeOf[chosen(r.column).field]}
      BY <3>1 DEF Fitting
    <3>3. columnType'[r.column] = TypeOf[chosen(r.column).field]
      BY <1>3, <2>2 DEF FieldOf
    <3> QED BY <3>2, <3>3, <1>2
  <2> QED BY <2>1, <2>2
<1>5. r \in Fitting(At(Latest)) /\ r \in Fitting(rows)
  BY <1>2, <1>4 DEF Fitting
<1>6. CASE i \in S
  <2>1. chosen(r.column) \in Fitting(rows) /\ chosen(r.column).column = r.column
    BY <1>5
  <2>2. chosen(r.column) = r
    BY <2>1, <1>3, <1>5, <1>6 DEF NoCollision, Fitting, Live
  <2>3. FieldOf(rows, r.column, content[r.column][i]) = chosen(r.column).field
    BY <1>5 DEF FieldOf
  <2> QED BY <2>2, <2>3, <1>3, <1>6
<1>7. CASE i \notin S
  BY <1>3, <1>5, <1>7 DEF Good
<1> QED BY <1>6, <1>7

-----------------------------------------------------------------------------
(* Steps that leave the tables alone.                                      *)
LEMMA QuietStep ==
  ASSUME IInv, TypeOK', UNCHANGED tables, VersionsInv', StaleInv',
         \A w \in Worker : worker'[w].todo = worker[w].todo \/ worker'[w].todo = {}
  PROVE  ColumnsInv'
<1>1. UNCHANGED <<selection, requests, columnType, content>>
  BY DEF tables
<1>2. OrderInv'
  BY <1>1 DEF IInv, ColumnsInv, OrderInv, Open
<1>3. DemotedInv' /\ SettledInv'
  BY <1>1 DEF IInv, ColumnsInv, DemotedInv, NoneFullAfter, Latest, At, Live, SettledInv, Settled,
              NewestFull, Undoing, Good, Fitting
<1> QED BY <1>2, <1>3 DEF ColumnsInv

LEMMA QuietSave ==
  ASSUME IInv, TypeOK', NEW s \in Saver, SaveBegin(s) \/ SaveRead(s) \/ SaveAbort(s)
  PROVE  ColumnsInv'
<1>1. UNCHANGED <<selection, requests, columnType, content, requester, worker>> /\ UNCHANGED tables
  BY DEF SaveBegin, SaveRead, SaveAbort, tables
<1>2. VersionsInv' /\ StaleInv'
  BY <1>1 DEF IInv, ColumnsInv, VersionsInv, StaleInv, Latest, At
<1> QED BY <1>1, <1>2, QuietStep

LEMMA QuietWorker ==
  ASSUME IInv, TypeOK', NEW w \in Worker,
         TakeLock(w) \/ ReadSelection(w) \/ ReleaseLock(w) \/ Crash(w)
  PROVE  ColumnsInv'
<1>0. /\ worker \in [Worker -> WorkerCall] /\ Latest \in Nat
      /\ UNCHANGED <<selection, requests, requester>> /\ UNCHANGED tables
      /\ \A r \in requests : r.version \in Nat /\ r.version <= Latest
  BY Types DEF IInv, DrainInv, TypeOK, TakeLock, ReadSelection, ReleaseLock, Crash, tables, ColumnsInv, VersionsInv
<1>l. Latest <= Latest /\ 0 <= Latest
  BY <1>0
<1>1. PICK x \in WorkerCall :
        /\ worker' = [worker EXCEPT ![w] = x]
        /\ x.todo = worker[w].todo \/ x.todo = {}
        /\ x.version <= Latest
        /\ x.step = "selected" => x.version = Latest /\ x.rows = At(Latest)
  <2>1. worker[w] \in WorkerCall /\ worker[w].version <= Latest
    BY <1>0 DEF IInv, ColumnsInv, VersionsInv
  <2>2. CASE TakeLock(w)
    <3> DEFINE x == [worker[w] EXCEPT !.step = "locked"]
    <3>1. x \in WorkerCall /\ x.todo = worker[w].todo /\ x.step = "locked" /\ x.version = worker[w].version
      BY <2>1 DEF WorkerCall
    <3>2. worker' = [worker EXCEPT ![w] = x]
      BY <2>2 DEF TakeLock
    <3> HIDE DEF x
    <3> QED BY <3>1, <3>2, <2>1
  <2>3. CASE ReadSelection(w)
    <3> DEFINE x == [worker[w] EXCEPT !.step = "selected", !.version = Latest, !.rows = At(Latest)]
    <3>0. At(Latest) \in SUBSET Row
      BY AtType DEF IInv, LogInv
    <3>1. x \in WorkerCall /\ x.todo = worker[w].todo /\ x.version = Latest /\ x.rows = At(Latest)
      BY <1>0, <2>1, <3>0 DEF WorkerCall
    <3>2. worker' = [worker EXCEPT ![w] = x]
      BY <2>3 DEF ReadSelection
    <3> HIDE DEF x
    <3> QED BY <1>l, <3>1, <3>2
  <2>4. CASE ReleaseLock(w) \/ Crash(w)
    <3>1. worker' = [worker EXCEPT ![w] = IdleWorker]
      BY <2>4 DEF ReleaseLock, Crash
    <3>2. IdleWorker \in WorkerCall /\ IdleWorker.todo = {} /\ IdleWorker.step = "idle" /\ IdleWorker.version = 0
      BY DEF IdleWorker, WorkerCall
    <3> QED BY <1>l, <3>1, <3>2
  <2> QED BY <2>2, <2>3, <2>4
<1>2. worker'[w] = x /\ \A v \in Worker : v # w => worker'[v] = worker[v]
  BY <1>0, <1>1
<1>3. VersionsInv'
  BY <1>0, <1>1, <1>2 DEF IInv, ColumnsInv, VersionsInv, Latest
<1>4. StaleInv'
  <2>1. ASSUME NEW v \in Worker, worker'[v].step = "selected", NEW q \in requests,
               q.version > worker'[v].version
        PROVE  q.status = "queued"
    <3>1. v # w
      BY <1>0, <1>1, <1>2, <2>1
    <3> QED BY <2>1, <3>1, <1>2 DEF IInv, ColumnsInv, StaleInv
  <2>2. ASSUME NEW v \in Worker, worker'[v].step = "selected"
        PROVE  worker'[v].rows = At(worker'[v].version)
    <3>1. CASE v = w
      BY <3>1, <1>1, <1>2, <2>2
    <3>2. CASE v # w
      BY <3>2, <1>2, <2>2 DEF IInv, ColumnsInv, StaleInv
    <3> QED BY <3>1, <3>2
  <2> QED BY <1>0, <2>1, <2>2 DEF StaleInv, At
<1> QED BY <1>0, <1>1, <1>2, <1>3, <1>4, QuietStep

-----------------------------------------------------------------------------
(* A save.                                                                 *)

(* What is live after a save that promotes nothing was live before.        *)
LEMMA DemotesOnly ==
  ASSUME NEW rows \in SUBSET Row, NEW c \in Changes(rows), c.promote = {}
  PROVE  Live(Applied(rows, c)) \subseteq Live(rows)
<1>1. ASSUME NEW r \in rows PROVE ~[r EXCEPT !.live = FALSE].live
  BY DEF Row
<1> QED BY <1>1 DEF Applied, Live

LEMMA ColumnsSave ==
  ASSUME IInv, NEW s \in Saver, SaveWrite(s)
  PROVE  ColumnsInv'
<1> DEFINE n == Latest
<1>1. PICK c \in Changes(saver[s].rows) : Written(s, c)
  BY Zenon DEF SaveWrite, Written
<1>2. /\ saver[s].step = "read" /\ saver[s].rows \in SUBSET Row /\ saver[s].version \in Nat
      /\ worker' = worker /\ requester' = requester /\ content' = content /\ columnType' = columnType
  BY DEF SaveWrite, IInv, LogInv, TypeOK, SaverCall
<1> DEFINE rows == Applied(saver[s].rows, c)
           new == [at |-> saver[s].at, version |-> n + 1, scope |-> Issue, status |-> "queued"]
<1>3. saver[s].rows = selection[n] /\ selection' = Append(selection, rows)
  BY <1>1, <1>2, WriteAppends DEF IInv, Latest
<1>4. selection \in Seq(SUBSET Row) /\ n \in Nat \ {0} /\ rows \in SUBSET Row
  BY <1>1, <1>2, AppliedRows, Types DEF IInv, LogInv, GrowInv, Latest
<1>t. /\ \A r \in requests : r.version \in Nat /\ r.version <= n /\ r.at \in Nat
      /\ \A q \in Requester : requester[q].version \in Nat /\ requester[q].version <= n
      /\ \A w \in Worker : worker[w].version \in Nat /\ worker[w].version <= n
  BY Types DEF IInv, LogInv, ColumnsInv, VersionsInv
<1> HIDE DEF rows
<1>a. Len(selection') = n + 1 /\ DOMAIN selection' = 1..(n + 1) /\ DOMAIN selection = 1..n
      /\ selection'[n + 1] = rows /\ \A v \in 1..n : selection'[v] = selection[v]
  BY <1>3, <1>4 DEF Latest
<1>5. /\ Latest' = n + 1
      /\ \A v : v = n + 1 => At(v)' = rows
      /\ \A v \in 0..n : At(v)' = At(v)
      /\ At(n) = saver[s].rows
  <2>1. Latest' = n + 1
    BY <1>a DEF Latest
  <2>2. ASSUME NEW v, v = n + 1 PROVE At(v)' = rows
    BY <2>2, <1>4, <1>a DEF At
  <2>3. ASSUME NEW v \in 0..n PROVE At(v)' = At(v)
    <3>1. v \in 1..(n + 1) <=> v \in 1..n
      BY <1>4
    <3> QED BY <3>1, <1>a DEF At
  <2>4. At(n) = saver[s].rows
    <3>1. n \in 1..n
      BY <1>4
    <3> QED BY <3>1, <1>3, <1>a DEF At
  <2> QED BY <2>1, <2>2, <2>3, <2>4
<1>6. saver[s].version + 1 = n + 1
  <2>1. saver[s].version <= n
    BY <1>2 DEF IInv, LogInv, SaverInv, Latest
  <2>2. CASE saver[s].version + 1 <= n
    <3>1. Len(selection') = n
      BY <1>1, <2>2, <1>4, <1>2 DEF Written, Latest
    <3> QED BY <3>1, <1>4, <1>5 DEF Latest
  <2> QED BY <2>1, <2>2, <1>2, <1>4
<1>7. /\ requests \subseteq requests'
      /\ \A r \in requests' : r \in requests \/ r = new
      /\ c.promote = {} => requests' = requests
      /\ c.promote # {} => new \in requests'
  BY <1>1, <1>6 DEF Written
<1>8. \A w \in Worker : new.at \notin worker[w].todo
  BY <1>2 DEF IInv, DrainInv, TodoInv
<1>9. new.version = n + 1 /\ new.status = "queued" /\ new.scope = Issue /\ new.at = saver[s].at
  OBVIOUS
<1> HIDE DEF new, n
<1>10. VersionsInv'
  BY <1>2, <1>4, <1>5, <1>7, <1>9, <1>t DEF VersionsInv
<1>11. StaleInv'
  <2>1. ASSUME NEW w \in Worker, worker[w].step = "selected"
        PROVE  worker[w].rows = IF worker[w].version \in DOMAIN selection'
                                THEN selection'[worker[w].version] ELSE {}
    <3>1. worker[w].rows = IF worker[w].version \in 1..n THEN selection[worker[w].version] ELSE {}
      BY <1>a, <2>1 DEF IInv, ColumnsInv, StaleInv, At
    <3>2. worker[w].version \in 1..(n + 1) <=> worker[w].version \in 1..n
      BY <1>4, <1>t
    <3> QED BY <1>a, <3>1, <3>2
  <2> QED BY <1>2, <1>7, <1>9, <2>1 DEF IInv, ColumnsInv, StaleInv, At
<1>12. OrderInv'
  <2> SUFFICES ASSUME NEW q \in requests', NEW r \in requests', Open(q), q.at < r.at, q.version < r.version
               PROVE  Open(r) /\ \A w \in Worker : r.at \in worker[w].todo => q.at \in worker[w].todo
    BY <1>2 DEF OrderInv, Open
  <2>1. q \in requests
    BY <1>4, <1>7, <1>9, <1>t
  <2>2. CASE r \in requests
    BY <2>1, <2>2 DEF IInv, ColumnsInv, OrderInv
  <2>3. CASE r = new
    BY <2>3, <1>8, <1>9 DEF Open
  <2> QED BY <2>2, <2>3, <1>7
<1>13. \A u : NoneFullAfter(u)' => NoneFullAfter(u)
  BY <1>7 DEF NoneFullAfter
<1>14. c.promote = {} => Live(rows) \subseteq Live(At(n))
  BY <1>2, <1>5, DemotesOnly DEF rows
<1>15. DemotedInv'
  <2> SUFFICES ASSUME NEW u \in 0..(n + 1), NEW v \in 0..(n + 1), u < v, NoneFullAfter(u)'
               PROVE  Live(At(v)') \subseteq Live(At(u)')
    BY <1>5 DEF DemotedInv, Live
  <2>1. u \in 0..n /\ At(u)' = At(u)
    BY <1>4, <1>5
  <2>2. CASE v \in 0..n
    BY <2>1, <2>2, <1>5, <1>13 DEF IInv, ColumnsInv, DemotedInv, n
  <2>3. CASE v = n + 1
    <3>1. c.promote = {}
      BY <2>3, <1>4, <1>7, <1>9 DEF NoneFullAfter
    <3>2. Live(At(n)) \subseteq Live(At(u))
      <4>1. TypeOK /\ DemotedInv
        BY DEF IInv, LogInv, ColumnsInv
      <4>2. u \in Nat /\ u <= Latest
        BY <2>1, <1>4 DEF n
      <4> QED BY <4>1, <4>2, <1>13, LiveSince DEF n
    <3>3. At(v)' = rows
      BY <2>3, <1>5
    <3> QED BY <2>1, <3>1, <3>2, <3>3, <1>14
  <2> QED BY <2>2, <2>3, <1>4
<1>16. SettledInv'
  <2> SUFFICES ASSUME Settled' PROVE Good'
    BY DEF SettledInv
  <2>1. c.promote = {}
    <3> SUFFICES ASSUME c.promote # {} PROVE FALSE
      OBVIOUS
    <3>1. \A q \in requests' : q.version <= new.version
      BY <1>4, <1>7, <1>9, <1>t
    <3>2. new \in NewestFull'
      BY <3>1, <1>7, <1>9 DEF NewestFull
    <3> QED BY <3>2, <1>9 DEF Settled
  <2>2. Settled
    BY <2>1, <1>7 DEF Settled, NewestFull, Undoing
  <2>3. Good
    BY <2>2 DEF IInv, ColumnsInv, SettledInv
  <2>4. Fitting(At(Latest))' \subseteq Fitting(At(Latest))
    <3>1. At(Latest)' = rows
      BY <1>3, <1>4, <1>a DEF At, Latest
    <3>2. Live(rows) \subseteq Live(At(Latest))
      BY <2>1, <1>14 DEF n
    <3> QED BY <3>1, <3>2, <1>2 DEF Fitting
  <2> QED BY <2>3, <2>4, <1>2 DEF Good
<1> QED BY <1>10, <1>11, <1>12, <1>15, <1>16 DEF ColumnsInv

-----------------------------------------------------------------------------
(* A request, and the transform's own rebuild.                             *)
LEMMA ColumnsRequest ==
  ASSUME IInv, NEW p \in Requester, RequestRead(p) \/ RequestWrite(p), TypeOK'
  PROVE  ColumnsInv'
<1>0. /\ requester \in [Requester -> [step : {"idle", "read"}, version : Nat]]
      /\ Latest \in Nat /\ clock \in Nat /\ UNCHANGED <<selection, worker, content, columnType>>
      /\ \A q \in Requester : requester[q].version \in Nat /\ requester[q].version <= Latest
      /\ \A w \in Worker : worker[w].version <= Latest
      /\ \A r \in requests : /\ r.version \in Nat /\ r.version <= Latest
                             /\ r.at \in Nat /\ r.at < clock
  BY Types DEF IInv, DrainInv, TypeOK, StampInv, ColumnsInv, VersionsInv, RequestRead, RequestWrite, tables
<1>1. CASE RequestRead(p)
  <2>1. PICK v \in 1..Latest : requester' = [requester EXCEPT ![p] = [step |-> "read", version |-> v]]
    BY <1>1 DEF RequestRead
  <2>2. VersionsInv' /\ StaleInv'
    BY <1>0, <1>1, <2>1 DEF VersionsInv, StaleInv, IInv, ColumnsInv, Latest, At, RequestRead, tables
  <2> QED BY <1>0, <1>1, <2>2, QuietStep DEF RequestRead
<1>2. CASE RequestWrite(p)
  <2>1. PICK scope \in Scopes : requests' = requests \cup
          {[at |-> clock, version |-> requester[p].version, scope |-> scope, status |-> "queued"]}
    BY <1>2 DEF RequestWrite
  <2> DEFINE new == [at |-> clock, version |-> requester[p].version, scope |-> scope, status |-> "queued"]
  <2>2. requests' = requests \cup {new}
    BY <2>1
  <2>3. new.at = clock /\ new.version = requester[p].version /\ new.scope = scope /\ new.status = "queued"
    OBVIOUS
  <2> HIDE DEF new
  <2>4. \A w \in Worker : clock \notin worker[w].todo
    <3>1. \A w \in Worker : \A at \in worker[w].todo : at \in Nat /\ at < clock
      BY Types DEF IInv, DrainInv, TodoInv
    <3> QED BY <3>1
  <2>5. VersionsInv'
    <3>1. requester' = [requester EXCEPT ![p] = IdleRequester]
      BY <1>2 DEF RequestWrite
    <3>2. IdleRequester.version = 0 /\ Latest' = Latest
      BY <1>0 DEF IdleRequester, Latest
    <3>3. \A q \in Requester : requester'[q].version <= Latest
      BY <1>0, <3>1, <3>2
    <3> QED BY <1>0, <2>2, <2>3, <3>2, <3>3 DEF VersionsInv
  <2>6. StaleInv'
    BY <1>0, <2>2, <2>3 DEF IInv, ColumnsInv, StaleInv, At
  <2>7. OrderInv'
    <3> SUFFICES ASSUME NEW q \in requests', NEW r \in requests', Open(q), q.at < r.at, q.version < r.version
                 PROVE  Open(r) /\ \A w \in Worker : r.at \in worker[w].todo => q.at \in worker[w].todo
      BY <1>0 DEF OrderInv, Open
    <3>1. q \in requests
      BY <1>0, <2>2, <2>3
    <3>2. CASE r \in requests
      BY <3>1, <3>2 DEF IInv, ColumnsInv, OrderInv
    <3>3. CASE r = new
      BY <3>3, <2>3, <2>4 DEF Open
    <3> QED BY <3>2, <3>3, <2>2
  <2>8. DemotedInv'
    <3>1. \A u : NoneFullAfter(u)' => NoneFullAfter(u)
      BY <2>2 DEF NoneFullAfter
    <3>2. Latest' = Latest /\ \A v : At(v)' = At(v)
      BY <1>0 DEF Latest, At
    <3> QED BY <3>1, <3>2 DEF IInv, ColumnsInv, DemotedInv, Live
  <2>9. SettledInv'
    <3> SUFFICES ASSUME Settled' PROVE Settled
      BY <1>0 DEF IInv, ColumnsInv, SettledInv, Good, Fitting, At, Latest, Live
    <3>1. \A r \in requests : ~Undoing(r)
      BY <2>2 DEF Settled, Undoing
    <3>2. ASSUME NEW r \in NewestFull PROVE r.status = "succeeded"
      <4>1. r \in requests /\ r.scope = Issue /\ \A q \in requests : q.scope = Issue => q.version <= r.version
        BY DEF NewestFull
      <4>2. CASE new.scope = Issue => new.version <= r.version
        <5>1. r \in NewestFull'
          BY <4>1, <4>2, <2>2 DEF NewestFull
        <5> QED BY <5>1 DEF Settled
      <4>3. CASE ~(new.scope = Issue => new.version <= r.version)
        <5>1. \A q \in requests' : q.scope = Issue => q.version <= new.version
          BY <1>0, <4>1, <4>3, <2>2, <2>3
        <5>2. new \in NewestFull'
          BY <4>3, <5>1, <2>2 DEF NewestFull
        <5> QED BY <5>2, <2>3 DEF Settled
      <4> QED BY <4>2, <4>3
    <3> QED BY <3>1, <3>2 DEF Settled
  <2> QED BY <2>5, <2>6, <2>7, <2>8, <2>9 DEF ColumnsInv
<1> QED BY <1>1, <1>2

LEMMA ColumnsDirty ==
  ASSUME IInv, NEW w \in Worker, RebuildDirty(w)
  PROVE  ColumnsInv'
<1> DEFINE x == [worker[w] EXCEPT !.step = "transformed"]
<1>0. /\ worker \in [Worker -> WorkerCall] /\ worker[w].step = "selected" /\ TypeOK
      /\ UNCHANGED <<selection, requests, requester>>
      /\ worker[w].version \in Nat /\ worker[w].version <= Latest
  BY Types DEF IInv, DrainInv, TypeOK, ColumnsInv, VersionsInv, RebuildDirty
<1>1. x.step = "transformed" /\ x.version = worker[w].version /\ x.todo = worker[w].todo
  BY <1>0 DEF WorkerCall
<1>2. worker' = [worker EXCEPT ![w] = x]
  BY DEF RebuildDirty
<1> HIDE DEF x
<1>3. worker'[w] = x /\ \A v \in Worker : v # w => worker'[v] = worker[v]
  BY <1>0, <1>2
<1>4. VersionsInv' /\ StaleInv' /\ OrderInv'
  BY <1>0, <1>1, <1>3 DEF IInv, ColumnsInv, VersionsInv, StaleInv, OrderInv, Open, Latest, At
<1>5. DemotedInv'
  BY <1>0 DEF IInv, ColumnsInv, DemotedInv, NoneFullAfter, Latest, At, Live
<1>6. SettledInv'
  <2> SUFFICES ASSUME Settled PROVE Good'
    BY <1>0 DEF SettledInv, Settled, NewestFull, Undoing
  <2>1. NoneFullAfter(worker[w].version)
    <3> SUFFICES ASSUME NEW p \in requests, p.scope = Issue, ~(p.version <= worker[w].version) PROVE FALSE
      BY DEF NoneFullAfter
    <3>1. PICK r \in NewestFull : p.version <= r.version
      BY <1>0, NewestExists DEF IInv, ColumnsInv
    <3>2. r \in requests /\ r.status = "succeeded"
      BY DEF Settled, NewestFull
    <3>3. r.version \in Nat /\ p.version \in Nat
      BY <1>0, <3>2, Types
    <3>4. r.status = "queued"
      BY <1>0, <3>1, <3>2, <3>3 DEF IInv, ColumnsInv, StaleInv
    <3> QED BY <3>2, <3>4
  <2>2. PICK S \in SUBSET Issue : Rebuild(At(worker[w].version), S)
    BY <1>0 DEF RebuildDirty, IInv, ColumnsInv, StaleInv
  <2>3. Live(At(Latest)) \subseteq Live(At(worker[w].version))
    BY <1>0, <2>1, LiveSince DEF IInv, ColumnsInv
  <2>4. Good
    BY DEF IInv, ColumnsInv, SettledInv
  <2> QED BY <1>0, <2>2, <2>3, <2>4, RebuildGood
<1> QED BY <1>4, <1>5, <1>6 DEF ColumnsInv

-----------------------------------------------------------------------------
(* The drain.  It changes the status of requests, and nothing else.        *)
Same(r, p) == r.at = p.at /\ r.version = p.version /\ r.scope = p.scope

LEMMA RequestsKept ==
  ASSUME \A r \in requests : \E p \in requests' : Same(r, p),
         \A p \in requests' : \E r \in requests : Same(r, p),
         selection' = selection
  PROVE  /\ DemotedInv => DemotedInv'
         /\ \A r \in requests, p \in requests' : Same(r, p) =>
              (r \in NewestFull <=> p \in NewestFull') /\ (Undoing(r) => Undoing(p)')
<1>1. \A u : NoneFullAfter(u)' => NoneFullAfter(u)
  BY DEF NoneFullAfter, Same
<1>2. Latest' = Latest /\ \A v : At(v)' = At(v)
  BY DEF Latest, At
<1>3. DemotedInv => DemotedInv'
  BY <1>1, <1>2 DEF DemotedInv, Live
<1>4. ASSUME NEW r \in requests, NEW p \in requests', Same(r, p)
      PROVE  (r \in NewestFull <=> p \in NewestFull') /\ (Undoing(r) => Undoing(p)')
  BY <1>4 DEF Same, NewestFull, Undoing
<1> QED BY <1>3, <1>4

LEMMA ColumnsSweep ==
  ASSUME IInv, NEW w \in Worker, Sweep(w)
  PROVE  ColumnsInv'
<1> DEFINE open == {r \in requests : r.status \in {"queued", "running"}}
           run(r) == [r EXCEPT !.status = "running"]
           x == [worker[w] EXCEPT !.step = "draining", !.todo = {r.at : r \in open}]
<1>0. /\ worker \in [Worker -> WorkerCall] /\ worker[w].step = "transformed"
      /\ UNCHANGED <<selection, requester, content, columnType>>
      /\ worker[w].version <= Latest
      /\ \A r \in requests : r \in Request
  BY Types DEF IInv, DrainInv, TypeOK, ColumnsInv, VersionsInv, Sweep
<1>1. x.step = "draining" /\ x.version = worker[w].version /\ x.todo = {r.at : r \in open}
  BY <1>0 DEF WorkerCall
<1>2. worker' = [worker EXCEPT ![w] = x] /\ requests' = (requests \ open) \cup {run(r) : r \in open}
  BY DEF Sweep
<1>3. \A r \in requests : Same(r, run(r)) /\ run(r).status = "running"
  BY <1>0 DEF Request, Same
<1> HIDE DEF x, run
<1>4. worker'[w] = x /\ \A v \in Worker : v # w => worker'[v] = worker[v]
  BY <1>0, <1>2
<1>5. \A v \in Worker : v # w => worker[v].todo = {} /\ worker[v].step = "idle"
  BY <1>0, Alone DEF IInv, DrainInv
<1>6. ASSUME NEW p \in requests'
      PROVE  \E r \in requests : Same(r, p) /\ IF Open(r) THEN p.status = "running" ELSE p = r
  <2>1. CASE p \in requests \ open
    BY <2>1 DEF Same, Open
  <2>2. ASSUME NEW r \in open, p = run(r)
        PROVE  \E q \in requests : Same(q, p) /\ IF Open(q) THEN p.status = "running" ELSE p = q
    BY <1>3, <2>2 DEF Open
  <2> QED BY <1>2, <2>1, <2>2
<1>7. ASSUME NEW r \in requests
      PROVE  \E p \in requests' : Same(r, p) /\ IF Open(r) THEN p.status = "running" ELSE p = r
  <2>1. CASE r \in open
    <3>1. run(r) \in requests'
      BY <1>2, <2>1
    <3> QED BY <1>3, <2>1, <3>1 DEF Open
  <2>2. CASE r \notin open
    BY <1>2, <2>2 DEF Same, Open
  <2> QED BY <2>1, <2>2
<1>8. VersionsInv' /\ StaleInv'
  <2>1. \A v \in Worker : worker'[v].step # "selected" /\ worker'[v].version <= Latest
    BY <1>0, <1>1, <1>4, <1>5 DEF IInv, ColumnsInv, VersionsInv
  <2> QED BY <1>0, <1>6, <2>1 DEF IInv, ColumnsInv, VersionsInv, StaleInv, Latest, Same
<1>9. OrderInv'
  <2> SUFFICES ASSUME NEW q \in requests', NEW r \in requests', Open(q), q.at < r.at, q.version < r.version
               PROVE  Open(r) /\ \A v \in Worker : r.at \in worker'[v].todo => q.at \in worker'[v].todo
    BY DEF OrderInv, Open
  <2>1. PICK q0 \in requests : Same(q0, q) /\ IF Open(q0) THEN q.status = "running" ELSE q = q0
    BY <1>6
  <2>2. PICK r0 \in requests : Same(r0, r) /\ IF Open(r0) THEN r.status = "running" ELSE r = r0
    BY <1>6
  <2>3. Open(q0) /\ q0 \in open
    BY <2>1 DEF Open
  <2>4. Open(r0) /\ Open(r)
    BY <2>1, <2>2, <2>3 DEF IInv, ColumnsInv, OrderInv, Same, Open
  <2>5. \A v \in Worker : r.at \in worker'[v].todo => q.at \in worker'[v].todo
    BY <1>1, <1>4, <1>5, <2>1, <2>3 DEF Same
  <2> QED BY <2>4, <2>5
<1>10. DemotedInv'
  BY <1>0, <1>6, <1>7, RequestsKept DEF IInv, ColumnsInv
<1>11. SettledInv'
  <2> SUFFICES ASSUME Settled' PROVE Settled
    BY <1>0 DEF IInv, ColumnsInv, SettledInv, Good, Fitting, At, Latest, Live
  <2>1. ASSUME NEW r \in requests
        PROVE  ~Undoing(r) /\ (r \in NewestFull => r.status = "succeeded")
    <3>1. PICK p \in requests' : Same(r, p) /\ IF Open(r) THEN p.status = "running" ELSE p = r
      BY <1>7
    <3>2. (r \in NewestFull <=> p \in NewestFull') /\ (Undoing(r) => Undoing(p)')
      BY <1>0, <1>6, <1>7, <3>1, RequestsKept
    <3> QED BY <3>1, <3>2 DEF Settled
  <2> QED BY <2>1 DEF Settled, NewestFull
<1> QED BY <1>8, <1>9, <1>10, <1>11 DEF ColumnsInv

(* An answered request: what is common to success and failure.             *)
LEMMA ColumnsFinish ==
  ASSUME IInv, NEW w \in Worker, NEW r \in requests, NEW status \in {"succeeded", "failed"},
         IsNext(w, r), Finish(w, r, status), UNCHANGED <<selection, requester>>
  PROVE  /\ VersionsInv' /\ StaleInv' /\ OrderInv' /\ DemotedInv'
         /\ Open(r)
         /\ \A q \in requests : q # r => q \in requests' /\ (q \in NewestFull <=> q \in NewestFull')
         /\ Settled' => /\ \A q \in requests : ~Undoing(q)
                        /\ r \in NewestFull => status = "succeeded"
<1> DEFINE x == [worker[w] EXCEPT !.todo = @ \ {r.at}]
           done == [r EXCEPT !.status = status]
<1>0. /\ worker \in [Worker -> WorkerCall] /\ worker[w].step = "draining" /\ r.at \in worker[w].todo
      /\ worker[w].version <= Latest /\ worker[w].todo \in SUBSET Nat
      /\ \A q \in requests : q \in Request /\ q.at \in Nat
  BY Types DEF IInv, DrainInv, TypeOK, ColumnsInv, VersionsInv, IsNext
<1>1. /\ x.step = "draining" /\ x.version = worker[w].version /\ x.todo = worker[w].todo \ {r.at}
      /\ Same(r, done) /\ done.status = status
  BY <1>0 DEF WorkerCall, Request, Same
<1>2. worker' = [worker EXCEPT ![w] = x] /\ requests' = (requests \ {r}) \cup {done}
  BY DEF Finish
<1>3. ~Open(done)
  BY <1>1 DEF Open
<1> HIDE DEF x, done
<1>4. worker'[w] = x /\ \A v \in Worker : v # w => worker'[v] = worker[v]
  BY <1>0, <1>2
<1>5. \A v \in Worker : v # w => worker[v].todo = {} /\ worker[v].step = "idle"
  BY <1>0, Alone DEF IInv, DrainInv
<1>6. Open(r)
  BY <1>0 DEF IInv, DrainInv, TodoInv, Open
<1>7. ASSUME NEW p \in requests'
      PROVE  \E q \in requests : Same(q, p) /\ (p = q \/ (p = done /\ q = r))
  <2>1. CASE p = done
    BY <1>1, <2>1
  <2>2. CASE p \in requests
    BY <2>2 DEF Same
  <2> QED BY <1>2, <2>1, <2>2
<1>8. ASSUME NEW q \in requests
      PROVE  \E p \in requests' : Same(q, p) /\ (p = q \/ (p = done /\ q = r))
  <2>1. done \in requests' /\ (q # r => q \in requests')
    BY <1>2
  <2>2. CASE q = r
    BY <1>1, <2>1, <2>2
  <2>3. CASE q # r
    BY <2>1, <2>3 DEF Same
  <2> QED BY <2>2, <2>3
<1>9. VersionsInv' /\ StaleInv'
  <2>1. \A v \in Worker : worker'[v].step # "selected" /\ worker'[v].version <= Latest
    BY <1>0, <1>1, <1>4, <1>5 DEF IInv, ColumnsInv, VersionsInv
  <2> QED BY <1>7, <2>1 DEF IInv, ColumnsInv, VersionsInv, StaleInv, Latest, Same
<1>10. OrderInv'
  <2> SUFFICES ASSUME NEW q \in requests', NEW p \in requests', Open(q), q.at < p.at, q.version < p.version
               PROVE  Open(p) /\ \A v \in Worker : p.at \in worker'[v].todo => q.at \in worker'[v].todo
    BY DEF OrderInv, Open
  <2>1. q \in requests /\ q # r
    BY <1>2, <1>3
  <2>2. CASE p \in requests /\ p # r
    <3>1. Open(p) /\ \A v \in Worker : p.at \in worker[v].todo => q.at \in worker[v].todo
      BY <2>1, <2>2 DEF IInv, ColumnsInv, OrderInv
    <3>2. q.at # r.at
      BY <2>1 DEF IInv, DrainInv, StampInv
    <3> QED BY <1>1, <1>4, <3>1, <3>2
  <2>3. CASE p = done
    <3>1. q.at < r.at /\ q.version < r.version
      BY <1>1, <2>3 DEF Same
    <3>2. q.at \in worker[w].todo
      BY <1>0, <2>1, <3>1 DEF IInv, ColumnsInv, OrderInv
    <3>3. r.at <= q.at
      BY <3>2 DEF IsNext
    <3> QED BY <1>0, <2>1, <3>1, <3>3
  <2> QED BY <2>2, <2>3, <1>2
<1>11. DemotedInv'
  BY <1>7, <1>8, RequestsKept DEF IInv, ColumnsInv
<1>12. ASSUME NEW q \in requests, q # r
       PROVE  q \in requests' /\ (q \in NewestFull <=> q \in NewestFull')
  <2>1. q \in requests' /\ Same(q, q)
    BY <1>2, <1>12 DEF Same
  <2> QED BY <2>1, <1>7, <1>8, RequestsKept
<1>13. ASSUME Settled'
       PROVE  /\ \A q \in requests : ~Undoing(q)
              /\ r \in NewestFull => status = "succeeded"
  <2>1. ASSUME NEW q \in requests PROVE ~Undoing(q)
    <3>1. PICK p \in requests' : Same(q, p)
      BY <1>8
    <3> QED BY <1>7, <1>8, <1>13, <3>1, RequestsKept DEF Settled
  <2>2. r \in NewestFull => status = "succeeded"
    <3>1. done \in requests'
      BY <1>2
    <3>2. r \in NewestFull => done \in NewestFull'
      BY <1>1, <1>7, <1>8, <3>1, RequestsKept
    <3> QED BY <1>1, <1>13, <3>2 DEF Settled
  <2> QED BY <2>1, <2>2
<1> QED BY <1>6, <1>9, <1>10, <1>11, <1>12, <1>13

LEMMA ColumnsFails ==
  ASSUME IInv, NEW w \in Worker, NEW r \in requests, RequestFails(w, r)
  PROVE  ColumnsInv'
<1>1. /\ IsNext(w, r) /\ Finish(w, r, "failed")
      /\ UNCHANGED <<selection, requester, content, columnType>>
  BY DEF RequestFails
<1>2. /\ VersionsInv' /\ StaleInv' /\ OrderInv' /\ DemotedInv'
      /\ \A q \in requests : q # r => q \in requests' /\ (q \in NewestFull <=> q \in NewestFull')
      /\ Settled' => /\ \A q \in requests : ~Undoing(q)
                     /\ r \notin NewestFull
  BY <1>1, ColumnsFinish
<1>3. Settled' => Settled
  BY <1>2 DEF Settled, NewestFull
<1>4. SettledInv'
  BY <1>1, <1>3 DEF IInv, ColumnsInv, SettledInv, Good, Fitting, At, Latest, Live
<1> QED BY <1>2, <1>4 DEF ColumnsInv

LEMMA ColumnsSucceeds ==
  ASSUME IInv, NEW w \in Worker, NEW q \in requests, RequestSucceeds(w, q)
  PROVE  ColumnsInv'
<1>1. /\ IsNext(w, q) /\ Finish(w, q, "succeeded") /\ Rebuild(At(q.version), q.scope)
      /\ UNCHANGED <<selection, requester>>
  BY DEF RequestSucceeds
<1>2. /\ VersionsInv' /\ StaleInv' /\ OrderInv' /\ DemotedInv'
      /\ Open(q)
      /\ \A r \in requests : r # q => r \in requests' /\ (r \in NewestFull <=> r \in NewestFull')
      /\ Settled' => \A r \in requests : ~Undoing(r)
  BY <1>1, ColumnsFinish
<1>3. /\ TypeOK /\ DemotedInv /\ q.version \in Nat /\ q.version <= Latest /\ q.scope \in SUBSET Issue
      /\ q.at \in Nat
  BY Types DEF IInv, LogInv, ColumnsInv, VersionsInv
<1>4. SettledInv'
  <2> SUFFICES ASSUME Settled' PROVE Good'
    BY DEF SettledInv
  <2>1. ASSUME NEW r \in NewestFull, r # q PROVE r.status = "succeeded"
    BY <1>2, <2>1 DEF Settled, NewestFull
  <2>2. NoneFullAfter(q.version)
    <3> SUFFICES ASSUME NEW p \in requests, p.scope = Issue, ~(p.version <= q.version) PROVE FALSE
      BY DEF NoneFullAfter
    <3>1. PICK r \in NewestFull : p.version <= r.version
      BY <1>3, NewestExists DEF IInv, ColumnsInv
    <3>2. /\ r \in requests /\ r.version \in Nat /\ r.at \in Nat /\ p.version \in Nat
      BY <1>3, Types DEF NewestFull
    <3>3. q.version < r.version /\ r # q
      BY <1>3, <3>1, <3>2
    <3>4. r.status = "succeeded"
      BY <2>1, <3>3
    <3>5. ~(q.at < r.at)
      BY <1>2, <3>2, <3>3, <3>4 DEF IInv, ColumnsInv, OrderInv, Open
    <3>6. q.at # r.at
      BY <3>2, <3>3 DEF IInv, DrainInv, StampInv
    <3>7. ~(r.at < q.at)
      BY <1>2, <3>2, <3>3 DEF Undoing
    <3> QED BY <1>3, <3>2, <3>5, <3>6, <3>7
  <2>3. Live(At(Latest)) \subseteq Live(At(q.version))
    BY <1>3, <2>2, LiveSince
  <2>4. Good \/ q.scope = Issue
    <3> SUFFICES ASSUME q.scope # Issue PROVE Settled
      BY DEF IInv, ColumnsInv, SettledInv
    <3>1. q \notin NewestFull
      BY DEF NewestFull
    <3> QED BY <1>2, <2>1, <3>1 DEF Settled
  <2> QED BY <1>1, <1>3, <2>3, <2>4, RebuildGood
<1> QED BY <1>2, <1>4 DEF ColumnsInv

-----------------------------------------------------------------------------
(* The invariant.                                                          *)
LEMMA ColumnsInit == SavedBefore /\ Init => IInv
<1> SUFFICES ASSUME SavedBefore, Init PROVE IInv
  OBVIOUS
<1>1. LogInv /\ DrainInv
  BY LogInit, DrainInit
<1>2. Latest \in Nat /\ Latest >= 1
  BY <1>1, Types DEF LogInv, GrowInv, Latest
<1> DEFINE first == [at |-> 0, version |-> Latest, scope |-> Issue, status |-> "queued"]
<1>3. requests = {first}
  <2>1. first \in requests
    BY <1>2 DEF Init
  <2>2. ASSUME NEW r \in requests PROVE r = first
    BY <1>2 DEF Init
  <2> QED BY <2>1, <2>2
<1>4. first.at = 0 /\ first.version = Latest /\ first.scope = Issue /\ first.status = "queued"
  OBVIOUS
<1> HIDE DEF first
<1>5. VersionsInv
  BY <1>2, <1>3, <1>4 DEF Init, VersionsInv, IdleRequester, IdleWorker
<1>6. StaleInv /\ OrderInv
  BY <1>2, <1>3, <1>4 DEF Init, StaleInv, OrderInv, IdleWorker, Open
<1>7. DemotedInv
  BY <1>2, <1>3, <1>4 DEF DemotedInv, NoneFullAfter
<1>8. SettledInv
  <2>1. first \in NewestFull
    BY <1>2, <1>3, <1>4 DEF NewestFull
  <2> QED BY <2>1, <1>4 DEF SettledInv, Settled
<1> QED BY <1>1, <1>5, <1>6, <1>7, <1>8 DEF IInv, ColumnsInv

LEMMA ColumnsNext == MaxDrop = 0 /\ IInv /\ [Next]_vars => IInv'
<1> SUFFICES ASSUME MaxDrop = 0, IInv, [Next]_vars PROVE IInv'
  OBVIOUS
<1>0. LogInv' /\ DrainInv' /\ TypeOK'
  BY LogNext, DrainNext DEF IInv, LogInv
<1> SUFFICES ColumnsInv'
  BY <1>0 DEF IInv
<1>1. ASSUME NEW s \in Saver, SaveBegin(s) \/ SaveRead(s) \/ SaveWrite(s) \/ SaveAbort(s)
      PROVE  ColumnsInv'
  BY <1>0, <1>1, QuietSave, ColumnsSave
<1>2. ASSUME NEW q \in Requester, RequestRead(q) \/ RequestWrite(q) PROVE ColumnsInv'
  BY <1>0, <1>2, ColumnsRequest
<1>3. ASSUME NEW w \in Worker, TakeLock(w) \/ WorkerStep(w) \/ Crash(w) PROVE ColumnsInv'
  BY <1>0, <1>3, QuietWorker, ColumnsDirty, ColumnsSweep, ColumnsSucceeds, ColumnsFails DEF WorkerStep
<1>4. CASE UNCHANGED <<tables, calls>>
  <2>1. VersionsInv' /\ StaleInv' /\ \A w \in Worker : worker'[w] = worker[w]
    BY <1>4 DEF tables, calls, IInv, ColumnsInv, VersionsInv, StaleInv, Latest, At
  <2>2. UNCHANGED tables
    BY <1>4
  <2>3. \A w \in Worker : worker'[w].todo = worker[w].todo
    BY <2>1
  <2> QED BY <1>0, <2>1, <2>2, <2>3, QuietStep
<1>5. CASE DropLock
  <2>1. UNCHANGED <<tables, calls>>
    BY <1>5 DEF DropLock
  <2> QED BY <1>4, <2>1
<1>6. CASE UNCHANGED vars
  <2>1. UNCHANGED <<tables, calls>>
    BY <1>6 DEF vars
  <2> QED BY <1>4, <2>1
<1>7. CASE Next
  BY <1>1, <1>2, <1>3, <1>5, <1>7 DEF Next, CommandStep
<1> QED BY <1>6, <1>7

(* Once the queue is drained, every promoted column holds the values of    *)
(* its field for every issue, unless the newest rebuild failed or was      *)
(* undone by an older one, or the column has another type: whatever saves, *)
(* requests, transforms and deaths interleave, if one good version was     *)
(* saved before and no lock is lost.                                       *)
THEOREM ColumnsAreFilled ==
  ASSUME SavedBefore, MaxDrop = 0 PROVE Spec => []ColumnsFollowSelection
<1>1. Init => IInv
  BY ColumnsInit
<1>2. IInv /\ [Next]_vars => IInv'
  BY ColumnsNext
<1>3. IInv => ColumnsFollowSelection
  BY DEF IInv, ColumnsInv, SettledInv, Settled, Good, ColumnsFollowSelection
<1> QED BY <1>1, <1>2, <1>3, PTL DEF Spec
=============================================================================
