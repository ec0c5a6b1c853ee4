------------------------- MODULE Extraction_proofs -------------------------
(***************************************************************************)
(* A cursor never passes an issue that is not delivered, for every set of  *)
(* issues, scopes and pipelines and all lengths of time.                   *)
(*                                                                         *)
(* The argument: an issue that was last edited more than MaxLag before a   *)
(* walk began is in the index, as it is, for the whole walk; the walk      *)
(* reads it before it comes past it (WalkRead), and the cursor a walk      *)
(* leaves is no later than that by more than the overlap makes up for.     *)
(* Versions only grow from jira_raw over the packages, oldest first, to    *)
(* the walk and the index (VersionInv), so what is delivered stays so.     *)
(***************************************************************************)
EXTENDS Extraction, TLAPS

(* Scopes share neither a pipeline name nor an issue.                      *)
PipelinesApart ==
  \A s, t \in Scope : s # t => NameOf[s] # NameOf[t] /\ Covers[s] \cap Covers[t] = {}

(* What the overlap has to make up for.                                    *)
OverlapSuffices == MaxLag + (IF isCloud THEN MaxWalk ELSE 0) + ZoneSlip <= Overlap

Carries(n, i) == \E s \in Scope : NameOf[s] = n /\ i \in Covers[s]

ClockInv ==
  \A i \in Issue : /\ 0 < updated[i] /\ updated[i] <= now
                   /\ indexed[i] <= updated[i]
                   /\ indexed[i] # updated[i] => now <= updated[i] + MaxLag

CursorInv ==
  \A n \in Name, r \in Resource :
    /\ Restored(n)[r] <= now /\ stored[n][r] <= now
    /\ \A k \in 1..Len(packages[n]) : packages[n][k].cursors[r] <= now

PackageOK(n, k) ==
  \A i \in Issue :
    /\ packages[n][k].rows[i] <= indexed[i]
    /\ packages[n][k].rows[i] > 0 =>
         /\ Carries(n, i)
         /\ raw[packages[n][k].res][i] <= packages[n][k].rows[i]
         /\ \A l \in 1..Len(packages[n]) :
              /\ k <= l /\ packages[n][l].res = packages[n][k].res /\ packages[n][l].rows[i] > 0
              => packages[n][k].rows[i] <= packages[n][l].rows[i]

VersionInv ==
  /\ \A r \in Resource, i \in Issue : raw[r][i] <= indexed[i]
  /\ \A n \in Name : \A k \in 1..Len(packages[n]) : PackageOK(n, k)

(* Where a walk is.                                                        *)
WalkPlace(n) ==
  /\ cursor[n] # NoState
  /\ NameOf[run[n].scope] = n
  /\ run[n].start = Start(cursor[n][run[n].res])
  /\ run[n].floor \in Floors(cursor[n][run[n].res])
  /\ run[n].begun <= now /\ run[n].pos <= now
  /\ IF isCloud THEN now <= run[n].begun + MaxWalk ELSE run[n].pos <= run[n].begun

(* What it holds is as new as all that was extracted before.               *)
WalkRows(n) ==
  \A i \in Issue :
    /\ run[n].rows[i] <= run[n].seen[i] /\ run[n].seen[i] <= indexed[i]
    /\ run[n].seen[i] > 0 => i \in Covers[run[n].scope]
    /\ run[n].rows[i] > 0 =>
         /\ raw[run[n].res][i] <= run[n].rows[i]
         /\ \A k \in 1..Len(packages[n]) : packages[n][k].res = run[n].res
              => packages[n][k].rows[i] <= run[n].rows[i]

(* Last edited early enough to be in the index when the walk began.        *)
Settled(n, i) == i \in Covers[run[n].scope] /\ updated[i] + MaxLag < run[n].begun

(* A settled issue is read once, before the walk comes past it.            *)
WalkRead(n) ==
  \A i \in Issue : Settled(n, i) =>
    /\ run[n].seen[i] > 0 => run[n].seen[i] = updated[i]
    /\ run[n].floor <= updated[i] /\ updated[i] < run[n].pos => run[n].seen[i] = updated[i]
    /\ run[n].seen[i] = updated[i] /\ run[n].start <= updated[i] => run[n].rows[i] = updated[i]

WalkInv ==
  \A n \in Name : run[n].step = "walking" => WalkPlace(n) /\ WalkRows(n) /\ WalkRead(n)

(* What a package's cursors passed comes with it or before it.             *)
PackageInv ==
  \A s \in Scope, r \in Resource : \A i \in Covers[s] :
    \A k \in 1..Len(packages[NameOf[s]]) :
      Passed(i, packages[NameOf[s]][k].cursors[r]) =>
        \/ raw[r][i] = updated[i]
        \/ \E l \in 1..k : /\ packages[NameOf[s]][l].res = r
                           /\ packages[NameOf[s]][l].rows[i] = updated[i]

IInv ==
  /\ TypeOK /\ OverlapSuffices
  /\ ClockInv /\ CursorInv /\ VersionInv /\ WalkInv
  /\ NothingSkipped /\ StoredIsDelivered /\ PackageInv

-----------------------------------------------------------------------------
(* Types of what the invariants compare.                                   *)
LEMMA Numbers ==
  ASSUME TypeOK
  PROVE  /\ now \in Nat
         /\ \A i \in Issue : updated[i] \in Nat /\ indexed[i] \in Nat
         /\ \A r \in Resource, i \in Issue : raw[r][i] \in Nat
         /\ \A n \in Name, r \in Resource : stored[n][r] \in Nat /\ Restored(n)[r] \in Nat
         /\ \A n \in Name : Restored(n) \in Cursors
         /\ \A n \in Name : \A k \in 1..Len(packages[n]) :
              /\ packages[n][k].res \in Resource
              /\ \A i \in Issue : packages[n][k].rows[i] \in Nat
              /\ \A r \in Resource : packages[n][k].cursors[r] \in Nat
<1>1. \A n \in Name : Restored(n) \in Cursors
  BY DEF TypeOK, Restored, Cursors
<1>2. \A n \in Name : \A k \in 1..Len(packages[n]) : packages[n][k] \in Package
  BY DEF TypeOK
<1> QED BY <1>1, <1>2 DEF TypeOK, Cursors, Package

LEMMA WalkNumbers ==
  ASSUME TypeOK, NEW n \in Name, run[n].step = "walking"
  PROVE  /\ run[n] \in Walk
         /\ run[n].scope \in Scope /\ run[n].res \in Resource /\ run[n].limit \in Nat
         /\ run[n].start \in Nat /\ run[n].floor \in Nat /\ run[n].begun \in Nat
         /\ run[n].pos \in Nat /\ run[n].count \in Nat
         /\ \A i \in Issue : run[n].seen[i] \in Nat /\ run[n].rows[i] \in Nat
<1>1. run[n] \in Walk
  <2>1. run[n] # [step |-> "idle"] /\ run[n] # [step |-> "loading"]
    OBVIOUS
  <2>2. run[n] \in Walk \cup {[step |-> "idle"], [step |-> "loading"]}
    BY DEF TypeOK
  <2> QED BY <2>1, <2>2
<1> QED BY <1>1, LimitsType DEF Walk

LEMMA StartType == \A c \in Nat : Start(c) \in Nat /\ Floors(c) \subseteq Nat
BY TimesType DEF Start, Floors, AtLeast0

LEMMA InitIInv == Init /\ OverlapSuffices => IInv
<1> SUFFICES ASSUME Init, OverlapSuffices PROVE IInv
  OBVIOUS
<1> USE DEF Init
<1>1. TypeOK
  <2>1. NoRows \in [Issue -> Nat]
    BY DEF NoRows
  <2>2. [r \in Resource |-> 0] \in Cursors
    BY DEF Cursors
  <2> QED BY <2>1, <2>2, TimesType DEF TypeOK, IdleRun
<1>2. ClockInv
  BY TimesType DEF ClockInv
<1>3. \A n \in Name : Restored(n) = [r \in Resource |-> 0] /\ packages[n] = << >>
  BY DEF Restored
<1>4. CursorInv
  BY <1>3, TimesType DEF CursorInv
<1>5. VersionInv
  BY <1>3, <1>1, Numbers DEF VersionInv, NoRows
<1>6. WalkInv
  BY DEF WalkInv, IdleRun
<1>7. \A i \in Issue : ~Passed(i, 0)
  BY <1>1, TimesType DEF Passed, OverlapSuffices, TypeOK
<1>8. NothingSkipped /\ StoredIsDelivered
  BY <1>3, <1>7, ScopeType DEF NothingSkipped, StoredIsDelivered
<1>9. PackageInv
  BY <1>3, ScopeType DEF PackageInv
<1> QED BY <1>1, <1>2, <1>4, <1>5, <1>6, <1>8, <1>9 DEF IInv

-----------------------------------------------------------------------------
(* Jira's steps: the index only comes closer, and an edit is newer than    *)
(* what any walk has settled and any cursor has passed.                    *)
LEMMA JiraInv ==
  ASSUME IInv, JiraStep
  PROVE  IInv'
<1> USE DEF IInv
<1>n. UNCHANGED <<disk, run, dest, faults, isCloud>> /\ now \in Nat /\ now' \in Nat
  BY DEF JiraStep, Tick, Edit, Index, TypeOK
<1>u. UNCHANGED <<cursor, packages, run, stored, raw, faults, isCloud>>
  BY <1>n DEF disk, dest
<1>1. TypeOK'
  BY <1>u DEF JiraStep, Tick, Edit, Index, TypeOK
<1>2. OverlapSuffices'
  BY <1>u DEF OverlapSuffices
<1>3. ClockInv'
  <2>1. CASE Tick
    BY <2>1, Numbers, TimesType DEF Tick, ClockInv
  <2>2. CASE \E j \in Issue : Edit(j)
    BY <2>2, Numbers, TimesType DEF Edit, ClockInv, TypeOK
  <2>3. CASE \E j \in Issue : Index(j)
    BY <2>3, Numbers, TimesType DEF Index, ClockInv, TypeOK
  <2> QED BY <2>1, <2>2, <2>3 DEF JiraStep
<1>i. \A i \in Issue : indexed[i] <= indexed'[i] /\ indexed'[i] \in Nat
  <2>1. CASE Tick \/ \E j \in Issue : Edit(j)
    BY <2>1, Numbers DEF Tick, Edit
  <2>2. CASE \E j \in Issue : Index(j)
    BY <2>2, Numbers DEF Index, ClockInv, TypeOK
  <2> QED BY <2>1, <2>2 DEF JiraStep
<1>t. now <= now'
  BY DEF JiraStep, Tick, Edit, Index, TypeOK
(* What is older than now was not edited.                                  *)
<1>e. \A i \in Issue : updated'[i] \in Nat /\ (updated'[i] < now => updated'[i] = updated[i])
  BY <1>1, Numbers DEF JiraStep, Tick, Edit, Index, TypeOK
<1>4. CursorInv'
  BY <1>u, <1>t, Numbers, <1>n DEF CursorInv, Restored
<1>5. VersionInv'
  <2>1. \A r \in Resource, i \in Issue : raw'[r][i] <= indexed'[i]
    BY <1>u, <1>i, Numbers DEF VersionInv
  <2>2. \A n \in Name : \A k \in 1..Len(packages'[n]) : PackageOK(n, k)'
    BY <1>u, <1>i, Numbers DEF VersionInv, PackageOK, Carries
  <2> QED BY <2>1, <2>2 DEF VersionInv
<1>6. ASSUME NEW n \in Name, run'[n].step = "walking"
      PROVE  (WalkPlace(n) /\ WalkRows(n) /\ WalkRead(n))'
  <2> USE <1>6, <1>u
  <2>0. run[n].step = "walking" /\ WalkPlace(n) /\ WalkRows(n) /\ WalkRead(n)
    BY DEF WalkInv
  <2> USE WalkNumbers
  <2>1. WalkPlace(n)'
    <3>1. isCloud => now' <= run[n].begun + MaxWalk
      BY <2>0, TimesType, <1>n DEF JiraStep, Tick, Edit, Index, WalkPlace
    <3> QED BY <3>1, <2>0, <1>t, <1>n DEF WalkPlace
  <2>2. WalkRows(n)'
    BY <2>0, <1>i, Numbers DEF WalkRows
  <2>3. WalkRead(n)'
    <3> SUFFICES ASSUME NEW i \in Issue, Settled(n, i)'
                 PROVE  Settled(n, i) /\ updated'[i] = updated[i]
      BY <2>0 DEF WalkRead
    <3>1. updated'[i] < now
      BY <2>0, <1>e, TimesType, <1>n DEF Settled, WalkPlace
    <3> QED BY <3>1, <1>e DEF Settled
  <2> QED BY <2>1, <2>2, <2>3
<1>7. WalkInv'
  BY <1>6 DEF WalkInv
(* Nor is what a cursor passed.                                            *)
<1>p. \A i \in Issue, c \in Nat : c <= now /\ Passed(i, c)' => Passed(i, c) /\ updated'[i] = updated[i]
  <2> TAKE i \in Issue, c \in Nat
  <2> HAVE c <= now /\ Passed(i, c)'
  <2>1. ZoneSlip <= Overlap
    BY TimesType DEF OverlapSuffices
  <2>2. updated'[i] < now
    BY <2>1, <1>e, <1>n, TimesType DEF Passed
  <2> QED BY <2>2, <1>e DEF Passed
<1>8. NothingSkipped'
  <2> SUFFICES ASSUME NEW s \in Scope, NEW r \in Resource, NEW i \in Covers[s],
                      Passed(i, Restored(NameOf[s])[r])'
               PROVE  (raw[r][i] = updated[i] \/ InPackages(NameOf[s], r, i))'
    BY <1>u DEF NothingSkipped
  <2>1. i \in Issue /\ NameOf[s] \in Name
    BY ScopeType
  <2>2. Restored(NameOf[s])' = Restored(NameOf[s])
    BY <1>u DEF Restored
  <2>3. Passed(i, Restored(NameOf[s])[r]) /\ updated'[i] = updated[i]
    BY <2>1, <2>2, <1>p, Numbers DEF CursorInv, Passed
  <2> QED BY <2>3, <1>u DEF NothingSkipped, InPackages
<1>9. StoredIsDelivered'
  <2> SUFFICES ASSUME NEW s \in Scope, NEW r \in Resource, NEW i \in Covers[s],
                      Passed(i, stored[NameOf[s]][r])'
               PROVE  (raw[r][i] = updated[i])'
    BY DEF StoredIsDelivered
  <2>1. i \in Issue /\ NameOf[s] \in Name
    BY ScopeType
  <2>2. Passed(i, stored[NameOf[s]][r]) /\ updated'[i] = updated[i]
    BY <2>1, <1>u, <1>p, Numbers DEF CursorInv, Passed
  <2> QED BY <2>2, <1>u DEF StoredIsDelivered
<1>10. PackageInv'
  <2> SUFFICES ASSUME NEW s \in Scope, NEW r \in Resource, NEW i \in Covers[s],
                      NEW k \in 1..Len(packages[NameOf[s]]),
                      Passed(i, packages[NameOf[s]][k].cursors[r])'
               PROVE  Passed(i, packages[NameOf[s]][k].cursors[r]) /\ updated'[i] = updated[i]
    BY <1>u DEF PackageInv
  <2>1. i \in Issue /\ NameOf[s] \in Name
    BY ScopeType
  <2> QED BY <2>1, <1>u, <1>p, Numbers DEF CursorInv, Passed
<1> QED BY <1>1, <1>2, <1>3, <1>4, <1>5, <1>7, <1>8, <1>9, <1>10

-----------------------------------------------------------------------------
(* Steps of a pipeline change neither Jira nor the assumption about it.    *)
LEMMA JiraSame ==
  ASSUME IInv, UNCHANGED jira
  PROVE  /\ ClockInv' /\ OverlapSuffices'
         /\ UNCHANGED <<isCloud, now, updated, indexed>>
         /\ \A i, c : Passed(i, c)' <=> Passed(i, c)
BY DEF IInv, ClockInv, OverlapSuffices, jira, Passed

(* The walks of the other pipelines go on undisturbed.                     *)
LEMMA OtherWalks ==
  ASSUME IInv, NEW n \in Name, NEW m \in Name, m # n, UNCHANGED jira,
         run'[m] = run[m], cursor'[m] = cursor[m], packages'[m] = packages[m],
         \A r \in Resource, i \in Issue :
           raw'[r][i] # raw[r][i] => Carries(n, i) \/ raw'[r][i] <= raw[r][i],
         PipelinesApart, run[m].step = "walking", TypeOK'
  PROVE  (WalkPlace(m) /\ WalkRows(m) /\ WalkRead(m))'
<1>0. WalkPlace(m) /\ WalkRows(m) /\ WalkRead(m) /\ UNCHANGED <<isCloud, now, updated, indexed>>
  BY JiraSame DEF IInv, WalkInv
<1>1. WalkPlace(m)'
  BY <1>0 DEF WalkPlace
<1>2. WalkRead(m)'
  BY <1>0 DEF WalkRead, Settled
<1>3. WalkRows(m)'
  <2> SUFFICES ASSUME NEW i \in Issue, run[m].rows[i] > 0
               PROVE  raw'[run[m].res][i] <= run[m].rows[i]
    BY <1>0 DEF WalkRows
  <2>1. i \in Covers[run[m].scope] /\ NameOf[run[m].scope] = m /\ run[m].scope \in Scope
        /\ run[m].res \in Resource
    BY <1>0, WalkNumbers DEF WalkRows, WalkPlace, IInv
  <2>2. ~Carries(n, i)
    BY <2>1 DEF Carries, PipelinesApart
  <2>3. raw'[run[m].res][i] \in Nat /\ raw[run[m].res][i] \in Nat
    BY <2>1 DEF TypeOK, IInv
  <2> QED BY <1>0, <2>1, <2>2, <2>3, WalkNumbers DEF WalkRows, IInv
<1> QED BY <1>1, <1>2, <1>3

-----------------------------------------------------------------------------
LEMMA StartRunInv ==
  ASSUME IInv, PipelinesApart, NEW s \in Scope, NEW r \in Resource, NEW limit \in Limits,
         NEW reset \in BOOLEAN, StartRun(s, r, limit, reset)
  PROVE  IInv'
<1> USE DEF IInv
<1> DEFINE n  == NameOf[s]
           cs == IF reset THEN Reset(Restored(n), r) ELSE Restored(n)
<1>n. n \in Name
  BY ScopeType
<1>u. /\ UNCHANGED jira /\ UNCHANGED <<packages, stored, raw, faults>>
      /\ cursor' = [cursor EXCEPT ![n] = cs]
  BY DEF StartRun, dest
<1>j. UNCHANGED <<isCloud, now, updated, indexed>>
  BY <1>u, JiraSame
<1>c. /\ cs \in Cursors
      /\ \A q \in Resource : cs[q] = 0 \/ cs[q] = Restored(n)[q]
  BY <1>n, Numbers DEF Reset, Cursors
<1>r. /\ Restored(n)' = cs
      /\ \A m \in Name : m # n => Restored(m)' = Restored(m)
      /\ \A m \in Name, q \in Resource : Restored(m)'[q] <= Restored(m)[q]
  <2>1. cs # NoState
    BY <1>c, NoStateType DEF Cursors
  <2>2. Restored(n)' = cs
    BY <2>1, <1>u, <1>n DEF Restored, TypeOK
  <2>3. \A m \in Name : m # n => Restored(m)' = Restored(m)
    BY <1>u DEF Restored, TypeOK
  <2> QED BY <2>2, <2>3, <1>c, <1>n, Numbers
<1>w. PICK floor \in Floors(cs[r]) :
        run' = [run EXCEPT ![n] =
                 [step |-> "walking", scope |-> s, res |-> r, limit |-> limit,
                  start |-> Start(cs[r]), floor |-> floor, begun |-> now, pos |-> 0,
                  seen |-> NoRows, rows |-> NoRows, count |-> 0]]
  BY DEF StartRun
<1>0. NoRows \in [Issue -> Nat] /\ \A i \in Issue : NoRows[i] = 0
  BY DEF NoRows
<1>f. cs[r] \in Nat /\ Start(cs[r]) \in Nat /\ floor \in Nat
  BY <1>c, <1>w, StartType DEF Cursors
<1>1. TypeOK'
  <2>1. run' \in [Name -> Walk \cup {[step |-> "idle"], [step |-> "loading"]}]
    BY <1>w, <1>0, <1>f, <1>n DEF TypeOK, Walk
  <2>2. cursor' \in [Name -> Cursors \cup {NoState}]
    BY <1>u, <1>c DEF TypeOK
  <2> QED BY <2>1, <2>2, <1>u, <1>j DEF TypeOK
<1>2. ClockInv' /\ OverlapSuffices'
  BY <1>u, JiraSame
<1>3. CursorInv'
  BY <1>u, <1>j, <1>r, <1>1, Numbers DEF CursorInv, TypeOK, Restored, Cursors
<1>4. VersionInv'
  BY <1>u, <1>j DEF VersionInv, PackageOK, Carries
<1>5. WalkInv'
  <2>1. (WalkPlace(n) /\ WalkRows(n) /\ WalkRead(n))'
    <3>1. run'[n] = [step |-> "walking", scope |-> s, res |-> r, limit |-> limit,
                     start |-> Start(cs[r]), floor |-> floor, begun |-> now, pos |-> 0,
                     seen |-> NoRows, rows |-> NoRows, count |-> 0]
      BY <1>w, <1>n DEF TypeOK
    <3>2. cursor'[n] = cs /\ cs # NoState
      BY <1>u, <1>n, <1>c, NoStateType DEF TypeOK, Cursors
    <3>3. WalkPlace(n)'
      BY <3>1, <3>2, <1>w, <1>j, TimesType DEF WalkPlace, TypeOK
    <3>4. WalkRows(n)'
      BY <3>1, <1>0, <1>j, Numbers DEF WalkRows
    <3>5. WalkRead(n)'
      BY <3>1, <1>0, <1>j, Numbers DEF WalkRead, Settled, ClockInv
    <3> QED BY <3>3, <3>4, <3>5
  <2>2. ASSUME NEW m \in Name, m # n, run'[m].step = "walking"
        PROVE  (WalkPlace(m) /\ WalkRows(m) /\ WalkRead(m))'
    <3>1. run'[m] = run[m] /\ cursor'[m] = cursor[m]
      BY <2>2, <1>w, <1>u DEF TypeOK
    <3> QED BY <3>1, <2>2, <1>u, <1>n, <1>1, OtherWalks
  <2> QED BY <2>1, <2>2 DEF WalkInv
<1>6. NothingSkipped'
  <2> SUFFICES ASSUME NEW t \in Scope, NEW q \in Resource, NEW i \in Covers[t],
                      Passed(i, Restored(NameOf[t])[q])'
               PROVE  (raw[q][i] = updated[i] \/ InPackages(NameOf[t], q, i))'
    BY DEF NothingSkipped
  <2>1. i \in Issue /\ NameOf[t] \in Name
    BY ScopeType
  <2>2. Restored(NameOf[t])'[q] <= Restored(NameOf[t])[q] /\ Restored(NameOf[t])'[q] \in Nat
    BY <2>1, <1>r, <1>c, Numbers DEF Cursors
  <2>3. Passed(i, Restored(NameOf[t])[q])
    BY <2>1, <2>2, <1>j, Numbers, TimesType DEF Passed
  <2> QED BY <2>3, <1>u, <1>j DEF NothingSkipped, InPackages
<1>7. StoredIsDelivered' /\ PackageInv'
  BY <1>u, <1>j DEF StoredIsDelivered, PackageInv, Passed
<1> QED BY <1>1, <1>2, <1>3, <1>4, <1>5, <1>6, <1>7

-----------------------------------------------------------------------------
(* A row.  What is not read yet and older is next, so a settled issue is   *)
(* read before the walk comes past it, and only once.                      *)
LEMMA RowInv ==
  ASSUME IInv, PipelinesApart, NEW n \in Name, NEW i \in Issue, Row(n, i)
  PROVE  IInv'
<1> USE DEF IInv
<1> DEFINE w == run[n]
<1>u. /\ UNCHANGED jira /\ UNCHANGED <<cursor, packages, stored, raw, faults>>
      /\ w.step = "walking" /\ i \in Ahead(w)
      /\ \A j \in Ahead(w) : indexed[i] <= indexed[j]
  BY DEF Row, disk, dest
<1>j. UNCHANGED <<isCloud, now, updated, indexed>>
  BY <1>u, JiraSame
<1>k. /\ i \in Covers[w.scope] /\ w.floor <= indexed[i] /\ w.pos <= indexed[i]
      /\ w.seen[i] < indexed[i]
      /\ ~isCloud => w.seen[i] = 0 /\ indexed[i] <= w.begun
  BY <1>u DEF Ahead
<1>w. PICK v : 
        /\ \/ indexed[i] < w.start /\ v = w.rows[i]
           \/ ~(indexed[i] < w.start) /\ w.rows[i] = 0 /\ v = indexed[i]
           \/ ~(indexed[i] < w.start) /\ w.rows[i] # 0 /\ v \in {w.rows[i], indexed[i]}
        /\ run' = [run EXCEPT ![n] =
             [w EXCEPT !.pos = indexed[i], !.seen = [@ EXCEPT ![i] = indexed[i]],
                       !.rows = [@ EXCEPT ![i] = v],
                       !.count = IF Counts(w, i) THEN @ + 1 ELSE @]]
  BY DEF Row
<1>t. /\ w \in Walk /\ w.start \in Nat /\ w.floor \in Nat /\ w.begun \in Nat /\ w.pos \in Nat
      /\ w.scope \in Scope /\ w.res \in Resource
      /\ \A k \in Issue : w.seen[k] \in Nat /\ w.rows[k] \in Nat
      /\ v \in Nat /\ indexed[i] \in Nat
  BY <1>u, <1>w, WalkNumbers, Numbers
<1>p. run'[n] = [w EXCEPT !.pos = indexed[i], !.seen = [@ EXCEPT ![i] = indexed[i]],
                          !.rows = [@ EXCEPT ![i] = v],
                          !.count = IF Counts(w, i) THEN @ + 1 ELSE @]
  BY <1>w DEF TypeOK
<1>a. /\ run'[n] \in Walk
      /\ run'[n].step = "walking" /\ run'[n].scope = w.scope /\ run'[n].res = w.res
      /\ run'[n].start = w.start /\ run'[n].floor = w.floor /\ run'[n].begun = w.begun
      /\ run'[n].pos = indexed[i]
      /\ \A k \in Issue : /\ run'[n].seen[k] = IF k = i THEN indexed[i] ELSE w.seen[k]
                          /\ run'[n].rows[k] = IF k = i THEN v ELSE w.rows[k]
  <2> DEFINE seen  == [w.seen EXCEPT ![i] = indexed[i]]
             rows  == [w.rows EXCEPT ![i] = v]
             count == IF Counts(w, i) THEN w.count + 1 ELSE w.count
  <2>1. w \in Walk /\ indexed[i] \in Nat
    BY <1>t
  <2>2. seen \in [Issue -> Nat] /\ rows \in [Issue -> Nat] /\ count \in Nat
    BY <1>t, <2>1 DEF Walk
  <2>3. run'[n] = [w EXCEPT !.pos = indexed[i], !.seen = seen, !.rows = rows, !.count = count]
    BY <1>p
  <2>4. run'[n] \in Walk
    <3> HIDE DEF seen, rows, count, w
    <3> QED BY <2>1, <2>2, <2>3 DEF Walk
  <2> QED BY <2>1, <2>3, <2>4, <1>t, <1>u DEF Walk
<1>1. TypeOK'
  <2>1. run' \in [Name -> Walk \cup {[step |-> "idle"], [step |-> "loading"]}]
    <3>1. run' = [run EXCEPT ![n] = run'[n]]
      BY <1>w, <1>p
    <3> QED BY <3>1, <1>a DEF TypeOK
  <2> QED BY <2>1, <1>u, <1>j DEF TypeOK
<1>2. ClockInv' /\ OverlapSuffices'
  BY <1>u, JiraSame
<1>3. CursorInv' /\ VersionInv'
  BY <1>u, <1>j DEF CursorInv, VersionInv, PackageOK, Carries, Restored
<1>o. WalkPlace(n) /\ WalkRows(n) /\ WalkRead(n)
  BY <1>u DEF WalkInv
<1>4. WalkPlace(n)'
  BY <1>o, <1>u, <1>a, <1>j, <1>k, <1>t, Numbers DEF WalkPlace, ClockInv
<1>5. WalkRows(n)'
  <2>1. \A k \in Issue : /\ run'[n].rows[k] <= run'[n].seen[k] /\ run'[n].seen[k] <= indexed[k]
                         /\ run'[n].seen[k] > 0 => k \in Covers[w.scope]
    BY <1>o, <1>a, <1>k, <1>t, <1>w, Numbers DEF WalkRows
  <2>2. ASSUME NEW k \in Issue, run'[n].rows[k] > 0
        PROVE  /\ raw[w.res][k] <= run'[n].rows[k]
               /\ \A l \in 1..Len(packages[n]) : packages[n][l].res = w.res
                    => packages[n][l].rows[k] <= run'[n].rows[k]
    <3>1. CASE run'[n].rows[k] = w.rows[k]
      BY <3>1, <2>2, <1>o DEF WalkRows
    <3>2. CASE run'[n].rows[k] = indexed[k]
      BY <3>2, <1>t, Numbers DEF VersionInv, PackageOK
    <3> QED BY <3>1, <3>2, <1>a, <1>w
  <2> QED BY <2>1, <2>2, <1>a, <1>u, <1>j DEF WalkRows
<1>6. WalkRead(n)'
  <2> SUFFICES ASSUME NEW k \in Issue, Settled(n, k)
               PROVE  /\ run'[n].seen[k] > 0 => run'[n].seen[k] = updated[k]
                      /\ w.floor <= updated[k] /\ updated[k] < indexed[i]
                           => run'[n].seen[k] = updated[k]
                      /\ run'[n].seen[k] = updated[k] /\ w.start <= updated[k]
                           => run'[n].rows[k] = updated[k]
    BY <1>a, <1>j DEF WalkRead, Settled
  <2>1. /\ k \in Covers[w.scope] /\ indexed[k] = updated[k] /\ updated[k] < w.begun
        /\ 0 < updated[k]
    BY <1>o, <1>t, Numbers, TimesType DEF Settled, ClockInv, WalkPlace
  <2>2. /\ w.seen[k] > 0 => w.seen[k] = updated[k]
        /\ w.floor <= updated[k] /\ updated[k] < w.pos => w.seen[k] = updated[k]
        /\ w.seen[k] = updated[k] /\ w.start <= updated[k] => w.rows[k] = updated[k]
        /\ w.seen[k] <= indexed[k] /\ w.rows[k] <= w.seen[k]
    BY <1>o DEF WalkRead, WalkRows
  <2>3. CASE k = i
    <3>1. w.seen[k] = 0 /\ w.rows[k] = 0
      BY <2>1, <2>2, <2>3, <1>k, <1>t
    <3>2. w.start <= updated[k] => v = indexed[k]
      BY <3>1, <2>1, <2>3, <1>w, <1>t, Numbers
    <3> QED BY <3>2, <2>1, <2>3, <1>a
  <2>4. CASE k # i
    <3>1. ASSUME w.floor <= updated[k], updated[k] < indexed[i], w.seen[k] # updated[k]
          PROVE  FALSE
      <4>1. w.pos <= updated[k] /\ w.seen[k] = 0
        BY <3>1, <2>1, <2>2, <1>t, Numbers
      <4>2. k \in Ahead(w)
        BY <4>1, <3>1, <2>1, <1>t, Numbers DEF Ahead
      <4> QED BY <4>2, <3>1, <2>1, <1>u, Numbers
    <3> QED BY <3>1, <2>2, <2>4, <1>a
  <2> QED BY <2>3, <2>4
<1>7. WalkInv'
  <2>1. ASSUME NEW m \in Name, m # n, run'[m].step = "walking"
        PROVE  (WalkPlace(m) /\ WalkRows(m) /\ WalkRead(m))'
    <3>1. run'[m] = run[m]
      BY <2>1, <1>w DEF TypeOK
    <3> QED BY <3>1, <2>1, <1>u, <1>1, OtherWalks
  <2> QED BY <2>1, <1>4, <1>5, <1>6 DEF WalkInv
<1>8. NothingSkipped'
  BY <1>u, <1>j DEF NothingSkipped, Passed, InPackages, Restored
<1>9. StoredIsDelivered' /\ PackageInv'
  BY <1>u, <1>j DEF StoredIsDelivered, PackageInv, Passed
<1> QED BY <1>1, <1>2, <1>3, <1>7, <1>8, <1>9

-----------------------------------------------------------------------------
(* The end of a walk: the cursor moves to where the walk came, and the     *)
(* package has what it newly passes.                                       *)
LEMMA EndWalkInv ==
  ASSUME IInv, PipelinesApart, NEW n \in Name, EndWalk(n)
  PROVE  IInv'
<1> USE DEF IInv
<1> DEFINE w  == run[n]
           cs == [cursor[n] EXCEPT ![w.res] = CursorAfter(@, w)]
           g  == [res |-> w.res, rows |-> w.rows, cursors |-> cs]
<1>u. /\ UNCHANGED jira /\ UNCHANGED <<stored, raw, faults>>
      /\ w.step = "walking"
      /\ run' = [run EXCEPT ![n] = [step |-> "loading"]]
  BY DEF EndWalk, dest
<1>j. UNCHANGED <<isCloud, now, updated, indexed>>
  BY <1>u, JiraSame
<1>o. WalkPlace(n) /\ WalkRows(n) /\ WalkRead(n)
  BY <1>u DEF WalkInv
<1>t. /\ w \in Walk /\ w.start \in Nat /\ w.floor \in Nat /\ w.begun \in Nat /\ w.pos \in Nat
      /\ w.scope \in Scope /\ w.res \in Resource /\ w.rows \in [Issue -> Nat]
      /\ \A k \in Issue : w.seen[k] \in Nat /\ w.rows[k] \in Nat
  BY <1>u, WalkNumbers DEF Walk
<1>m. \A m \in Name : m # n => run'[m] = run[m]
  BY <1>u DEF TypeOK
<1>2. ClockInv' /\ OverlapSuffices'
  BY <1>u, JiraSame
<1>7. ASSUME TypeOK', \A m \in Name : m # n => cursor'[m] = cursor[m] /\ packages'[m] = packages[m]
      PROVE  WalkInv'
  <2> SUFFICES ASSUME NEW m \in Name, run'[m].step = "walking"
               PROVE  (WalkPlace(m) /\ WalkRows(m) /\ WalkRead(m))'
    BY DEF WalkInv
  <2>1. m # n
    BY <1>u DEF TypeOK
  <2>2. run'[m] = run[m] /\ cursor'[m] = cursor[m] /\ packages'[m] = packages[m]
    BY <2>1, <1>7, <1>m
  <2> QED BY <2>1, <2>2, <1>7, <1>u, OtherWalks
<1>A. CASE w.rows = NoRows
  <2>u. UNCHANGED <<cursor, packages>>
    BY <1>A DEF EndWalk, disk
  <2>1. TypeOK'
    BY <1>u, <1>j, <2>u DEF TypeOK
  <2>2. CursorInv' /\ VersionInv'
    BY <1>u, <1>j, <2>u DEF CursorInv, VersionInv, PackageOK, Carries, Restored
  <2>3. NothingSkipped'
    BY <1>u, <1>j, <2>u DEF NothingSkipped, Passed, InPackages, Restored
  <2>4. StoredIsDelivered' /\ PackageInv'
    BY <1>u, <1>j, <2>u DEF StoredIsDelivered, PackageInv, Passed
  <2> QED BY <2>u, <2>1, <2>2, <2>3, <2>4, <1>2, <1>7
<1>B. CASE w.rows # NoRows
  <2>u. /\ cursor' = [cursor EXCEPT ![n] = cs]
        /\ packages' = [packages EXCEPT ![n] = Append(@, g)]
    BY <1>B DEF EndWalk
  <2>c. /\ cursor[n] \in Cursors /\ cs \in Cursors
        /\ cs[w.res] = CursorAfter(cursor[n][w.res], w)
        /\ \A r \in Resource : r # w.res => cs[r] = cursor[n][r]
        /\ cursor[n] = Restored(n)
    BY <1>o, <1>t DEF WalkPlace, TypeOK, Cursors, CursorAfter, Restored
  <2>g. /\ g \in Package
        /\ g.res = w.res /\ g.rows = w.rows /\ g.cursors = cs
    BY <1>t, <2>c DEF Package
  <2> DEFINE N == Len(packages[n])
  <2>p. /\ packages[n] \in Seq(Package) /\ N \in Nat
        /\ packages'[n] = Append(packages[n], g)
        /\ Len(packages'[n]) = N + 1
        /\ packages'[n][N + 1] = g
        /\ \A k \in 1..N : packages'[n][k] = packages[n][k]
        /\ \A m \in Name : m # n => packages'[m] = packages[m] /\ cursor'[m] = cursor[m]
        /\ cursor'[n] = cs
    <3>1. packages[n] \in Seq(Package) /\ packages'[n] = Append(packages[n], g)
      BY <2>u DEF TypeOK
    <3> QED BY <3>1, <2>u, <2>g DEF TypeOK
  <2> HIDE DEF g
  <2>1. TypeOK'
    <3>1. packages' \in [Name -> Seq(Package)]
      BY <2>u, <2>p, <2>g DEF TypeOK
    <3>2. cursor' \in [Name -> Cursors \cup {NoState}]
      BY <2>u, <2>c DEF TypeOK
    <3> QED BY <3>1, <3>2, <1>u, <1>j DEF TypeOK
  <2>r. Restored(n)' = cs /\ \A m \in Name : m # n => Restored(m)' = Restored(m)
    <3>1. cs # NoState
      BY <2>c, NoStateType DEF Cursors
    <3> QED BY <3>1, <2>p, <1>u DEF Restored
  <2>b. \A r \in Resource : cs[r] <= now
    BY <2>c, <1>o DEF WalkPlace, CursorInv, CursorAfter
  <2>2. CursorInv'
    <3> SUFFICES ASSUME NEW m \in Name, NEW r \in Resource
                 PROVE  /\ Restored(m)'[r] <= now /\ stored[m][r] <= now
                        /\ \A k \in 1..Len(packages'[m]) : packages'[m][k].cursors[r] <= now
      BY <1>u, <1>j DEF CursorInv
    <3>1. CASE m # n
      BY <3>1, <2>r, <2>p DEF CursorInv
    <3>2. CASE m = n
      <4>1. Restored(n)'[r] <= now /\ stored[n][r] <= now
        BY <2>r, <2>b DEF CursorInv
      <4>2. ASSUME NEW k \in 1..Len(packages'[n]) PROVE packages'[n][k].cursors[r] <= now
        <5>1. CASE k = N + 1
          BY <5>1, <2>p, <2>b, <2>g
        <5>2. CASE k \in 1..N
          BY <5>2, <2>p DEF CursorInv
        <5> QED BY <5>1, <5>2, <2>p
      <4> QED BY <3>2, <4>1, <4>2
    <3> QED BY <3>1, <3>2
  <2>3. VersionInv'
    <3> SUFFICES ASSUME NEW m \in Name, NEW k \in 1..Len(packages'[m])
                 PROVE  PackageOK(m, k)'
      BY <1>u, <1>j DEF VersionInv
    <3>1. CASE m # n
      BY <3>1, <2>p, <1>u, <1>j DEF VersionInv, PackageOK, Carries
    <3>2. CASE m = n /\ k = N + 1
      <4>1. \A i \in Issue : w.rows[i] > 0 => Carries(n, i)
        BY <1>o, <1>t DEF WalkRows, WalkPlace, Carries
      <4>2. \A i \in Issue : w.rows[i] <= indexed[i]
        BY <1>o, <1>t, Numbers DEF WalkRows
      <4>3. \A l \in 1..(N + 1) : N + 1 <= l => l = N + 1
        BY <2>p
      <4> QED BY <3>2, <4>1, <4>2, <4>3, <1>o, <1>t, <2>p, <2>g, <1>u, <1>j
          DEF PackageOK, Carries, WalkRows
    <3>3. CASE m = n /\ k \in 1..N
      <4>0. PackageOK(n, k) /\ packages'[n][k] = packages[n][k]
        BY <3>3, <2>p DEF VersionInv
      <4> SUFFICES ASSUME NEW i \in Issue, packages[n][k].rows[i] > 0,
                          NEW l \in 1..(N + 1), k <= l,
                          packages'[n][l].res = packages[n][k].res, packages'[n][l].rows[i] > 0
                   PROVE  packages[n][k].rows[i] <= packages'[n][l].rows[i]
        BY <3>3, <4>0, <2>p, <1>u, <1>j DEF PackageOK, Carries
      <4>1. CASE l \in 1..N
        BY <4>0, <4>1, <2>p DEF PackageOK
      <4>2. CASE l = N + 1
        BY <4>2, <3>3, <2>p, <2>g, <1>o DEF WalkRows
      <4> QED BY <4>1, <4>2, <2>p
    <3> QED BY <3>1, <3>2, <3>3, <2>p
(* What the cursor passes only now is settled, and read.                   *)
  <2>4. ASSUME NEW i \in Covers[w.scope], NEW r \in Resource, Passed(i, cs[r])
        PROVE  \/ raw[r][i] = updated[i]
               \/ \E l \in 1..(N + 1) : packages'[n][l].res = r /\ packages'[n][l].rows[i] = updated[i]
    <3>0. i \in Issue /\ w.scope \in Scope /\ NameOf[w.scope] = n
      BY <1>t, <1>o, ScopeType DEF WalkPlace
    <3>1. CASE Passed(i, cursor[n][r])
      <4>1. raw[r][i] = updated[i] \/ InPackages(n, r, i)
        BY <3>0, <3>1, <2>c DEF NothingSkipped
      <4> QED BY <4>1, <2>p DEF InPackages
    <3>2. CASE ~Passed(i, cursor[n][r])
      <4> DEFINE c == cursor[n][r]
      <4>1. r = w.res /\ c \in Nat /\ cs[r] = w.pos
        BY <3>2, <2>4, <2>c DEF CursorAfter, Cursors
      <4>2. w.start <= updated[i] /\ w.floor <= updated[i]
        <5>1. w.start = Start(c) /\ w.floor \in Floors(c)
          BY <4>1, <1>o DEF WalkPlace
        <5>2. updated[i] + Overlap >= c + ZoneSlip /\ updated[i] \in Nat
          BY <3>0, <3>2, <4>1, Numbers, TimesType DEF Passed
        <5>3. CASE c = 0
          BY <5>1, <5>2, <5>3 DEF Start, Floors
        <5>4. CASE c # 0
          BY <5>1, <5>2, <5>4, <4>1, <1>t, TimesType DEF Start, Floors, AtLeast0
        <5> QED BY <5>3, <5>4
      <4>3. updated[i] + MaxLag < w.begun /\ updated[i] < w.pos
        <5>1. updated[i] + Overlap < w.pos + ZoneSlip /\ updated[i] \in Nat /\ now \in Nat
          BY <3>0, <2>4, <4>1, Numbers DEF Passed
        <5>2. CASE isCloud
          BY <5>1, <5>2, <1>o, <1>t, TimesType DEF WalkPlace, OverlapSuffices
        <5>3. CASE ~isCloud
          BY <5>1, <5>3, <1>o, <1>t, TimesType DEF WalkPlace, OverlapSuffices
        <5> QED BY <5>2, <5>3
      <4>4. w.rows[i] = updated[i]
        BY <4>2, <4>3, <3>0, <1>o DEF WalkRead, Settled
      <4> QED BY <4>1, <4>4, <2>p, <2>g
    <3> QED BY <3>1, <3>2
  <2>s. \A t \in Scope : NameOf[t] = n => t = w.scope
    BY <1>o, <1>t DEF WalkPlace, PipelinesApart
  <2>5. NothingSkipped'
    <3> SUFFICES ASSUME NEW t \in Scope, NEW r \in Resource, NEW i \in Covers[t],
                        Passed(i, Restored(NameOf[t])[r])'
                 PROVE  (raw[r][i] = updated[i] \/ InPackages(NameOf[t], r, i))'
      BY DEF NothingSkipped
    <3>1. CASE NameOf[t] = n
      <4>1. t = w.scope /\ Passed(i, cs[r])
        BY <3>1, <2>s, <2>r, <1>j DEF Passed
      <4> QED BY <4>1, <3>1, <2>4, <2>p, <1>u, <1>j DEF InPackages
    <3>2. CASE NameOf[t] # n
      <4>1. Restored(NameOf[t])' = Restored(NameOf[t]) /\ packages'[NameOf[t]] = packages[NameOf[t]]
        BY <3>2, <2>r, <2>p, ScopeType
      <4> QED BY <4>1, <1>u, <1>j DEF NothingSkipped, InPackages, Passed
    <3> QED BY <3>1, <3>2
  <2>6. StoredIsDelivered'
    BY <1>u, <1>j DEF StoredIsDelivered, Passed
  <2>7. PackageInv'
    <3> SUFFICES ASSUME NEW t \in Scope, NEW r \in Resource, NEW i \in Covers[t],
                        NEW k \in 1..Len(packages'[NameOf[t]]),
                        Passed(i, packages[NameOf[t]][k].cursors[r])'
                 PROVE  \/ raw[r][i] = updated[i]
                        \/ \E l \in 1..k : /\ packages'[NameOf[t]][l].res = r
                                           /\ packages'[NameOf[t]][l].rows[i] = updated[i]
      BY <1>u, <1>j DEF PackageInv
    <3>0. Passed(i, packages'[NameOf[t]][k].cursors[r])
      BY <1>j DEF Passed
    <3>1. CASE NameOf[t] = n /\ k = N + 1
      <4>1. t = w.scope /\ Passed(i, cs[r])
        BY <3>0, <3>1, <2>s, <2>p, <2>g
      <4> QED BY <4>1, <3>1, <2>4
    <3>2. CASE NameOf[t] = n /\ k \in 1..N
      <4>1. packages'[n][k] = packages[n][k] /\ Passed(i, packages[NameOf[t]][k].cursors[r])
        BY <3>0, <3>2, <2>p
      <4>2. \/ raw[r][i] = updated[i]
            \/ \E l \in 1..k : packages[n][l].res = r /\ packages[n][l].rows[i] = updated[i]
        BY <4>1, <3>2 DEF PackageInv
      <4>3. \A l \in 1..k : packages'[n][l] = packages[n][l]
        BY <3>2, <2>p
      <4> QED BY <4>2, <4>3, <3>2
    <3>3. CASE NameOf[t] # n
      <4>1. packages'[NameOf[t]] = packages[NameOf[t]]
        BY <3>3, <2>p, ScopeType
      <4> QED BY <3>0, <4>1 DEF PackageInv
    <3> QED BY <3>1, <3>2, <3>3, <2>p
  <2> QED BY <2>1, <2>2, <2>3, <2>5, <2>6, <2>7, <2>p, <1>2, <1>7
<1> QED BY <1>A, <1>B

-----------------------------------------------------------------------------
(* A load: the oldest package replaces rows by newer ones.                 *)
LEMMA LoadRaises ==
  ASSUME IInv, NEW n \in Name, Load(n)
  PROVE  LET g == packages[n][1]
         IN /\ 1 \in 1..Len(packages[n]) /\ g \in Package
            /\ \A r \in Resource, i \in Issue :
                 raw'[r][i] = IF r = g.res /\ g.rows[i] > 0 THEN g.rows[i] ELSE raw[r][i]
            /\ \A r \in Resource, i \in Issue : raw[r][i] <= raw'[r][i]
<1> USE DEF IInv
<1> DEFINE g == packages[n][1]
<1>1. packages[n] \in Seq(Package) /\ packages[n] # << >>
  BY DEF Load, TypeOK
<1>2. 1 \in 1..Len(packages[n]) /\ g \in Package /\ g = Head(packages[n])
  BY <1>1
<1>3. raw' = [raw EXCEPT ![g.res] = [i \in Issue |-> IF g.rows[i] > 0 THEN g.rows[i] ELSE @[i]]]
  BY <1>2 DEF Load, Merged
<1>4. \A r \in Resource, i \in Issue :
        raw'[r][i] = IF r = g.res /\ g.rows[i] > 0 THEN g.rows[i] ELSE raw[r][i]
  BY <1>2, <1>3 DEF TypeOK, Package
<1>5. \A r \in Resource, i \in Issue : raw[r][i] <= raw'[r][i]
  BY <1>2, <1>4, Numbers DEF VersionInv, PackageOK
<1> QED BY <1>2, <1>4, <1>5

LEMMA LoadInv ==
  ASSUME IInv, PipelinesApart, NEW n \in Name, Load(n)
  PROVE  IInv'
<1> USE DEF IInv
<1> DEFINE g == packages[n][1]
           N == Len(packages[n])
<1>u. /\ UNCHANGED jira /\ UNCHANGED <<cursor, run, faults>>
      /\ run[n].step = "loading"
  BY DEF Load
<1>j. UNCHANGED <<isCloud, now, updated, indexed>>
  BY <1>u, JiraSame
<1>g. /\ 1 \in 1..N /\ g \in Package
      /\ \A r \in Resource, i \in Issue :
           raw'[r][i] = IF r = g.res /\ g.rows[i] > 0 THEN g.rows[i] ELSE raw[r][i]
      /\ \A r \in Resource, i \in Issue : raw[r][i] <= raw'[r][i]
  BY LoadRaises
<1>p. /\ packages[n] \in Seq(Package) /\ N \in Nat /\ N >= 1
      /\ packages'[n] \in Seq(Package)
      /\ Len(packages'[n]) = N - 1
      /\ \A k \in 1..(N - 1) : packages'[n][k] = packages[n][k + 1]
      /\ \A m \in Name : m # n => packages'[m] = packages[m] /\ stored'[m] = stored[m]
      /\ stored'[n] = g.cursors
  <2>1. packages[n] \in Seq(Package) /\ packages[n] # << >>
    BY DEF Load, TypeOK
  <2>2. packages'[n] = Tail(packages[n]) /\ g = Head(packages[n])
    BY <2>1 DEF Load, TypeOK
  <2>3. \A m \in Name : m # n => packages'[m] = packages[m] /\ stored'[m] = stored[m]
    BY DEF Load, TypeOK
  <2>4. stored'[n] = g.cursors
    BY <2>2 DEF Load, CursorsOf, TypeOK
  <2> QED BY <2>1, <2>2, <2>3, <2>4
<1>c. g.res \in Resource /\ g.rows \in [Issue -> Nat] /\ g.cursors \in Cursors
  BY <1>g DEF Package
<1>1. TypeOK'
  <2>1. packages' \in [Name -> Seq(Package)]
    BY <1>p DEF Load, TypeOK
  <2>2. stored' \in [Name -> Cursors]
    BY <1>p, <1>c DEF Load, TypeOK
  <2>3. raw' \in [Resource -> [Issue -> Nat]]
    BY <1>g, <1>c, LoadRaises DEF Load, Merged, TypeOK
  <2> QED BY <2>1, <2>2, <2>3, <1>u, <1>j DEF TypeOK
<1>2. ClockInv' /\ OverlapSuffices'
  BY <1>u, JiraSame
<1>3. CursorInv'
  <2> SUFFICES ASSUME NEW m \in Name, NEW r \in Resource
               PROVE  /\ Restored(m)'[r] <= now /\ stored'[m][r] <= now
                      /\ \A k \in 1..Len(packages'[m]) : packages'[m][k].cursors[r] <= now
    BY <1>j DEF CursorInv
  <2>1. stored'[m][r] <= now
    BY <1>p, <1>g DEF CursorInv
  <2>2. Restored(m)'[r] <= now
    BY <2>1, <1>u DEF CursorInv, Restored
  <2>3. \A k \in 1..Len(packages'[m]) : packages'[m][k].cursors[r] <= now
    <3>1. CASE m # n
      BY <3>1, <1>p DEF CursorInv
    <3>2. CASE m = n
      BY <3>2, <1>p DEF CursorInv
    <3> QED BY <3>1, <3>2
  <2> QED BY <2>1, <2>2, <2>3
(* The row a package brings is no newer than those of later packages.      *)
<1>4. VersionInv'
  <2>1. \A r \in Resource, i \in Issue : raw'[r][i] <= indexed[i]
    BY <1>g DEF VersionInv, PackageOK
  <2>2. ASSUME NEW k \in 1..(N - 1) PROVE PackageOK(n, k)'
    <3>0. PackageOK(n, k + 1) /\ PackageOK(n, 1) /\ packages'[n][k] = packages[n][k + 1]
      BY <1>p, <1>g DEF VersionInv
    <3> SUFFICES ASSUME NEW i \in Issue, packages[n][k + 1].rows[i] > 0
                 PROVE  /\ raw'[packages[n][k + 1].res][i] <= packages[n][k + 1].rows[i]
                        /\ \A l \in 1..(N - 1) :
                             /\ k <= l /\ packages'[n][l].res = packages[n][k + 1].res
                             /\ packages'[n][l].rows[i] > 0
                             => packages[n][k + 1].rows[i] <= packages'[n][l].rows[i]
      BY <3>0, <1>p, <1>j DEF PackageOK, Carries
    <3>1. packages[n][k + 1].res \in Resource /\ k + 1 \in 1..N /\ 1 <= k + 1
      BY <1>p, Numbers
    <3>2. raw'[packages[n][k + 1].res][i] <= packages[n][k + 1].rows[i]
      BY <3>0, <3>1, <1>g DEF PackageOK
    <3>3. ASSUME NEW l \in 1..(N - 1), k <= l, packages'[n][l].res = packages[n][k + 1].res,
                 packages'[n][l].rows[i] > 0
          PROVE  packages[n][k + 1].rows[i] <= packages'[n][l].rows[i]
      <4>1. l + 1 \in 1..N /\ k + 1 <= l + 1 /\ packages'[n][l] = packages[n][l + 1]
        BY <3>3, <1>p
      <4> QED BY <4>1, <3>0, <3>3 DEF PackageOK
    <3> QED BY <3>2, <3>3
  <2>3. ASSUME NEW m \in Name, m # n, NEW k \in 1..Len(packages[m]) PROVE PackageOK(m, k)'
    <3>0. PackageOK(m, k) /\ packages'[m] = packages[m]
      BY <2>3, <1>p DEF VersionInv
    <3>1. packages[m][k].res \in Resource
      BY Numbers
    <3>2. ASSUME NEW i \in Issue, packages[m][k].rows[i] > 0
          PROVE  raw'[packages[m][k].res][i] = raw[packages[m][k].res][i]
      <4>1. Carries(m, i)
        BY <3>0, <3>2 DEF PackageOK
      <4>2. g.rows[i] > 0 => Carries(n, i)
        BY <1>g DEF VersionInv, PackageOK
      <4>3. ~(g.rows[i] > 0)
        BY <4>1, <4>2, <2>3 DEF Carries, PipelinesApart
      <4> QED BY <4>3, <3>1, <1>g
    <3> QED BY <3>0, <3>2, <1>j DEF PackageOK, Carries
  <2> QED BY <2>1, <2>2, <2>3, <1>p, <1>j DEF VersionInv
<1>5. WalkInv'
  <2> SUFFICES ASSUME NEW m \in Name, run'[m].step = "walking"
               PROVE  (WalkPlace(m) /\ WalkRows(m) /\ WalkRead(m))'
    BY DEF WalkInv
  <2>1. m # n /\ run'[m] = run[m] /\ cursor'[m] = cursor[m] /\ packages'[m] = packages[m]
    BY <1>u, <1>p
  <2>2. \A r \in Resource, i \in Issue : raw'[r][i] # raw[r][i] => Carries(n, i)
    BY <1>g DEF VersionInv, PackageOK
  <2> QED BY <2>1, <2>2, <1>u, <1>1, OtherWalks
(* What is delivered stays so, and what was in the first package is now.   *)
<1>d. \A r \in Resource, i \in Issue :
        /\ raw[r][i] = updated[i] => raw'[r][i] = updated[i]
        /\ g.res = r /\ g.rows[i] = updated[i] => raw'[r][i] = updated[i]
  <2> TAKE r \in Resource, i \in Issue
  <2>1. raw'[r][i] \in Nat /\ raw'[r][i] <= updated[i] /\ 0 < updated[i]
    <3>1. raw'[r][i] \in Nat
      BY <1>1 DEF TypeOK
    <3>2. raw'[r][i] <= indexed[i]
      BY <1>4, <1>j DEF VersionInv
    <3> QED BY <3>1, <3>2, Numbers DEF ClockInv
  <2> QED BY <2>1, <1>g, <1>c, Numbers
<1>6. NothingSkipped'
  <2> SUFFICES ASSUME NEW t \in Scope, NEW r \in Resource, NEW i \in Covers[t],
                      Passed(i, Restored(NameOf[t])[r])'
               PROVE  (raw[r][i] = updated[i] \/ InPackages(NameOf[t], r, i))'
    BY DEF NothingSkipped
  <2>0. i \in Issue /\ NameOf[t] \in Name
    BY ScopeType
  <2>1. CASE cursor[NameOf[t]] = NoState /\ NameOf[t] = n
    <3>1. Passed(i, g.cursors[r])
      BY <2>1, <1>u, <1>p, <1>j DEF Restored, Passed
    <3>2. raw[r][i] = updated[i] \/ (g.res = r /\ g.rows[i] = updated[i])
      BY <3>1, <2>1, <1>g DEF PackageInv
    <3> QED BY <3>2, <2>0, <1>d, <1>j
  <2>2. CASE ~(cursor[NameOf[t]] = NoState /\ NameOf[t] = n)
    <3>1. Passed(i, Restored(NameOf[t])[r])
      BY <2>0, <2>2, <1>u, <1>p, <1>j DEF Restored, Passed
    <3>2. raw[r][i] = updated[i] \/ InPackages(NameOf[t], r, i)
      BY <3>1 DEF NothingSkipped
    <3>3. CASE raw[r][i] = updated[i]
      BY <3>3, <2>0, <1>d, <1>j
    <3>4. CASE InPackages(NameOf[t], r, i)
      <4>1. CASE NameOf[t] # n
        BY <3>4, <4>1, <2>0, <1>p, <1>j DEF InPackages
      <4>2. CASE NameOf[t] = n
        <5>1. PICK k \in 1..N : packages[n][k].res = r /\ packages[n][k].rows[i] = updated[i]
          BY <3>4, <4>2 DEF InPackages
        <5>2. CASE k = 1
          BY <5>1, <5>2, <2>0, <1>d, <1>j
        <5>3. CASE k # 1
          <6>1. k - 1 \in 1..(N - 1) /\ packages'[n][k - 1] = packages[n][k]
            BY <5>3, <1>p
          <6> QED BY <6>1, <5>1, <4>2, <1>p, <1>j DEF InPackages
        <5> QED BY <5>2, <5>3
      <4> QED BY <4>1, <4>2
    <3> QED BY <3>2, <3>3, <3>4
  <2> QED BY <2>1, <2>2
<1>7. StoredIsDelivered'
  <2> SUFFICES ASSUME NEW t \in Scope, NEW r \in Resource, NEW i \in Covers[t],
                      Passed(i, stored[NameOf[t]][r])'
               PROVE  raw'[r][i] = updated[i]
    BY <1>j DEF StoredIsDelivered
  <2>0. i \in Issue /\ NameOf[t] \in Name
    BY ScopeType
  <2>1. CASE NameOf[t] = n
    <3>1. Passed(i, g.cursors[r])
      BY <2>1, <1>p, <1>j DEF Passed
    <3>2. raw[r][i] = updated[i] \/ (g.res = r /\ g.rows[i] = updated[i])
      BY <3>1, <2>1, <1>g DEF PackageInv
    <3> QED BY <3>2, <2>0, <1>d
  <2>2. CASE NameOf[t] # n
    <3>1. Passed(i, stored[NameOf[t]][r])
      BY <2>0, <2>2, <1>p, <1>j DEF Passed
    <3> QED BY <3>1, <2>0, <1>d DEF StoredIsDelivered
  <2> QED BY <2>1, <2>2
<1>8. PackageInv'
  <2> SUFFICES ASSUME NEW t \in Scope, NEW r \in Resource, NEW i \in Covers[t],
                      NEW k \in 1..Len(packages'[NameOf[t]]),
                      Passed(i, packages[NameOf[t]][k].cursors[r])'
               PROVE  \/ raw'[r][i] = updated[i]
                      \/ \E l \in 1..k : /\ packages'[NameOf[t]][l].res = r
                                         /\ packages'[NameOf[t]][l].rows[i] = updated[i]
    BY <1>j DEF PackageInv
  <2>0. i \in Issue /\ NameOf[t] \in Name /\ Passed(i, packages'[NameOf[t]][k].cursors[r])
    BY ScopeType, <1>j DEF Passed
  <2>1. CASE NameOf[t] # n
    <3>1. packages'[NameOf[t]] = packages[NameOf[t]]
      BY <2>0, <2>1, <1>p
    <3> QED BY <3>1, <2>0, <1>d DEF PackageInv
  <2>2. CASE NameOf[t] = n
    <3>1. k + 1 \in 1..N /\ packages'[n][k] = packages[n][k + 1] /\ k \in 1..(N - 1)
      BY <2>2, <1>p
    <3>2. \/ raw[r][i] = updated[i]
          \/ \E l \in 1..(k + 1) : packages[n][l].res = r /\ packages[n][l].rows[i] = updated[i]
      BY <3>1, <2>0, <2>2 DEF PackageInv
    <3>3. CASE raw[r][i] = updated[i]
      BY <3>3, <2>0, <1>d
    <3>4. ASSUME NEW l \in 1..(k + 1), packages[n][l].res = r, packages[n][l].rows[i] = updated[i]
          PROVE  \/ raw'[r][i] = updated[i]
                 \/ \E q \in 1..k : packages'[n][q].res = r /\ packages'[n][q].rows[i] = updated[i]
      <4>1. CASE l = 1
        BY <4>1, <3>4, <2>0, <1>d
      <4>2. CASE l # 1
        <5>1. l - 1 \in 1..k /\ packages'[n][l - 1] = packages[n][l]
          BY <4>2, <3>1, <1>p
        <5> QED BY <5>1, <3>4
      <4> QED BY <4>1, <4>2
    <3> QED BY <3>2, <3>3, <3>4, <2>2
  <2> QED BY <2>1, <2>2
<1> QED BY <1>1, <1>2, <1>3, <1>4, <1>5, <1>6, <1>7, <1>8

-----------------------------------------------------------------------------
(* A process that ends, in order or not, leaves the disk as it is.         *)
LEMMA EndInv ==
  ASSUME IInv, PipelinesApart, NEW n \in Name, Finish(n) \/ Crash(n)
  PROVE  IInv'
<1> USE DEF IInv
<1>u. /\ UNCHANGED jira /\ UNCHANGED <<cursor, packages, stored, raw>> /\ faults' \in Nat
      /\ run' = [run EXCEPT ![n] = [step |-> "idle"]]
  BY DEF Finish, Crash, disk, dest, IdleRun, TypeOK
<1>j. UNCHANGED <<isCloud, now, updated, indexed>>
  BY <1>u, JiraSame
<1>1. TypeOK'
  BY <1>u, <1>j DEF TypeOK
<1>2. ClockInv' /\ OverlapSuffices'
  BY <1>u, JiraSame
<1>3. CursorInv' /\ VersionInv'
  BY <1>u, <1>j DEF CursorInv, VersionInv, PackageOK, Carries, Restored
<1>4. WalkInv'
  <2> SUFFICES ASSUME NEW m \in Name, run'[m].step = "walking"
               PROVE  (WalkPlace(m) /\ WalkRows(m) /\ WalkRead(m))'
    BY DEF WalkInv
  <2>1. m # n /\ run'[m] = run[m]
    BY <1>u DEF TypeOK
  <2> QED BY <2>1, <1>u, <1>1, OtherWalks
<1>5. NothingSkipped'
  BY <1>u, <1>j DEF NothingSkipped, Passed, InPackages, Restored
<1>6. StoredIsDelivered' /\ PackageInv'
  BY <1>u, <1>j DEF StoredIsDelivered, PackageInv, Passed
<1> QED BY <1>1, <1>2, <1>3, <1>4, <1>5, <1>6

(* A fresh container: the cursor is the one whose rows are in jira_raw.    *)
LEMMA LoseDiskInv ==
  ASSUME IInv, PipelinesApart, NEW n \in Name, LoseDisk(n)
  PROVE  IInv'
<1> USE DEF IInv
<1>u. /\ UNCHANGED jira /\ UNCHANGED <<stored, raw>> /\ faults' \in Nat
      /\ run' = [run EXCEPT ![n] = [step |-> "idle"]]
      /\ cursor' = [cursor EXCEPT ![n] = NoState]
      /\ packages' = [packages EXCEPT ![n] = << >>]
  BY DEF LoseDisk, dest, IdleRun, TypeOK
<1>j. UNCHANGED <<isCloud, now, updated, indexed>>
  BY <1>u, JiraSame
<1>p. /\ packages'[n] = << >> /\ Restored(n)' = stored[n]
      /\ \A m \in Name : m # n => packages'[m] = packages[m] /\ Restored(m)' = Restored(m)
                                  /\ cursor'[m] = cursor[m] /\ run'[m] = run[m]
  BY <1>u DEF TypeOK, Restored
<1>1. TypeOK'
  <2>1. << >> \in Seq(Package)
    OBVIOUS
  <2> QED BY <2>1, <1>u, <1>j DEF TypeOK
<1>2. ClockInv' /\ OverlapSuffices'
  BY <1>u, JiraSame
<1>3. CursorInv'
  BY <1>u, <1>j, <1>p DEF CursorInv
<1>4. VersionInv'
  <2> SUFFICES ASSUME NEW m \in Name, NEW k \in 1..Len(packages'[m]) PROVE PackageOK(m, k)'
    BY <1>u, <1>j DEF VersionInv
  <2>1. m # n /\ packages'[m] = packages[m]
    BY <1>p
  <2> QED BY <2>1, <1>u, <1>j DEF VersionInv, PackageOK, Carries
<1>5. WalkInv'
  <2> SUFFICES ASSUME NEW m \in Name, run'[m].step = "walking"
               PROVE  (WalkPlace(m) /\ WalkRows(m) /\ WalkRead(m))'
    BY DEF WalkInv
  <2>1. m # n
    BY <1>u DEF TypeOK
  <2> QED BY <2>1, <1>p, <1>u, <1>1, OtherWalks
<1>6. NothingSkipped'
  <2> SUFFICES ASSUME NEW t \in Scope, NEW r \in Resource, NEW i \in Covers[t],
                      Passed(i, Restored(NameOf[t])[r])'
               PROVE  (raw[r][i] = updated[i] \/ InPackages(NameOf[t], r, i))'
    BY DEF NothingSkipped
  <2>1. CASE NameOf[t] = n
    BY <2>1, <1>p, <1>u, <1>j DEF StoredIsDelivered, Passed
  <2>2. CASE NameOf[t] # n
    BY <2>2, <1>p, <1>u, <1>j, ScopeType DEF NothingSkipped, Passed, InPackages
  <2> QED BY <2>1, <2>2
<1>7. StoredIsDelivered'
  BY <1>u, <1>j DEF StoredIsDelivered, Passed
<1>8. PackageInv'
  <2> SUFFICES ASSUME NEW t \in Scope, NameOf[t] # n
               PROVE  packages'[NameOf[t]] = packages[NameOf[t]]
    BY <1>u, <1>j, <1>p DEF PackageInv, Passed
  <2> QED BY <1>p, ScopeType
<1> QED BY <1>1, <1>2, <1>3, <1>4, <1>5, <1>6, <1>7, <1>8

-----------------------------------------------------------------------------
LEMMA NextIInv ==
  ASSUME PipelinesApart
  PROVE  IInv /\ [Next]_vars => IInv'
<1> SUFFICES ASSUME IInv, [Next]_vars PROVE IInv'
  OBVIOUS
<1>1. CASE UNCHANGED vars
  <2>1. UNCHANGED <<isCloud, now, updated, indexed, cursor, packages, run, stored, raw, faults>>
    BY <1>1 DEF vars, jira, disk, dest
  <2>2. TypeOK' /\ OverlapSuffices' /\ ClockInv'
    BY <2>1 DEF IInv, TypeOK, OverlapSuffices, ClockInv
  <2>3. CursorInv' /\ VersionInv'
    BY <2>1 DEF IInv, CursorInv, VersionInv, PackageOK, Carries, Restored
  <2>4. WalkInv'
    BY <2>1 DEF IInv, WalkInv, WalkPlace, WalkRows, WalkRead, Settled
  <2>5. NothingSkipped'
    BY <2>1 DEF IInv, NothingSkipped, Passed, InPackages, Restored
  <2>6. StoredIsDelivered' /\ PackageInv'
    BY <2>1 DEF IInv, StoredIsDelivered, PackageInv, Passed
  <2> QED BY <2>2, <2>3, <2>4, <2>5, <2>6 DEF IInv
<1>2. CASE JiraStep
  BY <1>2, JiraInv
<1>3. CASE \E s \in Scope, r \in Resource, limit \in Limits, reset \in BOOLEAN :
             StartRun(s, r, limit, reset)
  BY <1>3, StartRunInv
<1>4. ASSUME NEW n \in Name, RunStep(n) \/ Crash(n) \/ LoseDisk(n) PROVE IInv'
  <2>1. CASE \E i \in Issue : Row(n, i)
    BY <2>1, RowInv
  <2>2. CASE EndWalk(n)
    BY <2>2, EndWalkInv
  <2>3. CASE Load(n)
    BY <2>3, LoadInv
  <2>4. CASE Finish(n) \/ Crash(n)
    BY <2>4, EndInv
  <2>5. CASE LoseDisk(n)
    BY <2>5, LoseDiskInv
  <2> QED BY <1>4, <2>1, <2>2, <2>3, <2>4, <2>5 DEF RunStep
<1> QED BY <1>1, <1>2, <1>3, <1>4 DEF Next

LEMMA Inductive ==
  ASSUME PipelinesApart
  PROVE  Spec /\ OverlapSuffices => []IInv
BY InitIInv, NextIInv, PTL DEF Spec

-----------------------------------------------------------------------------
(* The disk, the walks and the destination keep their types.               *)
THEOREM TypeCorrect ==
  ASSUME PipelinesApart
  PROVE  Spec /\ OverlapSuffices => []TypeOK
<1>1. IInv => TypeOK
  BY DEF IInv
<1> QED BY <1>1, Inductive, PTL

(* No cursor passes an issue whose last edit is not in jira_raw or in a    *)
(* package on disk.                                                        *)
THEOREM NothingIsSkipped ==
  ASSUME PipelinesApart
  PROVE  Spec /\ OverlapSuffices => []NothingSkipped
<1>1. IInv => NothingSkipped
  BY DEF IInv
<1> QED BY <1>1, Inductive, PTL

(* The cursor in the destination is never ahead of the rows there.         *)
THEOREM StoredCursorsAreDelivered ==
  ASSUME PipelinesApart
  PROVE  Spec /\ OverlapSuffices => []StoredIsDelivered
<1>1. IInv => StoredIsDelivered
  BY DEF IInv
<1> QED BY <1>1, Inductive, PTL

(* No load replaces a row by an older version.                             *)
THEOREM RowsAreNeverOlder ==
  ASSUME PipelinesApart
  PROVE  Spec /\ OverlapSuffices => NeverOlder
<1>1. IInv /\ [Next]_vars => [\A r \in Resource, i \in Issue : raw'[r][i] >= raw[r][i]]_raw
  <2> SUFFICES ASSUME IInv, Next, raw' # raw
               PROVE  \A r \in Resource, i \in Issue : raw'[r][i] >= raw[r][i]
    BY DEF vars, dest
  <2>1. PICK n \in Name : Load(n)
    BY DEF Next, JiraStep, Tick, Edit, Index, StartRun, RunStep, Row, EndWalk, Finish, Crash,
           LoseDisk, dest
  <2>2. \A r \in Resource, i \in Issue : raw[r][i] <= raw'[r][i]
    BY <2>1, LoadRaises
  <2>3. \A r \in Resource, i \in Issue : raw[r][i] \in Nat /\ raw'[r][i] \in Nat
    BY NextIInv, Numbers DEF IInv, TypeOK
  <2> QED BY <2>2, <2>3
<1> QED BY <1>1, Inductive, PTL DEF Spec, NeverOlder

-----------------------------------------------------------------------------
(* Extraction implements Feed.                                             *)

LEMMA ScopeOfFeed ==
  ASSUME NEW n \in Name
  PROVE  /\ \A i \in FeedOf[n] : i \in Issue /\ \E s \in Scope : NameOf[s] = n /\ i \in Covers[s]
         /\ \A i \in Issue : Carries(n, i) => i \in FeedOf[n]
BY ScopeType DEF FeedOf, Carries

(* The stamp of an edit is Jira's clock, and no cursor is ahead of that by *)
(* as much as the overlap.                                                 *)
LEMMA EditDelivers ==
  ASSUME IInv, TypeOK', NEW i \in Issue, Edit(i)
  PROVE  Copy!Edit(i)
<1> USE DEF IInv
<1>1. updated' \in [Issue -> Nat] /\ updated[i] < updated'[i]
  BY DEF Edit, TypeOK
<1>2. \A j \in Issue \ {i} : updated'[j] = updated[j]
  BY DEF Edit, TypeOK
<1>3. ASSUME NEW n \in Name, NEW r \in Resource
      PROVE  ~Copy!Passed(updated'[i], stored[n][r])
  <2>1. updated'[i] = now /\ now \in Nat
    BY DEF Edit, TypeOK
  <2>2. stored[n][r] \in Nat /\ stored[n][r] <= now
    BY Numbers DEF CursorInv
  <2>3. ZoneSlip <= Overlap
    BY TimesType DEF OverlapSuffices
  <2> QED BY <2>1, <2>2, <2>3, TimesType DEF Copy!Passed
<1>4. UNCHANGED <<raw, stored>>
  BY DEF Edit, dest
<1> QED BY <1>1, <1>2, <1>3, <1>4 DEF Copy!Edit

(* A load delivers its package.                                            *)
LEMMA LoadDelivers ==
  ASSUME IInv, IInv', NEW n \in Name, Load(n)
  PROVE  \E r \in Resource : Copy!Deliver(n, r)
<1> USE DEF IInv
<1> DEFINE g == packages[n][1]
<1>1. /\ 1 \in 1..Len(packages[n]) /\ g \in Package /\ g.res \in Resource
      /\ \A r \in Resource, i \in Issue :
           raw'[r][i] = IF r = g.res /\ g.rows[i] > 0 THEN g.rows[i] ELSE raw[r][i]
      /\ \A r \in Resource, i \in Issue : raw[r][i] <= raw'[r][i]
  BY LoadRaises DEF Package
<1>2. UNCHANGED <<isCloud, now, updated, indexed>>
  BY DEF Load, jira
<1>3. /\ raw \in [Resource -> [Issue -> Nat]] /\ raw' \in [Resource -> [Issue -> Nat]]
      /\ stored \in [Name -> Cursors] /\ stored' \in [Name -> [Resource -> Nat]]
  BY DEF TypeOK, Cursors
<1>4. ASSUME NEW i \in Issue PROVE raw'[g.res][i] <= updated[i]
  <2>1. raw'[g.res][i] <= indexed'[i] /\ indexed'[i] <= updated'[i]
    BY <1>1 DEF VersionInv, ClockInv
  <2>2. raw'[g.res][i] \in Nat /\ indexed'[i] \in Nat /\ updated'[i] \in Nat
    BY <1>1, <1>3 DEF TypeOK
  <2> QED BY <1>2, <2>1, <2>2
<1>5. \A i \in FeedOf[n] : raw[g.res][i] <= raw'[g.res][i] /\ raw'[g.res][i] <= updated[i]
  BY <1>1, <1>4, ScopeOfFeed
<1>6. ASSUME NEW i \in Issue \ FeedOf[n] PROVE raw'[g.res][i] = raw[g.res][i]
  <2>1. ~Carries(n, i)
    BY ScopeOfFeed
  <2>2. ~(g.rows[i] > 0)
    BY <1>1, <2>1 DEF VersionInv, PackageOK
  <2> QED BY <1>1, <2>2
<1>7. ASSUME NEW q \in Resource \ {g.res} PROVE raw'[q] = raw[q]
  <2>1. \A i \in Issue : raw'[q][i] = raw[q][i]
    BY <1>1
  <2>2. raw[q] \in [Issue -> Nat] /\ raw'[q] \in [Issue -> Nat]
    BY <1>3
  <2> QED BY <2>1, <2>2
<1>8. \A m \in Name \ {n} : stored'[m] = stored[m]
  BY <1>3 DEF Load
<1>9. ASSUME NEW q \in Resource, NEW i \in FeedOf[n],
             Copy!Passed(updated[i], stored'[n][q])
      PROVE  raw'[q][i] = updated[i]
  <2>1. i \in Issue
    BY ScopeOfFeed
  <2>2. PICK s \in Scope : NameOf[s] = n /\ i \in Covers[s]
    BY ScopeOfFeed
  <2>3. updated[i] \in Nat /\ stored'[n][q] \in Nat
    BY <1>3, <2>1, Numbers
  <2>4. Passed(i, stored[NameOf[s]][q])'
    BY <1>2, <1>9, <2>2, <2>3, TimesType DEF Passed, Copy!Passed
  <2> QED BY <1>2, <2>2, <2>4 DEF StoredIsDelivered
<1>10. Copy!Deliver(n, g.res)
  BY <1>2, <1>3, <1>5, <1>6, <1>7, <1>8, <1>9 DEF Copy!Deliver
<1> QED BY <1>1, <1>10

(* An extraction of pipelines that share no issue is an incremental feed:  *)
(* what reaches the destination, through walks, packages, resets, limits,  *)
(* deaths and lost disks, are deliveries of rows and cursors together, no  *)
(* row older than the one it replaces, no cursor past what is not there.   *)
THEOREM Implements ==
  ASSUME PipelinesApart
  PROVE  Spec /\ OverlapSuffices => ImplementsFeed
<1>1. Init => Copy!Init
  <2> SUFFICES ASSUME Init PROVE Copy!Init
    OBVIOUS
  <2>1. updated \in [Issue -> Nat]
    BY TimesType DEF Init
  <2> QED BY <2>1 DEF Init, Copy!Init, NoRows
<1>2. IInv /\ [Next]_vars => [Copy!Next]_(Copy!vars)
  <2> SUFFICES ASSUME IInv, Next, ~UNCHANGED <<updated, raw, stored>> PROVE Copy!Next
    BY DEF vars, jira, dest, Copy!vars
  <2>0. IInv'
    BY NextIInv
  <2>1. CASE \E i \in Issue : Edit(i)
    <3>1. PICK i \in Issue : Edit(i)
      BY <2>1
    <3> QED BY <2>0, <3>1, EditDelivers DEF IInv, Copy!Next
  <2>2. CASE \E n \in Name : Load(n)
    <3>1. PICK n \in Name : Load(n)
      BY <2>2
    <3> QED BY <2>0, <3>1, LoadDelivers DEF Copy!Next
  <2> QED BY <2>1, <2>2 DEF Next, JiraStep, Tick, Index, StartRun, RunStep, Row, EndWalk, Finish,
             Crash, LoseDisk, dest, jira
<1> QED BY <1>1, <1>2, Inductive, PTL DEF Spec, ImplementsFeed, Copy!Spec

(* What Feed means: whatever delivers like it keeps its cursors behind its *)
(* rows and its rows in order.                                             *)
FeedWord ==
  /\ updated \in [Issue -> Nat] /\ raw \in [Resource -> [Issue -> Nat]]
  /\ stored \in [Name -> [Resource -> Nat]]
  /\ \A r \in Resource, i \in Issue : raw[r][i] <= updated[i]
  /\ \A n \in Name, r \in Resource : \A i \in FeedOf[n] :
       Copy!Passed(updated[i], stored[n][r]) => raw[r][i] = updated[i]

LEMMA FeedWordStep ==
  ASSUME FeedWord, [Copy!Next]_(Copy!vars)
  PROVE  FeedWord' /\ \A r \in Resource, i \in Issue : raw[r][i] <= raw'[r][i]
<1>0. \A n \in Name : \A i \in FeedOf[n] : i \in Issue
  BY ScopeOfFeed
<1>1. CASE UNCHANGED <<updated, raw, stored>>
  BY <1>1 DEF FeedWord, Copy!Passed
<1>2. ASSUME NEW j \in Issue, Copy!Edit(j)
      PROVE  FeedWord' /\ \A r \in Resource, i \in Issue : raw[r][i] <= raw'[r][i]
  <2>1. /\ updated' \in [Issue -> Nat] /\ updated[j] < updated'[j]
        /\ \A i \in Issue \ {j} : updated'[i] = updated[i]
        /\ \A n \in Name, r \in Resource : j \in FeedOf[n] => ~Copy!Passed(updated'[j], stored[n][r])
        /\ raw' = raw /\ stored' = stored
    BY <1>2 DEF Copy!Edit
  <2>2. \A r \in Resource, i \in Issue : raw[r][i] <= raw'[r][i] /\ raw'[r][i] <= updated'[i]
    BY <2>1 DEF FeedWord
  <2>3. ASSUME NEW n \in Name, NEW r \in Resource, NEW i \in FeedOf[n],
               Copy!Passed(updated'[i], stored[n][r])
        PROVE  raw[r][i] = updated'[i]
    <3>1. i # j
      BY <2>1, <2>3
    <3>2. updated'[i] = updated[i]
      BY <1>0, <2>1, <3>1
    <3> QED BY <2>3, <3>2 DEF FeedWord
  <2> QED BY <2>1, <2>2, <2>3 DEF FeedWord, Copy!Passed
<1>3. ASSUME NEW m \in Name, NEW q \in Resource, Copy!Deliver(m, q)
      PROVE  FeedWord' /\ \A r \in Resource, i \in Issue : raw[r][i] <= raw'[r][i]
  <2>1. /\ raw' \in [Resource -> [Issue -> Nat]] /\ stored' \in [Name -> [Resource -> Nat]]
        /\ \A i \in FeedOf[m] : raw[q][i] <= raw'[q][i] /\ raw'[q][i] <= updated[i]
        /\ \A i \in Issue \ FeedOf[m] : raw'[q][i] = raw[q][i]
        /\ \A r \in Resource \ {q} : raw'[r] = raw[r]
        /\ \A n \in Name \ {m} : stored'[n] = stored[n]
        /\ \A r \in Resource : \A i \in FeedOf[m] :
             Copy!Passed(updated[i], stored'[m][r]) => raw'[r][i] = updated[i]
        /\ updated' = updated
    BY <1>3 DEF Copy!Deliver
  <2>2. \A r \in Resource, i \in Issue :
          raw[r][i] \in Nat /\ raw'[r][i] \in Nat /\ updated[i] \in Nat
    BY <2>1 DEF FeedWord
  <2>3. ASSUME NEW r \in Resource, NEW i \in Issue
        PROVE  raw[r][i] <= raw'[r][i] /\ raw'[r][i] <= updated[i]
    <3>1. CASE r = q /\ i \in FeedOf[m]
      BY <2>1, <3>1
    <3>2. CASE r # q \/ i \notin FeedOf[m]
      <4>1. raw'[r][i] = raw[r][i]
        BY <2>1, <3>2
      <4> QED BY <2>2, <4>1 DEF FeedWord
    <3> QED BY <3>1, <3>2
  <2>4. ASSUME NEW n \in Name, NEW r \in Resource, NEW i \in FeedOf[n],
               Copy!Passed(updated[i], stored'[n][r])
        PROVE  raw'[r][i] = updated[i]
    <3>1. CASE n = m
      BY <2>1, <2>4, <3>1
    <3>2. CASE n # m
      <4>1. stored'[n] = stored[n]
        BY <2>1, <3>2
      <4>2. raw[r][i] = updated[i]
        BY <2>4, <4>1 DEF FeedWord
      <4> QED BY <1>0, <2>2, <2>3, <4>2
    <3> QED BY <3>1, <3>2
  <2> QED BY <2>1, <2>3, <2>4 DEF FeedWord, Copy!Passed
<1> QED BY <1>1, <1>2, <1>3 DEF Copy!Next, Copy!vars

(* A feed keeps its word, whoever implements it: feeds may share issues,   *)
(* and all that is needed is an overlap of at least the slip of the zone.  *)
THEOREM FeedDelivers ==
  ASSUME ZoneSlip <= Overlap
  PROVE  ImplementsFeed => []StoredIsDelivered /\ NeverOlder
<1>1. Copy!Init => FeedWord
  <2> SUFFICES ASSUME Copy!Init PROVE FeedWord
    OBVIOUS
  <2>1. /\ updated \in [Issue -> Nat]
        /\ \A r \in Resource, i \in Issue : raw[r][i] = 0
        /\ \A n \in Name, r \in Resource : stored[n][r] = 0
        /\ raw \in [Resource -> [Issue -> Nat]] /\ stored \in [Name -> [Resource -> Nat]]
    BY DEF Copy!Init
  <2>2. \A n \in Name, r \in Resource : \A i \in FeedOf[n] : ~Copy!Passed(updated[i], stored[n][r])
    BY <2>1, ScopeOfFeed, TimesType DEF Copy!Passed
  <2> QED BY <2>1, <2>2 DEF FeedWord
<1>2. FeedWord /\ [Copy!Next]_(Copy!vars) => FeedWord'
  BY FeedWordStep
<1>3. FeedWord => StoredIsDelivered
  <2> SUFFICES ASSUME FeedWord, NEW s \in Scope, NEW r \in Resource, NEW i \in Covers[s],
                      Passed(i, stored[NameOf[s]][r])
               PROVE  raw[r][i] = updated[i]
    BY DEF StoredIsDelivered
  <2>1. NameOf[s] \in Name /\ i \in FeedOf[NameOf[s]] /\ i \in Issue
    BY ScopeType DEF FeedOf
  <2>2. updated[i] \in Nat /\ stored[NameOf[s]][r] \in Nat
    BY <2>1 DEF FeedWord
  <2>3. Copy!Passed(updated[i], stored[NameOf[s]][r])
    BY <2>2, TimesType DEF Passed, Copy!Passed
  <2> QED BY <2>1, <2>3 DEF FeedWord
<1>4. FeedWord /\ FeedWord' /\ [Copy!Next]_(Copy!vars)
        => [\A r \in Resource, i \in Issue : raw'[r][i] >= raw[r][i]]_raw
  <2> SUFFICES ASSUME FeedWord, FeedWord', [Copy!Next]_(Copy!vars)
               PROVE  \A r \in Resource, i \in Issue : raw'[r][i] >= raw[r][i]
    OBVIOUS
  <2>1. \A r \in Resource, i \in Issue : raw[r][i] <= raw'[r][i]
    BY FeedWordStep
  <2>2. \A r \in Resource, i \in Issue : raw[r][i] \in Nat /\ raw'[r][i] \in Nat
    BY DEF FeedWord
  <2> QED BY <2>1, <2>2
<1> QED BY <1>1, <1>2, <1>3, <1>4, PTL DEF ImplementsFeed, Copy!Spec, NeverOlder
=============================================================================
