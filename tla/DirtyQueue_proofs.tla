------------------------- MODULE DirtyQueue_proofs -------------------------
(***************************************************************************)
(* The safety properties of DirtyQueue hold for every set of issues and    *)
(* pipelines and every value of the bounds.                                *)
(*                                                                         *)
(* The argument follows the debt a raw row carries.  Owes(res, i): the row *)
(* of issue i came with a package that is still to be loaded, with a load  *)
(* that is still to be marked, or with one whose mark was lost.  A step    *)
(* that changes a raw row creates the debt (RawStep), a debt is only paid  *)
(* by queuing the issue (OwesStep), and a transform only takes an issue    *)
(* off the queue after it rebuilt it from what jira_raw held.              *)
(***************************************************************************)
EXTENDS DirtyQueue, TLAPS

WaitingFor(res, i) == \E g \in packages[PipelineOf[i]] : g.res = res /\ i \in InPackage(g)

Owes(res, i) == WaitingFor(res, i) \/ Due(res, i) \/ Lost(res, i, AnyWhy)

(* Packages: the issues of their pipeline only, distinct load ids, loaded  *)
(* oldest first; what was merged of one is still in the raw tables.        *)
PackagesInv ==
  /\ \A p \in Pipeline : \A g \in packages[p] :
       /\ g.id < nextLoad
       /\ \A i \in InPackage(g) : PipelineOf[i] = p
       /\ \A h \in packages[p] : /\ g.id = h.id => g = h
                                 /\ g.merged # {} => g.id <= h.id

MergedInv ==
  \A p \in Pipeline : \A g \in packages[p] : \A i \in InPackage(g) :
    /\ "issues" \in g.merged => issues[i].load = g.id
    /\ "issue_changelog_status" \in g.merged =>
         /\ status[i].load = g.id
         /\ status[i].version = g.rows[i].version
         /\ status[i].complete = g.rows[i].complete
    /\ "issue_changelog" \in g.merged /\ g.rows[i].complete =>
         changelog[i] >= g.rows[i].version

(* changelog_complete, with the packages that may still be half merged.    *)
WholeInv ==
  \A i \in Issue : status[i].complete =>
    changelog[i] >= status[i].version \/ WaitingFor("issue_changelog", i)

(* What a view of the analytics tables lags behind is accounted for, when  *)
(* the issues in D are queued.                                             *)
ColumnsOK(view, D) ==
  \A i \in Issue : view[i] # issues[i].version => i \in D \/ i \in dropped \/ Owes("issues", i)

IntervalsOK(view, D) ==
  \A i \in Issue :
    view[i] # [changelog |-> changelog[i], issue |-> issues[i].version] =>
      \/ i \in D \/ i \in dropped \/ ~Complete(i)
      \/ Owes("issues", i) \/ Owes("issue_changelog", i)

(* The queue as the open transaction will leave it, with what it drops.    *)
QueueAfter == (dirty \ tx.claimed) \cup (tx.claimed \ tx.ids)

TxInv ==
  /\ tx.claimed \subseteq dirty
  /\ tx.step = "idle" => tx.claimed = {}
  /\ tx.claimed \cap tx.ids \subseteq tx.candidates
  /\ tx.step \in {"idle", "scoped", "partitioned"} => tx.intervals = intervals
  /\ tx.step # "columns" => tx.columns = columns
  /\ tx.step = "partitioned" =>
       \A i \in tx.candidates \ tx.complete :
         \/ i \in QueueAfter \/ i \in dropped \/ ~Complete(i)
         \/ Owes("issues", i) \/ Owes("issue_changelog", i)
  /\ tx.step \in {"intervals", "columns"} => IntervalsOK(tx.intervals, QueueAfter)
  /\ tx.step = "columns" => ColumnsOK(tx.columns, QueueAfter)

(* Analytics is never ahead of the raw tables, and no raw row goes away.   *)
BehindInv ==
  \A i \in Issue :
    /\ issues[i].version = 0 => columns[i] = 0 /\ tx.columns[i] = 0
    /\ intervals[i].changelog <= tx.intervals[i].changelog
    /\ tx.intervals[i].changelog <= changelog[i]

AccountedInv == ColumnsOK(columns, dirty) /\ IntervalsOK(intervals, dirty)

IInv == TypeOK /\ PackagesInv /\ MergedInv /\ WholeInv /\ AccountedInv /\ TxInv /\ BehindInv

-----------------------------------------------------------------------------
USE PipelineOfType, ProjectOfType, ScopesType, BoundsType

(* Every action of the specification, one case each: the proofs below      *)
(* split Next the same way.                                                *)
LEMMA NextCases ==
  ASSUME Next
  PROVE  \/ \E i \in Issue : Update(i)
         \/ Migrate
         \/ \E p \in Pipeline, res \in Resource : Extract(p, res)
         \/ \E p \in Pipeline : TakeLoadLock(p)
         \/ \E p \in Pipeline : \E g \in packages[p] : \E t \in TablesOf(g.res) :
               MergeTable(p, g, t)
         \/ \E p \in Pipeline : \E g \in packages[p] : CompletePackage(p, g)
         \/ \E p \in Pipeline : FinishLoad(p)
         \/ \E p \in Pipeline : MarkDirty(p)
         \/ \E p \in Pipeline : MarkFails(p) \/ MarkUnavailable(p)
         \/ \E p \in Pipeline : Kill(p)
         \/ \E scope \in Scopes : ClaimDirty(scope)
         \/ \E scope \in Scopes : RebuildAll(scope)
         \/ Partition \/ RebuildIntervals \/ RebuildColumns \/ Commit \/ Rollback
  BY DEF Next, ExtractStep, TransformStep

(* The variables keep their types.                                         *)
LEMMA TypeStep == TypeOK /\ [Next]_vars => TypeOK'
<1> SUFFICES ASSUME TypeOK, [Next]_vars PROVE TypeOK'
  OBVIOUS
<1> DEFINE Runs == [Pipeline -> [step : Steps, loads : SUBSET Nat]]
           Pkgs == [Pipeline -> SUBSET Package]
           Lost0 == [why : AnyWhy, resource : Resource, load : Nat]
<1> USE DEF raw, extract, analytic, history
<1>0. /\ run \in Runs /\ packages \in Pkgs /\ unmarked \subseteq Lost0
      /\ nextLoad \in Nat /\ faults \in Nat /\ jira \in [Issue -> Nat]
      /\ dirty \subseteq Issue /\ dropped \subseteq Issue
  BY DEF TypeOK
<1>a. ASSUME NEW p \in Pipeline, NEW st \in Steps PROVE [run EXCEPT ![p].step = st] \in Runs
  BY <1>0
<1>b. ASSUME NEW p \in Pipeline PROVE [run EXCEPT ![p] = IdleRun] \in Runs
  BY <1>0 DEF IdleRun, Steps
<1>c. /\ "extracted" \in Steps /\ "loading" \in Steps
      /\ "mark_issues" \in Steps /\ "mark_changelog" \in Steps
  BY DEF Steps
<1>d. ASSUME NEW p \in Pipeline, NEW G \in SUBSET Package
      PROVE  [packages EXCEPT ![p] = G] \in Pkgs
  BY <1>0
<1>e. ASSUME NEW p \in Pipeline, NEW why \in AnyWhy, Unmark(p, why)
      PROVE  unmarked' \subseteq Lost0
  <2>1. ToMark(run[p].step) \subseteq Resource /\ run[p].loads \subseteq Nat
    BY <1>0 DEF ToMark, Resource
  <2> QED BY <1>0, <1>e, <2>1 DEF Unmark
<1>f. "killed" \in AnyWhy /\ "DirtyMarkError" \in AnyWhy /\ "issue_dirty_unavailable" \in AnyWhy
  BY DEF AnyWhy
<1>g. \A scope : IssuesOf(scope) \subseteq Issue
  BY DEF IssuesOf
<1> HIDE DEF Runs, Pkgs, Lost0
<1>h. ASSUME UNCHANGED <<jira, raw, opsReady, analytic, tx>>,
             run' \in Runs, packages' \in Pkgs, nextLoad' \in Nat, faults' \in Nat,
             unmarked' \subseteq Lost0, dirty' \subseteq Issue, dropped' \subseteq Issue
      PROVE  TypeOK'
  BY <1>h DEF TypeOK, Runs, Pkgs, Lost0
<1>1. CASE \E i \in Issue : Update(i)
  BY <1>1 DEF Update, TypeOK
<1>2. CASE Migrate
  BY <1>2 DEF Migrate, TypeOK
<1>3. ASSUME NEW p \in Pipeline, NEW res \in Resource, Extract(p, res) PROVE TypeOK'
  <2>1. ASSUME NEW S \in SUBSET Issue, NEW W \in SUBSET S
        PROVE  [id |-> nextLoad, res |-> res, rows |-> Walked(S, W), merged |-> {}] \in Package
    BY <1>0 DEF Package, Walked
  <2>2. packages' \in Pkgs
    <3>1. CASE UNCHANGED packages
      BY <1>0, <3>1
    <3>2. ASSUME NEW S \in SUBSET Issue, NEW W \in SUBSET S,
                 packages' = [packages EXCEPT ![p] = @ \cup
                   {[id |-> nextLoad, res |-> res, rows |-> Walked(S, W), merged |-> {}]}]
          PROVE  packages' \in Pkgs
      BY <1>0, <2>1, <3>2 DEF Pkgs
    <3>3. \A S : (IF res = "issues" THEN {S} ELSE SUBSET S) \subseteq SUBSET S
      OBVIOUS
    <3>4. \/ UNCHANGED packages
          \/ \E S \in SUBSET Issue : \E W \in SUBSET S :
               packages' = [packages EXCEPT ![p] = @ \cup
                 {[id |-> nextLoad, res |-> res, rows |-> Walked(S, W), merged |-> {}]}]
      BY <1>3, <3>3, Zenon DEF Extract
    <3> QED BY <3>1, <3>2, <3>4, Zenon
  <2>3. run' \in Runs
    BY <1>3, <1>a, <1>c DEF Extract
  <2>4. nextLoad' \in Nat
    BY <1>0, <1>3 DEF Extract
  <2>5. UNCHANGED <<jira, raw, opsReady, dirty, analytic, tx, faults, history>>
    BY <1>3 DEF Extract
  <2> QED BY <1>0, <1>h, <2>2, <2>3, <2>4, <2>5
<1>4. CASE \E p \in Pipeline : TakeLoadLock(p)
  BY <1>0, <1>4, <1>a, <1>c, <1>h DEF TakeLoadLock
<1>5. ASSUME NEW p \in Pipeline, NEW g \in packages[p], NEW t \in TablesOf(g.res),
             MergeTable(p, g, t)
      PROVE  TypeOK'
  <2>1. g \in Package
    BY <1>0 DEF Pkgs
  <2>2. [g EXCEPT !.merged = @ \cup {t}] \in Package
    BY <2>1 DEF Package, TablesOf
  <2>3. packages' \in Pkgs
    BY <1>0, <1>5, <2>2 DEF MergeTable, Pkgs
  <2>4. issues' \in [Issue -> RawRow]
    BY <1>5, <2>1 DEF MergeTable, MergedIssues, RawRow, Package, InPackage, TypeOK
  <2>5. changelog' \in [Issue -> Nat]
    BY <1>5, <2>1 DEF MergeTable, MergedChangelog, Package, TypeOK
  <2>6. status' \in [Issue -> StatusRow]
    BY <1>5, <2>1 DEF MergeTable, MergedStatus, StatusRow, Package, InPackage, TypeOK
  <2> QED BY <1>5, <2>3, <2>4, <2>5, <2>6 DEF MergeTable, TypeOK, Pkgs
<1>6. ASSUME NEW p \in Pipeline, NEW g \in packages[p], CompletePackage(p, g) PROVE TypeOK'
  <2>1. g.id \in Nat
    BY <1>0 DEF Package, Pkgs
  <2>2. run' \in Runs
    BY <1>0, <1>6, <2>1 DEF CompletePackage, Runs
  <2>3. packages' \in Pkgs
    BY <1>0, <1>6 DEF CompletePackage, Pkgs
  <2> QED BY <1>0, <1>6, <1>h, <2>2, <2>3 DEF CompletePackage
<1>7. CASE \E p \in Pipeline : FinishLoad(p)
  BY <1>0, <1>7, <1>a, <1>c, <1>h DEF FinishLoad
<1>8. ASSUME NEW p \in Pipeline, MarkDirty(p) PROVE TypeOK'
  <2>1. \A res, loads : LoadedBy(res, loads) \subseteq Issue
    BY DEF LoadedBy
  <2>2. run' = [run EXCEPT ![p].step = "mark_changelog"] \/ run' = [run EXCEPT ![p] = IdleRun]
    BY <1>0, <1>8 DEF MarkDirty, Runs
  <2>3. run' \in Runs
    BY <1>a, <1>b, <1>c, <2>2
  <2> QED BY <1>0, <1>8, <1>h, <2>1, <2>3 DEF MarkDirty
<1>9. CASE \E p \in Pipeline : MarkFails(p) \/ MarkUnavailable(p)
  BY <1>0, <1>9, <1>b, <1>e, <1>f, <1>h DEF MarkFails, MarkUnavailable
<1>10. ASSUME NEW p \in Pipeline, Kill(p) PROVE TypeOK'
  <2>1. \A g \in Package : [g EXCEPT !.merged = {}] \in Package
    BY DEF Package
  <2>2. {[g EXCEPT !.merged = {}] : g \in packages[p]} \subseteq Package
    BY <1>0, <2>1 DEF Pkgs
  <2>3. packages' \in Pkgs
    BY <1>0, <1>10, <1>d, <2>2 DEF Kill
  <2>4. run' \in Runs /\ faults' \in Nat
    <3>1. run' = [run EXCEPT ![p] = IdleRun] /\ faults' = faults + 1
      BY <1>10 DEF Kill
    <3>2. run' \in Runs
      BY <1>b, <3>1
    <3>3. faults' \in Nat
      BY <1>0, <3>1
    <3> QED BY <3>2, <3>3
  <2>6. unmarked' \subseteq Lost0
    BY <1>10, <1>e, <1>f DEF Kill
  <2>5. UNCHANGED <<jira, raw, nextLoad, opsReady, dirty, analytic, tx, dropped>>
    BY <1>10 DEF Kill
  <2> QED BY <1>0, <1>h, <2>3, <2>4, <2>5, <2>6
<1>11. ASSUME UNCHANGED <<jira, raw, extract, opsReady, dirty, analytic, history>>,
              faults' \in Nat, NEW sc \in SUBSET Issue, NEW cl \in SUBSET Issue,
              tx' = [tx EXCEPT !.step = "scoped", !.claimed = cl, !.candidates = sc, !.ids = sc]
       PROVE  TypeOK'
  BY <1>11 DEF TypeOK
<1>12. CASE \E scope \in Scopes : ClaimDirty(scope)
  BY <1>0, <1>g, <1>12, <1>11 DEF ClaimDirty
<1>13. CASE \E scope \in Scopes : RebuildAll(scope)
  <2>1. PICK sc \in SUBSET Issue, ids \in SUBSET Issue :
          tx' = [tx EXCEPT !.step = "scoped", !.candidates = sc, !.ids = ids]
    BY <1>g, <1>13 DEF RebuildAll
  <2> QED BY <1>13, <2>1 DEF RebuildAll, TypeOK
<1>14. CASE Partition
  BY <1>14 DEF Partition, TypeOK
<1>15. CASE RebuildIntervals
  BY <1>15 DEF RebuildIntervals, Built, RawRow, TypeOK
<1>16. CASE RebuildColumns
  BY <1>16 DEF RebuildColumns, RawRow, TypeOK
<1>17. CASE Commit
  BY <1>17 DEF Commit, IdleTx, TypeOK
<1>18. CASE Rollback
  BY <1>18 DEF Rollback, IdleTx, TypeOK
<1>19. CASE UNCHANGED vars
  BY <1>19 DEF vars, TypeOK
<1> QED
  BY <1>1, <1>2, <1>3, <1>4, <1>5, <1>6, <1>7, <1>8, <1>9, <1>10, <1>12, <1>13, <1>14,
     <1>15, <1>16, <1>17, <1>18, <1>19, NextCases

(* Every reachable state is well typed.                                    *)
THEOREM TypeCorrect == Spec => []TypeOK
<1>1. Init => TypeOK
  BY DEF Init, TypeOK, RawRow, StatusRow, Built, IdleRun, IdleTx, Steps
<1> QED BY <1>1, TypeStep, PTL DEF Spec

-----------------------------------------------------------------------------
(* Only these four actions touch the packages or the raw tables.           *)
LEMMA Frame ==
  ASSUME [Next]_vars
  PROVE  \/ UNCHANGED <<issues, changelog, status, packages, nextLoad>>
         \/ \E p \in Pipeline, res \in Resource : Extract(p, res)
         \/ \E p \in Pipeline : \E g \in packages[p] : \E t \in TablesOf(g.res) :
               MergeTable(p, g, t)
         \/ \E p \in Pipeline : \E g \in packages[p] : CompletePackage(p, g)
         \/ \E p \in Pipeline : Kill(p)
<1> USE DEF raw, extract, analytic, history
<1>1. CASE UNCHANGED vars
  BY <1>1 DEF vars
<1>2. CASE \/ \E i \in Issue : Update(i)
           \/ Migrate
           \/ \E p \in Pipeline : TakeLoadLock(p)
           \/ \E p \in Pipeline : FinishLoad(p)
           \/ \E p \in Pipeline : MarkDirty(p)
           \/ \E p \in Pipeline : MarkFails(p) \/ MarkUnavailable(p)
           \/ \E scope \in Scopes : ClaimDirty(scope)
           \/ \E scope \in Scopes : RebuildAll(scope)
           \/ Partition \/ RebuildIntervals \/ RebuildColumns \/ Commit \/ Rollback
  BY <1>2 DEF Update, Migrate, TakeLoadLock, FinishLoad, MarkDirty, MarkFails, MarkUnavailable,
     ClaimDirty, RebuildAll, Partition, RebuildIntervals, RebuildColumns, Commit, Rollback
<1> QED BY <1>1, <1>2, NextCases

(* What Extract does to the packages: nothing, or one new one.             *)
LEMMA ExtractPackages ==
  ASSUME TypeOK, NEW p \in Pipeline, NEW res \in Resource, Extract(p, res)
  PROVE  \/ UNCHANGED <<packages, nextLoad>>
         \/ /\ nextLoad' = nextLoad + 1
            /\ \E g \in Package :
                 /\ g.id = nextLoad
                 /\ g.merged = {}
                 /\ \A i \in InPackage(g) : PipelineOf[i] = p /\ g.rows[i].version = jira[i]
                 /\ packages' = [packages EXCEPT ![p] = @ \cup {g}]
<1>1. CASE UNCHANGED <<packages, nextLoad>>
  BY <1>1
<1>2. ASSUME NEW S \in SUBSET {i \in Issue : PipelineOf[i] = p}, NEW W \in SUBSET S,
             nextLoad' = nextLoad + 1,
             packages' = [packages EXCEPT ![p] = @ \cup
               {[id |-> nextLoad, res |-> res, rows |-> Walked(S, W), merged |-> {}]}]
      PROVE  \E g \in Package :
                 /\ g.id = nextLoad
                 /\ g.merged = {}
                 /\ \A i \in InPackage(g) : PipelineOf[i] = p /\ g.rows[i].version = jira[i]
                 /\ packages' = [packages EXCEPT ![p] = @ \cup {g}]
  <2> DEFINE g == [id |-> nextLoad, res |-> res, rows |-> Walked(S, W), merged |-> {}]
  <2>1. g \in Package
    BY DEF TypeOK, Package, Walked
  <2>2. \A i \in InPackage(g) : PipelineOf[i] = p /\ g.rows[i].version = jira[i]
    BY DEF InPackage, Walked
  <2>3. g.id = nextLoad /\ g.merged = {} /\ packages' = [packages EXCEPT ![p] = @ \cup {g}]
    BY <1>2
  <2> HIDE DEF g
  <2> QED BY <2>1, <2>2, <2>3
<1>3. \A S : (IF res = "issues" THEN {S} ELSE SUBSET S) \subseteq SUBSET S
  OBVIOUS
<1>4. \/ UNCHANGED <<packages, nextLoad>>
      \/ /\ nextLoad' = nextLoad + 1
         /\ \E S \in SUBSET {i \in Issue : PipelineOf[i] = p} : \E W \in SUBSET S :
              packages' = [packages EXCEPT ![p] = @ \cup
                {[id |-> nextLoad, res |-> res, rows |-> Walked(S, W), merged |-> {}]}]
  <2>1. \/ UNCHANGED <<packages, nextLoad>>
        \/ /\ nextLoad' = nextLoad + 1
           /\ \E S \in SUBSET {i \in Issue : PipelineOf[i] = p} \ {{}} :
                \E W \in IF res = "issues" THEN {S} ELSE SUBSET S :
                  packages' = [packages EXCEPT ![p] = @ \cup
                    {[id |-> nextLoad, res |-> res, rows |-> Walked(S, W), merged |-> {}]}]
    BY Zenon DEF Extract
  <2> QED BY <1>3, <2>1, Zenon
<1> QED BY <1>1, <1>2, <1>4, Zenon

(* Remembering a merge changes nothing else about a package.               *)
LEMMA MergedOnly ==
  ASSUME NEW g \in Package, NEW m
  PROVE  LET h == [g EXCEPT !.merged = m]
         IN /\ h.id = g.id /\ h.res = g.res /\ h.rows = g.rows /\ h.merged = m
            /\ InPackage(h) = InPackage(g)
  BY DEF Package, InPackage

(* What Kill does to the packages: nothing, or it forgets the merges of    *)
(* one pipeline's packages.                                                *)
LEMMA KillPackages ==
  ASSUME TypeOK, NEW p \in Pipeline, Kill(p)
  PROVE  /\ UNCHANGED <<issues, changelog, status, nextLoad>>
         /\ \/ UNCHANGED packages
            \/ /\ \A q \in Pipeline : q # p => packages'[q] = packages[q]
               /\ \A x \in packages'[p] : \E h \in packages[p] :
                    /\ x = [h EXCEPT !.merged = {}]
                    /\ x.id = h.id /\ x.res = h.res /\ x.merged = {}
                    /\ InPackage(x) = InPackage(h)
               /\ \A h \in packages[p] : \E x \in packages'[p] :
                    x.res = h.res /\ InPackage(x) = InPackage(h)
<1>0. packages \in [Pipeline -> SUBSET Package]
  BY DEF TypeOK
<1>1. UNCHANGED <<issues, changelog, status, nextLoad>>
  BY DEF Kill, raw
<1>2. CASE packages' = packages
  BY <1>1, <1>2
<1>3. CASE packages' = [packages EXCEPT ![p] = {[h EXCEPT !.merged = {}] : h \in @}]
  <2>1. \A q \in Pipeline : q # p => packages'[q] = packages[q]
    BY <1>0, <1>3
  <2>2. packages'[p] = {[h EXCEPT !.merged = {}] : h \in packages[p]}
    BY <1>0, <1>3
  <2>3. ASSUME NEW h \in packages[p], NEW x, x = [h EXCEPT !.merged = {}]
        PROVE  /\ x.id = h.id /\ x.res = h.res /\ x.merged = {}
               /\ InPackage(x) = InPackage(h)
    BY <1>0, <2>3, MergedOnly
  <2>4. ASSUME NEW x \in packages'[p]
        PROVE  \E h \in packages[p] : x = [h EXCEPT !.merged = {}]
    BY <2>2
  <2>5. ASSUME NEW h \in packages[p]
        PROVE  \E x \in packages'[p] : x = [h EXCEPT !.merged = {}]
    BY <2>2
  <2> QED BY <1>1, <2>1, <2>3, <2>4, <2>5
<1> QED BY <1>2, <1>3 DEF Kill

LEMMA PackagesStep == TypeOK /\ PackagesInv /\ [Next]_vars => PackagesInv'
<1> SUFFICES ASSUME TypeOK, PackagesInv, [Next]_vars PROVE PackagesInv'
  OBVIOUS
<1>0. /\ packages \in [Pipeline -> SUBSET Package] /\ nextLoad \in Nat
      /\ \A g \in Package : g.id \in Nat
  BY DEF TypeOK, Package
<1>1. CASE UNCHANGED <<issues, changelog, status, packages, nextLoad>>
  BY <1>1 DEF PackagesInv, InPackage
<1>2. ASSUME NEW p \in Pipeline, NEW res \in Resource, Extract(p, res) PROVE PackagesInv'
  <2>1. CASE UNCHANGED <<packages, nextLoad>>
    BY <2>1 DEF PackagesInv, InPackage
  <2>2. ASSUME nextLoad' = nextLoad + 1, NEW g \in Package, g.id = nextLoad, g.merged = {},
               \A i \in InPackage(g) : PipelineOf[i] = p,
               packages' = [packages EXCEPT ![p] = @ \cup {g}]
        PROVE  PackagesInv'
    <3>1. \A q \in Pipeline : \A h \in packages'[q] : h \in packages[q] \/ (q = p /\ h = g)
      BY <1>0, <2>2
    <3>2. \A q \in Pipeline : \A h \in packages[q] : h \in Package /\ h.id < nextLoad
      BY <1>0 DEF PackagesInv
    <3> QED BY <1>0, <2>2, <3>1, <3>2 DEF PackagesInv, InPackage
  <2> QED BY <1>2, <2>1, <2>2, ExtractPackages
<1>3. ASSUME NEW p \in Pipeline, NEW g \in packages[p], NEW t \in TablesOf(g.res),
             MergeTable(p, g, t)
      PROVE  PackagesInv'
  <2> DEFINE h == [g EXCEPT !.merged = @ \cup {t}]
  <2>1. g \in Package
    BY <1>0
  <2>2. h.id = g.id /\ InPackage(h) = InPackage(g)
    BY <2>1, MergedOnly
  <2>3. packages' = [packages EXCEPT ![p] = (@ \ {g}) \cup {h}] /\ nextLoad' = nextLoad
    BY <1>3 DEF MergeTable, extract
  <2>4. \A x \in packages[p] : g.id <= x.id
    BY <1>3 DEF MergeTable, IsNext
  <2> HIDE DEF h
  <2>5. \A q \in Pipeline : \A x \in packages'[q] :
          \/ x \in packages[q] /\ (q = p => x # g)
          \/ q = p /\ x = h
    BY <1>0, <2>3
  <2> QED BY <1>0, <2>2, <2>3, <2>4, <2>5 DEF PackagesInv, InPackage
<1>4. ASSUME NEW p \in Pipeline, NEW g \in packages[p], CompletePackage(p, g) PROVE PackagesInv'
  <2>1. \A q \in Pipeline : packages'[q] \subseteq packages[q]
    BY <1>0, <1>4 DEF CompletePackage
  <2> QED BY <1>4, <2>1 DEF CompletePackage, PackagesInv, InPackage
<1>5. ASSUME NEW p \in Pipeline, Kill(p) PROVE PackagesInv'
  <2>1. CASE UNCHANGED packages
    BY <1>5, <2>1, KillPackages DEF PackagesInv, InPackage
  <2>2. ASSUME \A q \in Pipeline : q # p => packages'[q] = packages[q],
               \A x \in packages'[p] : \E h \in packages[p] :
                 /\ x = [h EXCEPT !.merged = {}] /\ x.id = h.id /\ x.merged = {}
                 /\ InPackage(x) = InPackage(h)
        PROVE  PackagesInv'
    <3>1. \A h \in packages[p] : h.id < nextLoad /\ \A i \in InPackage(h) : PipelineOf[i] = p
      BY DEF PackagesInv
    <3>2. \A x \in packages'[p] : /\ x.id < nextLoad /\ x.merged = {}
                                 /\ \A i \in InPackage(x) : PipelineOf[i] = p
      BY <2>2, <3>1
    <3>3. ASSUME NEW x \in packages'[p], NEW y \in packages'[p], x.id = y.id PROVE x = y
      <4>1. PICK g \in packages[p] : x = [g EXCEPT !.merged = {}] /\ x.id = g.id
        BY <2>2
      <4>2. PICK h \in packages[p] : y = [h EXCEPT !.merged = {}] /\ y.id = h.id
        BY <2>2
      <4>3. g = h
        BY <3>3, <4>1, <4>2 DEF PackagesInv
      <4> QED BY <4>1, <4>2, <4>3
    <3>4. nextLoad' = nextLoad
      BY <1>5, KillPackages
    <3> QED BY <2>2, <3>2, <3>3, <3>4 DEF PackagesInv, InPackage
  <2> QED BY <1>5, <2>1, <2>2, KillPackages
<1> QED BY <1>1, <1>2, <1>3, <1>4, <1>5, Frame

(* What MergeTable does to the packages and to the rows.                   *)
LEMMA MergePackages ==
  ASSUME TypeOK, PackagesInv,
         NEW p \in Pipeline, NEW g \in packages[p], NEW t \in TablesOf(g.res), MergeTable(p, g, t)
  PROVE  /\ \A q \in Pipeline : q # p => packages'[q] = packages[q]
         /\ \E h \in packages'[p] :
              /\ h.id = g.id /\ h.res = g.res /\ h.rows = g.rows
              /\ h.merged = g.merged \cup {t} /\ InPackage(h) = InPackage(g)
              /\ packages'[p] = (packages[p] \ {g}) \cup {h}
         /\ \A x \in packages[p] \ {g} : x.merged = {}
         /\ \A i \in InPackage(g) : PipelineOf[i] = p
<1> DEFINE h == [g EXCEPT !.merged = @ \cup {t}]
<1>0. packages \in [Pipeline -> SUBSET Package] /\ g \in Package
  BY DEF TypeOK
<1>1. packages' = [packages EXCEPT ![p] = (@ \ {g}) \cup {h}]
  BY DEF MergeTable
<1>2. /\ h.id = g.id /\ h.res = g.res /\ h.rows = g.rows /\ h.merged = g.merged \cup {t}
      /\ InPackage(h) = InPackage(g)
  BY <1>0, MergedOnly
<1> HIDE DEF h
<1>3. packages'[p] = (packages[p] \ {g}) \cup {h}
  BY <1>0, <1>1
<1>4. \A q \in Pipeline : q # p => packages'[q] = packages[q]
  BY <1>0, <1>1
<1>5. ASSUME NEW x \in packages[p], x # g PROVE x.merged = {}
  <2>1. g.id <= x.id /\ g.id \in Nat /\ x.id \in Nat
    BY <1>0 DEF MergeTable, IsNext, Package
  <2> QED BY <1>5, <2>1 DEF PackagesInv
<1>6. \A i \in InPackage(g) : PipelineOf[i] = p
  BY DEF PackagesInv
<1>7. h \in packages'[p]
  BY <1>3
<1> QED BY <1>2, <1>3, <1>4, <1>5, <1>6, <1>7

LEMMA MergeRows ==
  ASSUME TypeOK,
         NEW p \in Pipeline, NEW g \in packages[p], NEW t \in TablesOf(g.res), MergeTable(p, g, t),
         NEW i \in Issue
  PROVE  /\ i \notin InPackage(g) => /\ issues'[i] = issues[i]
                                   /\ changelog'[i] = changelog[i]
                                   /\ status'[i] = status[i]
         /\ t # "issues" => issues'[i] = issues[i]
         /\ t # "issue_changelog" => changelog'[i] = changelog[i]
         /\ t # "issue_changelog_status" => status'[i] = status[i]
         /\ changelog'[i] >= changelog[i]
         /\ i \in InPackage(g) =>
              /\ t = "issues" => /\ issues'[i].load = g.id
                                /\ issues'[i].version = g.rows[i].version
              /\ t = "issue_changelog" /\ g.rows[i].complete => changelog'[i] >= g.rows[i].version
              /\ t = "issue_changelog_status" => /\ status'[i].load = g.id
                                                /\ status'[i].version = g.rows[i].version
                                                /\ status'[i].complete = g.rows[i].complete
<1>0. g \in Package /\ changelog \in [Issue -> Nat]
  BY DEF TypeOK
<1>1. g.rows[i].version \in Nat /\ changelog[i] \in Nat
  BY <1>0 DEF Package
<1>2. i \notin InPackage(g) => g.rows[i].version = 0
  BY <1>1 DEF InPackage
<1>3. /\ issues'[i] = IF t = "issues" THEN MergedIssues(g)[i] ELSE issues[i]
      /\ changelog'[i] = IF t = "issue_changelog" THEN MergedChangelog(g)[i] ELSE changelog[i]
      /\ status'[i] = IF t = "issue_changelog_status" THEN MergedStatus(g)[i] ELSE status[i]
  BY DEF MergeTable
<1> QED BY <1>1, <1>2, <1>3 DEF MergedIssues, MergedChangelog, MergedStatus

LEMMA MergedStep == TypeOK /\ PackagesInv /\ MergedInv /\ [Next]_vars => MergedInv'
<1> SUFFICES ASSUME TypeOK, PackagesInv, MergedInv, [Next]_vars PROVE MergedInv'
  OBVIOUS
<1>0. packages \in [Pipeline -> SUBSET Package] /\ changelog \in [Issue -> Nat]
  BY DEF TypeOK
<1>1. CASE UNCHANGED <<issues, changelog, status, packages, nextLoad>>
  BY <1>1 DEF MergedInv, InPackage
<1>2. ASSUME NEW p \in Pipeline, NEW res \in Resource, Extract(p, res) PROVE MergedInv'
  <2>1. \A q \in Pipeline : \A x \in packages'[q] : x \in packages[q] \/ x.merged = {}
    BY <1>0, <1>2, ExtractPackages
  <2> QED BY <1>2, <2>1 DEF Extract, raw, MergedInv, InPackage
<1>3. ASSUME NEW p \in Pipeline, NEW g \in packages[p], NEW t \in TablesOf(g.res),
             MergeTable(p, g, t)
      PROVE  MergedInv'
  <2>1. PICK h \in packages'[p] :
          /\ h.id = g.id /\ h.res = g.res /\ h.rows = g.rows
          /\ h.merged = g.merged \cup {t} /\ InPackage(h) = InPackage(g)
          /\ packages'[p] = (packages[p] \ {g}) \cup {h}
    BY <1>3, MergePackages
  <2>2. ASSUME NEW i \in InPackage(h)
        PROVE  /\ "issues" \in h.merged => issues'[i].load = h.id
               /\ "issue_changelog_status" \in h.merged =>
                    /\ status'[i].load = h.id
                    /\ status'[i].version = h.rows[i].version
                    /\ status'[i].complete = h.rows[i].complete
               /\ "issue_changelog" \in h.merged /\ h.rows[i].complete =>
                    changelog'[i] >= h.rows[i].version
    <3>1. i \in Issue /\ i \in InPackage(g)
      BY <2>1 DEF InPackage
    <3>2. g.rows[i].version \in Nat /\ changelog[i] \in Nat
      BY <1>0, <3>1 DEF Package
    <3>3. changelog'[i] \in Nat
      BY <1>3, <3>1, TypeStep DEF TypeOK
    <3> QED BY <1>3, <2>1, <3>1, <3>2, <3>3, MergeRows DEF MergedInv
  <2>3. ASSUME NEW q \in Pipeline, q # p, NEW x \in packages'[q], NEW i \in InPackage(x)
        PROVE  /\ x \in packages[q] /\ i \in Issue
               /\ issues'[i] = issues[i] /\ status'[i] = status[i] /\ changelog'[i] = changelog[i]
    <3>1. x \in packages[q] /\ i \in Issue
      BY <1>3, <2>3, MergePackages DEF InPackage
    <3>2. i \notin InPackage(g)
      BY <2>3, <3>1 DEF PackagesInv
    <3> QED BY <1>3, <3>1, <3>2, MergeRows
  <2>4. ASSUME NEW q \in Pipeline, NEW x \in packages'[q], NEW i \in InPackage(x)
        PROVE  /\ "issues" \in x.merged => issues'[i].load = x.id
               /\ "issue_changelog_status" \in x.merged =>
                    /\ status'[i].load = x.id
                    /\ status'[i].version = x.rows[i].version
                    /\ status'[i].complete = x.rows[i].complete
               /\ "issue_changelog" \in x.merged /\ x.rows[i].complete =>
                    changelog'[i] >= x.rows[i].version
    <3>1. CASE q # p
      BY <2>3, <3>1 DEF MergedInv
    <3>2. CASE q = p /\ x = h
      BY <2>2, <3>2
    <3>3. CASE q = p /\ x # h
      BY <1>3, <2>1, <3>3, MergePackages
    <3> QED BY <3>1, <3>2, <3>3
  <2> QED BY <2>4 DEF MergedInv, InPackage
<1>4. ASSUME NEW p \in Pipeline, NEW g \in packages[p], CompletePackage(p, g) PROVE MergedInv'
  <2>1. \A q \in Pipeline : packages'[q] \subseteq packages[q]
    BY <1>0, <1>4 DEF CompletePackage
  <2> QED BY <1>4, <2>1 DEF CompletePackage, raw, MergedInv, InPackage
<1>5. ASSUME NEW p \in Pipeline, Kill(p) PROVE MergedInv'
  <2>1. \A q \in Pipeline : \A x \in packages'[q] : x \in packages[q] \/ x.merged = {}
    BY <1>5, KillPackages
  <2> QED BY <1>5, <2>1, KillPackages DEF MergedInv, InPackage
<1> QED BY <1>1, <1>2, <1>3, <1>4, <1>5, Frame

-----------------------------------------------------------------------------
(* A step that changes a raw row leaves its package waiting.               *)
LEMMA RawStep ==
  ASSUME TypeOK, PackagesInv, [Next]_vars, NEW i \in Issue
  PROVE  /\ issues'[i] = issues[i] \/ WaitingFor("issues", i)'
         /\ \/ status'[i] = status[i] /\ changelog'[i] = changelog[i]
            \/ WaitingFor("issue_changelog", i)'
         /\ changelog'[i] >= changelog[i]
<1>0. changelog[i] \in Nat
  BY DEF TypeOK
<1>1. CASE UNCHANGED <<issues, changelog, status, packages, nextLoad>>
  BY <1>0, <1>1
<1>2. CASE \E p \in Pipeline, res \in Resource : Extract(p, res)
  BY <1>0, <1>2 DEF Extract, raw
<1>3. ASSUME NEW p \in Pipeline, NEW g \in packages[p], NEW t \in TablesOf(g.res),
             MergeTable(p, g, t)
      PROVE  /\ issues'[i] = issues[i] \/ WaitingFor("issues", i)'
             /\ \/ status'[i] = status[i] /\ changelog'[i] = changelog[i]
                \/ WaitingFor("issue_changelog", i)'
             /\ changelog'[i] >= changelog[i]
  <2>1. CASE i \notin InPackage(g)
    BY <1>0, <1>3, <2>1, MergeRows
  <2>2. CASE i \in InPackage(g)
    <3>1. PipelineOf[i] = p
      BY <1>3, <2>2, MergePackages
    <3>2. PICK h \in packages'[p] : h.res = g.res /\ h.rows = g.rows
      BY <1>3, MergePackages
    <3>3. i \in InPackage(h)'
      BY <2>2, <3>2 DEF InPackage
    <3>4. WaitingFor(g.res, i)'
      BY <3>1, <3>2, <3>3 DEF WaitingFor
    <3>5. t = "issues" => g.res = "issues"
      BY DEF TablesOf
    <3>6. g.res = "issues" \/ g.res = "issue_changelog"
      BY DEF TypeOK, Package, Resource
    <3>7. g.res = "issues" => t = "issues"
      BY DEF TablesOf
    <3> QED BY <1>3, <3>4, <3>5, <3>6, <3>7, MergeRows
  <2> QED BY <2>1, <2>2
<1>4. CASE \E p \in Pipeline : \E g \in packages[p] : CompletePackage(p, g)
  BY <1>0, <1>4 DEF CompletePackage, raw
<1>5. CASE \E p \in Pipeline : Kill(p)
  BY <1>0, <1>5, KillPackages
<1> QED BY <1>1, <1>2, <1>3, <1>4, <1>5, Frame

(* A load that is due to be marked stays due, is queued, or is recorded as *)
(* one that never will be.                                                 *)
LEMMA DueStep ==
  ASSUME TypeOK, [Next]_vars,
         NEW q \in Pipeline, NEW res \in ToMark(run[q].step), NEW l \in run[q].loads
  PROVE  \/ res \in ToMark(run'[q].step) /\ l \in run'[q].loads
         \/ \E m \in unmarked' : m.why \in AnyWhy /\ m.resource = res /\ m.load = l
         \/ LoadedBy(res, {l}) \subseteq dirty' \ tx'.claimed
<1> DEFINE Goal == \/ res \in ToMark(run'[q].step) /\ l \in run'[q].loads
                   \/ \E m \in unmarked' : m.why \in AnyWhy /\ m.resource = res /\ m.load = l
                   \/ LoadedBy(res, {l}) \subseteq dirty' \ tx'.claimed
<1> SUFFICES Goal
  OBVIOUS
<1> USE DEF raw, extract, analytic, history
<1>0. run \in [Pipeline -> [step : Steps, loads : SUBSET Nat]]
  BY DEF TypeOK
<1>1. ASSUME run'[q] = run[q] PROVE Goal
  BY <1>1
<1>2. ASSUME NEW p \in Pipeline, NEW why \in AnyWhy, Unmark(p, why),
             run' = [run EXCEPT ![p] = IdleRun]
      PROVE  Goal
  <2>1. CASE p = q
    <3> DEFINE m == [why |-> why, resource |-> res, load |-> l]
    <3>1. m \in unmarked'
      BY <1>2, <2>1 DEF Unmark
    <3>2. m.why \in AnyWhy /\ m.resource = res /\ m.load = l
      OBVIOUS
    <3> HIDE DEF m
    <3> QED BY <3>1, <3>2
  <2>2. CASE p # q
    BY <1>0, <1>1, <1>2, <2>2
  <2> QED BY <2>1, <2>2
<1>3. CASE UNCHANGED run
  BY <1>1, <1>3
<1>4. CASE \E p \in Pipeline : \/ \E r \in Resource : Extract(p, r)
                               \/ TakeLoadLock(p) \/ FinishLoad(p)
                               \/ \E g \in packages[p] : CompletePackage(p, g)
  BY <1>0, <1>4 DEF Extract, TakeLoadLock, FinishLoad, CompletePackage, ToMark
<1>5. ASSUME NEW p \in Pipeline, MarkDirty(p) PROVE Goal
  <2>1. CASE p # q
    <3>1. run'[q] = run[q]
      BY <1>0, <1>5, <2>1 DEF MarkDirty
    <3> QED BY <1>1, <3>1
  <2>2. CASE p = q /\ run[p].step = "mark_issues" /\ res = "issue_changelog"
    <3>1. run'[q].step = "mark_changelog" /\ run'[q].loads = run[q].loads
      BY <1>0, <1>5, <2>2 DEF MarkDirty
    <3> QED BY <2>2, <3>1 DEF ToMark
  <2>3. CASE /\ p = q
             /\ \/ run[p].step = "mark_issues" /\ res = "issues"
                \/ run[p].step = "mark_changelog" /\ res = "issue_changelog"
    <3>1. LoadedBy(res, {l}) \subseteq LoadedBy(res, run[p].loads)
      BY <2>3 DEF LoadedBy
    <3>2. LoadedBy(res, run[p].loads) \subseteq dirty' \ tx'.claimed
      BY <1>5, <2>3 DEF MarkDirty
    <3> QED BY <3>1, <3>2
  <2>4. run[p].step = "mark_issues" \/ run[p].step = "mark_changelog"
    BY <1>5 DEF MarkDirty, Marking
  <2>5. p = q /\ run[p].step = "mark_changelog" => res = "issue_changelog"
    BY DEF ToMark
  <2>6. res = "issues" \/ res = "issue_changelog"
    BY DEF ToMark, Resource
  <2> QED BY <2>1, <2>2, <2>3, <2>4, <2>5, <2>6
<1>6. CASE \E p \in Pipeline : MarkFails(p) \/ MarkUnavailable(p) \/ Kill(p)
  BY <1>2, <1>6 DEF MarkFails, MarkUnavailable, Kill, AnyWhy
<1>7. CASE \/ \E i \in Issue : Update(i)
           \/ Migrate
           \/ \E p \in Pipeline : \E g \in packages[p] : \E t \in TablesOf(g.res) :
                MergeTable(p, g, t)
           \/ \E scope \in Scopes : ClaimDirty(scope)
           \/ \E scope \in Scopes : RebuildAll(scope)
           \/ Partition \/ RebuildIntervals \/ RebuildColumns \/ Commit \/ Rollback
           \/ UNCHANGED vars
  <2>1. UNCHANGED run
    BY <1>7 DEF Update, Migrate, MergeTable, ClaimDirty, RebuildAll, Partition,
       RebuildIntervals, RebuildColumns, Commit, Rollback, vars
  <2> QED BY <1>1, <2>1
<1> HIDE DEF Goal
<1> QED BY <1>4, <1>5, <1>6, <1>7, NextCases

(* The history of lost marks only grows.                                   *)
LEMMA LostStep ==
  ASSUME [Next]_vars
  PROVE  unmarked \subseteq unmarked'
<1> USE DEF raw, extract, analytic, history
<1>1. CASE UNCHANGED vars
  BY <1>1 DEF vars
<1>2. CASE \E p \in Pipeline : MarkFails(p) \/ MarkUnavailable(p) \/ Kill(p)
  BY <1>2 DEF MarkFails, MarkUnavailable, Kill, Unmark
<1> QED
  BY <1>1, <1>2, NextCases DEF Update, Migrate, Extract, TakeLoadLock, MergeTable,
     CompletePackage, FinishLoad, MarkDirty, ClaimDirty, RebuildAll, Partition,
     RebuildIntervals, RebuildColumns, Commit, Rollback

(* A package that waits goes on waiting, until it completes: then its run  *)
(* owes the mark, and the changelog it brought is whole.                   *)
LEMMA WaitingStep ==
  ASSUME TypeOK, PackagesInv, MergedInv, [Next]_vars,
         NEW i \in Issue, NEW res \in Resource, WaitingFor(res, i)
  PROVE  \/ WaitingFor(res, i)'
         \/ /\ Due(res, i)'
            /\ res = "issue_changelog" /\ status[i].complete => changelog[i] >= status[i].version
<1> DEFINE q == PipelineOf[i]
<1>0. q \in Pipeline /\ packages \in [Pipeline -> SUBSET Package]
  BY DEF TypeOK
<1>w. PICK x \in packages[q] : x.res = res /\ i \in InPackage(x)
  BY DEF WaitingFor
<1> HIDE DEF q
<1>q. q = PipelineOf[i]
  BY DEF q
<1>a. ASSUME NEW y \in packages'[q], y.res = res, i \in InPackage(y) PROVE WaitingFor(res, i)'
  BY <1>a, <1>q DEF WaitingFor, InPackage
<1>1. CASE UNCHANGED <<issues, changelog, status, packages, nextLoad>>
  BY <1>1, <1>a, <1>w
<1>2. ASSUME NEW p \in Pipeline, NEW r \in Resource, Extract(p, r) PROVE WaitingFor(res, i)'
  <2>1. packages[q] \subseteq packages'[q]
    BY <1>0, <1>2, ExtractPackages
  <2> QED BY <1>a, <1>w, <2>1
<1>3. ASSUME NEW p \in Pipeline, NEW g \in packages[p], NEW t \in TablesOf(g.res),
             MergeTable(p, g, t)
      PROVE  WaitingFor(res, i)'
  <2>1. CASE p # q \/ x # g
    <3>1. x \in packages'[q]
      BY <1>0, <1>3, <1>w, <2>1, MergePackages
    <3> QED BY <1>a, <1>w, <3>1
  <2>2. CASE p = q /\ x = g
    <3>1. PICK h \in packages'[p] : h.res = g.res /\ InPackage(h) = InPackage(g)
      BY <1>3, MergePackages
    <3> QED BY <1>a, <1>w, <2>2, <3>1
  <2> QED BY <2>1, <2>2
<1>4. ASSUME NEW p \in Pipeline, NEW g \in packages[p], CompletePackage(p, g)
      PROVE  \/ WaitingFor(res, i)'
             \/ /\ Due(res, i)'
                /\ res = "issue_changelog" /\ status[i].complete => changelog[i] >= status[i].version
  <2>1. CASE p # q \/ x # g
    <3>1. x \in packages'[q]
      BY <1>0, <1>4, <1>w, <2>1 DEF CompletePackage
    <3> QED BY <1>a, <1>w, <3>1
  <2>2. CASE p = q /\ x = g
    <3>1. /\ run[q].step = "loading" /\ g.merged = TablesOf(res)
          /\ run' = [run EXCEPT ![q].loads = @ \cup {g.id}]
          /\ issues' = issues /\ status' = status
      BY <1>4, <1>w, <2>2 DEF CompletePackage, raw
    <3>2. run'[q].step = "loading" /\ g.id \in run'[q].loads
      BY <1>0, <3>1 DEF TypeOK
    <3>3. res = "issues" => issues[i].load = g.id
      BY <1>w, <2>2, <3>1 DEF MergedInv, TablesOf
    <3>4. res = "issue_changelog" => status[i].load = g.id
      BY <1>w, <2>2, <3>1 DEF MergedInv, TablesOf
    <3>5. res \in ToMark(run'[q].step)
      BY <3>2 DEF ToMark
    <3>6. (i \in LoadedBy(res, run[PipelineOf[i]].loads))'
      BY <1>q, <3>1, <3>2, <3>3, <3>4 DEF LoadedBy, Resource
    <3>7. res = "issue_changelog" /\ status[i].complete => changelog[i] >= status[i].version
      BY <1>w, <2>2, <3>1 DEF MergedInv, TablesOf
    <3>8. Due(res, i)'
      BY <1>q, <3>5, <3>6 DEF Due
    <3> QED BY <3>7, <3>8
  <2> QED BY <2>1, <2>2
<1>5. ASSUME NEW p \in Pipeline, Kill(p) PROVE WaitingFor(res, i)'
  <2>1. CASE p # q \/ UNCHANGED packages
    <3>1. x \in packages'[q]
      BY <1>0, <1>5, <1>w, <2>1, KillPackages
    <3> QED BY <1>a, <1>w, <3>1
  <2>2. CASE p = q /\ packages' # packages
    <3>1. PICK y \in packages'[p] : y.res = x.res /\ InPackage(y) = InPackage(x)
      BY <1>5, <1>w, <2>2, KillPackages
    <3> QED BY <1>a, <1>w, <2>2, <3>1
  <2> QED BY <2>1, <2>2
<1> QED BY <1>1, <1>2, <1>3, <1>4, <1>5, Frame

(* The debt of a raw row is only paid by queuing the issue, where no open  *)
(* transform has claimed it.                                               *)
LEMMA OwesStep ==
  ASSUME TypeOK, PackagesInv, MergedInv, [Next]_vars,
         NEW i \in Issue, NEW res \in Resource, Owes(res, i)
  PROVE  Owes(res, i)' \/ i \in dirty' \ tx'.claimed
<1> DEFINE q == PipelineOf[i]
<1>0. q \in Pipeline
  OBVIOUS
<1>1. CASE WaitingFor(res, i)
  BY <1>1, WaitingStep DEF Owes
<1>2. ASSUME NEW l, i \in LoadedBy(res, {l})
      PROVE  WaitingFor(res, i)' \/ i \in LoadedBy(res, {l})'
  BY <1>2, RawStep DEF LoadedBy, Resource
<1>3. ASSUME NEW l, i \in LoadedBy(res, {l})',
             \E m \in unmarked' : m.why \in AnyWhy /\ m.resource = res /\ m.load = l
      PROVE  Owes(res, i)'
  BY <1>3 DEF Owes, Lost, AnyWhy
<1>4. CASE Due(res, i)
  <2>1. res \in ToMark(run[q].step) /\ i \in LoadedBy(res, run[q].loads)
    BY <1>4 DEF Due
  <2>2. PICK l \in run[q].loads : i \in LoadedBy(res, {l})
    BY <2>1 DEF LoadedBy
  <2>3. CASE /\ i \in LoadedBy(res, {l})'
             /\ res \in ToMark(run'[q].step) /\ l \in run'[q].loads
    <3>1. (i \in LoadedBy(res, run[PipelineOf[i]].loads))'
      BY <2>3 DEF LoadedBy
    <3>2. Due(res, i)'
      BY <2>3, <3>1 DEF Due
    <3> QED BY <3>2 DEF Owes
  <2>4. \/ res \in ToMark(run'[q].step) /\ l \in run'[q].loads
        \/ \E m \in unmarked' : m.why \in AnyWhy /\ m.resource = res /\ m.load = l
        \/ LoadedBy(res, {l}) \subseteq dirty' \ tx'.claimed
    BY <1>0, <2>1, DueStep
  <2>5. WaitingFor(res, i)' => Owes(res, i)'
    BY DEF Owes
  <2> HIDE DEF q
  <2> QED BY <1>2, <1>3, <2>2, <2>3, <2>4, <2>5
<1>5. CASE Lost(res, i, AnyWhy)
  <2>1. PICK m \in unmarked : m.why \in AnyWhy /\ m.resource = res /\ i \in LoadedBy(res, {m.load})
    BY <1>5 DEF Lost
  <2>2. m \in unmarked'
    BY LostStep
  <2>3. WaitingFor(res, i)' => Owes(res, i)'
    BY DEF Owes
  <2> QED BY <1>2, <1>3, <2>1, <2>2, <2>3
<1> QED BY <1>1, <1>4, <1>5 DEF Owes

(* The changelog of a row marked complete is whole, or its package waits.  *)
LEMMA WholeStep ==
  TypeOK /\ PackagesInv /\ MergedInv /\ WholeInv /\ [Next]_vars => WholeInv'
<1> SUFFICES ASSUME TypeOK, PackagesInv, MergedInv, WholeInv, [Next]_vars,
                    NEW i \in Issue, status'[i].complete
             PROVE  changelog'[i] >= status'[i].version \/ WaitingFor("issue_changelog", i)'
  BY DEF WholeInv
<1>1. CASE WaitingFor("issue_changelog", i)'
  BY <1>1
<1>2. CASE status'[i] = status[i] /\ changelog'[i] = changelog[i]
  BY <1>2, WaitingStep DEF WholeInv, Resource
<1> QED BY <1>1, <1>2, RawStep

-----------------------------------------------------------------------------
(* The debts of an issue over one step.                                    *)
LEMMA DebtStep ==
  ASSUME TypeOK, PackagesInv, MergedInv, [Next]_vars, NEW i \in Issue
  PROVE  /\ issues'[i] = issues[i] \/ Owes("issues", i)'
         /\ \/ issues'[i] = issues[i] /\ status'[i] = status[i] /\ changelog'[i] = changelog[i]
            \/ Owes("issues", i)' \/ Owes("issue_changelog", i)'
         /\ Owes("issues", i) => Owes("issues", i)' \/ i \in dirty' \ tx'.claimed
         /\ Owes("issue_changelog", i) =>
              Owes("issue_changelog", i)' \/ i \in dirty' \ tx'.claimed
<1>1. \A res \in Resource : WaitingFor(res, i)' => Owes(res, i)'
  BY DEF Owes
<1>2. "issues" \in Resource /\ "issue_changelog" \in Resource
  BY DEF Resource
<1> QED BY <1>1, <1>2, RawStep, OwesStep

(* A step is one of the transform's, and leaves jira_raw and the loads     *)
(* alone, or leaves analytics and the open transaction alone, and queues   *)
(* no issue that is claimed.                                               *)
TransformAction ==
  \/ \E scope \in Scopes : ClaimDirty(scope)
  \/ \E scope \in Scopes : RebuildAll(scope)
  \/ Partition \/ RebuildIntervals \/ RebuildColumns \/ Commit \/ Rollback

LEMMA Sides ==
  ASSUME [Next]_vars
  PROVE  \/ /\ UNCHANGED <<intervals, columns, tx>>
            /\ dirty \subseteq dirty'
            /\ dirty' \cap tx.claimed \subseteq dirty
            /\ dropped \ dropped' \subseteq dirty' \ tx.claimed
         \/ /\ TransformAction
            /\ UNCHANGED <<issues, changelog, status, packages, run, unmarked>>
<1> USE DEF raw, extract, analytic, history
<1>1. CASE UNCHANGED vars
  BY <1>1 DEF vars
<1>2. CASE TransformAction
  BY <1>2 DEF TransformAction, ClaimDirty, RebuildAll, Partition, RebuildIntervals,
     RebuildColumns, Commit, Rollback
<1>3. CASE \E p \in Pipeline : MarkDirty(p)
  BY <1>3 DEF MarkDirty
<1>4. CASE \/ \E i \in Issue : Update(i)
           \/ Migrate
           \/ \E p \in Pipeline, res \in Resource : Extract(p, res)
           \/ \E p \in Pipeline : TakeLoadLock(p)
           \/ \E p \in Pipeline : \E g \in packages[p] : \E t \in TablesOf(g.res) :
                 MergeTable(p, g, t)
           \/ \E p \in Pipeline : \E g \in packages[p] : CompletePackage(p, g)
           \/ \E p \in Pipeline : FinishLoad(p)
           \/ \E p \in Pipeline : MarkFails(p) \/ MarkUnavailable(p)
           \/ \E p \in Pipeline : Kill(p)
  BY <1>4 DEF Update, Migrate, Extract, TakeLoadLock, MergeTable, CompletePackage, FinishLoad,
     MarkFails, MarkUnavailable, Kill
<1> QED BY <1>1, <1>2, <1>3, <1>4, NextCases DEF TransformAction

(* A transform step leaves every debt as it is.                            *)
LEMMA SameDebts ==
  ASSUME UNCHANGED <<issues, changelog, status, packages, run, unmarked>>,
         NEW i \in Issue, NEW res \in Resource
  PROVE  Owes(res, i)' <=> Owes(res, i)
BY DEF Owes, WaitingFor, Due, Lost, LoadedBy, InPackage

(* The queue the open transaction leaves behind, in one step of the others.*)
LEMMA QueueStep ==
  ASSUME UNCHANGED tx,
         dirty \subseteq dirty', dropped \ dropped' \subseteq dirty' \ tx.claimed
  PROVE  /\ QueueAfter \subseteq QueueAfter'
         /\ dirty' \ tx'.claimed \subseteq QueueAfter'
         /\ dropped \subseteq dropped' \cup QueueAfter'
BY DEF QueueAfter

LEMMA AccountedStep ==
  TypeOK /\ PackagesInv /\ MergedInv /\ TxInv /\ AccountedInv /\ [Next]_vars => AccountedInv'
<1> SUFFICES ASSUME TypeOK, PackagesInv, MergedInv, TxInv, AccountedInv, [Next]_vars
             PROVE  AccountedInv'
  OBVIOUS
<1>1. CASE /\ UNCHANGED <<intervals, columns, tx>>
           /\ dirty \subseteq dirty'
           /\ dropped \ dropped' \subseteq dirty' \ tx.claimed
  <2>1. ASSUME NEW i \in Issue, columns'[i] # issues'[i].version
        PROVE  i \in dirty' \/ i \in dropped' \/ Owes("issues", i)'
    BY <1>1, <2>1, DebtStep DEF AccountedInv, ColumnsOK
  <2>2. ASSUME NEW i \in Issue,
               intervals'[i] # [changelog |-> changelog'[i], issue |-> issues'[i].version]
        PROVE  \/ i \in dirty' \/ i \in dropped' \/ ~Complete(i)'
               \/ Owes("issues", i)' \/ Owes("issue_changelog", i)'
    BY <1>1, <2>2, DebtStep DEF AccountedInv, IntervalsOK, Complete
  <2> QED BY <2>1, <2>2 DEF AccountedInv, ColumnsOK, IntervalsOK
<1>2. CASE /\ TransformAction
           /\ UNCHANGED <<issues, changelog, status, packages, run, unmarked>>
  <2>0. \A i \in Issue : /\ Owes("issues", i)' <=> Owes("issues", i)
                         /\ Owes("issue_changelog", i)' <=> Owes("issue_changelog", i)
                         /\ Complete(i)' <=> Complete(i)
    BY <1>2, SameDebts DEF Resource, Complete
  <2>1. CASE UNCHANGED <<intervals, columns, dirty, dropped>>
    BY <1>2, <2>0, <2>1 DEF AccountedInv, ColumnsOK, IntervalsOK
  <2>2. CASE Commit
    <3>1. /\ intervals' = tx.intervals /\ columns' = tx.columns
          /\ ColumnsOK(tx.columns, QueueAfter) /\ IntervalsOK(tx.intervals, QueueAfter)
      BY <2>2 DEF Commit, TxInv
    <3>2. QueueAfter \subseteq dirty' \cup dropped' /\ dropped \subseteq dropped'
      BY <2>2 DEF Commit, QueueAfter
    <3> QED BY <1>2, <2>0, <3>1, <3>2 DEF AccountedInv, ColumnsOK, IntervalsOK
  <2> QED
    BY <1>2, <2>1, <2>2 DEF TransformAction, ClaimDirty, RebuildAll, Partition, RebuildIntervals,
       RebuildColumns, Rollback, analytic, history
<1> QED BY <1>1, <1>2, Sides

(* What the open transaction has rebuilt and will drop from the queue.     *)
LEMMA TxStep ==
  /\ TypeOK /\ PackagesInv /\ MergedInv /\ TxInv /\ AccountedInv /\ BehindInv
  /\ [Next]_vars
  => TxInv'
<1> SUFFICES ASSUME TypeOK, PackagesInv, MergedInv, TxInv, AccountedInv, BehindInv, [Next]_vars
             PROVE  TxInv'
  OBVIOUS
<1>1. CASE /\ UNCHANGED <<intervals, columns, tx>>
           /\ dirty \subseteq dirty'
           /\ dropped \ dropped' \subseteq dirty' \ tx.claimed
  <2>0. /\ QueueAfter \subseteq QueueAfter'
        /\ dirty' \ tx'.claimed \subseteq QueueAfter'
        /\ dropped \subseteq dropped' \cup QueueAfter'
    BY <1>1, QueueStep
  <2> DEFINE Debt(i) == Owes("issues", i) \/ Owes("issue_changelog", i)
             Excuse(i) == i \in QueueAfter \/ i \in dropped \/ ~Complete(i) \/ Debt(i)
  <2>1. ASSUME NEW i \in Issue, Excuse(i) PROVE Excuse(i)'
    BY <2>0, <2>1, DebtStep DEF Complete
  <2>2. ASSUME NEW i \in Issue
        PROVE  Debt(i)' \/ (issues'[i] = issues[i] /\ changelog'[i] = changelog[i])
    BY DebtStep
  <2>3. ASSUME tx.step \in {"intervals", "columns"} PROVE IntervalsOK(tx.intervals, QueueAfter)'
    <3>1. ASSUME NEW i \in Issue,
                 tx'.intervals[i] # [changelog |-> changelog'[i], issue |-> issues'[i].version]
          PROVE  Excuse(i)'
      BY <1>1, <2>1, <2>2, <2>3, <3>1 DEF TxInv, IntervalsOK
    <3> QED BY <3>1 DEF IntervalsOK
  <2>4. ASSUME tx.step = "columns" PROVE ColumnsOK(tx.columns, QueueAfter)'
    <3>1. ASSUME NEW i \in Issue, tx'.columns[i] # issues'[i].version
          PROVE  i \in QueueAfter' \/ i \in dropped' \/ Owes("issues", i)'
      BY <1>1, <2>0, <2>4, <3>1, DebtStep DEF TxInv, ColumnsOK
    <3> QED BY <3>1 DEF ColumnsOK
  <2>5. ASSUME tx.step = "partitioned", NEW i \in tx.candidates \ tx.complete PROVE Excuse(i)'
    <3>1. i \in Issue /\ Excuse(i)
      BY <2>5 DEF TypeOK, TxInv
    <3> QED BY <2>1, <3>1
  <2> HIDE DEF Excuse, Debt
  <2>6. /\ tx'.claimed \subseteq dirty'
        /\ tx'.step = "idle" => tx'.claimed = {}
        /\ tx'.claimed \cap tx'.ids \subseteq tx'.candidates
        /\ tx'.step \in {"idle", "scoped", "partitioned"} => tx'.intervals = intervals'
        /\ tx'.step # "columns" => tx'.columns = columns'
    BY <1>1 DEF TxInv
  <2> QED BY <1>1, <2>3, <2>4, <2>5, <2>6 DEF TxInv, Excuse, Debt
<1>2. CASE UNCHANGED <<issues, changelog, status, packages, run, unmarked>>
  <2>0. \A i \in Issue : /\ Owes("issues", i)' <=> Owes("issues", i)
                         /\ Owes("issue_changelog", i)' <=> Owes("issue_changelog", i)
                         /\ Complete(i)' <=> Complete(i)
    BY <1>2, SameDebts DEF Resource, Complete
  <2>1. CASE \E scope \in Scopes : ClaimDirty(scope)
    BY <2>1 DEF ClaimDirty, IssuesOf, analytic, TypeOK, TxInv
  <2>2. CASE \E scope \in Scopes : RebuildAll(scope)
    BY <2>2 DEF RebuildAll, analytic, TypeOK, TxInv
  <2>3. CASE Partition
    <3>1. /\ tx' = [tx EXCEPT !.step = "partitioned",
                              !.complete = {i \in tx.candidates : Complete(i)}]
          /\ tx.step = "scoped" /\ UNCHANGED <<dirty, intervals, columns>>
      BY <2>3 DEF Partition, analytic
    <3>2. /\ tx'.step = "partitioned" /\ tx'.claimed = tx.claimed /\ tx'.ids = tx.ids
          /\ tx'.candidates = tx.candidates
          /\ tx'.intervals = tx.intervals /\ tx'.columns = tx.columns
          /\ tx'.complete = {i \in tx.candidates : Complete(i)}
      BY <3>1 DEF TypeOK
    <3>3. \A i \in tx'.candidates \ tx'.complete : ~Complete(i)'
      BY <2>0, <3>2 DEF TypeOK
    <3> QED BY <3>1, <3>2, <3>3 DEF TxInv
  <2>4. CASE RebuildIntervals
    <3>1. /\ tx' = [tx EXCEPT !.step = "intervals",
                !.intervals = [i \in Issue |-> IF i \in tx.complete
                   THEN [changelog |-> changelog[i], issue |-> issues[i].version] ELSE @[i]]]
          /\ tx.step = "partitioned" /\ UNCHANGED <<dirty, intervals, columns, dropped>>
      BY <2>4 DEF RebuildIntervals, analytic, history
    <3>2. /\ tx'.step = "intervals" /\ tx'.claimed = tx.claimed /\ tx'.ids = tx.ids
          /\ tx'.candidates = tx.candidates /\ tx'.columns = tx.columns
      BY <3>1 DEF TypeOK
    <3>3. \A i \in Issue : tx'.intervals[i] =
            IF i \in tx.complete
              THEN [changelog |-> changelog[i], issue |-> issues[i].version]
              ELSE intervals[i]
      BY <3>1 DEF TypeOK, TxInv
    <3>4. QueueAfter' = QueueAfter
      BY <3>1, <3>2 DEF QueueAfter
    <3>5. ASSUME NEW i \in Issue,
                 tx'.intervals[i] # [changelog |-> changelog'[i], issue |-> issues'[i].version]
          PROVE  \/ i \in QueueAfter' \/ i \in dropped' \/ ~Complete(i)'
                 \/ Owes("issues", i)' \/ Owes("issue_changelog", i)'
      <4>1. i \notin tx.complete /\ intervals[i] # [changelog |-> changelog[i],
                                                   issue |-> issues[i].version]
        BY <1>2, <3>3, <3>5
      <4>2. \/ i \in dirty \/ i \in dropped \/ ~Complete(i)
            \/ Owes("issues", i) \/ Owes("issue_changelog", i)
        BY <4>1 DEF AccountedInv, IntervalsOK
      <4>3. CASE i \in dirty
        <5>1. i \in QueueAfter \/ i \in tx.claimed \cap tx.ids
          BY <4>3 DEF QueueAfter
        <5>2. i \in tx.claimed \cap tx.ids => i \in tx.candidates \ tx.complete
          BY <4>1 DEF TxInv
        <5> QED BY <2>0, <3>1, <3>4, <5>1, <5>2 DEF TxInv
      <4> QED BY <2>0, <3>1, <4>2, <4>3
    <3>6. IntervalsOK(tx.intervals, QueueAfter)'
      BY <3>5 DEF IntervalsOK
    <3> QED BY <3>1, <3>2, <3>6 DEF TxInv
  <2>5. CASE RebuildColumns
    <3>1. /\ tx' = [tx EXCEPT !.step = "columns",
                !.columns = [i \in Issue |-> IF i \in tx.ids /\ issues[i].version > 0
                               THEN issues[i].version ELSE @[i]]]
          /\ tx.step = "intervals" /\ UNCHANGED <<dirty, intervals, columns, dropped>>
      BY <2>5 DEF RebuildColumns, analytic, history
    <3>2. /\ tx'.step = "columns" /\ tx'.claimed = tx.claimed /\ tx'.ids = tx.ids
          /\ tx'.candidates = tx.candidates /\ tx'.intervals = tx.intervals
      BY <3>1 DEF TypeOK
    <3>3. \A i \in Issue : tx'.columns[i] = IF i \in tx.ids /\ issues[i].version > 0
                                              THEN issues[i].version ELSE columns[i]
      BY <3>1 DEF TypeOK, TxInv
    <3>4. QueueAfter' = QueueAfter
      BY <3>1, <3>2 DEF QueueAfter
    <3>5. ASSUME NEW i \in Issue, tx'.columns[i] # issues'[i].version
          PROVE  i \in QueueAfter' \/ i \in dropped' \/ Owes("issues", i)'
      <4>0. issues[i].version \in Nat
        BY DEF TypeOK, RawRow
      <4>1. i \notin tx.ids /\ columns[i] # issues[i].version
        BY <1>2, <3>3, <3>5, <4>0 DEF BehindInv
      <4>2. i \in dirty \/ i \in dropped \/ Owes("issues", i)
        BY <4>1 DEF AccountedInv, ColumnsOK
      <4>3. i \in dirty => i \in QueueAfter
        BY <4>1 DEF QueueAfter
      <4> QED BY <2>0, <3>1, <3>4, <4>2, <4>3
    <3>6. ColumnsOK(tx.columns, QueueAfter)'
      BY <3>5 DEF ColumnsOK
    <3>7. IntervalsOK(tx.intervals, QueueAfter)
      BY <3>1 DEF TxInv
    <3>8. IntervalsOK(tx.intervals, QueueAfter)'
      BY <1>2, <2>0, <3>1, <3>2, <3>4, <3>7 DEF IntervalsOK
    <3> QED BY <3>1, <3>2, <3>6, <3>8 DEF TxInv
  <2>6. CASE Commit
    <3>1. /\ tx'.step = "idle" /\ tx'.claimed = {}
          /\ tx'.intervals = intervals' /\ tx'.columns = columns'
      BY <2>6 DEF Commit, IdleTx
    <3> QED BY <3>1 DEF TxInv
  <2>7. CASE Rollback
    <3>1. /\ tx'.step = "idle" /\ tx'.claimed = {}
          /\ tx'.intervals = intervals' /\ tx'.columns = columns'
      BY <2>7 DEF Rollback, IdleTx, analytic
    <3> QED BY <3>1 DEF TxInv
  <2>8. CASE TransformAction
    BY <2>1, <2>2, <2>3, <2>4, <2>5, <2>6, <2>7, <2>8 DEF TransformAction
  <2> QED BY <1>1, <2>8, Sides
<1> QED BY <1>1, <1>2, Sides

LEMMA BehindStep ==
  TypeOK /\ TxInv /\ BehindInv /\ PackagesInv /\ [Next]_vars => BehindInv'
<1> SUFFICES ASSUME TypeOK, PackagesInv, TxInv, BehindInv, [Next]_vars, NEW i \in Issue
             PROVE  /\ issues'[i].version = 0 => columns'[i] = 0 /\ tx'.columns[i] = 0
                    /\ intervals'[i].changelog <= tx'.intervals[i].changelog
                    /\ tx'.intervals[i].changelog <= changelog'[i]
  BY DEF BehindInv
<1>0. /\ issues[i].version \in Nat /\ changelog[i] \in Nat /\ changelog'[i] \in Nat
      /\ intervals[i].changelog \in Nat /\ tx.intervals[i].changelog \in Nat
  BY TypeStep DEF TypeOK, RawRow, Built
<1>1. issues'[i].version = 0 => issues[i].version = 0
  <2>1. ASSUME NEW p \in Pipeline, NEW g \in packages[p], NEW t \in TablesOf(g.res),
               MergeTable(p, g, t), issues'[i].version = 0
        PROVE  issues[i].version = 0
    <3>1. issues'[i] = issues[i] \/ (issues'[i].version = g.rows[i].version /\ i \in InPackage(g))
      BY <2>1 DEF MergeTable, MergedIssues
    <3> QED BY <2>1, <3>1 DEF InPackage
  <2>2. CASE issues' = issues
    BY <2>2
  <2> QED
    BY <2>1, <2>2, Frame, KillPackages DEF Extract, CompletePackage, raw
<1>2. CASE UNCHANGED <<intervals, columns, tx>>
  BY <1>0, <1>1, <1>2, RawStep DEF BehindInv
<1>3. CASE TransformAction /\ UNCHANGED <<issues, changelog, status, packages, run, unmarked>>
  <2>1. CASE RebuildIntervals
    <3>1. /\ tx'.columns = tx.columns /\ UNCHANGED <<intervals, columns>>
          /\ tx'.intervals[i].changelog \in {changelog[i], tx.intervals[i].changelog}
      BY <2>1 DEF RebuildIntervals, analytic, TypeOK
    <3> QED BY <1>0, <1>3, <3>1 DEF BehindInv
  <2>2. CASE RebuildColumns
    <3>1. /\ tx'.intervals = tx.intervals /\ UNCHANGED <<intervals, columns>>
          /\ issues[i].version = 0 => tx'.columns[i] = tx.columns[i]
      BY <2>2 DEF RebuildColumns, analytic, TypeOK
    <3> QED BY <1>0, <1>3, <3>1 DEF BehindInv
  <2>3. CASE Commit
    <3>1. /\ tx'.intervals = tx.intervals /\ tx'.columns = tx.columns
          /\ intervals' = tx.intervals /\ columns' = tx.columns
      BY <2>3 DEF Commit, IdleTx
    <3> QED BY <1>0, <1>3, <3>1 DEF BehindInv
  <2>4. CASE Rollback
    <3>1. /\ tx'.intervals = intervals /\ tx'.columns = columns
          /\ UNCHANGED <<intervals, columns>>
      BY <2>4 DEF Rollback, IdleTx, analytic
    <3> QED BY <1>0, <1>3, <3>1 DEF BehindInv
  <2>5. CASE Partition \/ \E scope \in Scopes : ClaimDirty(scope) \/ RebuildAll(scope)
    <3>1. /\ tx'.intervals = tx.intervals /\ tx'.columns = tx.columns
          /\ UNCHANGED <<intervals, columns>>
      BY <2>5 DEF Partition, ClaimDirty, RebuildAll, analytic, TypeOK
    <3> QED BY <1>0, <1>3, <3>1 DEF BehindInv
  <2> QED BY <1>3, <2>1, <2>2, <2>3, <2>4, <2>5 DEF TransformAction
<1> QED BY <1>2, <1>3, Sides

-----------------------------------------------------------------------------
LEMMA InitInv == Init => IInv
<1> SUFFICES ASSUME Init PROVE IInv
  OBVIOUS
<1>1. TypeOK
  BY DEF Init, TypeOK, RawRow, StatusRow, Built, IdleRun, IdleTx, Steps
<1>2. \A p \in Pipeline : packages[p] = {}
  BY DEF Init
<1>3. PackagesInv /\ MergedInv
  BY <1>2 DEF PackagesInv, MergedInv
<1>4. \A i \in Issue : /\ issues[i].version = 0 /\ changelog[i] = 0 /\ ~status[i].complete
                       /\ columns[i] = 0 /\ intervals[i] = [changelog |-> 0, issue |-> 0]
  BY DEF Init
<1>5. WholeInv /\ AccountedInv
  BY <1>4 DEF WholeInv, AccountedInv, ColumnsOK, IntervalsOK
<1>6. /\ tx.step = "idle" /\ tx.claimed = {} /\ tx.intervals = intervals /\ tx.columns = columns
  BY DEF Init, IdleTx
<1>7. TxInv
  BY <1>6 DEF TxInv
<1>8. BehindInv
  BY <1>4, <1>6 DEF BehindInv
<1> QED BY <1>1, <1>3, <1>5, <1>7, <1>8 DEF IInv

LEMMA StepInv == IInv /\ [Next]_vars => IInv'
BY TypeStep, PackagesStep, MergedStep, WholeStep, AccountedStep, TxStep, BehindStep DEF IInv

(* The inductive invariant holds in every reachable state.                 *)
THEOREM Inductive == Spec => []IInv
BY InitInv, StepInv, PTL DEF Spec

(* No interleaving of loads, marks, transforms and deaths forgets an issue *)
(* whose analytics rows lag behind its jira_raw rows: it is queued or will *)
(* be, unless its mark was lost, --project left it out or its changelog is *)
(* incomplete.                                                             *)
THEOREM NothingForgotten == Spec => []NoForgottenRebuild
<1>1. IInv => NoForgottenRebuild
  <2> SUFFICES ASSUME IInv, NEW i \in Issue
               PROVE  /\ ColumnsStale(i) =>
                           Pending(i) \/ Lost("issues", i, AnyWhy) \/ i \in dropped
                      /\ IntervalsStale(i) =>
                           \/ Pending(i) \/ \E res \in Resource : Lost(res, i, AnyWhy)
                           \/ i \in dropped \/ ~Complete(i)
    BY DEF NoForgottenRebuild
  <2>1. \A res \in Resource : Owes(res, i) => Pending(i) \/ Lost(res, i, AnyWhy)
    BY DEF Owes, Pending, Waiting, WaitingFor
  <2>2. "issues" \in Resource /\ "issue_changelog" \in Resource
    BY DEF Resource
  <2>3. ColumnsStale(i) => i \in dirty \/ i \in dropped \/ Owes("issues", i)
    BY DEF IInv, AccountedInv, ColumnsOK, ColumnsStale
  <2>4. IntervalsStale(i) => \/ i \in dirty \/ i \in dropped \/ ~Complete(i)
                             \/ Owes("issues", i) \/ Owes("issue_changelog", i)
    BY DEF IInv, AccountedInv, IntervalsOK, IntervalsStale
  <2>5. i \in dirty => Pending(i)
    BY DEF Pending
  <2> QED BY <2>1, <2>2, <2>3, <2>4, <2>5
<1> QED BY <1>1, Inductive, PTL

(* A changelog recorded as complete is whole up to its recorded version,   *)
(* once no package of the issue is half merged.                            *)
THEOREM CompleteIsWhole == Spec => []CompleteMeansWhole
<1>1. IInv => CompleteMeansWhole
  BY DEF IInv, WholeInv, CompleteMeansWhole, Waiting, WaitingFor
<1> QED BY <1>1, Inductive, PTL

(* A settled issue's intervals come from its current row and from a        *)
(* history at least as new.                                                *)
THEOREM SettledIsWhole == Spec => []SettledIntervalsAreWhole
<1>1. TypeOK /\ NoForgottenRebuild /\ CompleteMeansWhole => SettledIntervalsAreWhole
  <2> SUFFICES ASSUME TypeOK, NoForgottenRebuild, CompleteMeansWhole,
                      NEW i \in Issue, Settled(i)
               PROVE  /\ intervals[i].changelog >= intervals[i].issue
                      /\ intervals[i].issue = issues[i].version
                      /\ columns[i] = issues[i].version
    BY DEF SettledIntervalsAreWhole
  <2>1. ~Pending(i) /\ Complete(i) /\ i \notin dropped
        /\ \A res \in Resource : ~Lost(res, i, AnyWhy)
    BY DEF Settled
  <2>2. ~ColumnsStale(i) /\ ~IntervalsStale(i)
    BY <2>1 DEF NoForgottenRebuild, Resource
  <2>3. ~Waiting(i)
    BY <2>1 DEF Pending
  <2>4. changelog[i] >= status[i].version /\ status[i].version >= issues[i].version
    BY <2>1, <2>3 DEF CompleteMeansWhole, Complete
  <2>5. changelog[i] \in Nat /\ status[i].version \in Nat /\ issues[i].version \in Nat
    BY DEF TypeOK, StatusRow, RawRow
  <2> QED BY <2>2, <2>4, <2>5 DEF ColumnsStale, IntervalsStale
<1> QED BY <1>1, TypeCorrect, NothingForgotten, CompleteIsWhole, PTL

(* No transform replaces intervals by ones built from less history.        *)
THEOREM HistoryKept == Spec => HistoryNeverShrinks
<1>1. IInv /\ [Next]_vars
      => [\A i \in Issue : intervals'[i].changelog >= intervals[i].changelog]_vars
  <2> SUFFICES ASSUME IInv, [Next]_vars, NEW i \in Issue
               PROVE  intervals'[i].changelog >= intervals[i].changelog
    OBVIOUS
  <2>0. intervals[i].changelog \in Nat
    BY DEF IInv, TypeOK, Built
  <2>1. CASE intervals' = intervals
    BY <2>0, <2>1
  <2>2. CASE Commit
    BY <2>0, <2>2 DEF Commit, IInv, TypeOK, Built, BehindInv
  <2> QED
    BY <2>1, <2>2, Sides DEF TransformAction, ClaimDirty, RebuildAll, Partition,
       RebuildIntervals, RebuildColumns, Rollback, analytic
<1> QED BY <1>1, Inductive, PTL DEF Spec, HistoryNeverShrinks

-----------------------------------------------------------------------------
(* The two claims that the code does not keep, under the one condition     *)
(* each of them needs.                                                     *)

NoneKilled == \A m \in unmarked : m.why # "killed"

NoneDropped == dropped = {} /\ tx.claimed \subseteq tx.ids

LEMMA NoneKilledStep ==
  ASSUME NoneKilled, [Next]_vars, [\A p \in Pipeline : ~Kill(p)]_vars
  PROVE  NoneKilled'
<1>1. CASE UNCHANGED unmarked
  BY <1>1 DEF NoneKilled
<1>2. ASSUME NEW p \in Pipeline, MarkFails(p) \/ MarkUnavailable(p) PROVE NoneKilled'
  <2>1. \E why \in {"DirtyMarkError", "issue_dirty_unavailable"} : Unmark(p, why)
    BY <1>2 DEF MarkFails, MarkUnavailable
  <2> QED BY <2>1 DEF Unmark, NoneKilled
<1>3. CASE UNCHANGED vars
  BY <1>1, <1>3 DEF vars, history
<1>4. CASE Next /\ \A p \in Pipeline : ~Kill(p)
  BY <1>1, <1>2, <1>4, NextCases
     DEF Update, Migrate, Extract, TakeLoadLock, MergeTable, CompletePackage, FinishLoad, MarkDirty,
         ClaimDirty, RebuildAll, Partition, RebuildIntervals, RebuildColumns, Commit, Rollback, history
<1> QED BY <1>3, <1>4

(* "a failure fails the command": unless an extract process is killed,     *)
(* every loaded issue that no transform will rebuild was reported, whatever *)
(* else fails.                                                             *)
THEOREM LossIsReported ==
  Spec /\ [][\A p \in Pipeline : ~Kill(p)]_vars => []OnlyReportedLoss
<1>1. Init => NoneKilled
  BY DEF Init, NoneKilled
<1>2. NoForgottenRebuild /\ NoneKilled => OnlyReportedLoss
  <2> SUFFICES ASSUME NoForgottenRebuild, NoneKilled, NEW i \in Issue, ColumnsStale(i)
               PROVE  \/ Pending(i) \/ i \in dropped
                      \/ Lost("issues", i, {"DirtyMarkError", "issue_dirty_unavailable"})
    BY DEF OnlyReportedLoss
  <2>1. Pending(i) \/ Lost("issues", i, AnyWhy) \/ i \in dropped
    BY DEF NoForgottenRebuild
  <2>2. ASSUME Lost("issues", i, AnyWhy)
        PROVE  Lost("issues", i, {"DirtyMarkError", "issue_dirty_unavailable"})
    BY <2>2 DEF Lost, AnyWhy, NoneKilled
  <2> QED BY <2>1, <2>2
<1>3. NoneKilled /\ [Next]_vars /\ [\A p \in Pipeline : ~Kill(p)]_vars => NoneKilled'
  BY NoneKilledStep
<1> QED BY <1>1, <1>2, <1>3, NothingForgotten, PTL DEF Spec

LEMMA NoneDroppedStep ==
  ASSUME IInv, NoneDropped, [Next]_vars, [\A scope \in Scopes \ {NoProject} : ~ClaimDirty(scope)]_vars
  PROVE  NoneDropped'
<1>0. tx.step = "idle" => tx.claimed = {}
  BY DEF IInv, TxInv
<1>t. tx \in [step : {"idle", "scoped", "partitioned", "intervals", "columns"},
              claimed : SUBSET Issue, candidates : SUBSET Issue, ids : SUBSET Issue,
              complete : SUBSET Issue, intervals : [Issue -> Built], columns : [Issue -> Nat]]
  BY DEF IInv, TypeOK
<1>1. CASE UNCHANGED <<dropped, tx>>
  BY <1>1 DEF NoneDropped
<1>2. ASSUME NEW p \in Pipeline, MarkDirty(p) PROVE NoneDropped'
  <2>1. dropped' = {} /\ tx' = tx
    BY <1>2 DEF MarkDirty, NoneDropped
  <2> QED BY <2>1 DEF NoneDropped
<1>3. CASE ClaimDirty(NoProject)
  <2>1. tx'.claimed = dirty /\ tx'.ids = dirty /\ dropped' = dropped
    BY <1>3, <1>t DEF ClaimDirty, history
  <2> QED BY <2>1 DEF NoneDropped
<1>4. ASSUME NEW scope \in Scopes, RebuildAll(scope) PROVE NoneDropped'
  <2>1. tx'.claimed = {} /\ dropped' = dropped
    BY <1>0, <1>4, <1>t DEF RebuildAll, history
  <2> QED BY <2>1 DEF NoneDropped
<1>5. CASE Partition \/ RebuildIntervals \/ RebuildColumns
  <2>1. tx'.claimed = tx.claimed /\ tx'.ids = tx.ids /\ dropped' = dropped
    BY <1>5, <1>t DEF Partition, RebuildIntervals, RebuildColumns, history
  <2> QED BY <2>1 DEF NoneDropped
<1>6. CASE Commit \/ Rollback
  <2>1. tx'.claimed = {} /\ dropped' = {}
    BY <1>6 DEF Commit, Rollback, IdleTx, NoneDropped, history
  <2> QED BY <2>1 DEF NoneDropped
<1>7. CASE UNCHANGED vars
  BY <1>1, <1>7 DEF vars, history
<1>8. CASE Next /\ \A scope \in Scopes \ {NoProject} : ~ClaimDirty(scope)
  BY <1>1, <1>2, <1>3, <1>4, <1>5, <1>6, <1>8, NextCases
     DEF Update, Migrate, Extract, TakeLoadLock, MergeTable, CompletePackage, FinishLoad, MarkFails,
         MarkUnavailable, Kill, history
<1> QED BY <1>7, <1>8

(* "rebuilds exactly the issues queued here": without an incremental       *)
(* `transform --project`, every claimed issue is rebuilt or stays queued.  *)
THEOREM QueueIsRebuilt ==
  Spec /\ [][\A scope \in Scopes \ {NoProject} : ~ClaimDirty(scope)]_vars => []QueuedIsRebuilt
<1>1. Init => NoneDropped
  BY DEF Init, IdleTx, NoneDropped
<1>2. NoForgottenRebuild /\ NoneDropped => QueuedIsRebuilt
  BY DEF NoForgottenRebuild, NoneDropped, QueuedIsRebuilt
<1>3. IInv /\ NoneDropped /\ [Next]_vars /\ [\A scope \in Scopes \ {NoProject} : ~ClaimDirty(scope)]_vars
      => NoneDropped'
  BY NoneDroppedStep
<1> QED BY <1>1, <1>2, <1>3, Inductive, NothingForgotten, PTL DEF Spec
-----------------------------------------------------------------------------
(* Loads implement Feed.                                                   *)

RowVersion(res, i) == IF res = "issues" THEN issues[i].version ELSE status[i].version

(* From a row over the packages, oldest first, to Jira versions only grow. *)
FeedInv ==
  /\ \A res \in Resource, i \in Issue : RowVersion(res, i) <= jira[i]
  /\ \A p \in Pipeline : \A g \in packages[p] : \A i \in InPackage(g) :
       /\ RowVersion(g.res, i) <= g.rows[i].version
       /\ g.rows[i].version <= jira[i]
       /\ \A h \in packages[p] : h.res = g.res /\ i \in InPackage(h) /\ g.id <= h.id
                                 => g.rows[i].version <= h.rows[i].version

LEMMA FeedNumbers ==
  ASSUME TypeOK
  PROVE  /\ \A i \in Issue : jira[i] \in Nat
         /\ \A res \in Resource, i \in Issue : RowVersion(res, i) \in Nat
         /\ \A p \in Pipeline : \A g \in packages[p] :
              /\ g.id \in Nat /\ g.res \in Resource
              /\ \A i \in Issue : g.rows[i].version \in Nat
<1>1. \A p \in Pipeline : \A g \in packages[p] : g \in Package
  BY DEF TypeOK
<1> QED BY <1>1 DEF TypeOK, RawRow, StatusRow, RowVersion, Package

LEMMA JiraGrows ==
  ASSUME TypeOK, [Next]_vars
  PROVE  \A i \in Issue : jira'[i] \in Nat /\ jira[i] <= jira'[i]
<1>0. jira \in [Issue -> Nat]
  BY DEF TypeOK
<1>1. CASE jira' = jira
  BY <1>0, <1>1
<1>2. CASE \E i \in Issue : Update(i)
  BY <1>0, <1>2 DEF Update
<1>3. CASE UNCHANGED vars
  BY <1>1, <1>3 DEF vars
<1>4. CASE Next
  BY <1>1, <1>2, <1>4, NextCases
     DEF Migrate, Extract, TakeLoadLock, MergeTable, CompletePackage, FinishLoad, MarkDirty,
         MarkFails, MarkUnavailable, Kill, ClaimDirty, RebuildAll, Partition, RebuildIntervals,
         RebuildColumns, Commit, Rollback
<1> QED BY <1>3, <1>4

(* No new package, and rows that change come from the oldest of them.      *)
LEMMA FeedKept ==
  ASSUME TypeOK, PackagesInv, FeedInv, [Next]_vars,
         \A p \in Pipeline : \A x \in packages'[p] : \E g \in packages[p] :
           x.id = g.id /\ x.res = g.res /\ x.rows = g.rows,
         \A res \in Resource, i \in Issue :
           \/ RowVersion(res, i)' = RowVersion(res, i)
           \/ \E p \in Pipeline : \E g \in packages[p] :
                /\ i \in InPackage(g) /\ g.res = res /\ RowVersion(res, i)' = g.rows[i].version
                /\ \A y \in packages[p] : g.id <= y.id
  PROVE  FeedInv'
<1>1. ASSUME NEW res \in Resource, NEW i \in Issue PROVE RowVersion(res, i)' <= jira'[i]
  <2>1. jira[i] \in Nat /\ jira'[i] \in Nat /\ jira[i] <= jira'[i]
    BY JiraGrows, FeedNumbers
  <2>2. CASE RowVersion(res, i)' = RowVersion(res, i)
    BY <2>1, <2>2, FeedNumbers DEF FeedInv
  <2>3. ASSUME NEW p \in Pipeline, NEW g \in packages[p], i \in InPackage(g),
               RowVersion(res, i)' = g.rows[i].version
        PROVE  RowVersion(res, i)' <= jira'[i]
    <3>1. g.rows[i].version \in Nat /\ g.rows[i].version <= jira[i]
      BY <2>3, FeedNumbers DEF FeedInv
    <3> QED BY <2>1, <2>3, <3>1
  <2> QED BY <2>2, <2>3
<1>2. ASSUME NEW p \in Pipeline, NEW x \in packages'[p], NEW i \in InPackage(x)
      PROVE  /\ RowVersion(x.res, i)' <= x.rows[i].version
             /\ x.rows[i].version <= jira'[i]
             /\ \A y \in packages'[p] : y.res = x.res /\ i \in InPackage(y) /\ x.id <= y.id
                                        => x.rows[i].version <= y.rows[i].version
  <2>1. PICK g \in packages[p] : x.id = g.id /\ x.res = g.res /\ x.rows = g.rows
    OBVIOUS
  <2>2. i \in Issue /\ i \in InPackage(g) /\ PipelineOf[i] = p
    BY <2>1 DEF InPackage, PackagesInv
  <2>3. g.rows[i].version \in Nat /\ g.res \in Resource /\ g.id \in Nat
    BY <2>2, FeedNumbers
  <2>4. x.rows[i].version <= jira'[i]
    <3>1. g.rows[i].version <= jira[i]
      BY <2>2 DEF FeedInv
    <3>2. jira[i] \in Nat /\ jira'[i] \in Nat /\ jira[i] <= jira'[i]
      BY <2>2, JiraGrows, FeedNumbers
    <3> QED BY <2>1, <2>3, <3>1, <3>2
  <2>5. ASSUME NEW y \in packages'[p], y.res = x.res, i \in InPackage(y), x.id <= y.id
        PROVE  x.rows[i].version <= y.rows[i].version
    <3>1. PICK h \in packages[p] : y.id = h.id /\ y.res = h.res /\ y.rows = h.rows
      OBVIOUS
    <3>2. i \in InPackage(h) /\ h.res = g.res /\ g.id <= h.id
      BY <2>1, <2>5, <3>1 DEF InPackage
    <3> QED BY <2>1, <2>2, <3>1, <3>2 DEF FeedInv
  <2>6. RowVersion(x.res, i)' <= x.rows[i].version
    <3>1. CASE RowVersion(g.res, i)' = RowVersion(g.res, i)
      <4>1. RowVersion(g.res, i) <= g.rows[i].version
        BY <2>2 DEF FeedInv
      <4> QED BY <2>1, <3>1, <4>1
    <3>2. ASSUME NEW q \in Pipeline, NEW h \in packages[q], i \in InPackage(h), h.res = g.res,
                 RowVersion(g.res, i)' = h.rows[i].version, \A y \in packages[q] : h.id <= y.id
          PROVE  RowVersion(g.res, i)' <= g.rows[i].version
      <4>1. q = p
        BY <2>2, <3>2 DEF PackagesInv
      <4>2. h.id <= g.id
        BY <3>2, <4>1
      <4> QED BY <2>2, <3>2, <4>1, <4>2 DEF FeedInv
    <3>3. RowVersion(g.res, i)' <= g.rows[i].version
      BY <2>2, <2>3, <3>1, <3>2, <2>1
    <3> QED BY <2>1, <3>3
  <2> QED BY <2>4, <2>5, <2>6
<1> QED BY <1>1, <1>2 DEF FeedInv

LEMMA InitFeed == Init => FeedInv
BY DEF Init, FeedInv, RowVersion

(* A merge brings the rows of the oldest package.                          *)
LEMMA MergeFeed ==
  ASSUME TypeOK, PackagesInv, NEW p \in Pipeline, NEW g \in packages[p],
         NEW t \in TablesOf(g.res), MergeTable(p, g, t)
  PROVE  /\ \A q \in Pipeline : \A x \in packages'[q] : \E y \in packages[q] :
              x.id = y.id /\ x.res = y.res /\ x.rows = y.rows
         /\ \A y \in packages[p] : g.id <= y.id
         /\ g.res \in Resource
         /\ \A res \in Resource, i \in Issue :
              \/ RowVersion(res, i)' = RowVersion(res, i)
              \/ i \in InPackage(g) /\ g.res = res /\ RowVersion(res, i)' = g.rows[i].version
<1>1. \A q \in Pipeline : \A x \in packages'[q] : \E y \in packages[q] :
        x.id = y.id /\ x.res = y.res /\ x.rows = y.rows
  BY MergePackages
<1>2. \A y \in packages[p] : g.id <= y.id
  BY DEF MergeTable, IsNext
<1>3. g.res \in Resource
  BY DEF TypeOK, Package
<1>4. ASSUME NEW res \in Resource, NEW i \in Issue
      PROVE  \/ RowVersion(res, i)' = RowVersion(res, i)
             \/ i \in InPackage(g) /\ g.res = res /\ RowVersion(res, i)' = g.rows[i].version
  <2>1. (t = "issues" => g.res = "issues") /\ (t = "issue_changelog_status" => g.res = "issue_changelog")
    BY <1>3 DEF TablesOf, Resource
  <2>2. res = "issues" \/ res = "issue_changelog"
    BY DEF Resource
  <2> QED BY <2>1, <2>2, MergeRows DEF RowVersion
<1> QED BY <1>1, <1>2, <1>3, <1>4

LEMMA FeedStep ==
  ASSUME TypeOK, PackagesInv, FeedInv, [Next]_vars
  PROVE  FeedInv'
<1>0. packages \in [Pipeline -> SUBSET Package]
  BY DEF TypeOK
<1> DEFINE Same(x, y) == x.id = y.id /\ x.res = y.res /\ x.rows = y.rows
<1>1. CASE UNCHANGED <<issues, changelog, status, packages, nextLoad>>
  <2>1. \A res \in Resource, i \in Issue : RowVersion(res, i)' = RowVersion(res, i)
    BY <1>1 DEF RowVersion
  <2>2. \A p \in Pipeline : \A x \in packages'[p] : \E y \in packages[p] : Same(x, y)
    BY <1>1
  <2> QED BY <2>1, <2>2, FeedKept
<1>2. ASSUME NEW p \in Pipeline, NEW res \in Resource, Extract(p, res) PROVE FeedInv'
  <2>0. \A r \in Resource, i \in Issue : RowVersion(r, i)' = RowVersion(r, i)
    BY <1>2 DEF Extract, raw, RowVersion
  <2>1. CASE UNCHANGED <<packages, nextLoad>>
    <3>1. \A q \in Pipeline : \A x \in packages'[q] : \E y \in packages[q] : Same(x, y)
      BY <2>1
    <3> QED BY <2>0, <3>1, FeedKept
  <2>2. ASSUME NEW g \in Package, g.id = nextLoad,
               \A i \in InPackage(g) : PipelineOf[i] = p /\ g.rows[i].version = jira[i],
               packages' = [packages EXCEPT ![p] = @ \cup {g}]
        PROVE  FeedInv'
    <3>1. \A q \in Pipeline : \A x \in packages'[q] : x \in packages[q] \/ (q = p /\ x = g)
      BY <1>0, <2>2
    <3>2. jira' = jira
      BY <1>2 DEF Extract
    <3>3. \A q \in Pipeline : \A x \in packages[q] : x.id \in Nat /\ x.id < nextLoad
      BY FeedNumbers DEF PackagesInv
    <3>4. nextLoad \in Nat /\ g.res \in Resource /\ \A i \in Issue : jira[i] \in Nat
      BY FeedNumbers DEF TypeOK, Package
    <3>5. ASSUME NEW q \in Pipeline, NEW x \in packages'[q], NEW i \in InPackage(x)
          PROVE  /\ RowVersion(x.res, i)' <= x.rows[i].version
                 /\ x.rows[i].version <= jira'[i]
                 /\ \A y \in packages'[q] : y.res = x.res /\ i \in InPackage(y) /\ x.id <= y.id
                                            => x.rows[i].version <= y.rows[i].version
      <4>1. i \in Issue
        BY DEF InPackage
      <4>2. CASE q = p /\ x = g
        <5>1. x.rows[i].version = jira[i] /\ RowVersion(x.res, i)' <= jira[i]
          BY <2>0, <2>2, <3>4, <4>1, <4>2 DEF FeedInv
        <5>2. \A y \in packages'[q] : x.id <= y.id => y = g
          BY <2>2, <3>1, <3>3, <3>4, <4>2
        <5> QED BY <3>2, <3>4, <4>1, <4>2, <5>1, <5>2
      <4>3. CASE x \in packages[q]
        <5>1. /\ RowVersion(x.res, i) <= x.rows[i].version
              /\ x.rows[i].version <= jira[i]
              /\ \A y \in packages[q] : y.res = x.res /\ i \in InPackage(y) /\ x.id <= y.id
                                         => x.rows[i].version <= y.rows[i].version
          BY <4>3 DEF FeedInv
        <5>2. x.res \in Resource
          BY <4>3, FeedNumbers
        <5>3. i \in InPackage(g) => x.rows[i].version <= g.rows[i].version
          BY <2>2, <5>1
        <5> QED BY <2>0, <3>1, <3>2, <4>1, <5>1, <5>2, <5>3
      <4> QED BY <3>1, <4>2, <4>3
    <3>6. \A r \in Resource, i \in Issue : RowVersion(r, i)' <= jira'[i]
      BY <2>0, <3>2 DEF FeedInv
    <3> QED BY <3>5, <3>6 DEF FeedInv
  <2> QED BY <1>2, <2>1, <2>2, ExtractPackages
<1>3. ASSUME NEW p \in Pipeline, NEW g \in packages[p], NEW t \in TablesOf(g.res),
             MergeTable(p, g, t)
      PROVE  FeedInv'
  <2>1. \A q \in Pipeline : \A x \in packages'[q] : \E y \in packages[q] : Same(x, y)
    BY <1>3, MergeFeed
  <2>2. \A res \in Resource, i \in Issue :
           \/ RowVersion(res, i)' = RowVersion(res, i)
           \/ \E q \in Pipeline : \E x \in packages[q] :
                /\ i \in InPackage(x) /\ x.res = res /\ RowVersion(res, i)' = x.rows[i].version
                /\ \A y \in packages[q] : x.id <= y.id
    BY <1>3, MergeFeed
  <2> QED BY <2>1, <2>2, FeedKept
<1>4. ASSUME NEW p \in Pipeline, NEW g \in packages[p], CompletePackage(p, g) PROVE FeedInv'
  <2>1. \A res \in Resource, i \in Issue : RowVersion(res, i)' = RowVersion(res, i)
    BY <1>4 DEF CompletePackage, raw, RowVersion
  <2>2. \A q \in Pipeline : packages'[q] \subseteq packages[q]
    BY <1>0, <1>4 DEF CompletePackage
  <2>3. \A q \in Pipeline : \A x \in packages'[q] : \E y \in packages[q] : Same(x, y)
    BY <2>2
  <2> QED BY <2>1, <2>3, FeedKept
<1>5. ASSUME NEW p \in Pipeline, Kill(p) PROVE FeedInv'
  <2>1. \A res \in Resource, i \in Issue : RowVersion(res, i)' = RowVersion(res, i)
    BY <1>5, KillPackages DEF RowVersion
  <2>2. \A q \in Pipeline : \A x \in packages'[q] : \E y \in packages[q] :
          x = y \/ x = [y EXCEPT !.merged = {}]
    BY <1>5, KillPackages
  <2>3. ASSUME NEW q \in Pipeline, NEW x \in packages'[q]
        PROVE  \E y \in packages[q] : Same(x, y)
    <3>1. PICK y \in packages[q] : x = y \/ x = [y EXCEPT !.merged = {}]
      BY <2>2
    <3>2. y \in Package
      BY <1>0
    <3>3. CASE x = [y EXCEPT !.merged = {}]
      <4>1. x.id = y.id /\ x.res = y.res /\ x.rows = y.rows
        BY <3>2, <3>3 DEF Package
      <4> QED BY <4>1
    <3> QED BY <3>1, <3>3
  <2> QED BY <2>1, <2>3, FeedKept
<1> QED BY <1>1, <1>2, <1>3, <1>4, <1>5, Frame

LEMMA UpdateEdits ==
  ASSUME TypeOK, NEW i \in Issue, Update(i)
  PROVE  Loads!Edit(i)
<1>1. /\ jira \in [Issue -> Nat] /\ jira' \in [Issue -> Nat]
      /\ jira'[i] = jira[i] + 1
      /\ \A j \in Issue \ {i} : jira'[j] = jira[j]
  BY DEF Update, TypeOK
<1>2. jira[i] < jira'[i]
  BY <1>1
<1>3. \A res \in Resource, p \in Pipeline : ~Loads!Passed(jira'[i], 0)
  BY <1>1 DEF Loads!Passed
<1>4. UNCHANGED <<issues, status>>
  BY DEF Update, raw
<1> QED BY <1>1, <1>2, <1>3, <1>4 DEF Loads!Edit

LEMMA MergeDelivers ==
  ASSUME TypeOK, TypeOK', PackagesInv, FeedInv, NEW p \in Pipeline, NEW g \in packages[p],
         NEW t \in TablesOf(g.res), MergeTable(p, g, t)
  PROVE  Loads!Deliver(p, g.res)
<1> DEFINE copy == [res \in Resource |->
             [i \in Issue |-> IF res = "issues" THEN issues[i].version ELSE status[i].version]]
<1>1. g.res \in Resource /\ jira' = jira
  BY MergeFeed DEF MergeTable
<1>2. /\ \A res \in Resource, i \in Issue : copy[res][i] = RowVersion(res, i)
      /\ \A res \in Resource, i \in Issue : copy'[res][i] = RowVersion(res, i)'
  BY DEF RowVersion
<1>3. copy' \in [Resource -> [Issue -> Nat]]
  BY DEF TypeOK, RawRow, StatusRow
<1>4. \A i \in Issue : RowVersion(g.res, i) \in Nat /\ g.rows[i].version \in Nat /\ jira[i] \in Nat
  BY <1>1, FeedNumbers
<1>5. ASSUME NEW i \in Issue
      PROVE  RowVersion(g.res, i) <= RowVersion(g.res, i)' /\ RowVersion(g.res, i)' <= jira[i]
  <2>1. CASE RowVersion(g.res, i)' = RowVersion(g.res, i)
    BY <1>1, <1>4, <2>1 DEF FeedInv
  <2>2. CASE i \in InPackage(g) /\ RowVersion(g.res, i)' = g.rows[i].version
    BY <1>4, <2>2 DEF FeedInv
  <2> QED BY <1>1, <2>1, <2>2, MergeFeed
<1>6. ASSUME NEW i \in Issue, PipelineOf[i] # p
      PROVE  RowVersion(g.res, i)' = RowVersion(g.res, i)
  <2>1. i \notin InPackage(g)
    BY <1>6 DEF PackagesInv
  <2> QED BY <1>1, <2>1, MergeFeed
<1>7. ASSUME NEW res \in Resource \ {g.res} PROVE copy'[res] = copy[res]
  <2>1. \A i \in Issue : RowVersion(res, i)' = RowVersion(res, i)
    BY MergeFeed
  <2> QED BY <2>1 DEF RowVersion
<1>8. \A res \in Resource, i \in Issue : ~Loads!Passed(jira[i], 0)
  BY FeedNumbers DEF Loads!Passed
<1> QED BY <1>1, <1>2, <1>3, <1>5, <1>6, <1>7, <1>8 DEF Loads!Deliver

(* Merges table by table, repeated after a death and interleaved with      *)
(* other pipelines' loads, are deliveries of Feed: no row is replaced by   *)
(* an older one, and a pipeline touches its own issues only.               *)
THEOREM LoadsImplementFeed == Spec => LoadsDeliver
<1>1. Init => Loads!Init
  BY DEF Init, Loads!Init
<1>2. TypeOK /\ TypeOK' /\ PackagesInv /\ FeedInv /\ [Next]_vars => [Loads!Next]_(Loads!vars)
  <2> SUFFICES ASSUME TypeOK, TypeOK', PackagesInv, FeedInv, [Next]_vars,
                      ~UNCHANGED <<jira, issues, status>>
               PROVE  Loads!Next
    BY DEF Loads!vars
  <2>1. CASE \E i \in Issue : Update(i)
    BY <2>1, UpdateEdits DEF Loads!Next
  <2>2. CASE \E p \in Pipeline : \E g \in packages[p] : \E t \in TablesOf(g.res) : MergeTable(p, g, t)
    <3>1. PICK p \in Pipeline : \E g \in packages[p] : \E t \in TablesOf(g.res) : MergeTable(p, g, t)
      BY <2>2
    <3>2. PICK g \in packages[p] : \E t \in TablesOf(g.res) : MergeTable(p, g, t)
      BY <3>1
    <3>3. PICK t \in TablesOf(g.res) : MergeTable(p, g, t)
      BY <3>2
    <3>4. Loads!Deliver(p, g.res) /\ g.res \in Resource
      BY <3>3, MergeDelivers, MergeFeed
    <3> QED BY <3>4 DEF Loads!Next
  <2>3. CASE UNCHANGED vars
    BY <2>3 DEF vars, raw
  <2>4. CASE Next
    BY <2>1, <2>2, <2>4, NextCases
       DEF Migrate, Extract, TakeLoadLock, CompletePackage, FinishLoad, MarkDirty, MarkFails,
           MarkUnavailable, Kill, ClaimDirty, RebuildAll, Partition, RebuildIntervals,
           RebuildColumns, Commit, Rollback, raw
  <2> QED BY <2>3, <2>4
<1>3. IInv => TypeOK /\ PackagesInv
  BY DEF IInv
<1>4. Spec => []FeedInv
  <2>1. IInv /\ FeedInv /\ [Next]_vars => FeedInv'
    BY <1>3, FeedStep
  <2> QED BY <2>1, InitFeed, Inductive, PTL DEF Spec
<1> QED BY <1>1, <1>2, <1>3, <1>4, Inductive, PTL DEF Spec, LoadsDeliver, Loads!Spec
=============================================================================
