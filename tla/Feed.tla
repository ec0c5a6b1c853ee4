-------------------------------- MODULE Feed --------------------------------
(***************************************************************************)
(* What an incremental copy promises.  Issues get new versions at any      *)
(* time; several feeds bring some of them over, each into rows of several  *)
(* resources, and keep a mark for each resource, from where on they will   *)
(* look again.                                                             *)
(*                                                                         *)
(* A delivery is one step: its rows come together with its marks.  It may  *)
(* bring some of the issues, or versions that are no longer the newest,    *)
(* and it may take the marks back; but it puts no older version in the     *)
(* place of a newer one, and its marks pass nothing that is not there.     *)
(***************************************************************************)
EXTENDS Integers

CONSTANTS
  Issue,
  Source,    \* the feeds
  Of,        \* the issues of each
  Resource,  \* what is kept of each issue
  Grace      \* how far before its mark a feed looks again

VARIABLES
  version,  \* the newest version of each issue
  copy,     \* the version of each resource's row, 0 for none
  mark      \* by feed and resource

vars == <<version, copy, mark>>

(* A version that the feed will not look for again.                        *)
Passed(v, m) == v + Grace < m

Init ==
  /\ version \in [Issue -> Nat]
  /\ copy = [r \in Resource |-> [i \in Issue |-> 0]]
  /\ mark = [n \in Source |-> [r \in Resource |-> 0]]

(* A new version is the newest of all: no feed has passed it yet.          *)
Edit(i) ==
  /\ version' \in [Issue -> Nat]
  /\ version[i] < version'[i]
  /\ \A j \in Issue \ {i} : version'[j] = version[j]
  /\ \A n \in Source, r \in Resource : i \in Of[n] => ~Passed(version'[i], mark[n][r])
  /\ UNCHANGED <<copy, mark>>

Deliver(n, r) ==
  /\ copy' \in [Resource -> [Issue -> Nat]]
  /\ \A i \in Of[n] : copy[r][i] <= copy'[r][i] /\ copy'[r][i] <= version[i]
  /\ \A i \in Issue \ Of[n] : copy'[r][i] = copy[r][i]
  /\ \A q \in Resource \ {r} : copy'[q] = copy[q]
  /\ mark' \in [Source -> [Resource -> Nat]]
  /\ \A m \in Source \ {n} : mark'[m] = mark[m]
  /\ \A q \in Resource : \A i \in Of[n] :
       Passed(version[i], mark'[n][q]) => copy'[q][i] = version[i]
  /\ UNCHANGED version

Next ==
  \/ \E i \in Issue : Edit(i)
  \/ \E n \in Source, r \in Resource : Deliver(n, r)

Spec == Init /\ [][Next]_vars
=============================================================================
