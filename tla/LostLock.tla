------------------------------ MODULE LostLock ------------------------------
(***************************************************************************)
(* FieldRebuild, when the transform lock is lost.                          *)
(*                                                                         *)
(* The lock sits on a connection of its own, idle while its holder works.  *)
(* When it drops, the holder does not notice: it works on, next to whoever *)
(* takes the lock then.  Two history variables tell the work of such a     *)
(* transform apart; they add to FieldRebuild and change nothing of it.     *)
(***************************************************************************)
EXTENDS FieldRebuild

VARIABLES
  lockless,  \* history: the transforms that lost their lock and work on
  strayed    \* history: the time of the last step of one of them, 0 if none

lostVars == <<vars, lockless, strayed>>

LostInit == Init /\ lockless = {} /\ strayed = 0

(* The lock is lost at its holder, and what is left of it ends with the    *)
(* transform.                                                              *)
Note ==
  /\ lockless' = {w \in lockless \cup (IF drops' # drops THEN {lock} ELSE {}) :
                    worker'[w].step # "idle"}
  /\ strayed' = IF \E w \in lockless : worker'[w] # worker[w] /\ worker'[w].step # "idle"
                THEN clock ELSE strayed

LoseLock == DropLock /\ Note

LostNext == (CommandStep /\ Note) \/ LoseLock

LostSpec == LostInit /\ [][LostNext]_lostVars /\ Fairness

-----------------------------------------------------------------------------
=============================================================================
