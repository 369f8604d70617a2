------------------------------ MODULE FencedStore ------------------------------
(****************************************************************************)
(* What the instance registry promises to the rows of one room slot: the    *)
(* slot passes through numbered ownerships, and every transaction that      *)
(* commits game state is made by the ownership in force when it commits.    *)
(****************************************************************************)
EXTENDS Integers

VARIABLES
  epoch,    \* how many times the slot has been claimed
  commits   \* who committed, and who owned the slot at that moment

storeVars == <<epoch, commits>>

\* Nobody owns the slot and nothing is written.
StoreInit == epoch = 0 /\ commits = {}

\* A new owner replaces the last one.
Advance == epoch' = epoch + 1 /\ UNCHANGED commits

\* The owner in force commits.
OwnerCommits ==
  /\ commits' = commits \cup {[writer |-> epoch, owner |-> epoch]}
  /\ UNCHANGED epoch

StoreNext == Advance \/ OwnerCommits

StoreSpec == StoreInit /\ [][StoreNext]_storeVars
================================================================================
