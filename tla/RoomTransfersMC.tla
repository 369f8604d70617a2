---------------------------- MODULE RoomTransfersMC ----------------------------
(****************************************************************************)
(* RoomTransfers with model values and a bound on the state space.          *)
(****************************************************************************)
EXTENDS RoomTransfers, TLC

CONSTANTS c1, c2, c3, hero, other

\* c1 and c2 play the same character.
MCCharOf == c1 :> hero @@ c2 :> hero @@ c3 :> other
================================================================================
