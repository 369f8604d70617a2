------------------------- MODULE CharacterSessionsMC -------------------------
(****************************************************************************)
(* One character with two deeds, up to three connections, one or two places. *)
(****************************************************************************)
EXTENDS CharacterSessions

CONSTANTS c1, c2, c3, d1, d2, p1, p2
================================================================================
