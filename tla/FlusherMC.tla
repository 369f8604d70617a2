------------------------------- MODULE FlusherMC -------------------------------
(****************************************************************************)
(* A room with two world rows and one character with one deed.             *)
(****************************************************************************)
EXTENDS Flusher

CONSTANTS r1, r2, c1, d1
================================================================================
