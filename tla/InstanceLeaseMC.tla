--------------------------- MODULE InstanceLeaseMC ---------------------------
(****************************************************************************)
(* Three claims of one slot: two by process p1 (a room and its successor),  *)
(* one by process p2. Time is long enough for a boot lease to lapse, be     *)
(* replaced and lapse again.                                                *)
(****************************************************************************)
EXTENDS InstanceLease

CONSTANTS h1, h2, h3, p1, p2

MCProcessOf == [h \in Holder |-> IF h = h2 THEN p2 ELSE p1]

MaxTime == 4
MCTime == 0 .. MaxTime
================================================================================
