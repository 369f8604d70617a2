--------------------------- MODULE RoomLifecycleMC ---------------------------
(****************************************************************************)
(* A place's slots: s0, which the boot has claimed, and perhaps s1.         *)
(****************************************************************************)
EXTENDS RoomLifecycle

CONSTANTS s0, s1

\* One slot with two failures and two starts in its queue, or two slots with one of each.
OneOrTwoSlots ==
  {[slots |-> {s0}, starts |-> 2, faults |-> 2],
   [slots |-> {s0, s1}, starts |-> 1, faults |-> 1]}

\* Two starts in the queue, and nothing fails.
NothingFails == {[slots |-> {s0, s1}, starts |-> 2, faults |-> 0]}
================================================================================
