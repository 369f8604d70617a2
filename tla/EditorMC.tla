-------------------------------- MODULE EditorMC --------------------------------
(* The three parts of the map editor, one at a time: part says which of     *)
(* them the behaviour is about, and the other two rest.                     *)
EXTENDS EditorLocks, EditorHistory, EditorSaves, TLC

CONSTANTS e1, e2, a, b, t1, t2, v1, v2, alice, bert

VARIABLE part

MCFirstPeer == e1 :> 1 @@ e2 :> 2
MCGestures == e1 :> 2 @@ e2 :> 1
MCSelection == {{a}, {a, b}}
\* One editor, which moves its selection on and edits.
MCOneGestures == e1 :> 3 @@ e2 :> 0
MCOneSelection == {{a}, {b}}
MCLoaded == {t1 :> v1 @@ t2 :> None}

vars == <<part, locksVars, historyVars, savesVars>>

Init ==
  /\ part \in {"locks", "history", "saves"}
  /\ LocksInit /\ HistoryInit /\ SavesInit

Next ==
  \/ part = "locks" /\ LocksNext /\ UNCHANGED <<part, historyVars, savesVars>>
  \/ part = "history" /\ HistoryNext /\ UNCHANGED <<part, locksVars, savesVars>>
  \/ part = "saves" /\ SavesNext /\ UNCHANGED <<part, locksVars, historyVars>>

Spec == Init /\ [][Next]_vars

\* Each part's variables stay in their domains (LocksTypeOK, HistoryTypeOK, SavesTypeOK).
EditorTypeOK == LocksTypeOK /\ HistoryTypeOK /\ SavesTypeOK
================================================================================
