------------------------------- MODULE PlatformMC -------------------------------
(* What the server shares with the platform's services, one part at a time: *)
(* part says which of them the behaviour is about, and the others rest.     *)
EXTENDS PlaySync, InventoryRewards, TLC

CONSTANTS guest, person, other, unlock

VARIABLE part

\* One round of two guests.
MCPlayers == 1 :> {1, 2}

vars == <<part, playVars, rewardVars>>

Init ==
  /\ part \in {"play", "rewards"}
  /\ PlaySyncInit /\ RewardsInit

Plays(A) == part = "play" /\ A /\ UNCHANGED <<part, rewardVars>>
Rewards(A) == part = "rewards" /\ A /\ UNCHANGED <<part, playVars>>

Next ==
  \/ part = "play" /\ PlaySyncNext /\ UNCHANGED <<part, rewardVars>>
  \/ part = "rewards" /\ RewardsNext /\ UNCHANGED <<part, playVars>>

Spec == Init /\ [][Next]_vars

\* The timers run, the writes and the calls end, and Play and the database answer in the end
\* (the grants that fail are bounded).
FairSpec ==
  /\ Spec
  /\ WF_vars(Plays(FlushTimer)) /\ SF_vars(Plays(CommitRound)) /\ SF_vars(Plays(CommitUnlock))
  /\ WF_vars(Plays(StartPass)) /\ WF_vars(Plays(Passing)) /\ SF_vars(Plays(PostAccepted))
  /\ WF_vars(Rewards(RetryPending)) /\ \A w \in Settler : WF_vars(Rewards(Settling(w)))
  /\ \A k \in Key : WF_vars(Rewards(BackoffEnds(k)))

\* Each part's variables stay in their domains.
PlatformTypeOK == PlaySyncTypeOK /\ RewardsTypeOK
=================================================================================
