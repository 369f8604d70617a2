-------------------------- MODULE RoomLifecycleProofs --------------------------
(****************************************************************************)
(* What RoomLifecycleMC checks for two slots, proved for any number of them *)
(* and for any leases, backoffs, faults and takeovers.                      *)
(****************************************************************************)
EXTENDS RoomLifecycle, FiniteSetTheorems, SequenceTheorems, TLAPS

USE RoomAssumptions

Start == [slot: Slot, for: {"restart", "player"}]
Kinds == {"idle", "renew", "regain", "stop", "stop, then restart"}
Replies == {"none", "held", "lost", "failed"}
Calls == [kind: Kinds, reply: Replies]
Lives == [owner: Owner, left: Nat, stopped: BOOLEAN]

\* The types the argument needs: the backoffs do not matter to it.
HubTypes ==
  /\ running \subseteq Slot /\ recovering \subseteq Slot
  /\ call \in [Slot -> Calls]
  /\ starts \in Seq(Start)
  /\ leaving \in [Slot -> {"no", "renew", "drain", "fenced", "released"}]
  /\ row \in [Slot -> Lives]

\* The running start is for a slot without a room, without a heartbeat under way
\* and without a part in the shutdown.
StartIsAlone ==
  step # "idle" =>
    /\ starts # <<>>
    /\ This \notin running \cup recovering
    /\ call[This].kind \notin {"renew", "regain"}
    /\ leaving[This] = "no"

\* A slot whose statement is on its way keeps its room until the answer, unless the
\* hub is stopping; and only another process can have taken its row.
CallsHaveRooms ==
  \A s \in Slot :
    /\ call[s].kind = "renew" => s \notin recovering /\ (s \in running \/ stopping)
    /\ call[s].kind = "regain" => s \notin running /\ (s \in recovering \/ stopping)
    /\ call[s].kind \in {"renew", "regain"} => row[s].owner \in {"room", "other"}

\* A slot has a part in the shutdown only once it has begun.
LeavingIsStopping == \A s \in Slot : leaving[s] # "no" => stopping

\* The strengthening every step preserves.
IInv ==
  /\ HubTypes
  /\ running \cap recovering = {}
  /\ StartIsAlone /\ CallsHaveRooms /\ LeavingIsStopping
  /\ NeverFencesItself /\ ReleasedAtShutdown

\* The restarts that join the queue are a sequence of starts.
LEMMA Restarts ==
  ASSUME NEW S \in SUBSET Start, IsFiniteSet(S)
  PROVE  SetToSeq(S) \in Seq(Start)
<1>1. Cardinality(S) \in Nat /\ ExistsBijection(1 .. Cardinality(S), S)
  BY FS_CardinalityType
<1>2. PICK g \in [1 .. Cardinality(S) -> S] : IsInjective(g)
  BY <1>1 DEF ExistsBijection, Bijection, Injection
<1>3. SetToSeq(S) \in [1 .. Cardinality(S) -> S]
  BY <1>2 DEF SetToSeq
<1> QED
  BY <1>1, <1>3

\* The rows the statements leave behind.
LEMMA Rows ==
  /\ {Lease("room", LeaseTtl), Lease("start", LeaseTtl), Lease("start", BootTtl),
      Lease("past", BootTtl), Lease("other", LeaseTtl)} \subseteq Lives
  /\ {Released("nobody"), Released("other"), Released("room"), Released("past")} \subseteq Lives
  /\ \A o \in Owner : /\ Lease(o, LeaseTtl).owner = o /\ Lease(o, BootTtl).owner = o
                      /\ Released(o).owner = o /\ Released(o).stopped
  /\ {"nobody", "room", "start", "other", "past"} \subseteq Owner
  BY DEF Lease, Released, Lives, Owner

\* A row that passes to nobody, and a row that has grown older.
LEMMA RowEdits ==
  ASSUME NEW r \in Lives
  PROVE  /\ [r EXCEPT !.owner = "past"] \in Lives
         /\ [r EXCEPT !.owner = "past"].owner = "past"
         /\ [r EXCEPT !.left = Less(r.left)] \in Lives
         /\ [r EXCEPT !.left = Less(r.left)].owner = r.owner
         /\ [r EXCEPT !.left = Less(r.left)].stopped = r.stopped
  BY DEF Lives, Owner, Less

\* What the row of a room that is stopped for good says afterwards.
LEMMA ForgottenRow ==
  ASSUME row \in [Slot -> Lives], NEW s \in Slot
  PROVE  /\ Forgotten(s) \in Lives
         /\ Forgotten(s).owner # "room"
         /\ row[s].owner # "room" => Forgotten(s) = row[s]
  BY RowEdits DEF Forgotten

\* What is left of a heartbeat's call after each of its steps.
LEMMA CallEdits ==
  /\ \A k \in Kinds : /\ Sent(k) \in Calls /\ Sent(k).kind = k /\ Sent(k).reply = "none"
  /\ Idle \in Calls /\ Idle.kind = "idle"
  /\ \A c \in Calls : \A r \in Replies :
       [c EXCEPT !.reply = r] \in Calls /\ [c EXCEPT !.reply = r].kind = c.kind
  /\ {"idle", "renew", "regain", "stop", "stop, then restart"} \subseteq Kinds
  /\ {"none", "held", "lost", "failed"} \subseteq Replies
<1>1. /\ {"idle", "renew", "regain", "stop", "stop, then restart"} \subseteq Kinds
      /\ {"none", "held", "lost", "failed"} \subseteq Replies
  BY DEF Kinds, Replies
<1>2. \A k \in Kinds : /\ Sent(k) \in Calls /\ Sent(k).kind = k /\ Sent(k).reply = "none"
  BY <1>1 DEF Sent, Calls
<1>3. Idle \in Calls /\ Idle.kind = "idle"
  BY <1>1 DEF Idle, Calls
<1>4. \A c \in Calls : \A r \in Replies :
        [c EXCEPT !.reply = r] \in Calls /\ [c EXCEPT !.reply = r].kind = c.kind
  BY <1>1 DEF Calls
<1> QED
  BY <1>1, <1>2, <1>3, <1>4

\* The queue of starts when its first one is over, or a player's joins it.
LEMMA Queue ==
  ASSUME starts \in Seq(Start)
  PROVE  /\ starts # <<>> => /\ This \in Slot /\ Tail(starts) \in Seq(Start)
         /\ \A s \in Slot : Append(starts, [slot |-> s, for |-> "player"]) \in Seq(Start)
<1>1. starts # <<>> => Head(starts) \in Start /\ Tail(starts) \in Seq(Start)
  BY HeadTailProperties
<1>2. \A s \in Slot : Append(starts, [slot |-> s, for |-> "player"]) \in Seq(Start)
  BY AppendProperties DEF Start
<1>3. \A x \in Start : x.slot \in Slot
  BY DEF Start
<1> QED
  BY <1>1, <1>2, <1>3 DEF This

LEMMA InitIInv == Init => IInv
<1> SUFFICES ASSUME Init PROVE IInv
  OBVIOUS
<1>1. row \in [Slot -> Lives] /\ \A s \in Slot : row[s].owner = IF s = Primary THEN "room" ELSE "nobody"
  BY Rows DEF Init
<1>2. HubTypes
  BY <1>1, CallEdits, EmptySeq DEF Init, HubTypes
<1>3. StartIsAlone /\ CallsHaveRooms /\ LeavingIsStopping /\ ReleasedAtShutdown
  BY CallEdits DEF Init, StartIsAlone, CallsHaveRooms, LeavingIsStopping, ReleasedAtShutdown
<1>4. NeverFencesItself /\ running \cap recovering = {}
  BY <1>1 DEF Init, NeverFencesItself
<1> QED
  BY <1>2, <1>3, <1>4 DEF IInv

\* A step keeps the types.
LEMMA TypesStep == IInv /\ [Next]_vars => HubTypes'
<1> SUFFICES ASSUME IInv, [Next]_vars PROVE HubTypes'
  OBVIOUS
<1> USE DEF IInv, HubTypes, hub, beat, starting, ending, bounds
<1>1. ASSUME Tick PROVE HubTypes'
  BY <1>1, Rows, RowEdits DEF Tick
<1>2. ASSUME NEW s \in Slot, OtherClaims(s) PROVE HubTypes'
  BY <1>2, Rows, RowEdits DEF OtherClaims, Claimable
<1>3. ASSUME NEW s \in Slot, OtherLeaves(s) PROVE HubTypes'
  BY <1>3, Rows, RowEdits DEF OtherLeaves, Carries
<1>4. ASSUME HeartbeatBegin PROVE HubTypes'
  BY <1>4, CallEdits, ForgottenRow, Rows DEF HeartbeatBegin, Abandoned
<1>5. ASSUME HeartbeatEnd PROVE HubTypes'
  <2> DEFINE joining == Due \ (running \cup recovering)
             added == {[slot |-> s, for |-> "restart"] : s \in joining}
  <2>1. added \in SUBSET Start
    BY DEF Due, Start
  <2>2. IsFiniteSet(added)
    <3>1. IsFiniteSet(joining)
      BY FS_Subset DEF Due
    <3> DEFINE toStart == [s \in joining |-> [slot |-> s, for |-> "restart"]]
    <3>2. toStart \in Surjection(joining, added)
      BY DEF Surjection
    <3> QED
      BY <3>1, <3>2, FS_Surjection
  <2>3. SetToSeq(added) \in Seq(Start)
    BY <2>1, <2>2, Restarts
  <2> HIDE DEF added
  <2>4. starts \o SetToSeq(added) \in Seq(Start)
    BY <2>3, ConcatProperties
  <2>5. starts' \in Seq(Start)
    BY <1>5, <2>4 DEF HeartbeatEnd, added
  <2> QED
    BY <1>5, <2>5 DEF HeartbeatEnd
<1>6. ASSUME NEW s \in Slot, DbHeartbeat(s) PROVE HubTypes'
  <2>1. PICK reply \in {"held", "lost"} : call' = [call EXCEPT ![s].reply = reply]
    BY <1>6 DEF DbHeartbeat, Answers
  <2>2. call' \in [Slot -> Calls]
    BY <2>1, CallEdits
  <2>3. row' \in [Slot -> Lives]
    BY <1>6, Rows DEF DbHeartbeat
  <2> QED
    BY <1>6, <2>2, <2>3 DEF DbHeartbeat
<1>7. ASSUME NEW s \in Slot, NEW landed \in BOOLEAN, DbHeartbeatFails(s, landed) PROVE HubTypes'
  BY <1>7, CallEdits, ForgottenRow, Rows DEF DbHeartbeatFails, AwaitsDatabase, Carries, Answers
<1>8. ASSUME NEW s \in Slot, Suspend(s) PROVE HubTypes'
  BY <1>8, CallEdits, ForgottenRow, Rows DEF Suspend, Replied
<1>9. ASSUME NEW s \in Slot, Renewed(s) PROVE HubTypes'
  BY <1>9, CallEdits, ForgottenRow, Rows DEF Renewed, Replied
<1>10. ASSUME NEW s \in Slot, RenewLost(s) PROVE HubTypes'
  BY <1>10, CallEdits, ForgottenRow, Rows DEF RenewLost, Replied
<1>11. ASSUME NEW s \in Slot, Regained(s) PROVE HubTypes'
  BY <1>11, CallEdits, ForgottenRow, Rows DEF Regained, Replied
<1>12. ASSUME NEW s \in Slot, RegainFails(s) PROVE HubTypes'
  BY <1>12, CallEdits, ForgottenRow, Rows DEF RegainFails, Replied
<1>13. ASSUME NEW s \in Slot, RegainLost(s) PROVE HubTypes'
  BY <1>13, CallEdits, ForgottenRow, Rows DEF RegainLost, Replied
<1>14. ASSUME NEW s \in Slot, Disposed(s) PROVE HubTypes'
  BY <1>14, CallEdits, ForgottenRow, Rows DEF Disposed
<1>15. ASSUME NEW s \in Slot, Ask(s) PROVE HubTypes'
  BY <1>15, Queue DEF Ask
<1>16. ASSUME StartTurn PROVE HubTypes'
  BY <1>16, Queue, Rows, RowEdits DEF StartTurn, Finished, Continue, Now
<1>17. ASSUME StartClaims PROVE HubTypes'
  BY <1>17, Queue, Rows, RowEdits, ZenonT(60), SMTT(30) DEF StartClaims, Claimable, Finished, Continue, Now
<1>18. ASSUME NEW landed \in BOOLEAN, StartClaimFails(landed) PROVE HubTypes'
  BY <1>18, Queue, Rows, RowEdits DEF StartClaimFails, Claimable, Finished, Continue, Now
<1>19. ASSUME StartCreates PROVE HubTypes'
  BY <1>19, Queue, Rows, RowEdits DEF StartCreates, Finished, Continue, Now
<1>20. ASSUME StartCreateFails PROVE HubTypes'
  BY <1>20, Queue, Rows, RowEdits DEF StartCreateFails, Finished, Continue, Now
<1>21. ASSUME StartRenews PROVE HubTypes'
  <2>1. This \in Slot /\ Tail(starts) \in Seq(Start)
    BY <1>21, Queue DEF StartRenews, Now
  <2>2. row' \in [Slot -> Lives]
    BY <1>21, Rows DEF StartRenews
  <2>3. running' \subseteq Slot
    BY <1>21, <2>1 DEF StartRenews
  <2>4. starts' \in Seq(Start)
    BY <1>21, <2>1 DEF StartRenews, Finished, Continue
  <2> QED
    BY <1>21, <2>2, <2>3, <2>4 DEF StartRenews
<1>22. ASSUME NEW landed \in BOOLEAN, StartRenewFails(landed) PROVE HubTypes'
  BY <1>22, Queue, Rows, RowEdits DEF StartRenewFails, Leased, Carries, Finished, Continue, Now
<1>23. ASSUME StartReleases PROVE HubTypes'
  BY <1>23, Queue, Rows, RowEdits DEF StartReleases, Carries, Finished, Continue, Now
<1>24. ASSUME StartReleaseFails PROVE HubTypes'
  BY <1>24, Queue, Rows, RowEdits DEF StartReleaseFails, Finished, Continue, Now
<1>25. ASSUME ShutdownBegin PROVE HubTypes'
  BY <1>25, Rows, RowEdits DEF ShutdownBegin
<1>26. ASSUME NEW s \in Slot, ShutdownRenews(s) PROVE HubTypes'
  BY <1>26, Rows, RowEdits, SMTT(30), ZenonT(30) DEF ShutdownRenews, At, To
<1>27. ASSUME NEW s \in Slot, NEW landed \in BOOLEAN, ShutdownRenewFails(s, landed) PROVE HubTypes'
  BY <1>27, Rows, RowEdits DEF ShutdownRenewFails, At, To
<1>28. ASSUME NEW s \in Slot, ShutdownReleases(s) PROVE HubTypes'
  BY <1>28, Rows, RowEdits DEF ShutdownReleases, At, To
<1>29. ASSUME NEW s \in Slot, NEW landed \in BOOLEAN, ShutdownReleaseFails(s, landed) PROVE HubTypes'
  BY <1>29, Rows, RowEdits DEF ShutdownReleaseFails, At, To
<1>30. ASSUME ShutdownEnd PROVE HubTypes'
  BY <1>30, Rows, RowEdits DEF ShutdownEnd, At
<1>31. CASE UNCHANGED vars
  BY <1>31 DEF vars, This
<1> QED
  BY <1>1, <1>2, <1>3, <1>4, <1>5, <1>6, <1>7, <1>8, <1>9, <1>10, <1>11, <1>12, <1>13, <1>14, <1>15, <1>16, <1>17, <1>18, <1>19, <1>20, <1>21, <1>22, <1>23, <1>24, <1>25, <1>26, <1>27, <1>28, <1>29, <1>30, <1>31 DEF Next, HeartbeatStep, StartStep, CreateStep, ShutdownStep

\* What each step of a heartbeat leaves of its calls.
LEMMA CallsAfter ==
  ASSUME HubTypes, NEW s \in Slot, NEW landed \in BOOLEAN
  PROVE  /\ DbHeartbeat(s) \/ DbHeartbeatFails(s, landed) =>
              \A t \in Slot : call'[t].kind = call[t].kind
         /\ Suspend(s) \/ Renewed(s) \/ Regained(s) \/ RegainFails(s) \/ Disposed(s) =>
              call'[s].kind = "idle" /\ \A t \in Slot \ {s} : call'[t] = call[t]
         /\ RenewLost(s) \/ RegainLost(s) =>
              /\ call'[s].kind \notin {"renew", "regain"}
              /\ \A t \in Slot \ {s} : call'[t] = call[t]
<1> USE DEF HubTypes
<1>1. ASSUME NEW r \in Replies, Answers(s, r) PROVE \A t \in Slot : call'[t].kind = call[t].kind
  <2>1. call'[s] = [call[s] EXCEPT !.reply = r] /\ \A t \in Slot \ {s} : call'[t] = call[t]
    BY <1>1 DEF Answers
  <2>2. call[s] \in Calls
    OBVIOUS
  <2>3. call'[s].kind = call[s].kind
    BY <2>1, <2>2 DEF Calls
  <2> QED
    BY <2>1, <2>3
<1>2. DbHeartbeat(s) => Answers(s, "held") \/ Answers(s, "lost")
  BY DEF DbHeartbeat
<1>3. DbHeartbeatFails(s, landed) => Answers(s, "failed")
  BY DEF DbHeartbeatFails
<1>4. {"held", "lost", "failed"} \subseteq Replies
  BY DEF Replies
<1>5. Idle.kind = "idle" /\ Sent("stop").kind = "stop"
      /\ Sent("stop, then restart").kind = "stop, then restart"
  BY DEF Idle, Sent
<1>6. Suspend(s) \/ Renewed(s) \/ Regained(s) \/ RegainFails(s) \/ Disposed(s) =>
        call' = [call EXCEPT ![s] = Idle]
  BY DEF Suspend, Renewed, Regained, RegainFails, Disposed
<1>7. RenewLost(s) \/ RegainLost(s) =>
        \/ call' = [call EXCEPT ![s] = Sent("stop")]
        \/ call' = [call EXCEPT ![s] = Sent("stop, then restart")]
  BY DEF RenewLost, RegainLost
<1> QED
  BY <1>1, <1>2, <1>3, <1>4, <1>5, <1>6, <1>7

\* What a heartbeat asks for each room when it begins.
LEMMA CallsAtTheBeginning ==
  HeartbeatBegin =>
    \A t \in Slot :
      /\ call'[t].kind = "renew" => t \in running /\ t \notin Abandoned
      /\ call'[t].kind = "regain" => t \in recovering /\ t \notin running /\ t \notin Abandoned
<1>1. /\ Sent("stop, then restart").kind = "stop, then restart"
      /\ Sent("renew").kind = "renew" /\ Sent("regain").kind = "regain" /\ Idle.kind = "idle"
  BY DEF Sent, Idle
<1>2. HeartbeatBegin =>
        \A t \in Slot :
          call'[t] = IF t \in Abandoned THEN Sent("stop, then restart")
                     ELSE IF t \in running THEN Sent("renew")
                     ELSE IF t \in recovering /\ regain[t].wait = 0 THEN Sent("regain")
                     ELSE Idle
  BY DEF HeartbeatBegin
<1> QED
  BY <1>1, <1>2

\* What the heartbeat, the other processes and the clock leave of the rows.
LEMMA RowsAfter ==
  ASSUME HubTypes, NEW s \in Slot, NEW landed \in BOOLEAN
  PROVE  /\ Tick => \A t \in Slot : row'[t].owner = row[t].owner /\ row'[t].stopped = row[t].stopped
         /\ DbHeartbeat(s) \/ DbHeartbeatFails(s, landed) =>
              \A t \in Slot : /\ row'[t].owner = row[t].owner
                              /\ row[t].stopped => row'[t] = row[t]
         /\ RenewLost(s) \/ RegainLost(s) =>
              row'[s].owner # "room" /\ \A t \in Slot \ {s} : row'[t] = row[t]
         /\ HeartbeatBegin =>
              \A t \in Slot : \/ row'[t] = row[t]
                              \/ t \in Abandoned /\ row'[t].owner # "room"
<1> USE DEF HubTypes
<1>1. Tick => \A t \in Slot : row'[t].owner = row[t].owner /\ row'[t].stopped = row[t].stopped
  <2> SUFFICES ASSUME Tick, NEW t \in Slot
               PROVE  row'[t].owner = row[t].owner /\ row'[t].stopped = row[t].stopped
    OBVIOUS
  <2>1. row[t] \in Lives
    OBVIOUS
  <2>2. row'[t] = row[t] \/ row'[t] = [row[t] EXCEPT !.left = Less(row[t].left)]
    BY DEF Tick
  <2> QED
    BY <2>1, <2>2, RowEdits
<1>2. DbHeartbeat(s) \/ DbHeartbeatFails(s, landed) =>
        \/ row' = row
        \/ Carries(s, "room") /\ row' = [row EXCEPT ![s] = Lease("room", LeaseTtl)]
  BY DEF DbHeartbeat, DbHeartbeatFails
<1>3. RenewLost(s) \/ RegainLost(s) => row' = [row EXCEPT ![s] = Forgotten(s)]
  BY DEF RenewLost, RegainLost
<1>4. HeartbeatBegin =>
        \A t \in Slot : \/ row'[t] = row[t]
                        \/ t \in Abandoned /\ row'[t].owner # "room"
  BY ForgottenRow DEF HeartbeatBegin
<1>5. Lease("room", LeaseTtl).owner = "room"
  BY DEF Lease
<1> QED
  BY <1>1, <1>2, <1>3, <1>4, <1>5, ForgottenRow DEF Carries

\* No room ticks while it waits for its lease.
LEMMA ApartStep == IInv /\ [Next]_vars => (running \cap recovering = {})'
<1> SUFFICES ASSUME IInv, [Next]_vars PROVE (running \cap recovering = {})'
  OBVIOUS
<1> USE DEF IInv, HubTypes, CallsHaveRooms, StartIsAlone, hub, beat, starting, ending, bounds
<1>1. ASSUME Tick PROVE (running \cap recovering = {})'
  BY <1>1 DEF Tick
<1>2. ASSUME NEW s \in Slot, OtherClaims(s) PROVE (running \cap recovering = {})'
  BY <1>2 DEF OtherClaims, Claimable
<1>3. ASSUME NEW s \in Slot, OtherLeaves(s) PROVE (running \cap recovering = {})'
  BY <1>3 DEF OtherLeaves, Carries
<1>4. ASSUME HeartbeatBegin PROVE (running \cap recovering = {})'
  BY <1>4 DEF HeartbeatBegin, Abandoned
<1>5. ASSUME HeartbeatEnd PROVE (running \cap recovering = {})'
  BY <1>5 DEF HeartbeatEnd
<1>6. ASSUME NEW s \in Slot, DbHeartbeat(s) PROVE (running \cap recovering = {})'
  BY <1>6 DEF DbHeartbeat, AwaitsDatabase, Carries, Answers
<1>7. ASSUME NEW s \in Slot, NEW landed \in BOOLEAN, DbHeartbeatFails(s, landed) PROVE (running \cap recovering = {})'
  BY <1>7 DEF DbHeartbeatFails, AwaitsDatabase, Carries, Answers
<1>8. ASSUME NEW s \in Slot, Suspend(s) PROVE (running \cap recovering = {})'
  BY <1>8 DEF Suspend, Replied
<1>9. ASSUME NEW s \in Slot, Renewed(s) PROVE (running \cap recovering = {})'
  BY <1>9 DEF Renewed, Replied
<1>10. ASSUME NEW s \in Slot, RenewLost(s) PROVE (running \cap recovering = {})'
  BY <1>10 DEF RenewLost, Replied
<1>11. ASSUME NEW s \in Slot, Regained(s) PROVE (running \cap recovering = {})'
  BY <1>11 DEF Regained, Replied
<1>12. ASSUME NEW s \in Slot, RegainFails(s) PROVE (running \cap recovering = {})'
  BY <1>12 DEF RegainFails, Replied
<1>13. ASSUME NEW s \in Slot, RegainLost(s) PROVE (running \cap recovering = {})'
  BY <1>13 DEF RegainLost, Replied
<1>14. ASSUME NEW s \in Slot, Disposed(s) PROVE (running \cap recovering = {})'
  BY <1>14 DEF Disposed
<1>15. ASSUME NEW s \in Slot, Ask(s) PROVE (running \cap recovering = {})'
  BY <1>15 DEF Ask
<1>16. ASSUME StartTurn PROVE (running \cap recovering = {})'
  BY <1>16 DEF StartTurn, Finished, Continue, Now
<1>17. ASSUME StartClaims PROVE (running \cap recovering = {})'
  BY <1>17 DEF StartClaims, Claimable, Finished, Continue, Now
<1>18. ASSUME NEW landed \in BOOLEAN, StartClaimFails(landed) PROVE (running \cap recovering = {})'
  BY <1>18 DEF StartClaimFails, Claimable, Finished, Continue, Now
<1>19. ASSUME StartCreates PROVE (running \cap recovering = {})'
  BY <1>19 DEF StartCreates, Finished, Continue, Now
<1>20. ASSUME StartCreateFails PROVE (running \cap recovering = {})'
  BY <1>20 DEF StartCreateFails, Finished, Continue, Now
<1>21. ASSUME StartRenews PROVE (running \cap recovering = {})'
  BY <1>21 DEF StartRenews, Leased, Carries, Finished, Continue, Now
<1>22. ASSUME NEW landed \in BOOLEAN, StartRenewFails(landed) PROVE (running \cap recovering = {})'
  BY <1>22 DEF StartRenewFails, Leased, Carries, Finished, Continue, Now
<1>23. ASSUME StartReleases PROVE (running \cap recovering = {})'
  BY <1>23 DEF StartReleases, Carries, Finished, Continue, Now
<1>24. ASSUME StartReleaseFails PROVE (running \cap recovering = {})'
  BY <1>24 DEF StartReleaseFails, Finished, Continue, Now
<1>25. ASSUME ShutdownBegin PROVE (running \cap recovering = {})'
  BY <1>25 DEF ShutdownBegin
<1>26. ASSUME NEW s \in Slot, ShutdownRenews(s) PROVE (running \cap recovering = {})'
  BY <1>26 DEF ShutdownRenews, At, To
<1>27. ASSUME NEW s \in Slot, NEW landed \in BOOLEAN, ShutdownRenewFails(s, landed) PROVE (running \cap recovering = {})'
  BY <1>27 DEF ShutdownRenewFails, At, To
<1>28. ASSUME NEW s \in Slot, ShutdownReleases(s) PROVE (running \cap recovering = {})'
  BY <1>28 DEF ShutdownReleases, At, To
<1>29. ASSUME NEW s \in Slot, NEW landed \in BOOLEAN, ShutdownReleaseFails(s, landed) PROVE (running \cap recovering = {})'
  BY <1>29 DEF ShutdownReleaseFails, At, To
<1>30. ASSUME ShutdownEnd PROVE (running \cap recovering = {})'
  BY <1>30 DEF ShutdownEnd, At
<1>31. CASE UNCHANGED vars
  BY <1>31 DEF vars, This
<1> QED
  BY <1>1, <1>2, <1>3, <1>4, <1>5, <1>6, <1>7, <1>8, <1>9, <1>10, <1>11, <1>12, <1>13, <1>14, <1>15, <1>16, <1>17, <1>18, <1>19, <1>20, <1>21, <1>22, <1>23, <1>24, <1>25, <1>26, <1>27, <1>28, <1>29, <1>30, <1>31 DEF Next, HeartbeatStep, StartStep, CreateStep, ShutdownStep

\* Only the shutdown gives a slot its part.
LEMMA LeavingStep == IInv /\ [Next]_vars => LeavingIsStopping'
<1> SUFFICES ASSUME IInv, [Next]_vars PROVE LeavingIsStopping'
  OBVIOUS
<1> USE DEF IInv, HubTypes, LeavingIsStopping, hub, beat, starting, ending, bounds
<1>1. ASSUME Tick PROVE LeavingIsStopping'
  BY <1>1 DEF Tick
<1>2. ASSUME NEW s \in Slot, OtherClaims(s) PROVE LeavingIsStopping'
  BY <1>2 DEF OtherClaims, Claimable
<1>3. ASSUME NEW s \in Slot, OtherLeaves(s) PROVE LeavingIsStopping'
  BY <1>3 DEF OtherLeaves, Carries
<1>4. ASSUME HeartbeatBegin PROVE LeavingIsStopping'
  BY <1>4 DEF HeartbeatBegin, Abandoned
<1>5. ASSUME HeartbeatEnd PROVE LeavingIsStopping'
  BY <1>5 DEF HeartbeatEnd
<1>6. ASSUME NEW s \in Slot, DbHeartbeat(s) PROVE LeavingIsStopping'
  BY <1>6 DEF DbHeartbeat, AwaitsDatabase, Carries, Answers
<1>7. ASSUME NEW s \in Slot, NEW landed \in BOOLEAN, DbHeartbeatFails(s, landed) PROVE LeavingIsStopping'
  BY <1>7 DEF DbHeartbeatFails, AwaitsDatabase, Carries, Answers
<1>8. ASSUME NEW s \in Slot, Suspend(s) PROVE LeavingIsStopping'
  BY <1>8 DEF Suspend, Replied
<1>9. ASSUME NEW s \in Slot, Renewed(s) PROVE LeavingIsStopping'
  BY <1>9 DEF Renewed, Replied
<1>10. ASSUME NEW s \in Slot, RenewLost(s) PROVE LeavingIsStopping'
  BY <1>10 DEF RenewLost, Replied
<1>11. ASSUME NEW s \in Slot, Regained(s) PROVE LeavingIsStopping'
  BY <1>11 DEF Regained, Replied
<1>12. ASSUME NEW s \in Slot, RegainFails(s) PROVE LeavingIsStopping'
  BY <1>12 DEF RegainFails, Replied
<1>13. ASSUME NEW s \in Slot, RegainLost(s) PROVE LeavingIsStopping'
  BY <1>13 DEF RegainLost, Replied
<1>14. ASSUME NEW s \in Slot, Disposed(s) PROVE LeavingIsStopping'
  BY <1>14 DEF Disposed
<1>15. ASSUME NEW s \in Slot, Ask(s) PROVE LeavingIsStopping'
  BY <1>15 DEF Ask
<1>16. ASSUME StartTurn PROVE LeavingIsStopping'
  BY <1>16 DEF StartTurn, Finished, Continue, Now
<1>17. ASSUME StartClaims PROVE LeavingIsStopping'
  BY <1>17 DEF StartClaims, Claimable, Finished, Continue, Now
<1>18. ASSUME NEW landed \in BOOLEAN, StartClaimFails(landed) PROVE LeavingIsStopping'
  BY <1>18 DEF StartClaimFails, Claimable, Finished, Continue, Now
<1>19. ASSUME StartCreates PROVE LeavingIsStopping'
  BY <1>19 DEF StartCreates, Finished, Continue, Now
<1>20. ASSUME StartCreateFails PROVE LeavingIsStopping'
  BY <1>20 DEF StartCreateFails, Finished, Continue, Now
<1>21. ASSUME StartRenews PROVE LeavingIsStopping'
  BY <1>21 DEF StartRenews, Leased, Carries, Finished, Continue, Now
<1>22. ASSUME NEW landed \in BOOLEAN, StartRenewFails(landed) PROVE LeavingIsStopping'
  BY <1>22 DEF StartRenewFails, Leased, Carries, Finished, Continue, Now
<1>23. ASSUME StartReleases PROVE LeavingIsStopping'
  BY <1>23 DEF StartReleases, Carries, Finished, Continue, Now
<1>24. ASSUME StartReleaseFails PROVE LeavingIsStopping'
  BY <1>24 DEF StartReleaseFails, Finished, Continue, Now
<1>25. ASSUME ShutdownBegin PROVE LeavingIsStopping'
  BY <1>25 DEF ShutdownBegin
<1>26. ASSUME NEW s \in Slot, ShutdownRenews(s) PROVE LeavingIsStopping'
  BY <1>26 DEF ShutdownRenews, At, To
<1>27. ASSUME NEW s \in Slot, NEW landed \in BOOLEAN, ShutdownRenewFails(s, landed) PROVE LeavingIsStopping'
  BY <1>27 DEF ShutdownRenewFails, At, To
<1>28. ASSUME NEW s \in Slot, ShutdownReleases(s) PROVE LeavingIsStopping'
  BY <1>28 DEF ShutdownReleases, At, To
<1>29. ASSUME NEW s \in Slot, NEW landed \in BOOLEAN, ShutdownReleaseFails(s, landed) PROVE LeavingIsStopping'
  BY <1>29 DEF ShutdownReleaseFails, At, To
<1>30. ASSUME ShutdownEnd PROVE LeavingIsStopping'
  BY <1>30 DEF ShutdownEnd, At
<1>31. CASE UNCHANGED vars
  BY <1>31 DEF vars, This
<1> QED
  BY <1>1, <1>2, <1>3, <1>4, <1>5, <1>6, <1>7, <1>8, <1>9, <1>10, <1>11, <1>12, <1>13, <1>14, <1>15, <1>16, <1>17, <1>18, <1>19, <1>20, <1>21, <1>22, <1>23, <1>24, <1>25, <1>26, <1>27, <1>28, <1>29, <1>30, <1>31 DEF Next, HeartbeatStep, StartStep, CreateStep, ShutdownStep

\* The running start's slot stays without a room.
LEMMA StartStaysAlone == IInv /\ [Next]_vars => StartIsAlone'
<1> SUFFICES ASSUME IInv, [Next]_vars PROVE StartIsAlone'
  OBVIOUS
<1> USE DEF IInv, HubTypes, StartIsAlone, CallsHaveRooms, LeavingIsStopping, This, hub, beat, starting, ending, bounds
<1>0. step # "idle" => This \in Slot 
  BY Queue
<1>1. ASSUME Tick PROVE StartIsAlone'
  BY <1>1, RowsAfter DEF Tick
<1>2. ASSUME NEW s \in Slot, OtherClaims(s) PROVE StartIsAlone'
  BY <1>2 DEF OtherClaims, Claimable
<1>3. ASSUME NEW s \in Slot, OtherLeaves(s) PROVE StartIsAlone'
  BY <1>3 DEF OtherLeaves, Carries
<1>4. ASSUME HeartbeatBegin PROVE StartIsAlone'
  BY <1>4, CallsAtTheBeginning, RowsAfter, <1>0 DEF HeartbeatBegin, Abandoned
<1>5. ASSUME HeartbeatEnd PROVE StartIsAlone'
  BY <1>5 DEF HeartbeatEnd
<1>6. ASSUME NEW s \in Slot, DbHeartbeat(s) PROVE StartIsAlone'
  BY <1>6, CallsAfter, RowsAfter, <1>0 DEF DbHeartbeat, AwaitsDatabase, Carries, Answers
<1>7. ASSUME NEW s \in Slot, NEW landed \in BOOLEAN, DbHeartbeatFails(s, landed) PROVE StartIsAlone'
  BY <1>7, CallsAfter, RowsAfter, <1>0 DEF DbHeartbeatFails, AwaitsDatabase, Carries, Answers
<1>8. ASSUME NEW s \in Slot, Suspend(s) PROVE StartIsAlone'
  BY <1>8, CallsAfter, RowsAfter, <1>0 DEF Suspend, Replied
<1>9. ASSUME NEW s \in Slot, Renewed(s) PROVE StartIsAlone'
  BY <1>9, CallsAfter, RowsAfter, <1>0 DEF Renewed, Replied
<1>10. ASSUME NEW s \in Slot, RenewLost(s) PROVE StartIsAlone'
  BY <1>10, CallsAfter, RowsAfter, <1>0 DEF RenewLost, Replied
<1>11. ASSUME NEW s \in Slot, Regained(s) PROVE StartIsAlone'
  BY <1>11, CallsAfter, RowsAfter, <1>0 DEF Regained, Replied
<1>12. ASSUME NEW s \in Slot, RegainFails(s) PROVE StartIsAlone'
  BY <1>12, CallsAfter, RowsAfter, <1>0 DEF RegainFails, Replied
<1>13. ASSUME NEW s \in Slot, RegainLost(s) PROVE StartIsAlone'
  BY <1>13, CallsAfter, RowsAfter, <1>0 DEF RegainLost, Replied
<1>14. ASSUME NEW s \in Slot, Disposed(s) PROVE StartIsAlone'
  <2>1. UNCHANGED <<running, recovering, starts, step, leaving>>
    BY <1>14 DEF Disposed
  <2>2. call'[s].kind = "idle" /\ \A t \in Slot \ {s} : call'[t] = call[t]
    BY <1>14, CallsAfter
  <2> QED
    BY <1>0, <2>1, <2>2
<1>15. ASSUME NEW s \in Slot, Ask(s) PROVE StartIsAlone'
  BY <1>15 DEF Ask
<1>16. ASSUME StartTurn PROVE StartIsAlone'
  BY <1>16, Queue DEF StartTurn, Finished, Continue, Now
<1>17. ASSUME StartClaims PROVE StartIsAlone'
  BY <1>17, Queue DEF StartClaims, Claimable, Finished, Continue, Now
<1>18. ASSUME NEW landed \in BOOLEAN, StartClaimFails(landed) PROVE StartIsAlone'
  BY <1>18, Queue DEF StartClaimFails, Claimable, Finished, Continue, Now
<1>19. ASSUME StartCreates PROVE StartIsAlone'
  BY <1>19, Queue DEF StartCreates, Finished, Continue, Now
<1>20. ASSUME StartCreateFails PROVE StartIsAlone'
  BY <1>20, Queue DEF StartCreateFails, Finished, Continue, Now
<1>21. ASSUME StartRenews PROVE StartIsAlone'
  BY <1>21, Queue DEF StartRenews, Leased, Carries, Finished, Continue, Now
<1>22. ASSUME NEW landed \in BOOLEAN, StartRenewFails(landed) PROVE StartIsAlone'
  BY <1>22, Queue DEF StartRenewFails, Leased, Carries, Finished, Continue, Now
<1>23. ASSUME StartReleases PROVE StartIsAlone'
  BY <1>23, Queue DEF StartReleases, Carries, Finished, Continue, Now
<1>24. ASSUME StartReleaseFails PROVE StartIsAlone'
  BY <1>24, Queue DEF StartReleaseFails, Finished, Continue, Now
<1>25. ASSUME ShutdownBegin PROVE StartIsAlone'
  BY <1>25, <1>0 DEF ShutdownBegin
<1>26. ASSUME NEW s \in Slot, ShutdownRenews(s) PROVE StartIsAlone'
  BY <1>26, <1>0 DEF ShutdownRenews, At, To
<1>27. ASSUME NEW s \in Slot, NEW landed \in BOOLEAN, ShutdownRenewFails(s, landed) PROVE StartIsAlone'
  BY <1>27 DEF ShutdownRenewFails, At, To
<1>28. ASSUME NEW s \in Slot, ShutdownReleases(s) PROVE StartIsAlone'
  BY <1>28 DEF ShutdownReleases, At, To
<1>29. ASSUME NEW s \in Slot, NEW landed \in BOOLEAN, ShutdownReleaseFails(s, landed) PROVE StartIsAlone'
  BY <1>29 DEF ShutdownReleaseFails, At, To
<1>30. ASSUME ShutdownEnd PROVE StartIsAlone'
  BY <1>30 DEF ShutdownEnd, At
<1>31. CASE UNCHANGED vars
  BY <1>31 DEF vars, This
<1> QED
  BY <1>1, <1>2, <1>3, <1>4, <1>5, <1>6, <1>7, <1>8, <1>9, <1>10, <1>11, <1>12, <1>13, <1>14, <1>15, <1>16, <1>17, <1>18, <1>19, <1>20, <1>21, <1>22, <1>23, <1>24, <1>25, <1>26, <1>27, <1>28, <1>29, <1>30, <1>31 DEF Next, HeartbeatStep, StartStep, CreateStep, ShutdownStep

\* A statement's slot keeps its room until the answer.
LEMMA CallsStep == IInv /\ [Next]_vars => CallsHaveRooms'
<1> SUFFICES ASSUME IInv, [Next]_vars PROVE CallsHaveRooms'
  OBVIOUS
<1> USE DEF IInv, HubTypes, StartIsAlone, CallsHaveRooms, LeavingIsStopping, NeverFencesItself, hub, beat, starting, ending, bounds
<1>1. ASSUME Tick PROVE CallsHaveRooms'
  BY <1>1, RowsAfter DEF Tick
<1>2. ASSUME NEW s \in Slot, OtherClaims(s) PROVE CallsHaveRooms'
  BY <1>2, Rows, RowEdits DEF OtherClaims, Claimable
<1>3. ASSUME NEW s \in Slot, OtherLeaves(s) PROVE CallsHaveRooms'
  BY <1>3, Rows, RowEdits DEF OtherLeaves, Carries
<1>4. ASSUME HeartbeatBegin PROVE CallsHaveRooms'
  BY <1>4, CallsAtTheBeginning, RowsAfter DEF HeartbeatBegin, Abandoned
<1>5. ASSUME HeartbeatEnd PROVE CallsHaveRooms'
  BY <1>5, Rows, RowEdits DEF HeartbeatEnd
<1>6. ASSUME NEW s \in Slot, DbHeartbeat(s) PROVE CallsHaveRooms'
  <2>1. \A t \in Slot : call'[t].kind = call[t].kind /\ row'[t].owner = row[t].owner
    BY <1>6, CallsAfter, RowsAfter
  <2> QED
    BY <1>6, <2>1 DEF DbHeartbeat
<1>7. ASSUME NEW s \in Slot, NEW landed \in BOOLEAN, DbHeartbeatFails(s, landed) PROVE CallsHaveRooms'
  <2>1. \A t \in Slot : call'[t].kind = call[t].kind /\ row'[t].owner = row[t].owner
    BY <1>7, CallsAfter, RowsAfter
  <2> QED
    BY <1>7, <2>1 DEF DbHeartbeatFails
<1>8. ASSUME NEW s \in Slot, Suspend(s) PROVE CallsHaveRooms'
  BY <1>8, CallsAfter, RowsAfter, ZenonT(60), SMTT(30) DEF Suspend, Replied
<1>9. ASSUME NEW s \in Slot, Renewed(s) PROVE CallsHaveRooms'
  BY <1>9, CallsAfter, RowsAfter, SMTT(30), ZenonT(30) DEF Renewed, Replied
<1>10. ASSUME NEW s \in Slot, RenewLost(s) PROVE CallsHaveRooms'
  BY <1>10, CallsAfter, RowsAfter, ZenonT(60), SMTT(30) DEF RenewLost, Replied
<1>11. ASSUME NEW s \in Slot, Regained(s) PROVE CallsHaveRooms'
  BY <1>11, CallsAfter, RowsAfter, ZenonT(60), SMTT(30) DEF Regained, Replied
<1>12. ASSUME NEW s \in Slot, RegainFails(s) PROVE CallsHaveRooms'
  BY <1>12, CallsAfter, RowsAfter, SMTT(30), ZenonT(30) DEF RegainFails, Replied
<1>13. ASSUME NEW s \in Slot, RegainLost(s) PROVE CallsHaveRooms'
  BY <1>13, CallsAfter, RowsAfter, ZenonT(60), SMTT(30) DEF RegainLost, Replied
<1>14. ASSUME NEW s \in Slot, Disposed(s) PROVE CallsHaveRooms'
  BY <1>14, CallsAfter, RowsAfter DEF Disposed
<1>15. ASSUME NEW s \in Slot, Ask(s) PROVE CallsHaveRooms'
  BY <1>15, Rows, RowEdits DEF Ask
<1>16. ASSUME StartTurn PROVE CallsHaveRooms'
  BY <1>16, Queue, Rows, RowEdits DEF StartTurn, Finished, Continue, Now
<1>17. ASSUME StartClaims PROVE CallsHaveRooms'
  BY <1>17, Queue, Rows, RowEdits, SMTT(30), ZenonT(30) DEF StartClaims, Claimable, Finished, Continue, Now
<1>18. ASSUME NEW landed \in BOOLEAN, StartClaimFails(landed) PROVE CallsHaveRooms'
  BY <1>18, Queue, Rows, RowEdits DEF StartClaimFails, Claimable, Finished, Continue, Now
<1>19. ASSUME StartCreates PROVE CallsHaveRooms'
  BY <1>19, Queue, Rows, RowEdits DEF StartCreates, Finished, Continue, Now
<1>20. ASSUME StartCreateFails PROVE CallsHaveRooms'
  BY <1>20, Queue, Rows, RowEdits DEF StartCreateFails, Finished, Continue, Now
<1>21. ASSUME StartRenews PROVE CallsHaveRooms'
  BY <1>21, Queue, Rows, RowEdits DEF StartRenews, Leased, Carries, Finished, Continue, Now
<1>22. ASSUME NEW landed \in BOOLEAN, StartRenewFails(landed) PROVE CallsHaveRooms'
  BY <1>22, Queue, Rows, RowEdits DEF StartRenewFails, Leased, Carries, Finished, Continue, Now
<1>23. ASSUME StartReleases PROVE CallsHaveRooms'
  BY <1>23, Queue, Rows, RowEdits DEF StartReleases, Carries, Finished, Continue, Now
<1>24. ASSUME StartReleaseFails PROVE CallsHaveRooms'
  BY <1>24, Queue, Rows, RowEdits DEF StartReleaseFails, Finished, Continue, Now
<1>25. ASSUME ShutdownBegin PROVE CallsHaveRooms'
  BY <1>25, Rows, RowEdits DEF ShutdownBegin
<1>26. ASSUME NEW s \in Slot, ShutdownRenews(s) PROVE CallsHaveRooms'
  BY <1>26, Rows, RowEdits DEF ShutdownRenews, At, To
<1>27. ASSUME NEW s \in Slot, NEW landed \in BOOLEAN, ShutdownRenewFails(s, landed) PROVE CallsHaveRooms'
  BY <1>27, Rows, RowEdits DEF ShutdownRenewFails, At, To
<1>28. ASSUME NEW s \in Slot, ShutdownReleases(s) PROVE CallsHaveRooms'
  BY <1>28, Rows, RowEdits DEF ShutdownReleases, At, To
<1>29. ASSUME NEW s \in Slot, NEW landed \in BOOLEAN, ShutdownReleaseFails(s, landed) PROVE CallsHaveRooms'
  BY <1>29, Rows, RowEdits DEF ShutdownReleaseFails, At, To
<1>30. ASSUME ShutdownEnd PROVE CallsHaveRooms'
  BY <1>30, Rows, RowEdits DEF ShutdownEnd, At
<1>31. CASE UNCHANGED vars
  BY <1>31 DEF vars, This
<1> QED
  BY <1>1, <1>2, <1>3, <1>4, <1>5, <1>6, <1>7, <1>8, <1>9, <1>10, <1>11, <1>12, <1>13, <1>14, <1>15, <1>16, <1>17, <1>18, <1>19, <1>20, <1>21, <1>22, <1>23, <1>24, <1>25, <1>26, <1>27, <1>28, <1>29, <1>30, <1>31 DEF Next, HeartbeatStep, StartStep, CreateStep, ShutdownStep

\* No step of the hub gives the row of its own room to a start.
LEMMA FencesStep == IInv /\ [Next]_vars => NeverFencesItself'
<1> SUFFICES ASSUME IInv, [Next]_vars PROVE NeverFencesItself'
  OBVIOUS
<1> USE DEF IInv, HubTypes, StartIsAlone, CallsHaveRooms, LeavingIsStopping, NeverFencesItself, hub, beat, starting, ending, bounds
<1>1. ASSUME Tick PROVE NeverFencesItself'
  BY <1>1, RowsAfter DEF Tick
<1>2. ASSUME NEW s \in Slot, OtherClaims(s) PROVE NeverFencesItself'
  BY <1>2, Rows, RowEdits DEF OtherClaims, Claimable
<1>3. ASSUME NEW s \in Slot, OtherLeaves(s) PROVE NeverFencesItself'
  BY <1>3, Rows, RowEdits DEF OtherLeaves, Carries
<1>4. ASSUME HeartbeatBegin PROVE NeverFencesItself'
  BY <1>4, CallsAtTheBeginning, RowsAfter DEF HeartbeatBegin, Abandoned
<1>5. ASSUME HeartbeatEnd PROVE NeverFencesItself'
  BY <1>5, Rows, RowEdits DEF HeartbeatEnd
<1>6. ASSUME NEW s \in Slot, DbHeartbeat(s) PROVE NeverFencesItself'
  BY <1>6, CallsAfter, RowsAfter DEF DbHeartbeat, AwaitsDatabase, Carries, Answers
<1>7. ASSUME NEW s \in Slot, NEW landed \in BOOLEAN, DbHeartbeatFails(s, landed) PROVE NeverFencesItself'
  BY <1>7, CallsAfter, RowsAfter DEF DbHeartbeatFails, AwaitsDatabase, Carries, Answers
<1>8. ASSUME NEW s \in Slot, Suspend(s) PROVE NeverFencesItself'
  BY <1>8, CallsAfter, RowsAfter DEF Suspend, Replied
<1>9. ASSUME NEW s \in Slot, Renewed(s) PROVE NeverFencesItself'
  BY <1>9, CallsAfter, RowsAfter DEF Renewed, Replied
<1>10. ASSUME NEW s \in Slot, RenewLost(s) PROVE NeverFencesItself'
  BY <1>10, CallsAfter, RowsAfter DEF RenewLost, Replied
<1>11. ASSUME NEW s \in Slot, Regained(s) PROVE NeverFencesItself'
  BY <1>11, CallsAfter, RowsAfter DEF Regained, Replied
<1>12. ASSUME NEW s \in Slot, RegainFails(s) PROVE NeverFencesItself'
  BY <1>12, CallsAfter, RowsAfter DEF RegainFails, Replied
<1>13. ASSUME NEW s \in Slot, RegainLost(s) PROVE NeverFencesItself'
  BY <1>13, CallsAfter, RowsAfter, SMTT(30), ZenonT(30) DEF RegainLost, Replied
<1>14. ASSUME NEW s \in Slot, Disposed(s) PROVE NeverFencesItself'
  BY <1>14, CallsAfter, RowsAfter DEF Disposed
<1>15. ASSUME NEW s \in Slot, Ask(s) PROVE NeverFencesItself'
  BY <1>15, Rows, RowEdits DEF Ask
<1>16. ASSUME StartTurn PROVE NeverFencesItself'
  BY <1>16, Queue, Rows, RowEdits DEF StartTurn, Finished, Continue, Now
<1>17. ASSUME StartClaims PROVE NeverFencesItself'
  BY <1>17, Queue, Rows, RowEdits DEF StartClaims, Claimable, Finished, Continue, Now
<1>18. ASSUME NEW landed \in BOOLEAN, StartClaimFails(landed) PROVE NeverFencesItself'
  BY <1>18, Queue, Rows, RowEdits DEF StartClaimFails, Claimable, Finished, Continue, Now
<1>19. ASSUME StartCreates PROVE NeverFencesItself'
  BY <1>19, Queue, Rows, RowEdits DEF StartCreates, Finished, Continue, Now
<1>20. ASSUME StartCreateFails PROVE NeverFencesItself'
  BY <1>20, Queue, Rows, RowEdits DEF StartCreateFails, Finished, Continue, Now
<1>21. ASSUME StartRenews PROVE NeverFencesItself'
  BY <1>21, Queue, Rows, RowEdits DEF StartRenews, Leased, Carries, Finished, Continue, Now
<1>22. ASSUME NEW landed \in BOOLEAN, StartRenewFails(landed) PROVE NeverFencesItself'
  BY <1>22, Queue, Rows, RowEdits DEF StartRenewFails, Leased, Carries, Finished, Continue, Now
<1>23. ASSUME StartReleases PROVE NeverFencesItself'
  BY <1>23, Queue, Rows, RowEdits DEF StartReleases, Carries, Finished, Continue, Now
<1>24. ASSUME StartReleaseFails PROVE NeverFencesItself'
  BY <1>24, Queue, Rows, RowEdits DEF StartReleaseFails, Finished, Continue, Now
<1>25. ASSUME ShutdownBegin PROVE NeverFencesItself'
  BY <1>25, Rows, RowEdits DEF ShutdownBegin
<1>26. ASSUME NEW s \in Slot, ShutdownRenews(s) PROVE NeverFencesItself'
  BY <1>26, Rows, RowEdits, SMTT(30), ZenonT(30) DEF ShutdownRenews, At, To
<1>27. ASSUME NEW s \in Slot, NEW landed \in BOOLEAN, ShutdownRenewFails(s, landed) PROVE NeverFencesItself'
  BY <1>27, Rows, RowEdits DEF ShutdownRenewFails, At, To
<1>28. ASSUME NEW s \in Slot, ShutdownReleases(s) PROVE NeverFencesItself'
  BY <1>28, Rows, RowEdits DEF ShutdownReleases, At, To
<1>29. ASSUME NEW s \in Slot, NEW landed \in BOOLEAN, ShutdownReleaseFails(s, landed) PROVE NeverFencesItself'
  BY <1>29, Rows, RowEdits DEF ShutdownReleaseFails, At, To
<1>30. ASSUME ShutdownEnd PROVE NeverFencesItself'
  BY <1>30, Rows, RowEdits DEF ShutdownEnd, At
<1>31. CASE UNCHANGED vars
  BY <1>31 DEF vars, This
<1> QED
  BY <1>1, <1>2, <1>3, <1>4, <1>5, <1>6, <1>7, <1>8, <1>9, <1>10, <1>11, <1>12, <1>13, <1>14, <1>15, <1>16, <1>17, <1>18, <1>19, <1>20, <1>21, <1>22, <1>23, <1>24, <1>25, <1>26, <1>27, <1>28, <1>29, <1>30, <1>31 DEF Next, HeartbeatStep, StartStep, CreateStep, ShutdownStep

\* Nothing takes a released row back.
LEMMA ReleasedStep == IInv /\ [Next]_vars => ReleasedAtShutdown'
<1> SUFFICES ASSUME IInv, [Next]_vars PROVE ReleasedAtShutdown'
  OBVIOUS
<1> USE DEF IInv, HubTypes, StartIsAlone, CallsHaveRooms, LeavingIsStopping, ReleasedAtShutdown, hub, beat, starting, ending, bounds
<1>1. ASSUME Tick PROVE ReleasedAtShutdown'
  BY <1>1, RowsAfter DEF Tick
<1>2. ASSUME NEW s \in Slot, OtherClaims(s) PROVE ReleasedAtShutdown'
  BY <1>2, Rows, RowEdits DEF OtherClaims, Claimable
<1>3. ASSUME NEW s \in Slot, OtherLeaves(s) PROVE ReleasedAtShutdown'
  BY <1>3, Rows, RowEdits DEF OtherLeaves, Carries
<1>4. ASSUME HeartbeatBegin PROVE ReleasedAtShutdown'
  BY <1>4, CallsAtTheBeginning, RowsAfter DEF HeartbeatBegin, Abandoned
<1>5. ASSUME HeartbeatEnd PROVE ReleasedAtShutdown'
  BY <1>5, Rows, RowEdits DEF HeartbeatEnd
<1>6. ASSUME NEW s \in Slot, DbHeartbeat(s) PROVE ReleasedAtShutdown'
  BY <1>6, CallsAfter, RowsAfter DEF DbHeartbeat, AwaitsDatabase, Carries, Answers
<1>7. ASSUME NEW s \in Slot, NEW landed \in BOOLEAN, DbHeartbeatFails(s, landed) PROVE ReleasedAtShutdown'
  BY <1>7, CallsAfter, RowsAfter DEF DbHeartbeatFails, AwaitsDatabase, Carries, Answers
<1>8. ASSUME NEW s \in Slot, Suspend(s) PROVE ReleasedAtShutdown'
  BY <1>8, CallsAfter, RowsAfter DEF Suspend, Replied
<1>9. ASSUME NEW s \in Slot, Renewed(s) PROVE ReleasedAtShutdown'
  BY <1>9, CallsAfter, RowsAfter DEF Renewed, Replied
<1>10. ASSUME NEW s \in Slot, RenewLost(s) PROVE ReleasedAtShutdown'
  BY <1>10, CallsAfter, RowsAfter, ZenonT(60), SMTT(30) DEF RenewLost, Replied
<1>11. ASSUME NEW s \in Slot, Regained(s) PROVE ReleasedAtShutdown'
  BY <1>11, CallsAfter, RowsAfter DEF Regained, Replied
<1>12. ASSUME NEW s \in Slot, RegainFails(s) PROVE ReleasedAtShutdown'
  BY <1>12, CallsAfter, RowsAfter DEF RegainFails, Replied
<1>13. ASSUME NEW s \in Slot, RegainLost(s) PROVE ReleasedAtShutdown'
  BY <1>13, CallsAfter, RowsAfter, ZenonT(60), SMTT(30) DEF RegainLost, Replied
<1>14. ASSUME NEW s \in Slot, Disposed(s) PROVE ReleasedAtShutdown'
  BY <1>14, CallsAfter, RowsAfter DEF Disposed
<1>15. ASSUME NEW s \in Slot, Ask(s) PROVE ReleasedAtShutdown'
  BY <1>15, Rows, RowEdits DEF Ask
<1>16. ASSUME StartTurn PROVE ReleasedAtShutdown'
  BY <1>16, Queue, Rows, RowEdits DEF StartTurn, Finished, Continue, Now
<1>17. ASSUME StartClaims PROVE ReleasedAtShutdown'
  <2>1. This \in Slot /\ leaving[This] = "no"
    BY <1>17, Queue DEF StartClaims, Now
  <2> QED
    BY <1>17, <2>1 DEF StartClaims
<1>18. ASSUME NEW landed \in BOOLEAN, StartClaimFails(landed) PROVE ReleasedAtShutdown'
  BY <1>18, Queue, Rows, RowEdits DEF StartClaimFails, Claimable, Finished, Continue, Now
<1>19. ASSUME StartCreates PROVE ReleasedAtShutdown'
  BY <1>19, Queue, Rows, RowEdits DEF StartCreates, Finished, Continue, Now
<1>20. ASSUME StartCreateFails PROVE ReleasedAtShutdown'
  BY <1>20, Queue, Rows, RowEdits DEF StartCreateFails, Finished, Continue, Now
<1>21. ASSUME StartRenews PROVE ReleasedAtShutdown'
  BY <1>21, Queue, Rows, RowEdits DEF StartRenews, Leased, Carries, Finished, Continue, Now
<1>22. ASSUME NEW landed \in BOOLEAN, StartRenewFails(landed) PROVE ReleasedAtShutdown'
  BY <1>22, Queue, Rows, RowEdits DEF StartRenewFails, Leased, Carries, Finished, Continue, Now
<1>23. ASSUME StartReleases PROVE ReleasedAtShutdown'
  BY <1>23, Queue, Rows, RowEdits DEF StartReleases, Carries, Finished, Continue, Now
<1>24. ASSUME StartReleaseFails PROVE ReleasedAtShutdown'
  BY <1>24, Queue, Rows, RowEdits DEF StartReleaseFails, Finished, Continue, Now
<1>25. ASSUME ShutdownBegin PROVE ReleasedAtShutdown'
  BY <1>25, Rows, RowEdits DEF ShutdownBegin
<1>26. ASSUME NEW s \in Slot, ShutdownRenews(s) PROVE ReleasedAtShutdown'
  BY <1>26, Rows, RowEdits DEF ShutdownRenews, At, To
<1>27. ASSUME NEW s \in Slot, NEW landed \in BOOLEAN, ShutdownRenewFails(s, landed) PROVE ReleasedAtShutdown'
  BY <1>27, Rows, RowEdits DEF ShutdownRenewFails, At, To
<1>28. ASSUME NEW s \in Slot, ShutdownReleases(s) PROVE ReleasedAtShutdown'
  BY <1>28, Rows, RowEdits DEF ShutdownReleases, At, To
<1>29. ASSUME NEW s \in Slot, NEW landed \in BOOLEAN, ShutdownReleaseFails(s, landed) PROVE ReleasedAtShutdown'
  BY <1>29, Rows, RowEdits DEF ShutdownReleaseFails, At, To
<1>30. ASSUME ShutdownEnd PROVE ReleasedAtShutdown'
  BY <1>30, Rows, RowEdits DEF ShutdownEnd, At
<1>31. CASE UNCHANGED vars
  BY <1>31 DEF vars, This
<1> QED
  BY <1>1, <1>2, <1>3, <1>4, <1>5, <1>6, <1>7, <1>8, <1>9, <1>10, <1>11, <1>12, <1>13, <1>14, <1>15, <1>16, <1>17, <1>18, <1>19, <1>20, <1>21, <1>22, <1>23, <1>24, <1>25, <1>26, <1>27, <1>28, <1>29, <1>30, <1>31 DEF Next, HeartbeatStep, StartStep, CreateStep, ShutdownStep

\* The strengthening is inductive.
LEMMA IInvStep == IInv /\ [Next]_vars => IInv'
  BY TypesStep, ApartStep, LeavingStep, StartStaysAlone, CallsStep, FencesStep, ReleasedStep DEF IInv

LEMMA Invariance == Spec => []IInv
<1>1. Init => IInv
  BY InitIInv
<1>2. IInv /\ [Next]_vars => IInv'
  BY IInvStep
<1> QED
  BY <1>1, <1>2, PTL DEF Spec

\* A slot has one room at most in this process, however its heartbeats, restarts, starts
\* and shutdown interleave: it ticks, waits for its lease, or is being started
\* (instanceHub.ts, rooms, choose and start).
THEOREM OneRoom == Spec => []OneRoomPerSlot
<1>1. IInv => OneRoomPerSlot
  BY DEF IInv, StartIsAlone, OneRoomPerSlot
<1> QED
  BY <1>1, Invariance, PTL

\* No restart, join or transfer of this hub takes the row of a room it keeps, in its own
\* hands or recovering: only another process can fence it.
THEOREM FencesOnlyFromOutside == Spec => []NeverFencesItself
<1>1. IInv => NeverFencesItself
  BY DEF IInv
<1> QED
  BY <1>1, Invariance, PTL

\* A heartbeat that was on its way when the shutdown released a row does not take the
\* row back (registry.heartbeat's stopped_at test).
THEOREM ReleasedStays == Spec => []ReleasedAtShutdown
<1>1. IInv => ReleasedAtShutdown
  BY DEF IInv
<1> QED
  BY <1>1, Invariance, PTL

================================================================================
