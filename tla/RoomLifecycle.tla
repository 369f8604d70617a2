----------------------------- MODULE RoomLifecycle -----------------------------
(****************************************************************************)
(* One process's hub and the rooms of its slots: the heartbeat that renews  *)
(* or regains their leases, the restarts of stopped slots, the one queue of *)
(* room starts, and the shutdown (apps/server/src/game/instanceHub.ts).     *)
(*                                                                          *)
(* One unit of time is a heartbeat interval (5 s). A row of game_instances  *)
(* is named by whose lease it carries, as this hub sees it: its room's, its *)
(* running start's, another process's, or a UUID nothing lives under.       *)
(****************************************************************************)
EXTENDS Integers, Sequences, SequencesExt

CONSTANTS
  Slot,
  Primary,        \* the slot whose room exists before the hub does
  LeaseTtl,       \* LEASE_TTL_MS
  BootTtl,        \* the lease of a room being started (60 s)
  Grace,          \* LEASE_RECOVERY_GRACE_MS
  RegainMax,      \* LEASE_REGAIN_MAX_BACKOFF_MS; the first wait is one unit
  RestartMax,     \* ROOM_RESTART_MAX_BACKOFF_MS; the first wait is one unit
  MaxTakeovers,   \* bound: claims by other processes
  Bounds          \* bounds of a behaviour, see `bound'

ASSUME RoomAssumptions ==
  /\ Primary \in Slot /\ IsFiniteSet(Slot)
  /\ {LeaseTtl, BootTtl, Grace, RegainMax, RestartMax} \subseteq Nat \ {0}
  /\ MaxTakeovers \in Nat
  /\ Bounds \subseteq [slots: SUBSET Slot, starts: Nat \ {0}, faults: Nat]
  /\ \A b \in Bounds : Primary \in b.slots

VARIABLES
  bound,          \* fixed at the start: the slots in use, the starts players may have
                  \* in the queue, and how many statements and room creations may fail
  running,      \* slots in rooms: ticking, open to players
  recovering,   \* slots whose room waits for its lease
  regain,       \* per slot: the recovery's age, the wait before its next attempt, its attempts
  restart,      \* per slot: the restart scheduled for it, if any
  call,         \* per slot: the heartbeat's work for it
  heartbeating,
  starts,       \* starts waiting behind `creating'; the first one runs
  step,         \* where the running start is
  stopping,
  leaving,      \* per slot: where the shutdown is with its room
  down,         \* the shutdown is over
  row,          \* game_instances
  faults,
  takeovers

hub == <<running, recovering, regain>>
beat == <<call, heartbeating>>
starting == <<starts, step>>
ending == <<stopping, leaving, down>>
bounds == <<bound, faults, takeovers>>
vars == <<hub, restart, beat, starting, ending, row, bounds>>

AtMost(n, most) == IF n > most THEN most ELSE n

Less(n) == IF n = 0 THEN 0 ELSE n - 1

\* Backoffs double from one unit to a cap; attempts beyond that make no difference.
Backoff(attempts, cap) == AtMost(IF attempts <= 1 THEN 1 ELSE 2 ^ (attempts - 1), cap)
MaxAttempts == RegainMax + RestartMax

Owner == {"nobody", "room", "start", "other", "past"}
Row == [owner: Owner, left: 0 .. BootTtl + LeaseTtl, stopped: BOOLEAN]

NoRestart == [state |-> "none", wait |-> 0, attempts |-> 0]
Scheduled == [state |-> "waiting", wait |-> 1, attempts |-> 0]
Idle == [kind |-> "idle", reply |-> "none"]
Sent(kind) == [kind |-> kind, reply |-> "none"]

Claimable(r) == r.stopped \/ r.left = 0
Carries(s, owner) == row[s].owner = owner /\ ~row[s].stopped
Leased(s, owner) == Carries(s, owner) /\ row[s].left > 0

Lease(owner, ttl) == [owner |-> owner, left |-> ttl, stopped |-> FALSE]
Released(owner) == [owner |-> owner, left |-> 0, stopped |-> TRUE]

\* The room of s is stopped for good: what its row still says is nobody's any more.
Forgotten(s) == IF row[s].owner = "room" THEN [row[s] EXCEPT !.owner = "past"] ELSE row[s]

Fault == faults < bound.faults /\ faults' = faults + 1 /\ UNCHANGED <<bound, takeovers>>
--------------------------------------------------------------------------------
Init ==
  /\ bound \in Bounds
  /\ running = {Primary}
  /\ recovering = {}
  /\ regain = [s \in Slot |-> [age |-> 0, wait |-> 0, attempts |-> 0]]
  /\ restart = [s \in Slot |-> NoRestart]
  /\ call = [s \in Slot |-> Idle]
  /\ heartbeating = FALSE
  /\ starts = <<>>
  /\ step = "idle"
  /\ stopping = FALSE
  /\ leaving = [s \in Slot |-> "no"]
  /\ down = FALSE
  /\ row = [s \in Slot |-> IF s = Primary THEN Lease("room", LeaseTtl)
                           ELSE Released("nobody")]
  /\ faults = 0
  /\ takeovers = 0

\* Time passes; another process that is alive keeps its own lease fresh.
Tick ==
  /\ row' = [s \in Slot |-> IF row[s].owner = "other" THEN row[s]
                            ELSE [row[s] EXCEPT !.left = Less(@)]]
  /\ regain' = [s \in Slot |-> IF s \notin recovering THEN regain[s]
                  ELSE [regain[s] EXCEPT !.age = AtMost(@ + 1, Grace), !.wait = Less(@)]]
  /\ restart' = [s \in Slot |-> [restart[s] EXCEPT !.wait = Less(@)]]
  /\ UNCHANGED <<running, recovering, beat, starting, ending, bounds>>

\* Another process claims a slot that is free or whose lease has lapsed.
OtherClaims(s) ==
  /\ s \in bound.slots
  /\ takeovers < MaxTakeovers
  /\ takeovers' = takeovers + 1
  /\ Claimable(row[s])
  /\ row' = [row EXCEPT ![s] = Lease("other", LeaseTtl)]
  /\ UNCHANGED <<hub, restart, beat, starting, ending, bound, faults>>

\* It stops its room, or dies.
OtherLeaves(s) ==
  /\ Carries(s, "other")
  /\ row' = [row EXCEPT ![s] = Released("other")]
  /\ UNCHANGED <<hub, restart, beat, starting, ending, bounds>>
--------------------------------------------------------------------------------
(* The heartbeat: one at a time, one call per room at once, and each room   *)
(* acts on its own answer.                                                  *)

Abandoned == {s \in recovering : regain[s].age >= Grace}

\* Every room renews; a recovering one regains when its wait is over, and is stopped
\* once the grace has run out.
HeartbeatBegin ==
  /\ ~heartbeating
  /\ ~stopping
  /\ heartbeating' = TRUE
  /\ recovering' = recovering \ Abandoned
  /\ row' = [s \in Slot |-> IF s \in Abandoned THEN Forgotten(s) ELSE row[s]]
  /\ call' = [s \in Slot |->
                IF s \in Abandoned THEN Sent("stop, then restart")
                ELSE IF s \in running THEN Sent("renew")
                ELSE IF s \in recovering /\ regain[s].wait = 0 THEN Sent("regain")
                ELSE Idle]
  /\ UNCHANGED <<running, regain, restart, starting, ending, bounds>>

AwaitsDatabase(s) == call[s].kind \in {"renew", "regain"} /\ call[s].reply = "none"

Answers(s, reply) == call' = [call EXCEPT ![s].reply = reply]

\* Variant: the heartbeat takes a released row back.
DbHeartbeatRevives(s) ==
  /\ AwaitsDatabase(s)
  /\ IF row[s].owner = "room"
       THEN row' = [row EXCEPT ![s] = Lease("room", LeaseTtl)] /\ Answers(s, "held")
       ELSE Answers(s, "lost") /\ UNCHANGED row
  /\ UNCHANGED <<hub, restart, heartbeating, starting, ending, bounds>>

\* registry.heartbeat: renew, or take the lapsed row back.
DbHeartbeat(s) ==
  /\ AwaitsDatabase(s)
  /\ IF Carries(s, "room")
       THEN row' = [row EXCEPT ![s] = Lease("room", LeaseTtl)] /\ Answers(s, "held")
       ELSE Answers(s, "lost") /\ UNCHANGED row
  /\ UNCHANGED <<hub, restart, heartbeating, starting, ending, bounds>>

\* The statement fails, or its answer is lost after it committed.
DbHeartbeatFails(s, landed) ==
  /\ AwaitsDatabase(s)
  /\ Fault
  /\ row' = IF landed /\ Carries(s, "room") THEN [row EXCEPT ![s] = Lease("room", LeaseTtl)] ELSE row
  /\ Answers(s, "failed")
  /\ UNCHANGED <<hub, restart, heartbeating, starting, ending>>

Replied(s, kind, reply) == call[s] = [kind |-> kind, reply |-> reply]

\* Suspend: no tick and no admissions while the lease is in doubt.
Suspend(s) ==
  /\ Replied(s, "renew", "failed")
  /\ running' = running \ {s}
  /\ recovering' = recovering \cup {s}
  /\ regain' = [regain EXCEPT ![s] = [age |-> 0, wait |-> 1, attempts |-> 0]]
  /\ call' = [call EXCEPT ![s] = Idle]
  /\ UNCHANGED <<restart, heartbeating, starting, ending, row, bounds>>

Renewed(s) ==
  /\ Replied(s, "renew", "held")
  /\ call' = [call EXCEPT ![s] = Idle]
  /\ UNCHANGED <<hub, restart, heartbeating, starting, ending, row, bounds>>

\* The row is another's: the room is stopped, and no restart scheduled.
RenewLost(s) ==
  /\ Replied(s, "renew", "lost")
  /\ running' = running \ {s}
  /\ row' = [row EXCEPT ![s] = Forgotten(s)]
  /\ call' = [call EXCEPT ![s] = Sent("stop")]
  /\ UNCHANGED <<recovering, regain, restart, heartbeating, starting, ending, bounds>>

\* Variant: the regained room is still recovering.
RegainedTwice(s) ==
  /\ Replied(s, "regain", "held")
  /\ running' = running \cup {s}
  /\ call' = [call EXCEPT ![s] = Idle]
  /\ UNCHANGED <<recovering, regain, restart, heartbeating, starting, ending, row, bounds>>

Regained(s) ==
  /\ Replied(s, "regain", "held")
  /\ recovering' = recovering \ {s}
  /\ running' = running \cup {s}
  /\ call' = [call EXCEPT ![s] = Idle]
  /\ UNCHANGED <<regain, restart, heartbeating, starting, ending, row, bounds>>

RegainFails(s) ==
  /\ Replied(s, "regain", "failed")
  /\ LET n == AtMost(regain[s].attempts + 1, MaxAttempts) IN
       regain' = [regain EXCEPT ![s].attempts = n, ![s].wait = Backoff(n, RegainMax)]
  /\ call' = [call EXCEPT ![s] = Idle]
  /\ UNCHANGED <<running, recovering, restart, heartbeating, starting, ending, row, bounds>>

RegainLost(s) ==
  /\ Replied(s, "regain", "lost")
  /\ recovering' = recovering \ {s}
  /\ running' = running \ {s}
  /\ row' = [row EXCEPT ![s] = Forgotten(s)]
  /\ call' = [call EXCEPT ![s] = Sent("stop, then restart")]
  /\ UNCHANGED <<regain, restart, heartbeating, starting, ending, bounds>>

\* Variant: a room that could not be regained is not started again.
DisposedOnly(s) ==
  /\ call[s].kind \in {"stop", "stop, then restart"}
  /\ call' = [call EXCEPT ![s] = Idle]
  /\ UNCHANGED <<hub, restart, heartbeating, starting, ending, row, bounds>>

\* The stopped room's dispose is over; meanwhile its slot may have been started again.
Disposed(s) ==
  /\ call[s].kind \in {"stop", "stop, then restart"}
  /\ restart' = IF call[s].kind = "stop, then restart" /\ ~stopping
                  THEN [restart EXCEPT ![s] = Scheduled] ELSE restart
  /\ call' = [call EXCEPT ![s] = Idle]
  /\ UNCHANGED <<hub, heartbeating, starting, ending, row, bounds>>

Due == {s \in Slot : ~stopping /\ restart[s].state = "waiting" /\ restart[s].wait = 0}

\* When every room has acted, restarts that are due join the queue of starts; the
\* heartbeat does not wait for them.
HeartbeatEnd ==
  /\ heartbeating
  /\ \A s \in Slot : call[s] = Idle
  /\ heartbeating' = FALSE
  /\ restart' = [s \in Slot |-> IF s \notin Due THEN restart[s]
                                ELSE IF s \in running \cup recovering THEN NoRestart
                                ELSE [restart[s] EXCEPT !.state = "inFlight"]]
  /\ starts' = starts \o SetToSeq({[slot |-> s, for |-> "restart"] :
                                     s \in Due \ (running \cup recovering)})
  /\ UNCHANGED <<hub, call, step, ending, row, bounds>>
--------------------------------------------------------------------------------
(* Starts run one behind the other (`creating').                            *)

\* A hello that finds no room with space, or a transfer, asks for a room.
Ask(s) ==
  /\ s \in bound.slots \ running
  /\ Len(starts) < bound.starts
  /\ starts' = Append(starts, [slot |-> s, for |-> "player"])
  /\ UNCHANGED <<hub, restart, beat, step, ending, row, bounds>>

Now(where) == step = where /\ starts # <<>>
This == Head(starts).slot

\* The start is over: its restart, if it had one, is done with or waits longer.
Finished(ok) ==
  /\ starts' = Tail(starts)
  /\ step' = "idle"
  /\ restart' =
       IF Head(starts).for = "player" THEN restart
       ELSE IF ok THEN [restart EXCEPT ![This] = NoRestart]
       ELSE IF restart[This].state # "inFlight" THEN restart
       ELSE LET n == AtMost(restart[This].attempts + 1, MaxAttempts) IN
            [restart EXCEPT ![This] =
               [state |-> "waiting", wait |-> Backoff(n, RestartMax), attempts |-> n]]

Continue(where) == step' = where /\ UNCHANGED <<starts, restart>>

\* Variant: a start does not ask whether the slot's room is being recovered.
StartTurnUnchecked ==
  /\ Now("idle")
  /\ IF This \in running \/ stopping THEN Finished(This \in running) ELSE Continue("claim")
  /\ UNCHANGED <<hub, beat, ending, row, bounds>>

\* A start's turn: the slot may have got its room while it waited.
StartTurn ==
  /\ Now("idle")
  /\ IF This \in running \cup recovering \/ stopping
       THEN Finished(This \in running)
       ELSE Continue("claim")
  /\ UNCHANGED <<hub, beat, ending, row, bounds>>

StartClaims ==
  /\ Now("claim")
  /\ IF Claimable(row[This])
       THEN row' = [row EXCEPT ![This] = Lease("start", BootTtl)] /\ Continue("create")
       ELSE Finished(FALSE) /\ UNCHANGED row
  /\ UNCHANGED <<hub, beat, ending, bounds>>

\* The claim fails, or its answer is lost: the row waits for its TTL.
StartClaimFails(landed) ==
  /\ Now("claim")
  /\ Fault
  /\ row' = IF landed /\ Claimable(row[This])
              THEN [row EXCEPT ![This] = Lease("past", BootTtl)] ELSE row
  /\ Finished(FALSE)
  /\ UNCHANGED <<hub, beat, ending>>

\* createRoom: the world is restored and loaded. A hub that stops meanwhile is noticed.
StartCreates ==
  /\ Now("create")
  /\ Continue(IF stopping THEN "release" ELSE "renew")
  /\ UNCHANGED <<hub, beat, ending, row, bounds>>

StartCreateFails ==
  /\ Now("create")
  /\ Fault
  /\ Continue("release")
  /\ UNCHANGED <<hub, beat, ending, row>>

\* The renewal to running puts the room into the hub, stopping or not.
StartRenews ==
  /\ Now("renew")
  /\ IF Leased(This, "start")
       THEN /\ row' = [row EXCEPT ![This] = Lease("room", LeaseTtl)]
            /\ running' = running \cup {This}
            /\ Finished(TRUE)
       ELSE Continue("release") /\ UNCHANGED <<running, row>>
  /\ UNCHANGED <<recovering, regain, beat, ending, bounds>>

StartRenewFails(landed) ==
  /\ Now("renew")
  /\ Fault
  /\ row' = IF landed /\ Leased(This, "start")
              THEN [row EXCEPT ![This] = Lease("start", LeaseTtl)] ELSE row
  /\ Continue("release")
  /\ UNCHANGED <<hub, beat, ending>>

StartReleases ==
  /\ Now("release")
  /\ row' = IF Carries(This, "start") THEN [row EXCEPT ![This] = Released("past")] ELSE row
  /\ Finished(FALSE)
  /\ UNCHANGED <<hub, beat, ending, bounds>>

StartReleaseFails ==
  /\ Now("release")
  /\ Fault
  /\ row' = IF row[This].owner = "start" THEN [row EXCEPT ![This].owner = "past"] ELSE row
  /\ Finished(FALSE)
  /\ UNCHANGED <<hub, beat, ending>>
--------------------------------------------------------------------------------
(* The shutdown takes the rooms there are now: renews each as draining, lets *)
(* those drain, releases them, and forgets them all.                         *)

At(s, where) == leaving[s] = where
To(s, where) == leaving' = [leaving EXCEPT ![s] = where]

ShutdownBegin ==
  /\ ~stopping
  /\ stopping' = TRUE
  /\ leaving' = [s \in Slot |-> IF s \in running \cup recovering THEN "renew" ELSE "no"]
  /\ recovering' = {}
  /\ restart' = [s \in Slot |-> NoRestart]
  /\ UNCHANGED <<running, regain, beat, starting, down, row, bounds>>

ShutdownRenews(s) ==
  /\ At(s, "renew")
  /\ IF row[s].owner = "room" /\ row[s].left > 0
       THEN row' = [row EXCEPT ![s] = Lease("room", LeaseTtl)] /\ To(s, "drain")
       ELSE To(s, "fenced") /\ UNCHANGED row
  /\ UNCHANGED <<hub, restart, beat, starting, stopping, down, bounds>>

ShutdownRenewFails(s, landed) ==
  /\ At(s, "renew")
  /\ Fault
  /\ row' = IF landed /\ row[s].owner = "room" /\ row[s].left > 0
              THEN [row EXCEPT ![s] = Lease("room", LeaseTtl)] ELSE row
  /\ To(s, "fenced")
  /\ UNCHANGED <<hub, restart, beat, starting, stopping, down>>

\* The drained room's lease is released.
ShutdownReleases(s) ==
  /\ At(s, "drain")
  /\ \A t \in Slot : ~At(t, "renew")
  /\ row' = IF row[s].owner = "room" THEN [row EXCEPT ![s] = Released("room")] ELSE row
  /\ To(s, "released")
  /\ UNCHANGED <<hub, restart, beat, starting, stopping, down, bounds>>

ShutdownReleaseFails(s, landed) ==
  /\ At(s, "drain")
  /\ \A t \in Slot : ~At(t, "renew")
  /\ Fault
  /\ row' = IF landed /\ row[s].owner = "room"
              THEN [row EXCEPT ![s] = Released("room")] ELSE row
  /\ To(s, "fenced")
  /\ UNCHANGED <<hub, restart, beat, starting, stopping, down>>

ShutdownEnd ==
  /\ stopping
  /\ ~down
  /\ \A s \in Slot : ~At(s, "renew") /\ ~At(s, "drain")
  /\ running' = {}
  /\ down' = TRUE
  /\ UNCHANGED <<recovering, regain, restart, beat, starting, stopping, leaving, row, bounds>>
--------------------------------------------------------------------------------
HeartbeatStep(s) ==
  \/ DbHeartbeat(s)
  \/ \E landed \in BOOLEAN : DbHeartbeatFails(s, landed)
  \/ Suspend(s) \/ Renewed(s) \/ RenewLost(s)
  \/ Regained(s) \/ RegainFails(s) \/ RegainLost(s)
  \/ Disposed(s)

CreateStep == StartCreates \/ StartCreateFails

StartStep ==
  \/ StartTurn
  \/ StartClaims \/ \E landed \in BOOLEAN : StartClaimFails(landed)
  \/ CreateStep
  \/ StartRenews \/ \E landed \in BOOLEAN : StartRenewFails(landed)
  \/ StartReleases \/ StartReleaseFails

ShutdownStep ==
  \/ \E s \in Slot :
       \/ ShutdownRenews(s) \/ ShutdownReleases(s)
       \/ \E landed \in BOOLEAN : ShutdownRenewFails(s, landed) \/ ShutdownReleaseFails(s, landed)
  \/ ShutdownEnd

Next ==
  \/ Tick
  \/ \E s \in Slot : OtherClaims(s) \/ OtherLeaves(s)
  \/ HeartbeatBegin \/ HeartbeatEnd
  \/ \E s \in Slot : HeartbeatStep(s)
  \/ \E s \in Slot : Ask(s)
  \/ StartStep
  \/ ShutdownBegin \/ ShutdownStep

Spec == Init /\ [][Next]_vars

\* The interval timer fires again and again, and the registry answers or times out.
HeartbeatFairness ==
  /\ WF_vars(Tick)
  /\ WF_vars(HeartbeatBegin)
  /\ \A s \in Slot : WF_vars(HeartbeatStep(s))
  /\ WF_vars(HeartbeatEnd)

InBootLease == starts # <<>> /\ Leased(This, "start")

\* Starts come to an end, a world that is loaded again and again is loaded within its
\* boot lease at last, and another process does not keep a slot for ever.
FairSpec ==
  /\ Spec
  /\ HeartbeatFairness
  /\ WF_vars(StartStep)
  /\ SF_vars(InBootLease /\ StartCreates)
  /\ SF_vars(InBootLease /\ StartRenews)
  /\ \A s \in Slot : WF_vars(OtherLeaves(s))
--------------------------------------------------------------------------------
\* Types; the restart an attempt is in flight for has its start in the queue.
TypeOK ==
  /\ bound \in Bounds
  /\ running \subseteq Slot /\ recovering \subseteq Slot
  /\ regain \in [Slot -> [age: 0 .. Grace, wait: 0 .. RegainMax, attempts: 0 .. MaxAttempts]]
  /\ restart \in [Slot -> [state: {"none", "waiting", "inFlight"},
                           wait: 0 .. RestartMax, attempts: 0 .. MaxAttempts]]
  /\ call \in [Slot -> [kind: {"idle", "renew", "regain", "stop", "stop, then restart"},
                        reply: {"none", "held", "lost", "failed"}]]
  /\ starts \in Seq([slot: Slot, for: {"restart", "player"}])
  /\ step \in {"idle", "claim", "create", "renew", "release"}
  /\ leaving \in [Slot -> {"no", "renew", "drain", "fenced", "released"}]
  /\ row \in [Slot -> Row]
  /\ {heartbeating, stopping, down} \subseteq BOOLEAN
  /\ faults \in 0 .. bound.faults /\ takeovers \in 0 .. MaxTakeovers
  /\ \A s \in Slot : restart[s].state = "inFlight" =>
       \E i \in DOMAIN starts : starts[i] = [slot |-> s, for |-> "restart"]

\* A slot has one room at most: it ticks, or waits for its lease, or is being started.
OneRoomPerSlot ==
  /\ running \cap recovering = {}
  /\ step # "idle" => This \notin running \cup recovering

\* Only another process takes the row of a room this hub keeps: no restart, join or
\* transfer of its own fences the room it is trying to save (choose, start).
NeverFencesItself ==
  \A s \in running \cup recovering : row[s].owner \in {"room", "other"}

\* A released row stays released through whatever heartbeat was on its way.
ReleasedAtShutdown ==
  \A s \in Slot : leaving[s] = "released" /\ row[s].owner = "room" => row[s].stopped

\* The heartbeat is never held up by a start: as long as the registry answers, the next
\* one can begin.
HeartbeatNeverHangs == []<>(~heartbeating)

\* A room whose row another process has taken, and perhaps left since, is not simulated
\* for ever: it cannot save.
FencedRoomStops ==
  \A s \in Slot : s \in running /\ row[s].owner = "other" ~> s \notin running \/ stopping

\* A room whose lease is in doubt comes back, the same one or a successor: its recovery
\* ends in time, a restart is scheduled when it fails, and a scheduled restart succeeds once
\* the slot can be claimed.
RoomComesBack ==
  \A s \in Slot : s \in recovering \/ restart[s].state # "none" ~> s \in running \/ stopping

\* instanceHub.ts: "After a room is stopped for good its slot is claimed again through
\* the normal start path, even with nobody waiting."
StoppedSlotComesBack == Primary \notin running \cup recovering ~> Primary \in running \/ stopping

\* instanceHub.ts: "Shutdown already snapshotted the rooms: do not leave one running
\* (and leased) behind." A slot that had no room then keeps no lease when no statement
\* fails.
NoRoomStartedBehind ==
  down /\ starts = <<>> /\ faults = 0 =>
    \A s \in Slot : leaving[s] = "no" => ~Leased(s, "room") /\ ~Leased(s, "start")
================================================================================
