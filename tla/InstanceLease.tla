----------------------------- MODULE InstanceLease -----------------------------
(****************************************************************************)
(* The lease of one room slot: a row of game_instances, the rooms that      *)
(* claim it and the guarded transactions they write game state with         *)
(* (packages/persistence/src/pg/instanceRegistry.ts and pgStore.ts).        *)
(*                                                                          *)
(* Every claim carries a fresh random UUID, so a holder is one room's life: *)
(* it claims once, and what it holds is its UUID and the version it got.    *)
(* Clocks are not synchronised: `now' in a call is any member of Time.      *)
(****************************************************************************)
EXTENDS Integers

CONSTANTS
  Holder,       \* the UUIDs claims are made with
  NoHolder,     \* no UUID: the row is absent, or nobody locks it
  Process,      \* server processes
  ProcessOf,    \* the process that makes the claim
  Time,         \* what a process may read from its clock
  BootTtl,      \* lease lifetime while the room loads (60 s)
  LeaseTtl,     \* lease lifetime of a running room (15 s)
  SharedGuard   \* slot 0 of the secondary and surf places: one guard per process

ASSUME LeaseAssumptions ==
  /\ NoHolder \notin Holder
  /\ ProcessOf \in [Holder -> Process]
  /\ Time \subseteq Nat
  /\ BootTtl \in Nat \ {0}
  /\ LeaseTtl \in Nat \ {0}
  /\ SharedGuard \in BOOLEAN

VARIABLES
  row,        \* the slot's row of game_instances
  phase,      \* how far each holder's room has come
  version,    \* the lease version each holder was granted, 0 before its claim
  missed,     \* holders between the two UPDATEs of one heartbeat transaction
  guardRef,   \* per process: the lease its shared guard asserts
  lock,       \* who locks the row with SELECT ... FOR UPDATE
  writing,    \* holders whose transaction has passed the guard
  commits     \* history: the version that wrote, the version the row carried

vars == <<row, phase, version, missed, guardRef, lock, writing, commits>>

LiveState == {"starting", "running", "draining"}
RowState == LiveState \cup {"absent", "stopped"}

\* claimed: the claim has answered. built: createRoom has opened the room's store.
\* gone: stopped because the row is no longer its own. abandoned: stopped because the
\* grace ran out. released: the hub has shut down. dead: nothing of it runs any more.
Phase == {"fresh", "claimed", "built", "gone", "abandoned", "released", "dead"}

Row == [state: RowState, holder: Holder \cup {NoHolder}, version: Nat, until: Nat]
--------------------------------------------------------------------------------
(* The statements of the registry, as conditions on a row and new rows.     *)

CanClaim(r, now) == r.state \in {"absent", "stopped"} \/ r.until <= now

Claimed(r, h, now) ==
  [state |-> "starting", holder |-> h, version |-> r.version + 1, until |-> now + BootTtl]

OwnedBy(r, h, v) == r.holder = h /\ r.version = v

CanRenew(r, h, v, now) == OwnedBy(r, h, v) /\ r.until > now

CanRegain(r, h, v) == OwnedBy(r, h, v) /\ r.state # "stopped"

Renewed(r, now, state) ==
  [state |-> state, holder |-> r.holder, version |-> r.version, until |-> now + LeaseTtl]

Stopped(r) ==
  [state |-> "stopped", holder |-> r.holder, version |-> r.version, until |-> 0]

\* Variant: the guard asks for a live lease, not for its own.
HeldByAnyone(r, h, v, now) == r.until > now /\ r.state \in LiveState

Held(r, h, v, now) == OwnedBy(r, h, v) /\ r.until > now /\ r.state \in LiveState
--------------------------------------------------------------------------------
Init ==
  /\ row = [state |-> "absent", holder |-> NoHolder, version |-> 0, until |-> 0]
  /\ phase = [h \in Holder |-> "fresh"]
  /\ version = [h \in Holder |-> 0]
  /\ missed = {}
  /\ guardRef = [p \in Process |-> NoHolder]
  /\ lock = NoHolder
  /\ writing = {}
  /\ commits = {}

\* An UPDATE waits while a transaction holds the row lock.
Unlocked == lock = NoHolder

\* The process has no room of this slot, running, recovering or being created, and
\* its hub has not shut down.
SlotFree(p) ==
  \A k \in Holder : ProcessOf[k] = p => phase[k] \notin {"claimed", "built", "released"}

\* A claim that succeeds. The process may never see the answer (answered = FALSE):
\* the row then waits for its TTL under a UUID nobody uses.
Claim(h, now, answered) ==
  /\ phase[h] = "fresh"
  /\ SlotFree(ProcessOf[h])
  /\ Unlocked
  /\ CanClaim(row, now)
  /\ row' = Claimed(row, h, now)
  /\ version' = [version EXCEPT ![h] = row.version + 1]
  /\ phase' = [phase EXCEPT ![h] = IF answered THEN "claimed" ELSE "dead"]
  /\ UNCHANGED <<missed, guardRef, lock, writing, commits>>

\* createRoom opens the room's store; slot 0 of a secondary place points the guard
\* it shares with earlier rooms at this lease.
BuildRoom(h) ==
  /\ phase[h] = "claimed"
  /\ phase' = [phase EXCEPT ![h] = "built"]
  /\ guardRef' = [guardRef EXCEPT ![ProcessOf[h]] = h]
  /\ UNCHANGED <<row, version, missed, lock, writing, commits>>

\* The renewal after the world has loaded (running) or at shutdown (draining).
Renew(h, now, state) ==
  /\ phase[h] = "built"
  /\ Unlocked
  /\ CanRenew(row, h, version[h], now)
  /\ row' = Renewed(row, now, state)
  /\ UNCHANGED <<phase, version, missed, guardRef, lock, writing, commits>>

\* First UPDATE of a heartbeat: renew, or find the lease lapsed or replaced.
HeartbeatRenew(h, now) ==
  /\ phase[h] = "built"
  /\ h \notin missed
  /\ Unlocked
  /\ IF CanRenew(row, h, version[h], now)
       THEN row' = Renewed(row, now, "running") /\ UNCHANGED missed
       ELSE missed' = missed \cup {h} /\ UNCHANGED row
  /\ UNCHANGED <<phase, version, guardRef, lock, writing, commits>>

\* Second UPDATE: other transactions may have committed since the first. When it
\* matches nothing the hub stops the room at once.
HeartbeatRegain(h, now) ==
  /\ h \in missed
  /\ Unlocked
  /\ missed' = missed \ {h}
  /\ IF CanRegain(row, h, version[h])
       THEN row' = Renewed(row, now, "running") /\ UNCHANGED phase
       ELSE /\ phase' = [phase EXCEPT ![h] = IF @ = "built" THEN "gone" ELSE @]
            /\ UNCHANGED row
  /\ UNCHANGED <<version, guardRef, lock, writing, commits>>

\* The transaction fails between its statements: the hub suspends the room and
\* will send another heartbeat.
HeartbeatFails(h) ==
  /\ h \in missed
  /\ missed' = missed \ {h}
  /\ UNCHANGED <<row, phase, version, guardRef, lock, writing, commits>>

\* registry.stop: the hub shuts down, or the start failed after its claim (the room
\* then never ran and has nothing queued).
Stop(h) ==
  /\ phase[h] = "built"
  /\ Unlocked
  /\ row' = IF OwnedBy(row, h, version[h]) THEN Stopped(row) ELSE row
  /\ \/ phase' = [phase EXCEPT ![h] = "released"]
     \/ h \notin missed \cup writing /\ phase' = [phase EXCEPT ![h] = "dead"]
  /\ UNCHANGED <<version, missed, guardRef, lock, writing, commits>>

\* No heartbeat succeeded within the grace: the room is stopped, its row kept.
Abandon(h) ==
  /\ phase[h] = "built"
  /\ phase' = [phase EXCEPT ![h] = "abandoned"]
  /\ UNCHANGED <<row, version, missed, guardRef, lock, writing, commits>>

\* The lease a room's store asserts before it writes.
Guard(h) == IF SharedGuard THEN guardRef[ProcessOf[h]] ELSE h

\* Variant: the guard runs outside the write's transaction, so its lock is gone.
WriteBeginUnlocked(h, now) ==
  /\ phase[h] \in {"built", "gone", "abandoned", "released"}
  /\ h \notin writing
  /\ Unlocked
  /\ Guard(h) \in Holder
  /\ Held(row, Guard(h), version[Guard(h)], now)
  /\ writing' = writing \cup {h}
  /\ UNCHANGED <<row, phase, version, missed, guardRef, lock, commits>>

\* A queued write opens its transaction: assertHeld finds the lease and locks the
\* row. A stopped room's write-behind queue still runs, so it may do this too.
WriteBegin(h, now) ==
  /\ phase[h] \in {"built", "gone", "abandoned", "released"}
  /\ h \notin writing
  /\ Unlocked
  /\ Guard(h) \in Holder
  /\ Held(row, Guard(h), version[Guard(h)], now)
  /\ lock' = h
  /\ writing' = writing \cup {h}
  /\ UNCHANGED <<row, phase, version, missed, guardRef, commits>>

WriteCommit(h) ==
  /\ h \in writing
  /\ commits' = commits \cup {[writer |-> version[h], owner |-> row.version]}
  /\ writing' = writing \ {h}
  /\ lock' = IF lock = h THEN NoHolder ELSE lock
  /\ UNCHANGED <<row, phase, version, missed, guardRef>>

\* A statement fails or the connection drops: rolled back, the lock released.
WriteAbort(h) ==
  /\ h \in writing
  /\ writing' = writing \ {h}
  /\ lock' = IF lock = h THEN NoHolder ELSE lock
  /\ UNCHANGED <<row, phase, version, missed, guardRef, commits>>

\* The process ends with every room it built; its open transactions roll back.
Crash(p) ==
  LET mine == {h \in Holder : ProcessOf[h] = p /\ phase[h] # "fresh"} IN
  /\ phase' = [h \in Holder |-> IF h \in mine THEN "dead" ELSE phase[h]]
  /\ missed' = missed \ mine
  /\ writing' = writing \ mine
  /\ lock' = IF lock \in mine THEN NoHolder ELSE lock
  /\ UNCHANGED <<row, version, guardRef, commits>>

HolderStep(h) ==
  \/ \E now \in Time, answered \in BOOLEAN : Claim(h, now, answered)
  \/ BuildRoom(h)
  \/ \E now \in Time, state \in {"running", "draining"} : Renew(h, now, state)
  \/ \E now \in Time : HeartbeatRenew(h, now)
  \/ \E now \in Time : HeartbeatRegain(h, now)
  \/ HeartbeatFails(h)
  \/ Stop(h)
  \/ Abandon(h)
  \/ \E now \in Time : WriteBegin(h, now)
  \/ WriteCommit(h)
  \/ WriteAbort(h)

Next ==
  \/ \E h \in Holder : HolderStep(h)
  \/ \E p \in Process : Crash(p)

Spec == Init /\ [][Next]_vars
--------------------------------------------------------------------------------
\* Types; a row is absent exactly until the first claim, and a holder has a version
\* exactly when it has claimed (game_instances, InstanceLease).
TypeOK ==
  /\ row \in Row
  /\ row.state = "absent" <=> row.version = 0
  /\ row.state = "absent" <=> row.holder = NoHolder
  /\ phase \in [Holder -> Phase]
  /\ version \in [Holder -> Nat]
  /\ \A h \in Holder : version[h] = 0 <=> phase[h] = "fresh"
  /\ missed \subseteq Holder
  /\ guardRef \in [Process -> Holder \cup {NoHolder}]
  /\ lock \in Holder \cup {NoHolder}
  /\ writing \subseteq Holder
  /\ commits \subseteq [writer: Nat, owner: Nat]

\* docs/instances.md: a former holder cannot commit after its lease is replaced. Each
\* commit is made by the version the row carries at that moment, whatever the
\* interleaving of claims, lapses, regains, crashes and the clocks' disagreement.
FormerHolderCannotCommit == \A c \in commits : c.writer = c.owner

\* The versions order the rooms that ever held the slot: no two share one, so
\* holder and version together name a single room's life.
VersionsAreUnique ==
  \A h, k \in Holder : version[h] = version[k] /\ version[h] # 0 => h = k

\* A heartbeat that matched nothing means the row can never be this room's again:
\* the hub is right to stop the room instead of retrying.
NullHeartbeatIsFinal ==
  \A h \in Holder :
    phase[h] \in {"gone", "released"} => row.holder # h \/ row.state = "stopped"

\* A released row stays released until a new claim: a heartbeat already on its way
\* when the room was stopped does not bring the lease back.
ReleasedStaysReleased ==
  [][row.state = "stopped" /\ row'.state # "stopped" => row'.version > row.version]_vars

\* Only a claim hands the row to another holder, and never while a transaction that
\* has passed its guard is open (the FOR UPDATE lock).
OwnerChangesBetweenWrites ==
  [][row'.holder # row.holder =>
       row'.version = row.version + 1 /\ writing = {}]_vars

\* The lease implements the fenced store.
Store == INSTANCE FencedStore WITH epoch <- row.version, commits <- commits
Fenced == Store!StoreSpec
================================================================================
