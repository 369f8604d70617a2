# OpenVibe.Games: TLA+ models and proofs

OpenVibe.Games is an authoritative game server. It simulates rooms in memory, never awaits I/O in its
tick, saves behind the tick into PostgreSQL and fences rooms with leases kept in the same database. Around
the rooms stand a map editor, casual web games, mods, and services of the platform it trades with. The code
is sequential TypeScript, but almost every handler awaits the database, another handler, a client or a
timer, and between two awaits anything else may run. This directory models that: the order of awaits, the
queues, the messages, the failures, the clocks and the processes, with the data reduced to what the
properties tell apart.

Paths below are relative to the repository. `apps/server/src/game/instanceHub.ts` is called *the hub*,
`placeRouter.ts` *the router*.

## 1. Inventory

### What is modelled

| Component | State | Operations | Hard behaviour | What makes it correct |
|---|---|---|---|---|
| Instance leases (`persistence/src/pg/instanceRegistry.ts`, `pgStore.ts`) | one row per slot: state, holder UUID, version, expiry | claim, renew, heartbeat (renew, else regain), stop, assertHeld inside a write's transaction | clocks that differ, lost answers, crashes, lapsed leases that come back, writes of a stopped room still queued | a commit is made by the lease in force; versions name one room's life |
| Write-behind flusher (`game/flusher.ts`, `systems/persistence.ts`, the dirty sets of `gameWorld.ts`) | dirty flags, deleted ids, queue of jobs, the payload in flight | checkpoint, disconnect save with retries, restore after failure, shutdown, drain, load | memory changes under a payload in flight; a failure that had committed; a shutdown during a checkpoint; a crash anywhere | nothing forgotten, nothing stored taken back, the database holds one whole state of the room |
| Rooms of a hub (the hub) | `rooms`, `recovering`, `restarts`, `creating`, `stopping` | heartbeat of every room, suspend, regain, stop, restart, start, shutdown | heartbeats, starts and the shutdown interleave at every await | one room per slot; the hub never fences itself; a room in doubt comes back |
| Transfers and occupancy (the hub's `choose`, `transfer`, `reserved`, `entries`; `systems/sessions.ts`) | who is routed where, places reserved, sessions per room | hello, reserve, drain, leave, join, go back | capacity checked across awaits; every step of a transfer can fail; rooms stop under it | reservations balance; overbooking is bounded; a player is in the room its messages go to |
| Admission and sessions (the router, the hub, `systems/sessions.ts`, `systems/context.ts`) | connections, the admission chain, sessions by connection and by player | hello, superseding, drain, join, disconnect, suspension | clients that leave during their own join, one character over several places, saves still queued | one live session per character, none without a client, no save taken back, every hello answered |
| Replication and held props (`game/replication.ts`, `systems/replication.ts`, `physics.ts`, `interaction.ts`, `manipulation.ts`, `combat.ts`, `vehicles.ts`; client `state/clientState.ts`) | what each session has been told, motion of props, latches, ropes; the client's mirror | spawn, despawn, diff of interests, freeze, settle, grab, tie, map reload, join, leave | messages go to whoever knows a prop *now*; interest and changes cross; players leave while holding | the mirror is what the server thinks it is; what rests is shown where it rests; one beam per prop |
| Prediction (`systems/movement.ts`, client `game/localPlayer.ts`) | pending inputs, the server's queue, credit, acknowledgements | predict, send, simulate, coast, shed, snapshot, replay, transfer | overflow, starvation, late snapshots, a new session while inputs are on their way | a client converges to what the server has |
| Map editor (`net/editorLocks.ts`, `editorWs.ts`, `mapStore.ts`, `httpServer.ts`; client `editor/*`) | locks with leases, peers; undo stacks; the map on disk, pages, drafts | lock, renew, release, lapse, reconnect; do, undo, redo, gestures; save with If-Match, poll, resolve, reload | grants, lapses and reconnections cross; a save answers after further edits | no belief without a correction on its way; undo is exact; no saved or unsaved work lost unseen |
| Mods (`mods/registry.ts`, `routes.ts`, `networkGrants.ts`, `runtime.ts`) | a local copy of a principal kept elsewhere | staff requests, events in any order and again, failed writes, boot | an answer and an event of the same change cross | a revocation is final; the copy follows its original |
| Boards and rewards (`platform/playSync.ts`, `game/progression.ts`, `platform/inventoryRewards.ts`) | rows written behind, positions of streams; grants pending, failed, made | commit, adopt, read, post, move on; settle, retry, merge | rows that commit behind the position; accounts that merge under a grant | every row is posted; every reward arrives once |
| Creator worlds (`worlds/worldHost.ts`, `startWorldHub.ts`, `worldRoutes.ts`, `sharing.ts`, `pg/creatorWorlds.ts`, the router's chain) | rows of worlds and share rows; worlds running and stopping, map overrides; leases | open behind the chain, refuse, start, fail to start, sweep, stop; publish, unpublish, hide, put back, delete, save map and scripts, erase | a hello reads, then awaits four times; requests read, check, write, sync and then queue; erasures pass the chain by | slots within the limit, the stored map runs, closed worlds empty, statuses and share rows agree, nothing of a removed world stays |
| Casual games (`packages/casual/src/actions.ts`, `casual/store.ts`, `pg/casualData.ts`, the page's retries) | saves, ledger, keys, pages | every action, sign-in adoption, pruning, erasure | an answer lost after the change; the save changes owner between two tries | each key pays once; the ledger explains the save |

How they interact: the router passes a hello to a place's hub after closing the character's other
connections; the hub picks or starts a room (claim, createRoom, renew) and hands over the connection; the
room's session system drains the room's flusher and reads the character; a creator world is started, swept and
stopped behind the same chain, where its routes queue what they change; the room's tick marks rows dirty,
tells clients and asks for checkpoints; every transaction of the flusher first calls the lease guard; the
hub's heartbeat suspends, regains or stops rooms; rounds that end go through the progress writer to boards
and rewards; the process' graceful stop runs the hub's shutdown.

### What is not modelled, and why

| Component | Why |
|---|---|
| Gameplay rules (`packages/gameplay`), most of the gameplay systems (inventory, crafting, economy, surf, events) | Synchronous in the tick and sequential; unit tests reach them. What was met while reading is in section 3. |
| WebSocket transport and tickets | A ticket is taken by one atomic command of Valkey or one `Map.delete`; the rest is parsing and I/O. |
| Token cutoffs, the outbox, staff rights | Single statements of the database; the events' delivery is modelled for mods. |
| AI matches | One sequential job; it shares nothing with the rooms. |
| Game loop, watchdog, graceful stop | The tick triggers steps of the modules below; the stop is a fixed sequence. |
| Physics, content, protocol, rendering, pages | Numeric simulation, definitions, codecs, drawing, read-only routes. |

`PROJECT.json` lists every component with its sources, and every hazard with its line.

## 2. Modules

```
FencedStore <-refines- InstanceLease      InstanceLeaseMC      InstanceLeaseProofs
WriteBehind <-refines- Flusher            FlusherMC            FlusherProofs
                       RoomLifecycle      RoomLifecycleMC      RoomLifecycleProofs
                       RoomTransfers      RoomTransfersMC      RoomTransfersProofs
                       CharacterSessions  CharacterSessionsMC  AccountProofs
                       RoomView, InputSync                     RoomMC      PlayerProofs
                       EditorLocks, EditorHistory, EditorSaves EditorMC    EditorProofs
                       PlaySync, InventoryRewards              PlatformMC  AccountProofs
                       CasualSaves, ModGrants                  RecordsMC   PlayerProofs, RoutesProofs
                       WorldHost <- WorldRoutes                WorldsMC    RoutesProofs
```

`PlayerProofs` holds the proofs about `RoomView`, `InputSync` and `CasualSaves`, `AccountProofs` those about
`CharacterSessions` and `PlaySync`, `RoutesProofs` those about `ModGrants` and `WorldRoutes`, `EditorProofs` those
about the editor's three modules.

`XMC` extends its modules with the model values its `.cfg` files use. A definition marked "Variant" in a
comment is a plausible mistake in the operator that follows it; no specification uses it. Replacing the
operator by it breaks the property that guards against the mistake (`PROJECT.json`, "mutants").

`RoomMC`, `EditorMC`, `PlatformMC` and `RecordsMC` hold several components that share no state. A rigid variable `part`
says which one a behaviour is about; the others rest in their initial state. Likewise `may`
(`CharacterSessions`, `WorldRoutes`), `bound` (`RoomLifecycle`) and `scene` (`RoomView`) are chosen at the start of a
behaviour and never change: they say which of several sets of conditions it runs under, so that one run
covers several bounds that together would be too large.

Several modules keep *history variables* that say what has happened to whom: `early` (`Flusher`), `doubt`
(`ModGrants`), `crossed` (`EditorSaves`), `mixed` (`EditorHistory`), `crossed`, `unsynced` and `torn`
(`WorldRoutes`). No action's guard or effect on the system depends on them. Where the code breaks what it says in one
kind of interleaving, the model takes that step as the code does, the history notes whom it touched, and the
property excepts those alone; the same property without the exception stands beside it, and section 3 says how
the code violates it.

### FencedStore and InstanceLease

`InstanceLease` is one row of `game_instances` and the rooms that hold it over time. Every claim uses a
fresh `randomUUID()`, so a *holder* is one room's life: it claims once. Each statement of the registry is a
condition on the row and a new row (`CanClaim`/`Claimed`, `CanRenew`/`Renewed`, `CanRegain`, `Stopped`,
`Held`). The heartbeat's transaction is two UPDATEs under READ COMMITTED, each its own step
(`HeartbeatRenew`, `HeartbeatRegain`), with `missed` in between. `WriteBegin` is the guard `assertHeld`,
which locks the row with FOR UPDATE until `WriteCommit` or `WriteAbort`. Every UPDATE waits for that lock.
The time passed to a call is any member of `Time`: clocks of processes are not assumed to agree, or even to
go forward. A claim may commit without its answer arriving, a process may crash at any step.

`Guard` is the lease a store's guard asserts. In most rooms `main.ts` closes over the room's own lease
(`SharedGuard = FALSE`). In slot 0 of the secondary place (`main.ts` near line 554) and of a surf place
(near 658) the guard reads a variable the next room overwrites (`SharedGuard = TRUE`, `guardRef`).

`FencedStore` is the promise: numbered ownerships, and every commit is made by the one in force.
`InstanceLease` refines it with the row's version as the epoch.

### WriteBehind and Flusher

`Flusher` is one room's memory, its queue and its database. A world row (entity, NPC, constraint) is a
version, 0 when absent. A character is the set of *deeds* it has done, so losing one is losing progress.
`Checkpoint` copies everything dirty, clears the flags as it copies and is coalesced while another is
active. The head of `queue` runs: it commits, fails, or commits and loses its answer (`landed`).
`CheckpointFails` is the job's error path and `restoreDirty`. `SaveFails` retries in place, ahead of
everything behind it, up to `MaxTries` and not when the character is back. `Shutdown` marks all sessions
dirty and queues a final checkpoint that copies when its turn comes (`BuildFinal`), or copies at once when
none is active. `Restart` is the process' end and the successor's load. `taken` is a set with at most one
payload; its `image` is a history field, the whole world the payload was copied from. `Join` reads the
character whether or not its saves have ended: the code drains the queue for five seconds and does not look
at the result. `early` are the characters read before a save of their own had ended, until they are read in time again.

`WriteBehind` is the promise: the durable world is always one whole world the room has been in; a
checkpoint moves it to a copy taken later, a crash falls back to it. `Flusher` refines it although its
payloads carry only dirty rows and deletes.

### RoomLifecycle

One hub, its slots and, as it sees them, the rows: a row is leased to this hub's *room*, to its running
*start*, to an *other* process, to a UUID that lives nowhere (*past*), or to nobody. One unit of time is a
heartbeat interval (5 s). The heartbeat starts when none runs, sends one call per room, the database answers
each or fails, and each room acts on its own answer; `HeartbeatEnd` queues restarts that are due. The queue
of starts runs one start at a time through turn, claim, createRoom, renew and, on a failure, release; every
await is a step, and `stopping` is looked at only where the code does. The shutdown takes the rooms there
are, renews each as draining, releases those it could renew once all renewals are over, and clears the hub.

### RoomTransfers

The same hub with the leases left out and the players put in: `rooms`, `recovering` and the slot of every
room started so far (`slotOf`), the sessions of each room, `entry` (the slot a connection's messages go to),
`reserved`, and for each connection the await its pending message is at (`task`). A hello runs behind the
admission chain: superseding, the two loops of `choose`, a start, routing, the head count of the room, the
session, and the look back. A transfer starts its room, reserves, drains the source, leaves it, joins the
target and, whenever one of these fails, goes back. Rooms are suspended, regained and stopped at any point;
a stopped slot may be started again. The order of the hub's map of rooms is abstracted: any room with
capacity may be chosen.

### CharacterSessions

One character, its connections, the router's admission chain, and per place one room with its sessions and
save queue. The running hello goes through its turn, superseding and draining the character's other
connections one by one, the hub's admission, the join's drain and read, the session's registration, and the
look back at whether the client has left meanwhile. `Disconnect` is the router's and the hub's
`onDisconnect`; the hub finds the room only while it is in `rooms`, so a room that is recovering keeps the
session. `RoomForgets` also removes `byPlayer` when the departing session is not the newest, as
`SessionRegistry.remove` does. A save that fails is retried by the queue; here it only takes longer.

### RoomView and InputSync

`RoomView` is what clients have been told of a room's props. The connection delivers in order, so a client's
mirror is written when the message is sent: it is the mirror the client will have. `known` is the session's
set of told props; every broadcast goes to those who know the prop at that moment, and `Replicate` is the
diff of a player's interests with its hysteresis. A prop is dynamic or frozen, moves, settles (`onSettle`
tells its knowers and takes it out of the stream of motion), is grabbed, held, dropped, frozen, tied, cut,
picked up, destroyed or moved by a saved map. A player joins, leaves, or transfers and may come back
into the same instance (`returned`). `untold` names the props changed without a message.
Space is a line, on which only distances count.

`InputSync` is one player's prediction. A position is the sequence of inputs that led to it, which is what a
deterministic `stepMovement` makes it. The server's credit, its catch-up, its queue's limit and the coasting of
a starved player are as in `systems/movement.ts`; `upset` records what made the server differ from the
prediction. What is unacknowledged is a suffix of the sequence of inputs, the client's and the server's alike. A
transfer gives the player a new session while inputs of the old one are on their way.

### EditorLocks, EditorHistory, EditorSaves

`EditorLocks`: `editorLocks.ts` and `editorWs.ts` on one side, `lockController.ts`, `editorConnection.ts` and
the editor's gestures on the other, two FIFO channels per connection between them. A lapse is the sweep that
frees the locks of a peer whose heartbeats stopped; a connection may break and be opened again under a new
peer id. A connection change while a request is pending leaves `pending` waiting, as the code does.

`EditorHistory`: `commandHistory.ts` over a document of objects: commands as sequences of changes with the
value before and after, coalescing, trimming, the saved marker; gestures of `transformSession.ts`, which alone
open a transaction. Nothing waits for a gesture: commands, undo, redo, a save and the adoption of another
editor's map happen in its middle as well, and change what they do in the code. `Settled` is the document with
what is open taken back. What a command, or a stack of them, makes of a document is a recursive function
(`DoAll`, `UndoEach`, `RedoEach`), so that it can be proved about.

`EditorSaves`: `mapStore.ts` and the map route, and in each page the save controller, its polls, its conflict
dialog and the drafts. A map is a set of edits and its revision is the map itself. Several saves and several
reads may be under way, of one page and of several: the server loads and stores in two steps (`Loads`,
`Stores`), and a page edits, polls and saves again while a save of its own is under way. `crossed` are the edits
a save got wrong: those stored between another save's load and its store, and those that came into the page or
left it between a save's snapshot and its answer.

### ModGrants, PlaySync, InventoryRewards

`ModGrants`: one mod's principal at the network (external: a status, a set of capabilities and a revision), the
registry's rows and in-memory view, and the calls served side by side, one in each slot of `Request`: staff
requests that ask the network first and apply its answer after, and events that arrive late, out of order and
more than once. Each reads the view, awaits its transaction (`Commit`) and then the two reads of `refresh`
(`RefreshRow`, `RefreshGrants`, `RefreshView`), with the other call's steps in between; writes fail, and the
process crashes. The read of the principals at boot is one call that runs alone: `main.ts` awaits it (`:297`)
long before it listens (`:1511`), so that no handler and no event is served beside it. `doubt` says why the copy
may differ from its principal.

`PlaySync`: rooms submit rounds and achievements, the progress writer commits them behind, and the stream reads
rows past its position in the order of their time, posts a batch and moves on. A guest's rows become an
account's by adoption. A position (`CursorOf`) is a time and, among rows of one time, a key; `ReadBatch` is the
query with its ORDER BY and LIMIT, said as what is selected (`Selected`). Play (external) may refuse or lose its
answer; the process may crash.

`InventoryRewards`: the grants of achievements to the platform's inventory (external) by two workers, one of
each unlock and one that scans what is due, with retries, backoff and merges of accounts.

### CasualSaves

The casual games' rules as one reducer (`packages/casual/src/actions.ts`) under the store's transaction: the
action's key, the save's row, the ledger. Pages send an action up to three times under one key; answers are
lost; a guest signs in and its save is adopted, an old save is pruned, an account is erased. Time is read
before the row is locked (`casual/routes.ts`), which is the time of the change.

### WorldHost and WorldRoutes

`WorldHost` is the admission chain with the creator worlds behind it. `chain` is the promise chain of
`serialize` and of the hellos: its head is the job that runs, `step` the await it is at. A hello reads the
world, its team and share row, checks who may join (`MayJoin` is `mayJoin`), takes the map as override,
ensures the place's row, claims slot 0, builds the room, renews, and only then lets its client in. The
refusals, a start that fails, a start that throws and a client that goes meanwhile are the other ways out.
`Sweep`, `WorldChanged`, `RemoveBegins` and `ApplyMap` are the other jobs; `StopBegins` and `StopEnds` are
the two halves of `stop`, with the shutdown between them. `due` stands for `activeAt`: the worlds nobody has
been seen in for `idleMs`. A sweep that stopped a world starts its pass again, which covers the code's order
of worlds and any other.

`WorldRoutes` EXTENDS it with the API (`may` holds the acts and the worlds of a behaviour): a PATCH of the
status reads and checks, updates, syncs the share row and queues `changed`, with other requests between these
steps. Deletion removes the row as the last step of its job; an erasure removes rows at once, whatever the chain
is doing. Requests about one world may be under way together (`crossed`: one has found the row changed since it
read it), a share row may fail to be written (`unsynced`), and an erasure may come just before the opening
writes the place's row (`torn`).

A client has one connection at a time here (superseding is in `CharacterSessions`), a hub is one room
(transfers and capacity are in `RoomTransfers`), and a running hub loses its room only when the lease's row
has gone: other losses are `RoomLifecycle`'s. The share row is public or private; that `status` and
`published_at` change in one UPDATE is one step, and so is `syncFromStatus`. An editor's saves of one world
are queued in the order in which they committed.

## 3. Runs

| Run | Bounds | Distinct states | Shows |
|---|---|---|---|
| `InstanceLease` | 3 holders, 2 processes, clock 0..4, boot TTL 2, TTL 1 | 183 000 | former holders never commit, refinement of `FencedStore` |
| `Flusher` | 2 rows, 2 versions, 1 character, 1 deed, 1 queued save, 1 retry | 422 000 | no row forgotten, no stored deed of a character read in time taken back, a drained shutdown is complete, refinement of `WriteBehind`; deeds are saved in the end |
| `RoomLifecycle` | 1 slot with 2 faults and 2 starts, or 2 slots with 1 and 1; boot TTL 2, TTL 1, grace 2, 1 takeover | 283 000 | one room per slot, the hub never fences itself, released stays released; a room in doubt comes back |
| `CharacterSessions` | 3 connections, 2 places, 2 queued saves, 1 suspension; three sets of conditions | 759 000 | one session and no ghost where leases hold, no save taken back, every hello answered |
| `RoomTransfers` | 3 connections (two of one character), 2 slots, capacity 1, 2 transfers, 1 fault | 1 158 000 | reservations balance, overbooking is bounded, players are in their rooms |
| `Room` | 2 players, 2 props, 1 rope, 4 spots, three scenes; 4 inputs, 2 sessions, 2 snapshots under way | 1 136 000 | mirrors, resting props and beams agree; prediction is exact while nothing is shed, and converges |
| `Records` | 2 owners, 2 heroes, 2 stages, 3 keys, 4 tries in all, 2 minutes; 2 calls at once, 3 revisions, and 1 capability with 2 requests, or with 1 and a fault, or 2 capabilities with 1 request or 1 fault | 4 328 000 | the ledger explains the save, a key pays once, idle minutes are paid once; the copy follows the network, a revocation is final |
| `Editor` | 2 editors, 2 objects, 3 connections, 1 lapse; 2 things, 2 commands, 2 entries, 1 load; 2 admins, 2 edits, 2 saves, 1 poll, 1 reload | 2 439 000 | stale beliefs are corrected, no ghost lock, undo is exact but for what a drag is crossed by, no work lost but for what crosses a save |
| `Platform` | 1 round of two guests who may sign in as one person, batch 2, 1 crash; 1 achievement, 3 accounts, 2 failed grants | 747 000 | no row is lost; rewards arrive |
| `Worlds` | 3 clients (owner of both worlds, a team member of one, staff), 1 slot, 2 saves, 2 jobs queued by clients and builders; one world with saves and a deletion, with two status requests that may cross, or with one at a time and more clients; two with deletions, script saves or an erasure | 1 158 000 | rooms within the limit, the stored map runs, closed worlds empty unless requests crossed, removed worlds leave nothing but what an erasure tears off, empty worlds stop |

Two more runs, `InstanceLeaseShared` and `CharacterSessionsHop`, expect a violation; see below. Together the
ten passing runs fire every action of every module.

Why these bounds are enough for the cases that matter. Three holders give a lapse, a takeover by another process
and a takeover back; the clock is longer than a boot lease plus a lease. Two rows make a torn world
distinguishable, two versions let a row change again while its copy is in flight, one retry separates "tried
again" from "given up". Two starts are a restart and a player's join for the same slot, or for both slots; two
faults are a suspension and a failed attempt to regain. Three connections let a superseded connection be
superseded again and, with capacity one, let a hello, a transfer and a player who is already there compete for
one place; two transfers let players change places. Two props are the ends of a rope that come into interest one
after the other; radius 1 and exit radius 2 leave a spot inside the hysteresis and one beyond it. Queue limit
and credit 2 with 4 inputs overflow, starve and catch up. Two calls at once are an answer and an event, or two
of either, that cross; three revisions let two changes cross. Two tries of one key with another key between them
are the retry after a lost answer. Two worlds and one slot make a start wait for a stop; one world with three
clients has each of the three ways to be allowed in. Two queued jobs are a hello and the change that overtakes
what it read; two status requests are the owner's and the staff's that cross. Two commands and two entries with
one load are an undo, a redo and another editor's map in the middle of a drag over both things; two saves are
two admins', or one page's twice. TTLs are scaled down (15 s, 60 s and 5 s heartbeats become 1, 2 and 1): a
lease is shorter than a boot lease, as in the code; where it is only one heartbeat long it lapses more readily
than the real one, which adds behaviours and removes none that the safety properties are about. The `Max...`
constants limit how often something happens, not when; every one is marked as a bound in its module.

Larger instances that were also explored without an error, and take too long to keep: `RoomLifecycle` with
TTL 2 and boot TTL 3 (466 000 states) and with two slots, two starts and a fault (583 000); `RoomTransfers`
with three distinct characters (325 000 with one transfer; with two transfers and two faults 10 million
without finishing); `PlaySync` with two rounds and a longer
clock (1.8 million, liveness included); `Flusher` with two queued saves (1.2 million); `EditorHistory` with
three commands (10.6 million); `EditorSaves` with two polls (8.8 million) or three saves and no reload (9.6
million).

Deadlock is checked in `InstanceLease`, `Flusher`, `RoomLifecycle` and `Worlds`. In the others connections,
keys, edits and messages are bounded, so the system comes to rest when they are used up (`CHECK_DEADLOCK
FALSE`).

Stated in the modules and checked with these instances, but not part of the runs: the type invariants (`TypeOK`,
`RoomTypeOK`, `EditorTypeOK`, `PlatformTypeOK`, `RecordsTypeOK`, `WorldsTypeOK`; some of them are proved),
`OneCopyInFlight`, `NoDeedForgotten`, `RoomIsSaved`, `FencedRoomStops`, `HeartbeatNeverHangs`,
`OneRoomPerConnection`, `DailyLimits`, `PityHolds`, `CleanMeansSaved`, `GrantedIsHeld`, `PlayCatchesUp`,
`NoFalseBeam`, `SnapshotsEndGhosts`, `HonestSpeed`, `VersionsAreUnique`, `RopesAgree` (both proved),
`TransferEnds` of `RoomTransfers`, `EnergyNeverConjured`, `GrantsStay`, `FirstPublicationOnce` and
`ShareFollowsStatus` (both proved), and `JoinIsAnswered` and `RemovedWorldsEmpty`, checked for each of the run's
sets of conditions by itself.

### Disagreements between the code and what it says

Two runs state a sentence of the docs and comments and find the code doing otherwise.

- `InstanceLeaseShared`: docs/instances.md says a former holder cannot commit after its lease is replaced.
  With the guard that slot 0 of the secondary and surf places shares, a write still queued by the stopped
  room asserts the *next* room's lease and commits under it.
- `CharacterSessionsHop`: the router finishes the old room's save before another place restores the
  character, but only for connections it still knows. A client that closed its connection at one place and
  says hello at another is read before its disconnect save has landed, and the older copy is saved over it.

Others are stated as definitions of the modules, and TLC finds them violated with the constants given here:

- `RoomLifecycle!NoRoomStartedBehind` (`Bounds <- NothingFails`, `MaxTakeovers = 0`, `LeaseTtl = 2`,
  `BootTtl = 3`, `Grace = RegainMax = RestartMax = 2`): "Shutdown already snapshotted the rooms: do not leave
  one running (and leased) behind." `stopping` is read before the last await of a start (`instanceHub.ts:484`);
  a shutdown that begins during that renewal leaves the new room in the hub with its lease (`:496`).
- `RoomLifecycle!StoppedSlotComesBack` (`FairSpec`, the same TTLs, `MaxTakeovers = 1`): the hub's comment
  (`:40`) says a slot whose room was stopped for good is claimed again with nobody waiting. `regainRoom`
  schedules the restart; `renewRoom`, when a running room's heartbeat finds another holder, stops the room and
  schedules none (`:257`).
- `CharacterSessions!OneLiveSession` (`Conditions = {{"close", "hop", "suspend"}}`): "One live session per
  CHARACTER" (`sessions.ts:181`). A client that disconnects while its room waits for its lease leaves its
  session in the room when that is regained (`instanceHub.ts:183`), and may enter another place.
- `RoomTransfers!OneLiveSession` (`Capacity = 2`, `MaxTransfers = 1`, `MaxFaults = 0`): a client superseded or
  gone during its transfer is put back into the source room (`instanceHub.ts:576`, `:583`), connected or not.
- `EditorLocks!ThenOnlyWithGrant` (`MCOneSelection`, `MCOneGestures`): "A mutation happens only once the server
  has actually granted the lock" (`editorApp.ts:344`). A grant that frees an earlier request runs a later edit.
- `Flusher!StoredDeedsStayAlways` (as in the run): "finish the old room's save before the new place restores
  that character" (`placeRouter.ts:75`). `resolveHello` ignores the result of `drain(5000)` (`sessions.ts:178`),
  while a save may be retried for up to 15 s: the character is read, and the older copy saved, over the newer.
- `EditorSaves!SavedEditsStayAlways` (as in the run): "two admins saving at once silently clobbered each other"
  (`mapStore.ts:7`), and "the server 409s a stale save rather than letting it overwrite another admin's work"
  (`saveController.ts:130`). The map route loads, compares and writes in three awaits (`httpServer.ts:431`): two
  saves with the same If-Match both pass. And a page's save answered late sets its base revision to what was
  saved (`saveController.ts:141`), whatever it has adopted meanwhile (`:192`): the next save carries a matching
  If-Match and writes the older map over the newer one.
- `EditorSaves!UnsavedWorkStaysAlways` (as in the run): "silently replacing unsaved work is never acceptable"
  (`saveController.ts:176`). When a save's answer comes, `markSaved` (`:144`) takes whatever is then on top of
  the history for saved; an edit made while the save was in flight reads as clean, and the next poll that
  finds another admin's map replaces it.
- `EditorHistory!UndoIsExactAlways` (as in the run): "undo must be an exact inverse" (`commandHistory.ts:14`).
  While a drag is under way an undo, a redo, a command or another editor's map may change its members
  (`editorApp.ts:965`, `:737`); the gesture then records, or restores, the values it began with
  (`transformSession.ts:143`, `:169`). A drag that is saved in its middle and then cancelled reads as clean.
- `WorldRoutes!HiddenStaysHidden` (as in the run): docs/games.md:138-140 says the owner cannot publish a world
  again that staff have hidden. The request checks the status it has read (`worldRoutes.ts:613`) and updates
  unconditionally (`:625`): an owner's publish that was read before the hiding puts the world back. Requests
  that cross also announce a first publication twice, leave a client in a closed world that nobody is
  told of, or a share row that does not follow: `crossed` excepts these in `FirstPublicationOnce`,
  `ClosedWorldsEmpty` and `ShareFollowsStatus`.
- `WorldRoutes!NobodyLeftBehind` (as in the run): a closed world "tells its players and stops"
  (`worldHost.ts:150`). The hub's shutdown closes no connection (`instanceHub.ts:391`), and nothing else does:
  the players stay connected to a hub without a room.
- `WorldRoutes!RemovedWorldsLeaveNothing` and `RemovedWorldsEmpty` without the exception of `torn` worlds: "the
  worlds go with their places" (`creatorWorlds.ts:373`). The erasure passes the chain by: when it comes between
  a hello's reads and the writes of its start (`startWorldHub.ts:122-139`), the place's row, and with it the lease
  while the room lives, is written again after it. An erasure at any other step of an opening leaves nothing.
- `WorldRoutes!ShareFollowsStatus` without the exception of `unsynced` worlds: "unpublishing narrows it to
  Only me" (`sharing.ts:114`). The share row is a second write, and when it fails the route logs it and answers
  200 (`worldRoutes.ts:640`): the draft is public until the next change.
- `ModGrants!CopyMatchesNetwork` (as in the run): "make this copy match the install's principal in Network"
  (`registry.ts:498`). An API answer notes revision *r* (`routes.ts:187`) although the change of revision
  *r* - 1 has not been applied, and its event is then dropped (`registry.ts:511`); an answer whose write fails is
  noted all the same; an older answer is written after a newer one; and of two calls side by side one may
  check, or remember, a view that misses the other's write. `CopyFollowsNetwork` names these cases in `doubt`.
  In the last one `RevokedStaysRevoked` breaks as well: a grant, an enabling or a reload that read the view before
  the revocation is committed after it (`registry.ts:460`, `:545`, both unconditional in the database).
- `PlaySync!PositionMovesPastAccepted` (no restart): a row that commits with a time before what has been read
  is behind the position and never posted. `NothingIsLost` excepts exactly these rows (`late`). So is an
  adoption recorded at the time of the last one told with a smaller key, or before it (`playSync.ts:310`,
  `platformRepositories.ts:121`): the guest's rows are never told to Play under the account. Two guests who
  sign in at one instant are enough; such an adoption counts as late too (`Untold`).

Seen while reading or modelling, and not a property of any module:

- When the *final* checkpoint fails, its rows are marked dirty again but nobody asks for another checkpoint,
  and `drain` resolves true (`flusher.ts:88`). `DrainedShutdownIsComplete` excepts it (`stopFailed`).
- The shutdown's `renew` refuses a lapsed lease and leaves that room undrained, yet a heartbeat already on its
  way may regain it (`instanceHub.ts:399`).
- The hub may route one connection more to a slot than `MAX_PLAYERS`, two once a room of the slot has
  stopped, because the head count, the reservation and the routing lie in different turns; each room then
  counts its own sessions and refuses. `BoundedOverbooking` is the bound.
- `EditorHistory`: a saved marker trimmed with an empty stack reads as clean (`CleanMeansSaved` excepts it,
  against `commandHistory.ts:259`). Releasing objects while a request is pending sends nothing
  (`lockController.ts:156`). A conflict shown and then undone to clean never adopts the remote map.
- `ModGrants`: a boot that cannot read the network forgets the revision.
- A guest's rows that the progress writer commits after the adoption stay the guest's (`playSync.ts:17`); a
  merge during a grant under way grants under both accounts' keys.
- A failed transfer returns the player with the same instance id: the client does not clear its mirror
  (`clientState.ts:113`) while the server's `known` is empty, so despawns of what was there are not told
  (`returned` excepts it). Mounting a frozen chassis makes it dynamic untold (`vehicles.ts:76`), and so does a
  map reload's `placeAt` (`untold`). Leaving while holding sends no `physgun_state`. A rope that loses an end
  the client does not know stays with the client. After a transfer, inputs of the old room that arrive in the
  new one raise the acknowledged number past inputs not yet simulated.
- An offline friends lookup under way may overwrite the cache `onLeave` has just refreshed, for 30 s.
- `economy.ts:183`: a delivery consumes the goods and then may deny with `inventory_full`. `machines.ts` starts
  jobs whose outputs may not fit. Containers, drops and places lose a stack's meta. A destroyed container
  loses what exceeds its slots. `persistence.ts:126`: a disconnect save commits the character alone, so that
  an item moved to the world since the last checkpoint may be in both, or in neither, after a crash.

## 4. Fairness

- `Flusher!FairSpec`: weak fairness of `Checkpoint` (the tick's timer asks for one every few seconds while
  none is active), of `BuildFinal` and of `DatabaseStep` (the queue is a promise chain and every statement
  ends or times out); strong fairness of the commits, because a database that refuses every transaction for
  ever saves nothing.
- `RoomLifecycle!FairSpec`: time passes, the interval fires, statements end (`HeartbeatFairness`); a start
  comes to its end; a start that again and again loads its world and renews within the boot lease does so at
  last (strong fairness under `InBootLease`); another process does not keep a slot for ever. The shutdown is
  not fair, nor are players: nothing says they come.
- `CharacterSessions!FairSpec`: the running hello's next step is taken when it can be, and saves commit. No
  fairness is given to `Regain`: a hello never waits for a recovering room.
- `RoomTransfers!FairSpec`: the awaits of the running hello and of each transfer end, one way or the other;
  not that they succeed, nor that anyone asks for a transfer, leaves, or that a room is regained.
- `RoomMC!FairSpec`: the room ticks and sends snapshots, messages under way arrive, a transfer goes on. The
  client need not send inputs.
- `PlatformMC!FairSpec`: the timers run and calls end; the database's commits and Play's acceptance have
  strong fairness, since a service that refuses for ever accepts nothing. Staff, rooms and merges have none.
- `WorldRoutes!Fairness` (part of `Spec`): the running job goes on, a request that was read ends, and the three
  timers fire: the sweep's (30 s, `main.ts:852`), the idle time's, and the heartbeat that finds a lease's row
  gone. Clients and builders have none.

Liveness is checked without symmetry and without state constraints.

## 5. Proofs

The TLA+ proof system proves the following for every value of the constants that meets the modules'
assumptions. Where TLC checks three holders, two rooms or two props, the proofs are about any number of
them, any clocks and any bounds. Each module's theorem about a property names it as its conclusion, under
the specification the run's behaviours satisfy (`Spec`, or the part's own: `ViewSpec`, `LocksSpec`,
`SavesSpec`, `HistorySpec`, `InputSpec`, `ModGrantsSpec`, `PlaySyncSpec`).

`tlapm` checks each proof module from nothing in a few minutes. A leaf that cites `SMTT(30)` and `ZenonT(60)`
is one whose time varies with the load of the machine: it names both provers and allows them longer.

| Module | Theorem | States |
|---|---|---|
| `InstanceLeaseProofs` | `TypeCorrect`, `VersionsUnique`, `NullIsFinal`, `ReleaseIsFinal` | types; `VersionsAreUnique`; finality of null heartbeats and of releases |
| | `Fencing`, `OwnerStable`, `LeaseImplementsFencedStore` | `FormerHolderCannotCommit`, no change of hands under an open write, the refinement `Fenced`; when each room asserts its own lease (`~SharedGuard`) |
| `FlusherProofs` | `TypeCorrect`, `NoRowForgotten`, `FlusherImplementsWriteBehind` | types; `RowsAccountedFor`; the refinement `StoresWholeWorlds` |
| | `ShutdownStoresAll`, `StoredStays` | `DrainedShutdownIsComplete`; `StoredDeedsStay` |
| `RoomLifecycleProofs` | `OneRoom`, `FencesOnlyFromOutside`, `ReleasedStays` | `OneRoomPerSlot`, `NeverFencesItself`, `ReleasedAtShutdown` |
| `RoomTransfersProofs` | `ReservationsHeld`, `OverbookingIsBounded`, `PlayersAreInTheirRooms` | `ReservationsBalance`, `BoundedOverbooking`, `PlayerIsInItsRoom` |
| `AccountProofs` | `OneSession`, `NoGhost`, `SteadyStays` | `OneSteadySession`, `NoGhostSession`, `SteadyDeedsStay` |
| | `ProgressReachesPlay` | `NothingIsLost` |
| `PlayerProofs` | `TypeCorrect`, `MirrorsAgree`, `RestingPropsStand`, `RopesShown`, `OneBeamPerProp` | types; `MirrorIsKnown`, `RestingPropsAgree`, `RopesAgree`, `LatchIsABeam` |
| | `PredictionHolds` | `NoMisprediction` |
| | `LedgerExplains`, `KeysPayOnce`, `ChestPaysOnce` | `LedgerExplainsSave`, `KeyPaysOncePerSave`, `IdlePaysEachMinuteOnce` |
| `EditorProofs` | `BeliefIsCorrected`, `LocksAreFreed` | `StaleBeliefIsCorrected`, `NoGhostLock` |
| | `SavedStays`, `WorkStays` | `SavedEditsStay`, `UnsavedWorkStays` |
| | `UndoExact` | `UndoIsExact` |
| `RoutesProofs` | `RevokedForGood` | `RevokedStaysRevoked` |
| | `WorldTypes`, `RoomsFit`, `MapIsStored` | types; `RoomsWithinLimit`; `RunningMapIsStored` |
| | `NothingIsLeft` | `RemovedWorldsLeaveNothing` |
| | `PublishedOnce`, `ShareIsRight`, `NobodyStays` | `FirstPublicationOnce`, `ShareFollowsStatus`, `ClosedWorldsEmpty` |

Where the code breaks a property's plain form (section 3), the property itself says what it excepts, as a fact of
the behaviour so far and not as an assumption on the constants: the characters read before their save was stored
(`early`), the edits a save has crossed (`dropped`, `crossed`), the things a gesture was crossed over (`mixed`), the
installs' calls that crossed (`doubt`), the worlds whose requests crossed, whose share row failed or whose erasure
fell into an opening (`crossed`, `unsynced`, `torn`). The theorems hold over all behaviours, those included.

The arguments:

- **Leases.** `IInv` is the types, the properties and two facts they need: every grant is at most the row's
  version and the holder has exactly it, so that a new claim's version is new; a stopped row has expiry 0, so
  that no renewal matches it. Fencing adds `WriterOwnsRow`: an open transaction is the one that locks the row,
  and the row is still its own, because every statement that changes the row waits for the lock.
- **Flusher.** `RowsAccountedFor` is not inductive: when a payload is written, the rows it does *not* carry
  must already be stored as they were when it was copied (`CopiesAreWhole`, which needs one copy at a time,
  `OneCopyWhileTicking`). Writing an incremental payload then leaves the database equal to the whole image.
  For the shutdown, `DrainInv` says which job of the queue will store what is not stored yet, whichever of the
  two ways the shutdown took. For stored deeds, `DeedInv` says that copies in the queue grow from its head to
  its tail and on to memory (`CopiesAreInOrder`, `SavesAreLater`), for every character that was not read before
  its save had landed (`early`).
- **Room lifecycle.** `IInv` ties the hub's records to the heartbeats' calls and to the running start: a start
  runs for a slot with no room, no recovery and no other start at work (`StartIsAlone`); a call is about a
  room the hub has (`CallsHaveRooms`); a slot of the shutdown belongs to a hub that is stopping.
- **Transfers.** `Basis` says what each task knows: the first hello is alone behind the chain, and what a
  transfer reserved, left and joins are rooms of the slots it names. Reservations then balance because every
  step moves a reservation together with the task that holds it. For overbooking a slot must also count the
  hello that was *given* a room and is not routed yet; a slot that is dead, or about to be started, has less
  to give (`SlotBound`), and one that is dead although somebody still reserves a place in its room has had a
  room stopped, which is where the second extra connection comes from. For the players, `FollowsAt` says at
  each await where the client is still routed, up to the moment it has left its room.
- **Sessions.** `IInv` says that the chain admits one hello at a time (`OneAdmitted`), that sessions belong to
  admitted connections and that, where leases hold, a place's room is in its hub (`LeasesHold`). For stored
  deeds `SteadyInv` adds that copies grow from the database through a place's queue to the session
  (`CopiesGrow`) and that only one place has saves under way, that of the session or the one waited for
  (`OneRoomSaves`); `Steady`, as in the run, leaves out what breaks that (section 3): a hop after
  a close, a suspension, and a drain that ends at its deadline.
- **Streams to Play.** `NothingIsLost` speaks of a stream at rest; `RowsReached` speaks of every moment: a row at
  or behind the position is Play's, under a key it will still be known by (`StillKnown`), or late, and one at or
  behind the end of the batch in hand may also be in the batch. Keys change under the rows when an adoption is
  told, so what is held is traced through the adoptions that are recorded and not told yet (`ToTell`); a guest
  is adopted once (`AdoptedOnce`). That the batch in hand is in order and past the position (`BatchInOrder`) is
  proved of the query itself, whatever is selected.
- **Room view.** The invariant relates a session's `known`, the client's mirror and the room for every pair
  of player and prop at once; ropes need both ends' stories, latches the one beam that holds them.
- **Prediction.** As long as nothing has made the server differ, the inputs are one run of numbers cut in four:
  simulated, queued, under way, and not sent (`InOrder`). Snapshots under way acknowledge ever more of it, and
  the client keeps what they do not acknowledge (`Acknowledged`), so replaying that on a snapshot gives
  back the position shown.
- **Casual saves.** For each action a lemma says that its ledger lines are the change of what the save holds and
  that the chest pays no more minutes than went by (`Explains`). For keys, a request under way that has
  changed its owner's save is on record in it (`OnRecord`), through adoption, pruning and erasure: a save has a
  number of its own (`SavesNumbered`), and nobody but the guest has changed the guest's.
- **Editor locks.** `EditorsFollow` describes the whole of both channels: going through the messages under
  way from a given one on, each grant is followed by the news that takes it back (`GrantsHold`, `Believed`,
  `Told`), so that wherever an editor's belief is wrong the correction is still on its way.
- **Editor saves.** `AdminHolds` follows an edit through the places it may be in: a page has what the revision
  under it has (`BaseIsKept`), a draft has what its base has (`DraftFollows`), and what a page has and the server
  has not lies in its history past the saved marker (`MarkerTells`). A save carries what its If-Match has
  (`PostHolds`), a poll brings what is still saved (`ReadHolds`). Each says so of the edits that no save has
  crossed (`Covered`); what a step adds to these is what the properties except at that step.
- **Undo history.** `UndoIsExact` alone is not inductive: it says what taking back all entries comes to, not
  that each can be. `EntriesLead` says it of each thing by itself, outside those `mixed`: the entries lead its
  value from `base` to what it is with what is open taken back (`Reaches`, `IsSettled`), and on through what was
  undone (`Returns`); a part of an entry leads from one value to the next only if what it says was there is
  there (`Makes`). Runs of values stand in for induction: two runs that begin alike and go on alike are alike
  (`AlikeThroughout`, by the least number where they differ), which ties the recursive functions to them
  (`RunMeets`, `UndoesMeet`, `RedoesMeet`). A gesture records its members in some order; each is in it once
  (`MembersAre`), so what it records leads from the value it began with to the one it ends with
  (`RecordedLeads`), and a part folded into the one before it leads as far as both (`ExtendLeads`).
- **Mods.** In the network a revocation is the principal's last change (`IsEnd`), so an answer of an earlier
  revision may grant or enable, and one of the last does neither (`ForRevision`, in `CallFits`, for each call
  under way). A write that would bring a revoked install back therefore was decided on a view that had missed
  the revocation, and is noted as crossed before it is committed (`CrossedIfLate`).
- **Creator worlds.** `StepsBelong` ties the chain's head to the await it is at. For the limit, the worlds that
  run, the one that stops and the one being started (`Taken`) are within it, and every room is one of theirs
  (`RoomsInv`). For the map, the last save queued for a world is the stored map (`LastIsStored`), so that a
  world that has read an older one still has its save before it (`MapsFollow`). For closed worlds, whoever is
  inside, or is being let in, may be there, or a change of the status is at work (`Pending`) or in the chain
  (`Closing`) that will close the world (`InsideMayStay`, `StarterMayStay`); `SeenIsFresh` says the same of the
  status a hello has read, and `PendingIsTold` that such a change does queue its job. `OneStops` and
  `StopsItsWorld` say that this job empties the right world. For removed worlds `RowsInv` says that an opening
  at work on a world that has gone is one an erasure fell into, and that a lease has a room or one being built.
  `PatchInv` and `ShareInv` say what a request knows between its steps when no other has crossed it: the row is
  behind the status only until the request at work has written it.

What each invariant is made of was first checked by TLC on the runs' instances.

Only model-checked: the liveness properties (`DeedsAreSaved`, `RoomComesBack`, `HelloIsAnswered`,
`RewardsArrive`, `AgreesOnceAnswered`, `EmptyWorldsStop`), since liveness under fairness and ENABLED are out of the
prover's reach; `InventoryRewards`, whose property is one of them; and the definitions listed in section 3 as
checked outside the runs, except those marked proved. Every safety property of the passing runs is proved but
`CopyFollowsNetwork`, whose invariant would have to describe every pair of calls under way.
Induction over data is out of reach too; where a proof is about a sequence, the invariant gives the whole of it
(a run of values, of inputs, of copies), and least elements come from well-foundedness. No module declares
a RECURSIVE operator.

## 6. Left out, and why

- Values of rows and characters, positions, items: versions and deeds stand for them. Whether an item moved
  between a character and the world is in both, or in neither, after a crash is not visible.
- Rows of the meta table, NPC caches and outbox events ride in the checkpoint's transaction; they would be
  further world rows.
- In `InstanceLease` a room's own queue order is free. In `RoomLifecycle` the rooms' own work is absent, in
  `RoomTransfers` the leases. A client stranded in a room that stops during its entry is covered there by the
  slot alone.
- `RoomView`: rates, seats, driving, doors' own motion, the debug feed; a tick's systems are steps of their own, which
  allows more orders than the tick does. `InputSync`: driving a vehicle, which suspends prediction.
- `EditorLocks`: presence, lapses that free nothing, messages to sockets that have gone; that a waiting
  request is granted in the end is not checked. `EditorHistory`: sizes of entries. `EditorSaves`: maps that
  do not validate, a boot without an ETag, painted layers.
- `PlaySync`: the streams of hauls and heroes have the shape of the rounds'. `ModGrants`: uploading, deletion,
  the script runtime and its budgets.
- `CasualSaves`: weekly quests, gems of the idle chest, the order of a team, sweeps of several, several slots
  of gear, the arithmetic of a battle (its outcome is any the rules allow).
- Transactions are atomic, as PostgreSQL makes them; a statement that fails may still have committed.
- Guests in the rooms. Creator worlds: creation, remixes, teams and invites (limits counted and then inserted,
  `worldRoutes.ts:336` and `:442`), the share sheet and its links, uploads, the sandboxed store, the process's own
  stop (`worldHost.ts:193`), staff of the routes who are not staff of the join, and scripts that start with a room.

The map covers about 5 000 of 82 000 lines. The rest is mostly what the table of section 1 leaves out:
rendering and panels of the client, content, physics, parsing, routes that read, and the sequential rules of
play.

## 7. Plan

1. **Item conservation** (`ItemMoves`): inventory, container and ground moves with the flusher's two kinds of
   transaction; abstract specification: a bag of items.
2. **Abandoned rooms** (`RoomLifecycle` with `Flusher`): what a room stopped after its grace loses, and what it
   may not lose.
3. **Revocation** (redelivered events, merges, cutoffs) and **graceful stop** (order, deadlines, watchdog).
4. **Event rounds and seats**: sequences of legal actions.
5. Proofs of what is checked outside the runs: `CleanMeansSaved` along the chain of `UndoExact`; `GrantedIsHeld`
   of `InventoryRewards`; `CopyFollowsNetwork` of `ModGrants`; `PityHolds`, `DailyLimits` and
   `EnergyNeverConjured` of `CasualSaves`; the type invariants not proved yet.
