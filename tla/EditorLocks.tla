------------------------------ MODULE EditorLocks ------------------------------
(****************************************************************************)
(* The map editor's edit locks: the server's table of leases, the editors'  *)
(* own view of what they hold, and the sockets between them                 *)
(* (apps/server/src/net/editorLocks.ts, editorWs.ts;                        *)
(* apps/client/src/editor/collaboration/lockController.ts,                  *)
(* editorConnection.ts; editorApp.ts withLock, syncSelectionLocks).         *)
(*                                                                          *)
(* A connection is a peer: its id names it, and is not used again. Presence *)
(* and the mapSaved message carry no lock and are left out.                 *)
(****************************************************************************)
EXTENDS Integers, Sequences, FiniteSets

CONSTANTS
  Editor,
  Obj,
  FirstPeer,   \* the connection each editor has when the model begins
  Selection,   \* bound: what the editors select
  Unsteady,    \* bound: editors whose connection may break
  MaxPeers,    \* bound: connections ever made
  MaxGestures, \* bound: selections and edits of each editor
  MaxLapses    \* bound: leases that run out for want of a heartbeat

ASSUME LockAssumptions ==
  /\ MaxPeers \in Nat /\ MaxGestures \in [Editor -> Nat] /\ MaxLapses \in Nat
  /\ FirstPeer \in [Editor -> 1 .. MaxPeers]
  /\ \A d, e \in Editor : d # e => FirstPeer[d] # FirstPeer[e]
  /\ Selection \subseteq SUBSET Obj /\ Unsteady \subseteq Editor

Peer == 1 .. MaxPeers
NoPeer == 0

VARIABLES
  up, down,     \* per peer: messages to the server, to the editor
  status,       \* what the server makes of each peer
  locks,        \* LockManager.locks: the owner of each object
  beats,        \* LockManager.beats: how old each peer's last message is
  socket,       \* the editor's connection
  myPeerId, owners, state, held, pending, \* its LockController
  wanted,       \* what its selection last asked for (lockedForSelection)
  unarbitrated, \* history: editors whose edit ran without its lock
  gestures, lapses

channels == <<up, down>>
server == <<status, locks, beats>>
controller == <<myPeerId, owners, state, held, pending>>
bounds == <<gestures, lapses>>
locksVars == <<channels, server, socket, controller, wanted, unarbitrated, bounds>>

\* then: the objects of the edit that waits for the grant.
NoRequest == [ids |-> {}, then |-> {}]
Nobody == [o \in Obj |-> NoPeer]

\* Every editor has been welcomed, and nobody holds anything.
LocksInit ==
  /\ up = [p \in Peer |-> <<>>]
  /\ down = [p \in Peer |-> <<>>]
  /\ status = [p \in Peer |-> IF \E e \in Editor : FirstPeer[e] = p THEN "in" ELSE "unused"]
  /\ locks = Nobody
  /\ beats = [p \in Peer |-> "none"]
  /\ socket = FirstPeer
  /\ myPeerId = FirstPeer
  /\ owners = [e \in Editor |-> Nobody]
  /\ state = [e \in Editor |-> "unlocked"]
  /\ held = [e \in Editor |-> {}]
  /\ pending = [e \in Editor |-> NoRequest]
  /\ wanted = [e \in Editor |-> {}]
  /\ unarbitrated = {}
  /\ gestures = [e \in Editor |-> 0] /\ lapses = 0
--------------------------------------------------------------------------------
(* The server                                                               *)

Release(table, p, ids) == [o \in Obj |-> IF o \in ids /\ table[o] = p THEN NoPeer ELSE table[o]]
OwnedBy(p) == {o \in Obj : locks[o] = p}

Present == {p \in Peer : status[p] \in {"hello", "authorizing", "in"}}
Authed == {p \in Peer : status[p] = "in"}
Connected(p) == \E e \in Editor : socket[e] = p

\* lockOwners: only owners that are still here are named.
LockState(table, present) ==
  [t |-> "lockState", owners |-> [o \in Obj |-> IF table[o] \in present THEN table[o] ELSE NoPeer]]

\* broadcastLocks, to the authorized peers that are left. What is sent to a socket its
\* editor has left is read by nobody.
Broadcast(channel, table, present, authed) ==
  [p \in Peer |-> IF p \in authed /\ Connected(p) THEN Append(channel[p], LockState(table, present))
                  ELSE channel[p]]

\* Variant: the peer leaves presence and keeps its locks.
DropPeerPresence(p) ==
  /\ status' = [status EXCEPT ![p] = "gone"]
  /\ UNCHANGED <<locks, beats, down>>

\* dropPeer: out of presence and of the lock table in one step.
DropPeer(p) ==
  LET table == Release(locks, p, Obj) IN
  /\ status' = [status EXCEPT ![p] = "gone"]
  /\ locks' = table
  /\ beats' = [beats EXCEPT ![p] = "none"]
  /\ down' = IF OwnedBy(p) = {} THEN down
             ELSE Broadcast(down, table, Present \ {p}, Authed \ {p})

ServerUnchanged == UNCHANGED <<socket, controller, wanted, unarbitrated, bounds>>

Received(p, m) == up[p] # <<>> /\ Head(up[p]).t = m /\ up' = [up EXCEPT ![p] = Tail(@)]

HelloArrives(p) ==
  /\ status[p] = "hello" /\ Received(p, "hello")
  /\ status' = [status EXCEPT ![p] = "authorizing"]
  /\ UNCHANGED <<down, locks, beats>> /\ ServerUnchanged

\* authorizeEditor has answered. A peer that has gone meanwhile is told nothing.
Authorized(p) ==
  /\ status[p] = "authorizing"
  /\ status' = [status EXCEPT ![p] = "in"]
  /\ down' = [down EXCEPT ![p] = IF Connected(p) THEN <<[t |-> "welcome"], LockState(locks, Present)>>
                                 ELSE <<>>]
  /\ UNCHANGED <<up, locks, beats>> /\ ServerUnchanged

\* Not authorized, or a message before the answer: the server closes the socket.
Refuse(p) ==
  /\ \/ status[p] = "authorizing" /\ UNCHANGED up
     \/ status[p] = "authorizing" /\ \E m \in {"heartbeat", "lockRequest", "lockRelease"} : Received(p, m)
  /\ DropPeer(p)
  /\ ServerUnchanged

\* acquire: all the objects or none.
Acquire(p, ids) ==
  LET granted == \A o \in ids : locks[o] \in {NoPeer, p}
      table == IF granted THEN [o \in Obj |-> IF o \in ids THEN p ELSE locks[o]] ELSE locks
      answered == IF ~Connected(p) THEN down ELSE
        [down EXCEPT ![p] = Append(@, [t |-> "lockResult", granted |-> granted, ids |-> ids])]
  IN /\ locks' = table
     /\ down' = IF granted THEN Broadcast(answered, table, Present, Authed) ELSE answered

LockRequest(p) ==
  /\ status[p] = "in" /\ Received(p, "lockRequest")
  /\ beats' = [beats EXCEPT ![p] = "fresh"]
  /\ Acquire(p, Head(up[p]).ids)
  /\ UNCHANGED status /\ ServerUnchanged

LockRelease(p) ==
  /\ status[p] = "in" /\ Received(p, "lockRelease")
  /\ beats' = [beats EXCEPT ![p] = "fresh"]
  /\ locks' = Release(locks, p, Head(up[p]).ids)
  /\ down' = Broadcast(down, locks', Present, Authed)
  /\ UNCHANGED status /\ ServerUnchanged

Heartbeat(p) ==
  /\ status[p] = "in" /\ Received(p, "heartbeat")
  /\ beats' = [beats EXCEPT ![p] = "fresh"]
  /\ UNCHANGED <<down, status, locks>> /\ ServerUnchanged

\* LEASE_MS pass without a message. A peer nobody is behind sends none ever again; an
\* editor whose timers are throttled may miss its own lease.
\* A lapse that frees nothing changes nothing either, and is left out.
Lapse(p) ==
  /\ beats[p] = "fresh" /\ up[p] = <<>> /\ OwnedBy(p) # {}
  /\ Connected(p) => lapses < MaxLapses
  /\ beats' = [beats EXCEPT ![p] = "stale"]
  /\ lapses' = IF Connected(p) THEN lapses + 1 ELSE lapses
  /\ UNCHANGED <<channels, status, locks, socket, controller, wanted, unarbitrated, gestures>>

Lapsed == {p \in Peer : beats[p] = "stale"}
LocksAfterSweep == [o \in Obj |-> IF locks[o] \in Lapsed THEN NoPeer ELSE locks[o]]

\* The sweeper's interval.
Sweep ==
  /\ Lapsed # {}
  /\ beats' = [p \in Peer |-> IF p \in Lapsed THEN "none" ELSE beats[p]]
  /\ locks' = LocksAfterSweep
  /\ down' = IF locks' = locks THEN down ELSE Broadcast(down, locks', Present, Authed)
  /\ UNCHANGED <<up, status>> /\ ServerUnchanged

\* The close of a connection its editor has left reaches the server, if it ever does.
CloseArrives(p) ==
  /\ p \in Present /\ ~Connected(p) /\ up[p] = <<>>
  /\ DropPeer(p)
  /\ UNCHANGED up /\ ServerUnchanged
--------------------------------------------------------------------------------
(* An editor                                                                *)

EditorUnchanged == UNCHANGED <<server, bounds>>
Unused == {p \in Peer : status[p] = "unused"}
NewPeer == CHOOSE p \in Unused : \A q \in Unused : p <= q

\* connect, and the hello sent when the socket opens.
Connect(e) ==
  /\ Unused # {}
  /\ socket' = [socket EXCEPT ![e] = NewPeer]
  /\ status' = [status EXCEPT ![NewPeer] = "hello"]
  /\ up' = [up EXCEPT ![NewPeer] = <<[t |-> "hello"]>>]
  /\ UNCHANGED <<locks, beats, controller, wanted, unarbitrated, bounds>>

Reconnect(e) == socket[e] = NoPeer /\ Connect(e) /\ UNCHANGED down

\* The credential has changed: another socket at once, and the controller keeps its view.
ChangeCredential(e) ==
  /\ e \in Unsteady /\ socket[e] # NoPeer /\ Connect(e)
  /\ down' = [down EXCEPT ![socket[e]] = <<>>]

\* disconnected, on the close event of the current socket.
Disconnected(e) ==
  /\ socket' = [socket EXCEPT ![e] = NoPeer]
  /\ held' = [held EXCEPT ![e] = {}]
  /\ pending' = [pending EXCEPT ![e] = NoRequest]
  /\ owners' = [owners EXCEPT ![e] = Nobody]
  /\ state' = [state EXCEPT ![e] = "unlocked"]
  /\ UNCHANGED <<myPeerId, wanted, unarbitrated>>

\* The server has closed the socket.
SeesClose(e) ==
  /\ socket[e] # NoPeer /\ status[socket[e]] = "gone" /\ down[socket[e]] = <<>>
  /\ Disconnected(e)
  /\ UNCHANGED channels /\ EditorUnchanged

\* The connection breaks: what the editor sent last may be lost with it.
LoseConnection(e) ==
  /\ e \in Unsteady /\ socket[e] # NoPeer
  /\ \E sent \in {<<>>, up[socket[e]]} : up' = [up EXCEPT ![socket[e]] = sent]
  /\ down' = [down EXCEPT ![socket[e]] = <<>>]
  /\ Disconnected(e)
  /\ EditorUnchanged

Deliver(e, m) ==
  /\ socket[e] # NoPeer
  /\ down[socket[e]] # <<>> /\ Head(down[socket[e]]).t = m
  /\ down' = [down EXCEPT ![socket[e]] = Tail(@)]
  /\ UNCHANGED up /\ EditorUnchanged
Message(e) == Head(down[socket[e]])

Welcome(e) ==
  /\ Deliver(e, "welcome")
  /\ myPeerId' = [myPeerId EXCEPT ![e] = socket[e]]
  /\ UNCHANGED <<socket, owners, state, held, pending, wanted, unarbitrated>>

\* granted: whatever waits for a grant runs on this one.
Granted(e) ==
  /\ Deliver(e, "lockResult") /\ Message(e).granted
  /\ held' = [held EXCEPT ![e] = Message(e).ids]
  /\ state' = [state EXCEPT ![e] = "owned"]
  /\ pending' = [pending EXCEPT ![e] = NoRequest]
  /\ unarbitrated' = IF pending[e].then \subseteq Message(e).ids THEN unarbitrated
                     ELSE unarbitrated \cup {e}
  /\ UNCHANGED <<socket, myPeerId, owners, wanted>>

Denied(e) ==
  /\ Deliver(e, "lockResult") /\ ~Message(e).granted
  /\ pending' = [pending EXCEPT ![e] = NoRequest]
  /\ state' = [state EXCEPT ![e] = "denied"]
  /\ UNCHANGED <<socket, myPeerId, owners, held, wanted, unarbitrated>>

\* Variant: only a lock of somebody else counts as lost.
SetOwnersIfTaken(e) ==
  /\ Deliver(e, "lockState")
  /\ owners' = [owners EXCEPT ![e] = Message(e).owners]
  /\ IF state[e] = "owned" /\ \E o \in held[e] : Message(e).owners[o] \notin {NoPeer, myPeerId[e]}
       THEN /\ state' = [state EXCEPT ![e] = "lost"]
            /\ held' = [held EXCEPT ![e] = {}]
            /\ wanted' = [wanted EXCEPT ![e] = {}]
       ELSE UNCHANGED <<state, held, wanted>>
  /\ UNCHANGED <<socket, myPeerId, pending, unarbitrated>>

\* setOwners, and onLockLost.
SetOwners(e) ==
  /\ Deliver(e, "lockState")
  /\ owners' = [owners EXCEPT ![e] = Message(e).owners]
  /\ IF state[e] = "owned" /\ \E o \in held[e] : Message(e).owners[o] # myPeerId[e]
       THEN /\ state' = [state EXCEPT ![e] = "lost"]
            /\ held' = [held EXCEPT ![e] = {}]
            /\ wanted' = [wanted EXCEPT ![e] = {}]
       ELSE UNCHANGED <<state, held, wanted>>
  /\ UNCHANGED <<socket, myPeerId, pending, unarbitrated>>

OwnsAll(e, have, ids) == ids = {} \/ (state[e] = "owned" /\ ids \subseteq have)
Blocked(e, ids) == \E o \in ids : owners[e][o] \notin {NoPeer, myPeerId[e]}
Sent(e, messages) == up' = [up EXCEPT ![socket[e]] = @ \o messages]

\* LockController.acquire, with held already given back to have; sent: what went before.
\* released: the state in which release left the controller.
Ask(e, have, ids, then, sent, released) ==
  CASE OwnsAll(e, have, ids) ->
         Sent(e, sent) /\ state' = [state EXCEPT ![e] = released] /\ UNCHANGED pending
    [] ~OwnsAll(e, have, ids) /\ Blocked(e, ids) ->
         Sent(e, sent) /\ state' = [state EXCEPT ![e] = "denied"] /\ UNCHANGED pending
    [] OTHER ->
         /\ Sent(e, Append(sent, [t |-> "lockRequest", ids |-> ids]))
         /\ state' = [state EXCEPT ![e] = "pending"]
         /\ pending' = [pending EXCEPT ![e] = [ids |-> ids, then |-> then]]

Gesture(e) ==
  /\ gestures[e] < MaxGestures[e] /\ socket[e] # NoPeer
  /\ gestures' = [gestures EXCEPT ![e] = @ + 1]

\* syncSelectionLocks: what is no longer selected is given back if it is held, and the
\* whole selection asked for.
Select(e, ids) ==
  LET dropped == (wanted[e] \ ids) \cap held[e]
      have == held[e] \ dropped
      released == IF dropped # {} /\ have = {} THEN "unlocked" ELSE state[e]
  IN /\ Gesture(e)
     /\ ids # wanted[e]
     /\ wanted' = [wanted EXCEPT ![e] = ids]
     /\ held' = [held EXCEPT ![e] = have]
     /\ Ask(e, have, ids, {}, IF dropped = {} THEN <<>> ELSE <<[t |-> "lockRelease", ids |-> dropped]>>,
            released)
     /\ UNCHANGED <<down, server, socket, myPeerId, owners, unarbitrated, lapses>>

\* withLock on the selection, when its edit cannot run at once: the edit waits for the grant.
Edit(e) ==
  /\ Gesture(e)
  /\ wanted[e] # {} /\ ~OwnsAll(e, held[e], wanted[e]) /\ ~Blocked(e, wanted[e])
  /\ Ask(e, held[e], wanted[e], wanted[e], <<>>, state[e])
  /\ UNCHANGED <<down, server, socket, myPeerId, owners, held, wanted, unarbitrated, lapses>>

\* The heartbeat's interval. While the lease is fresh a heartbeat changes nothing.
Beat(e) ==
  /\ socket[e] # NoPeer /\ beats[socket[e]] = "stale" /\ up[socket[e]] = <<>>
  /\ Sent(e, <<[t |-> "heartbeat"]>>)
  /\ UNCHANGED <<down, server, socket, controller, wanted, unarbitrated, bounds>>
--------------------------------------------------------------------------------
ServerStep(p) ==
  \/ HelloArrives(p) \/ Authorized(p) \/ Refuse(p)
  \/ LockRequest(p) \/ LockRelease(p) \/ Heartbeat(p)
  \/ Lapse(p) \/ CloseArrives(p)

DeliverTo(e) == Welcome(e) \/ Granted(e) \/ Denied(e) \/ SetOwners(e)

EditorStep(e) ==
  \/ Reconnect(e) \/ ChangeCredential(e) \/ SeesClose(e) \/ LoseConnection(e)
  \/ DeliverTo(e)
  \/ Edit(e) \/ Beat(e)
  \/ \E ids \in Selection : Select(e, ids)

LocksNext ==
  \/ \E p \in Peer : ServerStep(p)
  \/ Sweep
  \/ \E e \in Editor : EditorStep(e)

LocksSpec == LocksInit /\ [][LocksNext]_locksVars
--------------------------------------------------------------------------------
Ids == SUBSET Obj
UpMessage == [t : {"hello", "heartbeat"}] \cup [t : {"lockRequest", "lockRelease"}, ids : Ids]
DownMessage ==
  [t : {"welcome"}] \cup [t : {"lockResult"}, granted : BOOLEAN, ids : Ids]
    \cup [t : {"lockState"}, owners : [Obj -> Peer \cup {NoPeer}]]

\* Every variable stays in its domain, and only an editor that waits for an answer has an
\* edit waiting.
LocksTypeOK ==
  /\ \A p \in Peer : /\ \A i \in 1 .. Len(up[p]) : up[p][i] \in UpMessage
                     /\ \A i \in 1 .. Len(down[p]) : down[p][i] \in DownMessage
  /\ status \in [Peer -> {"unused", "hello", "authorizing", "in", "gone"}]
  /\ locks \in [Obj -> Peer \cup {NoPeer}]
  /\ beats \in [Peer -> {"none", "fresh", "stale"}]
  /\ socket \in [Editor -> Peer \cup {NoPeer}]
  /\ myPeerId \in [Editor -> Peer \cup {NoPeer}]
  /\ owners \in [Editor -> [Obj -> Peer \cup {NoPeer}]]
  /\ state \in [Editor -> {"unlocked", "pending", "owned", "denied", "lost"}]
  /\ held \in [Editor -> Ids]
  /\ pending \in [Editor -> [ids : Ids, then : Ids]]
  /\ wanted \in [Editor -> Ids]
  /\ unarbitrated \subseteq Editor

\* An editor that takes an object for its own when the server does not will hear of it: a
\* lock table that says so is on its way, or its socket has yet to be welcomed or has been
\* closed (lockController.setOwners: "we believe we hold ids the server no longer attributes
\* to us").
Corrected(e, o) ==
  LET p == socket[e] IN
  \/ status[p] \in {"hello", "authorizing", "gone"}
  \/ \E i \in 1 .. Len(down[p]) : down[p][i].t = "lockState" /\ down[p][i].owners[o] # p
StaleBeliefIsCorrected ==
  \A e \in Editor, o \in Obj :
    state[e] = "owned" /\ o \in held[e] /\ socket[e] # NoPeer /\ locks[o] # socket[e]
      => Corrected(e, o)

\* A lock belongs to a peer that is here and has a lease that can run out: otherwise nothing
\* would ever free it (editorWs.dropPeer: "still holding locks").
NoGhostLock == \A o \in Obj : locks[o] # NoPeer => locks[o] \in Authed /\ beats[locks[o]] # "none"

\* editorApp.ts withLock: "A mutation happens only once the server has actually granted the
\* lock." An edit that waited has run on a grant of its own objects.
ThenOnlyWithGrant == unarbitrated = {}
================================================================================
