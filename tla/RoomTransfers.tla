----------------------------- MODULE RoomTransfers -----------------------------
(****************************************************************************)
(* One place's hub with several rooms: who is let into which room, and a    *)
(* player's transfer from one room to another                               *)
(* (apps/server/src/game/instanceHub.ts onMessage, choose, start, transfer, *)
(* stopRoom; systems/sessions.ts join, onDisconnect).                       *)
(*                                                                          *)
(* Every await is a point between two actions. A drain ends in time or      *)
(* not, a database call answers or throws. Leases: see RoomLifecycle.       *)
(****************************************************************************)
EXTENDS Integers, Sequences, FiniteSets

CONSTANTS
  Conn,        \* connections, each used once
  CharOf,      \* the character a connection plays
  MaxInstances,
  Capacity,    \* MAX_PLAYERS
  MaxTransfers,\* bound: transfers asked for
  MaxFaults    \* bound: throws, drains out of time, rooms suspended or stopped

ASSUME TransferAssumptions ==
  /\ IsFiniteSet(Conn)
  /\ MaxTransfers \in Nat
  /\ MaxInstances \in Nat \ {0}
  /\ Capacity \in Nat \ {0}
  /\ MaxFaults \in Nat

Slot == 0 .. MaxInstances - 1
NoSlot == -1

\* Rooms in the order they were started. A slot is started again only after a fault, so
\* there are never more.
Room == 1 .. MaxInstances + MaxFaults
NoRoom == 0

VARIABLES
  rooms,      \* the running room of each slot
  recovering, \* the room of a slot whose lease is in doubt
  slotOf,     \* the slot of the lease of each room started so far
  sessions,   \* the connections with a session in each room
  entry,      \* connections: the slot the hub routes each one to
  reserved,   \* reservations: transfers on their way into each slot
  admission,  \* hellos behind the admission chain; the first one runs
  task,       \* what the message each connection has pending is at
  closed,     \* connections the hub has seen end
  kicked,     \* connections the server has closed: their end is on its way
  faults,
  transfers

hub == <<rooms, recovering, slotOf>>
routes == <<entry, reserved>>
vars == <<hub, sessions, routes, admission, task, closed, kicked, faults, transfers>>

HelloAt == {"turn", "choose", "start", "chosen", "join", "enter", "joined"}
TransferAt == {"tStart", "tFound", "tDrain", "tLeft", "tJoin", "tEnter", "tJoined", "tBack",
               "tReenter"}
\* Transfers that hold a reservation.
ReservedAt == TransferAt \ {"tStart", "tFound"}

\* to: the slot it is about. from: the slot left. source, target: the rooms left, entered.
Task == [at: {"new", "idle"} \cup HelloAt \cup TransferAt, to: Slot \cup {NoSlot},
         from: Slot \cup {NoSlot}, source: Room \cup {NoRoom}, target: Room \cup {NoRoom}]

Resting(where) ==
  [at |-> where, to |-> NoSlot, from |-> NoSlot, source |-> NoRoom, target |-> NoRoom]
--------------------------------------------------------------------------------
Init ==
  /\ rooms = [s \in Slot |-> IF s = 0 THEN 1 ELSE NoRoom]
  /\ slotOf = <<0>>
  /\ recovering = [s \in Slot |-> NoRoom]
  /\ sessions = [r \in Room |-> {}]
  /\ entry = [c \in Conn |-> NoSlot]
  /\ reserved = [s \in Slot |-> 0]
  /\ admission = <<>>
  /\ task = [c \in Conn |-> Resting("new")]
  /\ closed = {} /\ kicked = {}
  /\ faults = 0 /\ transfers = 0

Fault == faults < MaxFaults /\ faults' = faults + 1

At(c, where) == task[c].at = where
Go(c, where) == task' = [task EXCEPT ![c].at = where]
Done(c) == task' = [task EXCEPT ![c] = Resting("idle")]
Idle(c) == At(c, "idle")

Occupancy(s) == reserved[s] + Cardinality({c \in Conn : entry[c] = s})
Full(r) == Cardinality(sessions[r]) >= Capacity

\* SessionsSystem.onDisconnect in each of these rooms.
Without(where, c) == [r \in Room |-> IF r \in where THEN sessions[r] \ {c} ELSE sessions[r]]

\* conn.close: the client's end arrives later.
Kick(cs) == kicked' = kicked \cup (cs \ closed)

\* InstanceHub.onDisconnect: only a room the hub still has is told.
Disconnect(c) ==
  /\ closed' = closed \cup {c}
  /\ sessions' = IF entry[c] = NoSlot THEN sessions ELSE Without({rooms[entry[c]]}, c)
  /\ entry' = [entry EXCEPT ![c] = NoSlot]

\* The client goes away, or sees that the server has closed the connection.
Close(c) ==
  /\ ~At(c, "new") /\ c \notin closed
  /\ Disconnect(c)
  /\ kicked' = kicked \ {c}
  /\ UNCHANGED <<hub, reserved, admission, task, faults, transfers>>
--------------------------------------------------------------------------------
(* start: rooms are started one at a time; only the end of a start shows.   *)

\* The room start answers with: the one the slot has by now, or a new one.
Started(s, r) ==
  /\ recovering[s] = NoRoom
  /\ IF rooms[s] # NoRoom
       THEN r = rooms[s] /\ UNCHANGED hub
       ELSE /\ r = Len(slotOf) + 1
            /\ rooms' = [rooms EXCEPT ![s] = r]
            /\ slotOf' = Append(slotOf, s)
            /\ UNCHANGED recovering

\* It answers with none: the slot recovers, or its lease was not granted.
NotStarted(s) ==
  /\ \/ recovering[s] # NoRoom /\ UNCHANGED faults
     \/ recovering[s] = NoRoom /\ rooms[s] = NoRoom /\ Fault
  /\ UNCHANGED hub
--------------------------------------------------------------------------------
(* A hello, one at a time behind the admission chain.                       *)

This == Head(admission)
Now(where) == admission # <<>> /\ At(This, where)
Over == Done(This) /\ admission' = Tail(admission)

Hello(c) ==
  /\ At(c, "new")
  /\ Go(c, "turn")
  /\ admission' = Append(admission, c)
  /\ UNCHANGED <<hub, sessions, routes, closed, kicked, faults, transfers>>

Skip ==
  /\ Now("turn")
  /\ This \in closed
  /\ Over
  /\ UNCHANGED <<hub, sessions, routes, closed, kicked, faults, transfers>>

\* The connections this hello's character is still on.
Superseded == {o \in Conn \ (closed \cup {This}) : CharOf[o] = CharOf[This] /\ entry[o] # NoSlot}

Supersede ==
  /\ Now("turn")
  /\ This \notin closed
  /\ \E o \in Superseded : Disconnect(o) /\ kicked' = kicked \ {o}
  /\ UNCHANGED <<hub, reserved, admission, task, faults, transfers>>

\* choose, its first loop: a running room with capacity.
ChooseRunning ==
  /\ Now("turn")
  /\ This \notin closed /\ Superseded = {}
  /\ \E s \in Slot :
       /\ rooms[s] # NoRoom /\ Occupancy(s) < Capacity
       /\ task' = [task EXCEPT ![This].at = "chosen", ![This].target = rooms[s]]
  /\ UNCHANGED <<hub, sessions, routes, admission, closed, kicked, faults, transfers>>

\* Slots neither running nor recovering, from s on.
Startable(s) == {n \in Slot : n >= s /\ rooms[n] = NoRoom /\ recovering[n] = NoRoom}

\* choose, its second loop: the next slot to start; after the last one the client is
\* turned away.
NextSlot(s) ==
  IF Startable(s) = {}
    THEN Kick({This}) /\ Over
    ELSE /\ \E n \in Startable(s) :
              /\ \A m \in Startable(s) : n <= m
              /\ task' = [task EXCEPT ![This].at = "start", ![This].to = n]
         /\ UNCHANGED <<admission, kicked>>

ChooseStart ==
  /\ Now("turn")
  /\ This \notin closed /\ Superseded = {}
  /\ \A s \in Slot : rooms[s] # NoRoom => Occupancy(s) >= Capacity
  /\ NextSlot(0)
  /\ UNCHANGED <<hub, sessions, routes, closed, faults, transfers>>

\* start answers with a room, whoever else is on the way into it by now, or with none.
StartForHello ==
  /\ Now("start")
  /\ LET s == task[This].to IN
       \/ \E r \in Room :
            /\ Started(s, r)
            /\ task' = [task EXCEPT ![This].at = "chosen", ![This].target = r]
            /\ UNCHANGED <<admission, kicked, faults>>
       \/ NotStarted(s) /\ NextSlot(s + 1)
  /\ UNCHANGED <<sessions, routes, closed, transfers>>

\* The await of choose has returned: the connection is routed to the room's slot.
Route ==
  /\ Now("chosen")
  /\ IF This \in closed
       THEN Over /\ UNCHANGED entry
       ELSE /\ entry' = [entry EXCEPT ![This] = slotOf[task[This].target]]
            /\ Go(This, "join")
            /\ UNCHANGED admission
  /\ UNCHANGED <<hub, sessions, reserved, closed, kicked, faults, transfers>>
--------------------------------------------------------------------------------
(* Joining a room (SessionsSystem.resolveHello): the head count, some       *)
(* awaits, the session, more awaits.                                        *)

\* The room counts its sessions before it reads the character.
Admitted(c, r, next) == ~Full(r) /\ Go(c, next) /\ UNCHANGED kicked
Refused(c, r) == Full(r) /\ Kick({c})

\* The session is registered; another one of the character in this room is closed.
Enter(c, r) ==
  /\ sessions' = [sessions EXCEPT ![r] = @ \cup {c}]
  /\ Kick({o \in sessions[r] \ {c} : CharOf[o] = CharOf[c]})

\* The message's handler has thrown: onMessage closes the connection.
Thrown(c) == Fault /\ Kick({c}) /\ Done(c)

HelloJoin ==
  /\ Now("join")
  /\ LET r == task[This].target IN
       Admitted(This, r, "enter") \/ (Refused(This, r) /\ Go(This, "joined"))
  /\ UNCHANGED <<hub, sessions, routes, admission, closed, faults, transfers>>

HelloEnter ==
  /\ Now("enter")
  /\ Enter(This, task[This].target)
  /\ Go(This, "joined")
  /\ UNCHANGED <<hub, routes, admission, closed, faults, transfers>>

\* A client that is not in the room, or has gone, is taken out of room and routes.
HelloJoined ==
  /\ Now("joined")
  /\ LET r == task[This].target IN
       IF This \in sessions[r] /\ This \notin closed
         THEN UNCHANGED <<sessions, entry>>
         ELSE sessions' = Without({r}, This) /\ entry' = [entry EXCEPT ![This] = NoSlot]
  /\ Over
  /\ UNCHANGED <<hub, reserved, closed, kicked, faults, transfers>>

HelloThrows ==
  /\ \E where \in {"start", "enter", "joined"} : Now(where)
  /\ Thrown(This)
  /\ admission' = Tail(admission)
  /\ UNCHANGED <<hub, sessions, routes, closed, transfers>>
--------------------------------------------------------------------------------
(* A transfer. Messages of the connection are ignored until it ends.        *)

\* Variant: the place is reserved whether or not there is one.
ReserveUnchecked(c, s, r, leaving) ==
  LET t == [at |-> "tDrain", to |-> s, from |-> leaving, source |-> rooms[leaving], target |-> r]
  IN IF rooms[leaving] # NoRoom
       THEN reserved' = [reserved EXCEPT ![s] = @ + 1] /\ task' = [task EXCEPT ![c] = t]
       ELSE Done(c) /\ UNCHANGED reserved

\* A place in the target room r is reserved, unless it is full or the room left is gone.
Reserve(c, s, r, leaving) ==
  LET t == [at |-> "tDrain", to |-> s, from |-> leaving, source |-> rooms[leaving], target |-> r]
  IN IF Occupancy(s) < Capacity /\ rooms[leaving] # NoRoom
       THEN reserved' = [reserved EXCEPT ![s] = @ + 1] /\ task' = [task EXCEPT ![c] = t]
       ELSE Done(c) /\ UNCHANGED reserved

\* A slot without a room is started first.
Transfer(c, s) ==
  /\ transfers < MaxTransfers /\ transfers' = transfers + 1
  /\ Idle(c) /\ entry[c] \notin {NoSlot, s}
  /\ IF rooms[s] # NoRoom
       THEN Reserve(c, s, rooms[s], entry[c])
       ELSE /\ task' = [task EXCEPT ![c].at = "tStart", ![c].to = s, ![c].from = entry[c]]
            /\ UNCHANGED reserved
  /\ UNCHANGED <<hub, sessions, entry, admission, closed, kicked, faults>>

StartForTransfer(c) ==
  /\ At(c, "tStart")
  /\ \/ \E r \in Room :
          /\ Started(task[c].to, r)
          /\ task' = [task EXCEPT ![c].at = "tFound", ![c].target = r]
          /\ UNCHANGED faults
     \/ NotStarted(task[c].to) /\ Done(c)
  /\ UNCHANGED <<sessions, routes, admission, closed, kicked, transfers>>

Found(c) ==
  /\ At(c, "tFound")
  /\ Reserve(c, task[c].to, task[c].target, task[c].from)
  /\ UNCHANGED <<hub, sessions, entry, admission, closed, kicked, faults, transfers>>

Unreserve(c) == reserved' = [reserved EXCEPT ![task[c].to] = @ - 1]

\* The source's saves are written: the player leaves it. Too slow: the player stays.
Leave(c) ==
  /\ At(c, "tDrain")
  /\ \/ sessions' = Without({task[c].source}, c) /\ Go(c, "tLeft") /\ UNCHANGED <<reserved, faults>>
     \/ Fault /\ Unreserve(c) /\ Done(c) /\ UNCHANGED sessions
  /\ UNCHANGED <<hub, entry, admission, closed, kicked, transfers>>

\* Variant: a save that is too slow ends the transfer without a way back.
LeftForGood(c) ==
  /\ At(c, "tLeft")
  /\ \/ Go(c, "tJoin") /\ UNCHANGED <<reserved, faults>>
     \/ Fault /\ Unreserve(c) /\ Done(c)
  /\ UNCHANGED <<hub, sessions, entry, admission, closed, kicked, transfers>>

\* The leaving player's save is written, or is too slow and the player goes back.
Left(c) ==
  /\ At(c, "tLeft")
  /\ \/ Go(c, "tJoin") /\ UNCHANGED faults
     \/ Fault /\ Go(c, "tBack")
  /\ UNCHANGED <<hub, sessions, routes, admission, closed, kicked, transfers>>

TransferJoin(c) ==
  /\ At(c, "tJoin")
  /\ LET r == task[c].target IN
       Admitted(c, r, "tEnter") \/ (Refused(c, r) /\ Go(c, "tJoined"))
  /\ UNCHANGED <<hub, sessions, routes, admission, closed, faults, transfers>>

TransferEnter(c) ==
  /\ At(c, "tEnter")
  /\ Enter(c, task[c].target)
  /\ Go(c, "tJoined")
  /\ UNCHANGED <<hub, routes, admission, closed, faults, transfers>>

\* In the target room: messages go there from now on. Otherwise the player goes back,
\* connected or not.
TransferJoined(c) ==
  /\ At(c, "tJoined")
  /\ LET t == task[c] IN
       IF c \in sessions[t.target] /\ c \notin closed
         THEN entry' = [entry EXCEPT ![c] = t.to] /\ Unreserve(c) /\ Done(c) /\ UNCHANGED sessions
         ELSE sessions' = Without({t.target}, c) /\ Go(c, "tBack") /\ UNCHANGED routes
  /\ UNCHANGED <<hub, admission, closed, kicked, faults, transfers>>

\* The way back counts heads too; refused there, the connection is closed.
Return(c) ==
  /\ At(c, "tBack")
  /\ LET r == task[c].source IN
       \/ Admitted(c, r, "tReenter") /\ UNCHANGED reserved
       \/ Refused(c, r) /\ Unreserve(c) /\ Done(c)
  /\ UNCHANGED <<hub, sessions, entry, admission, closed, faults, transfers>>

\* Nobody looks whether the client went away during the way back.
Reenter(c) ==
  /\ At(c, "tReenter")
  /\ Enter(c, task[c].source)
  /\ Unreserve(c)
  /\ Done(c)
  /\ UNCHANGED <<hub, entry, admission, closed, faults, transfers>>

\* Variant: a throw leaves the reservation behind.
TransferThrowsLeaking(c) ==
  /\ task[c].at \in {"tStart", "tEnter", "tJoined", "tReenter"}
  /\ Thrown(c)
  /\ UNCHANGED <<hub, sessions, routes, admission, closed, transfers>>

\* Starting or joining a room throws: the reservation goes, the connection is closed.
TransferThrows(c) ==
  /\ task[c].at \in {"tStart", "tEnter", "tJoined", "tReenter"}
  /\ Thrown(c)
  /\ IF task[c].at \in ReservedAt THEN Unreserve(c) ELSE UNCHANGED reserved
  /\ UNCHANGED <<hub, sessions, entry, admission, closed, transfers>>
--------------------------------------------------------------------------------
(* The heartbeat: a room whose lease is in doubt keeps its players, one     *)
(* whose lease is lost closes them.                                         *)

Suspend(s) ==
  /\ rooms[s] # NoRoom
  /\ Fault
  /\ rooms' = [rooms EXCEPT ![s] = NoRoom]
  /\ recovering' = [recovering EXCEPT ![s] = rooms[s]]
  /\ UNCHANGED <<slotOf, sessions, routes, admission, task, closed, kicked, transfers>>

Regain(s) ==
  /\ recovering[s] # NoRoom
  /\ rooms' = [rooms EXCEPT ![s] = recovering[s]]
  /\ recovering' = [recovering EXCEPT ![s] = NoRoom]
  /\ UNCHANGED <<slotOf, sessions, routes, admission, task, closed, kicked, faults, transfers>>

StopRoom(s) ==
  /\ rooms[s] # NoRoom \/ recovering[s] # NoRoom
  /\ Fault
  /\ rooms' = [rooms EXCEPT ![s] = NoRoom]
  /\ recovering' = [recovering EXCEPT ![s] = NoRoom]
  /\ entry' = [c \in Conn |-> IF entry[c] = s THEN NoSlot ELSE entry[c]]
  /\ Kick({c \in Conn : entry[c] = s})
  /\ UNCHANGED <<slotOf, sessions, reserved, admission, task, closed, transfers>>

HelloStep ==
  \/ Skip \/ Supersede \/ ChooseRunning \/ ChooseStart \/ StartForHello \/ Route
  \/ HelloJoin \/ HelloEnter \/ HelloJoined

TransferStep(c) ==
  \/ StartForTransfer(c) \/ Found(c) \/ Leave(c) \/ Left(c)
  \/ TransferJoin(c) \/ TransferEnter(c) \/ TransferJoined(c) \/ Return(c) \/ Reenter(c)

Next ==
  \/ HelloStep \/ HelloThrows
  \/ \E c \in Conn :
       \/ Hello(c) \/ Close(c) \/ TransferStep(c) \/ TransferThrows(c)
       \/ \E s \in Slot : Transfer(c, s)
  \/ \E s \in Slot : Suspend(s) \/ Regain(s) \/ StopRoom(s)

Spec == Init /\ [][Next]_vars

\* The event loop runs what is ready: no await of a hello or a transfer lasts for ever.
Fairness == WF_vars(HelloStep) /\ \A c \in Conn : WF_vars(TransferStep(c))

FairSpec == Spec /\ Fairness
--------------------------------------------------------------------------------
\* Types.
TypeOK ==
  /\ rooms \in [Slot -> Room \cup {NoRoom}]
  /\ recovering \in [Slot -> Room \cup {NoRoom}]
  /\ slotOf \in Seq(Slot) /\ Len(slotOf) \in Room
  /\ sessions \in [Room -> SUBSET Conn]
  /\ entry \in [Conn -> Slot \cup {NoSlot}]
  /\ reserved \in [Slot -> Nat]
  /\ admission \in Seq(Conn)
  /\ task \in [Conn -> Task]
  /\ closed \subseteq Conn /\ kicked \subseteq Conn
  /\ faults \in 0 .. MaxFaults /\ transfers \in 0 .. MaxTransfers

\* instanceHub.ts, transfer: a reservation is held exactly as long as a transfer is on its
\* way into the slot, whichever way the transfer ends.
ReservationsBalance ==
  \A s \in Slot :
    reserved[s] = Cardinality({c \in Conn : task[c].at \in ReservedAt /\ task[c].to = s})

Lives(r) == \E s \in Slot : r \in {rooms[s], recovering[s]}

\* A room of the slot has been stopped.
Stopped(s) == \E r \in DOMAIN slotOf : slotOf[r] = s /\ ~Lives(r)

\* docs/instances.md: MAX_PLAYERS is the capacity of each room. The hub routes at most one
\* connection more to a slot, a hello that was given its room before transfers took the
\* last place; and one more again once a room of the slot has stopped, a hello that was
\* given that room and is routed to the slot before it is started again.
BoundedOverbooking ==
  \A s \in Slot : Occupancy(s) <= Capacity + (IF Stopped(s) THEN 2 ELSE 1)

\* A connection has a session in one living room at most, whichever way its transfers
\* ended: a player never plays in two rooms at once.
OneRoomPerConnection ==
  \A c \in Conn : Cardinality({r \in Room : Lives(r) /\ c \in sessions[r]}) <= 1

\* A client that is connected and has nothing pending is in a room of the slot its
\* messages are routed to: every way a transfer fails puts the player back.
PlayerIsInItsRoom ==
  \A c \in Conn \ (closed \cup kicked) :
    Idle(c) /\ entry[c] # NoSlot =>
      \E r \in DOMAIN slotOf : slotOf[r] = entry[c] /\ c \in sessions[r]

\* instanceHub.ts, onMessage: messages are ignored during a transfer, so it has to end:
\* again and again none is under way.
TransferEnds == []<>(\A c \in Conn : task[c].at \notin TransferAt)

\* sessions.ts: "One live session per CHARACTER", in whichever room of the place.
OneLiveSession ==
  \A c, d \in Conn : \A r, q \in Room :
    /\ Lives(r) /\ Lives(q) /\ CharOf[c] = CharOf[d]
    /\ c \in sessions[r] /\ d \in sessions[q] /\ Idle(c) /\ Idle(d)
    => c = d \/ {c, d} \subseteq Conn \ closed
================================================================================
