--------------------------- MODULE RoomTransfersProofs ---------------------------
(* A hub with several rooms, for every number of connections, rooms and     *)
(* places: reservations balance, overbooking is bounded, and a player whose *)
(* transfers have ended is in the room its messages go to.                  *)
EXTENDS RoomTransfers, FiniteSetTheorems, SequenceTheorems, TLAPS

---------------------------------------------------------------------------
(* Tasks *)

Where == {"new", "idle"} \cup HelloAt \cup TransferAt

\* The task of c becomes this, and no other changes.
Moved(c, where, to, from, source, target) ==
  /\ task' \in [Conn -> Task]
  /\ \A d \in Conn : d # c => task'[d] = task[d]
  /\ task'[c].at = where /\ task'[c].to = to /\ task'[c].from = from
  /\ task'[c].source = source /\ task'[c].target = target

MovedTo(c, where) == Moved(c, where, task[c].to, task[c].from, task[c].source, task[c].target)
Ended(c) == Moved(c, "idle", NoSlot, NoSlot, NoRoom, NoRoom)

LEMMA TaskFields ==
  ASSUME NEW t \in Task
  PROVE  /\ t.at \in Where /\ t.to \in Slot \cup {NoSlot} /\ t.from \in Slot \cup {NoSlot}
         /\ t.source \in Room \cup {NoRoom} /\ t.target \in Room \cup {NoRoom}
BY DEF Task, Where

LEMMA BecomesMoved ==
  ASSUME task \in [Conn -> Task], NEW c \in Conn, NEW t \in Task, task' = [task EXCEPT ![c] = t]
  PROVE  Moved(c, t.at, t.to, t.from, t.source, t.target)
<1>1. task' \in [Conn -> Task] /\ task'[c] = t /\ \A d \in Conn : d # c => task'[d] = task[d]
  OBVIOUS
<1> QED BY <1>1 DEF Moved

LEMMA GoMoves ==
  ASSUME task \in [Conn -> Task], NEW c \in Conn, NEW where \in Where, Go(c, where)
  PROVE  MovedTo(c, where)
<1> DEFINE t == [task[c] EXCEPT !.at = where]
<1>1. /\ t \in Task /\ t.at = where /\ t.to = task[c].to /\ t.from = task[c].from
      /\ t.source = task[c].source /\ t.target = task[c].target
  <2>1. task[c] \in Task
    OBVIOUS
  <2> QED BY <2>1 DEF Task, Where
<1>2. task' = [task EXCEPT ![c] = t]
  BY DEF Go
<1> HIDE DEF t
<1>3. Moved(c, t.at, t.to, t.from, t.source, t.target)
  BY <1>1, <1>2, BecomesMoved
<1> QED BY <1>1, <1>3 DEF Moved, MovedTo

LEMMA DoneMoves ==
  ASSUME task \in [Conn -> Task], NEW c \in Conn, Done(c)
  PROVE  Ended(c)
<1> DEFINE t == Resting("idle")
<1>1. /\ t \in Task /\ t.at = "idle" /\ t.to = NoSlot /\ t.from = NoSlot
      /\ t.source = NoRoom /\ t.target = NoRoom
  BY DEF Resting, Task
<1>2. task' = [task EXCEPT ![c] = t]
  BY DEF Done
<1> HIDE DEF t
<1>3. Moved(c, t.at, t.to, t.from, t.source, t.target)
  BY <1>1, <1>2, BecomesMoved
<1> QED BY <1>1, <1>3 DEF Moved, Ended

\* The places where an action sets more than the point reached.
LEMMA ChosenMoves ==
  ASSUME task \in [Conn -> Task], NEW c \in Conn, NEW where \in {"chosen", "tFound"},
         NEW r \in Room \cup {NoRoom},
         task' = [task EXCEPT ![c].at = where, ![c].target = r]
  PROVE  Moved(c, where, task[c].to, task[c].from, task[c].source, r)
<1> DEFINE t == [task[c] EXCEPT !.at = where, !.target = r]
<1>1. /\ t \in Task /\ t.at = where /\ t.to = task[c].to /\ t.from = task[c].from
      /\ t.source = task[c].source /\ t.target = r
  <2>1. task[c] \in Task
    OBVIOUS
  <2> QED BY <2>1 DEF Task, HelloAt, TransferAt
<1>2. task' = [task EXCEPT ![c] = t]
  OBVIOUS
<1> HIDE DEF t
<1>3. Moved(c, t.at, t.to, t.from, t.source, t.target)
  BY <1>1, <1>2, BecomesMoved
<1> QED BY <1>1, <1>3 DEF Moved

LEMMA StartMoves ==
  ASSUME task \in [Conn -> Task], NEW c \in Conn, NEW n \in Slot,
         task' = [task EXCEPT ![c].at = "start", ![c].to = n]
  PROVE  Moved(c, "start", n, task[c].from, task[c].source, task[c].target)
<1> DEFINE t == [task[c] EXCEPT !.at = "start", !.to = n]
<1>1. /\ t \in Task /\ t.at = "start" /\ t.to = n /\ t.from = task[c].from
      /\ t.source = task[c].source /\ t.target = task[c].target
  <2>1. task[c] \in Task
    OBVIOUS
  <2> QED BY <2>1 DEF Task, HelloAt
<1>2. task' = [task EXCEPT ![c] = t]
  OBVIOUS
<1> HIDE DEF t
<1>3. Moved(c, t.at, t.to, t.from, t.source, t.target)
  BY <1>1, <1>2, BecomesMoved
<1> QED BY <1>1, <1>3 DEF Moved

LEMMA TransferMoves ==
  ASSUME task \in [Conn -> Task], NEW c \in Conn, NEW s \in Slot, NEW leaving \in Slot,
         task' = [task EXCEPT ![c].at = "tStart", ![c].to = s, ![c].from = leaving]
  PROVE  Moved(c, "tStart", s, leaving, task[c].source, task[c].target)
<1> DEFINE t == [task[c] EXCEPT !.at = "tStart", !.to = s, !.from = leaving]
<1>1. /\ t \in Task /\ t.at = "tStart" /\ t.to = s /\ t.from = leaving
      /\ t.source = task[c].source /\ t.target = task[c].target
  <2>1. task[c] \in Task
    OBVIOUS
  <2> QED BY <2>1 DEF Task, TransferAt
<1>2. task' = [task EXCEPT ![c] = t]
  OBVIOUS
<1> HIDE DEF t
<1>3. Moved(c, t.at, t.to, t.from, t.source, t.target)
  BY <1>1, <1>2, BecomesMoved
<1> QED BY <1>1, <1>3 DEF Moved

LEMMA ReserveMoves ==
  ASSUME task \in [Conn -> Task], NEW c \in Conn, NEW s \in Slot, NEW r \in Room \cup {NoRoom},
         NEW leaving \in Slot, rooms \in [Slot -> Room \cup {NoRoom}], Reserve(c, s, r, leaving)
  PROVE  \/ /\ Occupancy(s) < Capacity /\ rooms[leaving] # NoRoom
            /\ reserved' = [reserved EXCEPT ![s] = @ + 1]
            /\ Moved(c, "tDrain", s, leaving, rooms[leaving], r)
         \/ Ended(c) /\ UNCHANGED reserved
<1> DEFINE t == [at |-> "tDrain", to |-> s, from |-> leaving, source |-> rooms[leaving], target |-> r]
<1>1. /\ t \in Task /\ t.at = "tDrain" /\ t.to = s /\ t.from = leaving
      /\ t.source = rooms[leaving] /\ t.target = r
  BY DEF Task, TransferAt
<1>2. CASE /\ Occupancy(s) < Capacity /\ rooms[leaving] # NoRoom
           /\ reserved' = [reserved EXCEPT ![s] = @ + 1]
           /\ task' = [task EXCEPT ![c] = t]
  <2> HIDE DEF t
  <2>1. Moved(c, t.at, t.to, t.from, t.source, t.target)
    BY <1>1, <1>2, BecomesMoved
  <2> QED BY <1>1, <1>2, <2>1 DEF Moved
<1>3. CASE Done(c) /\ UNCHANGED reserved
  BY <1>3, DoneMoves
<1> QED BY <1>2, <1>3 DEF Reserve

---------------------------------------------------------------------------
(* Types, and the rooms of the slots *)

HubTypes ==
  /\ rooms \in [Slot -> Room \cup {NoRoom}] /\ recovering \in [Slot -> Room \cup {NoRoom}]
  /\ slotOf \in Seq(Slot) /\ Len(slotOf) \in Room

\* A slot's room was started for that slot.
RoomsHaveSlots ==
  \A s \in Slot : \A r \in {rooms[s], recovering[s]} :
    r # NoRoom => r \in DOMAIN slotOf /\ slotOf[r] = s

PlayerTypes ==
  /\ sessions \in [Room -> SUBSET Conn]
  /\ entry \in [Conn -> Slot \cup {NoSlot}]
  /\ reserved \in [Slot -> Int]
  /\ admission \in Seq(Conn)
  /\ task \in [Conn -> Task]

\* Only the first hello behind the admission chain is past its turn.
OneHello == \A c \in Conn : task[c].at \in HelloAt \ {"turn"} => admission # <<>> /\ c = This

\* What a task has found out by the time it is here: the slot it is about, the room chosen,
\* and for a transfer that the rooms are those of the slots it goes to and comes from.
Known(where, to, from, source, target, slots) ==
  /\ where \in {"start"} \cup TransferAt => to \in Slot
  /\ where \in TransferAt => from \in Slot
  /\ where \in {"chosen", "join", "enter", "joined"} => target \in DOMAIN slots
  /\ where \in {"tFound"} \cup ReservedAt => target \in DOMAIN slots /\ slots[target] = to
  /\ where \in ReservedAt => source \in DOMAIN slots /\ slots[source] = from

TaskKnown(t, slots) == Known(t.at, t.to, t.from, t.source, t.target, slots)
TasksKnown == \A c \in Conn : TaskKnown(task[c], slotOf)

Basis == HubTypes /\ RoomsHaveSlots /\ PlayerTypes /\ OneHello /\ TasksKnown

\* Rooms keep their slots, and one that is not alive never is again.
HubGrows ==
  \A r \in DOMAIN slotOf : r \in DOMAIN slotOf' /\ slotOf'[r] = slotOf[r] /\ (Lives(r)' => Lives(r))

LEMMA SlotsAreNumbers == Slot \subseteq Int /\ NoSlot \notin Slot /\ Room \subseteq Nat /\ NoRoom \notin Room
BY TransferAssumptions DEF Slot, NoSlot, Room, NoRoom

LEMMA StartedHub ==
  ASSUME HubTypes, RoomsHaveSlots, NEW s \in Slot, NEW r \in Room, Started(s, r)
  PROVE  /\ HubTypes' /\ RoomsHaveSlots' /\ HubGrows
         /\ r \in DOMAIN slotOf' /\ slotOf'[r] = s /\ rooms'[s] = r
<1>1. CASE rooms[s] # NoRoom
  <2>1. r = rooms[s] /\ UNCHANGED hub
    BY <1>1 DEF Started
  <2> QED BY <1>1, <2>1 DEF HubTypes, RoomsHaveSlots, HubGrows, Lives, hub
<1>2. CASE rooms[s] = NoRoom
  <2>1. /\ r = Len(slotOf) + 1 /\ rooms' = [rooms EXCEPT ![s] = r]
        /\ slotOf' = Append(slotOf, s) /\ UNCHANGED recovering
    BY <1>2 DEF Started
  <2>2. /\ slotOf' \in Seq(Slot) /\ Len(slotOf') = r /\ DOMAIN slotOf' = 1 .. r
        /\ DOMAIN slotOf = 1 .. r - 1 /\ slotOf'[r] = s /\ r \in Nat \ {0}
        /\ \A q \in 1 .. r - 1 : slotOf'[q] = slotOf[q]
    BY <2>1, SlotsAreNumbers DEF HubTypes, NoRoom
  <2>3. HubTypes'
    BY <2>1, <2>2 DEF HubTypes
  <2>4. \A q \in Slot : rooms'[q] = IF q = s THEN r ELSE rooms[q]
    BY <2>1 DEF HubTypes
  <2>5. \A q \in 1 .. r - 1 : q \in 1 .. r /\ q # r
    BY <2>2
  <2>6. RoomsHaveSlots'
    BY <2>1, <2>2, <2>4, <2>5 DEF RoomsHaveSlots
  <2>7. HubGrows
    BY <2>1, <2>2, <2>4, <2>5 DEF HubGrows, Lives
  <2> QED BY <2>2, <2>3, <2>4, <2>6, <2>7
<1> QED BY <1>1, <1>2

LEMMA SuspendHub ==
  ASSUME HubTypes, RoomsHaveSlots, NEW s \in Slot, Suspend(s) \/ Regain(s) \/ StopRoom(s)
  PROVE  HubTypes' /\ RoomsHaveSlots' /\ HubGrows
<1>1. /\ UNCHANGED slotOf
      /\ rooms' \in [Slot -> Room \cup {NoRoom}] /\ recovering' \in [Slot -> Room \cup {NoRoom}]
      /\ \A q \in Slot : {rooms'[q], recovering'[q]} \subseteq {rooms[q], recovering[q], NoRoom}
  BY DEF HubTypes, Suspend, Regain, StopRoom
<1>2. HubTypes' /\ RoomsHaveSlots'
  BY <1>1 DEF HubTypes, RoomsHaveSlots
<1>3. \A r \in DOMAIN slotOf : r # NoRoom
  BY DEF HubTypes, NoRoom
<1> QED BY <1>1, <1>2, <1>3 DEF HubGrows, Lives

LEMMA QuietHub ==
  ASSUME HubTypes, RoomsHaveSlots, UNCHANGED hub
  PROVE  HubTypes' /\ RoomsHaveSlots' /\ HubGrows
BY DEF HubTypes, RoomsHaveSlots, HubGrows, Lives, hub

LEMMA ThisIsConn ==
  ASSUME PlayerTypes, NEW where, Now(where)
  PROVE  This \in Conn /\ task[This].at = where /\ admission # <<>> /\ Tail(admission) \in Seq(Conn)
BY HeadTailProperties DEF PlayerTypes, Now, This, At

\* What NextSlot leaves: the next slot to start, or the end of the hello.
LEMMA NextSlotMoves ==
  ASSUME HubTypes, PlayerTypes, NEW where, Now(where), NEW s \in Nat, NextSlot(s)
  PROVE  \/ Ended(This) /\ admission' = Tail(admission)
         \/ \E n \in Slot : /\ rooms[n] = NoRoom /\ recovering[n] = NoRoom
                            /\ Moved(This, "start", n, task[This].from, task[This].source, task[This].target)
                            /\ UNCHANGED admission
<1>1. This \in Conn
  BY ThisIsConn
<1>2. CASE Startable(s) = {}
  BY <1>1, <1>2, DoneMoves DEF NextSlot, Over, PlayerTypes
<1>3. CASE Startable(s) # {}
  <2>1. PICK n \in Startable(s) : task' = [task EXCEPT ![This].at = "start", ![This].to = n]
    BY <1>3 DEF NextSlot
  <2>2. n \in Slot /\ rooms[n] = NoRoom /\ recovering[n] = NoRoom
    BY DEF Startable
  <2>3. Moved(This, "start", n, task[This].from, task[This].source, task[This].target)
    BY <1>1, <2>1, <2>2, StartMoves DEF PlayerTypes
  <2> QED BY <1>3, <2>2, <2>3 DEF NextSlot
<1> QED BY <1>2, <1>3

LEMMA RoomOfSlot ==
  ASSUME HubTypes, RoomsHaveSlots, NEW s \in Slot, rooms[s] # NoRoom
  PROVE  rooms[s] \in Room /\ rooms[s] \in DOMAIN slotOf /\ slotOf[rooms[s]] = s
BY DEF HubTypes, RoomsHaveSlots

---------------------------------------------------------------------------
(* What each action does to the tasks *)

LEMMA HelloMoves ==
  ASSUME PlayerTypes, NEW c \in Conn, Hello(c)
  PROVE  MovedTo(c, "turn")
BY GoMoves DEF PlayerTypes, Hello, Where, HelloAt

LEMMA SkipMoves ==
  ASSUME PlayerTypes, Skip \/ HelloJoined \/ HelloThrows
  PROVE  /\ This \in Conn /\ Ended(This) /\ admission' = Tail(admission) /\ admission # <<>>
         /\ task[This].at \in HelloAt
<1>1. PICK where \in HelloAt : Now(where)
  BY DEF Skip, HelloJoined, HelloThrows, HelloAt
<1>2. Done(This) /\ admission' = Tail(admission)
  BY DEF Skip, HelloJoined, HelloThrows, Over, Thrown
<1> QED BY <1>1, <1>2, ThisIsConn, DoneMoves DEF PlayerTypes

LEMMA ChooseRunningMoves ==
  ASSUME HubTypes, PlayerTypes, ChooseRunning
  PROVE  /\ This \in Conn /\ task[This].at = "turn" /\ admission # <<>>
         /\ \E s \in Slot : /\ rooms[s] # NoRoom /\ Occupancy(s) < Capacity
              /\ Moved(This, "chosen", task[This].to, task[This].from, task[This].source, rooms[s])
<1>1. This \in Conn /\ task[This].at = "turn" /\ admission # <<>>
  BY ThisIsConn DEF ChooseRunning
<1>2. PICK s \in Slot : /\ rooms[s] # NoRoom /\ Occupancy(s) < Capacity
                        /\ task' = [task EXCEPT ![This].at = "chosen", ![This].target = rooms[s]]
  BY DEF ChooseRunning
<1>3. rooms[s] \in Room \cup {NoRoom}
  BY DEF HubTypes
<1> QED BY <1>1, <1>2, <1>3, ChosenMoves DEF PlayerTypes

LEMMA RouteMoves ==
  ASSUME PlayerTypes, Route
  PROVE  /\ This \in Conn /\ task[This].at = "chosen" /\ admission # <<>>
         /\ \/ Ended(This) /\ admission' = Tail(admission) /\ UNCHANGED entry
            \/ /\ MovedTo(This, "join") /\ UNCHANGED admission
               /\ entry' = [entry EXCEPT ![This] = slotOf[task[This].target]]
<1>1. This \in Conn /\ task[This].at = "chosen" /\ admission # <<>>
  BY ThisIsConn DEF Route
<1>2. CASE This \in closed
  BY <1>1, <1>2, DoneMoves DEF Route, Over, PlayerTypes
<1>3. CASE This \notin closed
  BY <1>1, <1>3, GoMoves DEF Route, PlayerTypes, Where, HelloAt
<1> QED BY <1>1, <1>2, <1>3

LEMMA JoinMoves ==
  ASSUME PlayerTypes, HelloJoin \/ HelloEnter
  PROVE  /\ This \in Conn /\ task[This].at \in {"join", "enter"} /\ admission # <<>>
         /\ \E where \in {"enter", "joined"} : MovedTo(This, where)
<1>1. CASE HelloJoin
  <2>1. This \in Conn /\ task[This].at = "join" /\ admission # <<>>
    BY <1>1, ThisIsConn DEF HelloJoin
  <2>2. PICK where \in {"enter", "joined"} : Go(This, where)
    BY <1>1 DEF HelloJoin, Admitted
  <2> QED BY <2>1, <2>2, GoMoves DEF PlayerTypes, Where, HelloAt
<1>2. CASE HelloEnter
  <2>1. This \in Conn /\ task[This].at = "enter" /\ admission # <<>>
    BY <1>2, ThisIsConn DEF HelloEnter
  <2>2. Go(This, "joined")
    BY <1>2 DEF HelloEnter
  <2> QED BY <2>1, <2>2, GoMoves DEF PlayerTypes, Where, HelloAt
<1> QED BY <1>1, <1>2

\* A transfer goes on without a change of its reservation.
LEMMA OnwardMoves ==
  ASSUME PlayerTypes, NEW c \in Conn, TransferJoin(c) \/ TransferEnter(c) \/ Left(c)
  PROVE  /\ task[c].at \in {"tJoin", "tEnter", "tLeft"} /\ UNCHANGED reserved
         /\ \E where \in {"tEnter", "tJoined", "tJoin", "tBack"} : MovedTo(c, where)
<1>1. PICK where \in {"tEnter", "tJoined", "tJoin", "tBack"} : Go(c, where)
  BY DEF TransferJoin, TransferEnter, Left, Admitted
<1>2. task[c].at \in {"tJoin", "tEnter", "tLeft"} /\ UNCHANGED reserved
  BY DEF TransferJoin, TransferEnter, Left, At, routes
<1> QED BY <1>1, <1>2, GoMoves DEF PlayerTypes, Where, TransferAt

LEMMA StartMovesHello ==
  ASSUME HubTypes, RoomsHaveSlots, PlayerTypes, StartForHello
  PROVE  /\ This \in Conn /\ task[This].at = "start" /\ admission # <<>> /\ task[This].to \in Slot \cup {NoSlot}
         /\ \/ /\ UNCHANGED admission
               /\ \E r \in Room : /\ Started(task[This].to, r)
                    /\ Moved(This, "chosen", task[This].to, task[This].from, task[This].source, r)
            \/ UNCHANGED hub /\ Ended(This) /\ admission' = Tail(admission)
            \/ /\ UNCHANGED <<hub, admission>>
               /\ \E n \in Slot : /\ rooms[n] = NoRoom /\ recovering[n] = NoRoom
                    /\ Moved(This, "start", n, task[This].from, task[This].source, task[This].target)
<1>1. This \in Conn /\ task[This].at = "start" /\ admission # <<>> /\ Now("start")
  BY ThisIsConn DEF StartForHello
<1>2. task[This].to \in Slot \cup {NoSlot}
  BY <1>1, TaskFields DEF PlayerTypes
<1>3. ASSUME NEW r \in Room, Started(task[This].to, r), UNCHANGED admission,
             task' = [task EXCEPT ![This].at = "chosen", ![This].target = r]
      PROVE  Moved(This, "chosen", task[This].to, task[This].from, task[This].source, r)
  BY <1>1, <1>3, ChosenMoves DEF PlayerTypes
<1>4. CASE NotStarted(task[This].to) /\ NextSlot(task[This].to + 1)
  <2>1. UNCHANGED hub
    BY <1>4 DEF NotStarted
  <2>2. task[This].to + 1 \in Nat
    BY <1>2 DEF Slot, NoSlot
  <2> QED BY <1>1, <1>2, <1>4, <2>1, <2>2, NextSlotMoves
<1> QED BY <1>1, <1>2, <1>3, <1>4 DEF StartForHello

LEMMA TransferBegins ==
  ASSUME HubTypes, PlayerTypes, NEW c \in Conn, NEW s \in Slot, Transfer(c, s)
  PROVE  /\ task[c].at = "idle" /\ entry[c] \in Slot
         /\ \/ rooms[s] # NoRoom /\ Reserve(c, s, rooms[s], entry[c])
            \/ UNCHANGED reserved /\ Moved(c, "tStart", s, entry[c], task[c].source, task[c].target)
<1>1. task[c].at = "idle" /\ entry[c] \in Slot
  BY DEF Transfer, Idle, At, PlayerTypes
<1>2. CASE rooms[s] = NoRoom
  BY <1>1, <1>2, TransferMoves DEF Transfer, PlayerTypes
<1> QED BY <1>1, <1>2 DEF Transfer

LEMMA StartMovesTransfer ==
  ASSUME HubTypes, RoomsHaveSlots, PlayerTypes, NEW c \in Conn, StartForTransfer(c)
  PROVE  /\ task[c].at = "tStart"
         /\ \/ \E r \in Room : /\ Started(task[c].to, r)
                 /\ Moved(c, "tFound", task[c].to, task[c].from, task[c].source, r)
            \/ UNCHANGED hub /\ Ended(c)
<1>1. task[c].at = "tStart"
  BY DEF StartForTransfer, At
<1>2. ASSUME NEW r \in Room, Started(task[c].to, r),
             task' = [task EXCEPT ![c].at = "tFound", ![c].target = r]
      PROVE  Moved(c, "tFound", task[c].to, task[c].from, task[c].source, r)
  BY <1>2, ChosenMoves DEF PlayerTypes
<1>3. CASE NotStarted(task[c].to) /\ Done(c)
  BY <1>1, <1>3, DoneMoves DEF PlayerTypes, NotStarted
<1> QED BY <1>1, <1>2, <1>3 DEF StartForTransfer

\* The ends of a transfer that holds a place give it back.
LEMMA EndingMoves ==
  ASSUME PlayerTypes, NEW c \in Conn,
         Leave(c) \/ TransferJoined(c) \/ Return(c) \/ Reenter(c) \/ TransferThrows(c)
  PROVE  \/ /\ task[c].at \in ReservedAt /\ UNCHANGED reserved
            /\ \E where \in {"tLeft", "tBack", "tReenter"} : MovedTo(c, where)
         \/ task[c].at \in ReservedAt /\ Unreserve(c) /\ Ended(c)
         \/ task[c].at \in TransferAt \ ReservedAt /\ UNCHANGED reserved /\ Ended(c)
<1>1. CASE Leave(c)
  BY <1>1, GoMoves, DoneMoves DEF Leave, PlayerTypes, Where, At, ReservedAt, TransferAt
<1>2. CASE TransferJoined(c)
  BY <1>2, GoMoves, DoneMoves DEF TransferJoined, PlayerTypes, Where, At, ReservedAt, TransferAt, routes
<1>3. CASE Return(c)
  BY <1>3, GoMoves, DoneMoves DEF Return, Admitted, PlayerTypes, Where, At, ReservedAt, TransferAt
<1>4. CASE Reenter(c)
  BY <1>4, DoneMoves DEF Reenter, PlayerTypes, At, ReservedAt, TransferAt
<1>5. CASE TransferThrows(c)
  BY <1>5, DoneMoves DEF TransferThrows, Thrown, PlayerTypes, ReservedAt, TransferAt
<1> QED BY <1>1, <1>2, <1>3, <1>4, <1>5

---------------------------------------------------------------------------
(* The basis is inductive *)

LEMMA HubStep ==
  ASSUME Basis, [Next]_vars
  PROVE  HubTypes' /\ RoomsHaveSlots' /\ HubGrows
<1>1. CASE UNCHANGED hub
  BY <1>1, QuietHub DEF Basis
<1>2. ASSUME NEW c \in Conn, NEW r \in Room, Started(task[c].to, r),
             task[c].at \in {"start"} \cup TransferAt
      PROVE  HubTypes' /\ RoomsHaveSlots' /\ HubGrows
  BY <1>2, StartedHub DEF Basis, TasksKnown, TaskKnown, Known
<1>3. ASSUME NEW s \in Slot, Suspend(s) \/ Regain(s) \/ StopRoom(s)
      PROVE  HubTypes' /\ RoomsHaveSlots' /\ HubGrows
  BY <1>3, SuspendHub DEF Basis
<1>4. CASE HelloStep
  <2>1. CASE StartForHello
    BY <1>1, <1>2, <2>1, StartMovesHello DEF Basis
  <2>2. CASE UNCHANGED hub
    BY <1>1, <2>2
  <2> QED BY <1>4, <2>1, <2>2 DEF HelloStep, Skip, Supersede, ChooseRunning, ChooseStart, Route,
             HelloJoin, HelloEnter, HelloJoined
<1>5. ASSUME NEW c \in Conn, TransferStep(c)
      PROVE  HubTypes' /\ RoomsHaveSlots' /\ HubGrows
  <2>1. CASE StartForTransfer(c)
    <3>1. task[c].at \in {"start"} \cup TransferAt
      BY <2>1, StartMovesTransfer DEF Basis, TransferAt
    <3> QED BY <1>1, <1>2, <2>1, <3>1, StartMovesTransfer DEF Basis
  <2>2. CASE UNCHANGED hub
    BY <1>1, <2>2
  <2> QED BY <1>5, <2>1, <2>2 DEF TransferStep, Found, Leave, Left, TransferJoin, TransferEnter,
             TransferJoined, Return, Reenter
<1>6. CASE HelloThrows
  BY <1>1, <1>6 DEF HelloThrows
<1>7. ASSUME NEW c \in Conn, Hello(c) \/ Close(c) \/ TransferThrows(c) \/ \E s \in Slot : Transfer(c, s)
      PROVE  HubTypes' /\ RoomsHaveSlots' /\ HubGrows
  BY <1>1, <1>7 DEF Hello, Close, TransferThrows, Transfer
<1>8. CASE UNCHANGED vars
  BY <1>1, <1>8 DEF vars
<1> QED BY <1>3, <1>4, <1>5, <1>6, <1>7, <1>8 DEF Next

\* A task moves on: what it knows then is enough, and the others still know what they knew.
LEMMA KnownMoves ==
  ASSUME Basis, HubGrows, NEW c \in Conn, NEW w, NEW to, NEW from, NEW source, NEW target,
         Moved(c, w, to, from, source, target),
         Known(w, to, from, source, target, slotOf')
  PROVE  TasksKnown' /\ task' \in [Conn -> Task]
<1>1. \A d \in Conn : TaskKnown(task[d], slotOf) => TaskKnown(task[d], slotOf')
  BY DEF HubGrows, TaskKnown, Known
<1>2. TaskKnown(task'[c], slotOf')
  BY DEF Moved, TaskKnown
<1> QED BY <1>1, <1>2 DEF Basis, TasksKnown, Moved

LEMMA KnownStays ==
  ASSUME Basis, HubGrows, UNCHANGED task
  PROVE  TasksKnown' /\ task' \in [Conn -> Task]
BY DEF Basis, PlayerTypes, HubGrows, TasksKnown, TaskKnown, Known

LEMMA KnownGrows ==
  ASSUME HubGrows, NEW w, NEW to, NEW from, NEW source, NEW target,
         Known(w, to, from, source, target, slotOf)
  PROVE  Known(w, to, from, source, target, slotOf')
BY DEF HubGrows, Known

LEMMA EndedKnown ==
  ASSUME Basis, HubGrows, NEW c \in Conn, Ended(c)
  PROVE  TasksKnown' /\ task' \in [Conn -> Task]
<1>1. Known("idle", NoSlot, NoSlot, NoRoom, NoRoom, slotOf')
  BY DEF Known, TransferAt, ReservedAt
<1> QED BY <1>1, KnownMoves DEF Ended

\* A task that only goes from one point to the next.
LEMMA MovedToKnown ==
  ASSUME Basis, HubGrows, NEW c \in Conn, NEW where, MovedTo(c, where),
         \/ where \notin {"start", "chosen", "join", "enter", "joined"} \cup TransferAt
         \/ where \in ReservedAt /\ task[c].at \in ReservedAt
         \/ where \in {"join", "enter", "joined"} /\ task[c].at \in {"chosen", "join", "enter", "joined"}
  PROVE  TasksKnown' /\ task' \in [Conn -> Task]
<1>1. Known(task[c].at, task[c].to, task[c].from, task[c].source, task[c].target, slotOf)
  BY DEF Basis, TasksKnown, TaskKnown
<1>2. Known(where, task[c].to, task[c].from, task[c].source, task[c].target, slotOf)
  BY <1>1 DEF Known, TransferAt, ReservedAt
<1> QED BY <1>2, KnownGrows, KnownMoves DEF MovedTo

LEMMA OneHelloMoves ==
  ASSUME Basis, NEW c \in Conn, NEW w, NEW to, NEW from, NEW source, NEW target,
         Moved(c, w, to, from, source, target),
         w \in HelloAt \ {"turn"} => admission # <<>> /\ c = This /\ UNCHANGED admission,
         \/ UNCHANGED admission
         \/ admission' = Append(admission, c)
         \/ admission # <<>> /\ c = This /\ admission' = Tail(admission)
  PROVE  OneHello' /\ admission' \in Seq(Conn)
<1>1. admission \in Seq(Conn)
  BY DEF Basis, PlayerTypes
<1>2. admission' \in Seq(Conn)
  BY <1>1, HeadTailProperties
<1>3. ASSUME NEW d \in Conn, task'[d].at \in HelloAt \ {"turn"}
      PROVE  admission' # <<>> /\ d = Head(admission')
  <2>1. CASE d = c
    BY <1>3, <2>1 DEF Moved, This
  <2>2. CASE d # c
    <3>1. task[d].at \in HelloAt \ {"turn"}
      BY <1>3, <2>2 DEF Moved
    <3>2. admission # <<>> /\ d = Head(admission)
      BY <3>1 DEF Basis, OneHello, This
    <3>3. CASE UNCHANGED admission
      BY <3>2, <3>3
    <3>4. CASE admission' = Append(admission, c)
      BY <1>1, <3>2, <3>4, HeadTailAppend
    <3> QED BY <2>2, <3>2, <3>3, <3>4 DEF This
  <2> QED BY <2>1, <2>2
<1> QED BY <1>2, <1>3 DEF OneHello, This

\* The two together.
TasksHold == TasksKnown /\ OneHello /\ task \in [Conn -> Task] /\ admission \in Seq(Conn)

LEMMA TasksStay ==
  ASSUME Basis, HubGrows, UNCHANGED <<task, admission>>
  PROVE  TasksHold'
BY KnownStays DEF Basis, PlayerTypes, TasksHold, OneHello, This

LEMMA EndedHolds ==
  ASSUME Basis, HubGrows, NEW c \in Conn, Ended(c),
         \/ UNCHANGED admission
         \/ admission # <<>> /\ c = This /\ admission' = Tail(admission)
  PROVE  TasksHold'
BY EndedKnown, OneHelloMoves DEF TasksHold, Ended, HelloAt

LEMMA OnwardHolds ==
  ASSUME Basis, HubGrows, NEW c \in Conn, NEW where \in TransferAt, MovedTo(c, where),
         where \in ReservedAt /\ task[c].at \in ReservedAt, UNCHANGED admission
  PROVE  TasksHold'
BY MovedToKnown, OneHelloMoves DEF TasksHold, MovedTo, HelloAt, TransferAt

LEMMA HelloStepHolds ==
  ASSUME Basis, HubGrows, HelloStep \/ HelloThrows
  PROVE  TasksHold'
<1> USE DEF HelloAt
<1>1. CASE Skip \/ HelloJoined \/ HelloThrows
  BY <1>1, SkipMoves, EndedHolds DEF Basis
<1>2. CASE Supersede
  BY <1>2, TasksStay DEF Supersede
<1>3. CASE ChooseRunning
  <2>1. PICK s \in Slot : /\ rooms[s] # NoRoom
              /\ Moved(This, "chosen", task[This].to, task[This].from, task[This].source, rooms[s])
    BY <1>3, ChooseRunningMoves DEF Basis
  <2>2. This \in Conn /\ admission # <<>> /\ UNCHANGED admission
    BY <1>3, ChooseRunningMoves DEF Basis, ChooseRunning
  <2>3. Known("chosen", task[This].to, task[This].from, task[This].source, rooms[s], slotOf)
    BY <2>1, RoomOfSlot DEF Basis, Known, TransferAt, ReservedAt
  <2> QED BY <2>1, <2>2, <2>3, KnownGrows, KnownMoves, OneHelloMoves DEF TasksHold
<1>4. ASSUME This \in Conn, admission # <<>>, UNCHANGED admission, NEW n \in Slot,
             Moved(This, "start", n, task[This].from, task[This].source, task[This].target)
      PROVE  TasksHold'
  <2>1. Known("start", n, task[This].from, task[This].source, task[This].target, slotOf')
    BY DEF Known, ReservedAt, TransferAt
  <2> QED BY <1>4, <2>1, KnownMoves, OneHelloMoves DEF TasksHold
<1>5. CASE ChooseStart
  <2>1. This \in Conn /\ admission # <<>>
    BY <1>5, ThisIsConn DEF ChooseStart, Basis
  <2>2. \/ Ended(This) /\ admission' = Tail(admission)
        \/ \E n \in Slot : /\ Moved(This, "start", n, task[This].from, task[This].source, task[This].target)
                           /\ UNCHANGED admission
    BY <1>5, NextSlotMoves DEF ChooseStart, Basis
  <2> QED BY <1>4, <2>1, <2>2, EndedHolds
<1>6. CASE StartForHello
  <2>1. This \in Conn /\ admission # <<>> /\ task[This].at = "start" /\ task[This].to \in Slot
    BY <1>6, StartMovesHello DEF Basis, TasksKnown, TaskKnown, Known
  <2>2. ASSUME NEW r \in Room, Started(task[This].to, r), UNCHANGED admission,
               Moved(This, "chosen", task[This].to, task[This].from, task[This].source, r)
        PROVE  TasksHold'
    <3>1. r \in DOMAIN slotOf'
      BY <2>1, <2>2, StartedHub DEF Basis
    <3>2. Known("chosen", task[This].to, task[This].from, task[This].source, r, slotOf')
      BY <3>1 DEF Known, TransferAt, ReservedAt
    <3> QED BY <2>1, <2>2, <3>2, KnownMoves, OneHelloMoves DEF TasksHold
  <2> QED BY <1>4, <1>6, <2>1, <2>2, StartMovesHello, EndedHolds DEF Basis
<1>7. CASE Route
  <2>1. This \in Conn /\ admission # <<>> /\ task[This].at = "chosen"
    BY <1>7, RouteMoves DEF Basis
  <2>2. CASE Ended(This) /\ admission' = Tail(admission)
    BY <2>1, <2>2, EndedHolds
  <2>3. CASE MovedTo(This, "join") /\ UNCHANGED admission
    BY <2>1, <2>3, MovedToKnown, OneHelloMoves DEF TasksHold, MovedTo
  <2> QED BY <1>7, <2>2, <2>3, RouteMoves DEF Basis
<1>8. CASE HelloJoin \/ HelloEnter
  <2>1. This \in Conn /\ admission # <<>> /\ task[This].at \in {"join", "enter"} /\ UNCHANGED admission
    BY <1>8, JoinMoves DEF Basis, HelloJoin, HelloEnter
  <2>2. PICK where \in {"enter", "joined"} : MovedTo(This, where)
    BY <1>8, JoinMoves DEF Basis
  <2> QED BY <2>1, <2>2, MovedToKnown, OneHelloMoves DEF TasksHold, MovedTo
<1> QED BY <1>1, <1>2, <1>3, <1>5, <1>6, <1>7, <1>8 DEF HelloStep

LEMMA TransferStepHolds ==
  ASSUME Basis, HubGrows, NEW c \in Conn,
         TransferStep(c) \/ TransferThrows(c) \/ \E s \in Slot : Transfer(c, s)
  PROVE  TasksHold'
<1>1. ASSUME NEW s \in Slot, NEW r, NEW leaving \in Slot, Reserve(c, s, r, leaving), UNCHANGED admission,
             r \in DOMAIN slotOf /\ slotOf[r] = s
      PROVE  TasksHold'
  <2>1. r \in Room \cup {NoRoom}
    BY <1>1, TransferAssumptions DEF Basis, HubTypes, Room
  <2>2. CASE Ended(c)
    BY <1>1, <2>2, EndedHolds
  <2>3. CASE rooms[leaving] # NoRoom /\ Moved(c, "tDrain", s, leaving, rooms[leaving], r)
    <3>1. Known("tDrain", s, leaving, rooms[leaving], r, slotOf)
      BY <1>1, <2>3, RoomOfSlot DEF Basis, Known
    <3> QED BY <1>1, <2>3, <3>1, KnownGrows, KnownMoves, OneHelloMoves DEF TasksHold, HelloAt
  <2> QED BY <1>1, <2>1, <2>2, <2>3, ReserveMoves DEF Basis, HubTypes, PlayerTypes
<1>2. ASSUME NEW s \in Slot, Transfer(c, s)
      PROVE  TasksHold'
  <2>1. entry[c] \in Slot /\ UNCHANGED admission
    BY <1>2, TransferBegins DEF Basis, Transfer
  <2>2. CASE rooms[s] # NoRoom /\ Reserve(c, s, rooms[s], entry[c])
    BY <1>1, <2>1, <2>2, RoomOfSlot DEF Basis
  <2>3. CASE Moved(c, "tStart", s, entry[c], task[c].source, task[c].target)
    <3>1. Known("tStart", s, entry[c], task[c].source, task[c].target, slotOf')
      BY <2>1 DEF Known, ReservedAt
    <3> QED BY <2>1, <2>3, <3>1, KnownMoves, OneHelloMoves DEF TasksHold, HelloAt
  <2> QED BY <1>2, <2>2, <2>3, TransferBegins DEF Basis
<1>3. CASE StartForTransfer(c)
  <2>1. task[c].at = "tStart" /\ task[c].to \in Slot /\ task[c].from \in Slot /\ UNCHANGED admission
    BY <1>3, StartMovesTransfer DEF Basis, TasksKnown, TaskKnown, Known, TransferAt, StartForTransfer
  <2>2. ASSUME NEW r \in Room, Started(task[c].to, r),
               Moved(c, "tFound", task[c].to, task[c].from, task[c].source, r)
        PROVE  TasksHold'
    <3>1. r \in DOMAIN slotOf' /\ slotOf'[r] = task[c].to
      BY <2>1, <2>2, StartedHub DEF Basis
    <3>2. Known("tFound", task[c].to, task[c].from, task[c].source, r, slotOf')
      BY <2>1, <3>1 DEF Known, ReservedAt
    <3> QED BY <2>1, <2>2, <3>2, KnownMoves, OneHelloMoves DEF TasksHold, HelloAt
  <2> QED BY <1>3, <2>1, <2>2, StartMovesTransfer, EndedHolds DEF Basis
<1>4. CASE Found(c)
  <2>1. /\ task[c].at = "tFound" /\ UNCHANGED admission
        /\ Reserve(c, task[c].to, task[c].target, task[c].from)
    BY <1>4 DEF Found, At
  <2>2. /\ task[c].to \in Slot /\ task[c].target \in DOMAIN slotOf /\ slotOf[task[c].target] = task[c].to
    BY <2>1 DEF Basis, TasksKnown, TaskKnown, Known, TransferAt
  <2>3. task[c].from \in Slot
    BY <2>1 DEF Basis, TasksKnown, TaskKnown, Known, TransferAt
  <2> QED BY <1>1, <2>1, <2>2, <2>3
<1>5. CASE TransferJoin(c) \/ TransferEnter(c) \/ Left(c)
  <2>1. UNCHANGED admission
    BY <1>5 DEF TransferJoin, TransferEnter, Left
  <2>2. task[c].at \in ReservedAt
    BY <1>5, OnwardMoves DEF Basis, ReservedAt, TransferAt
  <2>3. PICK where \in {"tEnter", "tJoined", "tJoin", "tBack"} : MovedTo(c, where)
    BY <1>5, OnwardMoves DEF Basis
  <2>4. where \in TransferAt /\ where \in ReservedAt
    BY DEF ReservedAt, TransferAt
  <2> QED BY <2>1, <2>2, <2>3, <2>4, OnwardHolds
<1>6. CASE Leave(c) \/ TransferJoined(c) \/ Return(c) \/ Reenter(c) \/ TransferThrows(c)
  <2>1. UNCHANGED admission
    BY <1>6 DEF Leave, TransferJoined, Return, Reenter, TransferThrows
  <2>2. CASE Ended(c)
    BY <2>1, <2>2, EndedHolds
  <2>3. ASSUME task[c].at \in ReservedAt, NEW where \in {"tLeft", "tBack", "tReenter"}, MovedTo(c, where)
        PROVE  TasksHold'
    <3>1. where \in TransferAt /\ where \in ReservedAt
      BY DEF ReservedAt, TransferAt
    <3> QED BY <2>1, <2>3, <3>1, OnwardHolds
  <2> QED BY <1>6, <2>2, <2>3, EndingMoves DEF Basis
<1> QED BY <1>2, <1>3, <1>4, <1>5, <1>6 DEF TransferStep

LEMMA TasksStep ==
  ASSUME Basis, [Next]_vars
  PROVE  TasksHold' /\ HubGrows
<1>1. HubGrows
  BY HubStep
<1>2. ASSUME NEW c \in Conn, Hello(c)
      PROVE  TasksHold'
  <2>1. MovedTo(c, "turn") /\ admission' = Append(admission, c)
    BY <1>2, HelloMoves DEF Basis, Hello
  <2> QED BY <1>1, <2>1, MovedToKnown, OneHelloMoves DEF TasksHold, MovedTo, TransferAt
<1>3. ASSUME NEW c \in Conn, Close(c)
      PROVE  TasksHold'
  BY <1>1, <1>3, TasksStay DEF Close
<1>4. ASSUME NEW s \in Slot, Suspend(s) \/ Regain(s) \/ StopRoom(s)
      PROVE  TasksHold'
  BY <1>1, <1>4, TasksStay DEF Suspend, Regain, StopRoom
<1>5. CASE UNCHANGED vars
  BY <1>1, <1>5, TasksStay DEF vars
<1> QED BY <1>1, <1>2, <1>3, <1>4, <1>5, HelloStepHolds, TransferStepHolds DEF Next

LEMMA SessionsType ==
  ASSUME Basis, [Next]_vars
  PROVE  sessions' \in [Room -> SUBSET Conn]
<1>1. sessions \in [Room -> SUBSET Conn] /\ (admission # <<>> => This \in Conn)
  BY ThisIsConn, HeadTailProperties DEF Basis, PlayerTypes, This
<1>2. CASE UNCHANGED sessions
  BY <1>1, <1>2
<1>3. ASSUME NEW where, NEW c, sessions' = Without(where, c)
      PROVE  sessions' \in [Room -> SUBSET Conn]
  BY <1>1, <1>3 DEF Without
<1>4. ASSUME NEW c \in Conn, NEW r, Enter(c, r)
      PROVE  sessions' \in [Room -> SUBSET Conn]
  BY <1>1, <1>4 DEF Enter
<1>5. CASE HelloStep
  <2>1. CASE HelloEnter
    BY <1>1, <1>4, <2>1 DEF HelloEnter, Now
  <2>2. CASE HelloJoined
    BY <1>2, <1>3, <2>2 DEF HelloJoined
  <2>3. CASE Supersede
    BY <1>2, <1>3, <2>3 DEF Supersede, Disconnect
  <2> QED BY <1>2, <1>5, <2>1, <2>2, <2>3
          DEF HelloStep, Skip, ChooseRunning, ChooseStart, StartForHello, Route, HelloJoin
<1>6. ASSUME NEW c \in Conn, TransferStep(c)
      PROVE  sessions' \in [Room -> SUBSET Conn]
  <2>1. CASE TransferEnter(c) \/ Reenter(c)
    BY <1>4, <2>1 DEF TransferEnter, Reenter
  <2>2. CASE Leave(c) \/ TransferJoined(c)
    BY <1>2, <1>3, <2>2 DEF Leave, TransferJoined
  <2> QED BY <1>2, <1>6, <2>1, <2>2 DEF TransferStep, StartForTransfer, Found, Left, TransferJoin, Return
<1>7. ASSUME NEW c \in Conn, Close(c)
      PROVE  sessions' \in [Room -> SUBSET Conn]
  BY <1>2, <1>3, <1>7 DEF Close, Disconnect
<1>8. CASE HelloThrows
  BY <1>2, <1>8 DEF HelloThrows
<1>9. ASSUME NEW c \in Conn, Hello(c) \/ TransferThrows(c) \/ \E s \in Slot : Transfer(c, s)
      PROVE  sessions' \in [Room -> SUBSET Conn]
  BY <1>2, <1>9 DEF Hello, TransferThrows, Transfer
<1>10. ASSUME NEW s \in Slot, Suspend(s) \/ Regain(s) \/ StopRoom(s)
       PROVE  sessions' \in [Room -> SUBSET Conn]
  BY <1>2, <1>10 DEF Suspend, Regain, StopRoom
<1>11. CASE UNCHANGED vars
  BY <1>2, <1>11 DEF vars
<1> QED BY <1>5, <1>6, <1>7, <1>8, <1>9, <1>10, <1>11 DEF Next

\* Who is routed where: a hello's and a transfer's end, and nothing else but leaving.
EntryMoves ==
  \/ UNCHANGED entry
  \/ /\ entry' \in [Conn -> Slot \cup {NoSlot}]
     /\ \A c \in Conn : entry'[c] \in {entry[c], NoSlot}
  \/ Route /\ This \in Conn /\ entry' = [entry EXCEPT ![This] = slotOf[task[This].target]]
  \/ \E c \in Conn : TransferJoined(c) /\ entry' = [entry EXCEPT ![c] = task[c].to]

LEMMA EntryStep ==
  ASSUME Basis, [Next]_vars
  PROVE  EntryMoves
<1>1. entry \in [Conn -> Slot \cup {NoSlot}]
  BY DEF Basis, PlayerTypes
<1>2. CASE HelloStep
  <2>1. CASE Route
    BY <2>1, RouteMoves DEF Basis, EntryMoves
  <2>2. CASE HelloJoined
    BY <1>1, <2>2 DEF HelloJoined, EntryMoves
  <2>3. CASE Supersede
    BY <1>1, <2>3 DEF Supersede, Disconnect, EntryMoves
  <2> QED BY <1>2, <2>1, <2>2, <2>3
          DEF HelloStep, Skip, ChooseRunning, ChooseStart, StartForHello, HelloJoin, HelloEnter, EntryMoves, routes
<1>3. ASSUME NEW c \in Conn, TransferStep(c)
      PROVE  EntryMoves
  <2>1. CASE TransferJoined(c)
    BY <2>1 DEF TransferJoined, EntryMoves, routes
  <2> QED BY <1>3, <2>1 DEF TransferStep, StartForTransfer, Found, Leave, Left, TransferJoin, TransferEnter,
             Return, Reenter, EntryMoves, routes
<1>4. ASSUME NEW c \in Conn, Close(c)
      PROVE  EntryMoves
  BY <1>1, <1>4 DEF Close, Disconnect, EntryMoves
<1>5. CASE HelloThrows
  BY <1>5 DEF HelloThrows, EntryMoves, routes
<1>6. ASSUME NEW c \in Conn, Hello(c) \/ TransferThrows(c) \/ \E s \in Slot : Transfer(c, s)
      PROVE  EntryMoves
  BY <1>6 DEF Hello, TransferThrows, Transfer, EntryMoves, routes
<1>7. ASSUME NEW s \in Slot, Suspend(s) \/ Regain(s) \/ StopRoom(s)
      PROVE  EntryMoves
  BY <1>1, <1>7 DEF Suspend, Regain, StopRoom, EntryMoves, routes
<1>8. CASE UNCHANGED vars
  BY <1>8 DEF vars, routes, EntryMoves
<1> QED BY <1>2, <1>3, <1>4, <1>5, <1>6, <1>7, <1>8 DEF Next

---------------------------------------------------------------------------
(* Reservations *)

Holds(t) == t.at \in ReservedAt

\* A reservation is made, given back, or left alone, together with the task that holds it.
ReservesNothing ==
  /\ UNCHANGED reserved
  /\ \A d \in Conn : Holds(task'[d]) <=> Holds(task[d])
  /\ \A d \in Conn : Holds(task[d]) => task'[d].to = task[d].to
Reserves(c, s) ==
  /\ ~Holds(task[c]) /\ Holds(task'[c]) /\ task'[c].to = s
  /\ \A d \in Conn : d # c => task'[d] = task[d]
  /\ reserved' = [reserved EXCEPT ![s] = @ + 1]
  /\ Occupancy(s) < Capacity
GivesBack(c) ==
  /\ Holds(task[c]) /\ ~Holds(task'[c])
  /\ \A d \in Conn : d # c => task'[d] = task[d]
  /\ Unreserve(c)

ReservedMoves ==
  \/ ReservesNothing
  \/ \E c \in Conn, s \in Slot : Reserves(c, s)
  \/ \E c \in Conn : GivesBack(c)

LEMMA MovedReservesNothing ==
  ASSUME NEW c \in Conn, NEW w, NEW to, NEW from, NEW source, NEW target,
         Moved(c, w, to, from, source, target), UNCHANGED reserved,
         w \in ReservedAt <=> task[c].at \in ReservedAt, w \in ReservedAt => to = task[c].to
  PROVE  ReservesNothing
BY DEF Moved, ReservesNothing, Holds

LEMMA HelloReservesNothing ==
  ASSUME Basis, HelloStep \/ HelloThrows
  PROVE  ReservesNothing
<1> USE DEF HelloAt, ReservedAt, TransferAt
<1>1. UNCHANGED reserved
  BY DEF HelloStep, HelloThrows, Skip, Supersede, ChooseRunning, ChooseStart, StartForHello, Route,
         HelloJoin, HelloEnter, HelloJoined, routes
<1>2. CASE Skip \/ HelloJoined \/ HelloThrows
  BY <1>1, <1>2, SkipMoves, MovedReservesNothing DEF Basis, Ended
<1>3. CASE Supersede
  BY <1>1, <1>3 DEF Supersede, ReservesNothing
<1>4. CASE ChooseRunning
  BY <1>1, <1>4, ChooseRunningMoves, MovedReservesNothing DEF Basis
<1>5. CASE ChooseStart
  <2>1. This \in Conn /\ task[This].at = "turn" /\ Now("turn") /\ NextSlot(0)
    BY <1>5, ThisIsConn DEF ChooseStart, Basis
  <2> QED BY <1>1, <2>1, NextSlotMoves, MovedReservesNothing DEF Basis, Ended
<1>6. CASE StartForHello
  BY <1>1, <1>6, StartMovesHello, MovedReservesNothing DEF Basis, Ended
<1>7. CASE Route
  BY <1>1, <1>7, RouteMoves, MovedReservesNothing DEF Basis, Ended, MovedTo
<1>8. CASE HelloJoin \/ HelloEnter
  BY <1>1, <1>8, JoinMoves, MovedReservesNothing DEF Basis, MovedTo
<1> QED BY <1>2, <1>3, <1>4, <1>5, <1>6, <1>7, <1>8 DEF HelloStep

LEMMA ReserveReserves ==
  ASSUME Basis, NEW c \in Conn, NEW s \in Slot, NEW r \in Room \cup {NoRoom}, NEW leaving \in Slot,
         Reserve(c, s, r, leaving), ~Holds(task[c])
  PROVE  ReservesNothing \/ Reserves(c, s)
<1> USE DEF HelloAt, ReservedAt, TransferAt
<1>1. CASE Ended(c) /\ UNCHANGED reserved
  BY <1>1, MovedReservesNothing DEF Ended, Holds
<1>2. CASE /\ Occupancy(s) < Capacity /\ reserved' = [reserved EXCEPT ![s] = @ + 1]
           /\ Moved(c, "tDrain", s, leaving, rooms[leaving], r)
  BY <1>2 DEF Moved, Reserves, Holds
<1> QED BY <1>1, <1>2, ReserveMoves DEF Basis, HubTypes, PlayerTypes

LEMMA ReservedStep ==
  ASSUME Basis, [Next]_vars
  PROVE  ReservedMoves
<1> USE DEF HelloAt, ReservedAt, TransferAt
<1>1. CASE UNCHANGED <<task, reserved>>
  BY <1>1 DEF ReservedMoves, ReservesNothing
<1>2. ASSUME NEW c \in Conn, Hello(c)
      PROVE  ReservedMoves
  <2>1. UNCHANGED reserved /\ task[c].at = "new"
    BY <1>2 DEF Hello, routes, At
  <2> QED BY <1>2, <2>1, HelloMoves, MovedReservesNothing DEF Basis, MovedTo, ReservedMoves
<1>3. ASSUME NEW c \in Conn, NEW s \in Slot, Transfer(c, s)
      PROVE  ReservedMoves
  <2>1. task[c].at = "idle" /\ entry[c] \in Slot
    BY <1>3, TransferBegins DEF Basis
  <2>2. CASE rooms[s] # NoRoom /\ Reserve(c, s, rooms[s], entry[c])
    BY <2>1, <2>2, ReserveReserves DEF Basis, HubTypes, Holds, ReservedMoves
  <2>3. CASE UNCHANGED reserved /\ Moved(c, "tStart", s, entry[c], task[c].source, task[c].target)
    BY <2>1, <2>3, MovedReservesNothing DEF ReservedMoves
  <2> QED BY <1>3, <2>2, <2>3, TransferBegins DEF Basis
<1>4. ASSUME NEW c \in Conn, StartForTransfer(c)
      PROVE  ReservedMoves
  <2>1. UNCHANGED reserved
    BY <1>4 DEF StartForTransfer, routes
  <2> QED BY <1>4, <2>1, StartMovesTransfer, MovedReservesNothing DEF Basis, Ended, ReservedMoves
<1>5. ASSUME NEW c \in Conn, Found(c)
      PROVE  ReservedMoves
  <2>1. task[c].at = "tFound" /\ Reserve(c, task[c].to, task[c].target, task[c].from)
    BY <1>5 DEF Found, At
  <2>2. task[c].to \in Slot /\ task[c].from \in Slot
    BY <2>1 DEF Basis, TasksKnown, TaskKnown, Known
  <2>3. task[c].target \in Room \cup {NoRoom}
    BY TaskFields DEF Basis, PlayerTypes
  <2> QED BY <2>1, <2>2, <2>3, ReserveReserves DEF Holds, ReservedMoves
<1>6. ASSUME NEW c \in Conn, TransferJoin(c) \/ TransferEnter(c) \/ Left(c)
      PROVE  ReservedMoves
  BY <1>6, OnwardMoves, MovedReservesNothing DEF Basis, MovedTo, ReservedMoves
<1>7. ASSUME NEW c \in Conn, Leave(c) \/ TransferJoined(c) \/ Return(c) \/ Reenter(c) \/ TransferThrows(c)
      PROVE  ReservedMoves
  <2>1. ASSUME task[c].at \in ReservedAt, UNCHANGED reserved,
               NEW where \in {"tLeft", "tBack", "tReenter"}, MovedTo(c, where)
        PROVE  ReservedMoves
    BY <2>1, MovedReservesNothing DEF MovedTo, ReservedMoves
  <2>2. CASE task[c].at \in ReservedAt /\ Unreserve(c) /\ Ended(c)
    BY <2>2 DEF Ended, Moved, GivesBack, Holds, ReservedMoves
  <2>3. CASE task[c].at \in TransferAt \ ReservedAt /\ UNCHANGED reserved /\ Ended(c)
    BY <2>3, MovedReservesNothing DEF Ended, ReservedMoves
  <2> QED BY <1>7, <2>1, <2>2, <2>3, EndingMoves DEF Basis
<1>8. ASSUME NEW c \in Conn, TransferStep(c)
      PROVE  ReservedMoves
  BY <1>4, <1>5, <1>6, <1>7, <1>8 DEF TransferStep
<1>9. CASE UNCHANGED vars
  BY <1>1, <1>9 DEF vars, routes
<1>10. ASSUME NEW c \in Conn, Close(c)
       PROVE  ReservedMoves
  BY <1>1, <1>10 DEF Close
<1>11. ASSUME NEW s \in Slot, Suspend(s) \/ Regain(s) \/ StopRoom(s)
       PROVE  ReservedMoves
  BY <1>1, <1>11 DEF Suspend, Regain, StopRoom, routes
<1> QED BY <1>2, <1>3, <1>7, <1>8, <1>9, <1>10, <1>11, HelloReservesNothing DEF Next, ReservedMoves

LEMMA BasisStep == Basis /\ [Next]_vars => Basis'
<1> SUFFICES ASSUME Basis, [Next]_vars PROVE Basis'
  OBVIOUS
<1>1. HubTypes' /\ RoomsHaveSlots'
  BY HubStep
<1>2. TasksHold'
  BY TasksStep
<1>3. reserved' \in [Slot -> Int]
  BY ReservedStep DEF Basis, PlayerTypes, ReservedMoves, ReservesNothing, Reserves, GivesBack, Unreserve
<1>4. entry' \in [Conn -> Slot \cup {NoSlot}]
  <2>1. entry \in [Conn -> Slot \cup {NoSlot}]
    BY DEF Basis, PlayerTypes
  <2>2. CASE Route /\ This \in Conn /\ entry' = [entry EXCEPT ![This] = slotOf[task[This].target]]
    <3>1. task[This].target \in DOMAIN slotOf
      BY <2>2, RouteMoves DEF Basis, TasksKnown, TaskKnown, Known
    <3>2. slotOf[task[This].target] \in Slot
      BY <3>1 DEF Basis, HubTypes
    <3> QED BY <2>1, <2>2, <3>2
  <2>3. ASSUME NEW c \in Conn, TransferJoined(c), entry' = [entry EXCEPT ![c] = task[c].to]
        PROVE  entry' \in [Conn -> Slot \cup {NoSlot}]
    BY <2>1, <2>3 DEF TransferJoined, At, Basis, TasksKnown, TaskKnown, Known, TransferAt
  <2> QED BY <2>1, <2>2, <2>3, EntryStep DEF EntryMoves
<1> QED BY <1>1, <1>2, <1>3, <1>4, SessionsType DEF Basis, PlayerTypes, TasksHold

LEMMA BasisInit == Init => Basis
<1> SUFFICES ASSUME Init PROVE Basis
  OBVIOUS
<1>1. 0 \in Slot /\ 1 \in Room /\ 1 # NoRoom
  BY TransferAssumptions DEF Slot, Room, NoRoom
<1>2. slotOf = <<0>> /\ slotOf \in Seq(Slot) /\ Len(slotOf) = 1 /\ DOMAIN slotOf = {1} /\ slotOf[1] = 0
  BY <1>1 DEF Init
<1>3. Resting("new") \in Task /\ Resting("new").at = "new"
  BY DEF Resting, Task
<1>4. HubTypes /\ RoomsHaveSlots
  BY <1>1, <1>2 DEF Init, HubTypes, RoomsHaveSlots
<1>5. \A c \in Conn : task[c] \in Task /\ task[c].at = "new"
  BY <1>3 DEF Init
<1>6. task \in [Conn -> Task]
  BY <1>3 DEF Init
<1>7. PlayerTypes
  BY <1>6 DEF Init, PlayerTypes
<1>8. OneHello /\ TasksKnown
  BY <1>5 DEF OneHello, TasksKnown, TaskKnown, Known, HelloAt, TransferAt, ReservedAt
<1> QED BY <1>4, <1>7, <1>8 DEF Basis

LEMMA BalanceStep ==
  ASSUME Basis, ReservationsBalance, [Next]_vars
  PROVE  ReservationsBalance'
<1> DEFINE Held(s) == {c \in Conn : task[c].at \in ReservedAt /\ task[c].to = s}
<1>1. \A s \in Slot : Held(s) \subseteq Conn /\ IsFiniteSet(Held(s))
  BY FS_Subset, TransferAssumptions
<1>2. reserved \in [Slot -> Int] /\ \A s \in Slot : reserved[s] = Cardinality(Held(s))
  BY DEF Basis, PlayerTypes, ReservationsBalance
<1>3. CASE ReservesNothing
  <2>1. \A s \in Slot : Held(s)' = Held(s)
    BY <1>3 DEF ReservesNothing, Holds
  <2> QED BY <1>2, <1>3, <2>1 DEF ReservationsBalance, ReservesNothing
<1>4. ASSUME NEW c \in Conn, NEW s \in Slot, Reserves(c, s)
      PROVE  ReservationsBalance'
  <2>1. Held(s)' = Held(s) \cup {c} /\ c \notin Held(s)
    BY <1>4 DEF Reserves, Holds
  <2>2. \A q \in Slot : q # s => Held(q)' = Held(q)
    BY <1>4 DEF Reserves, Holds
  <2>3. Cardinality(Held(s)') = Cardinality(Held(s)) + 1
    <3> HIDE DEF Held
    <3> QED BY <1>1, <2>1, FS_AddElement
  <2>4. reserved'[s] = reserved[s] + 1 /\ \A q \in Slot : q # s => reserved'[q] = reserved[q]
    BY <1>2, <1>4 DEF Reserves
  <2> QED BY <1>2, <2>2, <2>3, <2>4 DEF ReservationsBalance
<1>5. ASSUME NEW c \in Conn, GivesBack(c)
      PROVE  ReservationsBalance'
  <2> DEFINE s == task[c].to
  <2>0. s \in Slot
    BY <1>5 DEF GivesBack, Holds, Basis, TasksKnown, TaskKnown, Known, ReservedAt
  <2>2. PICK q \in Slot : q = s
    BY <2>0
  <2>3. Held(q)' = Held(q) \ {c} /\ c \in Held(q)
    BY <1>5, <2>2 DEF GivesBack, Holds
  <2>4. \A o \in Slot : o # q => Held(o)' = Held(o)
    BY <1>5, <2>2 DEF GivesBack, Holds
  <2>5. Cardinality(Held(q)') = Cardinality(Held(q)) - 1
    <3> HIDE DEF Held
    <3> QED BY <1>1, <2>3, FS_RemoveElement
  <2>6. reserved'[q] = reserved[q] - 1 /\ \A o \in Slot : o # q => reserved'[o] = reserved[o]
    BY <1>2, <1>5, <2>2 DEF GivesBack, Unreserve
  <2> QED BY <1>2, <2>4, <2>5, <2>6 DEF ReservationsBalance
<1> QED BY <1>3, <1>4, <1>5, ReservedStep DEF ReservedMoves

LEMMA BalanceInit == Init => ReservationsBalance
<1> SUFFICES ASSUME Init PROVE ReservationsBalance
  OBVIOUS
<1>1. \A c \in Conn : task[c].at = "new"
  BY DEF Init, Resting
<1>2. \A s : {c \in Conn : task[c].at \in ReservedAt /\ task[c].to = s} = {}
  BY <1>1 DEF ReservedAt, TransferAt
<1>3. \A s \in Slot : reserved[s] = 0
  BY DEF Init
<1> QED BY <1>2, <1>3, FS_EmptySet DEF ReservationsBalance

\* instanceHub.ts, transfer: a reservation is held exactly as long as a transfer is on its
\* way into the slot, whichever way the transfer ends: none leaks, none is given back twice.
THEOREM ReservationsHeld == Spec => []ReservationsBalance
<1>1. Init => Basis /\ ReservationsBalance
  BY BasisInit, BalanceInit
<1>2. Basis /\ ReservationsBalance /\ [Next]_vars => Basis' /\ ReservationsBalance'
  BY BasisStep, BalanceStep
<1> QED BY <1>1, <1>2, PTL DEF Spec

---------------------------------------------------------------------------
(* Overbooking. What counts against a slot is not only who is routed to it  *)
(* and who has reserved a place, but also the hello that was given a room   *)
(* of it and is not routed yet.                                             *)

Dead(s) == rooms[s] = NoRoom /\ recovering[s] = NoRoom
Chosen(s) == \E c \in Conn : task[c].at = "chosen" /\ slotOf[task[c].target] = s
Starting(s) == \E c \in Conn : task[c].at = "start" /\ task[c].to = s
Places(s) == Capacity + (IF Stopped(s) THEN 1 ELSE 0)

SlotBound(s) ==
  /\ reserved[s] <= Capacity
  /\ Occupancy(s) <= Places(s) + 1
  /\ Chosen(s) \/ Starting(s) \/ Dead(s) => Occupancy(s) <= Places(s)
  /\ Chosen(s) /\ Dead(s) => Occupancy(s) <= Places(s) - 1

\* No hello has been given a room or a slot to start.
QuietHello == \A c \in Conn : task'[c].at \in {"chosen", "start"} => task'[c] = task[c]

HeadsAt(e, s) == {c \in Conn : e[c] = s}

LEMMA Counts ==
  ASSUME NEW e, NEW s
  PROVE  /\ IsFiniteSet(HeadsAt(e, s))
         /\ Cardinality(HeadsAt(e, s)) \in Nat
BY FS_Subset, FS_CardinalityType, TransferAssumptions DEF HeadsAt

LEMMA CountsShrink ==
  ASSUME NEW e, NEW f, NEW s, \A c \in Conn : f[c] = s => e[c] = s
  PROVE  Cardinality(HeadsAt(f, s)) <= Cardinality(HeadsAt(e, s))
<1> DEFINE E == HeadsAt(e, s)
           F == HeadsAt(f, s)
<1>1. IsFiniteSet(E) /\ F \subseteq E
  BY Counts DEF HeadsAt
<1> HIDE DEF E, F
<1>2. Cardinality(F) <= Cardinality(E)
  BY <1>1, FS_Subset
<1> QED BY <1>2 DEF E, F

LEMMA CountsGrow ==
  ASSUME NEW e, NEW f, NEW s, NEW d, \A c \in Conn \ {d} : f[c] = s => e[c] = s
  PROVE  Cardinality(HeadsAt(f, s)) <= Cardinality(HeadsAt(e, s)) + 1
<1> DEFINE E == HeadsAt(e, s)
           F == HeadsAt(f, s)
<1>1. IsFiniteSet(E) /\ IsFiniteSet(F) /\ Cardinality(E) \in Nat /\ Cardinality(F) \in Nat /\ F \subseteq E \cup {d}
  BY Counts DEF HeadsAt
<1> HIDE DEF E, F
<1>2. IsFiniteSet(E \cup {d}) /\ Cardinality(E \cup {d}) <= Cardinality(E) + 1 /\ Cardinality(E \cup {d}) \in Nat
  BY <1>1, FS_AddElement
<1>3. Cardinality(F) <= Cardinality(E \cup {d})
  BY <1>1, <1>2, FS_Subset
<1> QED BY <1>1, <1>2, <1>3 DEF E, F

LEMMA ChosenStays ==
  ASSUME Basis, HubGrows, QuietHello, NEW s \in Slot
  PROVE  (Chosen(s)' => Chosen(s)) /\ (Starting(s)' => Starting(s))
<1>1. \A c \in Conn : task[c].at = "chosen" => task[c].target \in DOMAIN slotOf
  BY DEF Basis, TasksKnown, TaskKnown, Known
<1> QED BY <1>1 DEF QuietHello, HubGrows, Chosen, Starting

LEMMA StoppedStays ==
  ASSUME HubGrows, NEW s \in Slot
  PROVE  /\ Stopped(s) => Stopped(s)'
         /\ Places(s) \in Int /\ Places(s)' \in Int /\ Places(s) <= Places(s)'
<1>1. Stopped(s) => Stopped(s)'
  BY DEF HubGrows, Stopped
<1> QED BY <1>1, TransferAssumptions DEF Places

LEMMA OccupancyTypes ==
  ASSUME reserved \in [Slot -> Int], reserved' \in [Slot -> Int], NEW s \in Slot
  PROVE  /\ reserved[s] \in Int /\ Occupancy(s) \in Int /\ reserved[s] <= Occupancy(s)
         /\ reserved'[s] \in Int /\ Occupancy(s)' \in Int /\ reserved'[s] <= Occupancy(s)'
<1>1. /\ Cardinality(HeadsAt(entry, s)) \in Nat
      /\ Cardinality(HeadsAt(entry', s)) \in Nat
  BY Counts
<1> QED BY <1>1 DEF Occupancy, HeadsAt

\* Nothing new counts against the slot.
LEMMA BoundStays ==
  ASSUME Basis, reserved' \in [Slot -> Int], HubGrows, QuietHello, NEW s \in Slot, SlotBound(s),
         Dead(s)' => Dead(s), reserved'[s] <= reserved[s], Occupancy(s)' <= Occupancy(s)
  PROVE  SlotBound(s)'
<1>1. /\ reserved[s] \in Int /\ Occupancy(s) \in Int
      /\ reserved'[s] \in Int /\ Occupancy(s)' \in Int
  BY OccupancyTypes DEF Basis, PlayerTypes
<1>2. (Chosen(s)' => Chosen(s)) /\ (Starting(s)' => Starting(s))
  BY ChosenStays
<1>3. Places(s) \in Int /\ Places(s)' \in Int /\ Places(s) <= Places(s)'
  BY StoppedStays
<1> QED BY <1>1, <1>2, <1>3, TransferAssumptions DEF SlotBound

\* The same, seen from what each action does to routes and reservations.
LEMMA BoundKept ==
  ASSUME Basis, HubGrows, QuietHello, NEW s \in Slot, SlotBound(s), Dead(s)' => Dead(s),
         UNCHANGED reserved, \A c \in Conn : entry'[c] = s => entry[c] = s
  PROVE  SlotBound(s)'
<1>1. Occupancy(s)' <= Occupancy(s) /\ reserved' \in [Slot -> Int]
  <2>1. /\ Cardinality(HeadsAt(entry', s)) <= Cardinality(HeadsAt(entry, s))
        /\ Cardinality(HeadsAt(entry', s)) \in Nat /\ Cardinality(HeadsAt(entry, s)) \in Nat
    <3>1. \A c \in Conn : entry'[c] = s => entry[c] = s
      OBVIOUS
    <3> QED BY <3>1, CountsShrink, Counts, Zenon
  <2>2. reserved' \in [Slot -> Int] /\ reserved[s] \in Int
    BY DEF Basis, PlayerTypes
  <2> QED BY <2>1, <2>2 DEF Occupancy, HeadsAt
<1>2. reserved'[s] <= reserved[s]
  BY DEF Basis, PlayerTypes
<1> QED BY <1>1, <1>2, BoundStays

\* A place is given back; the player it was held for may be routed to the slot.
LEMMA BoundGivenBack ==
  ASSUME Basis, HubGrows, QuietHello, NEW s \in Slot, SlotBound(s), Dead(s)' => Dead(s),
         NEW c \in Conn, NEW q \in Slot, reserved' = [reserved EXCEPT ![q] = @ - 1],
         \A d \in Conn : entry'[d] = s => entry[d] = s \/ (d = c /\ q = s)
  PROVE  SlotBound(s)'
<1> DEFINE E == Cardinality(HeadsAt(entry, s))
           F == Cardinality(HeadsAt(entry', s))
<1>1. E \in Nat /\ F \in Nat /\ F <= E + (IF q = s THEN 1 ELSE 0)
  <2>1. E \in Nat /\ F \in Nat
    BY Counts
  <2>2. CASE q = s
    <3>1. \A d \in Conn \ {c} : entry'[d] = s => entry[d] = s
      OBVIOUS
    <3>2. F <= E + 1
      BY <3>1, CountsGrow, Zenon
    <3> QED BY <2>1, <2>2, <3>2
  <2>3. CASE q # s
    <3>1. \A d \in Conn : entry'[d] = s => entry[d] = s
      BY <2>3
    <3>2. F <= E
      BY <3>1, CountsShrink, Zenon
    <3> HIDE DEF E, F
    <3> QED BY <2>1, <2>3, <3>2
  <2> QED BY <2>2, <2>3
<1>2. /\ reserved' \in [Slot -> Int] /\ reserved[s] \in Int
      /\ reserved'[s] = reserved[s] - (IF q = s THEN 1 ELSE 0)
  BY DEF Basis, PlayerTypes
<1>3. Occupancy(s) = reserved[s] + E /\ Occupancy(s)' = reserved'[s] + F
  BY DEF Occupancy, HeadsAt
<1> HIDE DEF E, F
<1>4. Occupancy(s)' <= Occupancy(s) /\ reserved'[s] <= reserved[s]
  BY <1>1, <1>2, <1>3
<1> QED BY <1>2, <1>4, BoundStays

\* A place is reserved in a room of the slot: one that is not alive has been stopped.
LEMMA BoundReserved ==
  ASSUME Basis, HubGrows, QuietHello, NEW s \in Slot, SlotBound(s), UNCHANGED <<hub, entry>>,
         NEW q \in Slot, NEW r \in DOMAIN slotOf, slotOf[r] = q, Occupancy(q) < Capacity,
         reserved' = [reserved EXCEPT ![q] = @ + 1]
  PROVE  SlotBound(s)'
<1>1. (Chosen(s)' => Chosen(s)) /\ (Starting(s)' => Starting(s)) /\ (Dead(s)' <=> Dead(s))
  BY ChosenStays DEF Dead, hub
<1>2. Places(s)' = Places(s) /\ Places(s) \in Int /\ Places(s) >= Capacity
  <2>1. Stopped(s)' <=> Stopped(s)
    BY DEF Stopped, Lives, hub
  <2> QED BY <2>1, TransferAssumptions DEF Places
<1>3. /\ reserved' \in [Slot -> Int]
      /\ reserved'[s] = reserved[s] + (IF q = s THEN 1 ELSE 0)
  BY DEF Basis, PlayerTypes
<1>4. Occupancy(s)' = Occupancy(s) + (IF q = s THEN 1 ELSE 0)
  <2>1. Cardinality(HeadsAt(entry, s)) \in Nat /\ reserved[s] \in Int
    BY Counts DEF Basis, PlayerTypes
  <2> QED BY <1>3, <2>1 DEF Occupancy, HeadsAt
<1>5. /\ reserved[s] \in Int /\ Occupancy(s) \in Int /\ reserved[s] <= Occupancy(s)
  BY <1>3, OccupancyTypes DEF Basis, PlayerTypes
<1>6. CASE q # s
  BY <1>1, <1>2, <1>3, <1>4, <1>5, <1>6, TransferAssumptions DEF SlotBound
<1>7. CASE q = s
  <2>1. Dead(s) => Places(s) = Capacity + 1
    <3>1. r # NoRoom
      BY DEF Basis, HubTypes, NoRoom
    <3>2. ASSUME Dead(s), Lives(r)
          PROVE  FALSE
      <4>1. PICK o \in Slot : r \in {rooms[o], recovering[o]}
        BY <3>2 DEF Lives
      <4>2. o = s
        BY <1>7, <3>1, <4>1 DEF Basis, RoomsHaveSlots
      <4> QED BY <3>1, <3>2, <4>1, <4>2 DEF Dead
    <3> QED BY <1>7, <3>2 DEF Stopped, Places
  <2> QED BY <1>1, <1>2, <1>3, <1>4, <1>5, <1>7, <2>1, TransferAssumptions DEF SlotBound
<1> QED BY <1>6, <1>7

\* The room of a slot stops: whoever was routed to it is routed nowhere.
LEMMA BoundStopped ==
  ASSUME Basis, HubGrows, QuietHello, NEW s \in Slot, SlotBound(s), StopRoom(s)
  PROVE  SlotBound(s)'
<1>1. UNCHANGED <<reserved, slotOf>> /\ reserved \in [Slot -> Int]
  BY DEF StopRoom, Basis, PlayerTypes
<1>2. Occupancy(s)' = reserved[s]
  <2>1. HeadsAt(entry', s) = {}
    BY SlotsAreNumbers DEF HeadsAt, StopRoom, Slot, NoSlot
  <2> QED BY <1>1, <2>1, FS_EmptySet DEF Occupancy, HeadsAt
<1>3. Places(s)' = Capacity + 1
  <2>1. PICK r \in {rooms[s], recovering[s]} : r # NoRoom
    BY DEF StopRoom
  <2>2. r \in DOMAIN slotOf /\ slotOf[r] = s
    BY <2>1 DEF Basis, RoomsHaveSlots
  <2>3. ~Lives(r)'
    BY <2>1 DEF StopRoom, Lives, Basis, RoomsHaveSlots, HubTypes
  <2>4. Stopped(s)'
    BY <1>1, <2>2, <2>3 DEF Stopped
  <2> QED BY <2>4 DEF Places
<1> QED BY <1>1, <1>2, <1>3, TransferAssumptions DEF SlotBound

LEMMA QuietMoves ==
  ASSUME NEW c \in Conn, NEW w, NEW to, NEW from, NEW source, NEW target,
         Moved(c, w, to, from, source, target), w \notin {"chosen", "start"}
  PROVE  QuietHello
BY DEF Moved, QuietHello

LEMMA DeadStays ==
  ASSUME HubTypes, NEW s \in Slot,
         \/ UNCHANGED hub
         \/ \E q \in Slot : (\E r \in Room : Started(q, r)) \/ Suspend(q) \/ Regain(q)
         \/ \E q \in Slot : q # s /\ StopRoom(q)
  PROVE  Dead(s)' => Dead(s)
<1>1. CASE UNCHANGED hub
  BY <1>1 DEF hub, Dead
<1>2. ASSUME NEW q \in Slot, NEW r \in Room, Started(q, r)
      PROVE  Dead(s)' => Dead(s)
  BY <1>2, SlotsAreNumbers DEF Started, HubTypes, Dead, hub
<1>3. ASSUME NEW q \in Slot, Suspend(q) \/ Regain(q) \/ (q # s /\ StopRoom(q))
      PROVE  Dead(s)' => Dead(s)
  BY <1>3 DEF Suspend, Regain, StopRoom, HubTypes, Dead
<1> QED BY <1>1, <1>2, <1>3

\* A hello is given a room: it counts against that room's slot from now on.
LEMMA BoundGivenRoom ==
  ASSUME Basis, HubGrows, NEW s \in Slot, SlotBound(s), Dead(s)' => Dead(s),
         UNCHANGED <<entry, reserved>>, NEW r \in DOMAIN slotOf', NEW to, NEW from, NEW source,
         Moved(This, "chosen", to, from, source, r),
         slotOf'[r] = s => ~Dead(s)' /\ Occupancy(s) <= Places(s)
  PROVE  SlotBound(s)'
<1>1. /\ reserved[s] \in Int /\ Occupancy(s) \in Int
      /\ reserved'[s] = reserved[s] /\ Occupancy(s)' = Occupancy(s)
  BY OccupancyTypes DEF Basis, PlayerTypes, Occupancy
<1>2. Places(s) \in Int /\ Places(s)' \in Int /\ Places(s) <= Places(s)'
  BY StoppedStays
<1>3. ~Starting(s)' /\ (Chosen(s)' => slotOf'[r] = s)
  <2>1. \A c \in Conn : c # This => task'[c] = task[c] /\ task[c].at \notin {"chosen", "start"}
    BY DEF Moved, Basis, OneHello, HelloAt
  <2>2. task'[This].at = "chosen" /\ task'[This].target = r
    BY DEF Moved
  <2>3. \A c \in Conn : task'[c].at \in {"chosen", "start"} => task'[c].at = "chosen" /\ task'[c].target = r
    <3> SUFFICES ASSUME NEW c \in Conn, task'[c].at \in {"chosen", "start"}
                 PROVE  task'[c].at = "chosen" /\ task'[c].target = r
      OBVIOUS
    <3>1. CASE c = This
      BY <2>2, <3>1
    <3>2. CASE c # This
      BY <2>1, <3>2
    <3> QED BY <3>1, <3>2
  <2> QED BY <2>3 DEF Chosen, Starting
<1> QED BY <1>1, <1>2, <1>3, TransferAssumptions DEF SlotBound

\* A hello is given a slot without a room, to start one.
LEMMA BoundGivenSlot ==
  ASSUME Basis, HubGrows, NEW s \in Slot, SlotBound(s), UNCHANGED <<hub, entry, reserved>>,
         NEW n \in Slot, Dead(n), NEW from, NEW source, NEW target,
         Moved(This, "start", n, from, source, target)
  PROVE  SlotBound(s)'
<1>1. /\ reserved[s] \in Int /\ Occupancy(s) \in Int
      /\ reserved'[s] = reserved[s] /\ Occupancy(s)' = Occupancy(s)
  BY OccupancyTypes DEF Basis, PlayerTypes, Occupancy
<1>2. Places(s) \in Int /\ Places(s)' \in Int /\ Places(s) <= Places(s)'
  BY StoppedStays
<1>3. ~Chosen(s)' /\ (Starting(s)' => n = s) /\ (Dead(s)' <=> Dead(s))
  <2>1. \A c \in Conn : c # This => task'[c] = task[c] /\ task[c].at \notin {"chosen", "start"}
    BY DEF Moved, Basis, OneHello, HelloAt
  <2>2. task'[This].at = "start" /\ task'[This].to = n
    BY DEF Moved
  <2> QED BY <2>1, <2>2 DEF Chosen, Starting, Dead, hub
<1> QED BY <1>1, <1>2, <1>3, TransferAssumptions DEF SlotBound

\* The hello is routed: it is counted there, and no longer on its way.
LEMMA BoundRouted ==
  ASSUME Basis, HubGrows, NEW s \in Slot, SlotBound(s), UNCHANGED <<hub, reserved>>,
         This \in Conn, task[This].at = "chosen", MovedTo(This, "join"),
         entry' = [entry EXCEPT ![This] = slotOf[task[This].target]]
  PROVE  SlotBound(s)'
<1>1. ~Chosen(s)' /\ ~Starting(s)' /\ (Dead(s)' <=> Dead(s))
  <2>1. \A c \in Conn : c # This => task'[c] = task[c] /\ task[c].at \notin {"chosen", "start"}
    BY DEF MovedTo, Moved, Basis, OneHello, HelloAt
  <2>2. task'[This].at = "join"
    BY DEF MovedTo, Moved
  <2> QED BY <2>1, <2>2 DEF Chosen, Starting, Dead, hub
<1>2. QuietHello
  BY QuietMoves DEF MovedTo
<1>3. CASE slotOf[task[This].target] # s
  <2>1. \A c \in Conn : entry'[c] = s => entry[c] = s
    BY <1>3 DEF Basis, PlayerTypes
  <2> QED BY <1>1, <1>2, <2>1, BoundKept
<1>4. CASE slotOf[task[This].target] = s
  <2>1. Chosen(s)
    BY <1>4 DEF Chosen
  <2>2. \A c \in Conn \ {This} : entry'[c] = s => entry[c] = s
    BY DEF Basis, PlayerTypes
  <2>3. Cardinality(HeadsAt(entry', s)) <= Cardinality(HeadsAt(entry, s)) + 1
    BY <2>2, CountsGrow
  <2>4. /\ Cardinality(HeadsAt(entry', s)) \in Nat /\ Cardinality(HeadsAt(entry, s)) \in Nat
        /\ reserved[s] \in Int /\ reserved'[s] = reserved[s]
    BY Counts DEF Basis, PlayerTypes
  <2>5. Occupancy(s)' <= Occupancy(s) + 1 /\ Occupancy(s) \in Int /\ Occupancy(s)' \in Int
    BY <2>3, <2>4 DEF Occupancy, HeadsAt
  <2>6. Places(s) \in Int /\ Places(s)' \in Int /\ Places(s) <= Places(s)'
    BY StoppedStays
  <2> QED BY <1>1, <2>1, <2>4, <2>5, <2>6, TransferAssumptions DEF SlotBound
<1> QED BY <1>3, <1>4

LEMMA BoundHello ==
  ASSUME Basis, NEW s \in Slot, SlotBound(s), HubGrows, Basis', HelloStep \/ HelloThrows
  PROVE  SlotBound(s)'
<1>1. entry \in [Conn -> Slot \cup {NoSlot}] /\ s # NoSlot
  BY SlotsAreNumbers DEF Basis, PlayerTypes
<1>2. CASE Skip \/ HelloJoined \/ HelloThrows
  <2>1. QuietHello
    BY <1>2, SkipMoves, QuietMoves DEF Basis, Ended
  <2>2. UNCHANGED <<hub, reserved>> /\ \A c \in Conn : entry'[c] = s => entry[c] = s
    BY <1>1, <1>2 DEF Skip, HelloJoined, HelloThrows, routes
  <2>3. Dead(s)' => Dead(s)
    BY <2>2, DeadStays DEF Basis
  <2> QED BY <2>1, <2>2, <2>3, BoundKept
<1>3. CASE Supersede
  <2>1. QuietHello /\ UNCHANGED <<hub, reserved>>
    BY <1>3 DEF Supersede, QuietHello
  <2>2. \A c \in Conn : entry'[c] = s => entry[c] = s
    BY <1>1, <1>3 DEF Supersede, Disconnect
  <2>3. Dead(s)' => Dead(s)
    BY <2>1, DeadStays DEF Basis
  <2> QED BY <2>1, <2>2, <2>3, BoundKept
<1>4. CASE ChooseRunning
  <2>1. UNCHANGED <<hub, entry, reserved>>
    BY <1>4 DEF ChooseRunning, routes
  <2>2. PICK q \in Slot : /\ rooms[q] # NoRoom /\ Occupancy(q) < Capacity
          /\ Moved(This, "chosen", task[This].to, task[This].from, task[This].source, rooms[q])
    BY <1>4, ChooseRunningMoves DEF Basis
  <2>3. rooms[q] \in DOMAIN slotOf' /\ slotOf'[rooms[q]] = q
    BY <2>1, <2>2, RoomOfSlot DEF Basis, hub
  <2>4. Dead(s)' => Dead(s)
    BY <2>1, DeadStays DEF Basis
  <2>5. q = s => ~Dead(s)' /\ Occupancy(s) <= Places(s)
    <3>1. Occupancy(s) \in Int
      BY OccupancyTypes DEF Basis, PlayerTypes
    <3> QED BY <2>1, <2>2, <3>1, TransferAssumptions DEF Dead, hub, Places
  <2> QED BY <2>1, <2>2, <2>3, <2>4, <2>5, BoundGivenRoom
<1>5. CASE ChooseStart
  <2>1. UNCHANGED <<hub, entry, reserved>> /\ Now("turn") /\ NextSlot(0)
    BY <1>5 DEF ChooseStart, routes
  <2>2. CASE Ended(This)
    <3>1. QuietHello /\ (Dead(s)' => Dead(s)) /\ This \in Conn
      BY <2>1, <2>2, ThisIsConn, QuietMoves, DeadStays DEF Ended, Basis
    <3> QED BY <2>1, <3>1, BoundKept
  <2>3. ASSUME NEW n \in Slot, rooms[n] = NoRoom, recovering[n] = NoRoom,
               Moved(This, "start", n, task[This].from, task[This].source, task[This].target)
        PROVE  SlotBound(s)'
    BY <2>1, <2>3, BoundGivenSlot DEF Dead
  <2> QED BY <2>1, <2>2, <2>3, NextSlotMoves DEF Basis
<1>6. CASE StartForHello
  <2>1. UNCHANGED <<entry, reserved>> /\ This \in Conn /\ task[This].at = "start"
    BY <1>6, StartMovesHello DEF StartForHello, routes, Basis
  <2>2. ASSUME UNCHANGED hub, Ended(This)
        PROVE  SlotBound(s)'
    <3>1. QuietHello /\ (Dead(s)' => Dead(s))
      BY <2>1, <2>2, QuietMoves, DeadStays DEF Ended, Basis
    <3> QED BY <2>1, <3>1, BoundKept
  <2>3. ASSUME UNCHANGED hub, NEW n \in Slot, rooms[n] = NoRoom, recovering[n] = NoRoom,
               Moved(This, "start", n, task[This].from, task[This].source, task[This].target)
        PROVE  SlotBound(s)'
    BY <2>1, <2>3, BoundGivenSlot DEF Dead
  <2>4. ASSUME NEW r \in Room, Started(task[This].to, r),
               Moved(This, "chosen", task[This].to, task[This].from, task[This].source, r)
        PROVE  SlotBound(s)'
    <3>1. task[This].to \in Slot
      BY <2>1 DEF Basis, TasksKnown, TaskKnown, Known
    <3>2. r \in DOMAIN slotOf' /\ slotOf'[r] = task[This].to /\ rooms'[task[This].to] = r
      BY <2>4, <3>1, StartedHub DEF Basis
    <3>3. Dead(s)' => Dead(s)
      BY <2>4, <3>1, DeadStays DEF Basis
    <3>4. slotOf'[r] = s => ~Dead(s)' /\ Occupancy(s) <= Places(s)
      BY <2>1, <3>2, SlotsAreNumbers DEF Dead, SlotBound, Starting
    <3> QED BY <2>1, <2>4, <3>2, <3>3, <3>4, BoundGivenRoom
  <2> QED BY <1>6, <2>2, <2>3, <2>4, StartMovesHello DEF Basis
<1>7. CASE Route
  <2>1. UNCHANGED <<hub, reserved>> /\ This \in Conn /\ task[This].at = "chosen"
    BY <1>7, RouteMoves DEF Route, Basis
  <2>2. ASSUME Ended(This), UNCHANGED entry
        PROVE  SlotBound(s)'
    <3>1. QuietHello /\ (Dead(s)' => Dead(s))
      BY <2>1, <2>2, QuietMoves, DeadStays DEF Ended, Basis
    <3> QED BY <2>1, <2>2, <3>1, BoundKept
  <2> QED BY <1>7, <2>1, <2>2, RouteMoves, BoundRouted DEF Basis
<1>8. CASE HelloJoin \/ HelloEnter
  <2>1. UNCHANGED <<hub, entry, reserved>>
    BY <1>8 DEF HelloJoin, HelloEnter, routes
  <2>2. QuietHello
    BY <1>8, JoinMoves, QuietMoves DEF Basis, MovedTo
  <2>3. Dead(s)' => Dead(s)
    BY <2>1, DeadStays DEF Basis
  <2> QED BY <2>1, <2>2, <2>3, BoundKept
<1> QED BY <1>2, <1>3, <1>4, <1>5, <1>6, <1>7, <1>8 DEF HelloStep

LEMMA BoundReserve ==
  ASSUME Basis, HubGrows, NEW s \in Slot, SlotBound(s), UNCHANGED <<hub, entry>>, NEW c \in Conn,
         NEW q \in Slot, NEW r \in DOMAIN slotOf, slotOf[r] = q, r \in Room, NEW leaving \in Slot,
         Reserve(c, q, r, leaving)
  PROVE  SlotBound(s)'
<1>1. CASE Ended(c) /\ UNCHANGED reserved
  <2>1. QuietHello /\ (Dead(s)' => Dead(s))
    BY <1>1, QuietMoves, DeadStays DEF Ended, Basis
  <2> QED BY <1>1, <2>1, BoundKept
<1>2. CASE /\ Occupancy(q) < Capacity /\ reserved' = [reserved EXCEPT ![q] = @ + 1]
           /\ Moved(c, "tDrain", q, leaving, rooms[leaving], r)
  <2>1. QuietHello
    BY <1>2, QuietMoves
  <2> QED BY <1>2, <2>1, BoundReserved
<1> QED BY <1>1, <1>2, ReserveMoves DEF Basis, HubTypes, PlayerTypes

LEMMA BoundTransfer ==
  ASSUME Basis, HubGrows, NEW s \in Slot, SlotBound(s), NEW c \in Conn,
         \/ TransferStep(c) \/ TransferThrows(c) \/ \E q \in Slot : Transfer(c, q)
  PROVE  SlotBound(s)'
<1>1. ASSUME NEW q \in Slot, Transfer(c, q)
      PROVE  SlotBound(s)'
  <2>1. UNCHANGED <<hub, entry>> /\ entry[c] \in Slot
    BY <1>1, TransferBegins DEF Transfer, Basis
  <2>2. CASE rooms[q] # NoRoom /\ Reserve(c, q, rooms[q], entry[c])
    <3>1. rooms[q] \in DOMAIN slotOf /\ slotOf[rooms[q]] = q /\ rooms[q] \in Room
      BY <2>2, RoomOfSlot DEF Basis
    <3> QED BY <2>1, <2>2, <3>1, BoundReserve
  <2>3. CASE UNCHANGED reserved /\ Moved(c, "tStart", q, entry[c], task[c].source, task[c].target)
    <3>1. QuietHello /\ (Dead(s)' => Dead(s))
      BY <2>1, <2>3, QuietMoves, DeadStays DEF Basis
    <3> QED BY <2>1, <2>3, <3>1, BoundKept
  <2> QED BY <1>1, <2>2, <2>3, TransferBegins DEF Basis
<1>2. CASE StartForTransfer(c)
  <2>1. UNCHANGED <<entry, reserved>> /\ task[c].at = "tStart"
    BY <1>2, StartMovesTransfer DEF StartForTransfer, routes, Basis
  <2>2. task[c].to \in Slot
    BY <2>1 DEF Basis, TasksKnown, TaskKnown, Known, TransferAt
  <2>3. QuietHello
    BY <1>2, StartMovesTransfer, QuietMoves DEF Basis, Ended
  <2>4. Dead(s)' => Dead(s)
    BY <1>2, <2>2, StartMovesTransfer, DeadStays DEF Basis
  <2> QED BY <2>1, <2>3, <2>4, BoundKept
<1>3. CASE Found(c)
  <2>1. task[c].at = "tFound" /\ Reserve(c, task[c].to, task[c].target, task[c].from)
        /\ UNCHANGED <<hub, entry>>
    BY <1>3 DEF Found, At
  <2>2. /\ task[c].to \in Slot /\ task[c].from \in Slot
        /\ task[c].target \in DOMAIN slotOf /\ slotOf[task[c].target] = task[c].to
    BY <2>1 DEF Basis, TasksKnown, TaskKnown, Known, TransferAt
  <2>3. task[c].target \in Room
    <3>1. task[c].target \in Room \cup {NoRoom}
      BY TaskFields DEF Basis, PlayerTypes
    <3>2. task[c].target # NoRoom
      BY <2>2 DEF Basis, HubTypes, NoRoom
    <3> QED BY <3>1, <3>2
  <2> QED BY <2>1, <2>2, <2>3, BoundReserve
<1>4. CASE TransferJoin(c) \/ TransferEnter(c) \/ Left(c)
  <2>1. UNCHANGED <<hub, entry, reserved>>
    BY <1>4 DEF TransferJoin, TransferEnter, Left, routes
  <2>2. QuietHello
    BY <1>4, OnwardMoves, QuietMoves DEF Basis, MovedTo
  <2>3. Dead(s)' => Dead(s)
    BY <2>1, DeadStays DEF Basis
  <2> QED BY <2>1, <2>2, <2>3, BoundKept
<1>5. CASE Leave(c) \/ TransferJoined(c) \/ Return(c) \/ Reenter(c) \/ TransferThrows(c)
  <2>1. UNCHANGED hub /\ QuietHello
    BY <1>5, EndingMoves, QuietMoves DEF Leave, TransferJoined, Return, Reenter, TransferThrows, Basis, Ended, MovedTo
  <2>2. Dead(s)' => Dead(s)
    BY <2>1, DeadStays DEF Basis
  <2>3. CASE TransferJoined(c) /\ entry' = [entry EXCEPT ![c] = task[c].to] /\ Unreserve(c)
    <3>1. task[c].to \in Slot
      BY <2>3 DEF TransferJoined, At, Basis, TasksKnown, TaskKnown, Known, TransferAt
    <3>2. \A d \in Conn : entry'[d] = s => entry[d] = s \/ (d = c /\ task[c].to = s)
      BY <2>3 DEF Basis, PlayerTypes
    <3>3. PICK q \in Slot : q = task[c].to
      BY <3>1
    <3>4. reserved' = [reserved EXCEPT ![q] = @ - 1]
      BY <2>3, <3>3 DEF Unreserve
    <3> QED BY <2>1, <2>2, <3>2, <3>3, <3>4, BoundGivenBack, ZenonT(60), SMTT(30)
  <2>4. CASE UNCHANGED entry
    <3>1. CASE UNCHANGED reserved
      BY <2>1, <2>2, <2>4, <3>1, BoundKept
    <3>2. CASE task[c].at \in ReservedAt /\ Unreserve(c)
      <4>1. task[c].to \in Slot
        BY <3>2 DEF Basis, TasksKnown, TaskKnown, Known, ReservedAt
      <4>2. PICK q \in Slot : q = task[c].to
        BY <4>1
      <4>3. reserved' = [reserved EXCEPT ![q] = @ - 1]
        BY <3>2, <4>2 DEF Unreserve
      <4> QED BY <2>1, <2>2, <2>4, <4>3, BoundGivenBack
    <3> QED BY <1>5, <3>1, <3>2, EndingMoves DEF Basis
  <2>5. TransferJoined(c) => \/ entry' = [entry EXCEPT ![c] = task[c].to] /\ Unreserve(c)
                             \/ UNCHANGED entry
    BY DEF TransferJoined, routes
  <2>6. Leave(c) \/ Return(c) \/ Reenter(c) \/ TransferThrows(c) => UNCHANGED entry
    BY DEF Leave, Return, Reenter, TransferThrows, routes
  <2> QED BY <1>5, <2>3, <2>4, <2>5, <2>6
<1> QED BY <1>1, <1>2, <1>3, <1>4, <1>5 DEF TransferStep

SlotsBound == \A s \in Slot : SlotBound(s)

LEMMA BoundStep ==
  ASSUME Basis, SlotsBound, [Next]_vars
  PROVE  SlotsBound'
<1> SUFFICES ASSUME NEW s \in Slot PROVE SlotBound(s)'
  BY DEF SlotsBound
<1>1. SlotBound(s) /\ HubGrows /\ Basis'
  BY HubStep, BasisStep DEF SlotsBound
<1>2. entry \in [Conn -> Slot \cup {NoSlot}] /\ s # NoSlot
  BY SlotsAreNumbers DEF Basis, PlayerTypes
<1>3. ASSUME NEW c \in Conn, Hello(c)
      PROVE  SlotBound(s)'
  <2>1. UNCHANGED <<hub, entry, reserved>>
    BY <1>3 DEF Hello, routes
  <2>2. QuietHello /\ (Dead(s)' => Dead(s))
    BY <1>3, <2>1, HelloMoves, QuietMoves, DeadStays DEF Basis, MovedTo
  <2> QED BY <1>1, <2>1, <2>2, BoundKept
<1>4. ASSUME NEW c \in Conn, Close(c)
      PROVE  SlotBound(s)'
  <2>1. UNCHANGED <<hub, reserved>> /\ QuietHello
    BY <1>4 DEF Close, QuietHello
  <2>2. \A d \in Conn : entry'[d] = s => entry[d] = s
    BY <1>2, <1>4 DEF Close, Disconnect
  <2>3. Dead(s)' => Dead(s)
    BY <2>1, DeadStays DEF Basis
  <2> QED BY <1>1, <2>1, <2>2, <2>3, BoundKept
<1>5. ASSUME NEW q \in Slot, Suspend(q) \/ Regain(q) \/ (q # s /\ StopRoom(q))
      PROVE  SlotBound(s)'
  <2>1. UNCHANGED reserved /\ QuietHello
    BY <1>5 DEF Suspend, Regain, StopRoom, routes, QuietHello
  <2>2. \A d \in Conn : entry'[d] = s => entry[d] = s
    BY <1>2, <1>5 DEF Suspend, Regain, StopRoom, routes
  <2>3. Dead(s)' => Dead(s)
    BY <1>5, DeadStays DEF Basis
  <2> QED BY <1>1, <2>1, <2>2, <2>3, BoundKept
<1>6. CASE StopRoom(s)
  <2>1. QuietHello
    BY <1>6 DEF StopRoom, QuietHello
  <2> QED BY <1>1, <1>6, <2>1, BoundStopped
<1>7. CASE UNCHANGED vars
  <2>1. UNCHANGED <<hub, entry, reserved>> /\ QuietHello
    BY <1>7 DEF vars, routes, QuietHello
  <2>2. Dead(s)' => Dead(s)
    BY <2>1, DeadStays DEF Basis
  <2> QED BY <1>1, <2>1, <2>2, BoundKept
<1> QED BY <1>1, <1>3, <1>4, <1>5, <1>6, <1>7, BoundHello, BoundTransfer DEF Next

LEMMA BoundInit == Init => SlotsBound
<1> SUFFICES ASSUME Init, NEW s \in Slot PROVE SlotBound(s)
  BY DEF SlotsBound
<1>1. \A c \in Conn : task[c].at = "new" /\ entry[c] = NoSlot
  BY DEF Init, Resting
<1>2. {c \in Conn : entry[c] = s} = {}
  BY <1>1, SlotsAreNumbers
<1>3. reserved[s] = 0 /\ Occupancy(s) = 0
  <2>1. reserved[s] = 0
    BY DEF Init
  <2>2. Occupancy(s) = 0 + Cardinality({})
    BY <1>2, <2>1 DEF Occupancy
  <2> QED BY <2>1, <2>2, FS_EmptySet
<1>4. ~Chosen(s)
  BY <1>1 DEF Chosen
<1> QED BY <1>3, <1>4, TransferAssumptions DEF SlotBound, Places

\* docs/instances.md: MAX_PLAYERS is the capacity of each room. The hub routes at most one
\* connection more to a slot, and one more again once a room of the slot has stopped.
THEOREM OverbookingIsBounded == Spec => []BoundedOverbooking
<1>1. Init => Basis /\ SlotsBound
  BY BasisInit, BoundInit
<1>2. Basis /\ SlotsBound /\ [Next]_vars => Basis' /\ SlotsBound'
  BY BasisStep, BoundStep
<1>3. Basis /\ SlotsBound => BoundedOverbooking
  <2> SUFFICES ASSUME Basis, NEW s \in Slot, SlotBound(s)
               PROVE  Occupancy(s) <= Capacity + (IF Stopped(s) THEN 2 ELSE 1)
    BY DEF SlotsBound, BoundedOverbooking
  <2>1. Occupancy(s) \in Int
    <3>1. Cardinality({c \in Conn : entry[c] = s}) \in Nat
      BY Counts DEF HeadsAt
    <3> QED BY <3>1 DEF Basis, PlayerTypes, Occupancy
  <2> QED BY <2>1, TransferAssumptions DEF SlotBound, Places
<1> QED BY <1>1, <1>2, <1>3, PTL DEF Spec

---------------------------------------------------------------------------
(* Where a player is and where its messages go                              *)

Out(c) == c \in closed \cup kicked
IsIn(c) == \E r \in DOMAIN slotOf : slotOf[r] = entry[c] /\ c \in sessions[r]

\* A hello is routed once its room is chosen, a transfer's client still to the slot it
\* leaves; between the two, and until it has left its room, it is in the room of its slot.
FollowsAt(c) ==
  /\ task[c].at \in {"new", "turn", "start", "chosen"} => entry[c] = NoSlot
  /\ task[c].at \in {"join", "enter", "joined"} => entry[c] \in {NoSlot, slotOf[task[c].target]}
  /\ task[c].at \in TransferAt => entry[c] \in {NoSlot, task[c].from}
  /\ task[c].at \in {"idle", "tStart", "tFound", "tDrain"} => Out(c) \/ entry[c] = NoSlot \/ IsIn(c)

Follows == \A c \in Conn : FollowsAt(c)

\* What happens to c leaves the others where they are, or routes them nowhere.
Stays(d) ==
  /\ task'[d] = task[d]
  /\ entry'[d] \in {entry[d], NoSlot}
  /\ Out(d) => Out(d)'
  /\ \A r \in Room : d \in sessions[r] => d \in sessions'[r]
Undisturbed(c) ==
  \A d \in Conn : d # c => /\ entry'[d] \in {entry[d], NoSlot}
                           /\ Out(d) => Out(d)'
                           /\ \A r \in Room : d \in sessions[r] => d \in sessions'[r]
Others(c) == \A d \in Conn : d # c => Stays(d)

LEMMA StaysFollows ==
  ASSUME Basis, HubGrows, NEW d \in Conn, FollowsAt(d), Stays(d)
  PROVE  FollowsAt(d)'
<1>1. task'[d] = task[d] /\ entry'[d] \in {entry[d], NoSlot} /\ (Out(d) => Out(d)')
  BY DEF Stays
<1>2. task[d].at \in {"join", "enter", "joined"} => task[d].target \in DOMAIN slotOf
  BY DEF Basis, TasksKnown, TaskKnown, Known
<1>3. task[d].at \in {"join", "enter", "joined"} => slotOf'[task[d].target] = slotOf[task[d].target]
  BY <1>2 DEF HubGrows
<1>4. ASSUME IsIn(d), entry'[d] = entry[d]
      PROVE  IsIn(d)'
  <2>1. PICK r \in DOMAIN slotOf : slotOf[r] = entry[d] /\ d \in sessions[r]
    BY <1>4 DEF IsIn
  <2>2. r \in Room
    BY SlotsAreNumbers, TransferAssumptions DEF Basis, HubTypes, Room
  <2>3. d \in sessions'[r] /\ r \in DOMAIN slotOf' /\ slotOf'[r] = slotOf[r]
    BY <2>1, <2>2 DEF Stays, HubGrows
  <2> QED BY <1>4, <2>1, <2>3 DEF IsIn
<1> QED BY <1>1, <1>3, <1>4 DEF FollowsAt

LEMMA OthersFollow ==
  ASSUME Basis, HubGrows, Follows, NEW c \in Conn, Others(c), FollowsAt(c)'
  PROVE  Follows'
<1> SUFFICES ASSUME NEW d \in Conn PROVE FollowsAt(d)'
  BY DEF Follows
<1>1. CASE d = c
  BY <1>1
<1>2. CASE d # c
  BY <1>2, StaysFollows DEF Follows, Others
<1> QED BY <1>1, <1>2

\* The end of every hello and transfer: nothing to show for a client that is out, routed
\* nowhere or in a room of its slot.
LEMMA EndFollows ==
  ASSUME NEW c \in Conn, Ended(c), Out(c)' \/ entry'[c] = NoSlot \/ IsIn(c)'
  PROVE  FollowsAt(c)'
BY DEF Ended, Moved, FollowsAt, TransferAt

LEMMA QuietIn ==
  ASSUME HubGrows, NEW c \in Conn, UNCHANGED <<sessions, entry>>
  PROVE  IsIn(c) => IsIn(c)'
BY DEF IsIn, HubGrows

LEMMA KickStays ==
  ASSUME NEW cs, Kick(cs), UNCHANGED closed
  PROVE  /\ \A d \in Conn : Out(d) => Out(d)'
         /\ \A d \in cs : Out(d)'
BY DEF Kick, Out

\* A client has gone: it is out.
LEMMA DisconnectFollows ==
  ASSUME Basis, HubGrows, Follows, NEW c \in Conn, Disconnect(c), kicked' = kicked \ {c},
         UNCHANGED <<hub, task>>
  PROVE  Follows'
<1>1. entry \in [Conn -> Slot \cup {NoSlot}] /\ sessions \in [Room -> SUBSET Conn]
  BY DEF Basis, PlayerTypes
<1>2. closed' = closed \cup {c} /\ Out(c)' /\ \A d \in Conn : Out(d) => Out(d)'
  BY DEF Disconnect, Out
<1>3. entry'[c] = NoSlot /\ \A d \in Conn : d # c => entry'[d] = entry[d]
  BY <1>1 DEF Disconnect
<1>4. \A d \in Conn : d # c => \A r \in Room : d \in sessions[r] => d \in sessions'[r]
  BY <1>1 DEF Disconnect, Without
<1>5. Others(c)
  BY <1>2, <1>3, <1>4 DEF Others, Stays
<1>6. FollowsAt(c)'
  BY <1>3 DEF Follows, FollowsAt, hub
<1> QED BY <1>5, <1>6, OthersFollow

LEMMA MovedOthers ==
  ASSUME NEW c \in Conn, NEW w, NEW to, NEW from, NEW source, NEW target,
         Moved(c, w, to, from, source, target), Undisturbed(c)
  PROVE  Others(c)
BY DEF Moved, Undisturbed, Others, Stays

LEMMA HelloFollows ==
  ASSUME Basis, HubGrows, Follows, HelloStep \/ HelloThrows
  PROVE  Follows'
<1>0. PICK c : c = This
  OBVIOUS
<1> USE <1>0
<1>1. entry \in [Conn -> Slot \cup {NoSlot}] /\ sessions \in [Room -> SUBSET Conn]
  BY DEF Basis, PlayerTypes
<1>2. CASE Skip \/ HelloThrows
  <2>1. c \in Conn /\ Ended(c)
    BY <1>2, SkipMoves DEF Basis
  <2>2. /\ UNCHANGED <<entry, sessions>> /\ \A d \in Conn : Out(d) => Out(d)'
        /\ Out(c)'
    BY <1>2, <2>1, KickStays DEF Skip, HelloThrows, Thrown, Out, routes
  <2>3. Others(c)
    BY <2>1, <2>2, MovedOthers DEF Undisturbed, Ended
  <2> QED BY <2>1, <2>2, <2>3, EndFollows, OthersFollow
<1>3. CASE HelloJoined
  <2>1. c \in Conn /\ Ended(c) /\ task[c].at = "joined"
    BY <1>3, SkipMoves, ThisIsConn DEF Basis, HelloJoined
  <2>2. /\ UNCHANGED <<closed, kicked>>
        /\ \A d \in Conn : d # c => entry'[d] = entry[d]
        /\ \A d \in Conn : d # c => \A r \in Room : d \in sessions[r] => d \in sessions'[r]
    BY <1>1, <1>3 DEF HelloJoined, Without
  <2>3. Others(c)
    BY <2>1, <2>2, MovedOthers DEF Undisturbed, Ended, Out
  <2>4. entry'[c] = NoSlot \/ IsIn(c)'
    <3> DEFINE r == task[c].target
    <3>1. CASE c \in sessions[r] /\ c \notin closed
      <4>1. UNCHANGED <<sessions, entry, slotOf>>
        BY <1>3, <3>1 DEF HelloJoined, hub
      <4>2. r \in DOMAIN slotOf /\ entry[c] \in {NoSlot, slotOf[r]}
        BY <2>1 DEF Basis, TasksKnown, TaskKnown, Known, Follows, FollowsAt
      <4> QED BY <3>1, <4>1, <4>2 DEF IsIn
    <3>2. CASE ~(c \in sessions[r] /\ c \notin closed)
      BY <1>1, <1>3, <2>1, <3>2 DEF HelloJoined
    <3> QED BY <3>1, <3>2
  <2> QED BY <2>1, <2>3, <2>4, EndFollows, OthersFollow
<1>4. CASE Supersede
  <2>1. PICK o \in Superseded : Disconnect(o) /\ kicked' = kicked \ {o}
    BY <1>4 DEF Supersede
  <2>2. o \in Conn /\ UNCHANGED <<hub, task>>
    BY <1>4 DEF Superseded, Supersede
  <2> QED BY <2>1, <2>2, DisconnectFollows
<1>5. CASE ChooseRunning
  <2>1. c \in Conn /\ task[c].at = "turn"
    BY <1>5, ChooseRunningMoves DEF Basis
  <2>2. PICK r : Moved(c, "chosen", task[c].to, task[c].from, task[c].source, r)
    BY <1>5, ChooseRunningMoves DEF Basis
  <2>3. UNCHANGED <<entry, sessions, closed, kicked>>
    BY <1>5 DEF ChooseRunning, routes
  <2>4. Others(c)
    BY <2>1, <2>2, <2>3, MovedOthers DEF Undisturbed, Out
  <2>5. FollowsAt(c)'
    BY <2>1, <2>2, <2>3 DEF Moved, Follows, FollowsAt, TransferAt
  <2> QED BY <2>1, <2>4, <2>5, OthersFollow
<1>6. CASE ChooseStart \/ StartForHello
  <2>1. /\ c \in Conn /\ task[c].at \in {"turn", "start"}
        /\ UNCHANGED <<entry, sessions>> /\ \A d \in Conn : Out(d) => Out(d)'
    <3>1. c \in Conn /\ task[c].at \in {"turn", "start"} /\ UNCHANGED <<entry, sessions, closed>>
      BY <1>6, ThisIsConn DEF ChooseStart, StartForHello, routes, Basis
    <3>2. kicked' = kicked \/ Kick({c})
      BY <1>6 DEF ChooseStart, StartForHello, NextSlot
    <3> QED BY <3>1, <3>2, KickStays DEF Out
  <2>2. \/ Ended(c)
        \/ \E w \in {"chosen", "start"} : \E to, from, source, target : Moved(c, w, to, from, source, target)
    BY <1>6, StartMovesHello, NextSlotMoves DEF Basis, ChooseStart
  <2>3. entry'[c] = NoSlot
    BY <2>1 DEF Follows, FollowsAt
  <2>4. CASE Ended(c)
    <3>1. Others(c)
      BY <2>1, <2>4, MovedOthers DEF Undisturbed, Ended
    <3> QED BY <2>1, <2>3, <2>4, <3>1, EndFollows, OthersFollow
  <2>5. ASSUME NEW w \in {"chosen", "start"}, NEW to, NEW from, NEW source, NEW target,
               Moved(c, w, to, from, source, target)
        PROVE  Follows'
    <3>1. Others(c)
      BY <2>1, <2>5, MovedOthers DEF Undisturbed
    <3>2. FollowsAt(c)'
      BY <2>3, <2>5 DEF Moved, FollowsAt, TransferAt
    <3> QED BY <2>1, <3>1, <3>2, OthersFollow
  <2> QED BY <2>2, <2>4, <2>5
<1>7. CASE Route
  <2>1. c \in Conn /\ task[c].at = "chosen" /\ UNCHANGED <<slotOf, sessions, closed, kicked>>
    BY <1>7, RouteMoves DEF Basis, Route, hub
  <2>2. entry[c] = NoSlot
    BY <2>1 DEF Follows, FollowsAt
  <2>3. CASE Ended(c) /\ UNCHANGED entry
    <3>1. Others(c)
      BY <2>1, <2>3, MovedOthers DEF Undisturbed, Ended, Out
    <3> QED BY <2>1, <2>2, <2>3, <3>1, EndFollows, OthersFollow
  <2>4. CASE MovedTo(c, "join") /\ entry' = [entry EXCEPT ![c] = slotOf[task[c].target]]
    <3>1. Others(c)
      BY <1>1, <2>1, <2>4, MovedOthers DEF Undisturbed, MovedTo, Out
    <3>2. task'[c].at = "join" /\ task'[c].target = task[c].target
      BY <2>4 DEF MovedTo, Moved
    <3>3. FollowsAt(c)'
      BY <1>1, <2>1, <2>4, <3>2 DEF FollowsAt, TransferAt
    <3> QED BY <2>1, <3>1, <3>3, OthersFollow
  <2> QED BY <1>7, <2>3, <2>4, RouteMoves DEF Basis
<1>8. CASE HelloJoin \/ HelloEnter
  <2>1. /\ c \in Conn /\ task[c].at \in {"join", "enter"} /\ UNCHANGED <<entry, slotOf, closed>>
        /\ \E where \in {"enter", "joined"} : MovedTo(c, where)
    BY <1>8, JoinMoves DEF Basis, HelloJoin, HelloEnter, routes, hub
  <2>2. PICK where \in {"enter", "joined"} : MovedTo(c, where)
    BY <2>1
  <2>3. \A r \in Room : sessions[r] \subseteq sessions'[r]
    BY <1>1, <1>8 DEF HelloJoin, HelloEnter, Enter
  <2>4. \A d \in Conn : Out(d) => Out(d)'
    BY <1>8, <2>1, KickStays DEF HelloJoin, HelloEnter, Enter, Admitted, Refused, Out
  <2>5. Others(c)
    BY <2>1, <2>2, <2>3, <2>4, MovedOthers DEF Undisturbed, MovedTo
  <2>6. FollowsAt(c)'
    BY <2>1, <2>2 DEF MovedTo, Moved, Follows, FollowsAt, TransferAt
  <2> QED BY <2>1, <2>5, <2>6, OthersFollow
<1> QED BY <1>2, <1>3, <1>4, <1>5, <1>6, <1>7, <1>8 DEF HelloStep

LEMMA TransferFollows ==
  ASSUME Basis, Basis', HubGrows, Follows, NEW c \in Conn,
         \/ TransferStep(c) \/ TransferThrows(c) \/ \E q \in Slot : Transfer(c, q)
  PROVE  Follows'
<1>1. /\ entry \in [Conn -> Slot \cup {NoSlot}] /\ sessions \in [Room -> SUBSET Conn]
      /\ FollowsAt(c)
  BY DEF Basis, PlayerTypes, Follows
<1>2. UNCHANGED closed /\ \A d \in Conn : Out(d) => Out(d)'
  <2>1. UNCHANGED closed
    BY DEF TransferStep, StartForTransfer, Found, Leave, Left, TransferJoin, TransferEnter, TransferJoined,
           Return, Reenter, TransferThrows, Transfer
  <2>2. kicked \subseteq kicked'
    BY DEF TransferStep, StartForTransfer, Found, Leave, Left, TransferJoin, TransferEnter, TransferJoined,
           Return, Reenter, TransferThrows, Transfer, Thrown, Kick, Enter, Admitted, Refused
  <2> QED BY <2>1, <2>2 DEF Out
<1>3. ASSUME UNCHANGED <<entry, sessions>>, task[c].at \in {"idle", "tStart", "tFound", "tDrain"},
             Ended(c)
      PROVE  Follows'
  <2>1. Others(c)
    BY <1>2, <1>3, MovedOthers DEF Undisturbed, Ended
  <2>2. Out(c)' \/ entry'[c] = NoSlot \/ IsIn(c)'
    BY <1>1, <1>2, <1>3, QuietIn DEF FollowsAt
  <2> QED BY <1>3, <2>1, <2>2, EndFollows, OthersFollow
<1>4. ASSUME NEW q \in Slot, NEW r \in Room \cup {NoRoom}, NEW leaving \in Slot,
             Reserve(c, q, r, leaving), UNCHANGED <<entry, sessions>>,
             task[c].at \in {"idle", "tFound"}, entry[c] \in {NoSlot, leaving}
      PROVE  Follows'
  <2>1. CASE Ended(c)
    BY <1>3, <1>4, <2>1
  <2>2. CASE Moved(c, "tDrain", q, leaving, rooms[leaving], r)
    <3>1. Others(c)
      BY <1>2, <1>4, <2>2, MovedOthers DEF Undisturbed
    <3>2. Out(c)' \/ entry'[c] = NoSlot \/ IsIn(c)'
      BY <1>1, <1>2, <1>4, QuietIn DEF FollowsAt
    <3>3. FollowsAt(c)'
      BY <1>4, <2>2, <3>2 DEF Moved, FollowsAt
    <3> QED BY <3>1, <3>3, OthersFollow
  <2> QED BY <1>4, <2>1, <2>2, ReserveMoves DEF Basis, HubTypes, PlayerTypes
<1>5. ASSUME NEW q \in Slot, Transfer(c, q)
      PROVE  Follows'
  <2>1. UNCHANGED <<entry, sessions>> /\ task[c].at = "idle" /\ entry[c] \in Slot
    BY <1>5, TransferBegins DEF Transfer, Basis
  <2>2. CASE rooms[q] # NoRoom /\ Reserve(c, q, rooms[q], entry[c])
    <3>1. rooms[q] \in Room \cup {NoRoom}
      BY DEF Basis, HubTypes
    <3> QED BY <1>4, <2>1, <2>2, <3>1
  <2>3. CASE Moved(c, "tStart", q, entry[c], task[c].source, task[c].target)
    <3>1. Others(c)
      BY <1>2, <2>1, <2>3, MovedOthers DEF Undisturbed
    <3>2. Out(c)' \/ entry'[c] = NoSlot \/ IsIn(c)'
      BY <1>1, <1>2, <2>1, QuietIn DEF FollowsAt
    <3>3. FollowsAt(c)'
      BY <2>1, <2>3, <3>2 DEF Moved, FollowsAt
    <3> QED BY <3>1, <3>3, OthersFollow
  <2> QED BY <1>5, <2>2, <2>3, TransferBegins DEF Basis
<1>6. CASE StartForTransfer(c)
  <2>1. UNCHANGED <<entry, sessions>> /\ task[c].at = "tStart"
    BY <1>6, StartMovesTransfer DEF StartForTransfer, routes, Basis
  <2>2. CASE Ended(c)
    BY <1>3, <2>1, <2>2
  <2>3. ASSUME NEW r, Moved(c, "tFound", task[c].to, task[c].from, task[c].source, r)
        PROVE  Follows'
    <3>1. Others(c)
      BY <1>2, <2>1, <2>3, MovedOthers DEF Undisturbed
    <3>2. Out(c)' \/ entry'[c] = NoSlot \/ IsIn(c)'
      BY <1>1, <1>2, <2>1, QuietIn DEF FollowsAt
    <3>3. entry[c] \in {NoSlot, task[c].from}
      BY <1>1, <2>1 DEF FollowsAt, TransferAt
    <3>4. FollowsAt(c)'
      BY <2>1, <2>3, <3>2, <3>3 DEF Moved, FollowsAt
    <3> QED BY <3>1, <3>4, OthersFollow
  <2> QED BY <1>6, <2>2, <2>3, StartMovesTransfer DEF Basis
<1>7. CASE Found(c)
  <2>1. /\ UNCHANGED <<entry, sessions>> /\ task[c].at = "tFound"
        /\ Reserve(c, task[c].to, task[c].target, task[c].from)
    BY <1>7 DEF Found, At
  <2>2. task[c].to \in Slot /\ task[c].from \in Slot
    BY <2>1 DEF Basis, TasksKnown, TaskKnown, Known, TransferAt
  <2>3. entry[c] \in {NoSlot, task[c].from}
    BY <1>1, <2>1 DEF FollowsAt, TransferAt
  <2>4. task[c].target \in Room \cup {NoRoom}
    BY TaskFields DEF Basis, PlayerTypes
  <2> QED BY <1>4, <2>1, <2>2, <2>3, <2>4
<1>8. ASSUME NEW w \in {"tLeft", "tJoin", "tEnter", "tJoined", "tBack", "tReenter"}, MovedTo(c, w),
             task[c].at \in TransferAt, UNCHANGED entry,
             \A d \in Conn : d # c => \A r \in Room : d \in sessions[r] => d \in sessions'[r]
      PROVE  Follows'
  <2>1. Others(c)
    BY <1>2, <1>8, MovedOthers DEF Undisturbed, MovedTo
  <2>2. entry[c] \in {NoSlot, task[c].from}
    BY <1>1, <1>8 DEF FollowsAt
  <2>3. task'[c].at = w /\ task'[c].from = task[c].from
    BY <1>8 DEF MovedTo, Moved
  <2>4. FollowsAt(c)'
    BY <1>8, <2>2, <2>3 DEF FollowsAt
  <2> QED BY <2>1, <2>4, OthersFollow
<1>9. ASSUME Ended(c), Out(c)' \/ entry'[c] = NoSlot \/ IsIn(c)',
             \A d \in Conn : d # c => entry'[d] = entry[d],
             \A d \in Conn : d # c => \A r \in Room : d \in sessions[r] => d \in sessions'[r]
      PROVE  Follows'
  <2>1. Others(c)
    BY <1>2, <1>9, MovedOthers DEF Undisturbed, Ended
  <2> QED BY <1>9, <2>1, EndFollows, OthersFollow
<1>10. ASSUME NEW r, Enter(c, r)
       PROVE  \A d \in Conn : \A q \in Room : d \in sessions[q] => d \in sessions'[q]
  BY <1>1, <1>10 DEF Enter
<1>11. ASSUME NEW R, sessions' = Without(R, c)
       PROVE  \A d \in Conn : d # c => \A r \in Room : d \in sessions[r] => d \in sessions'[r]
  BY <1>1, <1>11 DEF Without
<1>12. CASE Left(c) \/ TransferJoin(c) \/ TransferEnter(c)
  <2>1. task[c].at \in TransferAt /\ UNCHANGED entry
    BY <1>12 DEF Left, TransferJoin, TransferEnter, At, TransferAt, routes
  <2>2. \A d \in Conn : \A r \in Room : d \in sessions[r] => d \in sessions'[r]
    BY <1>10, <1>12 DEF Left, TransferJoin, TransferEnter
  <2>3. PICK w \in {"tEnter", "tJoined", "tJoin", "tBack"} : MovedTo(c, w)
    BY <1>12, OnwardMoves DEF Basis
  <2> QED BY <1>8, <2>1, <2>2, <2>3
<1>13. CASE Leave(c)
  <2>1. task[c].at = "tDrain" /\ UNCHANGED entry /\ task \in [Conn -> Task]
    BY <1>13 DEF Leave, At, Basis, PlayerTypes
  <2>2. CASE sessions' = Without({task[c].source}, c) /\ Go(c, "tLeft")
    <3>1. MovedTo(c, "tLeft")
      BY <2>1, <2>2, GoMoves DEF Where, TransferAt
    <3>2. task[c].at \in TransferAt
      BY <2>1 DEF TransferAt
    <3> QED BY <1>8, <1>11, <2>1, <2>2, <3>1, <3>2
  <2>3. CASE UNCHANGED sessions /\ Done(c)
    BY <1>3, <2>1, <2>3, DoneMoves
  <2> QED BY <1>13, <2>2, <2>3 DEF Leave
<1>14. CASE TransferJoined(c)
  <2>1. task[c].at = "tJoined" /\ task \in [Conn -> Task] /\ UNCHANGED slotOf
    BY <1>14 DEF TransferJoined, At, Basis, PlayerTypes, hub
  <2>2. CASE c \in sessions[task[c].target] /\ c \notin closed
    <3>1. entry' = [entry EXCEPT ![c] = task[c].to] /\ UNCHANGED sessions /\ Ended(c)
      BY <1>14, <2>1, <2>2, DoneMoves DEF TransferJoined
    <3>2. task[c].target \in DOMAIN slotOf /\ slotOf[task[c].target] = task[c].to
      BY <2>1 DEF Basis, TasksKnown, TaskKnown, Known, ReservedAt, TransferAt
    <3>3. IsIn(c)'
      BY <1>1, <2>1, <2>2, <3>1, <3>2 DEF IsIn
    <3>4. \A d \in Conn : d # c => entry'[d] = entry[d]
      BY <1>1, <3>1
    <3> QED BY <1>9, <3>1, <3>3, <3>4
  <2>3. CASE ~(c \in sessions[task[c].target] /\ c \notin closed)
    <3>1. sessions' = Without({task[c].target}, c) /\ Go(c, "tBack") /\ UNCHANGED entry
      BY <1>14, <2>3 DEF TransferJoined, routes
    <3>2. MovedTo(c, "tBack") /\ task[c].at \in TransferAt
      BY <2>1, <3>1, GoMoves DEF Where, TransferAt
    <3> QED BY <1>8, <1>11, <3>1, <3>2
  <2> QED BY <2>2, <2>3
<1>15. CASE Return(c)
  <2>1. task[c].at = "tBack" /\ task \in [Conn -> Task] /\ UNCHANGED <<entry, sessions>>
    BY <1>15 DEF Return, At, Basis, PlayerTypes
  <2>2. CASE Go(c, "tReenter")
    <3>1. MovedTo(c, "tReenter") /\ task[c].at \in TransferAt
      BY <2>1, <2>2, GoMoves DEF Where, TransferAt
    <3> QED BY <1>8, <2>1, <3>1
  <2>3. CASE Kick({c}) /\ Done(c)
    <3>1. Out(c)' /\ Ended(c)
      BY <1>2, <2>1, <2>3, KickStays, DoneMoves
    <3> QED BY <1>9, <2>1, <3>1
  <2> QED BY <1>15, <2>2, <2>3 DEF Return, Admitted, Refused
<1>16. CASE Reenter(c)
  <2>1. /\ task[c].at = "tReenter" /\ task \in [Conn -> Task] /\ UNCHANGED <<entry, slotOf>>
        /\ Enter(c, task[c].source) /\ Done(c)
    BY <1>16 DEF Reenter, At, Basis, PlayerTypes, hub
  <2>2. /\ task[c].source \in DOMAIN slotOf /\ slotOf[task[c].source] = task[c].from
        /\ entry[c] \in {NoSlot, task[c].from}
    BY <1>1, <2>1 DEF Basis, TasksKnown, TaskKnown, Known, ReservedAt, TransferAt, FollowsAt
  <2>3. task[c].source \in Room
    BY <2>2, TransferAssumptions DEF Basis, HubTypes, Room
  <2>4. c \in sessions'[task[c].source]
    BY <1>1, <2>1, <2>3 DEF Enter
  <2>5. entry'[c] = NoSlot \/ IsIn(c)'
    BY <2>1, <2>2, <2>4 DEF IsIn
  <2> QED BY <1>9, <1>10, <2>1, <2>5, DoneMoves
<1>17. CASE TransferThrows(c)
  <2>1. task \in [Conn -> Task] /\ UNCHANGED <<entry, sessions>> /\ Kick({c}) /\ Done(c)
    BY <1>17 DEF TransferThrows, Thrown, Basis, PlayerTypes
  <2>2. Out(c)' /\ Ended(c)
    BY <1>2, <2>1, KickStays, DoneMoves
  <2> QED BY <1>9, <2>1, <2>2
<1> QED BY <1>5, <1>6, <1>7, <1>12, <1>13, <1>14, <1>15, <1>16, <1>17 DEF TransferStep

LEMMA FollowsStep ==
  ASSUME Basis, Follows, [Next]_vars
  PROVE  Follows'
<1>1. HubGrows /\ Basis'
  BY HubStep, BasisStep
<1>2. ASSUME NEW c \in Conn, Hello(c)
      PROVE  Follows'
  <2>1. MovedTo(c, "turn") /\ UNCHANGED <<entry, sessions, closed, kicked>> /\ task[c].at = "new"
    BY <1>2, HelloMoves DEF Hello, routes, At, Basis
  <2>2. Others(c)
    BY <2>1, MovedOthers DEF Undisturbed, MovedTo, Out
  <2>3. FollowsAt(c)'
    BY <2>1 DEF MovedTo, Moved, Follows, FollowsAt, TransferAt
  <2> QED BY <1>1, <2>2, <2>3, OthersFollow
<1>3. ASSUME NEW c \in Conn, Close(c)
      PROVE  Follows'
  <2>1. Disconnect(c) /\ kicked' = kicked \ {c} /\ UNCHANGED <<hub, task>>
    BY <1>3 DEF Close
  <2> QED BY <1>1, <2>1, DisconnectFollows
<1>4. ASSUME \A d \in Conn : Stays(d)
      PROVE  Follows'
  BY <1>1, <1>4, StaysFollows DEF Follows
<1>5. ASSUME NEW s \in Slot, Suspend(s) \/ Regain(s)
      PROVE  Follows'
  BY <1>4, <1>5 DEF Suspend, Regain, routes, Stays, Out
<1>6. ASSUME NEW s \in Slot, StopRoom(s)
      PROVE  Follows'
  <2>1. UNCHANGED <<task, sessions, closed>> /\ \A d \in Conn : entry'[d] \in {entry[d], NoSlot}
    BY <1>6 DEF StopRoom
  <2>2. \A d \in Conn : Out(d) => Out(d)'
    BY <1>6, <2>1, KickStays DEF StopRoom
  <2> QED BY <1>4, <2>1, <2>2 DEF Stays
<1>7. CASE UNCHANGED vars
  BY <1>4, <1>7 DEF vars, routes, Stays, Out
<1> QED BY <1>1, <1>2, <1>3, <1>5, <1>6, <1>7, HelloFollows, TransferFollows DEF Next

LEMMA FollowsInit == Init => Follows
BY DEF Init, Resting, Follows, FollowsAt, TransferAt

\* A client that is connected and has nothing pending is in a room of the slot its messages
\* are routed to: every way a transfer fails puts the player back.
THEOREM PlayersAreInTheirRooms == Spec => []PlayerIsInItsRoom
<1>1. Init => Basis /\ Follows
  BY BasisInit, FollowsInit
<1>2. Basis /\ Follows /\ [Next]_vars => Basis' /\ Follows'
  BY BasisStep, FollowsStep
<1>3. Follows => PlayerIsInItsRoom
  BY DEF Follows, FollowsAt, PlayerIsInItsRoom, Idle, At, Out, IsIn
<1> QED BY <1>1, <1>2, <1>3, PTL DEF Spec
=============================================================================
