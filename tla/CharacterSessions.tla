--------------------------- MODULE CharacterSessions ---------------------------
(****************************************************************************)
(* One character, the connections that say hello with it, and the places    *)
(* they say it to: the router's admission chain, each place's hub with its  *)
(* one room, the room's sessions and its queue of saves                     *)
(* (apps/server/src/game/placeRouter.ts, instanceHub.ts,                    *)
(* systems/sessions.ts, systems/context.ts).                                *)
(*                                                                          *)
(* The character is the set of deeds it has done. Saves that fail are       *)
(* retried by the queue (Flusher): here they only take longer.              *)
(****************************************************************************)
EXTENDS Integers, Sequences, FiniteSets

CONSTANTS
  Conn,            \* connections, each used once
  NoConn,
  Place,
  Deed,
  MaxJobs,         \* bound: saves in a room's queue
  MaxSuspensions,  \* bound: rooms suspended for an unconfirmed lease
  Conditions       \* the conditions a behaviour may run under

ASSUME SessionAssumptions ==
  /\ NoConn \notin Conn
  /\ MaxJobs \in Nat \ {0}
  /\ MaxSuspensions \in Nat
  /\ Conditions \subseteq SUBSET {"close", "hop", "cut", "suspend"}

VARIABLES
  may,          \* this behaviour's conditions, fixed at its start:
                \*   "close"    clients close their connection when they like
                \*   "hop"      connections of the character are at several places
                \*   "cut"      a drain may reach its five-second deadline
                \*   "suspend"  a heartbeat may fail to confirm a room's lease
  place,        \* where each connection said hello, if it has
  known,        \* the router's connections
  admitted,     \* those it has passed on to a hub
  attached,     \* the hubs' connections
  closed,       \* connections the router and the hub have seen end
  admission,    \* hellos behind the admission chain; the first one runs
  step,         \* where the running hello is
  drainPlace,   \* the place whose save the running hello waits for
  loaded,       \* the character as the running hello has read it
  byConn,       \* connections with a session
  byPlayer,     \* per room: the connection whose session is the character's
  have,         \* the deeds each session carries
  queue,        \* per room: saves on their way to the database
  confirmed,    \* places whose room holds its lease: in rooms, not in recovering
  stored,       \* the character in the database
  done,         \* history: every deed done
  suspensions

fixed == <<may, place>>
router == <<known, admitted>>
chain == <<admission, step, drainPlace, loaded>>
sessions == <<byConn, byPlayer, have>>
vars == <<fixed, router, attached, closed, chain, sessions, queue, confirmed, stored, done, suspensions>>

Job == [kind: {"checkpoint", "leave"}, deeds: SUBSET Deed]
--------------------------------------------------------------------------------
Init ==
  /\ may \in Conditions
  /\ place \in [Conn -> Place]
  /\ "hop" \notin may => \A c, o \in Conn : place[c] = place[o]
  /\ known = {} /\ admitted = {} /\ attached = {} /\ closed = {}
  /\ admission = <<>>
  /\ step = "turn"
  /\ drainPlace \in Place
  /\ loaded = {}
  /\ byConn = {}
  /\ byPlayer = [p \in Place |-> NoConn]
  /\ have = [c \in Conn |-> {}]
  /\ queue = [p \in Place |-> <<>>]
  /\ confirmed = Place
  /\ stored = {}
  /\ done = {}
  /\ suspensions = 0

\* A connection says hello: the router queues its admission.
Hello(c) ==
  /\ c \notin known \cup closed
  /\ known' = known \cup {c}
  /\ admission' = Append(admission, c)
  /\ UNCHANGED <<fixed, admitted, attached, closed, step, drainPlace, loaded, sessions, queue,
                 confirmed, stored, done, suspensions>>

\* SessionRegistry.remove and the disconnect save; nothing for a connection without a
\* session.
RoomForgets(c) ==
  IF c \in byConn
    THEN /\ Len(queue[place[c]]) < MaxJobs
         /\ byConn' = byConn \ {c}
         /\ byPlayer' = [byPlayer EXCEPT ![place[c]] = NoConn]
         /\ queue' = [queue EXCEPT ![place[c]] = Append(@, [kind |-> "leave", deeds |-> have[c]])]
    ELSE UNCHANGED <<byConn, byPlayer, queue>>

\* PlaceRouter.onDisconnect and InstanceHub.onDisconnect: the hub finds the room only
\* while its lease is confirmed.
Disconnect(c) ==
  /\ closed' = closed \cup {c}
  /\ known' = known \ {c}
  /\ admitted' = admitted \ {c}
  /\ attached' = attached \ {c}
  /\ IF c \in attached /\ place[c] \in confirmed
       THEN RoomForgets(c)
       ELSE UNCHANGED <<byConn, byPlayer, queue>>

\* The client goes away.
Close(c) ==
  /\ "close" \in may
  /\ c \in known
  /\ Disconnect(c)
  /\ UNCHANGED <<fixed, chain, have, confirmed, stored, done, suspensions>>
--------------------------------------------------------------------------------
(* The admission chain: one hello at a time.                                *)

Now(where) == admission # <<>> /\ step = where
This == Head(admission)
GoTo(where) == step' = where /\ UNCHANGED admission
Over == step' = "turn" /\ admission' = Tail(admission)

\* Variant: each place looks after its own connections.
SupersededHere == {o \in admitted \ {This} : place[o] = place[This]}

\* The connections the running hello's character is still on.
Superseded == admitted \ {This}

\* The client went away while its hello waited.
Skip ==
  /\ Now("turn")
  /\ This \in closed
  /\ Over
  /\ UNCHANGED <<fixed, router, attached, closed, drainPlace, loaded, sessions, queue, confirmed, stored,
                 done, suspensions>>

\* Another connection of this character is closed and its room's saves waited for.
Supersede ==
  /\ Now("turn")
  /\ This \notin closed
  /\ \E o \in Superseded : Disconnect(o) /\ drainPlace' = place[o]
  /\ GoTo("drain")
  /\ UNCHANGED <<fixed, loaded, have, confirmed, stored, done, suspensions>>

\* activeRooms has no room whose lease is in doubt: nothing to wait for there.
DrainedBefore ==
  /\ Now("drain")
  /\ "cut" \notin may /\ drainPlace \in confirmed => queue[drainPlace] = <<>>
  /\ GoTo("turn")
  /\ UNCHANGED <<fixed, router, attached, closed, drainPlace, loaded, sessions, queue, confirmed, stored,
                 done, suspensions>>

\* The hub takes the connection into its room, or turns it away while that recovers.
Admit ==
  /\ Now("turn")
  /\ This \notin closed
  /\ Superseded = {}
  /\ admitted' = admitted \cup {This}
  /\ IF place[This] \in confirmed
       THEN attached' = attached \cup {This} /\ GoTo("join")
       ELSE Over /\ UNCHANGED attached
  /\ UNCHANGED <<fixed, known, closed, drainPlace, loaded, sessions, queue, confirmed, stored, done,
                 suspensions>>

\* Variant: the join reads the character without draining the queue.
ReadAtOnce ==
  /\ Now("join")
  /\ loaded' = stored
  /\ GoTo("enter")
  /\ UNCHANGED <<fixed, router, attached, closed, drainPlace, sessions, queue, confirmed, stored, done,
                 suspensions>>

\* resolveHello drains this room's queue, then reads the character.
Read ==
  /\ Now("join")
  /\ "cut" \notin may => queue[place[This]] = <<>>
  /\ loaded' = stored
  /\ GoTo("enter")
  /\ UNCHANGED <<fixed, router, attached, closed, drainPlace, sessions, queue, confirmed, stored, done,
                 suspensions>>

\* The session is registered; one the room still has for the character is replaced.
Enter ==
  /\ Now("enter")
  /\ byConn' = byConn \cup {This}
  /\ byPlayer' = [byPlayer EXCEPT ![place[This]] = This]
  /\ have' = [have EXCEPT ![This] = loaded]
  /\ GoTo("joined")
  /\ UNCHANGED <<fixed, router, attached, closed, drainPlace, loaded, queue, confirmed, stored, done,
                 suspensions>>

\* Variant: nobody looks again whether the client went away during the join.
JoinedUnchecked ==
  /\ Now("joined")
  /\ Over
  /\ UNCHANGED <<fixed, router, attached, closed, drainPlace, loaded, sessions, queue, confirmed, stored,
                 done, suspensions>>

\* Variant: the join's end is the client's welcome, which a closed connection never gets.
JoinedByWelcome ==
  /\ Now("joined")
  /\ This \notin closed
  /\ Over
  /\ UNCHANGED <<fixed, router, attached, closed, drainPlace, loaded, sessions, queue, confirmed, stored,
                 done, suspensions>>

\* The join is over. A client that went away meanwhile is taken out of the room again.
Joined ==
  /\ Now("joined")
  /\ IF This \in closed
       THEN RoomForgets(This) /\ attached' = attached \ {This}
       ELSE UNCHANGED <<byConn, byPlayer, queue, attached>>
  /\ Over
  /\ UNCHANGED <<fixed, router, closed, drainPlace, loaded, have, confirmed, stored, done, suspensions>>
--------------------------------------------------------------------------------
\* A player acts through its connection.
DoDeed(c, d) ==
  /\ c \in attached /\ byPlayer[place[c]] = c /\ place[c] \in confirmed
  /\ d \notin done
  /\ have' = [have EXCEPT ![c] = @ \cup {d}]
  /\ done' = done \cup {d}
  /\ UNCHANGED <<fixed, router, attached, closed, chain, byConn, byPlayer, queue, confirmed, stored,
                 suspensions>>

\* A checkpoint takes the room's session of the character; one is in the queue at most.
Checkpoint(p) ==
  /\ p \in confirmed
  /\ byPlayer[p] # NoConn
  /\ Len(queue[p]) < MaxJobs
  /\ \A i \in DOMAIN queue[p] : queue[p][i].kind # "checkpoint"
  /\ queue' = [queue EXCEPT ![p] =
                 Append(@, [kind |-> "checkpoint", deeds |-> have[byPlayer[p]]])]
  /\ UNCHANGED <<fixed, router, attached, closed, chain, sessions, confirmed, stored, done, suspensions>>

Commit(p) ==
  /\ queue[p] # <<>>
  /\ stored' = Head(queue[p]).deeds
  /\ queue' = [queue EXCEPT ![p] = Tail(@)]
  /\ UNCHANGED <<fixed, router, attached, closed, chain, sessions, confirmed, done, suspensions>>

\* A heartbeat could not confirm the lease: the room leaves the hub's rooms with its
\* sessions in it; a later one puts it back.
Suspend(p) ==
  /\ "suspend" \in may /\ suspensions < MaxSuspensions
  /\ suspensions' = suspensions + 1
  /\ p \in confirmed
  /\ confirmed' = confirmed \ {p}
  /\ UNCHANGED <<fixed, router, attached, closed, chain, sessions, queue, stored, done>>

Regain(p) ==
  /\ p \notin confirmed
  /\ confirmed' = confirmed \cup {p}
  /\ UNCHANGED <<fixed, router, attached, closed, chain, sessions, queue, stored, done, suspensions>>

HelloStep == Skip \/ Supersede \/ DrainedBefore \/ Admit \/ Read \/ Enter \/ Joined

Next ==
  \/ \E c \in Conn : Hello(c) \/ Close(c)
  \/ HelloStep
  \/ \E c \in Conn, d \in Deed : DoDeed(c, d)
  \/ \E p \in Place : Checkpoint(p) \/ Commit(p) \/ Suspend(p) \/ Regain(p)

Spec == Init /\ [][Next]_vars

\* The event loop runs what is ready, a drain gives up at its deadline, and the queues run.
Fairness ==
  /\ WF_vars(HelloStep)
  /\ \A p \in Place : WF_vars(Commit(p))

FairSpec == Spec /\ Fairness
--------------------------------------------------------------------------------
\* Types; the chain is at rest between two hellos.
TypeOK ==
  /\ may \in Conditions
  /\ place \in [Conn -> Place]
  /\ admitted \subseteq known /\ known \subseteq Conn /\ known \cap closed = {}
  /\ attached \subseteq Conn /\ closed \subseteq Conn
  /\ admission \in Seq(Conn)
  /\ step \in {"turn", "drain", "join", "enter", "joined"}
  /\ admission = <<>> => step = "turn"
  /\ drainPlace \in Place
  /\ loaded \subseteq Deed /\ stored \subseteq Deed /\ done \subseteq Deed
  /\ byConn \subseteq Conn
  /\ byPlayer \in [Place -> Conn \cup {NoConn}]
  /\ have \in [Conn -> SUBSET Deed]
  /\ queue \in [Place -> Seq(Job)]
  /\ confirmed \subseteq Place
  /\ suspensions \in 0 .. MaxSuspensions

\* sessions.ts: one live session per character, in whichever room of whichever place.
OneLiveSession == Cardinality(byConn) <= 1

\* The same wherever rooms keep their leases: a place whose room waits for its own takes
\* no session out of it, whoever the router closes there.
OneSteadySession == "suspend" \in may \/ OneLiveSession

\* A session outlives its connection only while its hello is still running, or in a room
\* that was waiting for its lease when its client went away.
NoGhostSession ==
  \A c \in byConn : c \in attached \/ (admission # <<>> /\ c = This) \/ suspensions > 0

\* placeRouter.ts: a character is shared between places, and the old room's save is
\* finished before the new place restores it. What the database holds of a character is
\* never taken back by an older copy.
StoredDeedsStay == [][stored \subseteq stored']_vars

\* The same for drains that wait to the end and rooms that keep their leases, while a
\* client that leaves one place for another leaves the closing to the router.
SteadyDeedsStay ==
  [][may \cap {"cut", "suspend"} = {} /\ ~({"close", "hop"} \subseteq may)
       => stored \subseteq stored']_vars

\* placeRouter.ts, onMessage: every hello gets its turn in the chain and is answered: the
\* client has a session, was turned away, or has gone.
HelloIsAnswered ==
  \A c \in Conn : c \in known ~> c \in byConn \/ c \in admitted \ attached \/ c \in closed
================================================================================
