-------------------------------- MODULE WorldHost --------------------------------
(****************************************************************************)
(* Creator worlds as the process runs them: the router's admission chain    *)
(* (placeRouter.ts), in which hellos open worlds and the sweep, the routes  *)
(* and the editor's saves act on them, the host of the running worlds       *)
(* (worlds/worldHost.ts) and the start of a world's hub with its one room   *)
(* (worlds/startWorldHub.ts).                                               *)
(*                                                                          *)
(* The chain runs one job at a time; between two awaits of a job clients    *)
(* come and go, heartbeats run and the database changes.  How several       *)
(* connections of one character supersede each other is in                  *)
(* CharacterSessions; here a client has one connection at a time.           *)
(****************************************************************************)
EXTENDS Integers, Sequences, FiniteSets

CONSTANTS
  World,
  Client,
  Guest,        \* clients without an account
  Staff,        \* clients who are owners or admins of the site
  OwnerOf,      \* each world's owner, a client
  Team,         \* each world's editors besides its owner
  NoMap,        \* no override: the place's own map
  MaxRunning,   \* worlds running at once (GAMES_CREATOR_WORLDS_MAX)
  MaxSaves,     \* bound: saves of a world's map
  MaxJobs       \* bound: jobs in the chain when clients and builders add theirs

ASSUME HostAssumptions ==
  /\ Guest \subseteq Client
  /\ Staff \subseteq Client \ Guest
  /\ OwnerOf \in [World -> Client \ Guest]
  /\ Team \in [World -> SUBSET (Client \ Guest)]
  /\ MaxRunning \in Nat
  /\ MaxSaves \in Nat
  /\ MaxJobs \in Nat
  /\ NoMap \notin Nat
  /\ World \cap {"out", "waiting", "gone", "stranded"} = {}

VARIABLES
  \* The database.
  status,     \* each world's status; "gone" once its row is deleted
  saved,      \* the revision of its stored map
  shared,     \* worlds whose share row says public
  places,     \* worlds with rows of their place
  leased,     \* worlds whose slot 0 has a live lease of this process
  \* The process.
  chain,      \* jobs behind the admission chain; the first one runs
  step,       \* where the running job is
  seen,       \* the status a hello has read
  stopping,   \* CreatorWorldHost.stopping: worlds whose hub shuts down
  rooms,      \* worlds with a room in memory, stopping ones included
  running,    \* CreatorWorldHost.running
  due,        \* running worlds not seen occupied for idleMs
  override,   \* the map each world's place runs
  \* The clients.
  at          \* the world each client is in; or "out", "waiting" behind the chain,
              \* "gone" meanwhile, "stranded" with a hub that has been shut down

database == <<status, saved, shared, places, leased>>
hostVars == <<database, chain, step, seen, stopping, rooms, running, due, override, at>>

Status == {"draft", "published", "hidden"}

Jobs ==
  [kind: {"hello"}, client: Client, world: World]
    \cup [kind: {"sweep"}]
    \cup [kind: {"changed"}, world: World, status: Status]
    \cup [kind: {"remove", "scripts"}, world: World]
    \cup [kind: {"apply"}, world: World, map: 1..MaxSaves]

HostTypeOK ==
  /\ status \in [World -> Status \cup {"gone"}]
  /\ saved \in [World -> 0..MaxSaves]
  /\ shared \subseteq World /\ places \subseteq World /\ leased \subseteq World
  /\ chain \in Seq(Jobs)
  /\ step \in {"turn", "check", "map", "place", "claim", "build", "renew", "stop", "delete"}
  /\ seen \in Status \cup {"unread"}
  /\ stopping \subseteq World
  /\ running \subseteq World /\ rooms \subseteq World /\ due \subseteq World
  /\ override \in [World -> (0..MaxSaves) \cup {NoMap}]
  /\ at \in [Client -> World \cup {"out", "waiting", "gone", "stranded"}]

\* A server whose worlds nobody has joined yet; some have been removed.
HostInit ==
  /\ status \in [World -> {"draft", "published", "gone"}]
  /\ saved = [w \in World |-> 0]
  /\ shared = {w \in World : status[w] = "published"}
  /\ places = {} /\ leased = {}
  /\ chain = <<>>
  /\ step = "turn"
  /\ seen = "unread"
  /\ stopping = {} /\ rooms = {} /\ running = {} /\ due = {}
  /\ override = [w \in World |-> NoMap]
  /\ at = [c \in Client |-> "out"]
--------------------------------------------------------------------------------
(* Clients and timers.                                                      *)

\* A job of a client or a builder is queued behind the chain, while that is short.
Queue(job) == Len(chain) < MaxJobs /\ chain' = Append(chain, job)

Queued(kind) == \E i \in DOMAIN chain : chain[i].kind = kind
Inside(w) == {c \in Client : at[c] = w}

\* A client says hello to a creator world.
Hello(c, w) ==
  /\ at[c] = "out"
  /\ at' = [at EXCEPT ![c] = "waiting"]
  /\ Queue([kind |-> "hello", client |-> c, world |-> w])
  /\ UNCHANGED <<database, step, seen, stopping, rooms, running, due, override>>

\* A client goes away, wherever it is.
Disconnect(c) ==
  /\ at[c] \notin {"out", "gone"}
  /\ at' = [at EXCEPT ![c] = IF @ = "waiting" THEN "gone" ELSE "out"]
  /\ UNCHANGED <<database, chain, step, seen, stopping, rooms, running, due, override>>

\* The timer queues a sweep (bound: one at a time).
SweepTimer ==
  /\ ~Queued("sweep")
  /\ chain' = Append(chain, [kind |-> "sweep"])
  /\ UNCHANGED <<database, step, seen, stopping, rooms, running, due, override, at>>

\* idleMs have gone by since a world's last join or since someone was seen inside.
IdleTimePasses(w) ==
  /\ w \in running \ due
  /\ due' = due \cup {w}
  /\ UNCHANGED <<database, chain, step, seen, stopping, rooms, running, override, at>>

\* A heartbeat finds the lease's row gone: the hub stops its room and closes the
\* players with it.  The host keeps the empty hub.
LeaseLost(w) ==
  /\ w \in running \cap rooms
  /\ w \notin leased
  /\ rooms' = rooms \ {w}
  /\ at' = [c \in Client |-> IF c \in Inside(w) THEN "out" ELSE at[c]]
  /\ UNCHANGED <<database, chain, step, seen, stopping, running, due, override>>
--------------------------------------------------------------------------------
(* The admission chain: one job at a time.                                  *)

Now(kind, where) == chain # <<>> /\ Head(chain).kind = kind /\ step = where
Job == Head(chain)
GoTo(where) == step' = where /\ UNCHANGED chain
Over == step' = "turn" /\ chain' = Tail(chain)

\* The running hello's client is let in, or refused; one that went away meanwhile is
\* neither.
Admit == at' = [at EXCEPT ![Job.client] = IF @ = "gone" THEN "out" ELSE Job.world]
Refuse == at' = [at EXCEPT ![Job.client] = "out"]


\* Who may join, from the status read and the share row.
MayJoin(c, w, st) ==
  \/ st = "published"
  \/ IF c = OwnerOf[w] \/ (st = "draft" /\ c \notin Guest /\ (c \in Team[w] \/ w \in shared))
       THEN st = "draft"
       ELSE c \in Staff

\* The hello's turn: the router skips a client that has gone; the host reads the world.
OpenWorld ==
  /\ Now("hello", "turn")
  /\ Job.world \notin stopping
  /\ IF at[Job.client] = "gone" \/ status[Job.world] = "gone"
       THEN Refuse /\ Over /\ UNCHANGED seen
       ELSE seen' = status[Job.world] /\ GoTo("check") /\ UNCHANGED at
  /\ UNCHANGED <<database, stopping, rooms, running, due, override>>

\* Variant: the limit is off by one.
HasSlotAtLimit == Cardinality(running) <= MaxRunning

HasSlot == Cardinality(running) < MaxRunning

\* Team and share list are read; then the host refuses, answers with the running
\* world's hub, or starts the world if there is room for one more.
CheckJoin ==
  /\ Now("hello", "check")
  /\ LET w == Job.world IN
     \/ /\ MayJoin(Job.client, w, seen)
        /\ w \in running
        /\ due' = due \ {w}
        /\ IF w \in rooms THEN Admit ELSE Refuse
        /\ Over
     \/ /\ MayJoin(Job.client, w, seen)
        /\ w \notin running
        /\ HasSlot
        /\ GoTo("map")
        /\ UNCHANGED <<at, due>>
     \/ /\ \/ ~MayJoin(Job.client, w, seen)
           \/ w \notin running /\ ~HasSlot
        /\ Refuse
        /\ Over
        /\ UNCHANGED due
  /\ seen' = "unread"
  /\ UNCHANGED <<database, stopping, rooms, running, override>>

\* The stored map becomes the place's override.
ReadMap ==
  /\ Now("hello", "map")
  /\ IF status[Job.world] = "gone"
       THEN Refuse /\ Over /\ UNCHANGED override
       ELSE /\ override' = [override EXCEPT ![Job.world] = saved[Job.world]]
            /\ GoTo("place")
            /\ UNCHANGED at
  /\ UNCHANGED <<database, seen, stopping, rooms, running, due>>

EnsurePlace ==
  /\ Now("hello", "place")
  /\ places' = places \cup {Job.world}
  /\ GoTo("claim")
  /\ UNCHANGED <<status, saved, shared, leased, seen, stopping, rooms, running, due, override, at>>

\* A start that fails: the override is taken back and the client refused.
StartFails ==
  /\ override' = [override EXCEPT ![Job.world] = NoMap]
  /\ Refuse
  /\ Over

\* The lease of slot 0.  Another process may hold it.  Without the place's row the
\* statement fails, and nothing takes the override back.
ClaimLease ==
  /\ Now("hello", "claim")
  /\ \/ /\ Job.world \in places
        /\ leased' = leased \cup {Job.world}
        /\ GoTo("build")
        /\ UNCHANGED <<override, at>>
     \/ StartFails /\ UNCHANGED leased
     \/ Job.world \notin places /\ Refuse /\ Over /\ UNCHANGED <<leased, override>>
  /\ UNCHANGED <<status, saved, shared, places, seen, stopping, rooms, running, due>>

\* The room: its place row again, its world restored.  A room that cannot be built
\* gives its lease back.
BuildRoom ==
  /\ Now("hello", "build")
  /\ places' = places \cup {Job.world}
  /\ \/ /\ rooms' = rooms \cup {Job.world}
        /\ GoTo("renew")
        /\ UNCHANGED <<leased, override, at>>
     \/ /\ leased' = leased \ {Job.world}
        /\ StartFails
        /\ UNCHANGED rooms
  /\ UNCHANGED <<status, saved, shared, seen, stopping, running, due>>

\* The lease says "running", or has gone and the room is disposed of; then the hello
\* goes on to the hub.
RunWorld ==
  /\ Now("hello", "renew")
  /\ IF Job.world \in leased
       THEN /\ running' = running \cup {Job.world}
            /\ due' = due \ {Job.world}
            /\ Admit /\ Over
            /\ UNCHANGED <<rooms, override>>
       ELSE /\ rooms' = rooms \ {Job.world}
            /\ StartFails
            /\ UNCHANGED <<running, due>>
  /\ UNCHANGED <<database, seen, stopping>>
--------------------------------------------------------------------------------
(* Stopping a world.                                                        *)

\* CreatorWorldHost.stop: the world leaves the running ones, its hub shuts down.
StopBegins(w) ==
  /\ running' = running \ {w}
  /\ due' = due \ {w}
  /\ stopping' = {w}
  /\ GoTo("stop")

\* The hub has saved its room, released the lease and disposed of the room.  It has
\* closed nobody's connection: those inside are left with a hub without rooms.
StopEnds ==
  /\ chain # <<>> /\ step = "stop"
  /\ \E w \in stopping :
       /\ rooms' = rooms \ {w}
       /\ leased' = leased \ {w}
       /\ override' = [override EXCEPT ![w] = NoMap]
       /\ at' = [c \in Client |-> IF c \in Inside(w) THEN "stranded" ELSE at[c]]
  /\ stopping' = {}
  /\ CASE Job.kind = "sweep" -> GoTo("turn")
       [] Job.kind = "remove" -> GoTo("delete")
       [] OTHER -> Over
  /\ UNCHANGED <<status, saved, shared, places, seen, running, due>>

\* Variant: a hub whose room is gone is passed over.
IdleWorldsWithRooms == {w \in due \cap rooms : Inside(w) = {}}

IdleWorlds == {w \in due : Inside(w) = {}}

\* One pass of the idle sweep, up to the next world it stops.  A world seen occupied
\* starts its idle time again.
Sweep ==
  /\ Now("sweep", "turn")
  /\ IF IdleWorlds = {}
       THEN /\ due' = {}
            /\ Over
            /\ UNCHANGED <<running, stopping>>
       ELSE \E w \in IdleWorlds : StopBegins(w)
  /\ UNCHANGED <<database, seen, rooms, override, at>>

\* A world that is not published any more stops; so does one whose scripts changed.
Closes == Job.kind \in {"scripts", "remove"} \/ Job.status # "published"

WorldChanged ==
  /\ Now("changed", "turn") \/ Now("scripts", "turn")
  /\ IF Job.world \in running /\ Closes
       THEN StopBegins(Job.world)
       ELSE Over /\ UNCHANGED <<running, due, stopping>>
  /\ UNCHANGED <<database, seen, rooms, override, at>>

\* A deletion stops the world first ...
RemoveBegins ==
  /\ Now("remove", "turn")
  /\ IF Job.world \in running
       THEN StopBegins(Job.world)
       ELSE GoTo("delete") /\ UNCHANGED <<running, due, stopping>>
  /\ UNCHANGED <<database, seen, rooms, override, at>>

\* The row of a world goes with its place's rows, the lease among them.
Deleted(ws) ==
  /\ status' = [w \in World |-> IF w \in ws THEN "gone" ELSE status[w]]
  /\ places' = places \ ws
  /\ leased' = leased \ ws
  /\ UNCHANGED <<saved, shared>>

\* ... and then removes it.
Remove ==
  /\ Now("remove", "delete")
  /\ Deleted({Job.world})
  /\ Over
  /\ UNCHANGED <<seen, stopping, rooms, running, due, override, at>>

\* A saved map reaches a running world.
ApplyMap ==
  /\ Now("apply", "turn")
  /\ override' = IF Job.world \in running THEN [override EXCEPT ![Job.world] = Job.map] ELSE override
  /\ Over
  /\ UNCHANGED <<database, seen, stopping, rooms, running, due, at>>

ChainStep ==
  \/ OpenWorld \/ CheckJoin \/ ReadMap \/ EnsurePlace \/ ClaimLease \/ BuildRoom \/ RunWorld
  \/ StopEnds \/ Sweep \/ WorldChanged \/ RemoveBegins \/ Remove \/ ApplyMap

HostStep ==
  \/ \E c \in Client, w \in World : Hello(c, w)
  \/ \E c \in Client : Disconnect(c)
  \/ SweepTimer
  \/ \E w \in World : IdleTimePasses(w) \/ LeaseLost(w)
  \/ ChainStep
================================================================================
