------------------------------- MODULE WorldRoutes -------------------------------
(****************************************************************************)
(* The creator worlds' API (worlds/worldRoutes.ts), its share rows          *)
(* (worlds/sharing.ts) and the erasure of accounts (creatorWorlds.ts) over  *)
(* the running worlds of WorldHost.  A request reads a world, checks what   *)
(* it read, changes the row and then tells the chain: other requests come   *)
(* in between.                                                              *)
(****************************************************************************)
EXTENDS WorldHost

CONSTANTS
  Patch,        \* status requests at work at once
  Conditions    \* what behaviours may see, see may

ASSUME RouteAssumptions ==
  Conditions \subseteq [acts: SUBSET {"delete", "save", "scripts", "erase"},
                        worlds: SUBSET World, clients: SUBSET Client,
                        asks: [Patch -> SUBSET Client], jobs: Nat]

VARIABLES
  may,        \* fixed at the start (bounds): the acts besides hellos, sweeps and status requests,
              \* the worlds there are, the clients that say hello, whose status requests there
              \* are, and how short the chain is when they are read
  req,        \* each request's stage and what it carries
  dated,      \* worlds with a publication date
  published,  \* history: games.world.published events of each world
  crossed,    \* history: worlds of which two requests have crossed
  unsynced,   \* history: worlds whose share row could not be written
  torn        \* history: worlds erased just before their opening wrote their place's row

excused == <<crossed, unsynced, torn>>
routeVars == <<may, req, dated, published, excused>>
vars == <<hostVars, routeVars>>

NoRequest == [stage |-> "idle"]

RoutesTypeOK ==
  /\ may \in Conditions
  /\ req \in [Patch -> {NoRequest} \cup
       [stage: {"read"}, who: Client, world: World, to: Status, from: Status, dated: BOOLEAN]
         \cup [stage: {"updated", "synced"}, world: World, to: Status, tells: BOOLEAN]]
  /\ dated \subseteq World
  /\ published \in [World -> Nat]
  /\ crossed \subseteq World /\ unsynced \subseteq World /\ torn \subseteq World

RoutesInit ==
  /\ may \in Conditions
  /\ \A w \in World : status[w] # "gone" <=> w \in may.worlds
  /\ req = [r \in Patch |-> NoRequest]
  /\ dated = shared
  /\ published = [w \in World |-> 0]
  /\ crossed = {} /\ unsynced = {} /\ torn = {}

At(r, stage) == req[r].stage = stage
AtWork(w) == {r \in Patch : req[r] # NoRequest /\ req[r].world = w}
--------------------------------------------------------------------------------
(* PATCH { status }: the owner publishes and unpublishes, staff hide and    *)
(* put back.                                                                *)

MayPatch(c, w, to) ==
  IF c = OwnerOf[w]
    THEN to \in {"draft", "published"} /\ status[w] # "hidden"
    ELSE c \in Staff /\ to \in {"published", "hidden"}

\* The world is read and the request checked against what was read (bounds: while the
\* chain is short, by the clients of may).
PatchReads(r, c, w, to) ==
  /\ c \in may.asks[r]
  /\ Len(chain) < may.jobs
  /\ req[r] = NoRequest
  /\ status[w] # "gone"
  /\ MayPatch(c, w, to)
  /\ req' = [req EXCEPT ![r] = [stage |-> "read", who |-> c, world |-> w, to |-> to,
                                from |-> status[w], dated |-> w \in dated]]
  /\ UNCHANGED <<hostVars, may, dated, published, excused>>

FirstPublication(q) == q.who = OwnerOf[q.world] /\ q.to = "published" /\ ~q.dated

\* The row is not what the request has read any more.
Overtaken(q) == status[q.world] # q.from \/ (q.world \in dated) # q.dated

\* The row is updated, with the event of a first publication, whatever it is by now.
PatchUpdates(r) ==
  /\ At(r, "read")
  /\ LET q == req[r] IN
     IF status[q.world] = "gone"
       THEN /\ req' = [req EXCEPT ![r] = NoRequest]
            /\ UNCHANGED <<status, dated, published, crossed>>
       ELSE /\ status' = [status EXCEPT ![q.world] = q.to]
            /\ dated' = IF q.to = "published" THEN dated \cup {q.world} ELSE dated
            /\ published' = [published EXCEPT ![q.world] = IF FirstPublication(q) THEN @ + 1 ELSE @]
            /\ req' = [req EXCEPT ![r] = [stage |-> "updated", world |-> q.world, to |-> q.to,
                                          tells |-> q.to # q.from]]
            /\ crossed' = IF Overtaken(q) THEN crossed \cup {q.world} ELSE crossed
  /\ UNCHANGED <<saved, shared, places, leased, chain, step, seen, stopping, rooms, running, due,
                 override, at, may, unsynced, torn>>

Synced(q) == IF q.to = "published" THEN shared \cup {q.world} ELSE shared \ {q.world}

\* The share row follows the status the request asked for, whatever the row has by now; a
\* failure is logged.
PatchSyncs(r) ==
  /\ At(r, "updated")
  /\ LET q == req[r]
         gone == status[q.world] = "gone" IN
     /\ \/ ~gone /\ shared' = Synced(q) /\ UNCHANGED unsynced
        \/ UNCHANGED shared /\ unsynced' = IF gone THEN unsynced ELSE unsynced \cup {q.world}
     /\ crossed' = IF gone \/ status[q.world] = q.to THEN crossed ELSE crossed \cup {q.world}
  /\ req' = [req EXCEPT ![r].stage = "synced"]
  /\ UNCHANGED <<status, saved, places, leased, chain, step, seen, stopping, rooms, running, due,
                 override, at, may, dated, published, torn>>

\* Variant: only a world that runs at this moment is told.
PatchTellsRunning(r) ==
  /\ At(r, "synced")
  /\ LET q == req[r] IN
     IF ~q.tells \/ q.world \notin running
       THEN UNCHANGED chain
       ELSE chain' = Append(chain, [kind |-> "changed", world |-> q.world, status |-> q.to])
  /\ req' = [req EXCEPT ![r] = NoRequest]
  /\ UNCHANGED <<database, step, seen, stopping, rooms, running, due, override, at, may, dated, published,
                 excused>>

\* A change from the status that was read is queued for the running world.
PatchTells(r) ==
  /\ At(r, "synced")
  /\ LET q == req[r] IN
     IF ~q.tells
       THEN UNCHANGED chain
       ELSE chain' = Append(chain, [kind |-> "changed", world |-> q.world, status |-> q.to])
  /\ req' = [req EXCEPT ![r] = NoRequest]
  /\ UNCHANGED <<database, step, seen, stopping, rooms, running, due, override, at, may, dated, published,
                 excused>>
--------------------------------------------------------------------------------
(* The other writes.                                                        *)

\* Variant: the rows go at once, and the running world is told afterwards.
DeleteAtOnce(w) ==
  /\ "delete" \in may.acts
  /\ status[w] # "gone"
  /\ Deleted({w})
  /\ Queue([kind |-> "remove", world |-> w])
  /\ UNCHANGED <<step, seen, stopping, rooms, running, due, override, at, routeVars>>

\* DELETE by the owner or games staff (bound: queued once).
Delete(w) ==
  /\ "delete" \in may.acts
  /\ status[w] # "gone"
  /\ ~\E i \in DOMAIN chain : chain[i].kind = "remove" /\ chain[i].world = w
  /\ Queue([kind |-> "remove", world |-> w])
  /\ UNCHANGED <<database, step, seen, stopping, rooms, running, due, override, at, routeVars>>

\* Variant: the running world is given the map at once.
SaveMapAtOnce(w) ==
  /\ "save" \in may.acts
  /\ status[w] # "gone"
  /\ saved[w] < MaxSaves
  /\ saved' = [saved EXCEPT ![w] = @ + 1]
  /\ override' = IF w \in running THEN [override EXCEPT ![w] = saved'[w]] ELSE override
  /\ UNCHANGED <<status, shared, places, leased, chain, step, seen, stopping, rooms, running, due, at,
                 routeVars>>

\* PUT map: the stored map is replaced, and the new one queued for the running world.
SaveMap(w) ==
  /\ "save" \in may.acts
  /\ status[w] # "gone"
  /\ saved[w] < MaxSaves
  /\ saved' = [saved EXCEPT ![w] = @ + 1]
  /\ Queue([kind |-> "apply", world |-> w, map |-> saved[w] + 1])
  /\ UNCHANGED <<status, shared, places, leased, step, seen, stopping, rooms, running, due, override,
                 at, routeVars>>

\* PUT scripts (bound: queued once).
SaveScripts(w) ==
  /\ "scripts" \in may.acts
  /\ status[w] # "gone"
  /\ ~\E i \in DOMAIN chain : chain[i].kind = "scripts" /\ chain[i].world = w
  /\ Queue([kind |-> "scripts", world |-> w])
  /\ UNCHANGED <<database, step, seen, stopping, rooms, running, due, override, at, routeVars>>

Opening(w) == chain # <<>> /\ Job.kind = "hello" /\ Job.world = w /\ step # "turn"

\* The owner's account is erased: the worlds' rows go at once, outside the chain and also while
\* one of them is being opened.
Erase(c) ==
  LET theirs == {w \in World : OwnerOf[w] = c /\ status[w] # "gone"} IN
  /\ "erase" \in may.acts
  /\ theirs # {}
  /\ Deleted(theirs)
  /\ torn' = torn \cup {w \in theirs : Opening(w) /\ step \in {"place", "build"}}
  /\ UNCHANGED <<chain, step, seen, stopping, rooms, running, due, override, at, may, req, dated,
                 published, crossed, unsynced>>
--------------------------------------------------------------------------------
Init == HostInit /\ RoutesInit

Chain == ChainStep /\ UNCHANGED routeVars
Answer(r) == PatchUpdates(r) \/ PatchSyncs(r) \/ PatchTells(r)

Next ==
  \/ /\ HostStep
     /\ \A c \in Client \ may.clients : at'[c] = "out"
     /\ UNCHANGED routeVars
  \/ \E r \in Patch, c \in Client, w \in World, to \in Status : PatchReads(r, c, w, to)
  \/ \E r \in Patch : Answer(r)
  \/ \E w \in World : Delete(w) \/ SaveMap(w) \/ SaveScripts(w)
  \/ \E c \in Client : Erase(c)

\* The chain's jobs end, a request that has been read ends, and the timers fire:
\* the sweep's, the heartbeat's, and the idle time's.
Fairness ==
  /\ WF_vars(Chain)
  /\ WF_vars(SweepTimer /\ UNCHANGED routeVars)
  /\ \A w \in World : WF_vars(IdleTimePasses(w) /\ UNCHANGED routeVars)
  /\ \A w \in World : WF_vars(LeaseLost(w) /\ UNCHANGED routeVars)
  /\ \A r \in Patch : WF_vars(Answer(r))

Spec == Init /\ [][Next]_vars /\ Fairness
--------------------------------------------------------------------------------
(* What creator worlds promise.                                             *)

\* However many worlds are opened, closed and swept, rooms in memory (stopping ones
\* included) stay within GAMES_CREATOR_WORLDS_MAX.
RoomsWithinLimit == Cardinality(rooms) <= MaxRunning

\* A save reaches a running world: once the saves made have had their turn, the map
\* it runs is the stored one, also when it was being opened during the save.
RunningMapIsStored ==
  \A w \in running :
    (status[w] # "gone" /\ ~\E i \in DOMAIN chain : chain[i].kind = "apply" /\ chain[i].world = w)
      => override[w] = saved[w]

\* Worlds whose requests have found the row as they had read it and have written the share row.
InOrder == World \ (crossed \cup unsynced)

\* Once requests and jobs have ended, everyone inside a world may be there: a world
\* that was unpublished or hidden keeps nobody who could not join it now.
ClosedWorldsEmpty ==
  (chain = <<>> /\ \A r \in Patch : req[r] = NoRequest)
    => \A w \in InOrder : status[w] # "gone" => \A c \in Inside(w) : MayJoin(c, w, status[w])

PutBackByStaff(w) ==
  \E r \in Patch :
    At(r, "read") /\ req'[r].stage = "updated" /\ req[r].world = w /\ req[r].who \in Staff \ {OwnerOf[w]}

\* A world staff have hidden is put back by staff only: the code does not keep this when an
\* owner's request has been read before.
HiddenStaysHidden ==
  [][\A w \in World :
       status[w] = "hidden" /\ status'[w] \notin {"hidden", "gone"} => PutBackByStaff(w)]_vars

\* games.world.published is sent once in a world's life.
FirstPublicationOnce == \A w \in World \ crossed : published[w] <= 1

\* Between changes of a world's status its share row is public exactly if the world
\* is published: a draft is only its builders'.
ShareFollowsStatus ==
  \A w \in InOrder :
    (status[w] # "gone" /\ AtWork(w) = {}) => (w \in shared <=> status[w] = "published")

\* A removed world leaves no row of its place and no lease behind, also when an erasure comes
\* between the steps of its opening: just before the opening writes the place's row is the one
\* moment from which a row is left, and even then no lease outlives its room.
RemovedWorldsLeaveNothing ==
  \A w \in World : (status[w] = "gone" /\ ~Opening(w)) =>
    /\ w \in leased => w \in rooms
    /\ w \in places \cup leased => w \in torn

\* A client that was let into a world is never left with a hub without a room.
NobodyLeftBehind == \A c \in Client : at[c] # "stranded"

\* A world nobody is in stops, unless someone asks for it again.
EmptyWorldsStop ==
  \A w \in World :
    (w \in running /\ Inside(w) = {})
      ~> \/ w \notin running
         \/ Inside(w) # {}
         \/ \E i \in DOMAIN chain : chain[i].kind = "hello" /\ chain[i].world = w

\* Every hello is answered: the client is let in or refused, or has gone.
JoinIsAnswered == \A c \in Client : (at[c] = "waiting") ~> (at[c] # "waiting")

\* Everyone leaves a world that has been removed, also by an erasure that tells neither the
\* host nor the players; unless that left the row, and with it the lease, of an opening.
RemovedWorldsEmpty ==
  \A w \in World : (status[w] = "gone") ~> (Inside(w) = {} \/ w \in torn)
================================================================================
