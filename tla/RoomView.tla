------------------------------ MODULE RoomView ------------------------------
(***************************************************************************)
(* What the clients of one room have been told of its props: the interest  *)
(* sets and snapshots (game/replication.ts, systems/replication.ts), the   *)
(* changes the systems announce, the physgun's beams and their latch       *)
(* (physgun.ts, systems/manipulation.ts) and the client's copy of it all   *)
(* (client state/clientState.ts).                                          *)
(*                                                                         *)
(* A connection delivers in order and the client applies a message without *)
(* looking at anything else, so a client's copy is written here when the   *)
(* message is sent: it is the copy the client will have once it has caught *)
(* up.  Space is a line; only distances matter.  A tick's systems are      *)
(* steps of their own, which allows more orders than the tick does.        *)
(***************************************************************************)
EXTENDS Integers, FiniteSets

CONSTANTS
  Player,        \* clients; each has one session of the room at a time
  Prop,          \* props; the id of a despawned prop is never used again
  Rope,          \* constraint records, each with its two ends
  Ends,          \* [Rope -> SUBSET Prop]
  Spot,          \* places on the line, an interval of integers
  Radius,        \* the enter radius of interest
  ExitRadius,    \* the exit radius: the enter radius and its hysteresis
  Reach,         \* how far a player's hands, tools and beam reach
  Walkers,       \* the players that walk (bound)
  Movable,       \* the props that are dropped dynamic and move (bound)
  Authored,      \* the props a map save moves or removes (bound)
  Scenes,        \* what happens together: sets of "walk", "rope", "gun",
                 \* "cart", "map", "hop" (bound)
  Nobody, Departed

ASSUME RadiiAssumption == Radius \in Nat /\ ExitRadius \in Nat /\ Radius <= ExitRadius
ASSUME EndsAssumption == Ends \in [Rope -> SUBSET Prop] /\ \A r \in Rope : Ends[r] # {}
ASSUME SpotAssumption == Spot \subseteq Int /\ \E s \in Spot : \A t \in Spot : s <= t
ASSUME NobodyAssumption == Nobody \notin Prop /\ {Nobody, Departed} \cap Player = {}

Motion == {"dynamic", "frozen"}
Pose == [at : Spot, motion : Motion]
Absent == [at |-> CHOOSE s \in Spot : TRUE, motion |-> "absent"]

VARIABLES
  life,      \* [Prop -> {"unborn", "here", "gone"}]: the room's entities
  pose,      \* [Prop -> Pose]: where a prop is and how it moves
  settled,   \* GameWorld.settled: the props physics has put to sleep
  tied,      \* [Rope -> {"unborn", "here", "gone"}]: constraintRecords
  status,    \* [Player -> {"away", "in", "moving"}]
  spot,      \* [Player -> Spot]
  held,      \* [Player -> Prop \cup {Nobody}]: session.held
  grabbing,  \* session.grabbing: the players whose beam is on
  latch,     \* heldEntityIds: one beam per prop
  known,     \* [Player -> SUBSET Prop]: session.known
  mirror,    \* [Player -> [Prop -> Pose or Absent]]: the client's entities
  ropes,     \* [Player -> SUBSET Rope]: the client's constraints
  beams,     \* [Player -> [Prop -> Player, Nobody or Departed]]: heldBy
  returned,  \* history: players put back into this room by a failed transfer
  untold,    \* history: [Player -> SUBSET Prop]: known props changed silently
  scene      \* rigid: the scene of this behaviour
world == <<life, pose, settled, tied>>
hands == <<held, grabbing, latch>>
told == <<known, mirror, ropes, beams, untold>>
viewVars == <<world, status, spot, hands, told, returned, scene>>

Here == {x \in Prop : life[x] = "here"}
Inside == {p \in Player : status[p] = "in"}
Distance(p, x) == IF spot[p] > pose[x].at THEN spot[p] - pose[x].at
                  ELSE pose[x].at - spot[p]
Knowers(x) == {p \in Inside : x \in known[p]}

\* world_seeded: the props of the map stand where it puts them, at rest.
ViewInit ==
  /\ life \in [Prop -> {"unborn", "here"}]
  /\ \A x \in Authored : life[x] = "here"
  /\ \E s \in [Prop -> Spot] :
       /\ \A x \in Prop \ Movable : s[x] = Radius
       /\ pose = [x \in Prop |-> [at |-> s[x], motion |-> IF x \in Movable THEN "dynamic" ELSE "frozen"]]
  /\ settled = {}
  /\ tied = [r \in Rope |-> "unborn"]
  /\ status = [p \in Player |-> "away"]
  /\ spot = [p \in Player |-> CHOOSE s \in Spot : \A t \in Spot : s <= t]
  /\ held = [p \in Player |-> Nobody] /\ grabbing = {} /\ latch = {}
  /\ known = [p \in Player |-> {}]
  /\ mirror = [p \in Player |-> [x \in Prop |-> Absent]]
  /\ ropes = [p \in Player |-> {}]
  /\ beams = [p \in Player |-> [x \in Prop |-> Nobody]]
  /\ returned = {} /\ untold = [p \in Player |-> {}]
  /\ scene \in Scenes

-----------------------------------------------------------------------------
(* What the client does with a message (ClientState.apply). *)

\* 'entity': a change of a prop the client does not have is ignored.
TellPose(x, to, new) ==
  mirror' = [p \in Player |-> IF p \in to /\ mirror[p][x] # Absent
                              THEN [mirror[p] EXCEPT ![x] = new] ELSE mirror[p]]
\* 'entity' with the place alone, or the motion alone.
TellAt(x, to, at) ==
  mirror' = [p \in Player |-> IF p \in to /\ mirror[p][x] # Absent
                              THEN [mirror[p] EXCEPT ![x].at = at] ELSE mirror[p]]
TellMotion(x, to, m) ==
  mirror' = [p \in Player |-> IF p \in to /\ mirror[p][x] # Absent
                              THEN [mirror[p] EXCEPT ![x].motion = m] ELSE mirror[p]]
\* 'despawn': the visuals of a constraint die with either end.
Dropped(p, gone) == {r \in ropes[p] : Ends[r] \cap gone = {}}
\* 'physgun_state', sent to everybody: what this player held before is cleared.
BeamState(q, target) ==
  [p \in Player |-> IF p \notin Inside THEN beams[p] ELSE
     [x \in Prop |-> IF x = target THEN q
                     ELSE IF beams[p][x] = q THEN Nobody ELSE beams[p][x]]]

-----------------------------------------------------------------------------
(* Interest and snapshots, every few ticks, for every session. *)

\* updateInterest: a prop enters inside the radius and stays to the exit radius.
Interest(p) == {x \in Here : Distance(p, x) <= IF x \in known[p] THEN ExitRadius ELSE Radius}
\* replicate's spawn, despawn, constraint states, then the snapshot's awake bodies.
Seen(p) == [x \in Prop |->
  IF x \in Interest(p)
  THEN IF x \notin known[p] THEN pose[x]
       ELSE IF pose[x].motion = "dynamic" /\ x \notin settled /\ mirror[p][x] # Absent
            THEN [mirror[p][x] EXCEPT !.at = pose[x].at] ELSE mirror[p][x]
  ELSE IF x \in known[p] THEN Absent ELSE mirror[p][x]]
Replicate ==
  /\ Inside # {}
  /\ known' = [p \in Player |-> IF p \in Inside THEN Interest(p) ELSE known[p]]
  /\ mirror' = [p \in Player |-> IF p \in Inside THEN Seen(p) ELSE mirror[p]]
  /\ ropes' = [p \in Player |->
       IF p \in Inside
       THEN Dropped(p, known[p] \ Interest(p)) \cup
            {r \in Rope : tied[r] = "here" /\ Ends[r] \cap (Interest(p) \ known[p]) # {}}
       ELSE ropes[p]]
  /\ untold' = [p \in Player |-> untold[p] \cap Interest(p) \cap known[p]]
  /\ UNCHANGED <<world, status, spot, hands, beams, returned, scene>>

-----------------------------------------------------------------------------
(* Props in the world. *)

Walk(p) ==
  /\ "walk" \in scene /\ p \in Inside \cap Walkers
  /\ \E s \in Spot : s - spot[p] \in {-1, 1} /\ spot' = [spot EXCEPT ![p] = s]
  /\ UNCHANGED <<world, status, hands, told, returned, scene>>

\* syncFromPhysics: an awake body moves (and wakes if it slept); nobody is told.
Moves(x) ==
  /\ x \in Here \cap Movable /\ pose[x].motion = "dynamic"
  /\ \E s \in Spot : s - pose[x].at \in {-1, 1} /\ pose' = [pose EXCEPT ![x].at = s]
  /\ settled' = settled \ {x}
  /\ UNCHANGED <<life, tied, status, spot, hands, told, returned, scene>>

\* Variant: the last snapshot is taken for good enough.
SettlesSilently(x) ==
  /\ x \in Here \ settled /\ pose[x].motion = "dynamic"
  /\ settled' = settled \cup {x}
  /\ UNCHANGED <<life, pose, tied, status, spot, hands, told, returned, scene>>

\* syncFromPhysics, onSettle: the final pose is pinned.
Settles(x) ==
  /\ x \in Here \ settled /\ pose[x].motion = "dynamic"
  /\ settled' = settled \cup {x}
  /\ TellAt(x, Knowers(x), pose[x].at)
  /\ UNCHANGED <<life, pose, tied, status, spot, hands, known, ropes, beams, returned, untold, scene>>

\* Variant: the session is not told what its client was sent.
SpawnUnnoted(p, x) ==
  /\ p \in Inside /\ life[x] = "unborn"
  /\ Distance(p, x) <= Reach
  /\ life' = [life EXCEPT ![x] = "here"]
  /\ mirror' = [q \in Player |-> IF q \in Inside /\ Distance(q, x) <= Radius
                                 THEN [mirror[q] EXCEPT ![x] = pose[x]] ELSE mirror[q]]
  /\ UNCHANGED <<pose, settled, tied, status, spot, hands, known, ropes, beams, returned, untold, scene>>

\* broadcastSpawn: dropped, scattered or placed; sessions inside the radius know it at once.
Spawn(p, x) ==
  /\ p \in Inside /\ life[x] = "unborn"
  /\ Distance(p, x) <= Reach
  /\ life' = [life EXCEPT ![x] = "here"]
  /\ LET near == {q \in Inside : Distance(q, x) <= Radius} IN
     /\ known' = [q \in Player |-> IF q \in near THEN known[q] \cup {x} ELSE known[q]]
     /\ mirror' = [q \in Player |-> IF q \in near THEN [mirror[q] EXCEPT ![x] = pose[x]]
                                    ELSE mirror[q]]
  /\ UNCHANGED <<pose, settled, tied, status, spot, hands, ropes, beams, returned, untold, scene>>

\* GameWorld.despawn: the prop's constraints go with it, and wake what they held.
Despawned(x) ==
  LET loose == {r \in Rope : tied[r] = "here" /\ x \in Ends[r]} IN
  /\ life' = [life EXCEPT ![x] = "gone"]
  /\ tied' = [r \in Rope |-> IF r \in loose THEN "gone" ELSE tied[r]]
  /\ settled' = settled \ (UNION {Ends[r] : r \in loose} \cup {x})
  /\ UNCHANGED pose

\* broadcastDespawn: whoever knows it forgets it and is told.
Forgotten(x) ==
  /\ known' = [p \in Player |-> IF p \in Inside THEN known[p] \ {x} ELSE known[p]]
  /\ mirror' = [p \in Player |-> IF p \in Knowers(x) THEN [mirror[p] EXCEPT ![x] = Absent]
                                 ELSE mirror[p]]
  /\ ropes' = [p \in Player |-> IF p \in Knowers(x) THEN Dropped(p, {x}) ELSE ropes[p]]
  /\ untold' = [p \in Player |-> untold[p] \ {x}]

\* gather: the picker lets go of it; another's beam on it is not touched.
PickUp(p, x) ==
  /\ p \in Inside /\ x \in Here /\ Distance(p, x) <= Reach
  /\ Despawned(x) /\ Forgotten(x)
  /\ IF held[p] = x
     THEN /\ held' = [held EXCEPT ![p] = Nobody] /\ latch' = latch \ {x}
          /\ beams' = BeamState(p, Nobody)
     ELSE UNCHANGED <<held, latch, beams>>
  /\ UNCHANGED <<status, spot, grabbing, returned, scene>>

\* destroyProp: nobody's beam is touched.
Destroy(x) ==
  /\ x \in Here /\ Inside # {}
  /\ Despawned(x) /\ Forgotten(x)
  /\ UNCHANGED <<status, spot, hands, beams, returned, scene>>

\* reconcileMapProps: a removed prop is despawned, the next interest diff tells of it ...
MapRemoves(x) ==
  /\ "map" \in scene /\ x \in Here \cap Authored
  /\ Despawned(x)
  /\ UNCHANGED <<status, spot, hands, told, returned, scene>>

\* ... and a moved one is placed anew without a word.
MapMoves(x) ==
  /\ "map" \in scene /\ x \in Here \cap Authored
  /\ \E s \in Spot \ {pose[x].at} : pose' = [pose EXCEPT ![x].at = s]
  /\ untold' = [p \in Player |-> untold[p] \cup ({x} \cap known[p])]
  /\ UNCHANGED <<life, settled, tied, status, spot, hands, known, mirror, ropes, beams, returned, scene>>

-----------------------------------------------------------------------------
(* Ropes: the rigging tool. *)

\* addConstraintRecord and broadcastConstraintState(rec, true).
Tie(p, r) ==
  /\ "rope" \in scene /\ p \in Inside /\ tied[r] = "unborn" /\ Ends[r] \subseteq Here
  /\ \A x \in Ends[r] : Distance(p, x) <= Reach
  /\ tied' = [tied EXCEPT ![r] = "here"]
  /\ settled' = settled \ Ends[r]
  /\ ropes' = [q \in Player |-> IF q \in Inside /\ known[q] \cap Ends[r] # {}
                                THEN ropes[q] \cup {r} ELSE ropes[q]]
  /\ UNCHANGED <<life, pose, status, spot, hands, known, mirror, beams, returned, untold, scene>>

\* constraint_remove: every rope of the target, told to whoever knows either end.
Cut(p, x) ==
  LET loose == {r \in Rope : tied[r] = "here" /\ x \in Ends[r]} IN
  /\ p \in Inside /\ x \in Here /\ Distance(p, x) <= Reach
  /\ loose # {}
  /\ tied' = [r \in Rope |-> IF r \in loose THEN "gone" ELSE tied[r]]
  /\ settled' = settled \ UNION {Ends[r] : r \in loose}
  /\ ropes' = [q \in Player |->
       ropes[q] \ {r \in loose : q \in Inside /\ known[q] \cap Ends[r] # {}}]
  /\ UNCHANGED <<life, pose, status, spot, hands, known, mirror, beams, returned, untold, scene>>

-----------------------------------------------------------------------------
(* The physgun. *)

\* physgun 'grab': the beam is on, and is tried again every tick.
BeamOn(p) ==
  /\ "gun" \in scene /\ p \in Inside \ grabbing /\ held[p] = Nobody
  /\ grabbing' = grabbing \cup {p}
  /\ UNCHANGED <<world, status, spot, held, latch, told, returned, scene>>

\* attemptGrab: a frozen prop comes loose, and everybody sees the beam.
Grab(p, x) ==
  /\ p \in Inside \cap grabbing /\ held[p] = Nobody
  /\ x \in Here \ latch /\ Distance(p, x) <= Reach
  /\ held' = [held EXCEPT ![p] = x] /\ latch' = latch \cup {x}
  /\ pose' = [pose EXCEPT ![x].motion = "dynamic"]
  /\ settled' = IF pose[x].motion = "frozen" THEN settled \ {x} ELSE settled
  /\ TellMotion(x, Knowers(x), "dynamic")
  /\ beams' = BeamState(p, x)
  /\ UNCHANGED <<life, tied, status, spot, grabbing, known, ropes, returned, untold, scene>>

\* releaseHeld.
LetGo(p) ==
  /\ held' = [held EXCEPT ![p] = Nobody] /\ latch' = latch \ {held[p]}
  /\ beams' = IF held[p] = Nobody THEN beams ELSE BeamState(p, Nobody)

\* physgun 'release'.
BeamOff(p) ==
  /\ p \in Inside /\ (p \in grabbing \/ held[p] # Nobody)
  /\ grabbing' = grabbing \ {p}
  /\ LetGo(p)
  /\ UNCHANGED <<world, status, spot, known, mirror, ropes, returned, untold, scene>>

\* physgun 'freeze': a prop that is gone is let go of without releasing its latch.
Freeze(p) ==
  LET x == held[p] IN
  /\ p \in Inside /\ x # Nobody
  /\ grabbing' = grabbing \ {p}
  /\ IF x \in Here
     THEN /\ pose' = [pose EXCEPT ![x].motion = "frozen"]
          /\ LetGo(p)
          /\ TellPose(x, Knowers(x), [pose[x] EXCEPT !.motion = "frozen"])
          /\ untold' = [q \in Player |-> untold[q] \ {x}]
     ELSE /\ held' = [held EXCEPT ![p] = Nobody]
          /\ UNCHANGED <<pose, latch, beams, mirror, untold>>
  /\ UNCHANGED <<life, settled, tied, status, spot, known, ropes, returned, scene>>

\* physgun 'unfreeze'.
Unfreeze(p, x) ==
  /\ "gun" \in scene /\ p \in Inside /\ x \in Here /\ pose[x].motion = "frozen" /\ Distance(p, x) <= Reach
  /\ pose' = [pose EXCEPT ![x].motion = "dynamic"]
  /\ settled' = settled \ {x}
  /\ TellMotion(x, Knowers(x), "dynamic")
  /\ UNCHANGED <<life, tied, status, spot, hands, known, ropes, beams, returned, untold, scene>>

\* driveHeld: the prop is gone; the beam ends, its latch and its picture stay.
BeamBreaks(p) ==
  /\ p \in Inside /\ held[p] # Nobody /\ held[p] \notin Here
  /\ held' = [held EXCEPT ![p] = Nobody]
  /\ UNCHANGED <<world, status, spot, grabbing, latch, told, returned, scene>>

\* useVehicle: a frozen chassis is woken, and no client is told its motion.
Mount(p, x) ==
  /\ "cart" \in scene /\ p \in Inside /\ x \in Here /\ Distance(p, x) <= Reach
  /\ pose' = [pose EXCEPT ![x].motion = "dynamic"]
  /\ IF pose[x].motion = "dynamic" THEN UNCHANGED <<settled, untold>>
     ELSE /\ settled' = settled \ {x}
          /\ untold' = [q \in Player |-> untold[q] \cup ({x} \cap known[q])]
  /\ LetGo(p)
  /\ UNCHANGED <<life, tied, status, spot, grabbing, known, mirror, ropes, returned, scene>>

-----------------------------------------------------------------------------
(* Coming and going. *)

\* Variant: the latch stays.
EndSessionKeepsLatch(p) ==
  /\ held' = [held EXCEPT ![p] = Nobody] /\ grabbing' = grabbing \ {p}
  /\ UNCHANGED latch
  /\ known' = [known EXCEPT ![p] = {}] /\ untold' = [untold EXCEPT ![p] = {}]

\* The session ends: its latch goes, nobody is told of its beam.
EndSession(p) ==
  /\ held' = [held EXCEPT ![p] = Nobody] /\ grabbing' = grabbing \ {p}
  /\ latch' = latch \ {held[p]}
  /\ known' = [known EXCEPT ![p] = {}] /\ untold' = [untold EXCEPT ![p] = {}]

\* Its entity id is never used again: what the others show is a beam of nobody here.
Orphaned(p) ==
  [q \in Player |-> [x \in Prop |-> IF beams[q][x] = p THEN Departed ELSE beams[q][x]]]

\* A client without the room's things: a new page, or a welcome of another room.
Cleared(p) ==
  /\ mirror' = [mirror EXCEPT ![p] = [x \in Prop |-> Absent]]
  /\ ropes' = [ropes EXCEPT ![p] = {}]

\* onDisconnect.
Leave(p) ==
  /\ p \in Inside
  /\ status' = [status EXCEPT ![p] = "away"]
  /\ EndSession(p) /\ Cleared(p)
  /\ beams' = [Orphaned(p) EXCEPT ![p] = [x \in Prop |-> Nobody]]
  /\ returned' = returned \ {p}
  /\ UNCHANGED <<world, spot, scene>>

\* resolveHello, after a page load or from another room.
Join(p) ==
  /\ status[p] = "away"
  /\ status' = [status EXCEPT ![p] = "in"]
  /\ UNCHANGED <<world, spot, hands, told, returned, scene>>

\* InstanceHub.transfer: the source's session ends, the client keeps what it shows.
Depart(p) ==
  /\ "hop" \in scene /\ p \in Inside
  /\ status' = [status EXCEPT ![p] = "moving"]
  /\ EndSession(p)
  /\ beams' = Orphaned(p)
  /\ UNCHANGED <<world, spot, mirror, ropes, returned, scene>>

\* The target welcomes it: another instance id clears the client.
Arrive(p) ==
  /\ status[p] = "moving"
  /\ status' = [status EXCEPT ![p] = "away"]
  /\ Cleared(p)
  /\ beams' = [beams EXCEPT ![p] = [x \in Prop |-> Nobody]]
  /\ returned' = returned \ {p}
  /\ UNCHANGED <<world, spot, hands, known, untold, scene>>

\* The target fails: a new session here, welcomed with the same instance id.
Return(p) ==
  /\ status[p] = "moving"
  /\ status' = [status EXCEPT ![p] = "in"]
  /\ returned' = returned \cup {p}
  /\ UNCHANGED <<world, spot, hands, told, scene>>

ViewNext ==
  \/ Replicate
  \/ \E p \in Player : \/ Walk(p) \/ BeamOn(p) \/ BeamOff(p) \/ Freeze(p) \/ BeamBreaks(p)
                       \/ Leave(p) \/ Join(p) \/ Depart(p) \/ Arrive(p) \/ Return(p)
                       \/ \E x \in Prop : \/ Spawn(p, x) \/ PickUp(p, x) \/ Cut(p, x)
                                          \/ Grab(p, x) \/ Unfreeze(p, x) \/ Mount(p, x)
                       \/ \E r \in Rope : Tie(p, r)
  \/ \E x \in Prop : Moves(x) \/ Settles(x) \/ Destroy(x) \/ MapRemoves(x) \/ MapMoves(x)

ViewSpec == ViewInit /\ [][ViewNext]_viewVars

-----------------------------------------------------------------------------
(* Properties. *)

Shown(p) == {x \in Prop : mirror[p][x] # Absent}

ViewTypeOK ==
  /\ life \in [Prop -> {"unborn", "here", "gone"}]
  /\ pose \in [Prop -> Pose] /\ settled \subseteq Prop
  /\ tied \in [Rope -> {"unborn", "here", "gone"}]
  /\ status \in [Player -> {"away", "in", "moving"}] /\ spot \in [Player -> Spot]
  /\ held \in [Player -> Prop \cup {Nobody}]
  /\ grabbing \subseteq Player /\ latch \subseteq Prop
  /\ known \in [Player -> SUBSET Prop] /\ untold \in [Player -> SUBSET Prop]
  /\ mirror \in [Player -> [Prop -> Pose \cup {Absent}]]
  /\ ropes \in [Player -> SUBSET Rope]
  /\ beams \in [Player -> [Prop -> Player \cup {Nobody, Departed}]]
  /\ returned \subseteq Player

\* A client shows exactly the props its session thinks it knows: none twice,
\* none lost between a spawn's broadcast and the interest diff.
MirrorIsKnown ==
  \A p \in Inside : /\ known[p] \subseteq Shown(p)
                    /\ p \notin returned => Shown(p) \subseteq known[p]

\* A prop at rest stands where every client that knows it shows it, and is
\* frozen for all or for none: prediction collides with what it shows.
RestingPropsAgree ==
  \A p \in Inside : \A x \in (known[p] \cap Here) \ untold[p] :
    /\ mirror[p][x].motion = pose[x].motion
    /\ x \in settled \/ pose[x].motion = "frozen" => mirror[p][x].at = pose[x].at

\* Between two props a client knows it shows the ropes there are, in whatever
\* order the ends came into its interest and the ropes were tied and cut.
RopesAgree ==
  \A p \in Inside \ returned : \A r \in Rope :
    Ends[r] \subseteq known[p] \cap Here => (r \in ropes[p] <=> tied[r] = "here")

\* A prop that is there is latched while exactly one player holds it: a latch
\* left behind by a leave, a freeze or a broken beam could never be grabbed again.
LatchIsABeam ==
  \A x \in Here : /\ x \in latch <=> \E p \in Inside : held[p] = x
                 /\ \A p, q \in Player : held[p] = x /\ held[q] = x => p = q

\* A beam a client shows from a player that is here to a prop that is here is real.
NoFalseBeam ==
  \A p \in Inside \ returned : \A x \in Here :
    beams[p][x] \in Player => held[beams[p][x]] = x

\* Whatever removed it, told or untold, no prop that is gone outlives a
\* snapshot on a client's screen.
SnapshotsEndGhosts ==
  [][Replicate => \A p \in Inside \ returned : Shown(p)' \subseteq Here]_viewVars
=============================================================================
