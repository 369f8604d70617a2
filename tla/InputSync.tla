----------------------------- MODULE InputSync -----------------------------
(***************************************************************************)
(* A player's movement, predicted by the client and decided by the server: *)
(* the client applies each input as it sends it and keeps the ones the     *)
(* server has not acknowledged (client game/localPlayer.ts); the server    *)
(* queues them, simulates as many as its credit allows each tick and       *)
(* acknowledges in its snapshots (systems/movement.ts, replication.ts).    *)
(* A transfer gives the player a new session, in another room or, when it  *)
(* fails, in the same one (instanceHub.ts), while inputs are on their way. *)
(*                                                                         *)
(* stepMovement is deterministic and the same code on both sides, so a     *)
(* position is the sequence of inputs that led to it in a session; driving *)
(* a vehicle, which suspends prediction, is left out.                      *)
(***************************************************************************)
EXTENDS Integers, Sequences, SequencesExt, FiniteSets

CONSTANTS
  MaxQueue,     \* MAX_INPUT_QUEUE, a second of play; credit is capped alike
  CatchUp,      \* CATCH_UP_PER_TICK
  StallTicks,   \* STALL_TICKS
  Window,       \* inputs the client keeps for replay (90)
  MaxInputs,    \* inputs the client sends (bound)
  MaxLives,     \* sessions the player has (bound)
  MaxTransit    \* snapshots under way (bound)

ASSUME BoundsAssumption ==
  /\ {MaxQueue, CatchUp, StallTicks, Window, MaxLives, MaxTransit} \subseteq Nat \ {0}
  /\ MaxInputs \in Nat

Coast == <<0, 0>>                \* a step without movement, not the client's
Lower(a, b) == IF a <= b THEN a ELSE b

VARIABLES
  \* the client
  sent,        \* inputs it has sent in all
  epoch, seq,  \* how often it has started anew; the last input's number
  pending,     \* its inputs of this epoch the server has not acknowledged
  shown,       \* [life, done]: where it shows its player
  room,        \* the instance id it was last welcomed with
  \* the connection, in order both ways
  up, down,
  \* the server
  moving,      \* "no", "leaving", "between", "entered": the transfer
  session,     \* the player's session, counted
  place,       \* the room it is in
  queue, credit, starved, last, done,
  \* history
  ticks,       \* ticks of this session, up to MaxInputs
  upset        \* what made the server differ from the prediction
client == <<sent, epoch, seq, pending, shown, room>>
server == <<moving, session, place, queue, credit, starved, last, done>>
inputVars == <<client, up, down, server, ticks, upset>>

Fresh(l) == [life |-> l, done |-> <<>>]

\* A player that has just been welcomed.
InputInit ==
  /\ sent = 0 /\ epoch = 1 /\ seq = 0 /\ pending = <<>> /\ shown = Fresh(1) /\ room = 1
  /\ up = <<>> /\ down = <<>>
  /\ moving = "no" /\ session = 1 /\ place = 1
  /\ queue = <<>> /\ credit = 0 /\ starved = 0 /\ last = 0 /\ done = <<>>
  /\ ticks = 0 /\ upset = {}

-----------------------------------------------------------------------------
(* The client. *)

\* LocalPlayer.fixedUpdate: number, send, keep and predict one input.
FixedUpdate ==
  LET cmd == <<epoch, seq + 1>> IN
  /\ sent < MaxInputs
  /\ sent' = sent + 1 /\ seq' = seq + 1
  /\ up' = Append(up, cmd)
  /\ pending' = IF Len(pending) = Window THEN Append(Tail(pending), cmd) ELSE Append(pending, cmd)
  /\ upset' = IF Len(pending) = Window THEN upset \cup {"trimmed"} ELSE upset
  /\ shown' = [shown EXCEPT !.done = Append(@, cmd)]
  /\ UNCHANGED <<epoch, room, down, server, ticks>>

\* Variant: the acknowledged input is replayed too.
UnacknowledgedAndLast(ack) ==
  SubSeq(pending, Cardinality({i \in DOMAIN pending : pending[i][2] < ack}) + 1, Len(pending))

\* Inputs the snapshot does not acknowledge: the numbers alone are compared.
\* They are pending in the order of their numbers, so the filter drops the first ones.
Unacknowledged(ack) ==
  SubSeq(pending, Cardinality({i \in DOMAIN pending : pending[i][2] <= ack}) + 1, Len(pending))

\* Variant: with nothing to replay the client keeps what it shows.
OnSnapshotReplaysOnly ==
  /\ down # <<>> /\ Head(down).t = "snap"
  /\ pending' = Unacknowledged(Head(down).ack)
  /\ shown' = IF pending' = <<>> THEN shown
              ELSE [life |-> Head(down).life, done |-> Head(down).done \o pending']
  /\ down' = Tail(down)
  /\ UNCHANGED <<sent, epoch, seq, room, up, server, ticks, upset>>

\* LocalPlayer.onSnapshot: rewind to the server's state and replay the rest.
OnSnapshot ==
  /\ down # <<>> /\ Head(down).t = "snap"
  /\ pending' = Unacknowledged(Head(down).ack)
  /\ shown' = [life |-> Head(down).life, done |-> Head(down).done \o pending']
  /\ down' = Tail(down)
  /\ UNCHANGED <<sent, epoch, seq, room, up, server, ticks, upset>>

\* welcome: another instance id starts the prediction anew (LocalPlayer.onTransfer).
OnWelcome ==
  /\ down # <<>> /\ Head(down).t = "welcome"
  /\ room' = Head(down).room
  /\ IF Head(down).room # room
     THEN epoch' = epoch + 1 /\ seq' = 0 /\ pending' = <<>>
     ELSE UNCHANGED <<epoch, seq, pending>>
  /\ down' = Tail(down)
  /\ UNCHANGED <<sent, shown, up, server, ticks, upset>>

-----------------------------------------------------------------------------
(* The server. *)

\* queueInput: at the cap the oldest goes.
Queued(q, cmd) == Append(IF Len(q) >= MaxQueue THEN Tail(q) ELSE q, cmd)

\* InstanceHub.onMessage: a connection that is being transferred is not listened to.
Receive ==
  /\ up # <<>> /\ up' = Tail(up)
  /\ IF moving # "no" THEN UNCHANGED <<queue, upset>>
     ELSE /\ queue' = Queued(queue, Head(up))
          /\ upset' = IF Len(queue) >= MaxQueue THEN upset \cup {"shed"} ELSE upset
  /\ UNCHANGED <<client, down, moving, session, place, credit, starved, last, done, ticks>>

\* takeInputs: one credit a tick, one spent per input, a few inputs at most.
Earned == Lower(MaxQueue, credit + 1)
Taken == Lower(Len(queue), Lower(CatchUp, Earned))

\* stepSession: simulate them, or hold still, or, when the client is long quiet, coast.
Step ==
  /\ queue' = SubSeq(queue, Taken + 1, Len(queue))
  /\ credit' = Earned - Taken
  /\ IF Taken > 0
     THEN /\ done' = done \o SubSeq(queue, 1, Taken)
          /\ last' = queue[Taken][2] /\ starved' = 0
          /\ UNCHANGED upset
     ELSE /\ starved' = IF last = 0 THEN starved ELSE Lower(StallTicks + 1, starved + 1)
          /\ UNCHANGED last
          \* at rest another coast changes nothing
          /\ IF starved' > StallTicks /\ done # <<>> /\ Last(done) # Coast
             THEN done' = Append(done, Coast) /\ upset' = upset \cup {"coasted"}
             ELSE UNCHANGED <<done, upset>>
Tick ==
  /\ moving # "between"
  /\ Step
  /\ ticks' = Lower(MaxInputs, ticks + 1)
  /\ UNCHANGED <<client, up, down, moving, session, place>>

\* replicate, buildSnapshot.
Snapshot ==
  /\ moving # "between" /\ Len(down) < MaxTransit
  /\ down' = Append(down, [t |-> "snap", ack |-> last, life |-> session, done |-> done])
  /\ UNCHANGED <<client, up, server, ticks, upset>>

\* transfer: inputs are not taken from here on.
TransferBegins ==
  /\ moving = "no" /\ session < MaxLives
  /\ moving' = "leaving"
  /\ UNCHANGED <<client, up, down, session, place, queue, credit, starved, last, done, ticks, upset>>

\* source.game.onDisconnect.
LeaveRoom ==
  /\ moving = "leaving" /\ moving' = "between"
  /\ UNCHANGED <<client, up, down, session, place, queue, credit, starved, last, done, ticks, upset>>

\* target.game.join, or source.game.join when that fails: a session that knows nothing.
EnterRoom ==
  /\ moving = "between" /\ moving' = "entered"
  /\ session' = session + 1
  /\ \E p \in {place, place + 1} :
       place' = p /\ down' = Append(down, [t |-> "welcome", room |-> p])
  /\ queue' = <<>> /\ credit' = 0 /\ starved' = 0 /\ last' = 0 /\ done' = <<>>
  /\ ticks' = 0
  /\ UNCHANGED <<client, up, upset>>

\* transfer's end.
TransferEnds ==
  /\ moving = "entered" /\ moving' = "no"
  /\ UNCHANGED <<client, up, down, session, place, queue, credit, starved, last, done, ticks, upset>>

InputNext == \/ FixedUpdate \/ OnSnapshot \/ OnWelcome \/ Receive \/ Tick \/ Snapshot
        \/ TransferBegins \/ LeaveRoom \/ EnterRoom \/ TransferEnds

InputSpec == InputInit /\ [][InputNext]_inputVars

-----------------------------------------------------------------------------
(* Properties. *)

InputTypeOK ==
  /\ sent \in 0..MaxInputs /\ seq \in 0..MaxInputs /\ epoch \in 1..MaxLives
  /\ Len(pending) <= Window /\ Len(queue) <= MaxQueue
  /\ credit \in 0..MaxQueue /\ starved \in 0..StallTicks + 1
  /\ last \in 0..MaxInputs /\ session \in 1..MaxLives /\ place \in 1..MaxLives
  /\ moving \in {"no", "leaving", "between", "entered"}
  /\ upset \subseteq {"trimmed", "shed", "coasted"}

\* "With no mispredictions the replay lands where we already are": unless the
\* server shed or added a step or the client lost one, a client that has not
\* moved rooms shows all its inputs once, in order, whatever is under way.
NoMisprediction ==
  session = 1 /\ upset = {} => shown = [life |-> 1, done |-> [i \in 1..seq |-> <<1, i>>]]

\* Speed is honest: a session never simulates more inputs than it has ticked,
\* however many the client sends at once.
HonestSpeed == Len(SelectSeq(done, LAMBDA c : c # Coast)) <= ticks

\* The server has simulated the newest input of a client that is where it is.
Answered == moving = "no" /\ up = <<>> /\ queue = <<>> /\ last = seq /\ room = place
            /\ \A i \in DOMAIN down : down[i].t # "welcome"

\* Whatever was shed, coasted, trimmed or left behind in another room, a
\* client whose newest input was simulated comes to show what the server has.
AgreesOnceAnswered ==
  Answered ~> (shown = [life |-> session, done |-> done] \/ ~Answered)
=============================================================================
