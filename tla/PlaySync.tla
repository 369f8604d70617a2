-------------------------------- MODULE PlaySync --------------------------------
(* Rounds and unlocks on their way to OpenVibe.Play: GameProgressWriter     *)
(* commits what the rooms submitted, a guest's rows become a person's, and  *)
(* PlaySync posts each table's rows past its position, adoptions last.      *)
EXTENDS Naturals, Sequences, FiniteSets, Functions

CONSTANTS
  Guest, Person,  \* account keys, numbers in the order of their text (gst_ < usr_)
  Players,        \* bound: the rounds there can be, and who plays each
  MaxClock,       \* bound: the clock's last value
  Milestones,     \* bound: the accounts that reach a milestone
  Batch,          \* rows one read takes (BATCH)
  MaxRestarts     \* bound: crashes of the process

ASSUME PlaySyncAssumption ==
  /\ Guest \subseteq Nat /\ Person \subseteq Nat /\ \A g \in Guest, p \in Person : g < p
  /\ Milestones \subseteq Guest \cup Person
  /\ \A id \in DOMAIN Players : id \in Nat /\ Players[id] \subseteq Guest \cup Person
  /\ MaxClock \in Nat /\ Batch \in Nat \ {0} /\ MaxRestarts \in Nat

VARIABLES
  clock, rounds,  \* Date.now(), and the ids of the rounds played
  pending,        \* the writer's maps, in their order: what is not committed yet
  flushing,       \* the loop a flush is in: "no", "rounds" or "unlocks"
  rows,           \* game_round_results and game_achievements
  adoptions,      \* identity_adoptions
  position,       \* play_sync: the last row posted, by stream
  pass,           \* the pass under way: the stream, its rows read, and whether the first is accepted
  play,           \* what Play holds (external)
  late,           \* rows committed, or adopted, behind what PlaySync had read (history)
  restarts

playVars == <<clock, rounds, pending, flushing, rows, adoptions, position, pass, play, late, restarts>>

Account == Guest \cup Person
Stream == {"rounds", "unlocks", "adoptions"}

\* The two achievements: one a round earns, one a milestone does.
Winner == 1
Milestone == 2

\* A row's cursor in its stream: its time, then its key.
CursorOf(r) == <<r.at, r.ref, r.player>>
Before(x, y) ==
  \/ x[1] < y[1]
  \/ x[1] = y[1] /\ x[2] < y[2]
  \/ x[1] = y[1] /\ x[2] = y[2] /\ x[3] < y[3]
Start == <<0, 0, 0>>

Row(ref, player, at) == [ref |-> ref, player |-> player, at |-> at]

---------------------------------------------------------------------------
(* GameProgressWriter *)

Tick ==
  /\ clock < MaxClock /\ clock' = clock + 1
  /\ UNCHANGED <<rounds, pending, flushing, rows, adoptions, position, pass, play, late, restarts>>

\* The loop that has something to write: the rounds' comes first. A submission starts a flush
\* unless one is under way.
FirstLoop(queue) == IF queue.rounds # <<>> THEN "rounds" ELSE IF queue.unlocks # <<>> THEN "unlocks" ELSE "no"
Flush(queue) == IF flushing # "no" THEN flushing ELSE FirstLoop(queue)

\* submit: a round ended. Its id says nothing about its time.
SubmitRound(id) ==
  /\ id \notin rounds /\ rounds' = rounds \cup {id}
  /\ pending' = [pending EXCEPT !.rounds = Append(@, [ref |-> id, players |-> Players[id], at |-> clock])]
  /\ flushing' = Flush(pending')
  /\ UNCHANGED <<clock, rows, adoptions, position, pass, play, late, restarts>>

\* submitMilestone: once an entry waits, the same unlock adds nothing.
SubmitMilestone(player) ==
  /\ \A i \in DOMAIN pending.unlocks : pending.unlocks[i].player # player
  /\ \A r \in rows["unlocks"] : r.player = player => r.ref # Milestone
  /\ pending' = [pending EXCEPT !.unlocks = Append(@, Row(Milestone, player, clock))]
  /\ flushing' = Flush(pending')
  /\ UNCHANGED <<clock, rounds, rows, adoptions, position, pass, play, late, restarts>>

\* INSERT ... ON CONFLICT DO NOTHING.
Insert(table, new) ==
  table \cup {n \in new : \A r \in table : r.ref # n.ref \/ r.player # n.player}

\* How far PlaySync has read a stream: its position, or the last row of the batch in hand.
ReadUpTo(stream) == IF pass.stream = stream /\ pass.read THEN CursorOf(pass.batch[Len(pass.batch)]) ELSE position[stream]

\* The new rows of a table that are not past it.
Behind(table, stream) ==
  {<<stream, r.ref, r.player>> : r \in {n \in table \ rows[stream] : ~Before(ReadUpTo(stream), CursorOf(n))}}

Store(newRounds, newUnlocks) ==
  LET R == Insert(rows["rounds"], newRounds)
      U == Insert(rows["unlocks"], newUnlocks)
  IN /\ rows' = [rows EXCEPT !["rounds"] = R, !["unlocks"] = U]
     /\ late' = late \cup Behind(R, "rounds") \cup Behind(U, "unlocks")

\* A loop goes on while its map holds anything (also what came in meanwhile), then the flush
\* goes to the next one, until nothing waits.
NextLoop(queue) == IF flushing = "unlocks" /\ queue.unlocks # <<>> THEN "unlocks" ELSE FirstLoop(queue)

\* recordRound: the results and what they earn, in one transaction.
CommitRound ==
  LET e == Head(pending.rounds) IN
  /\ flushing = "rounds" /\ pending.rounds # <<>>
  /\ Store({Row(e.ref, p, e.at) : p \in e.players}, {Row(Winner, p, e.at) : p \in e.players})
  /\ pending' = [pending EXCEPT !.rounds = Tail(@)] /\ flushing' = NextLoop(pending')
  /\ UNCHANGED <<clock, rounds, adoptions, position, pass, play, restarts>>

\* recordUnlocks.
CommitUnlock ==
  /\ flushing = "unlocks" /\ pending.unlocks # <<>>
  /\ Store({}, {Head(pending.unlocks)})
  /\ pending' = [pending EXCEPT !.unlocks = Tail(@)] /\ flushing' = NextLoop(pending')
  /\ UNCHANGED <<clock, rounds, adoptions, position, pass, play, restarts>>

\* A write that fails ends the flush; its entry waits for the next one.
FlushFails ==
  /\ flushing # "no" /\ flushing' = "no"
  /\ UNCHANGED <<clock, rounds, pending, rows, adoptions, position, pass, play, late, restarts>>

FlushTimer ==
  /\ flushing = "no" /\ FirstLoop(pending) # "no"
  /\ flushing' = FirstLoop(pending)
  /\ UNCHANGED <<clock, rounds, pending, rows, adoptions, position, pass, play, late, restarts>>

---------------------------------------------------------------------------
(* adoptGuestCharacter: once per guest, the rows become the person's *)

Adopted == {a.player : a \in adoptions}

\* The rounds the person has stay; an unlock both have keeps the earlier time.
MoveRounds(g, p) ==
  LET own == {r \in rows["rounds"] : r.player # g}
  IN Insert(own, {[r EXCEPT !.player = p] : r \in rows["rounds"] \ own})

MoveUnlocks(g, p) ==
  LET mine == {r \in rows["unlocks"] : r.player \in {g, p}}
      Times(ref) == {r.at : r \in {m \in mine : m.ref = ref}}
  IN (rows["unlocks"] \ mine)
       \cup {Row(ref, p, CHOOSE t \in Times(ref) : \A u \in Times(ref) : t <= u) : ref \in {r.ref : r \in mine}}

\* The guest's rows whose new owner Play is never told of: the adoption is not past what
\* PlaySync has read of the adoptions (one of the same moment is, and of a later key).
Untold(adoption) ==
  IF Before(ReadUpTo("adoptions"), CursorOf(adoption)) THEN {}
  ELSE UNION {{<<s, r.ref, adoption.into>> : r \in {x \in rows[s] : x.player = adoption.player}} : s \in DOMAIN rows}

Adopt(g, p) ==
  LET adoption == [player |-> g, into |-> p, ref |-> 0, at |-> clock] IN
  /\ g \notin Adopted
  /\ rows' = [rows EXCEPT !["rounds"] = MoveRounds(g, p), !["unlocks"] = MoveUnlocks(g, p)]
  /\ late' = late \cup {<<l[1], l[2], p>> : l \in {m \in late : m[3] = g}} \cup Untold(adoption)
  /\ adoptions' = adoptions \cup {adoption}
  /\ UNCHANGED <<clock, rounds, pending, flushing, position, pass, play, restarts>>

---------------------------------------------------------------------------
(* PlaySync *)

At(stream) == [stream |-> stream, batch |-> <<>>, read |-> FALSE, accepted |-> FALSE]
Rest == At("none")

Following == [rounds |-> At("unlocks"), unlocks |-> At("adoptions"), adoptions |-> Rest]

Table(stream) == IF stream = "adoptions" THEN adoptions ELSE rows[stream]
Ahead(stream) == {r \in Table(stream) : Before(position[stream], CursorOf(r))}

StartPass ==
  /\ pass = Rest
  /\ pass' = At("rounds")
  /\ UNCHANGED <<clock, rounds, pending, flushing, rows, adoptions, position, play, late, restarts>>

\* SELECT ... ORDER BY the time and the key LIMIT BATCH: the first of the rows ahead, in order.
Selected(stream) ==
  {batch \in UNION {[1..n -> Ahead(stream)] : n \in 1..Batch} :
     /\ \A i, j \in DOMAIN batch : i < j => Before(CursorOf(batch[i]), CursorOf(batch[j]))
     /\ Range(batch) = Ahead(stream) \/ Len(batch) = Batch
     /\ \A r \in Ahead(stream) \ Range(batch) : Before(CursorOf(batch[Len(batch)]), CursorOf(r))}

ReadBatch ==
  /\ pass # Rest /\ ~pass.read
  /\ IF Ahead(pass.stream) = {} THEN pass' = Following[pass.stream]
     ELSE \E batch \in Selected(pass.stream) : pass' = [pass EXCEPT !.read = TRUE, !.batch = batch]
  /\ UNCHANGED <<clock, rounds, pending, flushing, rows, adoptions, position, play, late, restarts>>

\* What one post carries: the rows of one round, or one row.
Size == IF pass.stream # "rounds" THEN 1
        ELSE Cardinality({i \in DOMAIN pass.batch : pass.batch[i].ref = Head(pass.batch).ref})
Group == {pass.batch[i] : i \in 1..Size}

\* Play takes the rows (again: nothing changes), or makes the guest's the person's.
Accept ==
  IF pass.stream = "adoptions"
  THEN LET a == Head(pass.batch)
       IN {IF x[3] = a.player THEN <<x[1], x[2], a.into>> ELSE x : x \in play}
  ELSE play \cup {<<pass.stream, r.ref, r.player>> : r \in Group}

Posting == pass.read /\ ~pass.accepted

PostAccepted ==
  /\ Posting
  /\ play' = Accept
  /\ pass' = [pass EXCEPT !.accepted = TRUE]
  /\ UNCHANGED <<clock, rounds, pending, flushing, rows, adoptions, position, late, restarts>>

\* The call fails, whether or not Play took it: the pass ends where it was.
PostFails ==
  /\ Posting
  /\ play' \in {play, Accept}
  /\ pass' = Rest
  /\ UNCHANGED <<clock, rounds, pending, flushing, rows, adoptions, position, late, restarts>>

\* Variant: past the last row of the batch.
AdvancePastBatch ==
  /\ pass.accepted
  /\ position' = [position EXCEPT ![pass.stream] = CursorOf(pass.batch[Len(pass.batch)])]
  /\ pass' = IF Size = Len(pass.batch) THEN Following[pass.stream]
             ELSE [pass EXCEPT !.accepted = FALSE, !.batch = SubSeq(@, Size + 1, Len(@))]
  /\ UNCHANGED <<clock, rounds, pending, flushing, rows, adoptions, play, late, restarts>>

\* advance: past the last row of what Play accepted.
Advance ==
  /\ pass.accepted
  /\ position' = [position EXCEPT ![pass.stream] = CursorOf(pass.batch[Size])]
  /\ pass' = IF Size = Len(pass.batch) THEN Following[pass.stream]
             ELSE [pass EXCEPT !.accepted = FALSE, !.batch = SubSeq(@, Size + 1, Len(@))]
  /\ UNCHANGED <<clock, rounds, pending, flushing, rows, adoptions, play, late, restarts>>

\* The process dies: what the writer had not committed is gone, the positions are kept.
Restart ==
  /\ restarts < MaxRestarts /\ restarts' = restarts + 1
  /\ pending' = [rounds |-> <<>>, unlocks |-> <<>>] /\ flushing' = "no" /\ pass' = Rest
  /\ UNCHANGED <<clock, rounds, rows, adoptions, position, play, late>>

---------------------------------------------------------------------------
PlaySyncInit ==
  /\ clock = 1 /\ rounds = {} /\ restarts = 0
  /\ pending = [rounds |-> <<>>, unlocks |-> <<>>] /\ flushing = "no"
  /\ rows = [s \in {"rounds", "unlocks"} |-> {}] /\ adoptions = {}
  /\ position = [s \in Stream |-> Start] /\ pass = Rest
  /\ play = {} /\ late = {}

Passing == ReadBatch \/ PostAccepted \/ PostFails \/ Advance
Flushed == CommitRound \/ CommitUnlock \/ FlushFails

PlaySyncNext ==
  \/ Tick \/ (\E id \in DOMAIN Players : SubmitRound(id))
  \/ (\E a \in Milestones : SubmitMilestone(a))
  \/ Flushed \/ FlushTimer
  \/ (\E g \in Guest, p \in Person : Adopt(g, p))
  \/ StartPass \/ Passing \/ Restart

PlaySyncSpec == PlaySyncInit /\ [][PlaySyncNext]_playVars

---------------------------------------------------------------------------
PlaySyncTypeOK ==
  /\ clock \in 1..MaxClock /\ rounds \subseteq DOMAIN Players /\ restarts \in 0..MaxRestarts
  /\ flushing \in {"no", "rounds", "unlocks"}
  /\ \A s \in DOMAIN rows : \A r \in rows[s] : r.player \in Account /\ r.at \in 1..clock
  /\ \A x \in play : x[1] \in {"rounds", "unlocks"} /\ x[3] \in Account
  /\ DOMAIN position = Stream
  /\ pass.accepted => pass.read
  /\ pass.read => pass.batch # <<>> /\ Len(pass.batch) <= Batch

\* The keys Play may hold x's rows under: x, the guests whose adoption by x it is still to be
\* told, and the person who adopted x (a guest's row committed after the adoption stays the
\* guest's here).
KnownAs(x) ==
  {x} \cup {a.player : a \in {b \in Ahead("adoptions") : b.into = x}}
      \cup {a.into : a \in {b \in adoptions : b.player = x}}

Posted(stream, r) == \E x \in KnownAs(r.player) : <<stream, r.ref, x>> \in play

\* playSync.ts:16: the position moves only past what Play accepted. Whatever fails and whoever is
\* adopted between a read and its posts, a row at or behind the position is Play's, except one that
\* was committed behind what had been read, or whose owner's adoption was.
NothingIsLost ==
  \A s \in {"rounds", "unlocks"} : \A r \in rows[s] :
     \/ r \in Ahead(s)
     \/ Posted(s, r)
     \/ <<s, r.ref, r.player>> \in late

\* The same with no exception.
PositionMovesPastAccepted ==
  \A s \in {"rounds", "unlocks"} : \A r \in rows[s] : r \in Ahead(s) \/ Posted(s, r)

\* With the database and Play answering in the end, every row is posted: nothing stays ahead of
\* the position and nothing stays unwritten.
PlayCatchesUp == <>[](pending = [rounds |-> <<>>, unlocks |-> <<>>] /\ \A s \in Stream : Ahead(s) = {})
==================================================================================
