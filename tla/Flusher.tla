-------------------------------- MODULE Flusher --------------------------------
(****************************************************************************)
(* The write-behind queue of one room: the dirty flags the tick sets, the   *)
(* snapshots that clear them, the one queue of transactions behind it, and  *)
(* what a failed transaction puts back (apps/server/src/game/flusher.ts,    *)
(* systems/persistence.ts, takeDirty and restoreDirty of gameWorld.ts).     *)
(*                                                                          *)
(* World rows (entities, NPCs, constraints) carry a version: 0 is absent.   *)
(* A character carries the set of deeds it has done: losing one is losing   *)
(* progress.                                                                *)
(****************************************************************************)
EXTENDS Integers, Sequences, FiniteSets

CONSTANTS
  WorldRow,      \* ids of persistent entities, NPCs and constraints
  Char,          \* characters
  Deed,          \* what a character can do once
  MaxVersion,    \* bound: changes of one row
  MaxSaves,      \* bound: disconnect saves in the queue
  MaxTries       \* retries of a disconnect save (4 in savePlayer)

ASSUME FlusherAssumptions ==
  /\ MaxVersion \in Nat \ {0}
  /\ MaxSaves \in Nat
  /\ MaxTries \in Nat

VARIABLES
  mem,        \* world rows in the simulation
  gone,       \* rows that have lived and been despawned
  dirty,      \* rows changed since they were last copied
  deleted,    \* rows despawned since the last copy (deletedIds, constraintsDeleted)
  have,       \* the deeds each online session carries
  online,     \* characters with a session
  charDirty,  \* sessions changed since they were last copied
  queue,      \* jobs behind the tick; the first one is running
  active,     \* checkpointActive
  taken,      \* the payload built for the checkpoint in the queue, if any
  row,        \* world rows in the database
  charRow,    \* characters in the database
  ticking,    \* FALSE once the room has shut down
  done,       \* history: every deed a character has done
  givenUp,    \* history: deeds logged as lost for good
  stopFailed, \* history: a transaction failed after the shutdown
  early       \* history: characters whose session was read before a save of theirs had ended

memory == <<mem, gone, dirty, deleted, have, online, charDirty>>
pending == <<queue, active, taken>>
database == <<row, charRow>>
history == <<done, givenUp, stopFailed, early>>
vars == <<memory, pending, database, ticking, history>>

Version == 0 .. MaxVersion
Absent == 0

Save(c, deeds, tries) == [kind |-> "save", char |-> c, deeds |-> deeds, tries |-> tries]
CheckpointJob == [kind |-> "checkpoint"]
FinalJob == [kind |-> "final"]

Job == {CheckpointJob, FinalJob} \cup
       [kind: {"save"}, char: Char, deeds: SUBSET Deed, tries: 0 .. MaxTries]

\* The jobs of a kind that wait or run.
Jobs(kind) == {i \in DOMAIN queue : queue[i].kind = kind}

\* The saves of a character that wait or are being retried.
SavesOf(c) == {i \in Jobs("save") : queue[i].char = c}

\* A payload, with the whole world it was copied from (a history field).
Payload == [upserts: SUBSET WorldRow, deletes: SUBSET WorldRow,
            image: [WorldRow -> Version], chars: SUBSET Char, deeds: [Char -> SUBSET Deed]]
--------------------------------------------------------------------------------
Init ==
  /\ mem \in [WorldRow -> {Absent, 1}]
  /\ row = mem
  /\ gone = {}
  /\ dirty = {}
  /\ deleted = {}
  /\ have = [c \in Char |-> {}]
  /\ online = {}
  /\ charDirty = {}
  /\ queue = <<>>
  /\ active = FALSE
  /\ taken = {}
  /\ charRow = [c \in Char |-> {}]
  /\ ticking = TRUE
  /\ done = [c \in Char |-> {}]
  /\ givenUp = [c \in Char |-> {}]
  /\ stopFailed = FALSE
  /\ early = {}

\* The simulation spawns a row under a new id, or changes one.
ChangeRow(r) ==
  /\ ticking
  /\ r \notin gone
  /\ mem[r] < MaxVersion
  /\ mem' = [mem EXCEPT ![r] = @ + 1]
  /\ dirty' = dirty \cup {r}
  /\ UNCHANGED <<gone, deleted, have, online, charDirty, pending, database, ticking, history>>

\* A despawned row takes its dirty flag with it and leaves its id to be deleted.
DespawnRow(r) ==
  /\ ticking
  /\ mem[r] # Absent
  /\ mem' = [mem EXCEPT ![r] = Absent]
  /\ gone' = gone \cup {r}
  /\ dirty' = dirty \ {r}
  /\ deleted' = deleted \cup {r}
  /\ UNCHANGED <<have, online, charDirty, pending, database, ticking, history>>

\* A session changes.
DoDeed(c, d) ==
  /\ ticking
  /\ c \in online
  /\ d \notin done[c]
  /\ have' = [have EXCEPT ![c] = @ \cup {d}]
  /\ done' = [done EXCEPT ![c] = @ \cup {d}]
  /\ charDirty' = charDirty \cup {c}
  /\ UNCHANGED <<mem, gone, dirty, deleted, online, pending, database, ticking, givenUp, stopFailed, early>>

\* buildFlushPayload: copy everything dirty and clear the flags as it copies.
Snapshot(dirtyChars) ==
  [upserts |-> dirty, deletes |-> deleted, image |-> mem, chars |-> dirtyChars, deeds |-> have]

TakeSnapshot(dirtyChars) ==
  /\ taken' = {Snapshot(dirtyChars)}
  /\ dirty' = {}
  /\ deleted' = {}
  /\ charDirty' = {}

\* The periodic checkpoint. While one is queued or running this one is coalesced:
\* nothing is copied, no flag is cleared.
Checkpoint ==
  /\ ticking
  /\ ~active
  /\ TakeSnapshot(charDirty)
  /\ active' = TRUE
  /\ queue' = Append(queue, CheckpointJob)
  /\ UNCHANGED <<mem, gone, have, online, database, ticking, history>>

\* Variant: the final checkpoint is coalesced like any other.
ShutdownCoalesced ==
  /\ ticking
  /\ ticking' = FALSE
  /\ IF active
       THEN /\ charDirty' = online
            /\ UNCHANGED <<dirty, deleted, active, taken, queue>>
       ELSE /\ TakeSnapshot(online)
            /\ active' = TRUE
            /\ queue' = Append(queue, CheckpointJob)
  /\ UNCHANGED <<mem, gone, have, online, database, history>>

\* Shutdown marks every session dirty. Behind a checkpoint still in flight the final
\* one is queued and copies when it runs; otherwise it copies now.
Shutdown ==
  /\ ticking
  /\ ticking' = FALSE
  /\ IF active
       THEN /\ charDirty' = online
            /\ queue' = Append(queue, FinalJob)
            /\ UNCHANGED <<dirty, deleted, active, taken>>
       ELSE /\ TakeSnapshot(online)
            /\ active' = TRUE
            /\ queue' = Append(queue, CheckpointJob)
  /\ UNCHANGED <<mem, gone, have, online, database, history>>

\* Variant: a disconnect save does not wait behind the checkpoint in flight.
LeaveSavesFirst(c) ==
  /\ c \in online
  /\ Cardinality(Jobs("save")) < MaxSaves
  /\ online' = online \ {c}
  /\ charDirty' = charDirty \ {c}
  /\ queue' = <<Save(c, have[c], 0)>> \o queue
  /\ have' = [have EXCEPT ![c] = {}]
  /\ UNCHANGED <<mem, gone, dirty, deleted, active, taken, database, ticking, history>>

\* A disconnect: the session is gone, its save is queued with what it carried.
Leave(c) ==
  /\ c \in online
  /\ Cardinality(Jobs("save")) < MaxSaves
  /\ online' = online \ {c}
  /\ charDirty' = charDirty \ {c}
  /\ queue' = Append(queue, Save(c, have[c], 0))
  /\ have' = [have EXCEPT ![c] = {}]
  /\ UNCHANGED <<mem, gone, dirty, deleted, active, taken, database, ticking, history>>

\* A join drains the queue, for five seconds at most, and reads the character whether
\* or not the drain was cut off: a save that is still retried is not in what it reads.
\* The new session starts dirty. What an early session lost stops counting as done when
\* the character is next read in time.
Join(c) ==
  /\ ticking
  /\ c \notin online
  /\ online' = online \cup {c}
  /\ have' = [have EXCEPT ![c] = charRow[c]]
  /\ charDirty' = charDirty \cup {c}
  /\ IF SavesOf(c) # {}
       THEN early' = early \cup {c} /\ UNCHANGED done
       ELSE /\ early' = early \ {c}
            /\ done' = [done EXCEPT ![c] = IF c \in early THEN charRow[c] ELSE @]
  /\ UNCHANGED <<mem, gone, dirty, deleted, pending, database, ticking, givenUp, stopFailed>>
--------------------------------------------------------------------------------
(* The head of the queue runs. A transaction commits and says so, fails, or *)
(* commits while its answer is lost.                                        *)

Running(kind) == queue # <<>> /\ Head(queue).kind = kind

\* The final checkpoint's turn has come: it copies now.
BuildFinal ==
  /\ Running("final")
  /\ taken = {}
  /\ TakeSnapshot(charDirty)
  /\ UNCHANGED <<mem, gone, have, online, queue, active, database, ticking, history>>

\* Variant: the deletes of a payload are not written.
WritePayloadUpserts(p) ==
  /\ row' = [r \in WorldRow |-> IF r \in p.upserts THEN p.image[r] ELSE row[r]]
  /\ charRow' = [c \in Char |-> IF c \in p.chars THEN p.deeds[c] ELSE charRow[c]]

\* One transaction: upserts, then deletes, then characters.
WritePayload(p) ==
  /\ row' = [r \in WorldRow |-> IF r \in p.deletes THEN Absent
                                ELSE IF r \in p.upserts THEN p.image[r] ELSE row[r]]
  /\ charRow' = [c \in Char |-> IF c \in p.chars THEN p.deeds[c] ELSE charRow[c]]

EndCheckpoint ==
  /\ queue' = Tail(queue)
  /\ active' = IF Head(queue).kind = "checkpoint" THEN FALSE ELSE active
  /\ taken' = {}

CheckpointCommits(p) ==
  /\ Running("checkpoint") \/ Running("final")
  /\ p \in taken
  /\ WritePayload(p)
  /\ EndCheckpoint
  /\ UNCHANGED <<memory, ticking, history>>

\* Variant: a failed checkpoint puts the upserts back, and forgets the rest.
CheckpointFailsRowsOnly(p, landed) ==
  /\ Running("checkpoint") \/ Running("final")
  /\ p \in taken
  /\ IF landed THEN WritePayload(p) ELSE UNCHANGED database
  /\ dirty' = dirty \cup {r \in p.upserts : mem[r] # Absent}
  /\ EndCheckpoint
  /\ stopFailed' = (stopFailed \/ ~ticking)
  /\ UNCHANGED <<mem, gone, deleted, have, online, charDirty, ticking, done, givenUp, early>>

\* restore: rows still present are dirty again, deletes of rows still gone are armed
\* again, characters still online are dirty again.
CheckpointFails(p, landed) ==
  /\ Running("checkpoint") \/ Running("final")
  /\ p \in taken
  /\ IF landed THEN WritePayload(p) ELSE UNCHANGED database
  /\ dirty' = dirty \cup {r \in p.upserts : mem[r] # Absent}
  /\ deleted' = deleted \cup {r \in p.deletes : mem[r] = Absent}
  /\ charDirty' = charDirty \cup (p.chars \cap online)
  /\ EndCheckpoint
  /\ stopFailed' = (stopFailed \/ ~ticking)
  /\ UNCHANGED <<mem, gone, have, online, ticking, done, givenUp, early>>

SaveCommits ==
  /\ Running("save")
  /\ charRow' = [charRow EXCEPT ![Head(queue).char] = Head(queue).deeds]
  /\ queue' = Tail(queue)
  /\ UNCHANGED <<memory, active, taken, row, ticking, history>>

\* A failed save is retried in place, ahead of everything behind it, until it lands,
\* its retries run out or the character is back.
SaveFails(landed) ==
  LET job == Head(queue)  c == job.char IN
  /\ Running("save")
  /\ charRow' = IF landed THEN [charRow EXCEPT ![c] = job.deeds] ELSE charRow
  /\ IF c \in online \/ job.tries >= MaxTries
       THEN /\ queue' = Tail(queue)
            /\ givenUp' = IF c \in online THEN givenUp
                          ELSE [givenUp EXCEPT ![c] = @ \cup job.deeds]
       ELSE /\ queue' = [queue EXCEPT ![1] = Save(c, job.deeds, job.tries + 1)]
            /\ UNCHANGED givenUp
  /\ stopFailed' = (stopFailed \/ ~ticking)
  /\ UNCHANGED <<memory, active, taken, row, ticking, done, early>>

\* The process ends; its successor loads the room from the database.
Restart ==
  /\ mem' = row
  /\ gone' = {r \in WorldRow : row[r] = Absent /\ (r \in gone \/ mem[r] # Absent)}
  /\ dirty' = {}
  /\ deleted' = {}
  /\ have' = [c \in Char |-> {}]
  /\ online' = {}
  /\ charDirty' = {}
  /\ queue' = <<>>
  /\ active' = FALSE
  /\ taken' = {}
  /\ ticking' = TRUE
  /\ done' = charRow
  /\ givenUp' = [c \in Char |-> {}]
  /\ stopFailed' = FALSE
  /\ early' = {}
  /\ UNCHANGED database

DatabaseStep ==
  \/ \E p \in taken : CheckpointCommits(p)
  \/ \E p \in taken, landed \in BOOLEAN : CheckpointFails(p, landed)
  \/ SaveCommits
  \/ \E landed \in BOOLEAN : SaveFails(landed)

Next ==
  \/ \E r \in WorldRow : ChangeRow(r) \/ DespawnRow(r)
  \/ \E c \in Char, d \in Deed : DoDeed(c, d)
  \/ Checkpoint
  \/ Shutdown
  \/ \E c \in Char : Leave(c) \/ Join(c)
  \/ BuildFinal
  \/ DatabaseStep
  \/ Restart

Spec == Init /\ [][Next]_vars

\* The tick keeps asking for checkpoints and the queue keeps running; a transaction
\* that is tried again and again commits at last.
Fairness ==
  /\ WF_vars(Checkpoint)
  /\ WF_vars(BuildFinal)
  /\ WF_vars(DatabaseStep)
  /\ SF_vars(\E p \in taken : CheckpointCommits(p))
  /\ SF_vars(SaveCommits)

FairSpec == Spec /\ Fairness
--------------------------------------------------------------------------------
\* Types. A dirty row is present, a row to delete is absent (restoreDirty keeps it so),
\* and only an online session is dirty.
TypeOK ==
  /\ mem \in [WorldRow -> Version] /\ row \in [WorldRow -> Version]
  /\ gone \subseteq WorldRow /\ deleted \subseteq gone
  /\ dirty \subseteq {r \in WorldRow : mem[r] # Absent}
  /\ \A r \in gone : mem[r] = Absent
  /\ online \subseteq Char /\ charDirty \subseteq online /\ early \subseteq Char
  /\ have \in [Char -> SUBSET Deed] /\ charRow \in [Char -> SUBSET Deed]
  /\ done \in [Char -> SUBSET Deed] /\ givenUp \in [Char -> SUBSET Deed]
  /\ queue \in Seq(Job)
  /\ taken \subseteq Payload /\ \A p \in taken : p.deletes \subseteq gone
  /\ active \in BOOLEAN /\ ticking \in BOOLEAN /\ stopFailed \in BOOLEAN

\* One flush of the world in flight (ADR-0007): checkpointActive says whether a
\* checkpoint is in the queue, there is at most one, and no second copy of the world
\* exists beside it, the queued final one included.
OneCopyInFlight ==
  /\ Cardinality(Jobs("checkpoint")) = (IF active THEN 1 ELSE 0)
  /\ Cardinality(Jobs("final")) <= 1
  /\ Cardinality(taken) <= 1
  /\ active => taken # {}
  /\ taken # {} /\ ~active => Running("final")

\* A row whose stored value is not the simulation's is dirty, awaits its delete, or is
\* carried by the payload in flight: no failure and no coalescing forgets it.
RowsAccountedFor ==
  \A r \in WorldRow : row[r] # mem[r] =>
    r \in dirty \cup deleted \/ \E p \in taken : r \in p.upserts \cup p.deletes

\* Nothing is lost silently (flusher.ts): a deed is stored, or its session is dirty, or
\* a payload or a queued save carries it, or its loss has been logged.
NoDeedForgotten ==
  \A c \in Char \ early : \A d \in done[c] :
    \/ d \in charRow[c] \cup givenUp[c]
    \/ c \in charDirty /\ d \in have[c]
    \/ \E p \in taken : c \in p.chars /\ d \in p.deeds[c]
    \/ \E i \in Jobs("save") : queue[i].char = c /\ d \in queue[i].deeds

\* A later save never takes back what an earlier one stored: a disconnect save lands
\* after the checkpoint in flight, and a returning session reads after it. Only a session
\* read before a save of its character had ended is excepted: the drain's answer is not
\* looked at.
StoredDeedsStay == [][\A c \in Char \ early : charRow[c] \subseteq charRow'[c]]_vars

\* What the code does not keep: the same of every character.
StoredDeedsStayAlways == [][\A c \in Char : charRow[c] \subseteq charRow'[c]]_vars

\* When the queue has drained after the shutdown and no transaction has failed since,
\* the database holds the whole room and every session.
DrainedShutdownIsComplete ==
  ~ticking /\ queue = <<>> /\ ~stopFailed =>
    row = mem /\ \A c \in online : charRow[c] = have[c]

\* The dirty rows and deletes a payload carries amount to a copy of the whole world:
\* the database always holds one state the room has been in.
Behind == INSTANCE WriteBehind
  WITH RowValue <- Version, world <- mem, durable <- row, images <- {p.image : p \in taken}
StoresWholeWorlds == Behind!BehindSpec

\* While the room runs, the database catches up with it again and again.
RoomIsSaved == []<>(row = mem \/ ~ticking)

\* Every deed is stored at last, unless the process ends, its loss is logged or its
\* character was read too early.
DeedsAreSaved ==
  \A c \in Char, d \in Deed :
    d \in done[c] ~> (d \in charRow[c] \cup givenUp[c] \/ d \notin done[c] \/ ~ticking \/ c \in early)
================================================================================
