----------------------------- MODULE FlusherProofs -----------------------------
(****************************************************************************)
(* The write-behind queue never forgets a world row and always leaves one   *)
(* whole world in the database, for any rows, characters and bounds.        *)
(****************************************************************************)
EXTENDS Flusher, SequenceTheorems, TLAPS

USE FlusherAssumptions

\* Every copy on its way agrees with the database outside the rows it carries, its
\* deletes are absent from it, and what has changed since it was made is dirty again.
CopiesAreWhole ==
  \A p \in taken : \A r \in WorldRow :
    /\ r \notin p.upserts \cup p.deletes => p.image[r] = row[r]
    /\ r \in p.deletes => p.image[r] = Absent
    /\ r \in p.upserts => p.image[r] # Absent
    /\ p.image[r] # mem[r] => r \in dirty \cup deleted

\* There is at most one copy; while the room ticks it exists only under
\* checkpointActive, and no final checkpoint waits.
OneCopyWhileTicking ==
  /\ \A p, q \in taken : p = q
  /\ taken # {} => active \/ ~ticking
  /\ \A i \in DOMAIN queue : queue[i].kind = "final" => ~ticking

\* The strengthening of RowsAccountedFor that every step preserves.
IInv == TypeOK /\ RowsAccountedFor /\ CopiesAreWhole /\ OneCopyWhileTicking
--------------------------------------------------------------------------------
\* Appending a job keeps the jobs that wait and adds that one.
LEMMA AppendJob ==
  ASSUME queue \in Seq(Job), NEW j \in Job
  PROVE  /\ Append(queue, j) \in Seq(Job)
         /\ Append(queue, j) # <<>>
         /\ \A i \in DOMAIN Append(queue, j) :
              \/ Append(queue, j)[i] = j
              \/ i \in DOMAIN queue /\ Append(queue, j)[i] = queue[i]
<1>1. DOMAIN queue = 1 .. Len(queue) /\ Len(queue) \in Nat
  BY LenProperties
<1>2. Append(queue, j) \in Seq(Job) /\ Len(Append(queue, j)) = Len(queue) + 1
  OBVIOUS
<1>3. DOMAIN Append(queue, j) = 1 .. Len(queue) + 1
  BY <1>2, LenProperties
<1>4. ASSUME NEW i \in 1 .. Len(queue) + 1
      PROVE  Append(queue, j)[i] = IF i <= Len(queue) THEN queue[i] ELSE j
  BY <1>1
<1>5. Append(queue, j) # <<>>
  BY <1>1, <1>2, EmptySeq
<1>6. ASSUME NEW i \in DOMAIN Append(queue, j)
      PROVE  \/ Append(queue, j)[i] = j
             \/ i \in DOMAIN queue /\ Append(queue, j)[i] = queue[i]
  <2>1. i \in 1 .. Len(queue) + 1 /\ (i <= Len(queue) \/ i = Len(queue) + 1)
    BY <1>1, <1>3
  <2>2. CASE i <= Len(queue)
    <3>1. Append(queue, j)[i] = queue[i]
      BY <1>4, <2>1, <2>2
    <3>2. i \in DOMAIN queue
      BY <1>1, <2>1, <2>2
    <3> QED
      BY <3>1, <3>2
  <2>3. CASE i = Len(queue) + 1
    <3>1. ~(i <= Len(queue))
      BY <1>1, <2>3
    <3>2. Append(queue, j)[i] = j
      BY <1>4, <2>1, <3>1
    <3> QED
      BY <3>2
  <2> QED
    BY <2>1, <2>2, <2>3
<1> QED
  BY <1>2, <1>5, <1>6

\* The head of a queue is its first job; taking it away, or replacing it, keeps the
\* others in order.
LEMMA HeadJob ==
  ASSUME queue \in Seq(Job), queue # <<>>
  PROVE  /\ Head(queue) \in Job /\ 1 \in DOMAIN queue /\ Head(queue) = queue[1]
         /\ Tail(queue) \in Seq(Job)
         /\ \A i \in DOMAIN Tail(queue) :
              i + 1 \in DOMAIN queue /\ Tail(queue)[i] = queue[i + 1]
         /\ \A j \in Job : /\ [queue EXCEPT ![1] = j] \in Seq(Job)
                           /\ DOMAIN [queue EXCEPT ![1] = j] = DOMAIN queue
<1>1. /\ DOMAIN queue = 1 .. Len(queue) /\ Len(queue) \in Nat \ {0}
  BY LenProperties, EmptySeq
<1>2. /\ Head(queue) \in Job /\ Tail(queue) \in Seq(Job) /\ Len(Tail(queue)) = Len(queue) - 1
      /\ \A i \in 1 .. Len(Tail(queue)) : Tail(queue)[i] = queue[i + 1]
  BY HeadTailProperties
<1>3. DOMAIN Tail(queue) = 1 .. Len(queue) - 1
  BY <1>2, LenProperties
<1>4. Head(queue) = queue[1]
  OBVIOUS
<1>5. ASSUME NEW j \in Job PROVE [queue EXCEPT ![1] = j] \in Seq(Job)
  BY <1>1, ExceptSeq
<1> QED
  BY <1>1, <1>2, <1>3, <1>4, <1>5

\* What a copy of the dirty rows is.
LEMMA SnapshotType ==
  ASSUME TypeOK, NEW cs \in SUBSET Char
  PROVE  /\ Snapshot(cs) \in Payload
         /\ Snapshot(cs).upserts = dirty
         /\ Snapshot(cs).deletes = deleted
         /\ Snapshot(cs).image = mem
         /\ Snapshot(cs).chars = cs
         /\ Snapshot(cs).deeds = have
  BY DEF Snapshot, Payload, TypeOK

\* A transaction writes values of the right type.
LEMMA WriteType ==
  ASSUME TypeOK, NEW p \in Payload, WritePayload(p)
  PROVE  row' \in [WorldRow -> Version] /\ charRow' \in [Char -> SUBSET Deed]
  BY DEF WritePayload, Payload, TypeOK, Version, Absent

\* The types hold at the start.
LEMMA InitTypeOK == Init => TypeOK
<1>1. <<>> \in Seq(Job)
  BY EmptySeq
<1>2. {Absent, 1} \subseteq Version
  BY DEF Version, Absent
<1> QED
  BY <1>1, <1>2 DEF Init, TypeOK

\* A step keeps the types: dirty rows stay present and deleted ones absent.
LEMMA TypeOKStep == TypeOK /\ [Next]_vars => TypeOK'
<1> SUFFICES ASSUME TypeOK, [Next]_vars PROVE TypeOK'
  OBVIOUS
<1> USE DEF TypeOK, Version, Absent, memory, pending, database, history
<1>0. CheckpointJob \in Job /\ FinalJob \in Job
  BY DEF Job
<1>1. ASSUME NEW r \in WorldRow, ChangeRow(r) PROVE TypeOK'
  BY <1>1 DEF ChangeRow
<1>2. ASSUME NEW r \in WorldRow, DespawnRow(r) PROVE TypeOK'
  BY <1>2 DEF DespawnRow
<1>3. ASSUME NEW c \in Char, NEW d \in Deed, DoDeed(c, d) PROVE TypeOK'
  BY <1>3 DEF DoDeed
<1>4. CASE Checkpoint
  BY <1>4, <1>0, AppendJob, SnapshotType DEF Checkpoint, TakeSnapshot
<1>5. CASE Shutdown
  <2>1. queue' \in Seq(Job)
    BY <1>5, <1>0, AppendJob DEF Shutdown
  <2>2. CASE active
    BY <1>5, <2>1, <2>2 DEF Shutdown
  <2>3. CASE ~active
    <3>1. taken' \subseteq Payload /\ \A p \in taken' : p.deletes \subseteq gone
      <4>1. taken' = {Snapshot(online)}
        BY <1>5, <2>3 DEF Shutdown, TakeSnapshot
      <4>2. Snapshot(online) \in Payload /\ Snapshot(online).deletes = deleted
        BY SnapshotType
      <4> QED
        BY <4>1, <4>2
    <3> QED
      BY <1>5, <2>1, <2>3, <3>1 DEF Shutdown, TakeSnapshot
  <2> QED
    BY <2>2, <2>3
<1>6. ASSUME NEW c \in Char, Leave(c) PROVE TypeOK'
  <2>1. Save(c, have[c], 0) \in Job
    BY DEF Save, Job
  <2> QED
    BY <1>6, <2>1, AppendJob DEF Leave
<1>7. ASSUME NEW c \in Char, Join(c) PROVE TypeOK'
  BY <1>7 DEF Join
<1>8. CASE BuildFinal
  BY <1>8, SnapshotType DEF BuildFinal, TakeSnapshot
<1>9. ASSUME NEW p \in taken, CheckpointCommits(p) PROVE TypeOK'
  BY <1>9, <1>0, HeadJob, WriteType DEF CheckpointCommits, EndCheckpoint, Running
<1>10. ASSUME NEW p \in taken, NEW landed \in BOOLEAN, CheckpointFails(p, landed)
       PROVE  TypeOK'
  <2>1. row' \in [WorldRow -> Version] /\ charRow' \in [Char -> SUBSET Deed]
    BY <1>10, WriteType DEF CheckpointFails
  <2>2. p \in Payload
    OBVIOUS
  <2>3. p.upserts \subseteq WorldRow /\ p.deletes \subseteq WorldRow
    BY <2>2 DEF Payload
  <2>4. queue' \in Seq(Job) /\ active' \in BOOLEAN /\ taken' = {} /\ stopFailed' \in BOOLEAN
    BY <1>10, HeadJob DEF CheckpointFails, EndCheckpoint, Running
  <2>5. UNCHANGED <<mem, gone, have, online, ticking, done, givenUp, early>>
    BY <1>10 DEF CheckpointFails
  <2>6. /\ dirty' \subseteq {r \in WorldRow : mem[r] # Absent}
        /\ charDirty' \subseteq online
    BY <1>10, <2>3 DEF CheckpointFails
  <2>7. deleted' \subseteq gone
    BY <1>10, <2>3 DEF CheckpointFails
  <2> QED
    BY <2>1, <2>4, <2>5, <2>6, <2>7
<1>11. CASE SaveCommits
  <2>1. Head(queue).char \in Char /\ Head(queue).deeds \in SUBSET Deed
    BY <1>11, <1>0, HeadJob DEF SaveCommits, Running, Job, CheckpointJob, FinalJob
  <2> QED
    BY <1>11, <1>0, <2>1, HeadJob DEF SaveCommits, Running
<1>12. ASSUME NEW landed \in BOOLEAN, SaveFails(landed) PROVE TypeOK'
  <2> DEFINE job == Head(queue)
  <2>1. queue # <<>> /\ job \in Job /\ job.kind = "save"
    BY <1>12, <1>0, HeadJob DEF SaveFails, Running
  <2>2. job.char \in Char /\ job.deeds \in SUBSET Deed /\ job.tries \in 0 .. MaxTries
    BY <2>1 DEF Job, CheckpointJob, FinalJob
  <2>3. charRow' \in [Char -> SUBSET Deed]
    BY <1>12, <2>2 DEF SaveFails
  <2>4. CASE job.char \in online \/ job.tries >= MaxTries
    <3>1. queue' \in Seq(Job) /\ stopFailed' \in BOOLEAN
      BY <1>12, <2>1, <2>4, HeadJob DEF SaveFails
    <3>2. givenUp' \in [Char -> SUBSET Deed]
      BY <1>12, <2>2, <2>4 DEF SaveFails
    <3> QED
      BY <1>12, <2>3, <3>1, <3>2 DEF SaveFails
  <2>5. CASE ~(job.char \in online \/ job.tries >= MaxTries)
    <3>1. Save(job.char, job.deeds, job.tries + 1) \in Job
      BY <2>2, <2>5 DEF Save, Job
    <3>2. queue' \in Seq(Job)
      <4>1. queue' = [queue EXCEPT ![1] = Save(job.char, job.deeds, job.tries + 1)]
        BY <1>12, <2>5 DEF SaveFails
      <4> QED
        BY <2>1, <3>1, <4>1, HeadJob
    <3> QED
      BY <1>12, <2>3, <2>5, <3>2 DEF SaveFails
  <2> QED
    BY <2>4, <2>5
<1>13. CASE Restart
  <2>1. <<>> \in Seq(Job)
    BY EmptySeq
  <2> QED
    BY <1>13, <2>1 DEF Restart
<1>14. CASE UNCHANGED vars
  BY <1>14 DEF vars
<1> QED
  BY <1>1, <1>2, <1>3, <1>4, <1>5, <1>6, <1>7, <1>8, <1>9, <1>10, <1>11, <1>12, <1>13, <1>14
  DEF Next, DatabaseStep

\* Types, and the agreement of dirty flags, deletions and sessions with the memory.
THEOREM TypeCorrect == Spec => []TypeOK
  BY InitTypeOK, TypeOKStep, PTL DEF Spec
--------------------------------------------------------------------------------
\* A payload is a whole copy of the world in what it changes: when it is written the
\* database holds that copy.
LEMMA WritesItsImage ==
  ASSUME TypeOK, CopiesAreWhole, NEW p \in taken, WritePayload(p)
  PROVE  row' = p.image
<1>1. p.image \in [WorldRow -> Version]
  BY DEF TypeOK, Payload
<1>2. row' = [r \in WorldRow |-> IF r \in p.deletes THEN Absent
                                 ELSE IF r \in p.upserts THEN p.image[r] ELSE row[r]]
  BY DEF WritePayload
<1>3. ASSUME NEW r \in WorldRow PROVE row'[r] = p.image[r]
  BY <1>2 DEF CopiesAreWhole
<1> QED
  BY <1>1, <1>2, <1>3

\* A copy taken when no other is on its way holds what the database will hold.
LEMMA SnapshotIsWhole ==
  ASSUME TypeOK, RowsAccountedFor, taken = {}, NEW cs \in SUBSET Char,
         TakeSnapshot(cs), UNCHANGED <<mem, gone, row>>
  PROVE  RowsAccountedFor' /\ CopiesAreWhole' /\ \A p, q \in taken' : p = q
<1>1. taken' = {Snapshot(cs)} /\ dirty' = {} /\ deleted' = {}
  BY DEF TakeSnapshot
<1>2. /\ Snapshot(cs).upserts = dirty /\ Snapshot(cs).deletes = deleted
      /\ Snapshot(cs).image = mem
  BY SnapshotType
<1>3. \A r \in WorldRow : row[r] # mem[r] => r \in dirty \cup deleted
  BY DEF RowsAccountedFor
<1>4. RowsAccountedFor'
  BY <1>1, <1>2, <1>3 DEF RowsAccountedFor
<1>5. CopiesAreWhole'
  BY <1>1, <1>2, <1>3 DEF CopiesAreWhole, TypeOK
<1> QED
  BY <1>1, <1>4, <1>5

\* The end of a checkpoint, written or not, leaves no copy behind; every row the
\* database does not hold as it is now must be dirty or deleted again.
LEMMA EndOfCopy ==
  ASSUME TypeOK, OneCopyWhileTicking, queue # <<>>, EndCheckpoint, UNCHANGED <<mem, ticking>>,
         \A r \in WorldRow : row'[r] # mem[r] => r \in dirty' \cup deleted'
  PROVE  RowsAccountedFor' /\ CopiesAreWhole' /\ OneCopyWhileTicking'
<1>1. taken' = {} /\ queue' = Tail(queue)
  BY DEF EndCheckpoint
<1>2. \A i \in DOMAIN queue' : queue'[i].kind = "final" => ~ticking'
  BY <1>1, HeadJob DEF OneCopyWhileTicking, TypeOK
<1> QED
  BY <1>1, <1>2 DEF RowsAccountedFor, CopiesAreWhole, OneCopyWhileTicking

\* A failed checkpoint arms again whatever the database may not hold.
LEMMA RestoreArms ==
  ASSUME TypeOK, RowsAccountedFor, CopiesAreWhole, OneCopyWhileTicking,
         NEW p \in taken, NEW landed \in BOOLEAN, CheckpointFails(p, landed)
  PROVE  \A r \in WorldRow : row'[r] # mem[r] => r \in dirty' \cup deleted'
<1> SUFFICES ASSUME NEW r \in WorldRow, row'[r] # mem[r] PROVE r \in dirty' \cup deleted'
  OBVIOUS
<1>1. /\ dirty' = dirty \cup {s \in p.upserts : mem[s] # Absent}
      /\ deleted' = deleted \cup {s \in p.deletes : mem[s] = Absent}
  BY DEF CheckpointFails
<1>2. CASE p.image[r] # mem[r]
  BY <1>1, <1>2 DEF CopiesAreWhole
<1>3. CASE p.image[r] = mem[r]
  <2>1. row' # p.image
    BY <1>3
  <2>2. ~landed
    BY <2>1, WritesItsImage DEF CheckpointFails
  <2>3. row' = row
    BY <2>2 DEF CheckpointFails, database
  <2>4. r \in dirty \cup deleted \/ r \in p.upserts \cup p.deletes
    BY <2>3 DEF RowsAccountedFor, OneCopyWhileTicking
  <2> QED
    BY <1>1, <1>3, <2>4 DEF CopiesAreWhole
<1> QED
  BY <1>2, <1>3

\* Jobs that enter the queue are not final checkpoints while the room ticks.
LEMMA AppendKeepsOneCopy ==
  ASSUME TypeOK, OneCopyWhileTicking, NEW j \in Job, j.kind # "final" \/ ~ticking',
         queue' = Append(queue, j), ticking' => ticking
  PROVE  \A i \in DOMAIN queue' : queue'[i].kind = "final" => ~ticking'
  BY AppendJob DEF OneCopyWhileTicking, TypeOK

\* Every step keeps the strengthened invariant.
LEMMA IInvStep == IInv /\ [Next]_vars => IInv'
<1> SUFFICES ASSUME IInv, [Next]_vars PROVE (RowsAccountedFor /\ CopiesAreWhole /\ OneCopyWhileTicking)'
  BY TypeOKStep DEF IInv
<1> USE DEF memory, pending, database, history
<1>0. /\ TypeOK /\ RowsAccountedFor /\ CopiesAreWhole /\ OneCopyWhileTicking
      /\ CheckpointJob \in Job /\ CheckpointJob.kind # "final" /\ FinalJob \in Job
  BY DEF IInv, Job, CheckpointJob, FinalJob
<1>1. ASSUME NEW r \in WorldRow, ChangeRow(r)
      PROVE  (RowsAccountedFor /\ CopiesAreWhole /\ OneCopyWhileTicking)'
  BY <1>0, <1>1 DEF ChangeRow, TypeOK, RowsAccountedFor, CopiesAreWhole, OneCopyWhileTicking
<1>2. ASSUME NEW r \in WorldRow, DespawnRow(r)
      PROVE  (RowsAccountedFor /\ CopiesAreWhole /\ OneCopyWhileTicking)'
  BY <1>0, <1>2 DEF DespawnRow, TypeOK, RowsAccountedFor, CopiesAreWhole, OneCopyWhileTicking
<1>3. ASSUME NEW c \in Char, NEW d \in Deed, DoDeed(c, d)
      PROVE  (RowsAccountedFor /\ CopiesAreWhole /\ OneCopyWhileTicking)'
  BY <1>0, <1>3 DEF DoDeed, RowsAccountedFor, CopiesAreWhole, OneCopyWhileTicking
<1>4. ASSUME Checkpoint
      PROVE  (RowsAccountedFor /\ CopiesAreWhole /\ OneCopyWhileTicking)'
  <2>1. taken = {} /\ charDirty \in SUBSET Char
    BY <1>0, <1>4 DEF Checkpoint, OneCopyWhileTicking, TypeOK
  <2>2. RowsAccountedFor' /\ CopiesAreWhole' /\ \A p, q \in taken' : p = q
    BY <1>0, <1>4, <2>1, SnapshotIsWhole DEF Checkpoint
  <2>3. \A i \in DOMAIN queue' : queue'[i].kind = "final" => ~ticking'
    BY <1>0, <1>4, AppendKeepsOneCopy DEF Checkpoint
  <2> QED
    BY <1>4, <2>2, <2>3 DEF Checkpoint, OneCopyWhileTicking
<1>5. ASSUME Shutdown
      PROVE  (RowsAccountedFor /\ CopiesAreWhole /\ OneCopyWhileTicking)'
  <2>1. ~ticking'
    BY <1>5 DEF Shutdown
  <2>2. CASE active
    BY <1>0, <1>5, <2>1, <2>2 DEF Shutdown, RowsAccountedFor, CopiesAreWhole, OneCopyWhileTicking
  <2>3. CASE ~active
    <3>1. taken = {} /\ online \in SUBSET Char
      BY <1>0, <1>5, <2>3 DEF Shutdown, OneCopyWhileTicking, TypeOK
    <3>2. RowsAccountedFor' /\ CopiesAreWhole' /\ \A p, q \in taken' : p = q
      BY <1>0, <1>5, <2>3, <3>1, SnapshotIsWhole DEF Shutdown
    <3> QED
      BY <2>1, <3>2 DEF OneCopyWhileTicking
  <2> QED
    BY <2>2, <2>3
<1>6. ASSUME NEW c \in Char, Leave(c)
      PROVE  (RowsAccountedFor /\ CopiesAreWhole /\ OneCopyWhileTicking)'
  <2>1. Save(c, have[c], 0) \in Job /\ Save(c, have[c], 0).kind # "final"
    BY <1>0 DEF Save, Job, TypeOK
  <2>2. \A i \in DOMAIN queue' : queue'[i].kind = "final" => ~ticking'
    BY <1>0, <1>6, <2>1, AppendKeepsOneCopy DEF Leave
  <2> QED
    BY <1>0, <1>6, <2>2 DEF Leave, RowsAccountedFor, CopiesAreWhole, OneCopyWhileTicking
<1>7. ASSUME NEW c \in Char, Join(c)
      PROVE  (RowsAccountedFor /\ CopiesAreWhole /\ OneCopyWhileTicking)'
  BY <1>0, <1>7 DEF Join, RowsAccountedFor, CopiesAreWhole, OneCopyWhileTicking
<1>8. ASSUME BuildFinal
      PROVE  (RowsAccountedFor /\ CopiesAreWhole /\ OneCopyWhileTicking)'
  <2>1. ~ticking
    BY <1>0, <1>8, HeadJob DEF BuildFinal, Running, OneCopyWhileTicking, TypeOK
  <2>2. RowsAccountedFor' /\ CopiesAreWhole' /\ \A p, q \in taken' : p = q
    BY <1>0, <1>8, SnapshotIsWhole DEF BuildFinal, TypeOK
  <2> QED
    BY <1>0, <1>8, <2>1, <2>2 DEF BuildFinal, OneCopyWhileTicking
<1>9. ASSUME NEW p \in taken, CheckpointCommits(p)
      PROVE  (RowsAccountedFor /\ CopiesAreWhole /\ OneCopyWhileTicking)'
  <2>1. row' = p.image
    BY <1>0, <1>9, WritesItsImage DEF CheckpointCommits
  <2>2. \A r \in WorldRow : row'[r] # mem[r] => r \in dirty' \cup deleted'
    BY <1>0, <1>9, <2>1 DEF CheckpointCommits, CopiesAreWhole
  <2> QED
    BY <1>0, <1>9, <2>2, EndOfCopy DEF CheckpointCommits, Running
<1>10. ASSUME NEW p \in taken, NEW landed \in BOOLEAN, CheckpointFails(p, landed)
       PROVE  (RowsAccountedFor /\ CopiesAreWhole /\ OneCopyWhileTicking)'
  <2>1. \A r \in WorldRow : row'[r] # mem[r] => r \in dirty' \cup deleted'
    BY <1>0, <1>10, RestoreArms
  <2> QED
    BY <1>0, <1>10, <2>1, EndOfCopy DEF CheckpointFails, Running
<1>11. ASSUME SaveCommits
       PROVE  (RowsAccountedFor /\ CopiesAreWhole /\ OneCopyWhileTicking)'
  <2>1. \A i \in DOMAIN queue' : queue'[i].kind = "final" => ~ticking'
    BY <1>0, <1>11, HeadJob DEF SaveCommits, Running, OneCopyWhileTicking, TypeOK
  <2> QED
    BY <1>0, <1>11, <2>1
    DEF SaveCommits, RowsAccountedFor, CopiesAreWhole, OneCopyWhileTicking
<1>12. ASSUME NEW landed \in BOOLEAN, SaveFails(landed)
       PROVE  (RowsAccountedFor /\ CopiesAreWhole /\ OneCopyWhileTicking)'
  <2>1. queue # <<>> /\ queue \in Seq(Job) /\ UNCHANGED <<memory, active, taken, row, ticking>>
    BY <1>0, <1>12 DEF SaveFails, Running, TypeOK
  <2> DEFINE retried == Save(Head(queue).char, Head(queue).deeds, Head(queue).tries + 1)
  <2>2. queue' = Tail(queue) \/ queue' = [queue EXCEPT ![1] = retried]
    BY <1>12 DEF SaveFails
  <2>3. ASSUME queue' = Tail(queue), NEW i \in DOMAIN queue', queue'[i].kind = "final"
        PROVE  ~ticking'
    BY <1>0, <2>1, <2>3, HeadJob DEF OneCopyWhileTicking
  <2>4. ASSUME queue' = [queue EXCEPT ![1] = retried], NEW i \in DOMAIN queue',
               queue'[i].kind = "final"
        PROVE  ~ticking'
    <3>1. retried.kind = "save"
      BY DEF Save
    <3>2. i \in DOMAIN queue /\ (i = 1 => queue'[i] = retried) /\ (i # 1 => queue'[i] = queue[i])
      BY <2>1, <2>4
    <3> QED
      BY <1>0, <2>1, <2>4, <3>1, <3>2 DEF OneCopyWhileTicking
  <2> QED
    BY <1>0, <2>1, <2>2, <2>3, <2>4 DEF RowsAccountedFor, CopiesAreWhole, OneCopyWhileTicking
<1>13. ASSUME Restart
       PROVE  (RowsAccountedFor /\ CopiesAreWhole /\ OneCopyWhileTicking)'
  BY <1>13 DEF Restart, RowsAccountedFor, CopiesAreWhole, OneCopyWhileTicking
<1>14. ASSUME UNCHANGED vars
       PROVE  (RowsAccountedFor /\ CopiesAreWhole /\ OneCopyWhileTicking)'
  BY <1>0, <1>14 DEF vars, RowsAccountedFor, CopiesAreWhole, OneCopyWhileTicking
<1> QED
  BY <1>1, <1>2, <1>3, <1>4, <1>5, <1>6, <1>7, <1>8, <1>9, <1>10, <1>11, <1>12, <1>13, <1>14
  DEF Next, DatabaseStep

\* The strengthened invariant holds in every reachable state.
LEMMA Invariance == Spec => []IInv
<1>1. Init => IInv
  BY InitTypeOK, EmptySeq DEF Init, IInv, RowsAccountedFor, CopiesAreWhole, OneCopyWhileTicking
<1> QED
  BY <1>1, IInvStep, PTL DEF Spec

\* No world row is forgotten: what the database does not hold yet is dirty, awaits its
\* delete or is in the payload in flight, through coalesced ticks and failed checkpoints
\* (checkpoint and restore in flusher.ts, restoreDirty in gameWorld.ts).
THEOREM NoRowForgotten == Spec => []RowsAccountedFor
  BY Invariance, PTL DEF IInv
--------------------------------------------------------------------------------
\* The job i is the last that is not the save of somebody who has left.
OnlySavesBehind(i) ==
  /\ i \in DOMAIN queue
  /\ \A j \in DOMAIN queue : j > i => queue[j].kind = "save" /\ queue[j].char \notin online

\* The copy on its way is the room as it is, and every session in it.
CopyIsFinal ==
  \A p \in taken : /\ p.image = mem /\ online \subseteq p.chars
                   /\ \A c \in online : p.deeds[c] = have[c]

\* While the room ticks checkpointActive says whether a checkpoint is in the queue.
ActiveSaysSo ==
  ticking =>
    /\ \A i, j \in Jobs("checkpoint") : i = j
    /\ active <=> Jobs("checkpoint") # {}
    /\ ~active => taken = {}

\* The room and its sessions are stored, and no save of somebody still here waits.
AllStored ==
  /\ \A i \in DOMAIN queue : queue[i].kind = "save" /\ queue[i].char \notin online
  /\ row = mem
  /\ \A c \in online : charRow[c] = have[c]

\* The last checkpoint was taken at the shutdown; only saves are before and behind it.
LastCheckpointWaits ==
  \E i \in Jobs("checkpoint") :
    /\ OnlySavesBehind(i)
    /\ \A j \in DOMAIN queue : j < i => queue[j].kind = "save"
    /\ CopyIsFinal

\* The final checkpoint waits behind one in flight, and every session is dirty until
\* its own copy is made.
FinalWaits ==
  \E i \in Jobs("final") :
    /\ OnlySavesBehind(i)
    /\ \A j \in DOMAIN queue : j < i => queue[j].kind # "final"
    /\ taken # {} /\ i = 1 => CopyIsFinal
    /\ taken = {} \/ i # 1 => charDirty = online
    /\ taken # {} /\ i # 1 => \E k \in Jobs("checkpoint") : k < i

\* After the shutdown the queue holds what is missing in the database, in an order that
\* stores it, unless a transaction has failed.
ShutdownPlan ==
  ~ticking /\ ~stopFailed => AllStored \/ LastCheckpointWaits \/ FinalWaits

DrainInv == ActiveSaysSo /\ ShutdownPlan

\* Where the jobs are after one is appended: the new one is behind all the others.
LEMMA AppendPlaces ==
  ASSUME queue \in Seq(Job), NEW j \in Job, queue' = Append(queue, j)
  PROVE  /\ \A i \in DOMAIN queue : /\ i \in DOMAIN queue' /\ queue'[i] = queue[i]
                                    /\ i < Len(queue) + 1
         /\ Len(queue) + 1 \in DOMAIN queue' /\ queue'[Len(queue) + 1] = j
         /\ \A i \in DOMAIN queue' : i \in DOMAIN queue \/ i = Len(queue) + 1
         /\ DOMAIN queue \subseteq Nat \ {0} /\ DOMAIN queue' \subseteq Nat \ {0}
<1>1. DOMAIN queue = 1 .. Len(queue) /\ Len(queue) \in Nat
  BY LenProperties
<1>2. /\ queue' \in Seq(Job) /\ Len(queue') = Len(queue) + 1
      /\ \A i \in 1 .. Len(queue) : queue'[i] = queue[i]
      /\ queue'[Len(queue) + 1] = j
  BY AppendProperties
<1>3. DOMAIN queue' = 1 .. Len(queue) + 1
  BY <1>2, LenProperties
<1>4. \A i \in DOMAIN queue' : i \in DOMAIN queue \/ i = Len(queue) + 1
  BY <1>1, <1>3
<1> QED
  BY <1>1, <1>2, <1>3, <1>4

\* Where the jobs are after the first one is done.
LEMMA TailPlaces ==
  ASSUME queue \in Seq(Job), queue # <<>>, queue' = Tail(queue)
  PROVE  /\ 1 \in DOMAIN queue /\ Head(queue) = queue[1]
         /\ \A i \in DOMAIN queue' : i + 1 \in DOMAIN queue /\ queue'[i] = queue[i + 1]
         /\ \A i \in DOMAIN queue : i # 1 => i - 1 \in DOMAIN queue' /\ queue'[i - 1] = queue[i]
         /\ DOMAIN queue \subseteq Nat \ {0} /\ DOMAIN queue' \subseteq Nat \ {0}
<1>1. /\ DOMAIN queue = 1 .. Len(queue) /\ Len(queue) \in Nat \ {0}
  BY LenProperties, EmptySeq
<1>2. /\ queue' \in Seq(Job) /\ Len(queue') = Len(queue) - 1
      /\ \A i \in 1 .. Len(queue') : queue'[i] = queue[i + 1]
  BY HeadTailProperties
<1>3. DOMAIN queue' = 1 .. Len(queue) - 1
  BY <1>2, LenProperties
<1>4. Head(queue) = queue[1]
  OBVIOUS
<1>5. \A i \in DOMAIN queue' : i + 1 \in DOMAIN queue /\ queue'[i] = queue[i + 1]
  BY <1>1, <1>2, <1>3
<1>6. ASSUME NEW i \in DOMAIN queue, i # 1
      PROVE  i - 1 \in DOMAIN queue' /\ queue'[i - 1] = queue[i]
  <2>1. i - 1 \in 1 .. Len(queue')
    BY <1>1, <1>2, <1>6
  <2>2. queue'[i - 1] = queue[i - 1 + 1]
    BY <1>2, <2>1
  <2> QED
    BY <1>1, <1>2, <1>3, <2>1, <2>2, <1>6
<1> QED
  BY <1>1, <1>3, <1>4, <1>5, <1>6

\* The kinds of the jobs.
LEMMA JobKinds ==
  /\ CheckpointJob \in Job /\ CheckpointJob.kind = "checkpoint"
  /\ FinalJob \in Job /\ FinalJob.kind = "final"
  /\ \A c, deeds, tries : Save(c, deeds, tries).kind = "save" /\ Save(c, deeds, tries).char = c
  BY DEF Job, CheckpointJob, FinalJob, Save

\* A step keeps what checkpointActive says.
LEMMA ActiveStep == IInv /\ ActiveSaysSo /\ [Next]_vars => ActiveSaysSo'
<1> SUFFICES ASSUME IInv, ActiveSaysSo, [Next]_vars PROVE ActiveSaysSo'
  OBVIOUS
<1> USE DEF ActiveSaysSo, Jobs, memory, pending, database, history
<1>0. /\ queue \in Seq(Job) /\ active \in BOOLEAN /\ ticking \in BOOLEAN /\ have \in [Char -> SUBSET Deed]
      /\ \A i \in DOMAIN queue : queue[i].kind = "final" => ~ticking
  BY DEF IInv, TypeOK, OneCopyWhileTicking
<1>1. ASSUME NEW r \in WorldRow, ChangeRow(r) \/ DespawnRow(r) PROVE ActiveSaysSo'
  BY <1>1 DEF ChangeRow, DespawnRow
<1>2. ASSUME NEW c \in Char, NEW d \in Deed, DoDeed(c, d) PROVE ActiveSaysSo'
  BY <1>2 DEF DoDeed
<1>3. ASSUME Checkpoint PROVE ActiveSaysSo'
  <2>1. queue' = Append(queue, CheckpointJob) /\ active' = TRUE /\ ~active /\ ticking
    BY <1>3 DEF Checkpoint
  <2>2. Jobs("checkpoint")' = {Len(queue) + 1}
    BY <1>0, <2>1, AppendPlaces, JobKinds
  <2> QED
    BY <2>1, <2>2
<1>4. ASSUME Shutdown PROVE ActiveSaysSo'
  BY <1>4 DEF Shutdown
<1>5. ASSUME NEW c \in Char, Leave(c) PROVE ActiveSaysSo'
  <2>1. queue' = Append(queue, Save(c, have[c], 0)) /\ UNCHANGED <<active, taken, ticking>>
    BY <1>5 DEF Leave
  <2>2. Save(c, have[c], 0) \in Job
    BY <1>0 DEF Save, Job
  <2>3. Jobs("checkpoint")' = Jobs("checkpoint")
    BY <1>0, <2>1, <2>2, AppendPlaces, JobKinds
  <2> QED
    BY <2>1, <2>3
<1>6. ASSUME NEW c \in Char, Join(c) PROVE ActiveSaysSo'
  BY <1>6 DEF Join
<1>7. ASSUME BuildFinal PROVE ActiveSaysSo'
  <2>1. ~ticking /\ ticking' = ticking
    BY <1>0, <1>7, HeadJob DEF BuildFinal, Running
  <2> QED
    BY <2>1
<1>8. ASSUME queue # <<>>, Head(queue).kind \in {"checkpoint", "final"}, EndCheckpoint, ticking' = ticking
      PROVE  ActiveSaysSo'
  <2> SUFFICES ASSUME ticking PROVE ActiveSaysSo'
    BY <1>8
  <2>1. /\ queue' = Tail(queue) /\ taken' = {} /\ 1 \in DOMAIN queue /\ Head(queue) = queue[1]
        /\ Head(queue).kind = "checkpoint" /\ active' = FALSE
    BY <1>0, <1>8, HeadJob DEF EndCheckpoint
  <2>2. Jobs("checkpoint") = {1}
    BY <2>1
  <2>3. Jobs("checkpoint")' = {}
    <3> SUFFICES ASSUME NEW i \in DOMAIN queue', queue'[i].kind = "checkpoint" PROVE FALSE
      OBVIOUS
    <3>1. i + 1 \in Jobs("checkpoint") /\ i \in Nat \ {0}
      BY <1>0, <1>8, <2>1, TailPlaces
    <3> QED
      BY <2>2, <3>1
  <2> QED
    BY <2>1, <2>3
<1>9. ASSUME NEW p \in taken, CheckpointCommits(p) PROVE ActiveSaysSo'
  BY <1>8, <1>9 DEF CheckpointCommits, Running
<1>10. ASSUME NEW p \in taken, NEW landed \in BOOLEAN, CheckpointFails(p, landed)
       PROVE  ActiveSaysSo'
  BY <1>8, <1>10 DEF CheckpointFails, Running
<1>11. ASSUME Running("save"), queue' = Tail(queue), UNCHANGED <<active, taken, ticking>>
       PROVE  ActiveSaysSo'
  <2>1. queue # <<>> /\ queue[1].kind = "save"
    BY <1>0, <1>11, HeadJob DEF Running
  <2>2. \A i \in Jobs("checkpoint")' : i + 1 \in Jobs("checkpoint") /\ i \in Nat
    BY <1>0, <1>11, <2>1, TailPlaces
  <2>3. \A i \in Jobs("checkpoint") : i - 1 \in Jobs("checkpoint")'
    BY <1>0, <1>11, <2>1, TailPlaces
  <2>4. ASSUME ticking PROVE \A i, j \in Jobs("checkpoint")' : i = j
    <3> SUFFICES ASSUME NEW i \in Jobs("checkpoint")', NEW j \in Jobs("checkpoint")' PROVE i = j
      OBVIOUS
    <3>1. i \in Nat /\ j \in Nat /\ i + 1 = j + 1
      BY <2>2, <2>4
    <3> QED
      BY <3>1
  <2>5. ticking => (active' <=> Jobs("checkpoint")' # {})
    <3> HIDE DEF Jobs
    <3>1. Jobs("checkpoint")' # {} <=> Jobs("checkpoint") # {}
      BY <2>2, <2>3
    <3> QED
      BY <3>1, <1>11
  <2> QED
    BY <1>11, <2>4, <2>5
<1>12. ASSUME SaveCommits PROVE ActiveSaysSo'
  BY <1>11, <1>12 DEF SaveCommits
<1>13. ASSUME NEW landed \in BOOLEAN, SaveFails(landed) PROVE ActiveSaysSo'
  <2> DEFINE retried == Save(Head(queue).char, Head(queue).deeds, Head(queue).tries + 1)
  <2>1. Running("save") /\ UNCHANGED <<active, taken, ticking>>
    BY <1>13 DEF SaveFails
  <2>2. queue' = Tail(queue) \/ queue' = [queue EXCEPT ![1] = retried]
    BY <1>13 DEF SaveFails
  <2>3. ASSUME queue' = [queue EXCEPT ![1] = retried] PROVE ActiveSaysSo'
    <3>1. queue # <<>> /\ queue[1].kind = "save" /\ retried.kind = "save" /\ 1 \in DOMAIN queue
      BY <1>0, <2>1, HeadJob, JobKinds DEF Running
    <3> HIDE DEF retried
    <3>2. Jobs("checkpoint")' = Jobs("checkpoint")
      BY <2>3, <3>1
    <3> QED
      BY <2>1, <3>2
  <2> QED
    BY <1>11, <2>1, <2>2, <2>3
<1>14. ASSUME Restart PROVE ActiveSaysSo'
  BY <1>14, EmptySeq DEF Restart
<1>15. ASSUME UNCHANGED vars PROVE ActiveSaysSo'
  BY <1>15 DEF vars
<1> QED
  BY <1>1, <1>2, <1>3, <1>4, <1>5, <1>6, <1>7, <1>9, <1>10, <1>12, <1>13, <1>14, <1>15
  DEF Next, DatabaseStep

\* The saves behind a job stay behind it when the first job is done.
LEMMA TailKeepsBehind ==
  ASSUME queue \in Seq(Job), queue # <<>>, queue' = Tail(queue), online' = online,
         NEW i \in DOMAIN queue, OnlySavesBehind(i)
  PROVE  /\ i # 1 => /\ i - 1 \in DOMAIN queue' /\ queue'[i - 1] = queue[i]
                     /\ \A j \in DOMAIN queue' : j > i - 1 =>
                          queue'[j].kind = "save" /\ queue'[j].char \notin online'
         /\ i = 1 => \A j \in DOMAIN queue' :
                       queue'[j].kind = "save" /\ queue'[j].char \notin online'
<1>1. i \in Nat \ {0} /\ \A j \in DOMAIN queue' :
        j \in Nat \ {0} /\ j + 1 \in DOMAIN queue /\ queue'[j] = queue[j + 1]
  BY TailPlaces
<1>2. i # 1 => i - 1 \in DOMAIN queue' /\ queue'[i - 1] = queue[i]
  BY TailPlaces
<1>3. ASSUME NEW j \in DOMAIN queue', j + 1 > i
      PROVE  queue'[j].kind = "save" /\ queue'[j].char \notin online'
  BY <1>1, <1>3 DEF OnlySavesBehind
<1>4. \A j \in DOMAIN queue' : (j > i - 1 \/ i = 1) => j + 1 > i
  BY <1>1
<1> QED
  BY <1>2, <1>3, <1>4

\* The same when the save of somebody who leaves joins the queue.
LEMMA AppendKeepsBehind ==
  ASSUME queue \in Seq(Job), NEW s \in Job, s.kind = "save", s.char \notin online',
         queue' = Append(queue, s), online' \subseteq online,
         NEW i \in DOMAIN queue, OnlySavesBehind(i)
  PROVE  /\ i \in DOMAIN queue' /\ queue'[i] = queue[i]
         /\ \A j \in DOMAIN queue' : j > i =>
              queue'[j].kind = "save" /\ queue'[j].char \notin online'
  BY AppendPlaces DEF OnlySavesBehind

\* A step after the shutdown keeps to the plan, and the shutdown makes it.
LEMMA PlanStep == IInv /\ DrainInv /\ [Next]_vars => ShutdownPlan'
<1> SUFFICES ASSUME IInv, DrainInv, [Next]_vars, ~ticking', ~stopFailed'
             PROVE  AllStored' \/ LastCheckpointWaits' \/ FinalWaits'
  BY DEF ShutdownPlan
<1> USE DEF memory, pending, database, history
<1>0. /\ TypeOK /\ CopiesAreWhole /\ OneCopyWhileTicking /\ ActiveSaysSo
      /\ queue \in Seq(Job) /\ have \in [Char -> SUBSET Deed] /\ online \subseteq Char
      /\ \A i \in DOMAIN queue : queue[i].kind = "final" => ~ticking
      /\ \A p, q \in taken : p = q
      /\ ~ticking /\ ~stopFailed => AllStored \/ LastCheckpointWaits \/ FinalWaits
  BY DEF IInv, TypeOK, OneCopyWhileTicking, DrainInv, ShutdownPlan
<1>1. ASSUME NEW r \in WorldRow, ChangeRow(r) \/ DespawnRow(r) PROVE FALSE
  BY <1>1 DEF ChangeRow, DespawnRow
<1>2. ASSUME NEW c \in Char, NEW d \in Deed, DoDeed(c, d) PROVE FALSE
  BY <1>2 DEF DoDeed
<1>3. ASSUME Checkpoint PROVE FALSE
  BY <1>3 DEF Checkpoint
<1>4. ASSUME NEW c \in Char, Join(c) PROVE FALSE
  BY <1>4 DEF Join
<1>5. ASSUME NEW p \in taken, NEW landed \in BOOLEAN, CheckpointFails(p, landed) PROVE FALSE
  BY <1>5 DEF CheckpointFails
<1>6. ASSUME NEW landed \in BOOLEAN, SaveFails(landed) PROVE FALSE
  BY <1>6 DEF SaveFails
<1>7. ASSUME Restart PROVE FALSE
  BY <1>7 DEF Restart
<1>8. ASSUME Shutdown PROVE LastCheckpointWaits' \/ FinalWaits'
  <2>0. PICK n \in Nat : n = Len(queue) + 1
    BY <1>0, LenProperties
  <2>1. CASE active
    <3>1. queue' = Append(queue, FinalJob) /\ charDirty' = online /\ UNCHANGED <<taken, online>> /\ ticking
      BY <1>8, <2>1 DEF Shutdown
    <3>2. /\ n \in DOMAIN queue' /\ queue'[n] = FinalJob /\ FinalJob.kind = "final"
          /\ \A i \in DOMAIN queue : i \in DOMAIN queue' /\ queue'[i] = queue[i] /\ i < n /\ i \in Nat \ {0}
          /\ \A i \in DOMAIN queue' : i \in DOMAIN queue \/ i = n
      BY <1>0, <2>0, <3>1, AppendPlaces, JobKinds
    <3>3. PICK k \in DOMAIN queue : queue[k].kind = "checkpoint"
      BY <1>0, <2>1, <3>1 DEF ActiveSaysSo, Jobs
    <3>4. k < n /\ k \in Nat \ {0}
      BY <3>2
    <3>5. n # 1 /\ ~(n > n)
      BY <3>4, <3>2
    <3>6. \A i \in DOMAIN queue : ~(i > n)
      BY <3>2
    <3>7. OnlySavesBehind(n)'
      BY <3>2, <3>5, <3>6 DEF OnlySavesBehind
    <3>8. \A j \in DOMAIN queue' : j < n => queue'[j].kind # "final"
      BY <1>0, <3>1, <3>2
    <3>9. n \in Jobs("final")' /\ k \in Jobs("checkpoint")'
      BY <3>2, <3>3 DEF Jobs
    <3> QED
      BY <3>1, <3>4, <3>5, <3>7, <3>8, <3>9 DEF FinalWaits
  <2>2. CASE ~active
    <3>1. /\ queue' = Append(queue, CheckpointJob) /\ taken' = {Snapshot(online)}
          /\ UNCHANGED <<online, mem, have>> /\ ticking
      BY <1>8, <2>2 DEF Shutdown, TakeSnapshot
    <3>2. /\ n \in DOMAIN queue' /\ queue'[n] = CheckpointJob /\ CheckpointJob.kind = "checkpoint"
          /\ \A i \in DOMAIN queue : i \in DOMAIN queue' /\ queue'[i] = queue[i] /\ i < n /\ i \in Nat \ {0}
          /\ \A i \in DOMAIN queue' : i \in DOMAIN queue \/ i = n
      BY <1>0, <2>0, <3>1, AppendPlaces, JobKinds
    <3>3. \A i \in DOMAIN queue : queue[i].kind = "save"
      <4>1. \A i \in DOMAIN queue : queue[i] \in Job
        BY <1>0
      <4>2. \A j \in Job : j.kind \in {"checkpoint", "final", "save"}
        BY DEF Job, CheckpointJob, FinalJob
      <4> QED
        BY <1>0, <2>2, <3>1, <4>1, <4>2 DEF ActiveSaysSo, Jobs
    <3>5. ~(n > n) /\ ~(n < n) /\ \A i \in DOMAIN queue : ~(i > n)
      BY <3>2
    <3>6. OnlySavesBehind(n)' /\ \A j \in DOMAIN queue' : j < n => queue'[j].kind = "save"
      BY <3>2, <3>3, <3>5 DEF OnlySavesBehind
    <3>7. CopyIsFinal'
      BY <1>0, <3>1, SnapshotType DEF CopyIsFinal
    <3>8. n \in Jobs("checkpoint")'
      BY <3>2 DEF Jobs
    <3> QED
      BY <3>6, <3>7, <3>8 DEF LastCheckpointWaits
  <2> QED
    BY <2>1, <2>2
<1>9. ASSUME NEW c \in Char, Leave(c) PROVE AllStored' \/ LastCheckpointWaits' \/ FinalWaits'
  <2> DEFINE s == Save(c, have[c], 0)
  <2>1. /\ queue' = Append(queue, s) /\ online' = online \ {c} /\ charDirty' = charDirty \ {c}
        /\ have' = [have EXCEPT ![c] = {}] /\ UNCHANGED <<mem, row, charRow, taken, ticking, stopFailed>>
    BY <1>9 DEF Leave
  <2>2. s \in Job /\ s.kind = "save" /\ s.char \notin online'
    BY <1>0, <2>1 DEF Save, Job
  <2> HIDE DEF s
  <2>3. \A o \in online' : o \in online /\ have'[o] = have[o]
    BY <1>0, <2>1
  <2>4. CopyIsFinal => CopyIsFinal'
    BY <2>1, <2>3 DEF CopyIsFinal
  <2>5. /\ \A i \in DOMAIN queue : i \in DOMAIN queue' /\ queue'[i] = queue[i]
        /\ \A j \in DOMAIN queue' : j \in DOMAIN queue \/ queue'[j] = s
        /\ \A i \in DOMAIN queue, j \in DOMAIN queue' : j < i => j \in DOMAIN queue
    BY <1>0, <2>1, <2>2, AppendPlaces
  <2>6. CASE AllStored
    BY <2>1, <2>2, <2>3, <2>5, <2>6 DEF AllStored
  <2>7. CASE LastCheckpointWaits
    <3>1. PICK i \in Jobs("checkpoint") :
            /\ OnlySavesBehind(i) /\ CopyIsFinal
            /\ \A j \in DOMAIN queue : j < i => queue[j].kind = "save"
      BY <2>7 DEF LastCheckpointWaits
    <3>2. OnlySavesBehind(i)' /\ i \in Jobs("checkpoint")'
      BY <1>0, <2>1, <2>2, <3>1, AppendKeepsBehind DEF OnlySavesBehind, Jobs
    <3>3. \A j \in DOMAIN queue' : j < i => queue'[j].kind = "save"
      BY <2>5, <3>1 DEF Jobs
    <3> QED
      BY <2>4, <3>1, <3>2, <3>3 DEF LastCheckpointWaits
  <2>8. CASE FinalWaits
    <3>1. PICK i \in Jobs("final") :
            /\ OnlySavesBehind(i)
            /\ \A j \in DOMAIN queue : j < i => queue[j].kind # "final"
            /\ taken # {} /\ i = 1 => CopyIsFinal
            /\ taken = {} \/ i # 1 => charDirty = online
            /\ taken # {} /\ i # 1 => \E k \in Jobs("checkpoint") : k < i
      BY <2>8 DEF FinalWaits
    <3>2. OnlySavesBehind(i)' /\ i \in Jobs("final")'
      BY <1>0, <2>1, <2>2, <3>1, AppendKeepsBehind DEF OnlySavesBehind, Jobs
    <3>3. \A j \in DOMAIN queue' : j < i => queue'[j].kind # "final"
      BY <2>5, <3>1 DEF Jobs
    <3>4. \A k \in Jobs("checkpoint") : k \in Jobs("checkpoint")'
      BY <2>5 DEF Jobs
    <3> QED
      BY <2>1, <2>4, <3>1, <3>2, <3>3, <3>4 DEF FinalWaits
  <2> QED
    BY <1>0, <2>1, <2>6, <2>7, <2>8
<1>10. ASSUME BuildFinal PROVE FinalWaits'
  <2>1. /\ 1 \in DOMAIN queue /\ queue[1].kind = "final" /\ taken = {} /\ taken' = {Snapshot(charDirty)}
        /\ UNCHANGED <<mem, have, online, queue, ticking, stopFailed>>
    BY <1>0, <1>10, HeadJob DEF BuildFinal, Running, TakeSnapshot
  <2>2. FinalWaits
    BY <1>0, <2>1 DEF AllStored, LastCheckpointWaits, Jobs
  <2>3. PICK i \in Jobs("final") :
          /\ OnlySavesBehind(i)
          /\ \A j \in DOMAIN queue : j < i => queue[j].kind # "final"
          /\ taken = {} \/ i # 1 => charDirty = online
    BY <2>2 DEF FinalWaits
  <2>4. i = 1 /\ charDirty = online
    BY <1>0, <2>1, <2>3, LenProperties DEF Jobs
  <2>5. CopyIsFinal'
    BY <1>0, <2>1, <2>4, SnapshotType DEF CopyIsFinal
  <2>6. OnlySavesBehind(1)' /\ 1 \in Jobs("final")'
    BY <2>1, <2>3, <2>4 DEF OnlySavesBehind, Jobs
  <2> QED
    BY <2>1, <2>3, <2>4, <2>5, <2>6 DEF FinalWaits
<1>11. ASSUME NEW p \in taken, CheckpointCommits(p) PROVE AllStored' \/ FinalWaits'
  <2>1. /\ queue # <<>> /\ queue' = Tail(queue) /\ 1 \in DOMAIN queue /\ Head(queue) = queue[1]
        /\ queue[1].kind \in {"checkpoint", "final"} /\ taken' = {}
        /\ UNCHANGED <<mem, have, online, charDirty, ticking, stopFailed>>
    BY <1>0, <1>11, HeadJob DEF CheckpointCommits, EndCheckpoint, Running
  <2>2. row' = p.image
    BY <1>0, <1>11, WritesItsImage DEF CheckpointCommits
  <2>3. \A c \in Char : charRow'[c] = IF c \in p.chars THEN p.deeds[c] ELSE charRow[c]
    BY <1>11 DEF CheckpointCommits, WritePayload
  <2>4. ASSUME CopyIsFinal, OnlySavesBehind(1) PROVE AllStored'
    <3>1. \A j \in DOMAIN queue' : queue'[j].kind = "save" /\ queue'[j].char \notin online'
      BY <1>0, <2>1, <2>4, TailKeepsBehind
    <3> QED
      BY <1>0, <2>1, <2>2, <2>3, <2>4, <3>1 DEF CopyIsFinal, AllStored
  <2>5. CASE LastCheckpointWaits
    <3>1. PICK i \in Jobs("checkpoint") :
            /\ OnlySavesBehind(i) /\ CopyIsFinal
            /\ \A j \in DOMAIN queue : j < i => queue[j].kind = "save"
      BY <2>5 DEF LastCheckpointWaits
    <3>2. i = 1
      BY <1>0, <2>1, <3>1, LenProperties DEF Jobs
    <3> QED
      BY <2>4, <3>1, <3>2
  <2>6. CASE FinalWaits
    <3>1. PICK i \in Jobs("final") :
            /\ OnlySavesBehind(i)
            /\ \A j \in DOMAIN queue : j < i => queue[j].kind # "final"
            /\ taken # {} /\ i = 1 => CopyIsFinal
            /\ taken = {} \/ i # 1 => charDirty = online
      BY <2>6 DEF FinalWaits
    <3>2. CASE i = 1
      BY <2>4, <3>1, <3>2
    <3>3. CASE i # 1
      <4>1. i \in DOMAIN queue /\ queue[i].kind = "final" /\ i \in Nat \ {0}
        BY <1>0, LenProperties DEF Jobs
      <4>2. /\ i - 1 \in DOMAIN queue' /\ queue'[i - 1] = queue[i]
            /\ \A j \in DOMAIN queue' : j > i - 1 =>
                 queue'[j].kind = "save" /\ queue'[j].char \notin online'
        BY <1>0, <2>1, <3>1, <3>3, <4>1, TailKeepsBehind
      <4>3. ASSUME NEW j \in DOMAIN queue', j < i - 1 PROVE queue'[j].kind # "final"
        <5>1. j \in Nat /\ j + 1 \in DOMAIN queue /\ queue'[j] = queue[j + 1]
          BY <1>0, <2>1, TailPlaces
        <5> QED
          BY <3>1, <4>1, <4>3, <5>1
      <4> DEFINE m == i - 1
      <4>4. OnlySavesBehind(m)' /\ m \in Jobs("final")'
        BY <4>1, <4>2 DEF OnlySavesBehind, Jobs
      <4> HIDE DEF m
      <4>5. \A j \in DOMAIN queue' : j < m => queue'[j].kind # "final"
        BY <4>3 DEF m
      <4> QED
        BY <2>1, <3>1, <3>3, <4>4, <4>5 DEF FinalWaits
    <3> QED
      BY <3>2, <3>3
  <2> QED
    BY <1>0, <2>1, <2>5, <2>6 DEF AllStored
<1>12. ASSUME SaveCommits PROVE AllStored' \/ LastCheckpointWaits' \/ FinalWaits'
  <2>1. /\ queue # <<>> /\ queue' = Tail(queue) /\ 1 \in DOMAIN queue /\ Head(queue) = queue[1]
        /\ queue[1].kind = "save" /\ charRow' = [charRow EXCEPT ![queue[1].char] = queue[1].deeds]
        /\ UNCHANGED <<mem, row, have, online, charDirty, taken, ticking, stopFailed>>
    BY <1>0, <1>12, HeadJob DEF SaveCommits, Running
  <2>2. /\ \A j \in DOMAIN queue' : j \in Nat \ {0} /\ j + 1 \in DOMAIN queue /\ queue'[j] = queue[j + 1]
        /\ \A i \in DOMAIN queue : i \in Nat \ {0}
        /\ \A i \in DOMAIN queue : i # 1 => i - 1 \in DOMAIN queue' /\ queue'[i - 1] = queue[i]
    BY <1>0, <2>1, TailPlaces
  <2>3. CASE AllStored
    <3>1. \A c \in online : charRow'[c] = charRow[c]
      BY <2>1, <2>3 DEF AllStored
    <3> QED
      BY <2>1, <2>2, <2>3, <3>1 DEF AllStored
  <2>4. ASSUME NEW i \in DOMAIN queue, i # 1, OnlySavesBehind(i) PROVE OnlySavesBehind(i - 1)'
    BY <1>0, <2>1, <2>4, TailKeepsBehind DEF OnlySavesBehind
  <2>5. CopyIsFinal => CopyIsFinal'
    BY <2>1 DEF CopyIsFinal
  <2>6. CASE LastCheckpointWaits
    <3>1. PICK i \in Jobs("checkpoint") :
            /\ OnlySavesBehind(i) /\ CopyIsFinal
            /\ \A j \in DOMAIN queue : j < i => queue[j].kind = "save"
      BY <2>6 DEF LastCheckpointWaits
    <3> DEFINE m == i - 1
    <3>2. i \in DOMAIN queue /\ i # 1 /\ queue[i].kind = "checkpoint"
      BY <2>1, <3>1 DEF Jobs
    <3>3. OnlySavesBehind(m)' /\ m \in Jobs("checkpoint")'
      BY <2>2, <2>4, <3>1, <3>2 DEF Jobs
    <3>4. \A j \in DOMAIN queue' : j < m => queue'[j].kind = "save"
      <4> SUFFICES ASSUME NEW j \in DOMAIN queue', j < i - 1 PROVE queue'[j].kind = "save"
        OBVIOUS
      <4>1. j + 1 < i /\ j + 1 \in DOMAIN queue /\ queue'[j] = queue[j + 1]
        BY <2>2, <3>2
      <4> QED
        BY <3>1, <4>1
    <3> HIDE DEF m
    <3> QED
      BY <2>5, <3>1, <3>3, <3>4 DEF LastCheckpointWaits
  <2>7. CASE FinalWaits
    <3>1. PICK i \in Jobs("final") :
            /\ OnlySavesBehind(i)
            /\ \A j \in DOMAIN queue : j < i => queue[j].kind # "final"
            /\ taken = {} \/ i # 1 => charDirty = online
            /\ taken # {} /\ i # 1 => \E k \in Jobs("checkpoint") : k < i
      BY <2>7 DEF FinalWaits
    <3> DEFINE m == i - 1
    <3>2. i \in DOMAIN queue /\ i # 1 /\ queue[i].kind = "final" /\ i \in Nat \ {0}
      BY <2>1, <2>2, <3>1 DEF Jobs
    <3>3. OnlySavesBehind(m)' /\ m \in Jobs("final")'
      BY <2>2, <2>4, <3>1, <3>2 DEF Jobs
    <3>4. \A j \in DOMAIN queue' : j < m => queue'[j].kind # "final"
      <4> SUFFICES ASSUME NEW j \in DOMAIN queue', j < i - 1 PROVE queue'[j].kind # "final"
        OBVIOUS
      <4>1. j + 1 < i /\ j + 1 \in DOMAIN queue /\ queue'[j] = queue[j + 1]
        BY <2>2, <3>2
      <4> QED
        BY <3>1, <4>1
    <3>5. ASSUME taken # {} PROVE \E k \in Jobs("checkpoint")' : k < m
      <4>1. PICK k \in Jobs("checkpoint") : k < i
        BY <3>1, <3>2, <3>5
      <4>2. k # 1 /\ k \in DOMAIN queue /\ k \in Nat /\ queue[k].kind = "checkpoint"
        BY <2>1, <2>2, <4>1 DEF Jobs
      <4>3. k - 1 \in Jobs("checkpoint")'
        BY <2>2, <4>2 DEF Jobs
      <4>4. k - 1 < m
        BY <3>2, <4>1, <4>2
      <4> QED
        BY <4>3, <4>4
    <3>6. taken # {} => m # 1
      <4> SUFFICES ASSUME taken # {}, m = 1 PROVE FALSE
        OBVIOUS
      <4>1. PICK k \in Jobs("checkpoint")' : k < m
        BY <3>5
      <4>2. k \in Nat \ {0}
        BY <2>2 DEF Jobs
      <4> QED
        BY <4>1, <4>2
    <3> HIDE DEF m
    <3> QED
      BY <2>1, <3>1, <3>2, <3>3, <3>4, <3>5, <3>6 DEF FinalWaits
  <2> QED
    BY <1>0, <2>1, <2>3, <2>6, <2>7
<1>13. ASSUME UNCHANGED vars PROVE AllStored' \/ LastCheckpointWaits' \/ FinalWaits'
  BY <1>0, <1>13 DEF vars, AllStored, LastCheckpointWaits, FinalWaits, OnlySavesBehind, CopyIsFinal, Jobs
<1> QED
  BY <1>1, <1>2, <1>3, <1>4, <1>5, <1>6, <1>7, <1>8, <1>9, <1>10, <1>11, <1>12, <1>13
  DEF Next, DatabaseStep

\* When the queue has drained after the shutdown and nothing has failed since, the
\* database holds the whole room and every session of it: a final checkpoint behind one in
\* flight, or coalesced with none, misses nothing (Flusher.shutdown, flusher.ts).
THEOREM ShutdownStoresAll == Spec => []DrainedShutdownIsComplete
<1>1. Init => DrainInv
  BY EmptySeq DEF Init, DrainInv, ActiveSaysSo, ShutdownPlan, Jobs
<1>2. IInv /\ DrainInv /\ [Next]_vars => DrainInv'
  BY ActiveStep, PlanStep DEF DrainInv
<1>3. DrainInv => DrainedShutdownIsComplete
  BY EmptySeq DEF DrainInv, ShutdownPlan, AllStored, LastCheckpointWaits, FinalWaits, Jobs, DrainedShutdownIsComplete
<1> QED
  BY <1>1, <1>2, <1>3, Invariance, PTL DEF Spec
--------------------------------------------------------------------------------
\* The checkpoints that wait or run.
Copies == {i \in DOMAIN queue : queue[i].kind # "save"}

\* Of a character that was not read too early: online, it has no save waiting and carries
\* what is stored; a save of it that waits carries what is stored.
SavesAreLater ==
  \A c \in Char \ early :
    /\ c \in online => SavesOf(c) = {} /\ charRow[c] \subseteq have[c]
    /\ \A i, j \in SavesOf(c) : i = j
    /\ \A i \in SavesOf(c) : charRow[c] \subseteq queue[i].deeds

\* A copy is a job's, and whoever it carries is online or has a save behind it. Of a
\* character that was not read too early it carries what is stored, and is written before
\* any save made since.
CopiesAreInOrder ==
  /\ taken # {} => Copies # {}
  /\ \A p \in taken : \A c \in p.chars :
       c \in Char /\ (c \in online \/ \E i \in SavesOf(c), k \in Copies : k < i)
  /\ \A p \in taken : \A c \in p.chars \ early :
       /\ charRow[c] \subseteq p.deeds[c]
       /\ c \in online => p.deeds[c] \subseteq have[c]
       /\ \A i \in SavesOf(c) : /\ p.deeds[c] \subseteq queue[i].deeds
                                /\ \E k \in Copies : k < i

DeedInv == SavesAreLater /\ CopiesAreInOrder

\* A copy taken when no other is on its way carries nobody who has a save waiting.
LEMMA SnapshotInOrder ==
  ASSUME TypeOK, SavesAreLater, NEW cs \in SUBSET online, taken' = {Snapshot(cs)},
         UNCHANGED <<online, have, charRow, early>>, Copies' # {},
         \A c \in Char : SavesOf(c)' = {} <=> SavesOf(c) = {}
  PROVE  CopiesAreInOrder'
<1>1. cs \in SUBSET Char
  BY DEF TypeOK
<1>2. Snapshot(cs).chars = cs /\ Snapshot(cs).deeds = have
  BY <1>1, SnapshotType
<1> QED
  BY <1>1, <1>2 DEF SavesAreLater, CopiesAreInOrder

\* What the queue's saves and checkpoints are after a job that is not a save is appended.
LEMMA AppendCopy ==
  ASSUME queue \in Seq(Job), NEW j \in Job, j.kind # "save", queue' = Append(queue, j)
  PROVE  /\ \A c \in Char : SavesOf(c)' = SavesOf(c)
         /\ \A i \in DOMAIN queue : queue'[i] = queue[i]
         /\ Copies' # {} /\ Copies \subseteq Copies'
  BY AppendPlaces DEF SavesOf, Jobs, Copies

\* The same when its first job is done.
LEMMA TailJobs ==
  ASSUME queue \in Seq(Job), queue # <<>>, queue' = Tail(queue)
  PROVE  /\ \A c \in Char : \A i \in SavesOf(c)' :
              i \in Nat \ {0} /\ i + 1 \in SavesOf(c) /\ queue'[i] = queue[i + 1]
         /\ \A k \in Copies : k \in Nat \ {0} /\ (k # 1 => k - 1 \in Copies')
         /\ 1 \in DOMAIN queue /\ Head(queue) = queue[1]
  BY TailPlaces DEF SavesOf, Jobs, Copies

\* The end of a checkpoint, written or not.
LEMMA EndInOrder ==
  ASSUME TypeOK, DeedInv, queue # <<>>, EndCheckpoint, UNCHANGED <<online, have, early>>,
         NEW p \in taken, WritePayload(p) \/ charRow' = charRow
  PROVE  DeedInv'
<1>1. queue \in Seq(Job) /\ queue' = Tail(queue) /\ taken' = {}
  BY DEF TypeOK, EndCheckpoint
<1>2. \A c \in Char : \/ charRow'[c] = charRow[c]
                      \/ c \in p.chars /\ charRow'[c] = p.deeds[c]
  BY DEF WritePayload
<1>3. \A c \in Char : \A i \in SavesOf(c)' :
        i \in Nat \ {0} /\ i + 1 \in SavesOf(c) /\ queue'[i] = queue[i + 1]
  BY <1>1, TailJobs
<1>4. ASSUME NEW c \in Char \ early, NEW i \in SavesOf(c)', NEW j \in SavesOf(c)' PROVE i = j
  <2>1. i + 1 = j + 1 /\ i \in Nat /\ j \in Nat
    BY <1>3 DEF DeedInv, SavesAreLater
  <2> QED
    BY <2>1
<1>5. ASSUME NEW c \in Char \ early, NEW i \in SavesOf(c)' PROVE charRow'[c] \subseteq queue'[i].deeds
  <2>1. i + 1 \in SavesOf(c) /\ queue'[i] = queue[i + 1]
    BY <1>3
  <2>2. charRow[c] \subseteq queue[i + 1].deeds /\ (c \in p.chars => p.deeds[c] \subseteq queue[i + 1].deeds)
    BY <2>1 DEF DeedInv, SavesAreLater, CopiesAreInOrder
  <2> QED
    BY <1>2, <2>1, <2>2
<1>6. ASSUME NEW c \in Char \ early, c \in online PROVE SavesOf(c)' = {} /\ charRow'[c] \subseteq have'[c]
  <2>1. SavesOf(c) = {} /\ charRow[c] \subseteq have[c] /\ (c \in p.chars => p.deeds[c] \subseteq have[c])
    BY <1>6 DEF DeedInv, SavesAreLater, CopiesAreInOrder
  <2> QED
    BY <1>2, <1>3, <2>1
<1>7. SavesAreLater'
  BY <1>4, <1>5, <1>6 DEF SavesAreLater
<1> QED
  BY <1>1, <1>7 DEF DeedInv, CopiesAreInOrder

\* The first job, a save, is done or has failed for good, whether or not it landed.
LEMMA SaveInOrder ==
  ASSUME TypeOK, DeedInv, Running("save"), queue' = Tail(queue), UNCHANGED <<online, have, taken, early>>,
         \/ charRow' = [charRow EXCEPT ![Head(queue).char] = Head(queue).deeds]
         \/ charRow' = charRow
  PROVE  DeedInv'
<1>1. queue \in Seq(Job) /\ queue # <<>> /\ charRow \in [Char -> SUBSET Deed]
  BY DEF TypeOK, Running
<1>2. /\ 1 \in DOMAIN queue /\ Head(queue) = queue[1] /\ queue[1].kind = "save"
  BY <1>1, HeadJob DEF Running
<1>3. /\ \A c \in Char : \A i \in SavesOf(c)' :
           i \in Nat \ {0} /\ i + 1 \in SavesOf(c) /\ queue'[i] = queue[i + 1]
      /\ \A k \in Copies : k \in Nat \ {0} /\ (k # 1 => k - 1 \in Copies')
  BY <1>1, TailJobs
<1>4. \A k \in Copies : k # 1
  BY <1>2 DEF Copies
<1>5. \A c \in Char : \/ charRow'[c] = charRow[c]
                      \/ 1 \in SavesOf(c) /\ charRow'[c] = queue[1].deeds
  BY <1>1, <1>2 DEF SavesOf, Jobs
<1>6. \A c \in Char \ early : \A i \in SavesOf(c)' : 1 \notin SavesOf(c)
  <2> SUFFICES ASSUME NEW c \in Char \ early, NEW i \in SavesOf(c)', 1 \in SavesOf(c) PROVE FALSE
    OBVIOUS
  <2>1. i + 1 = 1 /\ i \in Nat \ {0}
    BY <1>3 DEF DeedInv, SavesAreLater
  <2> QED
    BY <2>1
<1>7. ASSUME NEW c \in Char \ early, NEW i \in SavesOf(c)', NEW j \in SavesOf(c)' PROVE i = j
  <2>1. i + 1 = j + 1 /\ i \in Nat /\ j \in Nat
    BY <1>3 DEF DeedInv, SavesAreLater
  <2> QED
    BY <2>1
<1>8. SavesAreLater'
  <2>1. ASSUME NEW c \in Char \ early, NEW i \in SavesOf(c)' PROVE charRow'[c] \subseteq queue'[i].deeds
    <3>1. i + 1 \in SavesOf(c) /\ queue'[i] = queue[i + 1] /\ 1 \notin SavesOf(c)
      BY <1>3, <1>6
    <3> QED
      BY <1>5, <3>1 DEF DeedInv, SavesAreLater
  <2>2. ASSUME NEW c \in Char \ early, c \in online PROVE SavesOf(c)' = {} /\ charRow'[c] \subseteq have'[c]
    <3>1. SavesOf(c) = {} /\ charRow[c] \subseteq have[c]
      BY <2>2 DEF DeedInv, SavesAreLater
    <3> QED
      BY <1>3, <1>5, <3>1
  <2> QED
    BY <1>7, <2>1, <2>2 DEF SavesAreLater
<1>9. taken' # {} => Copies' # {}
  BY <1>3, <1>4 DEF DeedInv, CopiesAreInOrder
<1>10. ASSUME NEW p \in taken, NEW c \in p.chars \ early
       PROVE  /\ charRow'[c] = charRow[c]
              /\ \A i \in SavesOf(c)' : /\ p.deeds[c] \subseteq queue'[i].deeds
                                        /\ \E k \in Copies' : k < i
  <2>1. c \in Char /\ \A i \in SavesOf(c) : /\ p.deeds[c] \subseteq queue[i].deeds
                                            /\ \E k \in Copies : k < i
    BY DEF DeedInv, CopiesAreInOrder
  <2>2. 1 \notin SavesOf(c)
    BY <1>3, <2>1
  <2>3. ASSUME NEW i \in SavesOf(c)' PROVE \E k \in Copies' : k < i
    <3>1. PICK k \in Copies : k < i + 1
      BY <1>3, <2>1
    <3>2. k \in Nat \ {0} /\ k # 1 /\ k - 1 \in Copies' /\ i \in Nat
      BY <1>3, <1>4, <2>1, <3>1
    <3>3. k - 1 < i
      BY <3>1, <3>2
    <3> QED
      BY <3>2, <3>3
  <2> QED
    BY <1>3, <1>5, <2>1, <2>2, <2>3
<1>11. ASSUME NEW p \in taken, NEW c \in p.chars
       PROVE  c \in Char /\ (c \in online \/ \E i \in SavesOf(c)', k \in Copies' : k < i)
  <2>1. ASSUME NEW i \in SavesOf(c), NEW k \in Copies, k < i
        PROVE  i - 1 \in SavesOf(c)' /\ k - 1 \in Copies' /\ k - 1 < i - 1
    <3>1. k \in Nat \ {0} /\ k # 1 /\ k - 1 \in Copies'
      BY <1>3, <1>4
    <3>2. i \in Nat /\ i # 1
      <4>1. i \in Nat
        BY <1>1, LenProperties DEF SavesOf, Jobs
      <4> QED
        BY <2>1, <3>1, <4>1
    <3>3. i - 1 \in SavesOf(c)'
      BY <1>1, <3>2, TailPlaces DEF SavesOf, Jobs
    <3> QED
      BY <2>1, <3>1, <3>2, <3>3
  <2> QED
    BY <2>1 DEF DeedInv, CopiesAreInOrder
<1>12. CopiesAreInOrder'
  BY <1>9, <1>10, <1>11 DEF DeedInv, CopiesAreInOrder
<1> QED
  BY <1>8, <1>12 DEF DeedInv

\* A save that is tried again is the same save.
LEMMA RetryInOrder ==
  ASSUME TypeOK, DeedInv, Running("save"), UNCHANGED <<online, have, taken, early>>,
         NEW tries, queue' = [queue EXCEPT ![1] = Save(Head(queue).char, Head(queue).deeds, tries)],
         \/ charRow' = [charRow EXCEPT ![Head(queue).char] = Head(queue).deeds]
         \/ charRow' = charRow
  PROVE  DeedInv'
<1>1. queue \in Seq(Job) /\ queue # <<>> /\ charRow \in [Char -> SUBSET Deed]
  BY DEF TypeOK, Running
<1>2. /\ 1 \in DOMAIN queue /\ Head(queue) = queue[1] /\ queue[1].kind = "save"
      /\ DOMAIN queue \subseteq Nat \ {0}
  BY <1>1, HeadJob, LenProperties DEF Running
<1> DEFINE again == Save(queue[1].char, queue[1].deeds, tries)
<1>3. again.kind = "save" /\ again.char = queue[1].char /\ again.deeds = queue[1].deeds
  BY DEF Save
<1>4. queue' = [queue EXCEPT ![1] = again]
  BY <1>2
<1> HIDE DEF again
<1>5. \A c \in Char : SavesOf(c)' = SavesOf(c) /\ \A i \in SavesOf(c) : queue'[i].deeds = queue[i].deeds
  BY <1>2, <1>3, <1>4 DEF SavesOf, Jobs
<1>6. Copies' = Copies
  BY <1>2, <1>3, <1>4 DEF Copies
<1>7. \A c \in Char : \/ charRow'[c] = charRow[c]
                      \/ 1 \in SavesOf(c) /\ charRow'[c] = queue[1].deeds
  BY <1>1, <1>2 DEF SavesOf, Jobs
<1>8. SavesAreLater'
  BY <1>5, <1>7 DEF DeedInv, SavesAreLater
<1>9. \A p \in taken : \A c \in p.chars \ early : 1 \notin SavesOf(c)
  BY <1>2 DEF DeedInv, CopiesAreInOrder, Copies
<1>10. CopiesAreInOrder'
  BY <1>5, <1>6, <1>7, <1>9 DEF DeedInv, CopiesAreInOrder
<1> QED
  BY <1>8, <1>10 DEF DeedInv

\* Every step keeps the saves in order, of all that were not read too early.
LEMMA DeedStep == IInv /\ DeedInv /\ [Next]_vars => DeedInv'
<1> SUFFICES ASSUME IInv, DeedInv, [Next]_vars PROVE DeedInv'
  OBVIOUS
<1> USE DEF memory, pending, database, history
<1>0. /\ TypeOK /\ SavesAreLater /\ CopiesAreInOrder /\ OneCopyWhileTicking
      /\ queue \in Seq(Job) /\ have \in [Char -> SUBSET Deed] /\ online \subseteq Char
      /\ charDirty \subseteq online
  BY DEF IInv, TypeOK, DeedInv
<1>1. ASSUME UNCHANGED <<online, have, queue, taken, charRow, early>> PROVE DeedInv'
  BY <1>1 DEF DeedInv, SavesAreLater, CopiesAreInOrder, SavesOf, Jobs, Copies
<1>2. ASSUME NEW r \in WorldRow, ChangeRow(r) \/ DespawnRow(r) PROVE DeedInv'
  BY <1>1, <1>2 DEF ChangeRow, DespawnRow
<1>3. ASSUME NEW c \in Char, NEW d \in Deed, DoDeed(c, d) PROVE DeedInv'
  <2>1. UNCHANGED <<online, queue, taken, charRow, early>> /\ \A o \in Char : have[o] \subseteq have'[o]
    BY <1>0, <1>3 DEF DoDeed
  <2> QED
    BY <2>1 DEF DeedInv, SavesAreLater, CopiesAreInOrder, SavesOf, Jobs, Copies
<1>4. ASSUME NEW j \in Job, j.kind # "save", queue' = Append(queue, j),
             UNCHANGED <<online, have, charRow, early>>, taken' = taken
      PROVE  DeedInv'
  <2>1. /\ \A c \in Char : SavesOf(c)' = SavesOf(c)
        /\ \A i \in DOMAIN queue : queue'[i] = queue[i]
        /\ Copies' # {} /\ Copies \subseteq Copies'
    BY <1>0, <1>4, AppendCopy
  <2>2. \A c \in Char : \A i \in SavesOf(c) : i \in DOMAIN queue
    BY DEF SavesOf, Jobs
  <2>3. SavesAreLater'
    BY <1>4, <2>1, <2>2 DEF DeedInv, SavesAreLater
  <2>4. CopiesAreInOrder'
    BY <1>4, <2>1, <2>2 DEF DeedInv, CopiesAreInOrder
  <2> QED
    BY <2>3, <2>4 DEF DeedInv
<1>5. ASSUME NEW cs \in SUBSET online, queue' = Append(queue, CheckpointJob),
             UNCHANGED <<online, have, charRow, early>>, taken' = {Snapshot(cs)}
      PROVE  DeedInv'
  <2>1. /\ \A c \in Char : SavesOf(c)' = SavesOf(c)
        /\ \A i \in DOMAIN queue : queue'[i] = queue[i]
        /\ Copies' # {}
    BY <1>0, <1>5, AppendCopy, JobKinds
  <2>2. \A c \in Char : \A i \in SavesOf(c) : i \in DOMAIN queue
    BY DEF SavesOf, Jobs
  <2>3. SavesAreLater'
    BY <1>5, <2>1, <2>2 DEF DeedInv, SavesAreLater
  <2>4. CopiesAreInOrder'
    BY <1>0, <1>5, <2>1, SnapshotInOrder
  <2> QED
    BY <2>3, <2>4 DEF DeedInv
<1>6. ASSUME Checkpoint PROVE DeedInv'
  BY <1>0, <1>5, <1>6 DEF Checkpoint, TakeSnapshot
<1>7. ASSUME Shutdown PROVE DeedInv'
  BY <1>0, <1>4, <1>5, <1>7, JobKinds DEF Shutdown, TakeSnapshot
<1>8. ASSUME NEW c \in Char, Leave(c) PROVE DeedInv'
  <2> DEFINE s == Save(c, have[c], 0)
  <2>1. /\ queue' = Append(queue, s) /\ online' = online \ {c} /\ c \in online
        /\ have' = [have EXCEPT ![c] = {}] /\ UNCHANGED <<charRow, taken, early>>
    BY <1>8 DEF Leave
  <2>2. s \in Job /\ s.kind = "save" /\ s.char = c /\ s.deeds = have[c]
    BY <1>0 DEF Save, Job
  <2> HIDE DEF s
  <2>0. PICK n \in Nat : n = Len(queue) + 1
    BY <1>0, LenProperties
  <2>3. /\ \A i \in DOMAIN queue : /\ i \in DOMAIN queue' /\ queue'[i] = queue[i] /\ i < n
        /\ n \in DOMAIN queue' /\ queue'[n] = s
        /\ \A i \in DOMAIN queue' : i \in DOMAIN queue \/ i = n
    BY <1>0, <2>0, <2>1, <2>2, AppendPlaces
  <2>4. n \notin DOMAIN queue
    BY <2>3
  <2>5. /\ n \in SavesOf(c)' /\ queue'[n].deeds = have[c]
        /\ c \notin early => SavesOf(c)' = {n}
    BY <1>0, <2>1, <2>2, <2>3, <2>4 DEF SavesAreLater, SavesOf, Jobs
  <2>6. \A o \in Char \ {c} : /\ SavesOf(o)' = SavesOf(o) /\ \A i \in SavesOf(o) : queue'[i] = queue[i]
    BY <2>2, <2>3, <2>4 DEF SavesOf, Jobs
  <2>7. Copies' = Copies /\ \A k \in Copies : k < n
    BY <2>2, <2>3, <2>4 DEF Copies
  <2>8. \A o \in Char \ {c} : have'[o] = have[o] /\ (o \in online' <=> o \in online)
    BY <1>0, <2>1
  <2>9. SavesAreLater'
    <3>1. c \notin online' /\ (c \notin early => charRow[c] \subseteq have[c]) /\ charRow' = charRow
      BY <1>0, <2>1 DEF SavesAreLater
    <3>2. ASSUME NEW o \in Char \ early, o # c
          PROVE  /\ o \in online' => SavesOf(o)' = {} /\ charRow'[o] \subseteq have'[o]
                 /\ \A i, j \in SavesOf(o)' : i = j
                 /\ \A i \in SavesOf(o)' : charRow'[o] \subseteq queue'[i].deeds
      BY <1>0, <2>6, <2>8, <3>1, <3>2 DEF SavesAreLater
    <3>3. early' = early
      BY <2>1
    <3> QED
      BY <2>5, <3>1, <3>2, <3>3 DEF SavesAreLater
  <2>10. ASSUME NEW p \in taken, NEW o \in p.chars \ early
         PROVE  /\ o \in Char /\ charRow[o] \subseteq p.deeds[o]
                /\ o \in online' => p.deeds[o] \subseteq have'[o]
                /\ \A i \in SavesOf(o)' : /\ p.deeds[o] \subseteq queue'[i].deeds
                                          /\ \E k \in Copies' : k < i
    <3>1. CASE o = c
      <4>1. p.deeds[c] \subseteq have[c] /\ Copies # {} /\ charRow[c] \subseteq p.deeds[c]
        BY <1>0, <2>1, <3>1 DEF CopiesAreInOrder
      <4>2. o \notin online'
        BY <2>1, <3>1
      <4> QED
        BY <2>5, <2>7, <3>1, <4>1, <4>2
    <3>2. CASE o # c
      BY <1>0, <2>6, <2>7, <2>8, <3>2 DEF CopiesAreInOrder
    <3> QED
      BY <3>1, <3>2
  <2>11. ASSUME NEW p \in taken, NEW o \in p.chars
         PROVE  o \in Char /\ (o \in online' \/ \E i \in SavesOf(o)', k \in Copies' : k < i)
    <3>1. CASE o = c
      <4>1. PICK k \in Copies : TRUE
        BY <1>0 DEF CopiesAreInOrder
      <4> QED
        BY <2>1, <2>5, <2>7, <3>1, <4>1
    <3>2. CASE o # c
      BY <1>0, <2>6, <2>7, <2>8, <3>2 DEF CopiesAreInOrder
    <3> QED
      BY <3>1, <3>2
  <2>12. CopiesAreInOrder'
    BY <1>0, <2>1, <2>7, <2>10, <2>11 DEF CopiesAreInOrder
  <2> QED
    BY <2>9, <2>12 DEF DeedInv
<1>9. ASSUME NEW c \in Char, Join(c) PROVE DeedInv'
  <2>1. /\ UNCHANGED <<charRow, taken, queue>> /\ c \notin online
        /\ online' = online \cup {c} /\ have' = [have EXCEPT ![c] = charRow[c]]
        /\ \/ early' = early \cup {c}
           \/ SavesOf(c) = {} /\ early' = early \ {c}
    BY <1>9 DEF Join
  <2>2. Copies' = Copies /\ \A o \in Char : SavesOf(o)' = SavesOf(o)
    BY <2>1 DEF Copies, SavesOf, Jobs
  <2>3. \A o \in Char : /\ o # c => have'[o] = have[o] /\ (o \in early' <=> o \in early)
                        /\ o = c => have'[o] = charRow[o]
    BY <1>0, <2>1
  <2>4. SavesAreLater'
    BY <1>0, <2>1, <2>2, <2>3 DEF SavesAreLater
  <2>5. \A p \in taken : \A o \in p.chars : o \in Char /\ (o = c => o \in early')
    BY <1>0, <2>1 DEF CopiesAreInOrder
  <2>6. CopiesAreInOrder'
    BY <1>0, <2>1, <2>2, <2>3, <2>5 DEF CopiesAreInOrder
  <2> QED
    BY <2>4, <2>6 DEF DeedInv
<1>10. ASSUME BuildFinal PROVE DeedInv'
  <2>1. /\ 1 \in DOMAIN queue /\ queue[1].kind = "final" /\ taken' = {Snapshot(charDirty)}
        /\ UNCHANGED <<have, online, queue, charRow, early>>
    BY <1>0, <1>10, HeadJob DEF BuildFinal, Running, TakeSnapshot
  <2>2. Copies' # {} /\ \A c \in Char : SavesOf(c)' = SavesOf(c)
    BY <2>1 DEF Copies, SavesOf, Jobs
  <2>3. CopiesAreInOrder'
    BY <1>0, <2>1, <2>2, SnapshotInOrder
  <2>4. SavesAreLater'
    BY <1>0, <2>1, <2>2 DEF SavesAreLater
  <2> QED
    BY <2>3, <2>4 DEF DeedInv
<1>11. ASSUME NEW p \in taken, CheckpointCommits(p) PROVE DeedInv'
  BY <1>0, <1>11, EndInOrder DEF CheckpointCommits, Running
<1>12. ASSUME NEW p \in taken, NEW landed \in BOOLEAN, CheckpointFails(p, landed) PROVE DeedInv'
  BY <1>0, <1>12, EndInOrder DEF CheckpointFails, Running
<1>13. ASSUME SaveCommits PROVE DeedInv'
  BY <1>0, <1>13, SaveInOrder DEF SaveCommits
<1>14. ASSUME NEW landed \in BOOLEAN, SaveFails(landed) PROVE DeedInv'
  <2>1. /\ Running("save") /\ UNCHANGED <<online, have, taken, early>>
        /\ \/ charRow' = [charRow EXCEPT ![Head(queue).char] = Head(queue).deeds]
           \/ charRow' = charRow
        /\ \/ queue' = Tail(queue)
           \/ queue' = [queue EXCEPT ![1] = Save(Head(queue).char, Head(queue).deeds, Head(queue).tries + 1)]
    BY <1>14 DEF SaveFails
  <2> QED
    BY <1>0, <2>1, SaveInOrder, RetryInOrder
<1>15. ASSUME Restart PROVE DeedInv'
  BY <1>15, EmptySeq DEF Restart, DeedInv, SavesAreLater, CopiesAreInOrder, SavesOf, Jobs, Copies
<1>16. ASSUME UNCHANGED vars PROVE DeedInv'
  BY <1>1, <1>16 DEF vars
<1> QED
  BY <1>2, <1>3, <1>6, <1>7, <1>8, <1>9, <1>10, <1>11, <1>12, <1>13, <1>14, <1>15, <1>16
  DEF Next, DatabaseStep

\* No save takes back what an earlier one stored, of any character whose session was not
\* read before its own save had ended: a disconnect save lands behind the checkpoint in
\* flight, and a session that returns reads what both have written (savePlayer, drain and
\* checkpoint), however other characters' saves fail and however drains are cut off.
THEOREM StoredStays == Spec => StoredDeedsStay
<1>1. Init => DeedInv
  BY EmptySeq DEF Init, DeedInv, SavesAreLater, CopiesAreInOrder, SavesOf, Jobs, Copies
<1>2. IInv /\ DeedInv /\ [Next]_vars => DeedInv'
  BY DeedStep
<1>3. IInv /\ DeedInv /\ [Next]_vars => [\A c \in Char \ early : charRow[c] \subseteq charRow'[c]]_vars
  <2> SUFFICES ASSUME IInv, DeedInv, Next, NEW c \in Char \ early PROVE charRow[c] \subseteq charRow'[c]
    BY DEF vars
  <2> USE DEF memory, pending, database, history
  <2>0. queue \in Seq(Job) /\ charRow \in [Char -> SUBSET Deed]
    BY DEF IInv, TypeOK
  <2>1. ASSUME NEW p \in taken, WritePayload(p) PROVE charRow[c] \subseteq charRow'[c]
    BY <2>1 DEF WritePayload, DeedInv, CopiesAreInOrder
  <2>2. ASSUME Running("save"), charRow' = [charRow EXCEPT ![Head(queue).char] = Head(queue).deeds]
        PROVE  charRow[c] \subseteq charRow'[c]
    <3>1. 1 \in DOMAIN queue /\ Head(queue) = queue[1] /\ queue[1].kind = "save"
      BY <2>0, <2>2, HeadJob DEF Running
    <3>2. c = queue[1].char => charRow[c] \subseteq queue[1].deeds
      BY <3>1 DEF DeedInv, SavesAreLater, SavesOf, Jobs
    <3> QED
      BY <2>0, <2>2, <3>1, <3>2
  <2>3. ASSUME NEW p \in taken, NEW landed \in BOOLEAN, CheckpointCommits(p) \/ CheckpointFails(p, landed)
        PROVE  charRow[c] \subseteq charRow'[c]
    BY <2>1, <2>3 DEF CheckpointCommits, CheckpointFails
  <2>4. ASSUME NEW landed \in BOOLEAN, SaveCommits \/ SaveFails(landed)
        PROVE  charRow[c] \subseteq charRow'[c]
    BY <2>2, <2>4 DEF SaveCommits, SaveFails
  <2>5. ASSUME UNCHANGED charRow PROVE charRow[c] \subseteq charRow'[c]
    BY <2>5
  <2> QED
    BY <2>3, <2>4, <2>5
    DEF Next, DatabaseStep, ChangeRow, DespawnRow, DoDeed, Checkpoint, Shutdown, Leave, Join,
        BuildFinal, Restart
<1> QED
  BY <1>1, <1>2, <1>3, Invariance, PTL DEF Spec, StoredDeedsStay
--------------------------------------------------------------------------------
\* A step that leaves the rows' two copies alone is a stutter of the abstract flusher.
LEMMA RowsUntouched ==
  ASSUME UNCHANGED <<mem, row, taken>>
  PROVE  UNCHANGED Behind!behindVars
  BY DEF Behind!behindVars

\* Taking the dirty rows is taking an image of the whole world.
LEMMA SnapshotIsImage ==
  ASSUME taken = {}, NEW cs, taken' = {Snapshot(cs)}, UNCHANGED <<mem, row>>
  PROVE  Behind!TakeImage
<1>1. {p.image : p \in taken} = {}
  OBVIOUS
<1>2. {p.image : p \in taken}' = {mem}
  BY DEF Snapshot
<1> QED
  BY <1>1, <1>2 DEF Behind!TakeImage

\* The write-behind queue implements the abstract flusher: dirty flags, deletes, queued
\* final checkpoints and restored flags amount to whole copies of the world, written one
\* at a time, so that a crash falls back to a state the room has been in.
THEOREM FlusherImplementsWriteBehind == Spec => StoresWholeWorlds
<1>1. Init => Behind!BehindInit
  BY DEF Init, Behind!BehindInit, Behind!World, Version, Absent, FlusherAssumptions
<1>2. IInv /\ IInv' /\ [Next]_vars => [Behind!BehindNext]_(Behind!behindVars)
  <2> SUFFICES ASSUME IInv, IInv', [Next]_vars
               PROVE  Behind!BehindNext \/ UNCHANGED Behind!behindVars
    OBVIOUS
  <2> USE DEF memory, pending, database, history
  <2>0. /\ TypeOK /\ CopiesAreWhole /\ OneCopyWhileTicking
        /\ mem' \in Behind!World
    BY DEF IInv, TypeOK, Behind!World
  <2>1. ASSUME UNCHANGED <<row, taken>> PROVE Behind!Simulate
    BY <2>0, <2>1 DEF Behind!Simulate
  <2>2. ASSUME NEW r \in WorldRow, ChangeRow(r) \/ DespawnRow(r) PROVE Behind!BehindNext
    BY <2>1, <2>2 DEF ChangeRow, DespawnRow, Behind!BehindNext
  <2>3. ASSUME \/ \E c \in Char, d \in Deed : DoDeed(c, d)
               \/ \E c \in Char : Leave(c) \/ Join(c)
               \/ SaveCommits
               \/ \E landed \in BOOLEAN : SaveFails(landed)
        PROVE  UNCHANGED Behind!behindVars
    <3>1. UNCHANGED <<mem, row, taken>>
      BY <2>3 DEF DoDeed, Leave, Join, SaveCommits, SaveFails
    <3> QED
      BY <3>1, RowsUntouched
  <2>4. ASSUME Checkpoint PROVE Behind!BehindNext
    <3>1. taken = {} /\ taken' = {Snapshot(charDirty)} /\ UNCHANGED <<mem, row>>
      BY <2>0, <2>4 DEF Checkpoint, TakeSnapshot, OneCopyWhileTicking
    <3> QED
      BY <3>1, SnapshotIsImage DEF Behind!BehindNext
  <2>5. ASSUME Shutdown PROVE Behind!BehindNext \/ UNCHANGED Behind!behindVars
    <3>1. CASE active
      <4>1. UNCHANGED <<mem, row, taken>>
        BY <2>5, <3>1 DEF Shutdown
      <4> QED
        BY <4>1, RowsUntouched
    <3>2. CASE ~active
      <4>1. taken = {} /\ taken' = {Snapshot(online)} /\ UNCHANGED <<mem, row>>
        BY <2>0, <2>5, <3>2 DEF Shutdown, TakeSnapshot, OneCopyWhileTicking
      <4> QED
        BY <4>1, SnapshotIsImage DEF Behind!BehindNext
    <3> QED
      BY <3>1, <3>2
  <2>6. ASSUME BuildFinal PROVE Behind!BehindNext
    <3>1. taken = {} /\ taken' = {Snapshot(charDirty)} /\ UNCHANGED <<mem, row>>
      BY <2>6 DEF BuildFinal, TakeSnapshot
    <3> QED
      BY <3>1, SnapshotIsImage DEF Behind!BehindNext
  <2>7. ASSUME NEW p \in taken, WritePayload(p), taken' = {}, UNCHANGED mem
        PROVE  Behind!WriteImage
    <3>1. row' = p.image /\ p.image \in {q.image : q \in taken}
      BY <2>0, <2>7, WritesItsImage
    <3>2. {q.image : q \in taken}' = {}
      BY <2>7
    <3> QED
      BY <2>7, <3>1, <3>2 DEF Behind!WriteImage
  <2>8. ASSUME NEW p \in taken, CheckpointCommits(p) PROVE Behind!BehindNext
    <3>1. WritePayload(p) /\ taken' = {} /\ UNCHANGED mem
      BY <2>8 DEF CheckpointCommits, EndCheckpoint
    <3> QED
      BY <2>7, <3>1 DEF Behind!BehindNext
  <2>9. ASSUME NEW p \in taken, NEW landed \in BOOLEAN, CheckpointFails(p, landed)
        PROVE  Behind!BehindNext
    <3>1. taken' = {} /\ UNCHANGED mem
      BY <2>9 DEF CheckpointFails, EndCheckpoint
    <3>2. CASE landed
      BY <2>7, <2>9, <3>1, <3>2 DEF CheckpointFails, Behind!BehindNext
    <3>3. CASE ~landed
      <4>1. row' = row /\ {q.image : q \in taken}' = {}
        BY <2>9, <3>1, <3>3 DEF CheckpointFails
      <4> QED
        BY <3>1, <4>1 DEF Behind!DropImage, Behind!BehindNext
    <3> QED
      BY <3>2, <3>3
  <2>10. ASSUME Restart PROVE Behind!BehindNext
    <3>1. mem' = row /\ row' = row /\ {q.image : q \in taken}' = {}
      BY <2>10 DEF Restart
    <3> QED
      BY <3>1 DEF Behind!FallBack, Behind!BehindNext
  <2>11. ASSUME UNCHANGED vars PROVE UNCHANGED Behind!behindVars
    BY <2>11, RowsUntouched DEF vars
  <2> QED
    BY <2>2, <2>3, <2>4, <2>5, <2>6, <2>8, <2>9, <2>10, <2>11 DEF Next, DatabaseStep
<1> QED
  BY <1>1, <1>2, Invariance, PTL DEF Spec, StoresWholeWorlds, Behind!BehindSpec
================================================================================
