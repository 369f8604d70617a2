---------------------------- MODULE PlayerProofs -----------------------------
(***************************************************************************)
(* What RoomMC checks for two clients, two props and a rope, proved for    *)
(* any number of each and for any radii; for a predicted player, for any   *)
(* number of inputs, sessions and messages under way; and what             *)
(* CasualSavesMC checks for a few requests, for any number of them and     *)
(* any content.                                                            *)
(***************************************************************************)
EXTENDS RoomView, InputSync, CasualSaves, SequenceTheorems, FiniteSetTheorems, TLAPS

---------------------------------------------------------------------------
(* The prediction: a client's inputs, in order on both sides *)

\* The client's n-th input, and its inputs after the a-th, up to the b-th.
Cmd == Nat \X Nat
Nth(n) == <<1, n>>
Run(a, b) == [j \in 1..b - a |-> Nth(a + j)]

LEMMA Nths == \A n \in Nat : Nth(n) \in Cmd /\ Nth(n)[2] = n
BY DEF Nth, Cmd

LEMMA Runs ==
  ASSUME NEW a \in Nat, NEW b \in Nat, a <= b
  PROVE  /\ Run(a, b) \in Seq(Cmd) /\ Len(Run(a, b)) = b - a
         /\ DOMAIN Run(a, b) = 1..b - a
         /\ \A j \in 1..b - a : Run(a, b)[j] = Nth(a + j)
         /\ Run(a, b) = <<>> <=> a = b
<1>1. \A j \in 1..b - a : Nth(a + j) \in Cmd
  BY Nths
<1>2. Run(a, b) \in [1..b - a -> Cmd]
  BY <1>1 DEF Run
<1>3. b - a \in Nat
  OBVIOUS
<1>4. Run(a, b) \in Seq(Cmd) /\ Len(Run(a, b)) = b - a
  BY <1>2, <1>3, IsASeq
<1> QED BY <1>2, <1>4 DEF Run

LEMMA RunAppend ==
  ASSUME NEW a \in Nat, NEW b \in Nat, a <= b
  PROVE  Append(Run(a, b), Nth(b + 1)) = Run(a, b + 1)
<1> DEFINE r == Append(Run(a, b), Nth(b + 1))
<1>0. Run(a, b) \in Seq(Cmd) /\ Nth(b + 1) \in Cmd /\ Len(Run(a, b)) = b - a
  BY Runs, Nths
<1>1. r \in Seq(Cmd) /\ Len(r) = b + 1 - a
  BY <1>0, AppendProperties
<1>2. \A j \in 1..b - a : r[j] = Nth(a + j)
  BY <1>0, Runs, AppendProperties, SMTT(30), ZenonT(30)
<1>3. r[b + 1 - a] = Nth(a + (b + 1 - a))
  <2>1. r[Len(Run(a, b)) + 1] = Nth(b + 1)
    BY <1>0, AppendProperties
  <2>2. Len(Run(a, b)) + 1 = b + 1 - a /\ a + (b + 1 - a) = b + 1
    BY <1>0
  <2> QED BY <2>1, <2>2
<1>4. Run(a, b + 1) \in Seq(Cmd) /\ Len(Run(a, b + 1)) = b + 1 - a
      /\ \A j \in 1..b + 1 - a : Run(a, b + 1)[j] = Nth(a + j)
  <2>1. b + 1 \in Nat /\ a <= b + 1
    OBVIOUS
  <2> QED BY <2>1, Runs
<1>5. \A j \in 1..b + 1 - a : r[j] = Run(a, b + 1)[j]
  <2> TAKE j \in 1..b + 1 - a
  <2>1. j \in 1..b - a \/ j = b + 1 - a
    OBVIOUS
  <2> QED BY <2>1, <1>2, <1>3, <1>4
<1> HIDE DEF r
<1>6. r = Run(a, b + 1)
  BY <1>1, <1>4, <1>5, SeqEqual
<1> QED BY <1>6 DEF r

LEMMA RunSub ==
  ASSUME NEW a \in Nat, NEW b \in Nat, NEW m \in 0..b - a, NEW n \in m..b - a, a <= b
  PROVE  SubSeq(Run(a, b), m + 1, n) = Run(a + m, a + n)
<1> DEFINE r == SubSeq(Run(a, b), m + 1, n)
<1>1. r \in Seq(Cmd) /\ Len(r) = n - m
      /\ \A j \in 1..n - m : r[j] = Run(a, b)[m + j]
  <2>1. Run(a, b) \in Seq(Cmd) /\ Len(Run(a, b)) = b - a
    BY Runs
  <2>2. m + 1 \in 1..(b - a) + 1 /\ n \in m..b - a
    OBVIOUS
  <2>3. r \in Seq(Cmd)
    BY <2>1, <2>2, SubSeqProperties
  <2>4. Len(r) = n - m
    BY <2>1, <2>2, SubSeqProperties
  <2>5. \A j \in 1..n - m : r[j] = Run(a, b)[m + j]
    <3>1. \A j \in 1..n - (m + 1) + 1 : r[j] = Run(a, b)[(m + 1) + j - 1]
      BY <2>1, <2>2, SubSeqProperties, SMTT(30), ZenonT(30)
    <3>2. \A j \in 1..n - m : (m + 1) + j - 1 = m + j
      OBVIOUS
    <3>3. n - (m + 1) + 1 = n - m
      OBVIOUS
    <3> QED BY <3>1, <3>2, <3>3
  <2> QED BY <2>3, <2>4, <2>5
<1>2. \A j \in 1..n - m : r[j] = Nth((a + m) + j)
  BY <1>1, Runs
<1>3. Run(a + m, a + n) \in Seq(Cmd) /\ Len(Run(a + m, a + n)) = n - m
      /\ \A j \in 1..n - m : Run(a + m, a + n)[j] = Nth((a + m) + j)
  <2>1. a + m \in Nat /\ a + n \in Nat /\ a + m <= a + n /\ (a + n) - (a + m) = n - m
    OBVIOUS
  <2> QED BY <2>1, Runs
<1> HIDE DEF r
<1>4. r = Run(a + m, a + n)
  BY <1>1, <1>2, <1>3, SeqEqual
<1> QED BY <1>4 DEF r

LEMMA RunTail ==
  ASSUME NEW a \in Nat, NEW b \in Nat, a < b
  PROVE  /\ Run(a, b) # <<>> /\ Head(Run(a, b)) = Nth(a + 1)
         /\ Tail(Run(a, b)) = Run(a + 1, b)
<1>1. Run(a, b) # <<>>
  BY Runs
<1>2. Tail(Run(a, b)) = SubSeq(Run(a, b), 2, b - a)
  <2>1. Run(a, b) \in Seq(Cmd) /\ Len(Run(a, b)) = b - a
    BY Runs
  <2> QED BY <1>1, <2>1, TailIsSubSeq
<1>3. SubSeq(Run(a, b), 1 + 1, b - a) = Run(a + 1, a + (b - a))
  <2>1. 1 \in 0..b - a /\ b - a \in 1..b - a /\ a <= b
    OBVIOUS
  <2> QED BY <2>1, RunSub
<1>4. Head(Run(a, b)) = Nth(a + 1)
  BY <1>1, Runs, HeadTailProperties
<1> QED BY <1>1, <1>2, <1>3, <1>4

LEMMA RunConcat ==
  ASSUME NEW a \in Nat, NEW b \in Nat, NEW c \in Nat, a <= b, b <= c
  PROVE  Run(a, b) \o Run(b, c) = Run(a, c)
<1> DEFINE r == Run(a, b) \o Run(b, c)
<1>1. r \in Seq(Cmd) /\ Len(r) = c - a
      /\ \A j \in 1..c - a : r[j] = IF j <= b - a THEN Run(a, b)[j] ELSE Run(b, c)[j - (b - a)]
  <2>1. Run(a, b) \in Seq(Cmd) /\ Len(Run(a, b)) = b - a
    BY Runs
  <2>2. Run(b, c) \in Seq(Cmd) /\ Len(Run(b, c)) = c - b
    BY Runs
  <2>3. r \in Seq(Cmd) /\ Len(r) = (b - a) + (c - b)
    BY <2>1, <2>2, ConcatProperties
  <2>4. \A j \in 1..(b - a) + (c - b) :
          r[j] = IF j <= b - a THEN Run(a, b)[j] ELSE Run(b, c)[j - (b - a)]
    BY <2>1, <2>2, ConcatProperties
  <2>5. (b - a) + (c - b) = c - a
    OBVIOUS
  <2> QED BY <2>3, <2>4, <2>5
<1>2. \A j \in 1..c - a : r[j] = Nth(a + j)
  <2> TAKE j \in 1..c - a
  <2>1. CASE j <= b - a
    <3>1. \A i \in 1..b - a : Run(a, b)[i] = Nth(a + i)
      BY Runs
    <3>2. r[j] = Run(a, b)[j] /\ j \in 1..b - a
      BY <1>1, <2>1
    <3> QED BY <3>1, <3>2
  <2>2. CASE j > b - a
    <3> DEFINE i == j - (b - a)
    <3>1. i \in 1..c - b /\ b + i = a + j
      BY <2>2
    <3> HIDE DEF i
    <3>2. \A n \in 1..c - b : Run(b, c)[n] = Nth(b + n)
      BY Runs
    <3>3. r[j] = Run(b, c)[i]
      BY <1>1, <2>2 DEF i
    <3>4. Run(b, c)[i] = Nth(b + i)
      BY <3>1, <3>2
    <3> QED BY <3>1, <3>3, <3>4
  <2>3. j <= b - a \/ j > b - a
    OBVIOUS
  <2> QED BY <2>1, <2>2, <2>3, Zenon
<1>3. Run(a, c) \in Seq(Cmd) /\ Len(Run(a, c)) = c - a
      /\ \A j \in 1..c - a : Run(a, c)[j] = Nth(a + j)
  BY Runs
<1> HIDE DEF r
<1>4. r = Run(a, c)
  BY <1>1, <1>2, <1>3, SeqEqual
<1> QED BY <1>4 DEF r

\* What the client keeps of a run is what follows the acknowledged input.
LEMMA Kept ==
  ASSUME NEW k \in Nat, NEW b \in Nat, k <= b, NEW ack \in k..b, pending = Run(k, b)
  PROVE  Unacknowledged(ack) = Run(ack, b)
<1> DEFINE drop == {i \in DOMAIN pending : pending[i][2] <= ack}
<1>1. drop = 1..ack - k
  <2>1. \A i \in 1..b - k : Run(k, b)[i][2] = k + i
    <3>1. \A i \in 1..b - k : Run(k, b)[i] = Nth(k + i)
      BY Runs
    <3>2. \A i \in 1..b - k : k + i \in Nat
      OBVIOUS
    <3> QED BY <3>1, <3>2, Nths
  <2>2. DOMAIN pending = 1..b - k
    BY Runs
  <2>3. drop = {i \in 1..b - k : k + i <= ack}
    BY <2>1, <2>2
  <2>4. {i \in 1..b - k : k + i <= ack} = 1..ack - k
    OBVIOUS
  <2> QED BY <2>3, <2>4
<1>2. Cardinality(1..ack - k) = ack - k
  <2>1. 1 \in Int /\ ack - k \in Int
    OBVIOUS
  <2>2. Cardinality(1..ack - k) = IF 1 > ack - k THEN 0 ELSE (ack - k) - 1 + 1
    BY <2>1, FS_Interval
  <2> QED BY <2>2
<1>3. SubSeq(Run(k, b), (ack - k) + 1, b - k) = Run(k + (ack - k), k + (b - k))
  <2>1. ack - k \in 0..b - k /\ b - k \in ack - k..b - k
    OBVIOUS
  <2> QED BY <2>1, RunSub
<1>4. Len(pending) = b - k
  BY Runs
<1>5. Cardinality(drop) = ack - k
  <2> HIDE DEF drop
  <2> QED BY <1>1, <1>2
<1>6. Unacknowledged(ack) = SubSeq(pending, Cardinality(drop) + 1, Len(pending))
  BY DEF Unacknowledged
<1> HIDE DEF drop
<1> QED BY <1>3, <1>4, <1>5, <1>6

---------------------------------------------------------------------------

Sessions == session \in Nat /\ session >= 1 /\ (moving = "entered" => session > 1)

\* The player is where it was, and nothing made the server differ.
Undisturbed == session = 1 /\ upset = {}

Numbered ==
  /\ seq \in Nat /\ last \in Nat /\ credit \in Nat /\ epoch = 1 /\ room = 1

\* Every input is shown; the first ones are simulated, then come the queued
\* ones and, as long as the connection is listened to, those under way.
InOrder ==
  /\ shown = [life |-> 1, done |-> Run(0, seq)]
  /\ done = Run(0, last)
  /\ \E n \in Nat : last <= n /\ n <= seq /\ queue = Run(last, n)
                    /\ (moving = "no" => up = Run(n, seq))

Snap(a) == [t |-> "snap", ack |-> a, life |-> 1, done |-> Run(0, a)]
Snaps == {Snap(a) : a \in Nat}

\* The snapshots under way are of the session's past, in order, and the client
\* still has every input they do not acknowledge.
Acknowledged ==
  /\ down \in Seq(Snaps)
  /\ \A i \in 1..Len(down) : down[i].ack <= last
  /\ \A i, j \in 1..Len(down) : i <= j => down[i].ack <= down[j].ack
  /\ \E k \in Nat : k <= last /\ k <= seq /\ pending = Run(k, seq)
                    /\ \A i \in 1..Len(down) : k <= down[i].ack

PredictionInv == Sessions /\ (Undisturbed => Numbered /\ InOrder /\ Acknowledged)

LEMMA Bounds ==
  /\ MaxQueue \in Nat /\ MaxQueue > 0 /\ CatchUp \in Nat /\ CatchUp > 0
  /\ Window \in Nat /\ Window > 0 /\ StallTicks \in Nat
BY BoundsAssumption

LEMMA SnapFacts ==
  /\ \A a \in Nat : Snap(a) \in Snaps
  /\ \A m \in Snaps : m.ack \in Nat /\ m.t = "snap" /\ m.life = 1 /\ m.done = Run(0, m.ack)
  /\ \A a \in Nat : Snap(a).ack = a
BY DEF Snap, Snaps

LEMMA RunStart == Run(0, 0) = <<>>
BY Runs

LEMMA PredictionInit == InputInit => PredictionInv
<1> SUFFICES ASSUME InputInit PROVE PredictionInv
  OBVIOUS
<1>1. Sessions
  BY DEF InputInit, Sessions
<1>2. Numbered
  BY DEF InputInit, Numbered
<1>3. InOrder
  BY RunStart DEF InputInit, InOrder, Fresh
<1>4. Acknowledged
  <2>1. down = <<>> /\ <<>> \in Seq(Snaps) /\ Len(<<>>) = 0
    BY DEF InputInit
  <2>2. pending = Run(0, seq) /\ 0 <= last /\ 0 <= seq
    BY RunStart DEF InputInit
  <2> QED BY <2>1, <2>2 DEF Acknowledged
<1> QED BY <1>1, <1>2, <1>3, <1>4 DEF PredictionInv

LEMMA PredictFixedUpdate ==
  ASSUME Numbered, InOrder, Acknowledged, Undisturbed, Undisturbed', FixedUpdate
  PROVE  Numbered' /\ InOrder' /\ Acknowledged'
<1> DEFINE cmd == Nth(seq + 1)
<1>1. /\ seq \in Nat /\ last \in Nat /\ seq' = seq + 1
      /\ up' = Append(up, cmd) /\ shown' = [shown EXCEPT !.done = Append(@, cmd)]
      /\ UNCHANGED <<epoch, room, down, moving, queue, last, done, credit>>
  BY DEF Numbered, FixedUpdate, server, Nth
<1>2. Len(pending) # Window /\ pending' = Append(pending, cmd)
  BY DEF FixedUpdate, Undisturbed, Nth, Numbered
<1> HIDE DEF cmd
<1>3. Numbered'
  BY <1>1 DEF Numbered
<1>4. \A a \in Nat : a <= seq => Append(Run(a, seq), cmd) = Run(a, seq + 1)
  BY <1>1, RunAppend DEF cmd
<1>5. InOrder'
  <2>1. shown' = [life |-> 1, done |-> Run(0, seq')]
    <3>1. shown = [life |-> 1, done |-> Run(0, seq)]
      BY DEF InOrder
    <3>2. shown' = [life |-> 1, done |-> Append(Run(0, seq), cmd)]
      BY <1>1, <3>1
    <3>3. Append(Run(0, seq), cmd) = Run(0, seq')
      <4>1. 0 \in Nat /\ 0 <= seq
        BY <1>1
      <4> QED BY <4>1, <1>1, <1>4
    <3> QED BY <3>2, <3>3
  <2>2. done' = Run(0, last')
    BY <1>1 DEF InOrder
  <2>3. PICK n \in Nat : last <= n /\ n <= seq /\ queue = Run(last, n)
                        /\ (moving = "no" => up = Run(n, seq))
    BY DEF InOrder
  <2>4. moving' = "no" => up' = Run(n, seq')
    BY <1>1, <1>4, <2>3
  <2>5. last' <= n /\ n <= seq' /\ queue' = Run(last', n)
    BY <1>1, <2>3
  <2> QED BY <2>1, <2>2, <2>4, <2>5 DEF InOrder
<1>6. Acknowledged'
  <2>1. PICK k \in Nat : k <= last /\ k <= seq /\ pending = Run(k, seq)
                        /\ \A i \in 1..Len(down) : k <= down[i].ack
    BY DEF Acknowledged
  <2>2. pending' = Run(k, seq') /\ k <= last' /\ k <= seq'
    BY <1>1, <1>2, <1>4, <2>1
  <2> QED BY <1>1, <2>1, <2>2 DEF Acknowledged
<1> QED BY <1>3, <1>5, <1>6

LEMMA PredictOnSnapshot ==
  ASSUME Numbered, InOrder, Acknowledged, Undisturbed, Undisturbed', OnSnapshot
  PROVE  Numbered' /\ InOrder' /\ Acknowledged'
<1> DEFINE ack == Head(down).ack
<1>1. /\ seq \in Nat /\ last \in Nat /\ last <= seq
      /\ pending' = Unacknowledged(ack) /\ down # <<>> /\ down' = Tail(down)
      /\ shown' = [life |-> Head(down).life, done |-> Head(down).done \o pending']
      /\ UNCHANGED <<epoch, seq, room, up, moving, queue, last, done, credit>>
  BY DEF Numbered, OnSnapshot, server, InOrder
<1>2. /\ down \in Seq(Snaps)
      /\ \A i \in 1..Len(down) : down[i].ack <= last
      /\ \A i, j \in 1..Len(down) : i <= j => down[i].ack <= down[j].ack
  BY DEF Acknowledged
<1>3. PICK k \in Nat : k <= last /\ k <= seq /\ pending = Run(k, seq)
                      /\ \A i \in 1..Len(down) : k <= down[i].ack
  BY DEF Acknowledged
<1>4. /\ Head(down) = down[1] /\ Len(down) \in Nat /\ Len(down) >= 1 /\ down[1] \in Snaps
      /\ Tail(down) \in Seq(Snaps) /\ Len(Tail(down)) = Len(down) - 1
      /\ \A i \in 1..Len(down) - 1 : Tail(down)[i] = down[i + 1]
  BY <1>1, <1>2
<1>5. /\ ack \in Nat /\ k <= ack /\ ack <= last /\ Head(down).life = 1 /\ Head(down).done = Run(0, ack)
  <2>1. 1 \in 1..Len(down) /\ Head(down) \in Snaps /\ ack = down[1].ack
    BY <1>4
  <2>2. k <= ack /\ ack <= last
    BY <2>1, <1>2, <1>3
  <2>3. ack \in Nat /\ Head(down).life = 1 /\ Head(down).done = Run(0, ack)
    BY <2>1, SnapFacts
  <2> QED BY <2>2, <2>3
<1> HIDE DEF ack
<1>6. pending' = Run(ack, seq)
  <2>1. ack \in k..seq
    BY <1>1, <1>3, <1>5
  <2> QED BY <1>1, <1>3, <2>1, Kept
<1>7. shown' = [life |-> 1, done |-> Run(0, seq)]
  <2>1. ack <= seq /\ 0 <= ack
    BY <1>1, <1>5
  <2>2. Run(0, ack) \o Run(ack, seq) = Run(0, seq)
    BY <1>1, <1>5, <2>1, RunConcat
  <2> QED BY <1>1, <1>5, <1>6, <2>2
<1>8. Numbered'
  BY <1>1 DEF Numbered
<1>9. InOrder'
  BY <1>1, <1>7 DEF InOrder
<1>10. Acknowledged'
  <2>1. \A i \in 1..Len(down') : i + 1 \in 1..Len(down) /\ down'[i] = down[i + 1]
    BY <1>1, <1>4
  <2>2. \A i \in 1..Len(down') : down'[i].ack <= last
    BY <2>1, <1>2
  <2>3. \A i, j \in 1..Len(down') : i <= j => down'[i].ack <= down'[j].ack
    <3> SUFFICES ASSUME NEW i \in 1..Len(down'), NEW j \in 1..Len(down'), i <= j
                 PROVE  down'[i].ack <= down'[j].ack
      OBVIOUS
    <3>1. i + 1 \in 1..Len(down) /\ j + 1 \in 1..Len(down) /\ i + 1 <= j + 1
      BY <2>1
    <3>2. down[i + 1].ack <= down[j + 1].ack
      BY <3>1, <1>2
    <3> QED BY <3>2, <2>1
  <2>4. \A i \in 1..Len(down') : ack <= down'[i].ack
    <3> SUFFICES ASSUME NEW i \in 1..Len(down') PROVE ack <= down'[i].ack
      OBVIOUS
    <3>1. 1 \in 1..Len(down) /\ i + 1 \in 1..Len(down) /\ 1 <= i + 1
      BY <2>1, <1>4
    <3>2. down[1].ack <= down[i + 1].ack
      BY <3>1, <1>2
    <3> QED BY <3>2, <2>1, <1>4 DEF ack
  <2>5. down' \in Seq(Snaps)
    BY <1>1, <1>4
  <2>6. ack <= last' /\ ack <= seq' /\ pending' = Run(ack, seq')
    BY <1>1, <1>5, <1>6
  <2> QED BY <1>1, <1>5, <2>2, <2>3, <2>4, <2>5, <2>6 DEF Acknowledged
<1> QED BY <1>8, <1>9, <1>10

LEMMA PredictReceive ==
  ASSUME Numbered, InOrder, Acknowledged, Undisturbed, Undisturbed', Receive
  PROVE  Numbered' /\ InOrder' /\ Acknowledged'
<1>1. /\ up # <<>> /\ up' = Tail(up)
      /\ UNCHANGED <<epoch, seq, pending, shown, room, down, moving, credit, last, done>>
  BY DEF Receive, client
<1>2. seq \in Nat /\ last \in Nat
  BY DEF Numbered
<1>3. PICK n \in Nat : last <= n /\ n <= seq /\ queue = Run(last, n)
                      /\ (moving = "no" => up = Run(n, seq))
  BY DEF InOrder
<1>4. InOrder'
  <2>1. shown' = [life |-> 1, done |-> Run(0, seq')] /\ done' = Run(0, last')
    BY <1>1 DEF InOrder
  <2>2. CASE moving # "no"
    <3>1. queue' = queue
      BY <2>2 DEF Receive
    <3> QED BY <1>1, <1>3, <2>1, <2>2, <3>1 DEF InOrder
  <2>3. CASE moving = "no"
    <3>1. queue' = Append(queue, Head(up))
      <4>1. queue' = Queued(queue, Head(up)) /\ ~(Len(queue) >= MaxQueue)
        BY <2>3 DEF Receive, Undisturbed
      <4> QED BY <4>1 DEF Queued
    <3>2. up = Run(n, seq) /\ n < seq
      <4>1. up = Run(n, seq)
        BY <1>3, <2>3
      <4>2. n # seq
        BY <4>1, <1>1, <1>2, Runs
      <4> QED BY <4>1, <4>2, <1>2, <1>3
    <3>3. Head(up) = Nth(n + 1) /\ Tail(up) = Run(n + 1, seq)
      BY <3>2, <1>2, RunTail
    <3>4. queue' = Run(last, n + 1)
      BY <3>1, <3>3, <1>2, <1>3, RunAppend
    <3>5. n + 1 \in Nat /\ last' <= n + 1 /\ n + 1 <= seq'
      BY <1>1, <1>2, <1>3, <3>2
    <3> QED BY <1>1, <2>1, <3>3, <3>4, <3>5 DEF InOrder
  <2> QED BY <2>2, <2>3
<1> QED BY <1>1, <1>4 DEF Numbered, Acknowledged

LEMMA PredictTick ==
  ASSUME Numbered, InOrder, Acknowledged, Undisturbed, Undisturbed', Tick
  PROVE  Numbered' /\ InOrder' /\ Acknowledged'
<1>1. /\ UNCHANGED <<epoch, seq, pending, shown, room, up, down, moving>>
      /\ queue' = SubSeq(queue, Taken + 1, Len(queue)) /\ credit' = Earned - Taken
  BY DEF Tick, Step, client
<1>2. seq \in Nat /\ last \in Nat /\ credit \in Nat
  BY DEF Numbered
<1>3. PICK n \in Nat : last <= n /\ n <= seq /\ queue = Run(last, n)
                      /\ (moving = "no" => up = Run(n, seq))
  BY DEF InOrder
<1>4. Len(queue) = n - last
  BY <1>2, <1>3, Runs
<1>5. Taken \in 0..n - last /\ Earned \in Nat /\ Taken <= Earned
  BY <1>2, <1>3, <1>4, Bounds DEF Taken, Earned, Lower
<1> DEFINE new == last + Taken
<1>6. /\ new \in Nat /\ last <= new /\ new <= n
      /\ SubSeq(queue, Taken + 1, Len(queue)) = Run(new, n)
      /\ SubSeq(queue, 1, Taken) = Run(last, new)
  <2>1. new \in Nat /\ last <= new /\ new <= n /\ last + (n - last) = n /\ last + 0 = last
    BY <1>2, <1>5
  <2>2. SubSeq(queue, Taken + 1, n - last) = Run(last + Taken, last + (n - last))
    <3>1. Taken \in 0..n - last /\ n - last \in Taken..n - last
      BY <1>2, <1>3, <1>5
    <3> QED BY <3>1, <1>2, <1>3, RunSub
  <2>3. SubSeq(queue, 0 + 1, Taken) = Run(last + 0, last + Taken)
    <3>1. 0 \in 0..n - last /\ Taken \in 0..n - last
      BY <1>2, <1>3, <1>5
    <3> QED BY <3>1, <1>2, <1>3, RunSub
  <2> QED BY <2>1, <2>2, <2>3, <1>4
<1>7. last' = new /\ done' = Run(0, new)
  <2>1. CASE Taken > 0
    <3>1. done' = done \o SubSeq(queue, 1, Taken) /\ last' = queue[Taken][2]
      BY <2>1 DEF Tick, Step
    <3>2. queue[Taken] = Nth(last + Taken)
      <4>1. \A i \in 1..n - last : Run(last, n)[i] = Nth(last + i)
        BY <1>2, <1>3, Runs
      <4> QED BY <4>1, <1>3, <1>5, <2>1
    <3>3. done = Run(0, last)
      BY DEF InOrder
    <3>4. Run(0, last) \o Run(last, new) = Run(0, new)
      <4>1. 0 \in Nat /\ 0 <= last /\ last \in Nat /\ last <= new /\ new \in Nat
        BY <1>2, <1>6
      <4> HIDE DEF new
      <4> QED BY <4>1, RunConcat
    <3>5. Nth(new)[2] = new
      BY <1>6, Nths
    <3>6. done' = Run(0, new)
      BY <3>1, <3>3, <3>4, <1>6
    <3>7. queue[Taken] = Nth(new)
      BY <3>2
    <3> HIDE DEF new
    <3>8. last' = new
      BY <3>1, <3>5, <3>7, Zenon
    <3> QED BY <3>6, <3>8
  <2>2. CASE ~(Taken > 0)
    <3>1. Taken = 0 /\ new = last
      BY <2>2, <1>2, <1>5
    <3>2. last' = last
      BY <2>2 DEF Tick, Step
    <3>3. done' = done
      BY <2>2 DEF Tick, Step, Undisturbed
    <3> QED BY <3>1, <3>2, <3>3 DEF InOrder
  <2> QED BY <2>1, <2>2
<1>8. InOrder'
  <2>1. queue' = Run(last', n) /\ last' <= n /\ n <= seq' /\ done' = Run(0, last')
    BY <1>1, <1>3, <1>6, <1>7
  <2>2. moving' = "no" => up' = Run(n, seq')
    BY <1>1, <1>3
  <2>3. shown' = [life |-> 1, done |-> Run(0, seq')]
    BY <1>1 DEF InOrder
  <2> QED BY <2>1, <2>2, <2>3 DEF InOrder
<1>9. Numbered'
  <2>1. credit' \in Nat
    BY <1>1, <1>2, <1>5
  <2> QED BY <1>1, <1>6, <1>7, <2>1 DEF Numbered
<1>10. Acknowledged'
  <2>1. last <= last' /\ last' \in Nat
    BY <1>6, <1>7
  <2> HIDE DEF new
  <2>2. \A i \in 1..Len(down) : down[i].ack \in Nat /\ down[i].ack <= last
    <3>1. \A i \in 1..Len(down) : down[i] \in Snaps
      BY DEF Acknowledged
    <3> QED BY <3>1, SnapFacts DEF Acknowledged
  <2>3. \A i \in 1..Len(down') : down'[i].ack <= last'
    BY <1>1, <1>2, <2>1, <2>2
  <2>4. PICK k \in Nat : k <= last /\ k <= seq /\ pending = Run(k, seq)
                        /\ \A i \in 1..Len(down) : k <= down[i].ack
    BY DEF Acknowledged
  <2>5. k <= last'
    BY <1>2, <2>1, <2>4
  <2> QED BY <1>1, <2>3, <2>4, <2>5 DEF Acknowledged
<1> QED BY <1>8, <1>9, <1>10

LEMMA PredictSnapshot ==
  ASSUME Numbered, InOrder, Acknowledged, Undisturbed, Undisturbed', Snapshot
  PROVE  Numbered' /\ InOrder' /\ Acknowledged'
<1>1. /\ UNCHANGED <<epoch, seq, pending, shown, room, up, moving, queue, credit, last, done>>
      /\ down' = Append(down, Snap(last))
  BY DEF Snapshot, client, server, Snap, InOrder, Undisturbed
<1>2. Numbered' /\ InOrder'
  BY <1>1 DEF Numbered, InOrder
<1>3. last \in Nat
  BY DEF Numbered
<1>4. down \in Seq(Snaps) /\ Snap(last) \in Snaps /\ Snap(last).ack = last
  BY <1>3, SnapFacts DEF Acknowledged
<1>5. /\ down' \in Seq(Snaps) /\ Len(down') = Len(down) + 1 /\ Len(down) \in Nat
      /\ \A i \in 1..Len(down) : down'[i] = down[i]
      /\ down'[Len(down) + 1] = Snap(last)
  BY <1>1, <1>4, AppendProperties
<1>6. \A i \in 1..Len(down') : i \in 1..Len(down) \/ i = Len(down) + 1
  BY <1>5
<1>7. \A i \in 1..Len(down') : down'[i].ack <= last
  BY <1>3, <1>4, <1>5, <1>6 DEF Acknowledged
<1>8. \A i, j \in 1..Len(down') : i <= j => down'[i].ack <= down'[j].ack
  <2> SUFFICES ASSUME NEW i \in 1..Len(down'), NEW j \in 1..Len(down'), i <= j
               PROVE  down'[i].ack <= down'[j].ack
    OBVIOUS
  <2>1. CASE j = Len(down) + 1
    BY <2>1, <1>4, <1>5, <1>7
  <2>2. CASE j \in 1..Len(down)
    <3>1. i \in 1..Len(down)
      BY <2>2, <1>5
    <3> QED BY <2>2, <3>1, <1>5 DEF Acknowledged
  <2> QED BY <2>1, <2>2, <1>6
<1>9. PICK k \in Nat : k <= last /\ k <= seq /\ pending = Run(k, seq)
                      /\ \A i \in 1..Len(down) : k <= down[i].ack
  BY DEF Acknowledged
<1>10. \A i \in 1..Len(down') : k <= down'[i].ack
  BY <1>4, <1>5, <1>6, <1>9
<1> QED BY <1>1, <1>2, <1>5, <1>7, <1>8, <1>9, <1>10 DEF Acknowledged

LEMMA PredictStep == PredictionInv /\ [InputNext]_inputVars => PredictionInv'
<1> SUFFICES ASSUME PredictionInv, [InputNext]_inputVars PROVE PredictionInv'
  OBVIOUS
<1>1. Sessions'
  <2>1. Sessions
    BY DEF PredictionInv
  <2>2. CASE EnterRoom
    BY <2>1, <2>2 DEF Sessions, EnterRoom
  <2>3. CASE FixedUpdate \/ OnSnapshot \/ OnWelcome \/ Snapshot \/ UNCHANGED inputVars
    BY <2>1, <2>3 DEF Sessions, FixedUpdate, OnSnapshot, OnWelcome, Snapshot, inputVars, server
  <2>4. CASE Receive \/ Tick
    BY <2>1, <2>4 DEF Sessions, Receive, Tick
  <2>5. CASE TransferBegins \/ LeaveRoom \/ TransferEnds
    BY <2>1, <2>5 DEF Sessions, TransferBegins, LeaveRoom, TransferEnds
  <2> QED BY <2>2, <2>3, <2>4, <2>5 DEF InputNext
<1>2. ASSUME Undisturbed' PROVE Numbered' /\ InOrder' /\ Acknowledged'
  <2> USE <1>2
  <2>1. Sessions
    BY DEF PredictionInv
  <2>2. CASE EnterRoom
    BY <2>1, <2>2 DEF Sessions, EnterRoom, Undisturbed
  <2>3. CASE ~EnterRoom
    <3>1. Undisturbed
      <4>1. session' = session
        BY <2>3 DEF InputNext, inputVars, FixedUpdate, OnSnapshot, OnWelcome, Receive, Tick,
                    Snapshot, TransferBegins, LeaveRoom, TransferEnds, server
      <4>2. upset' = {} => upset = {}
        BY <2>3 DEF InputNext, inputVars, FixedUpdate, OnSnapshot, OnWelcome, Receive, Tick, Step,
                    Snapshot, TransferBegins, LeaveRoom, TransferEnds, server
      <4> QED BY <4>1, <4>2 DEF Undisturbed
    <3>2. Numbered /\ InOrder /\ Acknowledged
      BY <3>1 DEF PredictionInv
    <3>3. CASE FixedUpdate
      BY <3>1, <3>2, <3>3, PredictFixedUpdate
    <3>4. CASE OnSnapshot
      BY <3>1, <3>2, <3>4, PredictOnSnapshot
    <3>5. CASE OnWelcome
      <4>1. down # <<>> /\ Head(down).t = "welcome" /\ down \in Seq(Snaps)
        BY <3>2, <3>5 DEF OnWelcome, Acknowledged
      <4>2. Head(down) \in Snaps
        BY <4>1, HeadTailProperties
      <4> QED BY <4>1, <4>2, SnapFacts
    <3>6. CASE Receive
      BY <3>1, <3>2, <3>6, PredictReceive
    <3>7. CASE Tick
      BY <3>1, <3>2, <3>7, PredictTick
    <3>8. CASE Snapshot
      BY <3>1, <3>2, <3>8, PredictSnapshot
    <3>9. CASE TransferBegins \/ LeaveRoom \/ TransferEnds
      <4>1. moving' # "no"
        BY <2>1, <3>1, <3>9 DEF TransferBegins, LeaveRoom, TransferEnds, Sessions, Undisturbed
      <4>2. UNCHANGED <<epoch, seq, pending, shown, room, up, down, queue, credit, last, done>>
        BY <3>9 DEF TransferBegins, LeaveRoom, TransferEnds, client
      <4> QED BY <3>2, <4>1, <4>2 DEF Numbered, InOrder, Acknowledged
    <3>10. CASE UNCHANGED inputVars
      BY <3>2, <3>10 DEF inputVars, client, server, Numbered, InOrder, Acknowledged
    <3> QED BY <2>3, <3>3, <3>4, <3>5, <3>6, <3>7, <3>8, <3>9, <3>10 DEF InputNext
  <2> QED BY <2>2, <2>3
<1> QED BY <1>1, <1>2 DEF PredictionInv

\* Whatever is under way, a client that has not moved rooms and whose
\* inputs the server neither dropped nor added to shows all its inputs once, in order.
THEOREM PredictionHolds == InputSpec => []NoMisprediction
<1>1. PredictionInv => NoMisprediction
  BY DEF PredictionInv, Undisturbed, Numbered, InOrder, NoMisprediction, Run, Nth
<1> QED BY <1>1, PredictionInit, PredictStep, PTL DEF InputSpec

---------------------------------------------------------------------------
(* The casual saves: an owner's holdings and their ledger *)

SaveFields ==
  {"id", "has", "energy", "energyAt", "level", "stars", "worn", "cleared", "swept", "idleAt", "day",
   "progress", "claimed", "lastLogin", "logins", "pity", "buyDay", "bought", "born", "idlePaid",
   "spent", "given"}

\* What the proofs use of a save: what it holds, and the times and levels it computes with.
IsSave(s) ==
  /\ s = [f \in SaveFields |-> s[f]]
  /\ s.has \in [Asset -> Int] /\ s.level \in [Hero -> Int] /\ s.stars \in [Hero -> Int]
  /\ IsFiniteSet(s.worn) /\ s.cleared \in Int /\ s.logins \in Nat
  /\ s.born \in Int /\ s.idleAt \in Int /\ s.idlePaid \in Int

IsOutcome(o) ==
  /\ o = [s |-> o.s, lines |-> o.lines]
  /\ IsSave(o.s) /\ o.lines \in [Asset -> Int]

\* From o to p the holdings changed as the lines did, and nothing of the chest or the gear worn.
Follows(p, o) ==
  /\ IsOutcome(p)
  /\ p.s.id = o.s.id /\ p.s.born = o.s.born /\ p.s.worn = o.s.worn
  /\ p.s.idleAt = o.s.idleAt /\ p.s.idlePaid = o.s.idlePaid
  /\ \A x \in Asset : p.s.has[x] - o.s.has[x] = p.lines[x] - o.lines[x]

LEMMA Numbers ==
  /\ {LastStage, StageEnergy, FreeFirstClears, MaxEnergy, GoldPerMinute, IdleCap, MaxTime} \subseteq Nat
  /\ DrawCost \in Nat /\ DuplicateShards \in Nat /\ FuseShards \in Nat /\ StarCost \in Nat
  /\ LevelsPerStar \in Nat /\ MaxSaves \in Nat /\ DayLength \in Nat \ {0}
  /\ Quest.target \in Nat /\ Product.gems \in Nat
  /\ Starter \in Hero /\ Guest # User
  /\ StartWallet \in [Currency -> Nat]
  /\ First \in Reward /\ Repeat \in Reward /\ Quest.reward \in Reward /\ Product.reward \in Reward
  /\ Calendar \in Seq(Reward) /\ Calendar # <<>>
BY CasualAssumptions

LEMMA Assets ==
  /\ Gold \in Asset /\ Gems \in Asset /\ GemsPaid \in Asset /\ Sigils \in Asset /\ Gear \in Asset
  /\ \A h \in Hero : Shard(h) \in Asset /\ HeroAsset(h) \in Asset
BY DEF Asset, Currency, Gold, Gems, GemsPaid, Sigils, Gear, Shard, HeroAsset

LEMMA Rewards == \A r \in Reward : r.pay \in [Asset -> Int] /\ r.energy \in Nat
BY DEF Reward, Amounts

LEMMA PaysType == \A x, n : n \in Int => Pays(x, n) \in [Asset -> Int]
BY DEF Pays

LEMMA FollowsItself == \A o : IsOutcome(o) => Follows(o, o)
BY DEF Follows, IsOutcome, IsSave

LEMMA FollowsOn ==
  ASSUME NEW o, NEW p, NEW q, IsOutcome(o), Follows(p, o), Follows(q, p)
  PROVE  Follows(q, o)
<1>1. /\ q.s.id = o.s.id /\ q.s.born = o.s.born /\ q.s.worn = o.s.worn
      /\ q.s.idleAt = o.s.idleAt /\ q.s.idlePaid = o.s.idlePaid /\ IsOutcome(q)
  BY DEF Follows
<1>2. ASSUME NEW x \in Asset PROVE q.s.has[x] - o.s.has[x] = q.lines[x] - o.lines[x]
  <2>1. /\ o.s.has[x] \in Int /\ p.s.has[x] \in Int /\ q.s.has[x] \in Int
        /\ o.lines[x] \in Int /\ p.lines[x] \in Int /\ q.lines[x] \in Int
    BY DEF Follows, IsOutcome, IsSave
  <2>2. /\ p.s.has[x] - o.s.has[x] = p.lines[x] - o.lines[x]
        /\ q.s.has[x] - p.s.has[x] = q.lines[x] - p.lines[x]
    BY DEF Follows
  <2> QED BY <2>1, <2>2
<1> QED BY <1>1, <1>2 DEF Follows

---------------------------------------------------------------------------

LEMMA Credited ==
  ASSUME NEW o, IsOutcome(o), NEW pay \in [Asset -> Int]
  PROVE  Follows(Credit(o, pay), o)
<1> DEFINE p == Credit(o, pay)
<1>1. /\ p = [s |-> p.s, lines |-> p.lines] /\ p.lines = Plus(o.lines, pay)
      /\ p.s = [o.s EXCEPT !.has = Plus(@, pay)]
  BY DEF Credit
<1>2. /\ Plus(o.s.has, pay) \in [Asset -> Int] /\ Plus(o.lines, pay) \in [Asset -> Int]
      /\ \A x \in Asset : Plus(o.s.has, pay)[x] = o.s.has[x] + pay[x]
                       /\ Plus(o.lines, pay)[x] = o.lines[x] + pay[x]
  BY DEF Plus, IsOutcome, IsSave
<1> HIDE DEF p
<1>3. /\ p.s = [f \in SaveFields |-> p.s[f]] /\ p.s.has = Plus(o.s.has, pay)
      /\ p.s.level = o.s.level /\ p.s.stars = o.s.stars /\ p.s.worn = o.s.worn
      /\ p.s.logins = o.s.logins
      /\ p.s.cleared = o.s.cleared /\ p.s.born = o.s.born /\ p.s.idleAt = o.s.idleAt
      /\ p.s.idlePaid = o.s.idlePaid /\ p.s.id = o.s.id
  BY <1>1 DEF IsOutcome, IsSave, SaveFields
<1>4. IsOutcome(p)
  BY <1>1, <1>2, <1>3 DEF IsOutcome, IsSave
<1>5. ASSUME NEW x \in Asset PROVE p.s.has[x] - o.s.has[x] = p.lines[x] - o.lines[x]
  <2>1. o.s.has[x] \in Int /\ pay[x] \in Int /\ o.lines[x] \in Int
    BY DEF IsOutcome, IsSave
  <2>2. p.s.has[x] = o.s.has[x] + pay[x] /\ p.lines[x] = o.lines[x] + pay[x]
    BY <1>1, <1>2, <1>3
  <2> QED BY <2>1, <2>2
<1>6. Follows(p, o)
  BY <1>3, <1>4, <1>5 DEF Follows
<1> QED BY <1>6 DEF p

LEMMA Debited ==
  ASSUME NEW o, IsOutcome(o), NEW x \in Asset, NEW n \in Int
  PROVE  Follows(Debit(o, x, n), o)
BY PaysType, Credited DEF Debit

\* What is neither held, nor worn, nor of the chest: setting it follows.
LEMMA Put ==
  ASSUME NEW o, IsOutcome(o), NEW t,
         t.s = [f \in SaveFields |-> t.s[f]], t = [s |-> t.s, lines |-> o.lines],
         t.s.level \in [Hero -> Int], t.s.stars \in [Hero -> Int], t.s.cleared \in Int, t.s.logins \in Nat,
         t.s.has = o.s.has, t.s.worn = o.s.worn, t.s.id = o.s.id, t.s.born = o.s.born,
         t.s.idleAt = o.s.idleAt, t.s.idlePaid = o.s.idlePaid
  PROVE  Follows(t, o)
<1>1. t.lines = o.lines
  OBVIOUS
<1>2. IsOutcome(t)
  BY <1>1 DEF IsOutcome, IsSave
<1>3. \A x \in Asset : t.s.has[x] - o.s.has[x] = t.lines[x] - o.lines[x]
  BY <1>1 DEF IsOutcome, IsSave
<1> QED BY <1>2, <1>3 DEF Follows

LEMMA Spent ==
  ASSUME NEW o, IsOutcome(o), NEW x \in Asset, NEW n \in Int, NEW p \in Spend(o, x, n)
  PROVE  Follows(p, o)
BY Debited DEF Spend

LEMMA GemsSpent ==
  ASSUME NEW o, IsOutcome(o), NEW n \in Int, NEW p \in SpendGems(o, n)
  PROVE  Follows(p, o)
<1> DEFINE free == IF o.s.has[Gems] < n THEN o.s.has[Gems] ELSE n
           q == Debit(o, Gems, free)
<1>1. p = Debit(q, GemsPaid, n - free)
  BY DEF SpendGems
<1>2. free \in Int
  BY Assets DEF IsOutcome, IsSave
<1> HIDE DEF free
<1>3. Follows(q, o)
  BY <1>2, Assets, Debited
<1>4. IsOutcome(q)
  BY <1>3 DEF Follows
<1> HIDE DEF q
<1>5. n - free \in Int
  BY <1>2
<1>6. Follows(p, q)
  BY <1>1, <1>4, <1>5, Assets, Debited
<1> QED BY <1>3, <1>6, FollowsOn

LEMMA EnergyChanged ==
  ASSUME NEW o, IsOutcome(o), NEW n, NEW now
  PROVE  Follows(ChangeEnergy(o, n, now), o)
<1> DEFINE t == ChangeEnergy(o, n, now)
           e == EnergyNow(o.s, now) + n
           at == IF EnergyNow(o.s, now) >= MaxEnergy THEN now ELSE Max({o.s.energyAt, now})
           sp == o.s.spent - Min({n, 0})
           gv == o.s.given + Max({n, 0})
<1>0. t = [o EXCEPT !.s.energy = e, !.s.energyAt = at, !.s.spent = sp, !.s.given = gv]
  BY DEF ChangeEnergy, IsOutcome, IsSave, SaveFields
<1> HIDE DEF t, e, at, sp, gv
<1>1. /\ t = [s |-> t.s, lines |-> o.lines] /\ t.s = [f \in SaveFields |-> t.s[f]]
      /\ t.s.level = o.s.level /\ t.s.stars = o.s.stars /\ t.s.cleared = o.s.cleared
      /\ t.s.logins = o.s.logins
      /\ t.s.has = o.s.has /\ t.s.worn = o.s.worn /\ t.s.id = o.s.id /\ t.s.born = o.s.born
      /\ t.s.idleAt = o.s.idleAt /\ t.s.idlePaid = o.s.idlePaid
  BY <1>0 DEF IsOutcome, IsSave, SaveFields
<1>2. t.s.level \in [Hero -> Int] /\ t.s.stars \in [Hero -> Int] /\ t.s.cleared \in Int
      /\ t.s.logins \in Nat
  BY <1>1 DEF IsOutcome, IsSave
<1>3. Follows(t, o)
  BY <1>1, <1>2, Put
<1> QED BY <1>3 DEF t

LEMMA Bumped ==
  ASSUME NEW o, IsOutcome(o), NEW counter, NEW n
  PROVE  Follows(Bump(o, counter, n), o)
<1> DEFINE t == [o EXCEPT !.s.progress = @ + n]
<1>1. /\ t = [s |-> t.s, lines |-> o.lines] /\ t.s = [f \in SaveFields |-> t.s[f]]
      /\ t.s.level = o.s.level /\ t.s.stars = o.s.stars /\ t.s.cleared = o.s.cleared
      /\ t.s.logins = o.s.logins
      /\ t.s.has = o.s.has /\ t.s.worn = o.s.worn /\ t.s.id = o.s.id /\ t.s.born = o.s.born
      /\ t.s.idleAt = o.s.idleAt /\ t.s.idlePaid = o.s.idlePaid
  BY SMTT(30), ZenonT(30) DEF IsOutcome, IsSave, SaveFields
<1> HIDE DEF t
<1>2. t.s.level \in [Hero -> Int] /\ t.s.stars \in [Hero -> Int] /\ t.s.cleared \in Int
      /\ t.s.logins \in Nat
  BY <1>1 DEF IsOutcome, IsSave
<1>3. Follows(t, o)
  BY <1>1, <1>2, Put
<1> QED BY <1>3, FollowsItself DEF t, Bump

LEMMA Granted ==
  ASSUME NEW o, IsOutcome(o), NEW r \in Reward, NEW now
  PROVE  Follows(Grant(o, r, now), o)
<1>1. Follows(Credit(o, r.pay), o)
  BY Rewards, Credited
<1>2. Follows(ChangeEnergy(Credit(o, r.pay), r.energy, now), Credit(o, r.pay))
  BY <1>1, EnergyChanged DEF Follows
<1> QED BY <1>1, <1>2, FollowsOn DEF Grant

LEMMA Unlocked ==
  ASSUME NEW o, IsOutcome(o), NEW h \in Hero
  PROVE  Follows(Unlock(o, h), o)
<1> DEFINE u == Credit(o, Pays(HeroAsset(h), 1))
           t == [u EXCEPT !.s.level[h] = 1, !.s.stars[h] = 1]
<1>1. Follows(u, o)
  BY PaysType, Credited
<1>2. IsOutcome(u)
  BY <1>1 DEF Follows
<1> HIDE DEF u
<1>3. /\ t = [s |-> t.s, lines |-> u.lines] /\ t.s = [f \in SaveFields |-> t.s[f]]
      /\ t.s.level = [u.s.level EXCEPT ![h] = 1] /\ t.s.stars = [u.s.stars EXCEPT ![h] = 1]
      /\ t.s.cleared = u.s.cleared /\ t.s.logins = u.s.logins
      /\ t.s.has = u.s.has /\ t.s.worn = u.s.worn /\ t.s.id = u.s.id /\ t.s.born = u.s.born
      /\ t.s.idleAt = u.s.idleAt /\ t.s.idlePaid = u.s.idlePaid
  <2>0. u = [s |-> u.s, lines |-> u.lines] /\ u.s = [f \in SaveFields |-> u.s[f]]
    BY <1>2 DEF IsOutcome, IsSave
  <2> DEFINE w == [u EXCEPT !.s.level[h] = 1]
  <2>1. /\ w = [s |-> w.s, lines |-> u.lines] /\ w.s = [f \in SaveFields |-> w.s[f]]
    BY <2>0, SMTT(30), ZenonT(30) DEF SaveFields
  <2>2. w.s = [u.s EXCEPT !.level = [u.s.level EXCEPT ![h] = 1]]
    BY <2>0 DEF SaveFields
  <2>3. t = [w EXCEPT !.s.stars[h] = 1]
    OBVIOUS
  <2> HIDE DEF w, t
  <2>4. /\ t = [s |-> t.s, lines |-> u.lines] /\ t.s = [f \in SaveFields |-> t.s[f]]
    BY <2>1, <2>3, SMTT(30), ZenonT(30) DEF SaveFields
  <2>5. t.s = [w.s EXCEPT !.stars = [w.s.stars EXCEPT ![h] = 1]]
    BY <2>1, <2>3 DEF SaveFields
  <2>6. w.s.stars = u.s.stars
    BY <2>0, <2>2 DEF SaveFields
  <2>7. t.s.stars = [u.s.stars EXCEPT ![h] = 1]
    BY <2>1, <2>5, <2>6 DEF SaveFields
  <2>8. t.s.level = w.s.level /\ w.s.level = [u.s.level EXCEPT ![h] = 1]
    BY <2>0, <2>1, <2>2, <2>5 DEF SaveFields
  <2>9. /\ t.s.cleared = u.s.cleared /\ t.s.logins = u.s.logins
        /\ t.s.has = u.s.has /\ t.s.worn = u.s.worn /\ t.s.id = u.s.id /\ t.s.born = u.s.born
        /\ t.s.idleAt = u.s.idleAt /\ t.s.idlePaid = u.s.idlePaid
    BY <2>0, <2>1, <2>2, <2>5 DEF SaveFields
  <2> QED BY <2>4, <2>7, <2>8, <2>9
<1> HIDE DEF t
<1>4. t.s.level \in [Hero -> Int] /\ t.s.stars \in [Hero -> Int] /\ t.s.cleared \in Int
      /\ t.s.logins \in Nat
  <2>1. u.s.level \in [Hero -> Int] /\ u.s.stars \in [Hero -> Int] /\ u.s.cleared \in Int
        /\ u.s.logins \in Nat
    BY <1>2 DEF IsOutcome, IsSave
  <2> QED BY <1>3, <2>1
<1>5. Follows(t, u)
  BY <1>2, <1>3, <1>4, Put
<1>6. Follows(t, o)
  BY <1>1, <1>5, FollowsOn
<1> QED BY <1>6 DEF t, u, Unlock

---------------------------------------------------------------------------

LEMMA Products == \A a, b \in Int : a * b \in Int
OBVIOUS

LEMMA Smallest == \A a, b \in Int : Min({a, b}) \in Int /\ Min({a, b}) <= a /\ Min({a, b}) <= b
<1> SUFFICES ASSUME NEW a \in Int, NEW b \in Int
             PROVE  Min({a, b}) \in Int /\ Min({a, b}) <= a /\ Min({a, b}) <= b
  OBVIOUS
<1>1. \E x \in {a, b} : \A y \in {a, b} : x <= y
  OBVIOUS
<1> QED BY <1>1 DEF Min

LEMMA Largest == \A a, b \in Int : Max({a, b}) \in {a, b} /\ Max({a, b}) >= a /\ Max({a, b}) >= b
<1> SUFFICES ASSUME NEW a \in Int, NEW b \in Int
             PROVE  Max({a, b}) \in {a, b} /\ Max({a, b}) >= a /\ Max({a, b}) >= b
  OBVIOUS
<1>1. \E x \in {a, b} : \A y \in {a, b} : x >= y
  OBVIOUS
<1> QED BY <1>1 DEF Max

LEMMA SmallestOfThree == \A a, b, c \in Int : Min({a, b, c}) \in Int
<1> SUFFICES ASSUME NEW a \in Int, NEW b \in Int, NEW c \in Int PROVE Min({a, b, c}) \in Int
  OBVIOUS
<1>1. \E x \in {a, b, c} : \A y \in {a, b, c} : x <= y
  <2>1. CASE a <= b /\ a <= c
    BY <2>1
  <2>2. CASE b <= a /\ b <= c
    BY <2>2
  <2>3. CASE c <= a /\ c <= b
    BY <2>3
  <2> QED BY <2>1, <2>2, <2>3
<1> QED BY <1>1 DEF Min

\* What an action does to a save: its lines are the change of what the save
\* holds, and the chest pays no more minutes than have gone by.
Explains(p, s, now) ==
  /\ IsOutcome(p) /\ p.s.id = s.id /\ p.s.born = s.born
  /\ \A x \in Asset : Holdings(p.s, x) = Holdings(s, x) + p.lines[x]
  /\ \/ p.s.idleAt = s.idleAt /\ p.s.idlePaid = s.idlePaid
     \/ p.s.idleAt = now /\ p.s.idlePaid <= s.idlePaid + (now - s.idleAt)

LEMMA FollowingExplains ==
  ASSUME NEW s, NEW now, NEW o, NEW p, IsOutcome(o), o.lines = Nothing,
         o.s.has = s.has, o.s.worn = s.worn, o.s.id = s.id, o.s.born = s.born,
         o.s.idleAt = s.idleAt, o.s.idlePaid = s.idlePaid, Follows(p, o)
  PROVE  Explains(p, s, now)
<1>1. ASSUME NEW x \in Asset PROVE Holdings(p.s, x) = Holdings(s, x) + p.lines[x]
  <2>1. /\ o.s.has[x] \in Int /\ p.s.has[x] \in Int /\ p.lines[x] \in Int /\ o.lines[x] = 0
        /\ p.s.worn = s.worn /\ IsFiniteSet(o.s.worn) /\ s.has[x] = o.s.has[x]
    BY DEF Follows, IsOutcome, IsSave, Nothing
  <2>2. p.s.has[x] - o.s.has[x] = p.lines[x] - o.lines[x]
    BY DEF Follows
  <2>3. Cardinality(s.worn) \in Nat
    BY <2>1, FS_CardinalityType
  <2> QED BY <2>1, <2>2, <2>3 DEF Holdings
<1> QED BY <1>1 DEF Explains, Follows

LEMMA Collected ==
  ASSUME NEW s, NEW now \in Int, NEW o, NEW p \in Collect(o, now), IsOutcome(o), o.lines = Nothing,
         o.s.has = s.has, o.s.worn = s.worn, o.s.id = s.id, o.s.born = s.born,
         o.s.idleAt = s.idleAt, o.s.idlePaid = s.idlePaid
  PROVE  Explains(p, s, now)
<1> DEFINE minutes == Min({Max({0, now - o.s.idleAt}), IdleCap})
           paid == Credit(o, Pays(Gold, minutes * (GoldPerMinute + o.s.cleared)))
<1>1. p = [paid EXCEPT !.s.idleAt = now, !.s.idlePaid = @ + minutes] /\ ~(minutes < 1)
  BY DEF Collect
<1>2. minutes \in Int /\ minutes <= now - o.s.idleAt
  <2> DEFINE gap == now - o.s.idleAt
  <2>1. gap \in Int /\ IdleCap \in Int /\ 0 \in Int
    BY Numbers, SMTT(30), ZenonT(30) DEF IsOutcome, IsSave
  <2>2. minutes = Min({Max({0, gap}), IdleCap})
    OBVIOUS
  <2> HIDE DEF gap, minutes
  <2>3. Max({0, gap}) \in {0, gap} /\ Max({0, gap}) \in Int
    BY <2>1, Largest
  <2>4. minutes \in Int /\ minutes <= Max({0, gap})
    BY <2>1, <2>2, <2>3, Smallest
  <2>5. minutes <= gap
    BY <1>1, <2>1, <2>3, <2>4
  <2> QED BY <2>4, <2>5 DEF gap
<1> HIDE DEF minutes
<1>3. Explains(paid, s, now)
  <2>1. minutes * (GoldPerMinute + o.s.cleared) \in Int
    <3>1. GoldPerMinute + o.s.cleared \in Int
      <4>1. GoldPerMinute \in Int /\ o.s.cleared \in Int
        BY Numbers DEF IsOutcome, IsSave
      <4> QED BY <4>1
    <3> DEFINE rate == GoldPerMinute + o.s.cleared
    <3> HIDE DEF rate
    <3>2. minutes * rate \in Int
      BY <1>2, <3>1, Products DEF rate
    <3> QED BY <3>2 DEF rate
  <2>2. Follows(paid, o)
    BY <2>1, PaysType, Credited
  <2> HIDE DEF paid
  <2> QED BY <2>2, FollowingExplains
<1>4. paid.s.idleAt = o.s.idleAt /\ paid.s.idlePaid = o.s.idlePaid
  <2>1. minutes * (GoldPerMinute + o.s.cleared) \in Int
    <3>1. GoldPerMinute + o.s.cleared \in Int
      <4>1. GoldPerMinute \in Int /\ o.s.cleared \in Int
        BY Numbers DEF IsOutcome, IsSave
      <4> QED BY <4>1
    <3> DEFINE rate == GoldPerMinute + o.s.cleared
    <3> HIDE DEF rate
    <3>2. minutes * rate \in Int
      BY <1>2, <3>1, Products DEF rate
    <3> QED BY <3>2 DEF rate
  <2>2. Follows(paid, o)
    BY <2>1, PaysType, Credited
  <2> QED BY <2>2 DEF Follows
<1> HIDE DEF paid
<1>5. /\ p = [s |-> p.s, lines |-> paid.lines] /\ p.s = [f \in SaveFields |-> p.s[f]]
      /\ p.s.level = paid.s.level /\ p.s.stars = paid.s.stars /\ p.s.cleared = paid.s.cleared
      /\ p.s.logins = paid.s.logins /\ p.s.has = paid.s.has /\ p.s.worn = paid.s.worn
      /\ p.s.id = paid.s.id /\ p.s.born = paid.s.born
      /\ p.s.idleAt = now /\ p.s.idlePaid = paid.s.idlePaid + minutes
  BY <1>1, <1>3 DEF Explains, IsOutcome, IsSave, SaveFields
<1>6. IsOutcome(p) /\ p.lines = paid.lines
  <2>1. p.lines = paid.lines
    BY <1>5
  <2>2. IsOutcome(paid)
    BY <1>3 DEF Explains
  <2>3. p.s.idlePaid \in Int
    BY <1>2, <1>5, <2>2 DEF IsOutcome, IsSave
  <2> QED BY <1>5, <2>1, <2>2, <2>3 DEF IsOutcome, IsSave
<1>7. \A x \in Asset : Holdings(p.s, x) = Holdings(s, x) + p.lines[x]
  BY <1>3, <1>5, <1>6 DEF Explains, Holdings
<1>8. p.s.idlePaid <= s.idlePaid + (now - s.idleAt)
  <2>1. o.s.idleAt \in Int /\ o.s.idlePaid \in Int
    BY DEF IsOutcome, IsSave
  <2> QED BY <1>2, <1>4, <1>5, <2>1
<1> QED BY <1>3, <1>5, <1>6, <1>7, <1>8 DEF Explains

LEMMA Fought ==
  ASSUME NEW o, IsOutcome(o), NEW stage \in Int, NEW now, NEW p \in Battle(o, stage, now)
  PROVE  Follows(p, o)
<1> DEFINE first == stage = o.s.cleared + 1
           cost == IF first /\ stage <= FreeFirstClears THEN 0 ELSE StageEnergy
           Paid(n) == IF n = 0 THEN o ELSE Bump(ChangeEnergy(o, -n, now), "energy_spent", n)
           won == Bump(Grant(Paid(cost), IF first THEN First ELSE Repeat, now), "battle_won", 1)
           HavingCleared(w, stars) ==
             [w EXCEPT !.s.cleared = Max({@, stage}),
                       !.s.swept = IF stars = 3 THEN @ \cup {stage} ELSE @]
<1>1. p = Paid(Min({cost, 1})) \/ \E stars \in {1, 3} : p = HavingCleared(won, stars)
  BY DEF Battle
<1>2. \A n : Follows(Paid(n), o)
  <2> TAKE n
  <2>1. Follows(ChangeEnergy(o, -n, now), o)
    BY EnergyChanged
  <2>2. IsOutcome(ChangeEnergy(o, -n, now))
    BY <2>1 DEF Follows
  <2>3. Follows(Bump(ChangeEnergy(o, -n, now), "energy_spent", n), ChangeEnergy(o, -n, now))
    BY <2>2, Bumped
  <2>4. Follows(Bump(ChangeEnergy(o, -n, now), "energy_spent", n), o)
    BY <2>1, <2>3, FollowsOn
  <2> QED BY <2>4, FollowsItself
<1>3. Follows(won, o)
  <2> DEFINE g == Grant(Paid(cost), IF first THEN First ELSE Repeat, now)
  <2>1. Follows(Paid(cost), o) /\ IsOutcome(Paid(cost))
    BY <1>2 DEF Follows
  <2>2. Follows(g, Paid(cost))
    <3>1. (IF first THEN First ELSE Repeat) \in Reward
      BY Numbers
    <3> HIDE DEF Paid, cost, first
    <3> QED BY <2>1, <3>1, Granted
  <2>3. Follows(g, o) /\ IsOutcome(g)
    <3> HIDE DEF g, Paid, cost, first
    <3> QED BY <2>1, <2>2, FollowsOn DEF Follows
  <2>4. Follows(Bump(g, "battle_won", 1), g)
    <3> HIDE DEF g
    <3> QED BY <2>3, Bumped
  <2> HIDE DEF g, Paid, cost, first
  <2>5. Follows(Bump(g, "battle_won", 1), o)
    BY <2>3, <2>4, FollowsOn
  <2> QED BY <2>5 DEF g
<1>4. ASSUME NEW w, Follows(w, o), NEW stars PROVE Follows(HavingCleared(w, stars), o)
  <2> DEFINE t == HavingCleared(w, stars)
  <2>0. IsOutcome(w)
    BY <1>4 DEF Follows
  <2> DEFINE high == Max({w.s.cleared, stage})
             swept == IF stars = 3 THEN w.s.swept \cup {stage} ELSE w.s.swept
  <2>5. t = [w EXCEPT !.s.cleared = high, !.s.swept = swept]
    BY <2>0 DEF IsOutcome, IsSave, SaveFields
  <2> HIDE DEF t, high, swept
  <2>1. /\ t = [s |-> t.s, lines |-> w.lines] /\ t.s = [f \in SaveFields |-> t.s[f]]
        /\ t.s.level = w.s.level /\ t.s.stars = w.s.stars /\ t.s.cleared = high
        /\ t.s.logins = w.s.logins
        /\ t.s.has = w.s.has /\ t.s.worn = w.s.worn /\ t.s.id = w.s.id /\ t.s.born = w.s.born
        /\ t.s.idleAt = w.s.idleAt /\ t.s.idlePaid = w.s.idlePaid
    BY <2>0, <2>5 DEF IsOutcome, IsSave, SaveFields
  <2>6. high \in Int
    BY <2>0, Largest DEF IsOutcome, IsSave, high
  <2>2. t.s.level \in [Hero -> Int] /\ t.s.stars \in [Hero -> Int] /\ t.s.cleared \in Int
        /\ t.s.logins \in Nat
    BY <2>0, <2>1, <2>6 DEF IsOutcome, IsSave
  <2>3. Follows(t, w)
    BY <2>0, <2>1, <2>2, Put
  <2>4. Follows(t, o)
    BY <1>4, <2>3, FollowsOn
  <2> QED BY <2>4 DEF t
<1> HIDE DEF won, HavingCleared, Paid
<1> QED BY <1>1, <1>2, <1>3, <1>4

LEMMA Swept ==
  ASSUME NEW o, IsOutcome(o), NEW stage, NEW now, NEW p \in Sweep(o, stage, now)
  PROVE  Follows(p, o)
<1> DEFINE e == ChangeEnergy(o, -StageEnergy, now)
           b == Bump(e, "energy_spent", StageEnergy)
           g == Grant(b, Repeat, now)
<1>1. p = Bump(g, "battle_won", 1)
  BY DEF Sweep
<1>2. Follows(e, o) /\ IsOutcome(e)
  BY EnergyChanged DEF Follows
<1> HIDE DEF e
<1>3. Follows(b, o) /\ IsOutcome(b)
  <2>1. Follows(b, e)
    BY <1>2, Bumped
  <2> QED BY <1>2, <2>1, FollowsOn DEF Follows
<1> HIDE DEF b
<1>4. Follows(g, o) /\ IsOutcome(g)
  <2>1. Follows(g, b)
    BY <1>3, Numbers, Granted
  <2> QED BY <1>3, <2>1, FollowsOn DEF Follows
<1> HIDE DEF g
<1>5. Follows(p, g)
  BY <1>1, <1>4, Bumped
<1> QED BY <1>4, <1>5, FollowsOn

LEMMA Levelled ==
  ASSUME NEW o, IsOutcome(o), NEW h \in Hero, NEW times \in Int, NEW p \in Level(o, h, times)
  PROVE  Follows(p, o)
<1> DEFINE gained == Min({times, LevelsPerStar * o.s.stars[h] - o.s.level[h], o.s.has[Gold]})
           d == Debit(o, Gold, gained)
           paid == Bump(d, "hero_levelled", gained)
<1>1. p = [paid EXCEPT !.s.level[h] = @ + gained]
  BY DEF Level
<1>2. gained \in Int
  <2>1. o.s.stars[h] \in Int /\ o.s.level[h] \in Int /\ o.s.has[Gold] \in Int
    BY Assets DEF IsOutcome, IsSave
  <2> DEFINE stars == o.s.stars[h]
             most == LevelsPerStar * stars
  <2>4. LevelsPerStar \in Int /\ stars \in Int
    BY <2>1, Numbers
  <2> HIDE DEF stars
  <2>2. most \in Int
    BY <2>4, Products
  <2> HIDE DEF most
  <2>3. most - o.s.level[h] \in Int
    BY <2>1, <2>2
  <2>5. Min({times, most - o.s.level[h], o.s.has[Gold]}) \in Int
    BY <2>1, <2>3, SmallestOfThree
  <2> QED BY <2>5 DEF most, stars
<1> HIDE DEF gained
<1>3. Follows(d, o) /\ IsOutcome(d)
  BY <1>2, Assets, Debited, ZenonT(60), SMTT(30) DEF Follows
<1> HIDE DEF d
<1>4. Follows(paid, o) /\ IsOutcome(paid)
  <2>1. Follows(paid, d)
    BY <1>3, Bumped
  <2> QED BY <1>3, <2>1, FollowsOn DEF Follows
<1> HIDE DEF paid
<1>5. /\ p = [s |-> p.s, lines |-> paid.lines] /\ p.s = [f \in SaveFields |-> p.s[f]]
      /\ p.s.level = [paid.s.level EXCEPT ![h] = @ + gained] /\ p.s.stars = paid.s.stars
      /\ p.s.cleared = paid.s.cleared /\ p.s.logins = paid.s.logins
      /\ p.s.has = paid.s.has /\ p.s.worn = paid.s.worn /\ p.s.id = paid.s.id
      /\ p.s.born = paid.s.born /\ p.s.idleAt = paid.s.idleAt /\ p.s.idlePaid = paid.s.idlePaid
  BY <1>1, <1>4 DEF IsOutcome, IsSave, SaveFields
<1>6. p.s.level \in [Hero -> Int] /\ p.s.stars \in [Hero -> Int] /\ p.s.cleared \in Int
      /\ p.s.logins \in Nat
  <2>1. /\ paid.s.level \in [Hero -> Int] /\ paid.s.stars \in [Hero -> Int]
        /\ paid.s.cleared \in Int /\ paid.s.logins \in Nat
    BY <1>4 DEF IsOutcome, IsSave
  <2> QED BY <1>2, <1>5, <2>1
<1>7. Follows(p, paid)
  BY <1>4, <1>5, <1>6, Put
<1> QED BY <1>4, <1>7, FollowsOn

LEMMA Starred ==
  ASSUME NEW o, IsOutcome(o), NEW h \in Hero, NEW p \in Star(o, h)
  PROVE  Follows(p, o)
<1>1. PICK q \in Spend(o, Gold, StarCost) :
        p = [Bump(Debit(q, Shard(h), StarCost), "star_up", 1) EXCEPT !.s.stars[h] = @ + 1]
  BY DEF Star
<1>2. Follows(q, o) /\ IsOutcome(q)
  BY Spent, Numbers, Assets DEF Follows
<1> DEFINE d == Debit(q, Shard(h), StarCost)
           paid == Bump(d, "star_up", 1)
<1>3. Follows(d, o) /\ IsOutcome(d)
  <2>1. Follows(d, q)
    BY <1>2, Numbers, Assets, Debited
  <2> QED BY <1>2, <2>1, FollowsOn DEF Follows
<1> HIDE DEF d
<1>4. Follows(paid, o) /\ IsOutcome(paid)
  <2>1. Follows(paid, d)
    BY <1>3, Bumped
  <2> QED BY <1>3, <2>1, FollowsOn DEF Follows
<1>5. p = [paid EXCEPT !.s.stars[h] = @ + 1]
  BY <1>1 DEF d
<1> HIDE DEF paid
<1>6. /\ p = [s |-> p.s, lines |-> paid.lines] /\ p.s = [f \in SaveFields |-> p.s[f]]
      /\ p.s.level = paid.s.level /\ p.s.stars = [paid.s.stars EXCEPT ![h] = @ + 1]
      /\ p.s.cleared = paid.s.cleared /\ p.s.logins = paid.s.logins
      /\ p.s.has = paid.s.has /\ p.s.worn = paid.s.worn /\ p.s.id = paid.s.id
      /\ p.s.born = paid.s.born /\ p.s.idleAt = paid.s.idleAt /\ p.s.idlePaid = paid.s.idlePaid
  BY <1>4, <1>5 DEF IsOutcome, IsSave, SaveFields
<1>7. p.s.level \in [Hero -> Int] /\ p.s.stars \in [Hero -> Int] /\ p.s.cleared \in Int
      /\ p.s.logins \in Nat
  <2>1. /\ paid.s.level \in [Hero -> Int] /\ paid.s.stars \in [Hero -> Int]
        /\ paid.s.cleared \in Int /\ paid.s.logins \in Nat
    BY <1>4 DEF IsOutcome, IsSave
  <2> QED BY <1>6, <2>1
<1>8. Follows(p, paid)
  BY <1>4, <1>6, <1>7, Put
<1> QED BY <1>4, <1>8, FollowsOn

LEMMA Fused ==
  ASSUME NEW o, IsOutcome(o), NEW h \in Hero, NEW p \in Fuse(o, h)
  PROVE  Follows(p, o)
<1> DEFINE d == Debit(o, Shard(h), FuseShards)
<1>1. p = Unlock(d, h)
  BY DEF Fuse
<1>2. Follows(d, o) /\ IsOutcome(d)
  <2>1. Shard(h) \in Asset /\ FuseShards \in Int
    BY Numbers, Assets
  <2> QED BY <2>1, Debited DEF Follows
<1> HIDE DEF d
<1>3. Follows(p, d)
  BY <1>1, <1>2, Unlocked
<1> QED BY <1>2, <1>3, FollowsOn

\* A draw only adds what it draws, a hero or shards of it.
LEMMA DrawnFollows ==
  ASSUME NEW o, IsOutcome(o), NEW n \in Nat, NEW draws \in [1 .. n -> Hero]
  PROVE  Follows(Drawn(o, draws), o)
<1> DEFINE Times(h) == Cardinality({i \in DOMAIN draws : draws[i] = h})
           New(h) == ~Owned(o.s, h) /\ Times(h) > 0
           shards == [x \in Asset |->
             IF \E h \in Hero : x = Shard(h)
               THEN DuplicateShards * (Times(x[2]) - IF New(x[2]) THEN 1 ELSE 0)
               ELSE IF \E h \in Hero : x = HeroAsset(h) /\ New(h) THEN 1 ELSE 0]
           paid == Credit(o, shards)
           pity == PityAfter(o.s.pity, draws)
           t == Drawn(o, draws)
<1>1. \A h : Times(h) \in Nat
  <2> TAKE h
  <2>1. IsFiniteSet(1 .. n) /\ DOMAIN draws = 1 .. n
    BY FS_Interval
  <2>2. {i \in DOMAIN draws : draws[i] = h} \subseteq 1 .. n
    BY <2>1
  <2>3. IsFiniteSet({i \in DOMAIN draws : draws[i] = h})
    BY <2>1, <2>2, FS_Subset
  <2> QED BY <2>3, FS_CardinalityType
<1>2. shards \in [Asset -> Int]
  <2> DEFINE Amount(x) == IF \E h \in Hero : x = Shard(h)
               THEN DuplicateShards * (Times(x[2]) - IF New(x[2]) THEN 1 ELSE 0)
               ELSE IF \E h \in Hero : x = HeroAsset(h) /\ New(h) THEN 1 ELSE 0
  <2>1. \A x \in Asset : Amount(x) \in Int
    <3> TAKE x \in Asset
    <3> DEFINE extra == Times(x[2]) - IF New(x[2]) THEN 1 ELSE 0
    <3>1. extra \in Int
      <4>1. Times(x[2]) \in Nat
        BY <1>1
      <4> HIDE DEF Times, New
      <4> QED BY <4>1
    <3>2. DuplicateShards * extra \in Int
      <4> HIDE DEF extra
      <4> QED BY <3>1, Numbers, Products
    <3>3. Amount(x) \in {DuplicateShards * extra, 1, 0}
      OBVIOUS
    <3> HIDE DEF Amount, extra
    <3> QED BY <3>2, <3>3
  <2> QED BY <2>1
<1>3. Follows(paid, o) /\ IsOutcome(paid)
  <2> HIDE DEF shards
  <2> QED BY <1>2, Credited DEF Follows
<1> DEFINE lv == [h \in Hero |-> IF New(h) THEN 1 ELSE paid.s.level[h]]
           st == [h \in Hero |-> IF New(h) THEN 1 ELSE paid.s.stars[h]]
           pt == PityAfter(paid.s.pity, draws)
<1>4. t = [paid EXCEPT !.s.pity = pt, !.s.level = lv, !.s.stars = st]
  <2>1. t = [paid EXCEPT !.s.pity = PityAfter(@, draws),
                  !.s.level = [h \in Hero |-> IF New(h) THEN 1 ELSE @[h]],
                  !.s.stars = [h \in Hero |-> IF New(h) THEN 1 ELSE @[h]]]
    BY DEF Drawn
  <2> HIDE DEF New, t, paid
  <2> QED BY <2>1, <1>3 DEF IsOutcome, IsSave, SaveFields
<1> HIDE DEF t, paid, pt
<1>5. lv \in [Hero -> Int] /\ st \in [Hero -> Int]
  <2>1. paid.s.level \in [Hero -> Int] /\ paid.s.stars \in [Hero -> Int]
    BY <1>3 DEF IsOutcome, IsSave
  <2> HIDE DEF New
  <2> QED BY <2>1
<1> HIDE DEF lv, st
<1>6. /\ t = [s |-> t.s, lines |-> paid.lines] /\ t.s = [f \in SaveFields |-> t.s[f]]
      /\ t.s.level = lv /\ t.s.stars = st
      /\ t.s.cleared = paid.s.cleared /\ t.s.logins = paid.s.logins
      /\ t.s.has = paid.s.has /\ t.s.worn = paid.s.worn /\ t.s.id = paid.s.id
      /\ t.s.born = paid.s.born /\ t.s.idleAt = paid.s.idleAt /\ t.s.idlePaid = paid.s.idlePaid
  BY <1>3, <1>4 DEF IsOutcome, IsSave, SaveFields
<1>7. t.s.cleared \in Int /\ t.s.logins \in Nat
  BY <1>3, <1>6 DEF IsOutcome, IsSave
<1>8. Follows(t, paid)
  BY <1>3, <1>5, <1>6, <1>7, Put
<1>9. Follows(t, o)
  BY <1>3, <1>8, FollowsOn
<1> QED BY <1>9 DEF t

LEMMA Summoned ==
  ASSUME NEW o, IsOutcome(o), NEW n \in Nat, NEW p \in Summon(o, n)
  PROVE  Follows(p, o)
<1>1. PICK q \in Spend(o, Sigils, DrawCost * n), d \in Draws(o.s.pity, n) :
        p = Bump(Drawn(q, d), "summoned", n)
  BY DEF Summon
<1>2. Follows(q, o) /\ IsOutcome(q)
  <2>1. DrawCost * n \in Int
    BY Numbers, Products
  <2> QED BY <2>1, Spent, Assets DEF Follows
<1>3. Follows(Drawn(q, d), q)
  BY <1>2, DrawnFollows DEF Draws
<1>4. Follows(Drawn(q, d), o) /\ IsOutcome(Drawn(q, d))
  BY <1>2, <1>3, FollowsOn DEF Follows
<1>5. Follows(p, Drawn(q, d))
  BY <1>1, <1>4, Bumped
<1> QED BY <1>4, <1>5, FollowsOn

LEMMA QuestClaimed ==
  ASSUME NEW o, IsOutcome(o), NEW now, NEW p \in ClaimQuest(o, now)
  PROVE  Follows(p, o)
<1> DEFINE g == Grant(o, Quest.reward, now)
<1>1. p = [g EXCEPT !.s.claimed = TRUE]
  BY DEF ClaimQuest
<1>2. Follows(g, o) /\ IsOutcome(g)
  BY Numbers, Granted, SMTT(30), ZenonT(30) DEF Follows
<1> HIDE DEF g
<1>3. /\ p = [s |-> p.s, lines |-> g.lines] /\ p.s = [f \in SaveFields |-> p.s[f]]
      /\ p.s.level = g.s.level /\ p.s.stars = g.s.stars
      /\ p.s.cleared = g.s.cleared /\ p.s.logins = g.s.logins
      /\ p.s.has = g.s.has /\ p.s.worn = g.s.worn /\ p.s.id = g.s.id
      /\ p.s.born = g.s.born /\ p.s.idleAt = g.s.idleAt /\ p.s.idlePaid = g.s.idlePaid
  BY <1>1, <1>2 DEF IsOutcome, IsSave, SaveFields
<1>4. p.s.level \in [Hero -> Int] /\ p.s.stars \in [Hero -> Int] /\ p.s.cleared \in Int
      /\ p.s.logins \in Nat
  BY <1>2, <1>3 DEF IsOutcome, IsSave
<1>5. Follows(p, g)
  BY <1>2, <1>3, <1>4, Put
<1> QED BY <1>2, <1>5, FollowsOn

LEMMA LoggedIn ==
  ASSUME NEW o, IsOutcome(o), NEW now, NEW p \in Login(o, now)
  PROVE  Follows(p, o)
<1> DEFINE i == (o.s.logins % Len(Calendar)) + 1
           reward == Calendar[i]
           g == Grant(o, reward, now)
           b == Bump(g, "login", 1)
           today == Day(now)
<1>1. p = [b EXCEPT !.s.lastLogin = today, !.s.logins = @ + 1]
  BY DEF Login
<1>2. reward \in Reward
  <2>3. Calendar \in Seq(Reward) /\ Calendar # <<>>
    BY Numbers
  <2>4. o.s.logins \in Nat
    BY DEF IsOutcome, IsSave
  <2>1. o.s.logins \in Nat /\ Len(Calendar) \in Nat /\ Len(Calendar) > 0
    BY <2>3, <2>4, EmptySeq, LenProperties
  <2>2. i \in 1 .. Len(Calendar)
    BY <2>1
  <2> HIDE DEF i
  <2> QED BY <2>2, Numbers, ElementOfSeq
<1> HIDE DEF reward
<1>3. Follows(g, o) /\ IsOutcome(g)
  BY <1>2, Granted DEF Follows
<1> HIDE DEF g
<1>4. Follows(b, o) /\ IsOutcome(b)
  <2>1. Follows(b, g)
    BY <1>3, Bumped
  <2> QED BY <1>3, <2>1, FollowsOn DEF Follows
<1> HIDE DEF b, today
<1>5. /\ p = [s |-> p.s, lines |-> b.lines] /\ p.s = [f \in SaveFields |-> p.s[f]]
      /\ p.s.level = b.s.level /\ p.s.stars = b.s.stars
      /\ p.s.cleared = b.s.cleared /\ p.s.logins = b.s.logins + 1
      /\ p.s.has = b.s.has /\ p.s.worn = b.s.worn /\ p.s.id = b.s.id
      /\ p.s.born = b.s.born /\ p.s.idleAt = b.s.idleAt /\ p.s.idlePaid = b.s.idlePaid
  BY <1>1, <1>4 DEF IsOutcome, IsSave, SaveFields
<1>6. p.s.level \in [Hero -> Int] /\ p.s.stars \in [Hero -> Int] /\ p.s.cleared \in Int
      /\ p.s.logins \in Nat
  BY <1>4, <1>5 DEF IsOutcome, IsSave
<1>7. Follows(p, b)
  BY <1>4, <1>5, <1>6, Put
<1> QED BY <1>4, <1>7, FollowsOn

LEMMA BoughtFollows ==
  ASSUME NEW o, IsOutcome(o), NEW now, NEW p \in Buy(o, now)
  PROVE  Follows(p, o)
<1> DEFINE today == Day(now)
           many == Bought(o.s, now) + 1
<1>1. PICK q \in SpendGems(o, Product.gems) :
        p = [Grant(q, Product.reward, now) EXCEPT !.s.buyDay = today, !.s.bought = many]
  BY DEF Buy
<1>2. Follows(q, o) /\ IsOutcome(q)
  BY GemsSpent, Numbers DEF Follows
<1> DEFINE g == Grant(q, Product.reward, now)
<1>3. Follows(g, o) /\ IsOutcome(g)
  <2>1. Follows(g, q)
    BY <1>2, Numbers, Granted
  <2> QED BY <1>2, <2>1, FollowsOn DEF Follows
<1>4. p = [g EXCEPT !.s.buyDay = today, !.s.bought = many]
  BY <1>1
<1> HIDE DEF g, today, many
<1>5. /\ p = [s |-> p.s, lines |-> g.lines] /\ p.s = [f \in SaveFields |-> p.s[f]]
      /\ p.s.level = g.s.level /\ p.s.stars = g.s.stars
      /\ p.s.cleared = g.s.cleared /\ p.s.logins = g.s.logins
      /\ p.s.has = g.s.has /\ p.s.worn = g.s.worn /\ p.s.id = g.s.id
      /\ p.s.born = g.s.born /\ p.s.idleAt = g.s.idleAt /\ p.s.idlePaid = g.s.idlePaid
  BY <1>3, <1>4 DEF IsOutcome, IsSave, SaveFields
<1>6. p.s.level \in [Hero -> Int] /\ p.s.stars \in [Hero -> Int] /\ p.s.cleared \in Int
      /\ p.s.logins \in Nat
  BY <1>3, <1>5 DEF IsOutcome, IsSave
<1>7. Follows(p, g)
  BY <1>3, <1>5, <1>6, Put
<1> QED BY <1>3, <1>7, FollowsOn

\* The gear changes hands: what is worn and what is spare add up to the same.
LEMMA Regeared ==
  ASSUME NEW o, IsOutcome(o), o.lines = Nothing, NEW spare \in Int, NEW worn,
         IsFiniteSet(worn), spare + Cardinality(worn) = o.s.has[Gear] + Cardinality(o.s.worn),
         NEW p, p = [o EXCEPT !.s.has[Gear] = spare, !.s.worn = worn],
         NEW s, NEW now, o.s.has = s.has, o.s.worn = s.worn, o.s.id = s.id, o.s.born = s.born,
         o.s.idleAt = s.idleAt, o.s.idlePaid = s.idlePaid
  PROVE  Explains(p, s, now)
<1>1. /\ p = [s |-> p.s, lines |-> o.lines] /\ p.s = [f \in SaveFields |-> p.s[f]]
      /\ p.s.level = o.s.level /\ p.s.stars = o.s.stars
      /\ p.s.cleared = o.s.cleared /\ p.s.logins = o.s.logins
      /\ p.s.has = [o.s.has EXCEPT ![Gear] = spare] /\ p.s.worn = worn /\ p.s.id = o.s.id
      /\ p.s.born = o.s.born /\ p.s.idleAt = o.s.idleAt /\ p.s.idlePaid = o.s.idlePaid
  <2> DEFINE w == [o EXCEPT !.s.has[Gear] = spare]
  <2>0. o = [s |-> o.s, lines |-> o.lines] /\ o.s = [f \in SaveFields |-> o.s[f]]
    BY DEF IsOutcome, IsSave
  <2>1. /\ w = [s |-> w.s, lines |-> o.lines] /\ w.s = [f \in SaveFields |-> w.s[f]]
    BY <2>0 DEF SaveFields
  <2>2. w.s = [o.s EXCEPT !.has = [o.s.has EXCEPT ![Gear] = spare]]
    BY <2>0 DEF SaveFields
  <2>3. p = [w EXCEPT !.s.worn = worn]
    OBVIOUS
  <2> HIDE DEF w
  <2>4. /\ p = [s |-> p.s, lines |-> o.lines] /\ p.s = [f \in SaveFields |-> p.s[f]]
    BY <2>1, <2>3 DEF SaveFields
  <2>5. p.s = [w.s EXCEPT !.worn = worn]
    BY <2>1, <2>3 DEF SaveFields
  <2>6. p.s.has = w.s.has /\ w.s.has = [o.s.has EXCEPT ![Gear] = spare]
    BY <2>0, <2>1, <2>2, <2>5 DEF SaveFields
  <2>7. /\ p.s.level = o.s.level /\ p.s.stars = o.s.stars
        /\ p.s.cleared = o.s.cleared /\ p.s.logins = o.s.logins
        /\ p.s.worn = worn /\ p.s.id = o.s.id
        /\ p.s.born = o.s.born /\ p.s.idleAt = o.s.idleAt /\ p.s.idlePaid = o.s.idlePaid
    BY <2>0, <2>1, <2>2, <2>5 DEF SaveFields
  <2> QED BY <2>4, <2>6, <2>7
<1>2. p.lines = Nothing
  BY <1>1
<1>3. IsOutcome(p)
  <2>1. /\ o.s.has \in [Asset -> Int] /\ o.s.level \in [Hero -> Int] /\ o.s.stars \in [Hero -> Int]
        /\ o.s.cleared \in Int /\ o.s.logins \in Nat
        /\ o.s.born \in Int /\ o.s.idleAt \in Int /\ o.s.idlePaid \in Int /\ o.lines \in [Asset -> Int]
    BY DEF IsOutcome, IsSave
  <2>2. p.s.has \in [Asset -> Int]
    BY <1>1, <2>1
  <2>3. IsSave(p.s)
    BY <1>1, <2>1, <2>2 DEF IsSave
  <2>4. p.lines = o.lines
    BY <1>1
  <2> QED BY <1>1, <2>1, <2>3, <2>4 DEF IsOutcome
<1>4. ASSUME NEW x \in Asset PROVE Holdings(p.s, x) = Holdings(s, x) + p.lines[x]
  <2>1. /\ p.lines[x] = 0 /\ o.s.has[x] \in Int
        /\ Cardinality(worn) \in Int /\ Cardinality(o.s.worn) \in Int
    <3>1. IsFiniteSet(o.s.worn) /\ o.s.has \in [Asset -> Int]
      BY DEF IsOutcome, IsSave
    <3>2. Cardinality(worn) \in Nat /\ Cardinality(o.s.worn) \in Nat
      BY <3>1, FS_CardinalityType
    <3>3. p.lines[x] = 0
      BY <1>2 DEF Nothing
    <3> QED BY <3>1, <3>2, <3>3
  <2>2. p.s.has[x] = IF x = Gear THEN spare ELSE o.s.has[x]
    <3>1. o.s.has \in [Asset -> Int]
      BY DEF IsOutcome, IsSave
    <3> QED BY <1>1, <3>1
  <2>3. CASE x = Gear
    <3>1. Holdings(p.s, x) = spare + Cardinality(worn)
      BY <2>2, <2>3, <1>1 DEF Holdings
    <3>2. Holdings(s, x) = o.s.has[Gear] + Cardinality(o.s.worn)
      BY <2>3 DEF Holdings
    <3> QED BY <2>1, <2>3, <3>1, <3>2
  <2>4. CASE x # Gear
    BY <2>1, <2>2, <2>4 DEF Holdings
  <2> QED BY <2>3, <2>4
<1> QED BY <1>1, <1>3, <1>4 DEF Explains

LEMMA Equipped ==
  ASSUME NEW h, NEW s, NEW now, NEW o, NEW p, p \in Equip(o, h) \cup Unequip(o, h),
         IsOutcome(o), o.lines = Nothing,
         o.s.has = s.has, o.s.worn = s.worn, o.s.id = s.id, o.s.born = s.born,
         o.s.idleAt = s.idleAt, o.s.idlePaid = s.idlePaid
  PROVE  Explains(p, s, now)
<1>1. IsFiniteSet(o.s.worn) /\ Cardinality(o.s.worn) \in Nat /\ o.s.has[Gear] \in Int
  BY FS_CardinalityType, Assets DEF IsOutcome, IsSave
<1>2. CASE p \in Equip(o, h)
  <2> DEFINE spare == IF h \in o.s.worn THEN o.s.has[Gear] ELSE o.s.has[Gear] - 1
             worn == o.s.worn \cup {h}
  <2>1. p = [o EXCEPT !.s.has[Gear] = spare, !.s.worn = worn]
    <3>1. p = [o EXCEPT !.s.has[Gear] = IF h \in o.s.worn THEN @ ELSE @ - 1, !.s.worn = @ \cup {h}]
      BY <1>2 DEF Equip
    <3> QED BY <3>1 DEF IsOutcome, IsSave, SaveFields
  <2>2. IsFiniteSet(worn) /\ Cardinality(worn) = IF h \in o.s.worn THEN Cardinality(o.s.worn)
                                                 ELSE Cardinality(o.s.worn) + 1
    BY <1>1, FS_AddElement
  <2>3. spare \in Int /\ spare + Cardinality(worn) = o.s.has[Gear] + Cardinality(o.s.worn)
    BY <1>1, <2>2
  <2> HIDE DEF spare, worn
  <2> QED BY <2>1, <2>2, <2>3, Regeared
<1>3. CASE p \in Unequip(o, h)
  <2> DEFINE spare == IF h \in o.s.worn THEN o.s.has[Gear] + 1 ELSE o.s.has[Gear]
             worn == o.s.worn \ {h}
  <2>1. p = [o EXCEPT !.s.has[Gear] = spare, !.s.worn = worn]
    <3>1. p = [o EXCEPT !.s.has[Gear] = IF h \in o.s.worn THEN @ + 1 ELSE @, !.s.worn = @ \ {h}]
      BY <1>3 DEF Unequip
    <3> QED BY <3>1 DEF IsOutcome, IsSave, SaveFields
  <2>2. IsFiniteSet(worn) /\ Cardinality(worn) = IF h \in o.s.worn THEN Cardinality(o.s.worn) - 1
                                                 ELSE Cardinality(o.s.worn)
    BY <1>1, FS_RemoveElement
  <2>3. spare \in Int /\ spare + Cardinality(worn) = o.s.has[Gear] + Cardinality(o.s.worn)
    BY <1>1, <2>2
  <2> HIDE DEF spare, worn
  <2> QED BY <2>1, <2>2, <2>3, Regeared
<1> QED BY <1>2, <1>3

\* Every outcome of an action explains itself.
LEMMA ActionExplains ==
  ASSUME NEW s, IsSave(s), NEW k \in Key, NEW act \in Ask[k], NEW now \in Int,
         NEW p \in Outcomes(s, act, now)
  PROVE  Explains(p, s, now)
<1> DEFINE o == [s |-> Roll(s, now), lines |-> Nothing]
<1>1. /\ IsOutcome(o) /\ o.lines = Nothing
      /\ o.s.has = s.has /\ o.s.worn = s.worn /\ o.s.id = s.id /\ o.s.born = s.born
      /\ o.s.idleAt = s.idleAt /\ o.s.idlePaid = s.idlePaid
  <2> DEFINE r == [s EXCEPT !.day = Day(now), !.claimed = FALSE, !.progress = 0]
  <2>1. Roll(s, now) \in {s, r}
    BY DEF Roll
  <2>2. /\ r = [f \in SaveFields |-> r[f]] /\ r.level = s.level /\ r.stars = s.stars
        /\ r.cleared = s.cleared /\ r.logins = s.logins /\ r.has = s.has /\ r.worn = s.worn
        /\ r.id = s.id /\ r.born = s.born /\ r.idleAt = s.idleAt /\ r.idlePaid = s.idlePaid
    BY DEF IsSave, SaveFields
  <2> HIDE DEF r
  <2>3. IsSave(r)
    BY <2>2 DEF IsSave
  <2> DEFINE q == Roll(s, now)
  <2>4. /\ IsSave(q) /\ q.has = s.has /\ q.worn = s.worn /\ q.id = s.id /\ q.born = s.born
        /\ q.idleAt = s.idleAt /\ q.idlePaid = s.idlePaid
    BY <2>1, <2>2, <2>3
  <2> HIDE DEF q
  <2>5. Nothing \in [Asset -> Int]
    BY DEF Nothing
  <2>6. o.s = q /\ o.lines = Nothing /\ o = [s |-> o.s, lines |-> o.lines]
    BY DEF q
  <2> HIDE DEF o
  <2> QED BY <2>4, <2>5, <2>6 DEF IsOutcome
<1>2. act \in Action
  BY CasualAssumptions
<1>3. \A q : Follows(q, o) => Explains(q, s, now)
  <2> HIDE DEF o
  <2> QED BY <1>1, FollowingExplains
<1>4. CASE act \in [t : {"collect", "quest", "login", "buy"}]
  <2>1. CASE act.t = "collect"
    <3>1. p \in Collect(o, now)
      BY <2>1 DEF Outcomes
    <3> HIDE DEF o
    <3> QED BY <3>1, <1>1, Collected
  <2>2. CASE act.t = "quest"
    <3>1. p \in ClaimQuest(o, now)
      BY <2>2 DEF Outcomes
    <3> HIDE DEF o
    <3> QED BY <3>1, <1>1, <1>3, QuestClaimed
  <2>3. CASE act.t = "login"
    <3>1. p \in Login(o, now)
      BY <2>3 DEF Outcomes
    <3> HIDE DEF o
    <3> QED BY <3>1, <1>1, <1>3, LoggedIn
  <2>4. CASE act.t = "buy"
    <3>1. p \in Buy(o, now)
      BY <2>4 DEF Outcomes
    <3> HIDE DEF o
    <3> QED BY <3>1, <1>1, <1>3, BoughtFollows
  <2> HIDE DEF o
  <2> QED BY <1>4, <2>1, <2>2, <2>3, <2>4
<1>5. CASE act \in [t : {"battle", "sweep"}, stage : Nat \ {0}]
  <2>1. CASE act.t = "battle"
    <3>1. p \in Battle(o, act.stage, now) /\ act.stage \in Int
      BY <1>5, <2>1 DEF Outcomes
    <3> HIDE DEF o
    <3> QED BY <3>1, <1>1, <1>3, Fought
  <2>2. CASE act.t = "sweep"
    <3>1. p \in Sweep(o, act.stage, now)
      BY <2>2 DEF Outcomes
    <3> HIDE DEF o
    <3> QED BY <3>1, <1>1, <1>3, Swept
  <2> HIDE DEF o
  <2> QED BY <1>5, <2>1, <2>2
<1>6. CASE act \in [t : {"star", "fuse", "equip", "unequip"}, hero : Hero]
  <2>0. act.hero \in Hero /\ act.t \in {"star", "fuse", "equip", "unequip"}
    BY <1>6
  <2>1. CASE act.t = "star"
    <3>1. p \in Star(o, act.hero)
      BY <2>1 DEF Outcomes
    <3> HIDE DEF o
    <3> QED BY <3>1, <2>0, <1>1, <1>3, Starred
  <2>2. CASE act.t = "fuse"
    <3>1. p \in Fuse(o, act.hero)
      BY <2>2 DEF Outcomes
    <3> HIDE DEF o
    <3> QED BY <3>1, <2>0, <1>1, <1>3, Fused
  <2>3. CASE act.t = "equip"
    <3>1. p \in Equip(o, act.hero)
      BY <2>3 DEF Outcomes
    <3> HIDE DEF o
    <3> QED BY <3>1, <1>1, Equipped
  <2>4. CASE act.t = "unequip"
    <3>1. p \in Unequip(o, act.hero)
      BY <2>4 DEF Outcomes
    <3> HIDE DEF o
    <3> QED BY <3>1, <1>1, Equipped
  <2> HIDE DEF o
  <2> QED BY <2>0, <2>1, <2>2, <2>3, <2>4
<1>7. CASE act \in [t : {"level"}, hero : Hero, times : Nat \ {0}]
  <2>1. p \in Level(o, act.hero, act.times) /\ act.hero \in Hero /\ act.times \in Int
    BY <1>7 DEF Outcomes
  <2> HIDE DEF o
  <2> QED BY <2>1, <1>1, <1>3, Levelled
<1>8. CASE act \in [t : {"summon"}, count : Nat \ {0}]
  <2>1. p \in Summon(o, act.count) /\ act.count \in Nat
    BY <1>8 DEF Outcomes
  <2> HIDE DEF o
  <2> QED BY <2>1, <1>1, <1>3, Summoned
<1> HIDE DEF o
<1> QED BY <1>2, <1>4, <1>5, <1>6, <1>7, <1>8 DEF Action

\* A new save's lines are what it starts with.
LEMMA NewExplains ==
  ASSUME NEW id, NEW now \in Int
  PROVE  LET new == NewSave(id, now) IN
         /\ IsOutcome(new) /\ new.s.id = id /\ new.s.born = now /\ new.s.idleAt = now
         /\ new.s.idlePaid = 0
         /\ \A x \in Asset : Holdings(new.s, x) = new.lines[x]
<1> DEFINE empty == [id |-> id, has |-> Nothing, energy |-> MaxEnergy, energyAt |-> now,
                level |-> [h \in Hero |-> 0], stars |-> [h \in Hero |-> 0], worn |-> {},
                cleared |-> 0, swept |-> {}, idleAt |-> now, day |-> Day(now), progress |-> 0,
                claimed |-> FALSE, lastLogin |-> -1, logins |-> 0, pity |-> 0, buyDay |-> -1,
                bought |-> 0, born |-> now, idlePaid |-> 0, spent |-> 0, given |-> 0]
           wallet == [x \in Asset |-> IF x \in Currency THEN StartWallet[x] ELSE 0]
           o == [s |-> empty, lines |-> Nothing]
           u == Unlock(o, Starter)
           new == NewSave(id, now)
<1>1. new = Credit(u, wallet)
  BY DEF NewSave
<1>2. Nothing \in [Asset -> Int] /\ \A x \in Asset : Nothing[x] = 0
  BY DEF Nothing
<1>3. wallet \in [Asset -> Int]
  BY Numbers
<1>4. /\ empty = [f \in SaveFields |-> empty[f]] /\ empty.has = Nothing
      /\ empty.worn = {} /\ empty.born = now /\ empty.idleAt = now /\ empty.idlePaid = 0
      /\ empty.id = id /\ empty.cleared = 0 /\ empty.logins = 0
      /\ empty.level = [h \in Hero |-> 0] /\ empty.stars = [h \in Hero |-> 0]
  BY DEF SaveFields
<1> HIDE DEF empty, wallet
<1>5. IsOutcome(o) /\ o.s = empty /\ o.lines = Nothing
  <2>1. IsSave(empty)
    BY <1>2, <1>4, FS_EmptySet DEF IsSave
  <2> QED BY <1>2, <2>1 DEF IsOutcome
<1> HIDE DEF o
<1>6. Follows(u, o) /\ IsOutcome(u)
  BY <1>5, Numbers, Unlocked DEF Follows
<1> HIDE DEF u
<1>7. Follows(new, u)
  BY <1>1, <1>3, <1>6, Credited
<1> HIDE DEF new
<1>8. Follows(new, o)
  BY <1>5, <1>6, <1>7, FollowsOn
<1>9. Explains(new, empty, now)
  BY <1>4, <1>5, <1>8, FollowingExplains
<1>10. \A x \in Asset : Holdings(new.s, x) = new.lines[x]
  <2>1. \A x \in Asset : Holdings(empty, x) = 0
    <3>1. Cardinality({}) = 0
      BY FS_EmptySet
    <3> TAKE x \in Asset
    <3>2. empty.has[x] = 0 /\ Cardinality(empty.worn) = 0
      BY <1>2, <1>4, <3>1
    <3> QED BY <3>2 DEF Holdings
  <2>2. \A x \in Asset : new.lines[x] \in Int /\ Holdings(new.s, x) = Holdings(empty, x) + new.lines[x]
    BY <1>9 DEF Explains, IsOutcome
  <2>3. ASSUME NEW x \in Asset PROVE Holdings(new.s, x) = new.lines[x]
    <3>1. /\ Holdings(empty, x) = 0 /\ new.lines[x] \in Int
          /\ Holdings(new.s, x) = Holdings(empty, x) + new.lines[x]
      BY <2>1, <2>2
    <3> QED BY <3>1
  <2> QED BY <2>3
<1>11. /\ new.s.id = id /\ new.s.born = now /\ new.s.idleAt = now /\ new.s.idlePaid = 0
  BY <1>4, <1>5, <1>8 DEF Follows
<1>12. IsOutcome(new)
  BY <1>8 DEF Follows
<1> QED BY <1>10, <1>11, <1>12 DEF new

---------------------------------------------------------------------------
(* The inductive invariant *)

SavesAreSound ==
  \A a \in Owner : HasSave(a) =>
    /\ IsSave(save[a])
    /\ save[a].idlePaid <= save[a].idleAt - save[a].born /\ save[a].idleAt <= clock

\* Each save has a number of its own, and a number not given yet paid nothing.
SavesNumbered ==
  /\ saves \in Nat /\ saves <= MaxSaves
  /\ \A a \in Owner : HasSave(a) => save[a].id \in 1 .. saves
  /\ HasSave(Guest) /\ HasSave(User) => save[Guest].id # save[User].id
  /\ \A k \in Key : \A i \in 1 .. MaxSaves : i > saves => applied[k][i] = 0

\* A request is not asked yet, closed, or somebody's; only somebody's is at the server.
Known(k) ==
  /\ \/ asked[k] \in {NotAsked, Closed}
     \/ /\ asked[k] = [owner |-> asked[k].owner, act |-> asked[k].act,
                        sent |-> asked[k].sent, over |-> asked[k].over]
        /\ asked[k].owner \in Owner /\ asked[k].act \in Ask[k]
        /\ asked[k].sent \in Nat /\ asked[k].sent > 0 /\ asked[k].over \in BOOLEAN
  /\ waiting[k] \in Nat
  /\ waiting[k] > 0 => asked[k].sent > 0
  /\ asked[k] = NotAsked => \A i \in 1 .. MaxSaves : applied[k][i] = 0

RequestsAreKnown == \A k \in Key : Known(k)

\* A request under way that changed its owner's save is on record there, and
\* only the guest's own requests have changed the guest's save.
OnRecord(k) ==
  InFlight(k) =>
    /\ HasSave(asked[k].owner) /\ applied[k][save[asked[k].owner].id] > 0 => Has(asked[k].owner, k)
    /\ HasSave(Guest) /\ asked[k].owner # Guest => applied[k][save[Guest].id] = 0

Remembered == \A k \in Key : OnRecord(k)

Shaped ==
  /\ DOMAIN save = Owner
  /\ ledger \in [Owner -> [Asset -> Int]]
  /\ DOMAIN records = Owner /\ DOMAIN asked = Key /\ DOMAIN waiting = Key
  /\ applied \in [Key -> [1 .. MaxSaves -> Nat]]
  /\ clock \in Nat

CasualIInv == /\ Shaped /\ SavesAreSound /\ SavesNumbered /\ RequestsAreKnown /\ Remembered
        /\ LedgerExplainsSave /\ KeyPaysOncePerSave

LEMMA CasualInit == Init => CasualIInv
<1> SUFFICES ASSUME Init PROVE CasualIInv
  OBVIOUS
<1>1. Nothing \in [Asset -> Int]
  BY DEF Nothing
<1>2. Shaped
  BY <1>1 DEF Init, Shaped
<1>3. \A a \in Owner : ~HasSave(a)
  BY DEF Init, HasSave
<1>4. SavesAreSound
  BY <1>3 DEF SavesAreSound
<1>5. \A k \in Key : \A i \in 1 .. MaxSaves : applied[k][i] = 0
  BY DEF Init
<1>6. SavesNumbered
  BY <1>3, <1>5, Numbers DEF Init, SavesNumbered, Owner
<1>7. RequestsAreKnown
  BY <1>5 DEF Init, RequestsAreKnown, Known
<1>8. Remembered
  BY DEF Init, Remembered, OnRecord, InFlight, NotAsked
<1>9. LedgerExplainsSave
  BY <1>3 DEF Init, LedgerExplainsSave, Nothing
<1>10. KeyPaysOncePerSave
  BY <1>5 DEF KeyPaysOncePerSave
<1> QED BY <1>2, <1>4, <1>6, <1>7, <1>8, <1>9, <1>10 DEF CasualIInv

\* A request of which an execution waits has been asked and is not closed.
LEMMA RunningIsKnown ==
  ASSUME RequestsAreKnown, NEW k \in Key, waiting[k] > 0
  PROVE asked[k].owner \in Owner /\ asked[k].act \in Ask[k]
<1>1. asked[k].sent > 0
  BY DEF RequestsAreKnown, Known
<1>2. NotAsked.sent = 0 /\ Closed.sent = 0
  BY DEF NotAsked, Closed
<1>3. asked[k] \notin {NotAsked, Closed}
  BY <1>1, <1>2
<1> QED BY <1>3 DEF RequestsAreKnown, Known

LEMMA ShapedStep == CasualIInv /\ [Next]_vars => Shaped'
<1> SUFFICES ASSUME CasualIInv, [Next]_vars PROVE Shaped'
  OBVIOUS
<1> USE DEF Shaped
<1>0. Shaped /\ SavesAreSound /\ SavesNumbered /\ RequestsAreKnown
  BY DEF CasualIInv
<1>1. ASSUME NEW a \in Owner, NEW withGuest \in BOOLEAN, Open(a, withGuest) PROVE Shaped'
  <2>1. CASE Move
    <3>1. Plus(ledger[User], ledger[Guest]) \in [Asset -> Int] /\ Nothing \in [Asset -> Int]
      BY <1>0 DEF Plus, Nothing, Owner
    <3>2. ledger' \in [Owner -> [Asset -> Int]]
      BY <1>0, <2>1, <3>1 DEF Move
    <3> QED BY <1>0, <1>1, <2>1, <3>2 DEF Move, Open
  <2>2. CASE Create(a)
    <3> DEFINE new == NewSave(saves + 1, clock)
    <3>1. new.lines \in [Asset -> Int]
      BY <1>0, NewExplains DEF IsOutcome
    <3>2. ledger' = [ledger EXCEPT ![a] = Plus(@, new.lines)]
      BY <2>2 DEF Create
    <3> HIDE DEF new
    <3>3. Plus(ledger[a], new.lines) \in [Asset -> Int]
      BY <1>0, <3>1 DEF Plus
    <3>4. ledger' \in [Owner -> [Asset -> Int]]
      BY <1>0, <3>2, <3>3
    <3> QED BY <1>0, <1>1, <2>2, <3>4 DEF Create, Open
  <2> QED BY <1>1, <2>1, <2>2 DEF Open
<1>2. ASSUME NEW k \in Key, Execute(k) PROVE Shaped'
  <2> DEFINE a == asked[k].owner
             act == asked[k].act
             id == save[a].id
  <2>0. waiting[k] > 0 /\ asked[k].owner \in Owner /\ asked[k].act \in Ask[k]
    BY <1>0, <1>2, RunningIsKnown DEF Execute
  <2>1. CASE ~HasSave(a) \/ Has(a, k) \/ Outcomes(save[a], act, clock) = {}
    BY <1>0, <1>2, <2>1 DEF Execute
  <2>2. CASE ~(~HasSave(a) \/ Has(a, k) \/ Outcomes(save[a], act, clock) = {})
    <3>1. PICK o \in Outcomes(save[a], act, clock) :
            save' = [save EXCEPT ![a] = o.s] /\ ledger' = [ledger EXCEPT ![a] = Plus(@, o.lines)]
      BY <1>2, <2>2 DEF Execute
    <3>2. o.lines \in [Asset -> Int]
      <4>1. IsSave(save[a]) /\ clock \in Int
        BY <1>0, <2>0, <2>2 DEF SavesAreSound
      <4> QED BY <4>1, <2>0, ActionExplains DEF Explains, IsOutcome
    <3>3. Plus(ledger[a], o.lines) \in [Asset -> Int]
      BY <1>0, <2>0, <3>2 DEF Plus
    <3>4. ledger' \in [Owner -> [Asset -> Int]]
      BY <1>0, <3>1, <3>3
    <3>5. applied' \in [Key -> [1 .. MaxSaves -> Nat]]
      <4>1. applied' = [applied EXCEPT ![k][id] = @ + 1]
        BY <1>2, <2>2 DEF Execute
      <4>2. id \in 1 .. saves /\ saves \in Nat /\ saves <= MaxSaves /\ MaxSaves \in Nat
        BY <1>0, <2>0, <2>2, Numbers DEF SavesNumbered
      <4> HIDE DEF id
      <4>3. id \in 1 .. MaxSaves
        BY <4>2
      <4>4. [applied[k] EXCEPT ![id] = @ + 1] \in [1 .. MaxSaves -> Nat]
        <5> DEFINE f == applied[k]
        <5>1. f \in [1 .. MaxSaves -> Nat]
          BY <1>0
        <5> HIDE DEF f
        <5>2. f[id] + 1 \in Nat
          BY <5>1, <4>3
        <5>3. [f EXCEPT ![id] = @ + 1] \in [1 .. MaxSaves -> Nat]
          BY <5>1, <5>2
        <5> QED BY <5>3 DEF f
      <4> QED BY <1>0, <4>1, <4>4
    <3>7. DOMAIN save' = Owner
      BY <1>0, <3>1
    <3>8. /\ records' = [records EXCEPT ![a] = @ \cup {[key |-> k, at |-> clock]}]
          /\ clock' = clock /\ waiting' = [waiting EXCEPT ![k] = @ - 1]
          /\ \E over : asked' = [asked EXCEPT ![k] = Left(k, waiting[k] - 1, over)]
      BY <1>2, <2>2 DEF Execute
    <3> QED BY <1>0, <3>4, <3>5, <3>7, <3>8
  <2> QED BY <2>1, <2>2
<1>3. ASSUME NEW k \in Key, Retry(k) \/ GiveUp(k) \/ Fail(k) PROVE Shaped'
  BY <1>0, <1>3 DEF Retry, GiveUp, Fail
<1>4. ASSUME NEW k \in Key, NEW a \in Owner, NEW act \in Ask[k], AskFor(k, a, act) PROVE Shaped'
  BY <1>0, <1>4 DEF AskFor
<1>5. CASE Prune
  BY <1>0, <1>5 DEF Prune
<1>6. CASE Erase
  <2>1. Nothing \in [Asset -> Int] /\ User \in Owner
    BY DEF Nothing, Owner
  <2> QED BY <1>0, <1>6, <2>1 DEF Erase
<1>7. CASE Minute
  BY <1>0, <1>7 DEF Minute
<1>8. CASE UNCHANGED vars
  BY <1>0, <1>8 DEF vars
<1> QED BY <1>1, <1>2, <1>3, <1>4, <1>5, <1>6, <1>7, <1>8 DEF Next

LEMMA OwnersAreTwo == Owner = {Guest, User} /\ Guest \in Owner /\ User \in Owner /\ Guest # User
BY Numbers DEF Owner

\* An action's outcome, or nothing: what an attempt does to the saves.
LEMMA Executed ==
  ASSUME CasualIInv, NEW k \in Key, Execute(k)
  PROVE  /\ waiting[k] > 0 /\ asked[k].owner \in Owner
         /\ \/ UNCHANGED <<save, ledger, records, applied>>
            \/ LET a == asked[k].owner IN
               /\ HasSave(a) /\ ~Has(a, k)
               /\ \E o : /\ Explains(o, save[a], clock) /\ save' = [save EXCEPT ![a] = o.s]
                        /\ ledger' = [ledger EXCEPT ![a] = Plus(@, o.lines)]
               /\ records' = [records EXCEPT ![a] = @ \cup {[key |-> k, at |-> clock]}]
               /\ applied' = [applied EXCEPT ![k][save[a].id] = @ + 1]
         /\ UNCHANGED <<clock, saves>>
<1> DEFINE a == asked[k].owner
           act == asked[k].act
<1>1. waiting[k] > 0 /\ a \in Owner /\ act \in Ask[k]
  BY RunningIsKnown DEF CasualIInv, Execute
<1>2. CASE ~HasSave(a) \/ Has(a, k) \/ Outcomes(save[a], act, clock) = {}
  BY <1>1, <1>2 DEF Execute
<1>3. CASE ~(~HasSave(a) \/ Has(a, k) \/ Outcomes(save[a], act, clock) = {})
  <2>1. PICK o \in Outcomes(save[a], act, clock) :
          save' = [save EXCEPT ![a] = o.s] /\ ledger' = [ledger EXCEPT ![a] = Plus(@, o.lines)]
    BY <1>3 DEF Execute
  <2>2. Explains(o, save[a], clock)
    <3>1. IsSave(save[a]) /\ clock \in Int
      BY <1>1, <1>3 DEF CasualIInv, Shaped, SavesAreSound
    <3> QED BY <3>1, <1>1, ActionExplains
  <2>3. /\ records' = [records EXCEPT ![a] = @ \cup {[key |-> k, at |-> clock]}]
        /\ applied' = [applied EXCEPT ![k][save[a].id] = @ + 1]
        /\ UNCHANGED <<clock, saves>>
    BY <1>3 DEF Execute
  <2> QED BY <1>1, <1>3, <2>1, <2>2, <2>3
<1> QED BY <1>2, <1>3

LEMMA SoundStep == CasualIInv /\ [Next]_vars => SavesAreSound'
<1> SUFFICES ASSUME CasualIInv, [Next]_vars, NEW b \in Owner, HasSave(b)'
             PROVE  /\ IsSave(save'[b])
                    /\ save'[b].idlePaid <= save'[b].idleAt - save'[b].born /\ save'[b].idleAt <= clock'
  BY DEF SavesAreSound
<1>0. SavesAreSound /\ DOMAIN save = Owner /\ clock \in Nat
  BY DEF CasualIInv, Shaped
<1>1. ASSUME save'[b] = save[b], clock' \in Nat, clock' >= clock
      PROVE  /\ IsSave(save'[b])
             /\ save'[b].idlePaid <= save'[b].idleAt - save'[b].born /\ save'[b].idleAt <= clock'
  <2>1. HasSave(b)
    BY <1>1 DEF HasSave
  <2>2. IsSave(save[b]) /\ save[b].idleAt <= clock /\ save[b].idlePaid <= save[b].idleAt - save[b].born
    BY <1>0, <2>1 DEF SavesAreSound
  <2>3. save[b].idleAt \in Int
    BY <2>2 DEF IsSave
  <2> QED BY <1>0, <1>1, <2>2, <2>3
<1>2. ASSUME NEW a \in Owner, NEW withGuest \in BOOLEAN, Open(a, withGuest)
      PROVE  /\ IsSave(save'[b])
             /\ save'[b].idlePaid <= save'[b].idleAt - save'[b].born /\ save'[b].idleAt <= clock'
  <2>0. clock' = clock
    BY <1>2 DEF Open
  <2>1. CASE Move /\ HasSave(Guest)
    <3>1. save' = [save EXCEPT ![User] = save[Guest], ![Guest] = NoSave]
      BY <2>1 DEF Move
    <3>2. b = User /\ save'[b] = save[Guest]
      BY <3>1, <1>0, OwnersAreTwo DEF HasSave
    <3> QED BY <3>2, <2>0, <2>1, <1>0, OwnersAreTwo DEF SavesAreSound
  <2>2. CASE Create(a)
    <3> DEFINE new == NewSave(saves + 1, clock)
    <3>1. save' = [save EXCEPT ![a] = new.s]
      BY <2>2 DEF Create
    <3>2. CASE a # b
      BY <3>1, <3>2, <1>0, <1>1, <2>0
    <3>3. CASE a = b
      <4>1. save'[b] = new.s
        BY <3>1, <3>3, <1>0
      <4>2. IsSave(new.s) /\ new.s.idlePaid = 0 /\ new.s.idleAt = clock /\ new.s.born = clock
        BY <1>0, NewExplains DEF IsOutcome
      <4> HIDE DEF new
      <4> QED BY <4>1, <4>2, <1>0, <2>0
    <3> QED BY <3>2, <3>3
  <2> QED BY <1>2, <2>1, <2>2 DEF Open
<1>3. ASSUME NEW k \in Key, Execute(k)
      PROVE  /\ IsSave(save'[b])
             /\ save'[b].idlePaid <= save'[b].idleAt - save'[b].born /\ save'[b].idleAt <= clock'
  <2> DEFINE a == asked[k].owner
  <2>0. clock' = clock /\ a \in Owner
    BY <1>3, Executed
  <2>1. CASE save' = save
    BY <2>0, <2>1, <1>0, <1>1
  <2>2. CASE save' # save
    <3>1. HasSave(a)
      BY <1>3, <2>2, Executed
    <3>2. PICK o : Explains(o, save[a], clock) /\ save' = [save EXCEPT ![a] = o.s]
      BY <1>3, <2>2, Executed
    <3>3. CASE a # b
      BY <3>2, <3>3, <1>0, <1>1, <2>0
    <3>4. CASE a = b
      <4>1. save'[b] = o.s
        BY <3>2, <3>4, <1>0, <2>0
      <4>2. /\ IsSave(save[a]) /\ save[a].idlePaid <= save[a].idleAt - save[a].born
            /\ save[a].idleAt <= clock
        BY <1>0, <2>0, <3>1 DEF SavesAreSound
      <4>3. /\ IsSave(o.s) /\ o.s.born = save[a].born
            /\ \/ o.s.idleAt = save[a].idleAt /\ o.s.idlePaid = save[a].idlePaid
               \/ o.s.idleAt = clock /\ o.s.idlePaid <= save[a].idlePaid + (clock - save[a].idleAt)
        BY <3>2 DEF Explains, IsOutcome
      <4>4. /\ save[a].idleAt \in Int /\ save[a].idlePaid \in Int /\ save[a].born \in Int
            /\ o.s.idlePaid \in Int
        BY <4>2, <4>3 DEF IsSave
      <4> HIDE DEF a
      <4>5. o.s.idlePaid <= o.s.idleAt - o.s.born /\ o.s.idleAt <= clock
        BY <4>2, <4>3, <4>4, <1>0
      <4> QED BY <4>1, <4>3, <4>5, <2>0
    <3> QED BY <3>3, <3>4
  <2> QED BY <2>1, <2>2
<1>4. CASE \E k \in Key : Retry(k) \/ GiveUp(k) \/ Fail(k) \/ \E a \in Owner, act \in Ask[k] : AskFor(k, a, act)
  <2>1. save' = save /\ clock' = clock
    BY <1>4 DEF Retry, GiveUp, Fail, AskFor
  <2> QED BY <1>0, <1>1, <2>1
<1>5. CASE Prune
  BY <1>0, <1>1, <1>5 DEF Prune
<1>6. CASE Erase
  <2>1. b # User
    BY <1>0, <1>6, OwnersAreTwo DEF Erase, HasSave
  <2> QED BY <2>1, <1>0, <1>1, <1>6 DEF Erase
<1>7. CASE Minute
  BY <1>0, <1>1, <1>7 DEF Minute
<1>8. CASE UNCHANGED vars
  BY <1>0, <1>1, <1>8 DEF vars
<1> QED BY <1>2, <1>3, <1>4, <1>5, <1>6, <1>7, <1>8 DEF Next

LEMMA LedgerStep == CasualIInv /\ [Next]_vars => LedgerExplainsSave'
<1> SUFFICES ASSUME CasualIInv, [Next]_vars, NEW b \in Owner, NEW x \in Asset
             PROVE  ledger'[b][x] = IF HasSave(b)' THEN Holdings(save'[b], x) ELSE 0
  BY DEF LedgerExplainsSave, HasSave, Holdings
<1>0. /\ LedgerExplainsSave /\ DOMAIN save = Owner /\ clock \in Nat
      /\ ledger \in [Owner -> [Asset -> Int]] /\ SavesAreSound
  BY DEF CasualIInv, Shaped
<1>1. ASSUME save'[b] = save[b], ledger'[b] = ledger[b]
      PROVE  ledger'[b][x] = IF HasSave(b)' THEN Holdings(save'[b], x) ELSE 0
  BY <1>0, <1>1 DEF LedgerExplainsSave, HasSave
<1>2. ASSUME NEW a \in Owner, NEW withGuest \in BOOLEAN, Open(a, withGuest)
      PROVE  ledger'[b][x] = IF HasSave(b)' THEN Holdings(save'[b], x) ELSE 0
  <2>1. CASE Move /\ HasSave(Guest) /\ ~HasSave(User)
    <3>1. /\ save' = [save EXCEPT ![User] = save[Guest], ![Guest] = NoSave]
          /\ ledger' = [ledger EXCEPT ![User] = Plus(@, ledger[Guest]), ![Guest] = Nothing]
      BY <2>1 DEF Move
    <3>2. CASE b = Guest
      BY <3>1, <3>2, <1>0, OwnersAreTwo DEF HasSave, Nothing
    <3>3. CASE b = User
      <4>1. save'[b] = save[Guest] /\ ledger'[b] = Plus(ledger[User], ledger[Guest])
        BY <3>1, <3>3, <1>0, OwnersAreTwo
      <4>2. ledger[User][x] = 0 /\ ledger[Guest][x] = Holdings(save[Guest], x) /\ ledger[Guest][x] \in Int
        BY <1>0, <2>1, OwnersAreTwo DEF LedgerExplainsSave
      <4>3. ledger'[b][x] = ledger[Guest][x]
        BY <4>1, <4>2 DEF Plus
      <4> QED BY <4>1, <4>2, <4>3, <2>1 DEF HasSave
    <3> QED BY <3>2, <3>3, OwnersAreTwo
  <2>2. CASE Create(a) /\ ~HasSave(a)
    <3> DEFINE new == NewSave(saves + 1, clock)
    <3>1. save' = [save EXCEPT ![a] = new.s] /\ ledger' = [ledger EXCEPT ![a] = Plus(@, new.lines)]
      BY <2>2 DEF Create
    <3>2. CASE a # b
      BY <3>1, <3>2, <1>0, <1>1
    <3>3. CASE a = b
      <4>1. save'[b] = new.s /\ ledger'[b] = Plus(ledger[a], new.lines)
        BY <3>1, <3>3, <1>0
      <4>2. ledger[a][x] = 0
        BY <1>0, <2>2 DEF LedgerExplainsSave
      <4>3. IsOutcome(new) /\ Holdings(new.s, x) = new.lines[x] /\ new.lines[x] \in Int
        BY <1>0, NewExplains DEF IsOutcome
      <4>4. new.s # NoSave
        <5>1. "has" \in DOMAIN new.s /\ "has" \notin DOMAIN NoSave
          BY <4>3 DEF IsOutcome, IsSave, SaveFields, NoSave
        <5> QED BY <5>1
      <4> HIDE DEF new
      <4>5. ledger'[b][x] = new.lines[x]
        BY <4>1, <4>2, <4>3 DEF Plus
      <4> QED BY <4>1, <4>3, <4>4, <4>5 DEF HasSave
    <3> QED BY <3>2, <3>3
  <2> QED BY <1>2, <2>1, <2>2, OwnersAreTwo DEF Open
<1>3. ASSUME NEW k \in Key, Execute(k)
      PROVE  ledger'[b][x] = IF HasSave(b)' THEN Holdings(save'[b], x) ELSE 0
  <2> DEFINE a == asked[k].owner
  <2>0. a \in Owner
    BY <1>3, Executed
  <2>1. CASE save' = save /\ ledger' = ledger
    BY <2>1, <1>0, <1>1
  <2>2. CASE ~(save' = save /\ ledger' = ledger)
    <3>1. HasSave(a)
      BY <1>3, <2>2, Executed
    <3>2. PICK o : /\ Explains(o, save[a], clock) /\ save' = [save EXCEPT ![a] = o.s]
                   /\ ledger' = [ledger EXCEPT ![a] = Plus(@, o.lines)]
      BY <1>3, <2>2, Executed
    <3>3. CASE a # b
      BY <3>2, <3>3, <1>0, <1>1
    <3>4. CASE a = b
      <4> HIDE DEF a
      <4>1. save'[b] = o.s /\ ledger'[b] = Plus(ledger[b], o.lines)
        BY <3>2, <3>4, <1>0, <2>0
      <4>2. ledger[b][x] = Holdings(save[b], x)
        BY <1>0, <3>1, <3>4 DEF LedgerExplainsSave
      <4>3. Holdings(o.s, x) = Holdings(save[b], x) + o.lines[x]
        BY <3>2, <3>4 DEF Explains
      <4>4. o.s # NoSave
        <5>1. "has" \in DOMAIN o.s /\ "has" \notin DOMAIN NoSave
          BY <3>2 DEF Explains, IsOutcome, IsSave, SaveFields, NoSave
        <5> QED BY <5>1
      <4>5. ledger'[b][x] = ledger[b][x] + o.lines[x]
        BY <4>1 DEF Plus
      <4> QED BY <4>1, <4>2, <4>3, <4>4, <4>5 DEF HasSave
    <3> QED BY <3>3, <3>4
  <2> QED BY <2>1, <2>2
<1>4. CASE \E k \in Key : Retry(k) \/ GiveUp(k) \/ Fail(k) \/ \E a \in Owner, act \in Ask[k] : AskFor(k, a, act)
  <2>1. save' = save /\ ledger' = ledger
    BY <1>4 DEF Retry, GiveUp, Fail, AskFor
  <2> QED BY <1>1, <2>1
<1>5. CASE Prune \/ Minute \/ UNCHANGED vars
  BY <1>1, <1>5 DEF Prune, Minute, vars
<1>6. CASE Erase
  <2>1. save' = [save EXCEPT ![User] = NoSave] /\ ledger' = [ledger EXCEPT ![User] = Nothing]
    BY <1>6 DEF Erase
  <2>2. CASE b = User
    BY <2>1, <2>2, <1>0, OwnersAreTwo DEF HasSave, Nothing
  <2>3. CASE b # User
    BY <2>1, <2>3, <1>0, <1>1
  <2> QED BY <2>2, <2>3
<1> QED BY <1>2, <1>3, <1>4, <1>5, <1>6 DEF Next

LEMMA NumberedStep == CasualIInv /\ [Next]_vars => SavesNumbered'
<1> SUFFICES ASSUME CasualIInv, [Next]_vars PROVE SavesNumbered'
  OBVIOUS
<1>0. /\ SavesNumbered /\ DOMAIN save = Owner /\ applied \in [Key -> [1 .. MaxSaves -> Nat]]
      /\ MaxSaves \in Nat /\ clock \in Nat
  BY Numbers DEF CasualIInv, Shaped
<1>1. ASSUME NEW a \in Owner, NEW withGuest \in BOOLEAN, Open(a, withGuest) PROVE SavesNumbered'
  <2>1. CASE Move /\ HasSave(Guest)
    <3>1. /\ save' = [save EXCEPT ![User] = save[Guest], ![Guest] = NoSave] /\ saves' = saves
          /\ applied' = applied
      BY <1>1, <2>1 DEF Move, Open
    <3>2. save'[User] = save[Guest] /\ save'[Guest] = NoSave
      BY <3>1, <1>0, OwnersAreTwo
    <3> QED BY <3>1, <3>2, <1>0, <2>1, OwnersAreTwo DEF SavesNumbered, HasSave
  <2>2. CASE Create(a)
    <3> DEFINE new == NewSave(saves + 1, clock)
    <3>1. /\ save' = [save EXCEPT ![a] = new.s] /\ saves' = saves + 1 /\ saves < MaxSaves
          /\ applied' = applied
      BY <1>1, <2>2 DEF Create, Open
    <3>2. new.s.id = saves + 1
      BY <1>0, NewExplains
    <3> HIDE DEF new
    <3>3. saves' \in Nat /\ saves' <= MaxSaves
      BY <1>0, <3>1 DEF SavesNumbered
    <3>4. \A b \in Owner : HasSave(b)' => save'[b].id \in 1 .. saves' /\ (b # a => save'[b].id <= saves)
      BY <1>0, <3>1, <3>2 DEF SavesNumbered, HasSave
    <3>5. save'[a].id = saves + 1
      BY <1>0, <3>1, <3>2
    <3>6. HasSave(Guest)' /\ HasSave(User)' => save'[Guest].id # save'[User].id
      BY <1>0, <3>4, <3>5, OwnersAreTwo DEF SavesNumbered
    <3>7. \A k \in Key : \A i \in 1 .. MaxSaves : i > saves' => applied'[k][i] = 0
      BY <1>0, <3>1 DEF SavesNumbered
    <3> QED BY <3>3, <3>4, <3>6, <3>7 DEF SavesNumbered
  <2> QED BY <1>1, <2>1, <2>2 DEF Open
<1>2. ASSUME NEW k \in Key, Execute(k) PROVE SavesNumbered'
  <2> DEFINE a == asked[k].owner
  <2>0. a \in Owner /\ saves' = saves
    BY <1>2, Executed
  <2>1. CASE save' = save /\ applied' = applied
    BY <2>0, <2>1, <1>0 DEF SavesNumbered, HasSave
  <2>2. CASE ~(save' = save /\ applied' = applied)
    <3>1. HasSave(a) /\ applied' = [applied EXCEPT ![k][save[a].id] = @ + 1]
      BY <1>2, <2>2, Executed
    <3>2. PICK o : Explains(o, save[a], clock) /\ save' = [save EXCEPT ![a] = o.s]
      BY <1>2, <2>2, Executed
    <3> HIDE DEF a
    <3>3. \A b \in Owner : HasSave(b)' => HasSave(b) /\ save'[b].id = save[b].id
      BY <3>1, <3>2, <1>0, <2>0 DEF HasSave, Explains
    <3>4. save[a].id \in 1 .. saves
      BY <3>1, <1>0, <2>0 DEF SavesNumbered
    <3>5. \A j \in Key : \A i \in 1 .. MaxSaves : i # save[a].id => applied'[j][i] = applied[j][i]
      BY <3>1, <1>0
    <3>6. \A j \in Key : \A i \in 1 .. MaxSaves : i > saves' => applied'[j][i] = 0
      <4> SUFFICES ASSUME NEW j \in Key, NEW i \in 1 .. MaxSaves, i > saves' PROVE applied'[j][i] = 0
        OBVIOUS
      <4>1. saves \in Nat /\ i > saves /\ applied[j][i] = 0
        BY <2>0, <1>0 DEF SavesNumbered
      <4>2. i # save[a].id
        BY <3>4, <4>1
      <4> QED BY <3>5, <4>1, <4>2
    <3>7. HasSave(Guest)' /\ HasSave(User)' => save'[Guest].id # save'[User].id
      BY <3>3, <1>0, OwnersAreTwo DEF SavesNumbered
    <3>8. \A b \in Owner : HasSave(b)' => save'[b].id \in 1 .. saves'
      BY <3>3, <2>0, <1>0 DEF SavesNumbered
    <3> QED BY <3>6, <3>7, <3>8, <2>0, <1>0 DEF SavesNumbered
  <2> QED BY <2>1, <2>2
<1>3. CASE \E k \in Key : Retry(k) \/ GiveUp(k) \/ Fail(k) \/ \E a \in Owner, act \in Ask[k] : AskFor(k, a, act)
  <2>1. save' = save /\ applied' = applied /\ saves' = saves
    BY <1>3 DEF Retry, GiveUp, Fail, AskFor
  <2> QED BY <1>0, <2>1 DEF SavesNumbered, HasSave
<1>4. CASE Prune \/ Minute \/ UNCHANGED vars
  <2>1. save' = save /\ applied' = applied /\ saves' = saves
    BY <1>4 DEF Prune, Minute, vars
  <2> QED BY <1>0, <2>1 DEF SavesNumbered, HasSave
<1>5. CASE Erase
  <2>1. save' = [save EXCEPT ![User] = NoSave] /\ applied' = applied /\ saves' = saves
    BY <1>5 DEF Erase
  <2> QED BY <1>0, <2>1, OwnersAreTwo DEF SavesNumbered, HasSave
<1> QED BY <1>1, <1>2, <1>3, <1>4, <1>5 DEF Next

\* What is left of a request is closed, or the same request.
LEMMA WhatIsLeft ==
  ASSUME RequestsAreKnown, NEW k \in Key, asked[k] \notin {NotAsked, Closed}, NEW n \in Nat,
         NEW over \in BOOLEAN, NEW r, r = Left(k, n, over)
  PROVE  \/ r = Closed /\ n = 0
         \/ /\ r = [owner |-> r.owner, act |-> r.act, sent |-> r.sent, over |-> r.over]
            /\ r.owner = asked[k].owner /\ r.act = asked[k].act /\ r.sent = asked[k].sent
            /\ r.over = over
<1>1. asked[k] = [owner |-> asked[k].owner, act |-> asked[k].act,
                  sent |-> asked[k].sent, over |-> asked[k].over]
  BY DEF RequestsAreKnown, Known
<1>2. CASE over /\ n = 0
  BY <1>2 DEF Left
<1>3. CASE ~(over /\ n = 0)
  <2>1. r = [asked[k] EXCEPT !.over = over]
    BY <1>3 DEF Left
  <2> QED BY <1>1, <2>1
<1> QED BY <1>2, <1>3

\* What a step may do to another request than the one it is about: nothing.
LEMMA RequestsStep == CasualIInv /\ [Next]_vars => RequestsAreKnown'
<1> SUFFICES ASSUME CasualIInv, [Next]_vars, NEW j \in Key PROVE Known(j)'
  BY DEF RequestsAreKnown
<1>0. /\ RequestsAreKnown /\ DOMAIN asked = Key /\ DOMAIN waiting = Key
      /\ applied \in [Key -> [1 .. MaxSaves -> Nat]]
  BY DEF CasualIInv, Shaped
<1>1. ASSUME asked'[j] = asked[j], waiting'[j] = waiting[j], applied'[j] = applied[j] PROVE Known(j)'
  <2>1. /\ \/ asked[j] \in {NotAsked, Closed}
           \/ /\ asked[j] = [owner |-> asked[j].owner, act |-> asked[j].act,
                             sent |-> asked[j].sent, over |-> asked[j].over]
              /\ asked[j].owner \in Owner /\ asked[j].act \in Ask[j]
              /\ asked[j].sent \in Nat /\ asked[j].sent > 0 /\ asked[j].over \in BOOLEAN
        /\ waiting[j] \in Nat
        /\ waiting[j] > 0 => asked[j].sent > 0
        /\ asked[j] = NotAsked => \A i \in 1 .. MaxSaves : applied[j][i] = 0
    BY <1>0 DEF RequestsAreKnown, Known
  <2> QED BY <1>1, <2>1 DEF Known
<1>2. NotAsked # Closed /\ NotAsked.sent = 0 /\ Closed.sent = 0
  <2>1. NotAsked.over # Closed.over
    BY DEF NotAsked, Closed
  <2> QED BY <2>1 DEF NotAsked, Closed
<1>3. \A k \in Key : asked[k].sent > 0 =>
        /\ asked[k] \notin {NotAsked, Closed}
        /\ asked[k] = [owner |-> asked[k].owner, act |-> asked[k].act,
                       sent |-> asked[k].sent, over |-> asked[k].over]
        /\ asked[k].owner \in Owner /\ asked[k].act \in Ask[k]
        /\ asked[k].sent \in Nat /\ asked[k].sent > 0 /\ asked[k].over \in BOOLEAN
  <2> TAKE k \in Key
  <2> HAVE asked[k].sent > 0
  <2>1. asked[k] \notin {NotAsked, Closed}
    BY <1>2
  <2> QED BY <2>1, <1>0 DEF RequestsAreKnown, Known
\* what a request with its attempts becomes when one of them ends
<1>4. ASSUME asked[j].sent > 0, NEW n \in Nat, NEW over \in BOOLEAN, waiting'[j] = n,
             asked'[j] = Left(j, n, over)
      PROVE  Known(j)'
  <2>1. \/ asked'[j] = Closed /\ n = 0
        \/ /\ asked'[j] = [owner |-> asked'[j].owner, act |-> asked'[j].act,
                           sent |-> asked'[j].sent, over |-> asked'[j].over]
           /\ asked'[j].owner = asked[j].owner /\ asked'[j].act = asked[j].act
           /\ asked'[j].sent = asked[j].sent /\ asked'[j].over = over
    BY <1>0, <1>3, <1>4, WhatIsLeft
  <2>2. CASE asked'[j] = Closed /\ n = 0
    BY <1>2, <1>4, <2>2 DEF Known
  <2>3. CASE /\ asked'[j] = [owner |-> asked'[j].owner, act |-> asked'[j].act,
                             sent |-> asked'[j].sent, over |-> asked'[j].over]
             /\ asked'[j].owner = asked[j].owner /\ asked'[j].act = asked[j].act
             /\ asked'[j].sent = asked[j].sent /\ asked'[j].over = over
    <3>1. asked'[j] # NotAsked
      BY <1>2, <1>4, <2>3, <1>3
    <3> QED BY <1>3, <1>4, <2>3, <3>1 DEF Known
  <2> QED BY <2>1, <2>2, <2>3
<1>5. ASSUME NEW a \in Owner, NEW withGuest \in BOOLEAN, Open(a, withGuest) PROVE Known(j)'
  BY <1>1, <1>5 DEF Open
<1>6. ASSUME NEW k \in Key, Execute(k) PROVE Known(j)'
  <2>1. waiting[k] > 0 /\ waiting' = [waiting EXCEPT ![k] = @ - 1]
    BY <1>6 DEF Execute
  <2>2. CASE k # j
    <3>1. asked'[j] = asked[j] /\ waiting'[j] = waiting[j]
      BY <1>0, <1>6, <2>2 DEF Execute
    <3>2. applied'[j] = applied[j]
      BY <1>0, <1>6, <2>2, Executed
    <3> QED BY <1>1, <3>1, <3>2
  <2>3. CASE k = j
    <3>1. asked[j].sent > 0 /\ waiting[j] \in Nat /\ waiting[j] > 0
      BY <1>0, <2>1, <2>3 DEF RequestsAreKnown, Known
    <3>2. PICK over \in {asked[k].over, TRUE} : asked' = [asked EXCEPT ![k] = Left(k, waiting[k] - 1, over)]
      BY <1>6 DEF Execute
    <3>3. over \in BOOLEAN
      <4>1. asked[j].over \in BOOLEAN
        BY <1>3, <3>1
      <4> QED BY <2>3, <3>2, <4>1, Zenon
    <3>5. waiting[j] - 1 \in Nat
      BY <3>1
    <3>4. waiting'[j] = waiting[j] - 1 /\ asked'[j] = Left(j, waiting[j] - 1, over)
      BY <1>0, <2>1, <2>3, <3>2
    <3> QED BY <1>4, <3>1, <3>3, <3>4, <3>5
  <2> QED BY <2>2, <2>3
<1>7. ASSUME NEW k \in Key, GiveUp(k) \/ Fail(k) PROVE Known(j)'
  <2>0. applied' = applied
    BY <1>7 DEF GiveUp, Fail
  <2>1. CASE k # j
    <3>1. asked'[j] = asked[j] /\ waiting'[j] = waiting[j]
      BY <1>0, <1>7, <2>1 DEF GiveUp, Fail
    <3> QED BY <1>1, <2>0, <3>1
  <2>2. CASE k = j /\ GiveUp(k)
    <3>1. asked[j].sent > 0 /\ waiting[j] \in Nat
      <4>1. asked[j].sent = MaxAttempts[j]
        BY <2>2 DEF GiveUp
      <4>2. MaxAttempts[j] \in 1 .. 3
        BY CasualAssumptions
      <4> QED BY <4>1, <4>2, <1>0 DEF RequestsAreKnown, Known
    <3>2. waiting'[j] = waiting[j] /\ asked'[j] = Left(j, waiting[j], TRUE)
      BY <1>0, <2>2 DEF GiveUp
    <3> QED BY <1>4, <3>1, <3>2
  <2>3. CASE k = j /\ Fail(k)
    <3>1. asked[j].sent > 0 /\ waiting[j] \in Nat /\ waiting[j] > 0
      BY <1>0, <2>3 DEF RequestsAreKnown, Known, Fail
    <3>2. waiting'[j] = waiting[j] - 1 /\ asked'[j] = Left(j, waiting[j] - 1, asked[j].over)
      BY <1>0, <2>3 DEF Fail
    <3>3. asked[j].over \in BOOLEAN
      BY <1>3, <3>1
    <3>4. waiting[j] - 1 \in Nat
      BY <3>1
    <3> QED BY <1>4, <3>1, <3>2, <3>3, <3>4
  <2> QED BY <1>7, <2>1, <2>2, <2>3
<1>8. ASSUME NEW k \in Key, Retry(k) PROVE Known(j)'
  <2>1. CASE k # j
    <3>1. asked'[j] = asked[j] /\ waiting'[j] = waiting[j] /\ applied' = applied
      BY <1>0, <1>8, <2>1 DEF Retry
    <3> QED BY <1>1, <3>1
  <2>2. CASE k = j
    <3>1. asked[j].sent \in 1 .. MaxAttempts[j] - 1 /\ MaxAttempts[j] \in 1 .. 3
      BY <1>8, <2>2, CasualAssumptions DEF Retry
    <3>2. asked[j].sent > 0
      BY <3>1
    <3>3. asked'[j] = [asked[j] EXCEPT !.sent = @ + 1] /\ waiting'[j] = waiting[j] + 1
      BY <1>0, <1>8, <2>2 DEF Retry
    <3>4. /\ asked'[j] = [owner |-> asked'[j].owner, act |-> asked'[j].act,
                          sent |-> asked'[j].sent, over |-> asked'[j].over]
          /\ asked'[j].owner = asked[j].owner /\ asked'[j].act = asked[j].act
          /\ asked'[j].sent = asked[j].sent + 1 /\ asked'[j].over = asked[j].over
      BY <1>3, <3>2, <3>3
    <3>5. waiting[j] \in Nat
      BY <1>0 DEF RequestsAreKnown, Known
    <3>6. asked'[j].sent \in Nat /\ asked'[j].sent > 0
      <4>1. asked[j].sent \in Nat
        BY <1>3, <3>2
      <4> QED BY <4>1, <3>2, <3>4
    <3>7. asked'[j] # NotAsked
      BY <1>2, <3>6
    <3>8. waiting'[j] \in Nat
      BY <3>3, <3>5
    <3> QED BY <1>3, <3>2, <3>4, <3>6, <3>7, <3>8 DEF Known
  <2> QED BY <2>1, <2>2
<1>9. ASSUME NEW k \in Key, NEW a \in Owner, NEW act \in Ask[k], AskFor(k, a, act) PROVE Known(j)'
  <2>1. CASE k # j
    <3>1. asked'[j] = asked[j] /\ waiting'[j] = waiting[j] /\ applied' = applied
      BY <1>0, <1>9, <2>1 DEF AskFor
    <3> QED BY <1>1, <3>1
  <2>2. CASE k = j
    <3>1. asked'[j] = [owner |-> a, act |-> act, sent |-> 1, over |-> FALSE] /\ waiting'[j] = 1
      BY <1>0, <1>9, <2>2 DEF AskFor
    <3>2. asked'[j].sent = 1
      BY <3>1
    <3>3. asked'[j] # NotAsked
      BY <1>2, <3>2
    <3> QED BY <1>9, <2>2, <3>1, <3>3 DEF Known
  <2> QED BY <2>1, <2>2
<1>10. CASE Prune \/ Erase \/ Minute \/ UNCHANGED vars
  <2>1. asked' = asked /\ waiting' = waiting /\ applied' = applied
    BY <1>10 DEF Prune, Erase, Minute, vars
  <2> QED BY <1>1, <2>1
<1>11. Known(j)'
  BY <1>5, <1>6, <1>7, <1>8, <1>9, <1>10 DEF Next
<1> QED BY <1>11

\* A request under way belongs to an owner, and the other key's attempts leave it alone.
LEMMA UnderWay ==
  ASSUME CasualIInv, NEW k \in Key, InFlight(k)
  PROVE  asked[k].owner \in Owner /\ asked[k] \notin {NotAsked, Closed} /\ asked[k].sent > 0
<1>1. Known(k)
  BY DEF CasualIInv, RequestsAreKnown
<1>2. NotAsked.sent = 0 /\ Closed.sent = 0
  BY DEF NotAsked, Closed
<1>3. asked[k].sent > 0
  BY <1>1 DEF Known, InFlight
<1>4. asked[k] \notin {NotAsked, Closed}
  BY <1>2, <1>3
<1> QED BY <1>1, <1>3, <1>4 DEF Known

\* A request that stays under way keeps its owner.
LEMMA AskedStays ==
  ASSUME CasualIInv, NEW k \in Key, InFlight(k), NEW n, NEW over, asked'[k] = Left(k, n, over),
         waiting'[k] = n
  PROVE  InFlight(k)' => asked'[k].owner = asked[k].owner
<1>1. CASE over /\ n = 0
  BY <1>1 DEF InFlight, Left, Closed
<1>2. CASE ~(over /\ n = 0)
  <2>1. asked'[k] = [asked[k] EXCEPT !.over = over]
    BY <1>2 DEF Left
  <2>2. asked[k] \notin {NotAsked, Closed} /\ Known(k)
    BY UnderWay DEF CasualIInv, RequestsAreKnown
  <2> QED BY <2>1, <2>2 DEF Known
<1> QED BY <1>1, <1>2

\* A request stays on record in a step that asks nothing, changes no save by it, moves no save
\* and forgets no record of it.
LEMMA StaysOnRecord ==
  ASSUME CasualIInv, NEW j \in Key,
         InFlight(j)' => InFlight(j) /\ asked'[j].owner = asked[j].owner,
         \A a \in Owner : HasSave(a)' => HasSave(a) /\ save'[a].id = save[a].id,
         applied'[j] = applied[j],
         \A a \in Owner : InFlight(j) /\ HasSave(a)' /\ Has(a, j) => Has(a, j)'
  PROVE  OnRecord(j)'
<1> SUFFICES ASSUME InFlight(j)' PROVE OnRecord(j)'
  BY DEF OnRecord
<1>1. OnRecord(j) /\ InFlight(j) /\ asked'[j].owner = asked[j].owner
  BY DEF CasualIInv, Remembered
<1>2. PICK a \in Owner : a = asked[j].owner
  BY <1>1, UnderWay
<1>3. Guest \in Owner
  BY OwnersAreTwo
<1>4. /\ HasSave(a) /\ applied[j][save[a].id] > 0 => Has(a, j)
      /\ HasSave(Guest) /\ a # Guest => applied[j][save[Guest].id] = 0
  BY <1>1, <1>2 DEF OnRecord
<1>5. HasSave(a)' /\ applied'[j][save'[a].id] > 0 => Has(a, j)'
  BY <1>1, <1>2, <1>4
<1>6. HasSave(Guest)' /\ a # Guest => applied'[j][save'[Guest].id] = 0
  BY <1>3, <1>4
<1> QED BY <1>1, <1>2, <1>5, <1>6 DEF OnRecord, HasSave, Has

LEMMA RememberedStep == CasualIInv /\ [Next]_vars => Remembered'
<1> SUFFICES ASSUME CasualIInv, [Next]_vars, NEW j \in Key PROVE OnRecord(j)'
  BY DEF Remembered
<1>0. /\ DOMAIN save = Owner /\ DOMAIN records = Owner /\ DOMAIN asked = Key /\ DOMAIN waiting = Key
      /\ applied \in [Key -> [1 .. MaxSaves -> Nat]] /\ MaxSaves \in Nat
      /\ SavesNumbered /\ OnRecord(j) /\ Known(j)
  BY Numbers DEF CasualIInv, Shaped, Remembered, RequestsAreKnown
<1>1. ASSUME NEW a \in Owner, NEW withGuest \in BOOLEAN, Open(a, withGuest) PROVE OnRecord(j)'
  <2>0. asked' = asked /\ waiting' = waiting /\ applied' = applied /\ ~HasSave(a)
    BY <1>1 DEF Open
  <2>1. CASE a = User /\ HasSave(Guest) /\ Move
    <3>1. save' = [save EXCEPT ![User] = save[Guest], ![Guest] = NoSave]
      BY <2>1 DEF Move
    <3>2. ~HasSave(Guest)' /\ save'[User] = save[Guest]
      BY <3>1, <1>0, OwnersAreTwo DEF HasSave
    <3>3. ASSUME InFlight(j)'
          PROVE  HasSave(asked[j].owner)' => applied'[j][save'[asked'[j].owner].id] = 0
      <4>1. InFlight(j)
        BY <2>0, <3>3 DEF InFlight
      <4>2. asked[j].owner \in {Guest, User}
        BY <4>1, UnderWay, OwnersAreTwo
      <4>3. CASE asked[j].owner = Guest
        BY <2>0, <3>2, <4>3 DEF HasSave
      <4>4. CASE asked[j].owner = User
        <5>1. applied[j][save[Guest].id] = 0
          BY <1>0, <2>1, <4>1, <4>4, OwnersAreTwo DEF OnRecord
        <5> QED BY <5>1, <2>0, <3>2, <4>4
      <4> QED BY <4>2, <4>3, <4>4
    <3> QED BY <3>2, <3>3 DEF OnRecord
  <2>2. CASE Create(a)
    <3>1. /\ save' = [save EXCEPT ![a] = NewSave(saves + 1, clock).s] /\ saves < MaxSaves
          /\ records' = records
      BY <2>2 DEF Create
    <3>2. NewSave(saves + 1, clock).s.id = saves + 1
      BY NewExplains DEF CasualIInv, Shaped, SavesNumbered
    <3>3. save'[a].id = saves + 1 /\ \A b \in Owner : b # a => save'[b] = save[b]
      BY <3>1, <3>2, <1>0
    <3>4. applied[j][saves + 1] = 0
      BY <3>1, <1>0 DEF SavesNumbered
    <3>5. \A b \in Owner : b = a => applied'[j][save'[b].id] = 0
      BY <2>0, <3>3, <3>4
    <3>6. ASSUME NEW c \in Owner, c # a
          PROVE  /\ HasSave(c)' => HasSave(c)
                 /\ applied'[j][save'[c].id] = applied[j][save[c].id]
                 /\ Has(c, j) => Has(c, j)'
      BY <2>0, <3>1, <3>3, <3>6 DEF HasSave, Has
    <3>7. InFlight(j)' => InFlight(j)
      BY <2>0 DEF InFlight
    <3> SUFFICES ASSUME InFlight(j)' PROVE OnRecord(j)'
      BY DEF OnRecord
    <3>8. PICK b \in Owner : b = asked[j].owner /\ b = asked'[j].owner
      BY <3>7, <2>0, UnderWay
    <3>9. /\ HasSave(b) /\ applied[j][save[b].id] > 0 => Has(b, j)
          /\ HasSave(Guest) /\ b # Guest => applied[j][save[Guest].id] = 0
      BY <3>7, <3>8, <1>0 DEF OnRecord
    <3>10. HasSave(b)' /\ applied'[j][save'[b].id] > 0 => Has(b, j)'
      <4>1. CASE b = a
        BY <4>1, <3>5
      <4>2. CASE b # a
        <5>1. HasSave(b)' => HasSave(b)
          BY <4>2, <3>6
        <5>2. applied'[j][save'[b].id] = applied[j][save[b].id]
          BY <4>2, <3>6
        <5>3. Has(b, j) => Has(b, j)'
          BY <4>2, <3>6
        <5> QED BY <5>1, <5>2, <5>3, <3>9
      <4> QED BY <4>1, <4>2
    <3>11. HasSave(Guest)' /\ b # Guest => applied'[j][save'[Guest].id] = 0
      <4>1. CASE Guest = a
        BY <4>1, <3>5
      <4>2. CASE Guest # a
        <5>1. HasSave(Guest)' => HasSave(Guest)
          BY <4>2, <3>6, OwnersAreTwo
        <5>2. applied'[j][save'[Guest].id] = applied[j][save[Guest].id]
          BY <4>2, <3>6, OwnersAreTwo
        <5> QED BY <5>1, <5>2, <3>9
      <4> QED BY <4>1, <4>2
    <3> QED BY <3>8, <3>10, <3>11 DEF OnRecord, HasSave, Has
  <2> QED BY <1>1, <2>1, <2>2 DEF Open
<1>2. ASSUME NEW k \in Key, Execute(k) PROVE OnRecord(j)'
  <2>0. PICK a \in Owner : a = asked[k].owner
    BY <1>2, Executed
  <2>1. InFlight(j)' => InFlight(j) /\ asked'[j].owner = asked[j].owner
    <3>1. CASE k # j
      BY <1>0, <1>2, <3>1 DEF Execute, InFlight
    <3>2. CASE k = j
      <4>1. InFlight(j)
        BY <1>2, <3>2 DEF Execute, InFlight
      <4>2. PICK over \in {asked[j].over, TRUE} : asked'[j] = Left(j, waiting[j] - 1, over)
        BY <1>0, <1>2, <3>2 DEF Execute
      <4>3. waiting'[j] = waiting[j] - 1
        BY <1>0, <1>2, <3>2 DEF Execute
      <4> QED BY <4>1, <4>2, <4>3, AskedStays
    <3> QED BY <3>1, <3>2
  <2>2. CASE save' = save /\ records' = records /\ applied' = applied
    BY <2>1, <2>2, StaysOnRecord DEF HasSave, Has
  <2>3. CASE ~(save' = save /\ records' = records /\ applied' = applied)
    <3>1. /\ HasSave(a) /\ applied' = [applied EXCEPT ![k][save[a].id] = @ + 1]
          /\ records' = [records EXCEPT ![a] = @ \cup {[key |-> k, at |-> clock]}]
      BY <1>2, <2>0, <2>3, Executed
    <3>2. PICK o : Explains(o, save[a], clock) /\ save' = [save EXCEPT ![a] = o.s]
      BY <1>2, <2>0, <2>3, Executed
    <3>3. \A b \in Owner : HasSave(b)' => HasSave(b) /\ save'[b].id = save[b].id
      BY <3>1, <3>2, <1>0 DEF HasSave, Explains
    <3>4. \A b \in Owner : Has(b, j) => Has(b, j)'
      BY <3>1, <1>0 DEF Has
    <3>5. CASE k # j
      <4>1. applied'[j] = applied[j]
        BY <3>1, <3>5, <1>0
      <4> QED BY <2>1, <3>3, <3>4, <4>1, StaysOnRecord
    <3>6. CASE k = j
      <4>1. Has(a, j)'
        <5>1. [key |-> k, at |-> clock] \in records'[a]
          BY <3>1, <1>0
        <5> QED BY <5>1, <3>6 DEF Has
      <4>2. ASSUME InFlight(j)', HasSave(Guest)', a # Guest PROVE applied'[j][save'[Guest].id] = 0
        <5>1. InFlight(j) /\ HasSave(Guest) /\ save'[Guest].id = save[Guest].id
          BY <2>1, <3>3, <4>2, OwnersAreTwo
        <5>2. save[Guest].id # save[a].id
          BY <1>0, <3>1, <4>2, <5>1, OwnersAreTwo DEF SavesNumbered
        <5>3. applied[j][save[Guest].id] = 0
          BY <1>0, <2>0, <3>6, <4>2, <5>1 DEF OnRecord
        <5>4. applied'[j][save[Guest].id] = applied[j][save[Guest].id]
          BY <1>0, <3>1, <3>6, <5>2
        <5> QED BY <5>1, <5>3, <5>4
      <4>3. InFlight(j)' => asked'[j].owner = a
        BY <2>0, <2>1, <3>6
      <4> QED BY <4>1, <4>2, <4>3 DEF OnRecord, Has, HasSave
    <3> QED BY <3>5, <3>6
  <2> QED BY <2>2, <2>3
<1>3. ASSUME NEW k \in Key, Retry(k) \/ GiveUp(k) \/ Fail(k) PROVE OnRecord(j)'
  <2>1. save' = save /\ records' = records /\ applied' = applied
    BY <1>3 DEF Retry, GiveUp, Fail
  <2>2. InFlight(j)' => InFlight(j) /\ asked'[j].owner = asked[j].owner
    <3>1. CASE k # j
      BY <1>0, <1>3, <3>1 DEF Retry, GiveUp, Fail, InFlight
    <3>2. CASE k = j /\ Retry(k)
      <4>1. MaxAttempts[j] \in 1 .. 3
        BY CasualAssumptions
      <4>2. asked[j].sent > 0 /\ ~asked[j].over
        BY <3>2, <4>1 DEF Retry
      <4>3. asked' = [asked EXCEPT ![j].sent = @ + 1]
        BY <3>2 DEF Retry
      <4> QED BY <1>0, <4>2, <4>3 DEF InFlight
    <3>3. CASE k = j /\ GiveUp(k)
      <4>1. MaxAttempts[j] \in 1 .. 3
        BY CasualAssumptions
      <4>2. InFlight(j)
        BY <3>3, <4>1 DEF GiveUp, InFlight
      <4>3. asked'[j] = Left(j, waiting[j], TRUE) /\ waiting'[j] = waiting[j]
        BY <1>0, <3>3 DEF GiveUp
      <4> QED BY <4>2, <4>3, AskedStays
    <3>4. CASE k = j /\ Fail(k)
      <4>1. InFlight(j)
        BY <3>4 DEF Fail, InFlight
      <4>2. asked'[j] = Left(j, waiting[j] - 1, asked[j].over) /\ waiting'[j] = waiting[j] - 1
        BY <1>0, <3>4 DEF Fail
      <4> QED BY <4>1, <4>2, AskedStays
    <3> QED BY <1>3, <3>1, <3>2, <3>3, <3>4
  <2> QED BY <2>1, <2>2, StaysOnRecord DEF HasSave, Has
<1>4. ASSUME NEW k \in Key, NEW a \in Owner, NEW act \in Ask[k], AskFor(k, a, act) PROVE OnRecord(j)'
  <2>0. save' = save /\ records' = records /\ applied' = applied
    BY <1>4 DEF AskFor
  <2>1. CASE k # j
    <3>1. asked'[j] = asked[j] /\ waiting'[j] = waiting[j]
      BY <1>0, <1>4, <2>1 DEF AskFor
    <3>2. InFlight(j)' => InFlight(j)
      BY <3>1 DEF InFlight
    <3> QED BY <2>0, <3>1, <3>2, StaysOnRecord DEF HasSave, Has
  <2>2. CASE k = j
    <3>1. asked[j] = NotAsked
      BY <1>4, <2>2 DEF AskFor
    <3>2. \A i \in 1 .. MaxSaves : applied[j][i] = 0
      BY <1>0, <3>1 DEF Known
    <3>3. \A b \in Owner : HasSave(b) => save[b].id \in 1 .. MaxSaves
      BY <1>0 DEF SavesNumbered
    <3>4. asked'[j].owner = a
      BY <1>0, <1>4, <2>2 DEF AskFor
    <3>5. HasSave(a)' => applied'[j][save'[a].id] = 0
      BY <2>0, <3>2, <3>3 DEF HasSave
    <3>6. HasSave(Guest)' => applied'[j][save'[Guest].id] = 0
      BY <2>0, <3>2, <3>3, OwnersAreTwo DEF HasSave
    <3> QED BY <3>4, <3>5, <3>6 DEF OnRecord, HasSave
  <2> QED BY <2>1, <2>2
<1>5. CASE Prune
  <2>1. /\ records' = [a \in Owner |->
                        {d \in records[a] : d.at >= clock - DayLength \/ InFlight(d.key)}]
        /\ save' = save /\ asked' = asked /\ waiting' = waiting /\ applied' = applied
    BY <1>5 DEF Prune
  <2>2. \A a \in Owner : InFlight(j) /\ Has(a, j) => Has(a, j)'
    BY <2>1 DEF Has
  <2>3. InFlight(j)' => InFlight(j)
    BY <2>1 DEF InFlight
  <2> QED BY <2>1, <2>2, <2>3, StaysOnRecord DEF HasSave
<1>6. CASE Erase
  <2>1. /\ save' = [save EXCEPT ![User] = NoSave] /\ records' = [records EXCEPT ![User] = {}]
        /\ asked' = asked /\ waiting' = waiting /\ applied' = applied
    BY <1>6 DEF Erase
  <2>2. \A a \in Owner : HasSave(a)' => a # User /\ save'[a] = save[a] /\ records'[a] = records[a]
    BY <2>1, <1>0, OwnersAreTwo DEF HasSave
  <2>3. \A a \in Owner : HasSave(a)' => HasSave(a) /\ save'[a].id = save[a].id
    BY <2>2 DEF HasSave
  <2>4. \A a \in Owner : HasSave(a)' /\ Has(a, j) => Has(a, j)'
    BY <2>2 DEF Has
  <2>5. InFlight(j)' => InFlight(j)
    BY <2>1 DEF InFlight
  <2> QED BY <2>1, <2>3, <2>4, <2>5, StaysOnRecord
<1>7. CASE Minute \/ UNCHANGED vars
  <2>1. /\ save' = save /\ records' = records /\ applied' = applied /\ asked' = asked
        /\ waiting' = waiting
    BY <1>7 DEF Minute, vars
  <2>2. InFlight(j)' => InFlight(j)
    BY <2>1 DEF InFlight
  <2> QED BY <2>1, <2>2, StaysOnRecord DEF HasSave, Has
<1> QED BY <1>1, <1>2, <1>3, <1>4, <1>5, <1>6, <1>7 DEF Next

\* A key that changed a save is on record there while an attempt waits, and is not looked up in vain.
LEMMA KeyStep == CasualIInv /\ [Next]_vars => KeyPaysOncePerSave'
<1> SUFFICES ASSUME CasualIInv, [Next]_vars PROVE KeyPaysOncePerSave'
  OBVIOUS
<1>0. KeyPaysOncePerSave /\ applied \in [Key -> [1 .. MaxSaves -> Nat]]
  BY DEF CasualIInv, Shaped
<1>1. CASE applied' = applied
  BY <1>0, <1>1 DEF KeyPaysOncePerSave
<1>2. ASSUME NEW k \in Key, Execute(k), applied' # applied PROVE KeyPaysOncePerSave'
  <2>0. PICK a \in Owner : a = asked[k].owner
    BY <1>2, Executed
  <2>1. HasSave(a) /\ ~Has(a, k) /\ applied' = [applied EXCEPT ![k][save[a].id] = @ + 1]
    BY <1>2, <2>0, Executed
  <2>2. OnRecord(k) /\ InFlight(k)
    BY <1>2, Executed DEF CasualIInv, Remembered, InFlight
  <2>3. save[a].id \in 1 .. MaxSaves
    <3>1. MaxSaves \in Nat /\ saves \in Nat /\ saves <= MaxSaves /\ save[a].id \in 1 .. saves
      BY <2>1, Numbers DEF CasualIInv, SavesNumbered
    <3> QED BY <3>1
  <2>4. applied[k][save[a].id] = 0
    <3>1. ~(applied[k][save[a].id] > 0)
      BY <2>0, <2>1, <2>2 DEF OnRecord
    <3>2. applied[k][save[a].id] \in Nat
      BY <1>0, <2>3
    <3> QED BY <3>1, <3>2
  <2> SUFFICES ASSUME NEW j \in Key, NEW i \in 1 .. MaxSaves PROVE applied'[j][i] <= 1
    BY DEF KeyPaysOncePerSave
  <2>5. CASE j = k /\ i = save[a].id
    BY <1>0, <2>1, <2>4, <2>5
  <2>6. CASE ~(j = k /\ i = save[a].id)
    BY <1>0, <2>1, <2>6 DEF KeyPaysOncePerSave
  <2> QED BY <2>5, <2>6
<1>3. applied' = applied \/ \E k \in Key : Execute(k)
  BY DEF Next, vars, Open, Retry, GiveUp, Fail, AskFor, Prune, Erase, Minute
<1> QED BY <1>1, <1>2, <1>3

LEMMA CasualInvariance == Spec => []CasualIInv
<1>1. Init => CasualIInv
  BY CasualInit
<1>2. CasualIInv /\ [Next]_vars => CasualIInv'
  BY ShapedStep, SoundStep, LedgerStep, NumberedStep, RequestsStep, RememberedStep, KeyStep DEF CasualIInv
<1> QED BY <1>1, <1>2, PTL DEF Spec

\* An owner's ledger lines add up to what the owner's save holds, over every action, retry,
\* move and erasure.
THEOREM LedgerExplains == Spec => []LedgerExplainsSave
<1>1. CasualIInv => LedgerExplainsSave
  BY DEF CasualIInv
<1> QED BY <1>1, CasualInvariance, PTL

\* A key changes a save once, however often its request is sent.
THEOREM KeysPayOnce == Spec => []KeyPaysOncePerSave
<1>1. CasualIInv => KeyPaysOncePerSave
  BY DEF CasualIInv
<1> QED BY <1>1, CasualInvariance, PTL

\* The idle chest never pays a minute twice.
THEOREM ChestPaysOnce == Spec => []IdlePaysEachMinuteOnce
<1>1. CasualIInv => IdlePaysEachMinuteOnce
  <2> SUFFICES ASSUME CasualIInv, NEW a \in Owner, HasSave(a) PROVE save[a].idlePaid <= clock - save[a].born
    BY DEF IdlePaysEachMinuteOnce
  <2>1. /\ save[a].idlePaid <= save[a].idleAt - save[a].born /\ save[a].idleAt <= clock
        /\ IsSave(save[a]) /\ clock \in Nat
    BY DEF CasualIInv, SavesAreSound, Shaped
  <2>2. save[a].idlePaid \in Int /\ save[a].idleAt \in Int /\ save[a].born \in Int
    BY <2>1 DEF IsSave
  <2> QED BY <2>1, <2>2
<1> QED BY <1>1, CasualInvariance, PTL

---------------------------------------------------------------------------
(* The props, ropes and beams *)

USE RadiiAssumption, EndsAssumption, SpotAssumption, NobodyAssumption

\* A pose is never the mark of a prop that is not shown, and keeps its type
\* when its place or its motion changes.
LEMMA Poses ==
  /\ Absent \notin Pose /\ Absent.at \in Spot
  /\ \A q \in Pose : /\ q.at \in Spot /\ q.motion \in Motion /\ q # Absent
                     /\ \A s \in Spot : [q EXCEPT !.at = s] \in Pose
                     /\ \A m \in Motion : [q EXCEPT !.motion = m] \in Pose
  BY DEF Pose, Absent, Motion

\* The same for what a client's copy says of a prop.
LEMMA Copies ==
  ASSUME NEW c \in Pose \cup {Absent}, c # Absent
  PROVE  /\ \A s \in Spot : [c EXCEPT !.at = s] \in Pose
         /\ \A m \in Motion : [c EXCEPT !.motion = m] \in Pose
  BY Poses

LEMMA InitTypeOK == ViewInit => ViewTypeOK
  BY Poses DEF ViewInit, ViewTypeOK, Pose, Motion

\* A message leaves the clients with copies.
LEMMA Told ==
  ASSUME ViewTypeOK, NEW x \in Prop, NEW to,
         NEW new \in Pose, NEW at \in Spot, NEW m \in Motion,
         TellPose(x, to, new) \/ TellAt(x, to, at) \/ TellMotion(x, to, m)
  PROVE  mirror' \in [Player -> [Prop -> Pose \cup {Absent}]]
<1> DEFINE Copy == Pose \cup {Absent}
<1>1. ASSUME NEW p \in Player, NEW c \in Copy
      PROVE  [mirror[p] EXCEPT ![x] = c] \in [Prop -> Copy]
  BY DEF ViewTypeOK
<1>2. ASSUME NEW p \in Player, mirror[p][x] # Absent
      PROVE  /\ [mirror[p][x] EXCEPT !.at = at] \in Copy
             /\ [mirror[p][x] EXCEPT !.motion = m] \in Copy
  BY <1>2, Copies DEF ViewTypeOK
<1>3. ASSUME NEW p \in Player
      PROVE  /\ [mirror[p] EXCEPT ![x].at = at] = [mirror[p] EXCEPT ![x] = [mirror[p][x] EXCEPT !.at = at]]
             /\ [mirror[p] EXCEPT ![x].motion = m] = [mirror[p] EXCEPT ![x] = [mirror[p][x] EXCEPT !.motion = m]]
  BY DEF ViewTypeOK
<1>4. /\ new \in Copy
      /\ \A p \in Player : mirror[p] \in [Prop -> Copy]
  BY DEF ViewTypeOK
<1> HIDE DEF Copy
<1>5. CASE TellPose(x, to, new)
  BY <1>1, <1>4, <1>5 DEF TellPose, Copy
<1>6. CASE TellAt(x, to, at)
  BY <1>1, <1>2, <1>3, <1>4, <1>6 DEF TellAt, Copy
<1>7. CASE TellMotion(x, to, m)
  BY <1>1, <1>2, <1>3, <1>4, <1>7 DEF TellMotion, Copy
<1> QED
  BY <1>5, <1>6, <1>7

\* A message changes how a prop is shown, never whether.
LEMMA ToldIsShown ==
  ASSUME ViewTypeOK, NEW x \in Prop, NEW to,
         NEW new \in Pose, NEW at \in Spot, NEW m \in Motion,
         TellPose(x, to, new) \/ TellAt(x, to, at) \/ TellMotion(x, to, m)
  PROVE  \A p \in Player : \A y \in Prop : mirror'[p][y] = Absent <=> mirror[p][y] = Absent
<1>1. ASSUME NEW p \in Player, mirror[p][x] # Absent
      PROVE  /\ [mirror[p][x] EXCEPT !.at = at] # Absent
             /\ [mirror[p][x] EXCEPT !.motion = m] # Absent
             /\ new # Absent
  BY <1>1, Copies, Poses DEF ViewTypeOK
<1> TAKE p \in Player
<1> TAKE y \in Prop
<1>2. mirror[p] \in [Prop -> Pose \cup {Absent}]
  BY DEF ViewTypeOK
<1>3. CASE TellPose(x, to, new)
  BY <1>1, <1>2, <1>3 DEF TellPose
<1>4. CASE TellAt(x, to, at)
  BY <1>1, <1>2, <1>4 DEF TellAt
<1>5. CASE TellMotion(x, to, m)
  BY <1>1, <1>2, <1>5 DEF TellMotion
<1> QED
  BY <1>3, <1>4, <1>5

\* A beam, and a prop whose motion changes, keep their types.
LEMMA Beams ==
  ASSUME ViewTypeOK, NEW q \in Player, NEW t
  PROVE  BeamState(q, t) \in [Player -> [Prop -> Player \cup {Nobody, Departed}]]
  BY DEF ViewTypeOK, BeamState
LEMMA Moved ==
  ASSUME ViewTypeOK, NEW x \in Prop, NEW m \in Motion
  PROVE  /\ [pose EXCEPT ![x].motion = m] = [pose EXCEPT ![x] = [pose[x] EXCEPT !.motion = m]]
         /\ [pose EXCEPT ![x].motion = m] \in [Prop -> Pose]
  BY Poses DEF ViewTypeOK

\* Types hold in every state.
LEMMA TypeOKStep == ViewTypeOK /\ [ViewNext]_viewVars => ViewTypeOK'
<1> SUFFICES ASSUME ViewTypeOK, [ViewNext]_viewVars PROVE ViewTypeOK'
  OBVIOUS
<1> USE DEF ViewTypeOK
<1>1. CASE Replicate
  <2>1. \A p \in Player : Interest(p) \in SUBSET Prop
    BY DEF Interest, Here
  <2>2. \A p \in Player : Seen(p) \in [Prop -> Pose \cup {Absent}]
    BY <2>1, Copies, Poses DEF Seen
  <2> QED
    BY <1>1, <2>1, <2>2 DEF Replicate, world, hands, Dropped
<1>2. ASSUME NEW p \in Player, Walk(p) PROVE ViewTypeOK'
  BY <1>2, Poses DEF Walk, world, hands, told
<1>3. ASSUME NEW p \in Player, BeamOn(p) PROVE ViewTypeOK'
  BY <1>3, Poses DEF BeamOn, world, told
<1>4. ASSUME NEW p \in Player, BeamOff(p) PROVE ViewTypeOK'
  BY <1>4, Beams DEF BeamOff, LetGo, world
<1>5. ASSUME NEW p \in Player, Freeze(p) PROVE ViewTypeOK'
  <2>1. CASE held[p] \in Here
    <3>1. /\ [pose[held[p]] EXCEPT !.motion = "frozen"] \in Pose
          /\ pose' = [pose EXCEPT ![held[p]] = [pose[held[p]] EXCEPT !.motion = "frozen"]]
      BY <1>5, <2>1, Poses DEF Freeze, Here, Motion
    <3>2. TellPose(held[p], Knowers(held[p]), [pose[held[p]] EXCEPT !.motion = "frozen"])
      BY <1>5, <2>1 DEF Freeze
    <3>3. /\ held[p] \in Prop /\ pose[held[p]].at \in Spot /\ "frozen" \in Motion
      BY <2>1, Poses DEF Here, Motion
    <3>4. mirror' \in [Player -> [Prop -> Pose \cup {Absent}]]
      BY <3>1, <3>2, <3>3, Told
    <3>5. beams' \in [Player -> [Prop -> Player \cup {Nobody, Departed}]]
      BY <1>5, <2>1, Beams DEF Freeze, LetGo
    <3>6. pose' \in [Prop -> Pose]
      BY <3>1, <3>3
    <3>7. /\ held' = [held EXCEPT ![p] = Nobody] /\ latch' = latch \ {held[p]}
          /\ grabbing' = grabbing \ {p}
          /\ untold' = [q \in Player |-> untold[q] \ {held[p]}]
          /\ UNCHANGED <<life, settled, tied, status, spot, known, ropes, returned>>
      BY <1>5, <2>1 DEF Freeze, LetGo
    <3> QED
      BY <3>4, <3>5, <3>6, <3>7
  <2>2. CASE held[p] \notin Here
    BY <1>5, <2>2 DEF Freeze
  <2> QED
    BY <2>1, <2>2
<1>6. ASSUME NEW p \in Player, BeamBreaks(p) PROVE ViewTypeOK'
  BY <1>6, Poses DEF BeamBreaks, world, told
<1>7. ASSUME NEW p \in Player, Leave(p) PROVE ViewTypeOK'
  BY <1>7, Poses DEF Leave, EndSession, Cleared, Orphaned, world
<1>8. ASSUME NEW p \in Player, Join(p) PROVE ViewTypeOK'
  BY <1>8, Poses DEF Join, world, hands, told
<1>9. ASSUME NEW p \in Player, Depart(p) PROVE ViewTypeOK'
  BY <1>9, Poses DEF Depart, EndSession, Orphaned, world
<1>10. ASSUME NEW p \in Player, Arrive(p) PROVE ViewTypeOK'
  BY <1>10, Poses DEF Arrive, Cleared, world, hands
<1>11. ASSUME NEW p \in Player, Return(p) PROVE ViewTypeOK'
  BY <1>11, Poses DEF Return, world, hands, told
<1>12. ASSUME NEW p \in Player, NEW x \in Prop, Spawn(p, x) PROVE ViewTypeOK'
  BY <1>12, Poses DEF Spawn, hands
<1>13. ASSUME NEW p \in Player, NEW x \in Prop, PickUp(p, x) PROVE ViewTypeOK'
  <2>1. beams' \in [Player -> [Prop -> Player \cup {Nobody, Departed}]]
    BY <1>13, Beams DEF PickUp
  <2>2. held' \in [Player -> Prop \cup {Nobody}] /\ latch' \subseteq Prop
    BY <1>13 DEF PickUp
  <2> QED
    BY <1>13, <2>1, <2>2 DEF PickUp, Despawned, Forgotten, Dropped
<1>14. ASSUME NEW p \in Player, NEW x \in Prop, Cut(p, x) PROVE ViewTypeOK'
  BY <1>14, Poses DEF Cut, hands
<1>15. ASSUME NEW p \in Player, NEW x \in Prop, Grab(p, x) PROVE ViewTypeOK'
  <2>1. pose' \in [Prop -> Pose]
    BY <1>15, Moved DEF Grab, Motion
  <2>2. mirror' \in [Player -> [Prop -> Pose \cup {Absent}]]
    BY <1>15, Told, Poses DEF Grab, Motion
  <2> QED
    BY <1>15, <2>1, <2>2, Beams DEF Grab
<1>16. ASSUME NEW p \in Player, NEW x \in Prop, Unfreeze(p, x) PROVE ViewTypeOK'
  <2>1. pose' \in [Prop -> Pose]
    BY <1>16, Moved DEF Unfreeze, Motion
  <2>2. mirror' \in [Player -> [Prop -> Pose \cup {Absent}]]
    BY <1>16, Told, Poses DEF Unfreeze, Motion
  <2> QED
    BY <1>16, <2>1, <2>2 DEF Unfreeze, hands
<1>17. ASSUME NEW p \in Player, NEW x \in Prop, Mount(p, x) PROVE ViewTypeOK'
  <2>1. pose' \in [Prop -> Pose]
    BY <1>17, Moved DEF Mount, Motion
  <2>2. beams' \in [Player -> [Prop -> Player \cup {Nobody, Departed}]]
    BY <1>17, Beams DEF Mount, LetGo
  <2> QED
    BY <1>17, <2>1, <2>2 DEF Mount, LetGo
<1>18. ASSUME NEW p \in Player, NEW r \in Rope, Tie(p, r) PROVE ViewTypeOK'
  BY <1>18, Poses DEF Tie, hands
<1>19. ASSUME NEW x \in Prop, Moves(x) PROVE ViewTypeOK'
  BY <1>19, Poses DEF Moves, hands, told, Here
<1>20. ASSUME NEW x \in Prop, Settles(x) PROVE ViewTypeOK'
  <2>1. mirror' \in [Player -> [Prop -> Pose \cup {Absent}]]
    BY <1>20, Told, Poses DEF Settles, Motion
  <2> QED
    BY <1>20, <2>1 DEF Settles, Here, hands
<1>21. ASSUME NEW x \in Prop, Destroy(x) PROVE ViewTypeOK'
  BY <1>21, Poses DEF Destroy, Despawned, Forgotten, Dropped, hands
<1>22. ASSUME NEW x \in Prop, MapRemoves(x) PROVE ViewTypeOK'
  BY <1>22, Poses DEF MapRemoves, Despawned, hands, told
<1>23. ASSUME NEW x \in Prop, MapMoves(x) PROVE ViewTypeOK'
  BY <1>23, Poses DEF MapMoves, hands
<1>24. CASE UNCHANGED viewVars
  BY <1>24 DEF viewVars, world, hands, told
<1> QED
  BY <1>1, <1>2, <1>3, <1>4, <1>5, <1>6, <1>7, <1>8, <1>9, <1>10, <1>11, <1>12, <1>13, <1>14, <1>15, <1>16, <1>17, <1>18, <1>19, <1>20, <1>21, <1>22, <1>23, <1>24 DEF ViewNext

-------------------------------------------------------------------------------
\* A prop that is not there yet is in nobody's hands and on nobody's screen, and
\* no rope ends at it; a rope a client shows has been tied.
UnbornIsUnused ==
  /\ \A x \in Prop : life[x] = "unborn" =>
       /\ x \notin latch
       /\ \A p \in Player : held[p] # x /\ x \notin known[p]
       /\ \A r \in Rope : x \in Ends[r] => tied[r] = "unborn"
  /\ \A p \in Player : \A r \in ropes[p] : tied[r] # "unborn"

\* The ends of a rope are there: a prop takes its ropes along.
RopesHaveEnds == \A r \in Rope : tied[r] = "here" => Ends[r] \subseteq Here

\* Only a player in the room holds a prop.
HandsAreInside == \A p \in Player : held[p] # Nobody => p \in Inside

\* Outside, a session knows nothing; a client that has left the room's
\* sockets, and is not on its way back, shows nothing.
OutsideIsBlank ==
  \A p \in Player \ Inside :
    /\ known[p] = {}
    /\ status[p] = "away" => ropes[p] = {} /\ \A x \in Prop : mirror[p][x] = Absent

\* A rope shown between two props that are there is tied, and the client knows
\* one of them: otherwise cutting it would not reach the client.
ShownRopesAreTied ==
  \A p \in Inside \ returned : \A r \in ropes[p] :
    Ends[r] \subseteq Here => tied[r] = "here" /\ Ends[r] \cap known[p] # {}

\* The strengthening every step preserves.
IInv ==
  /\ ViewTypeOK /\ UnbornIsUnused /\ RopesHaveEnds /\ HandsAreInside /\ OutsideIsBlank
  /\ MirrorIsKnown /\ LatchIsABeam /\ RestingPropsAgree /\ ShownRopesAreTied /\ RopesAgree

LEMMA InitIInv == ViewInit => IInv
<1> SUFFICES ASSUME ViewInit PROVE IInv
  OBVIOUS
<1>1. ViewTypeOK
  BY InitTypeOK
<1>2. Inside = {}
  BY DEF ViewInit, Inside
<1>3. UnbornIsUnused /\ RopesHaveEnds /\ HandsAreInside /\ OutsideIsBlank
  BY NobodyAssumption DEF ViewInit, UnbornIsUnused, RopesHaveEnds, HandsAreInside, OutsideIsBlank
<1>4. MirrorIsKnown /\ RestingPropsAgree /\ ShownRopesAreTied /\ RopesAgree
  BY <1>2 DEF MirrorIsKnown, RestingPropsAgree, ShownRopesAreTied, RopesAgree
<1>5. LatchIsABeam
  BY <1>2, NobodyAssumption DEF LatchIsABeam, ViewInit, Here
<1> QED
  BY <1>1, <1>3, <1>4, <1>5 DEF IInv

\* A prop is used only once it is there.
LEMMA UnbornStep == IInv /\ [ViewNext]_viewVars => UnbornIsUnused'
<1> SUFFICES ASSUME IInv, [ViewNext]_viewVars PROVE UnbornIsUnused'
  OBVIOUS
<1> USE DEF IInv, ViewTypeOK, UnbornIsUnused, Here
<1>1. ASSUME Replicate PROVE UnbornIsUnused'
  BY <1>1 DEF Replicate, world, hands, Interest, Dropped
<1>2. ASSUME NEW p \in Player, Walk(p) PROVE UnbornIsUnused'
  BY <1>2 DEF Walk, world, hands, told
<1>3. ASSUME NEW p \in Player, BeamOn(p) PROVE UnbornIsUnused'
  BY <1>3 DEF BeamOn, world, told
<1>4. ASSUME NEW p \in Player, BeamOff(p) PROVE UnbornIsUnused'
  BY <1>4 DEF BeamOff, LetGo, world
<1>5. ASSUME NEW p \in Player, Freeze(p) PROVE UnbornIsUnused'
  BY <1>5 DEF Freeze, LetGo
<1>6. ASSUME NEW p \in Player, BeamBreaks(p) PROVE UnbornIsUnused'
  BY <1>6 DEF BeamBreaks, world, told
<1>7. ASSUME NEW p \in Player, Leave(p) PROVE UnbornIsUnused'
  BY <1>7 DEF Leave, EndSession, Cleared, world
<1>8. ASSUME NEW p \in Player, Join(p) PROVE UnbornIsUnused'
  BY <1>8 DEF Join, world, hands, told
<1>9. ASSUME NEW p \in Player, Depart(p) PROVE UnbornIsUnused'
  BY <1>9 DEF Depart, EndSession, world
<1>10. ASSUME NEW p \in Player, Arrive(p) PROVE UnbornIsUnused'
  BY <1>10 DEF Arrive, Cleared, world, hands
<1>11. ASSUME NEW p \in Player, Return(p) PROVE UnbornIsUnused'
  BY <1>11 DEF Return, world, hands, told
<1>12. ASSUME NEW p \in Player, NEW x \in Prop, Spawn(p, x) PROVE UnbornIsUnused'
  BY <1>12 DEF Spawn, hands
<1>13. ASSUME NEW p \in Player, NEW x \in Prop, PickUp(p, x) PROVE UnbornIsUnused'
  BY <1>13 DEF PickUp, Despawned, Forgotten, Dropped
<1>14. ASSUME NEW p \in Player, NEW x \in Prop, Cut(p, x) PROVE UnbornIsUnused'
  BY <1>14 DEF Cut, hands
<1>15. ASSUME NEW p \in Player, NEW x \in Prop, Grab(p, x) PROVE UnbornIsUnused'
  BY <1>15 DEF Grab
<1>16. ASSUME NEW p \in Player, NEW x \in Prop, Unfreeze(p, x) PROVE UnbornIsUnused'
  BY <1>16 DEF Unfreeze, hands
<1>17. ASSUME NEW p \in Player, NEW x \in Prop, Mount(p, x) PROVE UnbornIsUnused'
  BY <1>17 DEF Mount, LetGo
<1>18. ASSUME NEW p \in Player, NEW r \in Rope, Tie(p, r) PROVE UnbornIsUnused'
  BY <1>18 DEF Tie, hands
<1>19. ASSUME NEW x \in Prop, Moves(x) PROVE UnbornIsUnused'
  BY <1>19 DEF Moves, hands, told
<1>20. ASSUME NEW x \in Prop, Settles(x) PROVE UnbornIsUnused'
  BY <1>20 DEF Settles, hands
<1>21. ASSUME NEW x \in Prop, Destroy(x) PROVE UnbornIsUnused'
  BY <1>21 DEF Destroy, Despawned, Forgotten, hands, Dropped
<1>22. ASSUME NEW x \in Prop, MapRemoves(x) PROVE UnbornIsUnused'
  BY <1>22 DEF MapRemoves, Despawned, hands, told
<1>23. ASSUME NEW x \in Prop, MapMoves(x) PROVE UnbornIsUnused'
  BY <1>23 DEF MapMoves, hands
<1>24. CASE UNCHANGED viewVars
  BY <1>24 DEF viewVars, world, hands, told
<1> QED
  BY <1>1, <1>2, <1>3, <1>4, <1>5, <1>6, <1>7, <1>8, <1>9, <1>10, <1>11, <1>12, <1>13, <1>14, <1>15, <1>16, <1>17, <1>18, <1>19, <1>20, <1>21, <1>22, <1>23, <1>24 DEF ViewNext

\* A prop that goes takes its ropes along.
LEMMA RopesHaveEndsStep == IInv /\ [ViewNext]_viewVars => RopesHaveEnds'
<1> SUFFICES ASSUME IInv, [ViewNext]_viewVars PROVE RopesHaveEnds'
  OBVIOUS
<1> USE DEF IInv, ViewTypeOK, RopesHaveEnds, UnbornIsUnused, Here
<1>1. ASSUME Replicate PROVE RopesHaveEnds'
  BY <1>1 DEF Replicate, world, hands
<1>2. ASSUME NEW p \in Player, Walk(p) PROVE RopesHaveEnds'
  BY <1>2 DEF Walk, world, hands, told
<1>3. ASSUME NEW p \in Player, BeamOn(p) PROVE RopesHaveEnds'
  BY <1>3 DEF BeamOn, world, told
<1>4. ASSUME NEW p \in Player, BeamOff(p) PROVE RopesHaveEnds'
  BY <1>4 DEF BeamOff, LetGo, world
<1>5. ASSUME NEW p \in Player, Freeze(p) PROVE RopesHaveEnds'
  BY <1>5 DEF Freeze, LetGo
<1>6. ASSUME NEW p \in Player, BeamBreaks(p) PROVE RopesHaveEnds'
  BY <1>6 DEF BeamBreaks, world, told
<1>7. ASSUME NEW p \in Player, Leave(p) PROVE RopesHaveEnds'
  BY <1>7 DEF Leave, EndSession, Cleared, world
<1>8. ASSUME NEW p \in Player, Join(p) PROVE RopesHaveEnds'
  BY <1>8 DEF Join, world, hands, told
<1>9. ASSUME NEW p \in Player, Depart(p) PROVE RopesHaveEnds'
  BY <1>9 DEF Depart, EndSession, world
<1>10. ASSUME NEW p \in Player, Arrive(p) PROVE RopesHaveEnds'
  BY <1>10 DEF Arrive, Cleared, world, hands
<1>11. ASSUME NEW p \in Player, Return(p) PROVE RopesHaveEnds'
  BY <1>11 DEF Return, world, hands, told
<1>12. ASSUME NEW p \in Player, NEW x \in Prop, Spawn(p, x) PROVE RopesHaveEnds'
  BY <1>12 DEF Spawn, hands
<1>13. ASSUME NEW p \in Player, NEW x \in Prop, PickUp(p, x) PROVE RopesHaveEnds'
  BY <1>13 DEF PickUp, Despawned, Forgotten
<1>14. ASSUME NEW p \in Player, NEW x \in Prop, Cut(p, x) PROVE RopesHaveEnds'
  BY <1>14 DEF Cut, hands
<1>15. ASSUME NEW p \in Player, NEW x \in Prop, Grab(p, x) PROVE RopesHaveEnds'
  BY <1>15 DEF Grab
<1>16. ASSUME NEW p \in Player, NEW x \in Prop, Unfreeze(p, x) PROVE RopesHaveEnds'
  BY <1>16 DEF Unfreeze, hands
<1>17. ASSUME NEW p \in Player, NEW x \in Prop, Mount(p, x) PROVE RopesHaveEnds'
  BY <1>17 DEF Mount, LetGo
<1>18. ASSUME NEW p \in Player, NEW r \in Rope, Tie(p, r) PROVE RopesHaveEnds'
  BY <1>18 DEF Tie, hands
<1>19. ASSUME NEW x \in Prop, Moves(x) PROVE RopesHaveEnds'
  BY <1>19 DEF Moves, hands, told
<1>20. ASSUME NEW x \in Prop, Settles(x) PROVE RopesHaveEnds'
  BY <1>20 DEF Settles, hands
<1>21. ASSUME NEW x \in Prop, Destroy(x) PROVE RopesHaveEnds'
  BY <1>21 DEF Destroy, Despawned, Forgotten, hands
<1>22. ASSUME NEW x \in Prop, MapRemoves(x) PROVE RopesHaveEnds'
  BY <1>22 DEF MapRemoves, Despawned, hands, told
<1>23. ASSUME NEW x \in Prop, MapMoves(x) PROVE RopesHaveEnds'
  BY <1>23 DEF MapMoves, hands
<1>24. CASE UNCHANGED viewVars
  BY <1>24 DEF viewVars, world, hands, told
<1> QED
  BY <1>1, <1>2, <1>3, <1>4, <1>5, <1>6, <1>7, <1>8, <1>9, <1>10, <1>11, <1>12, <1>13, <1>14, <1>15, <1>16, <1>17, <1>18, <1>19, <1>20, <1>21, <1>22, <1>23, <1>24 DEF ViewNext

\* A session that ends lets go.
LEMMA HandsStep == IInv /\ [ViewNext]_viewVars => HandsAreInside'
<1> SUFFICES ASSUME IInv, [ViewNext]_viewVars PROVE HandsAreInside'
  OBVIOUS
<1> USE DEF IInv, ViewTypeOK, HandsAreInside, Inside
<1>1. ASSUME Replicate PROVE HandsAreInside'
  BY <1>1 DEF Replicate, world, hands
<1>2. ASSUME NEW p \in Player, Walk(p) PROVE HandsAreInside'
  BY <1>2 DEF Walk, world, hands, told
<1>3. ASSUME NEW p \in Player, BeamOn(p) PROVE HandsAreInside'
  BY <1>3 DEF BeamOn, world, told
<1>4. ASSUME NEW p \in Player, BeamOff(p) PROVE HandsAreInside'
  BY <1>4 DEF BeamOff, LetGo, world
<1>5. ASSUME NEW p \in Player, Freeze(p) PROVE HandsAreInside'
  BY <1>5 DEF Freeze, LetGo
<1>6. ASSUME NEW p \in Player, BeamBreaks(p) PROVE HandsAreInside'
  BY <1>6 DEF BeamBreaks, world, told
<1>7. ASSUME NEW p \in Player, Leave(p) PROVE HandsAreInside'
  BY <1>7 DEF Leave, EndSession, Cleared, world
<1>8. ASSUME NEW p \in Player, Join(p) PROVE HandsAreInside'
  BY <1>8 DEF Join, world, hands, told
<1>9. ASSUME NEW p \in Player, Depart(p) PROVE HandsAreInside'
  BY <1>9 DEF Depart, EndSession, world
<1>10. ASSUME NEW p \in Player, Arrive(p) PROVE HandsAreInside'
  BY <1>10 DEF Arrive, Cleared, world, hands
<1>11. ASSUME NEW p \in Player, Return(p) PROVE HandsAreInside'
  BY <1>11 DEF Return, world, hands, told
<1>12. ASSUME NEW p \in Player, NEW x \in Prop, Spawn(p, x) PROVE HandsAreInside'
  BY <1>12 DEF Spawn, hands
<1>13. ASSUME NEW p \in Player, NEW x \in Prop, PickUp(p, x) PROVE HandsAreInside'
  BY <1>13 DEF PickUp, Despawned, Forgotten
<1>14. ASSUME NEW p \in Player, NEW x \in Prop, Cut(p, x) PROVE HandsAreInside'
  BY <1>14 DEF Cut, hands
<1>15. ASSUME NEW p \in Player, NEW x \in Prop, Grab(p, x) PROVE HandsAreInside'
  BY <1>15 DEF Grab
<1>16. ASSUME NEW p \in Player, NEW x \in Prop, Unfreeze(p, x) PROVE HandsAreInside'
  BY <1>16 DEF Unfreeze, hands
<1>17. ASSUME NEW p \in Player, NEW x \in Prop, Mount(p, x) PROVE HandsAreInside'
  BY <1>17 DEF Mount, LetGo
<1>18. ASSUME NEW p \in Player, NEW r \in Rope, Tie(p, r) PROVE HandsAreInside'
  BY <1>18 DEF Tie, hands
<1>19. ASSUME NEW x \in Prop, Moves(x) PROVE HandsAreInside'
  BY <1>19 DEF Moves, hands, told
<1>20. ASSUME NEW x \in Prop, Settles(x) PROVE HandsAreInside'
  BY <1>20 DEF Settles, hands
<1>21. ASSUME NEW x \in Prop, Destroy(x) PROVE HandsAreInside'
  BY <1>21 DEF Destroy, Despawned, Forgotten, hands
<1>22. ASSUME NEW x \in Prop, MapRemoves(x) PROVE HandsAreInside'
  BY <1>22 DEF MapRemoves, Despawned, hands, told
<1>23. ASSUME NEW x \in Prop, MapMoves(x) PROVE HandsAreInside'
  BY <1>23 DEF MapMoves, hands
<1>24. CASE UNCHANGED viewVars
  BY <1>24 DEF viewVars, world, hands, told
<1> QED
  BY <1>1, <1>2, <1>3, <1>4, <1>5, <1>6, <1>7, <1>8, <1>9, <1>10, <1>11, <1>12, <1>13, <1>14, <1>15, <1>16, <1>17, <1>18, <1>19, <1>20, <1>21, <1>22, <1>23, <1>24 DEF ViewNext

\* A session that ends forgets, and a client that leaves is cleared.
LEMMA OutsideStep == IInv /\ [ViewNext]_viewVars => OutsideIsBlank'
<1> SUFFICES ASSUME IInv, [ViewNext]_viewVars PROVE OutsideIsBlank'
  OBVIOUS
<1> USE DEF IInv, ViewTypeOK, OutsideIsBlank, Inside, Knowers
<1>1. ASSUME Replicate PROVE OutsideIsBlank'
  BY <1>1 DEF Replicate, world, hands
<1>2. ASSUME NEW p \in Player, Walk(p) PROVE OutsideIsBlank'
  BY <1>2 DEF Walk, world, hands, told
<1>3. ASSUME NEW p \in Player, BeamOn(p) PROVE OutsideIsBlank'
  BY <1>3 DEF BeamOn, world, told
<1>4. ASSUME NEW p \in Player, BeamOff(p) PROVE OutsideIsBlank'
  BY <1>4 DEF BeamOff, LetGo, world
<1>5. ASSUME NEW p \in Player, Freeze(p) PROVE OutsideIsBlank'
  BY <1>5 DEF Freeze, LetGo, TellPose
<1>6. ASSUME NEW p \in Player, BeamBreaks(p) PROVE OutsideIsBlank'
  BY <1>6 DEF BeamBreaks, world, told
<1>7. ASSUME NEW p \in Player, Leave(p) PROVE OutsideIsBlank'
  BY <1>7 DEF Leave, EndSession, Cleared, world
<1>8. ASSUME NEW p \in Player, Join(p) PROVE OutsideIsBlank'
  BY <1>8 DEF Join, world, hands, told
<1>9. ASSUME NEW p \in Player, Depart(p) PROVE OutsideIsBlank'
  BY <1>9 DEF Depart, EndSession, world
<1>10. ASSUME NEW p \in Player, Arrive(p) PROVE OutsideIsBlank'
  BY <1>10 DEF Arrive, Cleared, world, hands
<1>11. ASSUME NEW p \in Player, Return(p) PROVE OutsideIsBlank'
  BY <1>11 DEF Return, world, hands, told
<1>12. ASSUME NEW p \in Player, NEW x \in Prop, Spawn(p, x) PROVE OutsideIsBlank'
  BY <1>12 DEF Spawn, hands
<1>13. ASSUME NEW p \in Player, NEW x \in Prop, PickUp(p, x) PROVE OutsideIsBlank'
  BY <1>13 DEF PickUp, Despawned, Forgotten
<1>14. ASSUME NEW p \in Player, NEW x \in Prop, Cut(p, x) PROVE OutsideIsBlank'
  BY <1>14 DEF Cut, hands
<1>15. ASSUME NEW p \in Player, NEW x \in Prop, Grab(p, x) PROVE OutsideIsBlank'
  BY <1>15 DEF Grab, TellMotion
<1>16. ASSUME NEW p \in Player, NEW x \in Prop, Unfreeze(p, x) PROVE OutsideIsBlank'
  BY <1>16 DEF Unfreeze, hands, TellMotion
<1>17. ASSUME NEW p \in Player, NEW x \in Prop, Mount(p, x) PROVE OutsideIsBlank'
  BY <1>17 DEF Mount, LetGo
<1>18. ASSUME NEW p \in Player, NEW r \in Rope, Tie(p, r) PROVE OutsideIsBlank'
  BY <1>18 DEF Tie, hands
<1>19. ASSUME NEW x \in Prop, Moves(x) PROVE OutsideIsBlank'
  BY <1>19 DEF Moves, hands, told
<1>20. ASSUME NEW x \in Prop, Settles(x) PROVE OutsideIsBlank'
  BY <1>20 DEF Settles, hands, TellAt
<1>21. ASSUME NEW x \in Prop, Destroy(x) PROVE OutsideIsBlank'
  BY <1>21 DEF Destroy, Despawned, Forgotten, hands
<1>22. ASSUME NEW x \in Prop, MapRemoves(x) PROVE OutsideIsBlank'
  BY <1>22 DEF MapRemoves, Despawned, hands, told
<1>23. ASSUME NEW x \in Prop, MapMoves(x) PROVE OutsideIsBlank'
  BY <1>23 DEF MapMoves, hands
<1>24. CASE UNCHANGED viewVars
  BY <1>24 DEF viewVars, world, hands, told
<1> QED
  BY <1>1, <1>2, <1>3, <1>4, <1>5, <1>6, <1>7, <1>8, <1>9, <1>10, <1>11, <1>12, <1>13, <1>14, <1>15, <1>16, <1>17, <1>18, <1>19, <1>20, <1>21, <1>22, <1>23, <1>24 DEF ViewNext

\* Whatever ends a beam ends its latch while its prop is there.
LEMMA LatchStep == IInv /\ [ViewNext]_viewVars => LatchIsABeam'
<1> SUFFICES ASSUME IInv, [ViewNext]_viewVars PROVE LatchIsABeam'
  OBVIOUS
<1> USE DEF IInv, ViewTypeOK, UnbornIsUnused, HandsAreInside, LatchIsABeam, Inside, Here
<1>1. ASSUME Replicate PROVE LatchIsABeam'
  BY <1>1 DEF Replicate, world, hands
<1>2. ASSUME NEW p \in Player, Walk(p) PROVE LatchIsABeam'
  BY <1>2 DEF Walk, world, hands, told
<1>3. ASSUME NEW p \in Player, BeamOn(p) PROVE LatchIsABeam'
  BY <1>3 DEF BeamOn, world, told
<1>4. ASSUME NEW p \in Player, BeamOff(p) PROVE LatchIsABeam'
  BY <1>4 DEF BeamOff, LetGo, world
<1>5. ASSUME NEW p \in Player, Freeze(p) PROVE LatchIsABeam'
  <2>1. UNCHANGED <<life, status>> /\ held' = [held EXCEPT ![p] = Nobody]
    BY <1>5 DEF Freeze, LetGo
  <2>2. CASE held[p] \in Here
    <3>1. latch' = latch \ {held[p]}
      BY <1>5, <2>2 DEF Freeze, LetGo
    <3> QED
      BY <2>1, <2>2, <3>1
  <2>3. CASE held[p] \notin Here
    <3>1. latch' = latch
      BY <1>5, <2>3 DEF Freeze
    <3> QED
      BY <2>1, <2>3, <3>1
  <2> QED
    BY <2>2, <2>3
<1>6. ASSUME NEW p \in Player, BeamBreaks(p) PROVE LatchIsABeam'
  BY <1>6 DEF BeamBreaks, world, told
<1>7. ASSUME NEW p \in Player, Leave(p) PROVE LatchIsABeam'
  BY <1>7 DEF Leave, EndSession, Cleared, world
<1>8. ASSUME NEW p \in Player, Join(p) PROVE LatchIsABeam'
  BY <1>8 DEF Join, world, hands, told
<1>9. ASSUME NEW p \in Player, Depart(p) PROVE LatchIsABeam'
  BY <1>9 DEF Depart, EndSession, world
<1>10. ASSUME NEW p \in Player, Arrive(p) PROVE LatchIsABeam'
  BY <1>10 DEF Arrive, Cleared, world, hands
<1>11. ASSUME NEW p \in Player, Return(p) PROVE LatchIsABeam'
  BY <1>11 DEF Return, world, hands, told
<1>12. ASSUME NEW p \in Player, NEW x \in Prop, Spawn(p, x) PROVE LatchIsABeam'
  BY <1>12 DEF Spawn, hands
<1>13. ASSUME NEW p \in Player, NEW x \in Prop, PickUp(p, x) PROVE LatchIsABeam'
  <2>1. life' = [life EXCEPT ![x] = "gone"] /\ UNCHANGED status
    BY <1>13 DEF PickUp, Despawned
  <2>2. CASE held[p] = x
    <3>1. held' = [held EXCEPT ![p] = Nobody] /\ latch' = latch \ {x}
      BY <1>13, <2>2 DEF PickUp
    <3> QED
      BY <2>1, <2>2, <3>1
  <2>3. CASE held[p] # x
    <3>1. UNCHANGED <<held, latch>>
      BY <1>13, <2>3 DEF PickUp
    <3> QED
      BY <2>1, <3>1
  <2> QED
    BY <2>2, <2>3
<1>14. ASSUME NEW p \in Player, NEW x \in Prop, Cut(p, x) PROVE LatchIsABeam'
  BY <1>14 DEF Cut, hands
<1>15. ASSUME NEW p \in Player, NEW x \in Prop, Grab(p, x) PROVE LatchIsABeam'
  BY <1>15 DEF Grab
<1>16. ASSUME NEW p \in Player, NEW x \in Prop, Unfreeze(p, x) PROVE LatchIsABeam'
  BY <1>16 DEF Unfreeze, hands
<1>17. ASSUME NEW p \in Player, NEW x \in Prop, Mount(p, x) PROVE LatchIsABeam'
  BY <1>17 DEF Mount, LetGo
<1>18. ASSUME NEW p \in Player, NEW r \in Rope, Tie(p, r) PROVE LatchIsABeam'
  BY <1>18 DEF Tie, hands
<1>19. ASSUME NEW x \in Prop, Moves(x) PROVE LatchIsABeam'
  BY <1>19 DEF Moves, hands, told
<1>20. ASSUME NEW x \in Prop, Settles(x) PROVE LatchIsABeam'
  BY <1>20 DEF Settles, hands
<1>21. ASSUME NEW x \in Prop, Destroy(x) PROVE LatchIsABeam'
  BY <1>21 DEF Destroy, Despawned, Forgotten, hands
<1>22. ASSUME NEW x \in Prop, MapRemoves(x) PROVE LatchIsABeam'
  BY <1>22 DEF MapRemoves, Despawned, hands, told
<1>23. ASSUME NEW x \in Prop, MapMoves(x) PROVE LatchIsABeam'
  BY <1>23 DEF MapMoves, hands
<1>24. CASE UNCHANGED viewVars
  BY <1>24 DEF viewVars, world, hands, told
<1> QED
  BY <1>1, <1>2, <1>3, <1>4, <1>5, <1>6, <1>7, <1>8, <1>9, <1>10, <1>11, <1>12, <1>13, <1>14, <1>15, <1>16, <1>17, <1>18, <1>19, <1>20, <1>21, <1>22, <1>23, <1>24 DEF ViewNext

\* A client is told of what its session notes, and notes what it is told.
LEMMA MirrorStep == IInv /\ [ViewNext]_viewVars => MirrorIsKnown'
<1> SUFFICES ASSUME IInv, [ViewNext]_viewVars PROVE MirrorIsKnown'
  OBVIOUS
<1> USE DEF IInv, ViewTypeOK, OutsideIsBlank, UnbornIsUnused, MirrorIsKnown, Shown, Inside, Knowers
<1>1. ASSUME Replicate PROVE MirrorIsKnown'
  <2> SUFFICES ASSUME NEW p \in Inside
                PROVE  /\ Interest(p) \subseteq {x \in Prop : Seen(p)[x] # Absent}
                       /\ p \notin returned => {x \in Prop : Seen(p)[x] # Absent} \subseteq Interest(p)
    BY <1>1 DEF Replicate
  <2>1. Interest(p) \subseteq Prop
    BY DEF Interest, Here
  <2>2. ASSUME NEW x \in Interest(p) PROVE Seen(p)[x] # Absent
    <3>1. x \in Prop /\ pose[x] \in Pose /\ pose[x] # Absent /\ pose[x].at \in Spot
      BY <2>1, Poses
    <3>2. ASSUME mirror[p][x] # Absent
          PROVE  [mirror[p][x] EXCEPT !.at = pose[x].at] # Absent
      BY <3>1, <3>2, Copies, Poses
    <3>3. x \in known[p] => mirror[p][x] # Absent
      BY <3>1
    <3> QED
      BY <2>2, <3>1, <3>2, <3>3 DEF Seen
  <2>3. ASSUME NEW x \in Prop \ Interest(p), p \notin returned PROVE Seen(p)[x] = Absent
    BY <2>3 DEF Seen
  <2> QED
    BY <2>1, <2>2, <2>3
<1>2. ASSUME NEW p \in Player, Walk(p) PROVE MirrorIsKnown'
  BY <1>2 DEF Walk, world, hands, told
<1>3. ASSUME NEW p \in Player, BeamOn(p) PROVE MirrorIsKnown'
  BY <1>3 DEF BeamOn, world, told
<1>4. ASSUME NEW p \in Player, BeamOff(p) PROVE MirrorIsKnown'
  BY <1>4 DEF BeamOff, LetGo, world
<1>5. ASSUME NEW p \in Player, Freeze(p) PROVE MirrorIsKnown'
  <2>1. CASE held[p] \in Here
    <3>1. TellPose(held[p], Knowers(held[p]), [pose[held[p]] EXCEPT !.motion = "frozen"])
      BY <1>5, <2>1 DEF Freeze
    <3>2. held[p] \in Prop /\ [pose[held[p]] EXCEPT !.motion = "frozen"] \in Pose
      BY <2>1, Poses DEF Here, Motion
    <3>3. \A q \in Player : \A y \in Prop : mirror'[q][y] = Absent <=> mirror[q][y] = Absent
      BY <3>1, <3>2, ToldIsShown, Poses DEF Motion
    <3> QED
      BY <1>5, <3>3 DEF Freeze
  <2>2. CASE held[p] \notin Here
    BY <1>5, <2>2 DEF Freeze
  <2> QED
    BY <2>1, <2>2
<1>6. ASSUME NEW p \in Player, BeamBreaks(p) PROVE MirrorIsKnown'
  BY <1>6 DEF BeamBreaks, world, told
<1>7. ASSUME NEW p \in Player, Leave(p) PROVE MirrorIsKnown'
  BY <1>7 DEF Leave, EndSession, Cleared, world
<1>8. ASSUME NEW p \in Player, Join(p) PROVE MirrorIsKnown'
  BY <1>8 DEF Join, world, hands, told
<1>9. ASSUME NEW p \in Player, Depart(p) PROVE MirrorIsKnown'
  BY <1>9 DEF Depart, EndSession, world
<1>10. ASSUME NEW p \in Player, Arrive(p) PROVE MirrorIsKnown'
  BY <1>10 DEF Arrive, Cleared, world, hands
<1>11. ASSUME NEW p \in Player, Return(p) PROVE MirrorIsKnown'
  BY <1>11 DEF Return, world, hands, told
<1>12. ASSUME NEW p \in Player, NEW x \in Prop, Spawn(p, x) PROVE MirrorIsKnown'
  <2> SUFFICES ASSUME NEW q \in Inside
                PROVE  /\ known'[q] \subseteq {y \in Prop : mirror'[q][y] # Absent}
                       /\ q \notin returned => {y \in Prop : mirror'[q][y] # Absent} \subseteq known'[q]
    BY <1>12 DEF Spawn
  <2>1. pose[x] # Absent
    BY Poses
  <2>2. CASE Distance(q, x) <= Radius
    <3>1. known'[q] = known[q] \cup {x} /\ mirror'[q] = [mirror[q] EXCEPT ![x] = pose[x]]
      BY <1>12, <2>2 DEF Spawn
    <3>2. \A y \in Prop : mirror'[q][y] # Absent <=> (mirror[q][y] # Absent \/ y = x)
      BY <2>1, <3>1
    <3> QED
      BY <3>1, <3>2
  <2>3. CASE ~(Distance(q, x) <= Radius)
    BY <1>12, <2>3 DEF Spawn
  <2> QED
    BY <2>2, <2>3
<1>13. ASSUME NEW p \in Player, NEW x \in Prop, PickUp(p, x) PROVE MirrorIsKnown'
  BY <1>13 DEF PickUp, Despawned, Forgotten
<1>14. ASSUME NEW p \in Player, NEW x \in Prop, Cut(p, x) PROVE MirrorIsKnown'
  BY <1>14 DEF Cut, hands
<1>15. ASSUME NEW p \in Player, NEW x \in Prop, Grab(p, x) PROVE MirrorIsKnown'
  <2>1. \A q \in Player : \A y \in Prop : mirror'[q][y] = Absent <=> mirror[q][y] = Absent
    BY <1>15, ToldIsShown, Poses DEF Grab, Motion
  <2> QED
    BY <1>15, <2>1 DEF Grab
<1>16. ASSUME NEW p \in Player, NEW x \in Prop, Unfreeze(p, x) PROVE MirrorIsKnown'
  <2>1. \A q \in Player : \A y \in Prop : mirror'[q][y] = Absent <=> mirror[q][y] = Absent
    BY <1>16, ToldIsShown, Poses DEF Unfreeze, Motion
  <2> QED
    BY <1>16, <2>1 DEF Unfreeze, hands
<1>17. ASSUME NEW p \in Player, NEW x \in Prop, Mount(p, x) PROVE MirrorIsKnown'
  BY <1>17 DEF Mount, LetGo
<1>18. ASSUME NEW p \in Player, NEW r \in Rope, Tie(p, r) PROVE MirrorIsKnown'
  BY <1>18 DEF Tie, hands
<1>19. ASSUME NEW x \in Prop, Moves(x) PROVE MirrorIsKnown'
  BY <1>19 DEF Moves, hands, told
<1>20. ASSUME NEW x \in Prop, Settles(x) PROVE MirrorIsKnown'
  <2>1. PICK at \in Spot : TellAt(x, Knowers(x), at)
    BY <1>20, Poses DEF Settles
  <2>2. \A q \in Player : \A y \in Prop : mirror'[q][y] = Absent <=> mirror[q][y] = Absent
    BY <2>1, ToldIsShown, Poses DEF Motion
  <2> QED
    BY <1>20, <2>2 DEF Settles, hands
<1>21. ASSUME NEW x \in Prop, Destroy(x) PROVE MirrorIsKnown'
  BY <1>21 DEF Destroy, Despawned, Forgotten, hands
<1>22. ASSUME NEW x \in Prop, MapRemoves(x) PROVE MirrorIsKnown'
  BY <1>22 DEF MapRemoves, Despawned, hands, told
<1>23. ASSUME NEW x \in Prop, MapMoves(x) PROVE MirrorIsKnown'
  BY <1>23 DEF MapMoves, hands
<1>24. CASE UNCHANGED viewVars
  BY <1>24 DEF viewVars, world, hands, told
<1> QED
  BY <1>1, <1>2, <1>3, <1>4, <1>5, <1>6, <1>7, <1>8, <1>9, <1>10, <1>11, <1>12, <1>13, <1>14, <1>15, <1>16, <1>17, <1>18, <1>19, <1>20, <1>21, <1>22, <1>23, <1>24 DEF ViewNext

\* A prop that comes to rest, or whose motion changes, is told to those who know it.
LEMMA RestStep == IInv /\ [ViewNext]_viewVars => RestingPropsAgree'
<1> SUFFICES ASSUME IInv, [ViewNext]_viewVars PROVE RestingPropsAgree'
  OBVIOUS
<1> USE DEF IInv, ViewTypeOK, UnbornIsUnused, OutsideIsBlank, MirrorIsKnown, RestingPropsAgree, Shown, Inside, Knowers, Here
<1>1. ASSUME Replicate PROVE RestingPropsAgree'
  BY <1>1 DEF Replicate, world, hands, Interest, Seen
<1>2. ASSUME NEW p \in Player, Walk(p) PROVE RestingPropsAgree'
  BY <1>2 DEF Walk, world, hands, told
<1>3. ASSUME NEW p \in Player, BeamOn(p) PROVE RestingPropsAgree'
  BY <1>3 DEF BeamOn, world, told
<1>4. ASSUME NEW p \in Player, BeamOff(p) PROVE RestingPropsAgree'
  BY <1>4 DEF BeamOff, LetGo, world
<1>5. ASSUME NEW p \in Player, Freeze(p) PROVE RestingPropsAgree'
  <2>1. CASE held[p] \in Here
    <3>1. /\ TellPose(held[p], Knowers(held[p]), [pose[held[p]] EXCEPT !.motion = "frozen"])
          /\ pose' = [pose EXCEPT ![held[p]] = [pose[held[p]] EXCEPT !.motion = "frozen"]]
          /\ untold' = [q \in Player |-> untold[q] \ {held[p]}]
          /\ UNCHANGED <<life, settled, status, known>>
      BY <1>5, <2>1 DEF Freeze
    <3>2. \A q \in Inside : held[p] \in known[q] => mirror'[q][held[p]] = pose'[held[p]]
      BY <2>1, <3>1 DEF TellPose
    <3>3. \A q \in Inside : \A y \in Prop \ {held[p]} : mirror'[q][y] = mirror[q][y] /\ pose'[y] = pose[y]
      BY <2>1, <3>1 DEF TellPose
    <3>4. ASSUME NEW q \in Inside, NEW y \in (known[q] \cap Here) \ untold'[q]
          PROVE  /\ mirror'[q][y].motion = pose'[y].motion
                 /\ y \in settled \/ pose'[y].motion = "frozen" => mirror'[q][y].at = pose'[y].at
      <4>1. CASE y = held[p]
        BY <3>2, <4>1
      <4>2. CASE y # held[p]
        <5>1. y \in (known[q] \cap Here) \ untold[q]
          BY <3>1, <4>2
        <5> QED
          BY <3>3, <4>2, <5>1
      <4> QED
        BY <4>1, <4>2
    <3> QED
      BY <3>1, <3>4
  <2>2. CASE held[p] \notin Here
    BY <1>5, <2>2 DEF Freeze
  <2> QED
    BY <2>1, <2>2
<1>6. ASSUME NEW p \in Player, BeamBreaks(p) PROVE RestingPropsAgree'
  BY <1>6 DEF BeamBreaks, world, told
<1>7. ASSUME NEW p \in Player, Leave(p) PROVE RestingPropsAgree'
  BY <1>7 DEF Leave, EndSession, Cleared, world
<1>8. ASSUME NEW p \in Player, Join(p) PROVE RestingPropsAgree'
  BY <1>8 DEF Join, world, hands, told
<1>9. ASSUME NEW p \in Player, Depart(p) PROVE RestingPropsAgree'
  BY <1>9 DEF Depart, EndSession, world
<1>10. ASSUME NEW p \in Player, Arrive(p) PROVE RestingPropsAgree'
  BY <1>10 DEF Arrive, Cleared, world, hands
<1>11. ASSUME NEW p \in Player, Return(p) PROVE RestingPropsAgree'
  BY <1>11 DEF Return, world, hands, told
<1>12. ASSUME NEW p \in Player, NEW x \in Prop, Spawn(p, x) PROVE RestingPropsAgree'
  BY <1>12 DEF Spawn, hands
<1>13. ASSUME NEW p \in Player, NEW x \in Prop, PickUp(p, x) PROVE RestingPropsAgree'
  BY <1>13 DEF PickUp, Despawned, Forgotten
<1>14. ASSUME NEW p \in Player, NEW x \in Prop, Cut(p, x) PROVE RestingPropsAgree'
  BY <1>14 DEF Cut, hands
<1>15. ASSUME NEW p \in Player, NEW x \in Prop, Grab(p, x) PROVE RestingPropsAgree'
  BY <1>15 DEF Grab, TellMotion
<1>16. ASSUME NEW p \in Player, NEW x \in Prop, Unfreeze(p, x) PROVE RestingPropsAgree'
  BY <1>16 DEF Unfreeze, hands, TellMotion
<1>17. ASSUME NEW p \in Player, NEW x \in Prop, Mount(p, x) PROVE RestingPropsAgree'
  BY <1>17 DEF Mount, LetGo
<1>18. ASSUME NEW p \in Player, NEW r \in Rope, Tie(p, r) PROVE RestingPropsAgree'
  BY <1>18 DEF Tie, hands
<1>19. ASSUME NEW x \in Prop, Moves(x) PROVE RestingPropsAgree'
  BY <1>19 DEF Moves, hands, told
<1>20. ASSUME NEW x \in Prop, Settles(x) PROVE RestingPropsAgree'
  BY <1>20 DEF Settles, hands, TellAt
<1>21. ASSUME NEW x \in Prop, Destroy(x) PROVE RestingPropsAgree'
  BY <1>21 DEF Destroy, Despawned, Forgotten, hands
<1>22. ASSUME NEW x \in Prop, MapRemoves(x) PROVE RestingPropsAgree'
  BY <1>22 DEF MapRemoves, Despawned, hands, told
<1>23. ASSUME NEW x \in Prop, MapMoves(x) PROVE RestingPropsAgree'
  BY <1>23 DEF MapMoves, hands
<1>24. CASE UNCHANGED viewVars
  BY <1>24 DEF viewVars, world, hands, told
<1> QED
  BY <1>1, <1>2, <1>3, <1>4, <1>5, <1>6, <1>7, <1>8, <1>9, <1>10, <1>11, <1>12, <1>13, <1>14, <1>15, <1>16, <1>17, <1>18, <1>19, <1>20, <1>21, <1>22, <1>23, <1>24 DEF ViewNext

\* A cut reaches every client that shows the rope.
LEMMA ShownStep == IInv /\ [ViewNext]_viewVars => ShownRopesAreTied'
<1> SUFFICES ASSUME IInv, [ViewNext]_viewVars PROVE ShownRopesAreTied'
  OBVIOUS
<1> USE DEF IInv, ViewTypeOK, UnbornIsUnused, RopesHaveEnds, OutsideIsBlank, ShownRopesAreTied, Inside, Knowers, Here
<1>1. ASSUME Replicate PROVE ShownRopesAreTied'
  BY <1>1 DEF Replicate, world, hands, Interest, Dropped
<1>2. ASSUME NEW p \in Player, Walk(p) PROVE ShownRopesAreTied'
  BY <1>2 DEF Walk, world, hands, told
<1>3. ASSUME NEW p \in Player, BeamOn(p) PROVE ShownRopesAreTied'
  BY <1>3 DEF BeamOn, world, told
<1>4. ASSUME NEW p \in Player, BeamOff(p) PROVE ShownRopesAreTied'
  BY <1>4 DEF BeamOff, LetGo, world
<1>5. ASSUME NEW p \in Player, Freeze(p) PROVE ShownRopesAreTied'
  BY <1>5 DEF Freeze, LetGo
<1>6. ASSUME NEW p \in Player, BeamBreaks(p) PROVE ShownRopesAreTied'
  BY <1>6 DEF BeamBreaks, world, told
<1>7. ASSUME NEW p \in Player, Leave(p) PROVE ShownRopesAreTied'
  BY <1>7 DEF Leave, EndSession, Cleared, world
<1>8. ASSUME NEW p \in Player, Join(p) PROVE ShownRopesAreTied'
  BY <1>8 DEF Join, world, hands, told
<1>9. ASSUME NEW p \in Player, Depart(p) PROVE ShownRopesAreTied'
  BY <1>9 DEF Depart, EndSession, world
<1>10. ASSUME NEW p \in Player, Arrive(p) PROVE ShownRopesAreTied'
  BY <1>10 DEF Arrive, Cleared, world, hands
<1>11. ASSUME NEW p \in Player, Return(p) PROVE ShownRopesAreTied'
  BY <1>11 DEF Return, world, hands, told
<1>12. ASSUME NEW p \in Player, NEW x \in Prop, Spawn(p, x) PROVE ShownRopesAreTied'
  BY <1>12 DEF Spawn, hands
<1>13. ASSUME NEW p \in Player, NEW x \in Prop, PickUp(p, x) PROVE ShownRopesAreTied'
  BY <1>13 DEF PickUp, Despawned, Forgotten, Dropped
<1>14. ASSUME NEW p \in Player, NEW x \in Prop, Cut(p, x) PROVE ShownRopesAreTied'
  BY <1>14 DEF Cut, hands
<1>15. ASSUME NEW p \in Player, NEW x \in Prop, Grab(p, x) PROVE ShownRopesAreTied'
  BY <1>15 DEF Grab
<1>16. ASSUME NEW p \in Player, NEW x \in Prop, Unfreeze(p, x) PROVE ShownRopesAreTied'
  BY <1>16 DEF Unfreeze, hands
<1>17. ASSUME NEW p \in Player, NEW x \in Prop, Mount(p, x) PROVE ShownRopesAreTied'
  BY <1>17 DEF Mount, LetGo
<1>18. ASSUME NEW p \in Player, NEW r \in Rope, Tie(p, r) PROVE ShownRopesAreTied'
  BY <1>18 DEF Tie, hands
<1>19. ASSUME NEW x \in Prop, Moves(x) PROVE ShownRopesAreTied'
  BY <1>19 DEF Moves, hands, told
<1>20. ASSUME NEW x \in Prop, Settles(x) PROVE ShownRopesAreTied'
  BY <1>20 DEF Settles, hands
<1>21. ASSUME NEW x \in Prop, Destroy(x) PROVE ShownRopesAreTied'
  BY <1>21 DEF Destroy, Despawned, Forgotten, hands, Dropped
<1>22. ASSUME NEW x \in Prop, MapRemoves(x) PROVE ShownRopesAreTied'
  BY <1>22 DEF MapRemoves, Despawned, hands, told
<1>23. ASSUME NEW x \in Prop, MapMoves(x) PROVE ShownRopesAreTied'
  BY <1>23 DEF MapMoves, hands
<1>24. CASE UNCHANGED viewVars
  BY <1>24 DEF viewVars, world, hands, told
<1> QED
  BY <1>1, <1>2, <1>3, <1>4, <1>5, <1>6, <1>7, <1>8, <1>9, <1>10, <1>11, <1>12, <1>13, <1>14, <1>15, <1>16, <1>17, <1>18, <1>19, <1>20, <1>21, <1>22, <1>23, <1>24 DEF ViewNext

\* Ends that come into a client's interest bring their ropes.
LEMMA RopesStep == IInv /\ [ViewNext]_viewVars => RopesAgree'
<1> SUFFICES ASSUME IInv, [ViewNext]_viewVars PROVE RopesAgree'
  OBVIOUS
<1> USE DEF IInv, ViewTypeOK, UnbornIsUnused, RopesHaveEnds, OutsideIsBlank, ShownRopesAreTied, RopesAgree, Inside, Knowers, Here
<1>1. ASSUME Replicate PROVE RopesAgree'
  BY <1>1 DEF Replicate, world, hands, Interest, Dropped
<1>2. ASSUME NEW p \in Player, Walk(p) PROVE RopesAgree'
  BY <1>2 DEF Walk, world, hands, told
<1>3. ASSUME NEW p \in Player, BeamOn(p) PROVE RopesAgree'
  BY <1>3 DEF BeamOn, world, told
<1>4. ASSUME NEW p \in Player, BeamOff(p) PROVE RopesAgree'
  BY <1>4 DEF BeamOff, LetGo, world
<1>5. ASSUME NEW p \in Player, Freeze(p) PROVE RopesAgree'
  BY <1>5 DEF Freeze, LetGo
<1>6. ASSUME NEW p \in Player, BeamBreaks(p) PROVE RopesAgree'
  BY <1>6 DEF BeamBreaks, world, told
<1>7. ASSUME NEW p \in Player, Leave(p) PROVE RopesAgree'
  BY <1>7 DEF Leave, EndSession, Cleared, world
<1>8. ASSUME NEW p \in Player, Join(p) PROVE RopesAgree'
  BY <1>8 DEF Join, world, hands, told
<1>9. ASSUME NEW p \in Player, Depart(p) PROVE RopesAgree'
  BY <1>9 DEF Depart, EndSession, world
<1>10. ASSUME NEW p \in Player, Arrive(p) PROVE RopesAgree'
  BY <1>10 DEF Arrive, Cleared, world, hands
<1>11. ASSUME NEW p \in Player, Return(p) PROVE RopesAgree'
  BY <1>11 DEF Return, world, hands, told
<1>12. ASSUME NEW p \in Player, NEW x \in Prop, Spawn(p, x) PROVE RopesAgree'
  BY <1>12 DEF Spawn, hands
<1>13. ASSUME NEW p \in Player, NEW x \in Prop, PickUp(p, x) PROVE RopesAgree'
  BY <1>13 DEF PickUp, Despawned, Forgotten, Dropped
<1>14. ASSUME NEW p \in Player, NEW x \in Prop, Cut(p, x) PROVE RopesAgree'
  BY <1>14 DEF Cut, hands
<1>15. ASSUME NEW p \in Player, NEW x \in Prop, Grab(p, x) PROVE RopesAgree'
  BY <1>15 DEF Grab
<1>16. ASSUME NEW p \in Player, NEW x \in Prop, Unfreeze(p, x) PROVE RopesAgree'
  BY <1>16 DEF Unfreeze, hands
<1>17. ASSUME NEW p \in Player, NEW x \in Prop, Mount(p, x) PROVE RopesAgree'
  BY <1>17 DEF Mount, LetGo
<1>18. ASSUME NEW p \in Player, NEW r \in Rope, Tie(p, r) PROVE RopesAgree'
  BY <1>18 DEF Tie, hands
<1>19. ASSUME NEW x \in Prop, Moves(x) PROVE RopesAgree'
  BY <1>19 DEF Moves, hands, told
<1>20. ASSUME NEW x \in Prop, Settles(x) PROVE RopesAgree'
  BY <1>20 DEF Settles, hands
<1>21. ASSUME NEW x \in Prop, Destroy(x) PROVE RopesAgree'
  BY <1>21 DEF Destroy, Despawned, Forgotten, hands, Dropped
<1>22. ASSUME NEW x \in Prop, MapRemoves(x) PROVE RopesAgree'
  BY <1>22 DEF MapRemoves, Despawned, hands, told
<1>23. ASSUME NEW x \in Prop, MapMoves(x) PROVE RopesAgree'
  BY <1>23 DEF MapMoves, hands
<1>24. CASE UNCHANGED viewVars
  BY <1>24 DEF viewVars, world, hands, told
<1> QED
  BY <1>1, <1>2, <1>3, <1>4, <1>5, <1>6, <1>7, <1>8, <1>9, <1>10, <1>11, <1>12, <1>13, <1>14, <1>15, <1>16, <1>17, <1>18, <1>19, <1>20, <1>21, <1>22, <1>23, <1>24 DEF ViewNext

\* The strengthening is inductive.
LEMMA IInvStep == IInv /\ [ViewNext]_viewVars => IInv'
  BY TypeOKStep, UnbornStep, RopesHaveEndsStep, HandsStep, OutsideStep, LatchStep, MirrorStep,
     RestStep, ShownStep, RopesStep DEF IInv

LEMMA Invariance == ViewSpec => []IInv
  BY InitIInv, IInvStep, PTL DEF ViewSpec

\* Types hold in every state.
THEOREM TypeCorrect == ViewSpec => []ViewTypeOK
  BY Invariance, PTL DEF IInv

\* A client shows the props its session knows, whatever spawns, despawns, snapshots
\* and transfers came in between (systems/replication.ts).
THEOREM MirrorsAgree == ViewSpec => []MirrorIsKnown
  BY Invariance, PTL DEF IInv

\* A prop at rest stands where its clients show it (systems/physics.ts onSettle).
THEOREM RestingPropsStand == ViewSpec => []RestingPropsAgree
  BY Invariance, PTL DEF IInv

\* Between props a client knows it shows the ropes there are (broadcastConstraintState).
THEOREM RopesShown == ViewSpec => []RopesAgree
  BY Invariance, PTL DEF IInv

\* A prop is latched while exactly one player holds it (systems/manipulation.ts).
THEOREM OneBeamPerProp == ViewSpec => []LatchIsABeam
  BY Invariance, PTL DEF IInv

===============================================================================
