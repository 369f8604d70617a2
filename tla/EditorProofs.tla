------------------------------- MODULE EditorProofs -------------------------------
(* The map editor: its locks, for every number of editors, objects and      *)
(* connections, and its saves, for every number of admins and edits. An     *)
(* editor that believes it holds a lock the server gave to nobody or        *)
(* somebody else will hear of it, and no lock outlives its lease; a saved   *)
(* edit and unsaved work are lost only where saves, edits and polls cross;  *)
(* and its undo history, for every document and whatever comes in the       *)
(* middle of a gesture: undo is an exact inverse.                           *)
EXTENDS EditorLocks, EditorHistory, EditorSaves, NaturalsInduction, WellFoundedInduction,
        SequenceTheorems, FiniteSetTheorems, TLAPS

---------------------------------------------------------------------------
(* The inductive invariant *)

\* LocksTypeOK, with the channels as sequences.
LocksTypes ==
  /\ up \in [Peer -> Seq(UpMessage)]
  /\ down \in [Peer -> Seq(DownMessage)]
  /\ status \in [Peer -> {"unused", "hello", "authorizing", "in", "gone"}]
  /\ locks \in [Obj -> Peer \cup {NoPeer}]
  /\ beats \in [Peer -> {"none", "fresh", "stale"}]
  /\ socket \in [Editor -> Peer \cup {NoPeer}]
  /\ myPeerId \in [Editor -> Peer \cup {NoPeer}]
  /\ owners \in [Editor -> [Obj -> Peer \cup {NoPeer}]]
  /\ state \in [Editor -> {"unlocked", "pending", "owned", "denied", "lost"}]
  /\ held \in [Editor -> Ids]
  /\ pending \in [Editor -> [ids : Ids, then : Ids]]
  /\ wanted \in [Editor -> Ids]
  /\ unarbitrated \subseteq Editor

\* A connection has one editor, and is not used again.
SocketsAreOwn == \A e \in Editor : socket[e] # NoPeer =>
  /\ status[socket[e]] # "unused"
  /\ \A d \in Editor : socket[d] = socket[e] => d = e

\* After message i of s there comes a lock table in which o is not p's.
Told(s, i, o, p) == \E j \in i + 1 .. Len(s) : s[j].t = "lockState" /\ s[j].owners[o] # p

\* Whoever believes in have hears of what the table does not give it.
Believed(s, i, p, table, have) == \A o \in have : table[o] = p \/ Told(s, i, o, p)

\* And so does whoever comes to believe a grant that is still on its way.
GrantsHold(s, p, table) ==
  \A i \in 1 .. Len(s) : s[i].t = "lockResult" /\ s[i].granted => Believed(s, i, p, table, s[i].ids)

\* What an admitted editor has been sent covers what it believes, and it knows its own name
\* before it reads a lock table.
EditorsFollow == \A e \in Editor : socket[e] # NoPeer /\ status[socket[e]] = "in" =>
  /\ GrantsHold(down[socket[e]], socket[e], locks)
  /\ state[e] = "owned" => Believed(down[socket[e]], 0, socket[e], locks, held[e])
  /\ \/ myPeerId[e] = socket[e]
     \/ down[socket[e]] # <<>> /\ Head(down[socket[e]]).t = "welcome"

IInv == LocksTypes /\ SocketsAreOwn /\ NoGhostLock /\ EditorsFollow

---------------------------------------------------------------------------
(* Messages *)

LEMMA PeersAreNumbers == Peer \subseteq Nat \ {NoPeer}
BY LockAssumptions DEF Peer, NoPeer

LEMMA DownFields ==
  ASSUME NEW m \in DownMessage
  PROVE  /\ m.t \in {"welcome", "lockResult", "lockState"}
         /\ m.t = "lockResult" => m.ids \in Ids /\ m.granted \in BOOLEAN
         /\ m.t = "lockState" => m.owners \in [Obj -> Peer \cup {NoPeer}]
BY DEF DownMessage

LEMMA UpFields ==
  ASSUME NEW m \in UpMessage
  PROVE  m.t \in {"lockRequest", "lockRelease"} => m.ids \in Ids
BY DEF UpMessage

LEMMA HeadIsFirst ==
  ASSUME NEW S, NEW s \in Seq(S), s # <<>>
  PROVE  /\ Head(s) = s[1] /\ Head(s) \in S /\ 1 \in 1 .. Len(s)
         /\ Tail(s) \in Seq(S) /\ Len(Tail(s)) = Len(s) - 1 /\ Len(s) \in Nat
         /\ \A i \in 1 .. Len(s) - 1 : Tail(s)[i] = s[i + 1]
BY HeadTailProperties

LEMMA TableIsMessage ==
  ASSUME NEW table \in [Obj -> Peer \cup {NoPeer}], NEW present
  PROVE  /\ LockState(table, present) \in DownMessage
         /\ LockState(table, present).t = "lockState"
         /\ \A p \in Peer, o \in Obj : table[o] # p => LockState(table, present).owners[o] # p
BY PeersAreNumbers DEF LockState, DownMessage

\* A table appended covers everything, whatever was believed.
LEMMA TableCovers ==
  ASSUME NEW s \in Seq(DownMessage), NEW p \in Peer, NEW present,
         NEW table \in [Obj -> Peer \cup {NoPeer}]
  PROVE  LET r == Append(s, LockState(table, present)) IN
         /\ GrantsHold(r, p, table)
         /\ \A have \in Ids : Believed(r, 0, p, table, have)
<1> DEFINE m == LockState(table, present)
           r == Append(s, m)
<1>1. /\ m \in DownMessage /\ m.t = "lockState"
      /\ \A o \in Obj : table[o] # p => m.owners[o] # p
  BY TableIsMessage
<1> HIDE DEF m
<1>2. /\ r \in Seq(DownMessage) /\ Len(r) = Len(s) + 1 /\ Len(s) \in Nat
      /\ r[Len(s) + 1] = m /\ \A i \in 1 .. Len(s) : r[i] = s[i] /\ s[i] \in DownMessage
  BY <1>1
<1> HIDE DEF r
<1>3. ASSUME NEW i \in 0 .. Len(s), NEW have \in Ids
      PROVE  Believed(r, i, p, table, have)
  BY <1>1, <1>2 DEF Believed, Told, Ids
<1>4. GrantsHold(r, p, table)
  <2> SUFFICES ASSUME NEW i \in 1 .. Len(r), r[i].t = "lockResult"
               PROVE  Believed(r, i, p, table, r[i].ids)
    BY DEF GrantsHold
  <2>1. i # Len(s) + 1
    BY <1>1, <1>2
  <2>2. i \in 1 .. Len(s) /\ r[i] \in DownMessage
    BY <1>2, <2>1
  <2> QED BY <1>3, <2>2, DownFields
<1>5. \A have \in Ids : Believed(r, 0, p, table, have)
  BY <1>2, <1>3
<1> QED BY <1>4, <1>5 DEF r, m

\* The answer to a request, when what it grants is in the table.
LEMMA AnswerCovers ==
  ASSUME NEW s \in Seq(DownMessage), NEW p \in Peer, NEW table, NEW m \in DownMessage,
         m.t = "lockResult" /\ m.granted => \A o \in m.ids : table[o] = p,
         GrantsHold(s, p, table), NEW have
  PROVE  /\ GrantsHold(Append(s, m), p, table)
         /\ Believed(s, 0, p, table, have) => Believed(Append(s, m), 0, p, table, have)
<1> DEFINE r == Append(s, m)
<1>1. /\ Len(r) = Len(s) + 1 /\ Len(s) \in Nat
      /\ r[Len(s) + 1] = m /\ \A i \in 1 .. Len(s) : r[i] = s[i]
  OBVIOUS
<1> HIDE DEF r
<1>2. ASSUME NEW i \in 0 .. Len(s), NEW some, Believed(s, i, p, table, some)
      PROVE  Believed(r, i, p, table, some)
  <2> SUFFICES ASSUME NEW o \in some, Told(s, i, o, p)
               PROVE  Told(r, i, o, p)
    BY <1>2 DEF Believed
  <2>1. PICK j \in i + 1 .. Len(s) : s[j].t = "lockState" /\ s[j].owners[o] # p
    BY DEF Told
  <2>2. j \in i + 1 .. Len(r) /\ r[j] = s[j]
    BY <1>1
  <2> QED BY <2>1, <2>2 DEF Told
<1>3. GrantsHold(r, p, table)
  <2> SUFFICES ASSUME NEW i \in 1 .. Len(r), r[i].t = "lockResult", r[i].granted
               PROVE  Believed(r, i, p, table, r[i].ids)
    BY DEF GrantsHold
  <2>1. CASE i = Len(s) + 1
    BY <1>1, <2>1 DEF Believed
  <2>2. CASE i \in 1 .. Len(s)
    <3>1. Believed(s, i, p, table, s[i].ids)
      BY <1>1, <2>2 DEF GrantsHold
    <3> QED BY <1>1, <1>2, <2>2, <3>1
  <2> QED BY <1>1, <2>1, <2>2
<1>4. Believed(s, 0, p, table, have) => Believed(r, 0, p, table, have)
  BY <1>1, <1>2
<1> QED BY <1>3, <1>4 DEF r

\* A message is read: the rest still covers what its first did not contradict.
LEMMA RestCovers ==
  ASSUME NEW s \in Seq(DownMessage), s # <<>>, NEW p \in Peer, NEW table, NEW have
  PROVE  /\ GrantsHold(s, p, table) => GrantsHold(Tail(s), p, table)
         /\ Believed(s, 1, p, table, have) => Believed(Tail(s), 0, p, table, have)
         /\ /\ Believed(s, 0, p, table, have)
            /\ Head(s).t = "lockState" => \A o \in have : Head(s).owners[o] = p
            => Believed(Tail(s), 0, p, table, have)
<1> DEFINE r == Tail(s)
<1>1. /\ Head(s) = s[1] /\ Len(r) = Len(s) - 1 /\ Len(s) \in Nat \ {0}
      /\ \A i \in 1 .. Len(s) - 1 : r[i] = s[i + 1]
  BY HeadIsFirst
<1> HIDE DEF r
<1>2. ASSUME NEW i \in 1 .. Len(s), NEW some, Believed(s, i, p, table, some)
      PROVE  Believed(r, i - 1, p, table, some)
  <2> SUFFICES ASSUME NEW o \in some, Told(s, i, o, p)
               PROVE  Told(r, i - 1, o, p)
    BY <1>2 DEF Believed
  <2>1. PICK j \in i + 1 .. Len(s) : s[j].t = "lockState" /\ s[j].owners[o] # p
    BY DEF Told
  <2>2. j - 1 \in (i - 1) + 1 .. Len(r) /\ r[j - 1] = s[j]
    <3>1. j - 1 \in 1 .. Len(s) - 1 /\ (j - 1) + 1 = j
      BY <1>1
    <3> QED BY <1>1, <3>1
  <2> QED BY <2>1, <2>2 DEF Told
<1>3. GrantsHold(s, p, table) => GrantsHold(r, p, table)
  <2> SUFFICES ASSUME GrantsHold(s, p, table), NEW i \in 1 .. Len(r), r[i].t = "lockResult", r[i].granted
               PROVE  Believed(r, i, p, table, r[i].ids)
    BY DEF GrantsHold
  <2>1. i + 1 \in 1 .. Len(s) /\ r[i] = s[i + 1] /\ (i + 1) - 1 = i
    BY <1>1
  <2>2. Believed(s, i + 1, p, table, s[i + 1].ids)
    BY <2>1 DEF GrantsHold
  <2> QED BY <1>2, <2>1, <2>2
<1>4. Believed(s, 1, p, table, have) => Believed(r, 0, p, table, have)
  BY <1>1, <1>2
<1>5. ASSUME Believed(s, 0, p, table, have),
             Head(s).t = "lockState" => \A o \in have : Head(s).owners[o] = p
      PROVE  Believed(s, 1, p, table, have)
  <2> SUFFICES ASSUME NEW o \in have, Told(s, 0, o, p)
               PROVE  Told(s, 1, o, p)
    BY <1>5 DEF Believed
  <2>1. PICK j \in 0 + 1 .. Len(s) : s[j].t = "lockState" /\ s[j].owners[o] # p
    BY DEF Told
  <2>2. j # 1
    BY <1>1, <1>5, <2>1
  <2>3. j \in 1 + 1 .. Len(s)
    BY <1>1, <2>2
  <2> QED BY <2>1, <2>3 DEF Told
<1> QED BY <1>3, <1>4, <1>5 DEF r

LEMMA ReceivedTypes ==
  ASSUME LocksTypes, NEW p \in Peer, NEW t, Received(p, t)
  PROVE  /\ up' \in [Peer -> Seq(UpMessage)]
         /\ Head(up[p]) \in UpMessage /\ Head(up[p]).t = t
BY HeadIsFirst DEF LocksTypes, Received

---------------------------------------------------------------------------
(* The server's steps *)

\* The lock table is sent to everybody who is in: whatever was believed is covered.
LEMMA BroadcastFollows ==
  ASSUME NEW channel \in [Peer -> Seq(DownMessage)], NEW table \in [Obj -> Peer \cup {NoPeer}],
         NEW present, NEW authed,
         socket \in [Editor -> Peer \cup {NoPeer}], held \in [Editor -> Ids],
         down' = Broadcast(channel, table, present, authed), locks' = table,
         UNCHANGED <<socket, controller>>,
         \A e \in Editor : socket[e] # NoPeer /\ status'[socket[e]] = "in" =>
           /\ socket[e] \in authed
           /\ myPeerId[e] = socket[e] \/ (channel[socket[e]] # <<>> /\ Head(channel[socket[e]]).t = "welcome")
  PROVE  EditorsFollow' /\ down' \in [Peer -> Seq(DownMessage)]
<1> DEFINE m == LockState(table, present)
<1>1. m \in DownMessage
  BY TableIsMessage
<1>2. down' \in [Peer -> Seq(DownMessage)]
  <2> HIDE DEF m
  <2>1. \A s \in Seq(DownMessage) : Append(s, m) \in Seq(DownMessage)
    BY <1>1
  <2>2. down' = [p \in Peer |-> IF p \in authed /\ Connected(p) THEN Append(channel[p], m) ELSE channel[p]]
    BY DEF Broadcast, m
  <2> QED BY <2>1, <2>2
<1>3. EditorsFollow'
  <2> SUFFICES ASSUME NEW e \in Editor, socket[e] # NoPeer, status'[socket[e]] = "in"
               PROVE  /\ GrantsHold(down'[socket[e]], socket[e], table)
                      /\ Believed(down'[socket[e]], 0, socket[e], table, held[e])
                      /\ \/ myPeerId[e] = socket[e]
                         \/ down'[socket[e]] # <<>> /\ Head(down'[socket[e]]).t = "welcome"
    BY DEF EditorsFollow, controller
  <2> DEFINE p == socket[e]
             r == Append(channel[p], m)
  <2>1. p \in Peer /\ held[e] \in Ids /\ channel[p] \in Seq(DownMessage)
    OBVIOUS
  <2>2. down'[p] = r
    BY <2>1 DEF Broadcast, Connected
  <2>3. GrantsHold(r, p, table) /\ Believed(r, 0, p, table, held[e])
    BY <2>1, TableCovers
  <2>4. channel[p] # <<>> => r # <<>> /\ Head(r) = Head(channel[p])
    <3> HIDE DEF m
    <3> QED BY <1>1, <2>1, HeadTailAppend
  <2> QED BY <2>2, <2>3, <2>4
<1> QED BY <1>2, <1>3

\* A step that leaves the lock table, what was sent and the editors alone.
LEMMA NothingTold ==
  ASSUME IInv, UNCHANGED <<down, locks, socket, controller>>,
         \A e \in Editor : socket[e] # NoPeer /\ status'[socket[e]] = "in" => status[socket[e]] = "in"
  PROVE  EditorsFollow'
BY DEF IInv, EditorsFollow, controller

LEMMA ReleaseIsTable ==
  ASSUME LocksTypes, NEW p \in Peer, NEW ids
  PROVE  /\ Release(locks, p, ids) \in [Obj -> Peer \cup {NoPeer}]
         /\ \A o \in Obj : Release(locks, p, ids)[o] \in {locks[o], NoPeer}
         /\ \A o \in Obj \cap ids : Release(locks, p, ids)[o] # p
BY PeersAreNumbers DEF LocksTypes, Release

LEMMA DropPeerHolds ==
  ASSUME IInv, NEW p \in Peer, DropPeer(p), up' \in [Peer -> Seq(UpMessage)], ServerUnchanged
  PROVE  IInv'
<1> DEFINE table == Release(locks, p, Obj)
<1>1. LocksTypes /\ NoGhostLock /\ SocketsAreOwn
  BY DEF IInv
<1>2. table \in [Obj -> Peer \cup {NoPeer}] /\ locks' = table
  BY <1>1, ReleaseIsTable DEF DropPeer
<1>3. /\ status' \in [Peer -> {"unused", "hello", "authorizing", "in", "gone"}]
      /\ status'[p] = "gone" /\ \A q \in Peer : q # p => status'[q] = status[q]
  BY <1>1 DEF DropPeer, LocksTypes
<1>4. /\ beats' \in [Peer -> {"none", "fresh", "stale"}]
      /\ \A q \in Peer : q # p => beats'[q] = beats[q]
  BY <1>1 DEF DropPeer, LocksTypes
<1>5. EditorsFollow' /\ down' \in [Peer -> Seq(DownMessage)]
  <2>1. CASE OwnedBy(p) = {}
    <3>1. table = locks
      BY <1>1, <2>1 DEF OwnedBy, Release, LocksTypes
    <3>2. UNCHANGED <<down, locks, socket, controller>>
      BY <1>2, <2>1, <3>1 DEF DropPeer, ServerUnchanged
    <3>3. \A e \in Editor : socket[e] # NoPeer /\ status'[socket[e]] = "in" => status[socket[e]] = "in"
      BY <1>1, <1>3 DEF LocksTypes
    <3> QED BY <1>1, <3>2, <3>3, NothingTold DEF LocksTypes
  <2>2. CASE OwnedBy(p) # {}
    <3>1. down' = Broadcast(down, table, Present \ {p}, Authed \ {p})
      BY <2>2 DEF DropPeer
    <3>2. \A e \in Editor : socket[e] # NoPeer /\ status'[socket[e]] = "in" =>
           /\ socket[e] \in Authed \ {p}
           /\ myPeerId[e] = socket[e] \/ (down[socket[e]] # <<>> /\ Head(down[socket[e]]).t = "welcome")
      BY <1>1, <1>3 DEF LocksTypes, Authed, IInv, EditorsFollow
    <3> QED BY <1>1, <1>2, <3>1, <3>2, BroadcastFollows DEF LocksTypes, ServerUnchanged
  <2> QED BY <2>1, <2>2
<1>6. NoGhostLock'
  BY <1>1, <1>2, <1>3, <1>4, ReleaseIsTable DEF NoGhostLock, Authed, LocksTypes
<1>7. SocketsAreOwn'
  BY <1>1, <1>3 DEF SocketsAreOwn, ServerUnchanged, LocksTypes
<1>8. LocksTypes'
  BY <1>1, <1>2, <1>3, <1>4, <1>5 DEF LocksTypes, ServerUnchanged, controller
<1> QED BY <1>5, <1>6, <1>7, <1>8 DEF IInv

LEMMA HelloHolds ==
  ASSUME IInv, NEW p \in Peer, HelloArrives(p)
  PROVE  IInv'
<1>1. up' \in [Peer -> Seq(UpMessage)]
  BY ReceivedTypes DEF HelloArrives, IInv
<1>2. LocksTypes'
  BY <1>1 DEF IInv, LocksTypes, HelloArrives, ServerUnchanged, controller
<1>3. SocketsAreOwn' /\ NoGhostLock'
  BY DEF IInv, LocksTypes, SocketsAreOwn, NoGhostLock, Authed, HelloArrives, ServerUnchanged
<1>4. EditorsFollow'
  BY NothingTold DEF IInv, LocksTypes, HelloArrives, ServerUnchanged
<1> QED BY <1>2, <1>3, <1>4 DEF IInv

\* An editor that is let in is sent its welcome and the lock table.
LEMMA AuthorizedHolds ==
  ASSUME IInv, NEW p \in Peer, Authorized(p)
  PROVE  IInv'
<1> DEFINE m == LockState(locks, Present)
           w == [t |-> "welcome"]
           s == <<w, m>>
<1>1. m \in DownMessage /\ w \in DownMessage
  BY TableIsMessage DEF IInv, LocksTypes, DownMessage
<1>2. /\ down \in [Peer -> Seq(DownMessage)] /\ status \in [Peer -> {"unused", "hello", "authorizing", "in", "gone"}]
      /\ UNCHANGED <<locks, socket, controller>>
  BY DEF IInv, LocksTypes, Authorized, ServerUnchanged
<1>3. /\ \A q \in Peer \ {p} : down'[q] = down[q] /\ status'[q] = status[q]
      /\ down' = [down EXCEPT ![p] = IF Connected(p) THEN s ELSE <<>>]
      /\ status[p] = "authorizing" /\ status' = [status EXCEPT ![p] = "in"]
  BY <1>2 DEF Authorized
<1>4. s \in Seq(DownMessage) /\ s = Append(<<w>>, m) /\ <<w>> \in Seq(DownMessage)
      /\ s # <<>> /\ Head(s) = w
  <2> HIDE DEF m, w
  <2> QED BY <1>1
<1>5. GrantsHold(s, p, locks) /\ \A have \in Ids : Believed(s, 0, p, locks, have)
  <2>1. PICK first \in Seq(DownMessage) : s = Append(first, LockState(locks, Present))
    BY <1>4
  <2>2. locks \in [Obj -> Peer \cup {NoPeer}]
    BY DEF IInv, LocksTypes
  <2> HIDE DEF s
  <2> QED BY <2>1, <2>2, TableCovers
<1> HIDE DEF s
<1>6. LocksTypes'
  BY <1>2, <1>3, <1>4 DEF IInv, LocksTypes, Authorized, ServerUnchanged, controller
<1>7. SocketsAreOwn' /\ NoGhostLock'
  BY DEF IInv, LocksTypes, SocketsAreOwn, NoGhostLock, Authed, Authorized, ServerUnchanged
<1>8. EditorsFollow'
  <2> SUFFICES ASSUME NEW e \in Editor, socket[e] # NoPeer, status'[socket[e]] = "in"
               PROVE  /\ GrantsHold(down'[socket[e]], socket[e], locks)
                      /\ state[e] = "owned" => Believed(down'[socket[e]], 0, socket[e], locks, held[e])
                      /\ \/ myPeerId[e] = socket[e]
                         \/ down'[socket[e]] # <<>> /\ Head(down'[socket[e]]).t = "welcome"
    BY <1>2 DEF EditorsFollow, controller
  <2>1. socket[e] \in Peer /\ held[e] \in Ids
    BY DEF IInv, LocksTypes
  <2>2. CASE socket[e] = p
    <3>1. Connected(p)
      BY <2>2 DEF Connected
    <3>2. down'[p] = s
      BY <1>2, <1>3, <3>1
    <3> QED BY <1>4, <1>5, <2>1, <2>2, <3>2
  <2>3. CASE socket[e] # p
    BY <1>2, <1>3, <2>1, <2>3 DEF IInv, EditorsFollow
  <2> QED BY <2>2, <2>3
<1> QED BY <1>6, <1>7, <1>8 DEF IInv

LEMMA RefuseHolds ==
  ASSUME IInv, NEW p \in Peer, Refuse(p)
  PROVE  IInv'
<1>1. up' \in [Peer -> Seq(UpMessage)]
  BY ReceivedTypes DEF Refuse, IInv, LocksTypes
<1> QED BY <1>1, DropPeerHolds DEF Refuse

LEMMA RequestHolds ==
  ASSUME IInv, NEW p \in Peer, LockRequest(p)
  PROVE  IInv'
<1>1. LocksTypes /\ NoGhostLock /\ SocketsAreOwn /\ EditorsFollow
  BY DEF IInv
<1>2. PICK ids \in Ids : Acquire(p, ids)
  BY <1>1, ReceivedTypes, UpFields DEF LockRequest
<1>3. /\ status[p] = "in" /\ UNCHANGED <<status, socket, controller, wanted, unarbitrated>>
      /\ up' \in [Peer -> Seq(UpMessage)]
      /\ beats' \in [Peer -> {"none", "fresh", "stale"}]
      /\ beats'[p] = "fresh" /\ \A q \in Peer : q # p => beats'[q] = beats[q]
  BY <1>1, ReceivedTypes DEF LockRequest, ServerUnchanged, LocksTypes
<1> DEFINE granted == \A o \in ids : locks[o] \in {NoPeer, p}
           m == [t |-> "lockResult", granted |-> granted, ids |-> ids]
           answered == IF ~Connected(p) THEN down ELSE [down EXCEPT ![p] = Append(@, m)]
           taken == [o \in Obj |-> IF o \in ids THEN p ELSE locks[o]]
<1>4. m \in DownMessage /\ m.t = "lockResult" /\ m.ids = ids /\ m.granted = granted
  BY DEF DownMessage
<1>5. /\ locks' = IF granted THEN taken ELSE locks
      /\ down' = IF granted THEN Broadcast(answered, taken, Present, Authed) ELSE answered
  BY <1>2 DEF Acquire
<1>6. taken \in [Obj -> Peer \cup {NoPeer}]
  BY <1>1 DEF LocksTypes
<1> HIDE DEF m
<1>7. /\ answered \in [Peer -> Seq(DownMessage)]
      /\ \A q \in Peer : q # p => answered[q] = down[q]
      /\ answered[p] \in {down[p], Append(down[p], m)}
      /\ down[p] # <<>> => answered[p] # <<>> /\ Head(answered[p]) = Head(down[p])
  <2>1. down \in [Peer -> Seq(DownMessage)]
    BY <1>1 DEF LocksTypes
  <2>2. Append(down[p], m) \in Seq(DownMessage)
    BY <1>4, <2>1
  <2>3. down[p] # <<>> => Append(down[p], m) # <<>> /\ Head(Append(down[p], m)) = Head(down[p])
    BY <1>4, <2>1, HeadTailAppend
  <2> QED BY <2>1, <2>2, <2>3
<1> HIDE DEF answered, taken
<1>8. EditorsFollow' /\ down' \in [Peer -> Seq(DownMessage)]
  <2>1. CASE granted
    <3>1. locks' = taken /\ down' = Broadcast(answered, taken, Present, Authed)
      BY <1>5, <2>1
    <3>2. \A e \in Editor : socket[e] # NoPeer /\ status'[socket[e]] = "in" =>
           /\ socket[e] \in Authed
           /\ myPeerId[e] = socket[e] \/ (answered[socket[e]] # <<>> /\ Head(answered[socket[e]]).t = "welcome")
      <4> SUFFICES ASSUME NEW e \in Editor, socket[e] # NoPeer, status'[socket[e]] = "in"
                   PROVE  /\ socket[e] \in Authed
                          /\ \/ myPeerId[e] = socket[e]
                             \/ answered[socket[e]] # <<>> /\ Head(answered[socket[e]]).t = "welcome"
        OBVIOUS
      <4>1. socket[e] \in Peer /\ status[socket[e]] = "in"
        BY <1>1, <1>3 DEF LocksTypes
      <4>2. myPeerId[e] = socket[e] \/ (down[socket[e]] # <<>> /\ Head(down[socket[e]]).t = "welcome")
        BY <1>1, <4>1 DEF EditorsFollow
      <4>3. CASE socket[e] = p
        BY <1>7, <4>1, <4>2, <4>3 DEF Authed
      <4>4. CASE socket[e] # p
        BY <1>7, <4>1, <4>2, <4>4 DEF Authed
      <4> QED BY <4>3, <4>4
    <3>3. /\ socket \in [Editor -> Peer \cup {NoPeer}] /\ held \in [Editor -> Ids]
          /\ UNCHANGED <<socket, controller>> /\ answered \in [Peer -> Seq(DownMessage)]
      BY <1>1, <1>3, <1>7 DEF LocksTypes
    <3> QED BY <1>6, <3>1, <3>2, <3>3, BroadcastFollows
  <2>2. CASE ~granted
    <3>1. locks' = locks /\ down' = answered
      BY <1>5, <2>2
    <3> SUFFICES ASSUME NEW e \in Editor, socket[e] # NoPeer, status[socket[e]] = "in"
                 PROVE  /\ GrantsHold(answered[socket[e]], socket[e], locks)
                        /\ state[e] = "owned" => Believed(answered[socket[e]], 0, socket[e], locks, held[e])
                        /\ \/ myPeerId[e] = socket[e]
                           \/ answered[socket[e]] # <<>> /\ Head(answered[socket[e]]).t = "welcome"
      BY <1>3, <1>7, <3>1 DEF EditorsFollow, controller
    <3> DEFINE q == socket[e]
    <3>2. /\ GrantsHold(down[q], q, locks)
          /\ state[e] = "owned" => Believed(down[q], 0, q, locks, held[e])
          /\ myPeerId[e] = q \/ (down[q] # <<>> /\ Head(down[q]).t = "welcome")
      BY <1>1 DEF EditorsFollow
    <3>3. q \in Peer /\ down[q] \in Seq(DownMessage)
      BY <1>1 DEF LocksTypes
    <3>4. CASE answered[q] = down[q]
      BY <3>2, <3>4
    <3>5. CASE q = p /\ answered[q] = Append(down[q], m)
      <4>1. ~m.granted
        BY <1>4, <2>2
      <4>2. /\ GrantsHold(answered[q], q, locks)
            /\ Believed(down[q], 0, q, locks, held[e]) => Believed(answered[q], 0, q, locks, held[e])
        <5>1. m.t = "lockResult" /\ m.granted => \A o \in m.ids : locks[o] = q
          BY <4>1
        <5>2. m \in DownMessage /\ GrantsHold(down[q], q, locks)
          BY <1>4, <3>2
        <5> HIDE DEF q
        <5> QED BY <3>3, <3>5, <5>1, <5>2, AnswerCovers
      <4> QED BY <1>7, <3>2, <3>5, <4>2
    <3> QED BY <1>7, <3>3, <3>4, <3>5
  <2> QED BY <2>1, <2>2
<1>9. locks' \in [Obj -> Peer \cup {NoPeer}] /\ \A o \in Obj : locks'[o] \in {locks[o], p}
  BY <1>1, <1>5, <1>6 DEF LocksTypes, taken
<1>10. NoGhostLock'
  BY <1>1, <1>3, <1>9 DEF NoGhostLock, Authed, LocksTypes
<1>11. SocketsAreOwn'
  BY <1>1, <1>3 DEF SocketsAreOwn
<1>12. LocksTypes'
  BY <1>1, <1>3, <1>8, <1>9 DEF LocksTypes, controller
<1> QED BY <1>8, <1>10, <1>11, <1>12 DEF IInv

LEMMA ReleaseHolds ==
  ASSUME IInv, NEW p \in Peer, LockRelease(p)
  PROVE  IInv'
<1>1. LocksTypes /\ NoGhostLock /\ SocketsAreOwn /\ EditorsFollow
  BY DEF IInv
<1>2. PICK ids : locks' = Release(locks, p, ids)
  BY DEF LockRelease
<1>3. /\ status[p] = "in" /\ UNCHANGED <<status, socket, controller, wanted, unarbitrated>>
      /\ up' \in [Peer -> Seq(UpMessage)]
      /\ beats' \in [Peer -> {"none", "fresh", "stale"}]
      /\ beats'[p] = "fresh" /\ \A q \in Peer : q # p => beats'[q] = beats[q]
      /\ down' = Broadcast(down, locks', Present, Authed)
  BY <1>1, ReceivedTypes DEF LockRelease, ServerUnchanged, LocksTypes
<1>4. locks' \in [Obj -> Peer \cup {NoPeer}] /\ \A o \in Obj : locks'[o] \in {locks[o], NoPeer}
  BY <1>1, <1>2, ReleaseIsTable
<1>5. PICK table \in [Obj -> Peer \cup {NoPeer}] : table = locks'
  BY <1>4
<1>6. EditorsFollow' /\ down' \in [Peer -> Seq(DownMessage)]
  <2>1. \A e \in Editor : socket[e] # NoPeer /\ status'[socket[e]] = "in" =>
         /\ socket[e] \in Authed
         /\ myPeerId[e] = socket[e] \/ (down[socket[e]] # <<>> /\ Head(down[socket[e]]).t = "welcome")
    BY <1>1, <1>3 DEF EditorsFollow, LocksTypes, Authed
  <2>2. down' = Broadcast(down, table, Present, Authed)
    BY <1>5 DEF LockRelease
  <2>3. /\ socket \in [Editor -> Peer \cup {NoPeer}] /\ held \in [Editor -> Ids]
        /\ UNCHANGED <<socket, controller>> /\ down \in [Peer -> Seq(DownMessage)]
    BY <1>1, <1>3 DEF LocksTypes
  <2> QED BY <1>5, <2>1, <2>2, <2>3, BroadcastFollows
<1>7. NoGhostLock'
  BY <1>1, <1>3, <1>4 DEF NoGhostLock, Authed, LocksTypes
<1>8. SocketsAreOwn'
  BY <1>1, <1>3 DEF SocketsAreOwn
<1>9. LocksTypes'
  BY <1>1, <1>3, <1>4, <1>6 DEF LocksTypes, controller
<1> QED BY <1>6, <1>7, <1>8, <1>9 DEF IInv

LEMMA LeaseStepHolds ==
  ASSUME IInv, NEW p \in Peer, Heartbeat(p) \/ Lapse(p)
  PROVE  IInv'
<1>1. /\ up' \in [Peer -> Seq(UpMessage)]
      /\ UNCHANGED <<down, status, locks, socket, controller, wanted, unarbitrated>>
      /\ beats' \in [Peer -> {"none", "fresh", "stale"}]
      /\ \A q \in Peer : beats'[q] = "none" => beats[q] = "none"
  BY ReceivedTypes DEF IInv, LocksTypes, Heartbeat, Lapse, ServerUnchanged, channels
<1>2. LocksTypes' /\ SocketsAreOwn' /\ NoGhostLock'
  BY <1>1 DEF IInv, LocksTypes, SocketsAreOwn, NoGhostLock, Authed, controller
<1>3. EditorsFollow'
  BY <1>1, NothingTold
<1> QED BY <1>2, <1>3 DEF IInv

LEMMA SweepHolds ==
  ASSUME IInv, Sweep
  PROVE  IInv'
<1>1. LocksTypes /\ NoGhostLock /\ SocketsAreOwn /\ EditorsFollow
  BY DEF IInv
<1>2. /\ locks' \in [Obj -> Peer \cup {NoPeer}]
      /\ \A o \in Obj : locks'[o] = NoPeer \/ (locks'[o] = locks[o] /\ locks[o] \notin Lapsed)
  BY <1>1 DEF Sweep, LocksAfterSweep, LocksTypes
<1>3. /\ UNCHANGED <<up, status, socket, controller, wanted, unarbitrated>>
      /\ beats' \in [Peer -> {"none", "fresh", "stale"}]
      /\ \A q \in Peer \ Lapsed : beats'[q] = beats[q]
  BY <1>1 DEF Sweep, ServerUnchanged, LocksTypes
<1>4. PICK table \in [Obj -> Peer \cup {NoPeer}] : table = locks'
  BY <1>2
<1>5. EditorsFollow' /\ down' \in [Peer -> Seq(DownMessage)]
  <2>1. CASE locks' = locks
    <3>1. UNCHANGED <<down, locks, socket, controller>>
      BY <1>3, <2>1 DEF Sweep
    <3> QED BY <1>1, <1>3, <3>1, NothingTold DEF LocksTypes
  <2>2. CASE locks' # locks
    <3>1. down' = Broadcast(down, table, Present, Authed)
      BY <1>4, <2>2 DEF Sweep
    <3>2. \A e \in Editor : socket[e] # NoPeer /\ status'[socket[e]] = "in" =>
         /\ socket[e] \in Authed
         /\ myPeerId[e] = socket[e] \/ (down[socket[e]] # <<>> /\ Head(down[socket[e]]).t = "welcome")
      BY <1>1, <1>3 DEF EditorsFollow, LocksTypes, Authed
    <3> QED BY <1>1, <1>3, <1>4, <3>1, <3>2, BroadcastFollows, ZenonT(60), SMTT(30) DEF LocksTypes
  <2> QED BY <2>1, <2>2
<1>6. NoGhostLock'
  BY <1>1, <1>2, <1>3 DEF NoGhostLock, Authed, LocksTypes
<1>7. SocketsAreOwn' /\ LocksTypes'
  BY <1>1, <1>2, <1>3, <1>5 DEF SocketsAreOwn, LocksTypes, controller
<1> QED BY <1>5, <1>6, <1>7 DEF IInv

LEMMA CloseHolds ==
  ASSUME IInv, NEW p \in Peer, CloseArrives(p)
  PROVE  IInv'
BY DropPeerHolds DEF CloseArrives, IInv, LocksTypes

---------------------------------------------------------------------------
(* The editors' steps *)

LEMMA NewPeerIsUnused == Unused # {} => NewPeer \in Unused
<1> SUFFICES ASSUME Unused # {} PROVE NewPeer \in Unused
  OBVIOUS
<1>1. Unused \subseteq Nat
  BY PeersAreNumbers DEF Unused
<1>2. PICK x \in Unused : \A y \in Unused : ~(<<y, x>> \in OpToRel(<, Nat))
  BY <1>1, NatLessThanWellFounded, WFMin
<1>3. \A y \in Unused : x <= y
  <2> SUFFICES ASSUME NEW y \in Unused PROVE x <= y
    OBVIOUS
  <2>1. x \in Nat /\ y \in Nat
    BY <1>1
  <2>2. <<y, x>> \notin OpToRel(<, Nat)
    BY <1>2
  <2>3. <<y, x>> \in Nat \X Nat
    BY <2>1
  <2>4. ~(y < x)
    BY <2>2, <2>3 DEF OpToRel
  <2> QED BY <2>1, <2>4
<1> QED BY <1>3 DEF NewPeer

\* What one editor does on its own connection leaves the others covered.
LEMMA OthersFollow ==
  ASSUME IInv, NEW e \in Editor, UNCHANGED locks,
         \A d \in Editor \ {e} : UNCHANGED <<socket[d], state[d], held[d], myPeerId[d]>>,
         \A d \in Editor \ {e} : socket[d] # NoPeer /\ socket[d] # socket[e] =>
            down'[socket[d]] = down[socket[d]] /\ (status'[socket[d]] = "in" => status[socket[d]] = "in"),
         socket[e]' # NoPeer /\ status'[socket[e]'] = "in" =>
           /\ GrantsHold(down'[socket[e]'], socket[e]', locks)
           /\ state[e]' = "owned" => Believed(down'[socket[e]'], 0, socket[e]', locks, held[e]')
           /\ \/ myPeerId[e]' = socket[e]'
              \/ down'[socket[e]'] # <<>> /\ Head(down'[socket[e]']).t = "welcome"
  PROVE  EditorsFollow'
<1> SUFFICES ASSUME NEW d \in Editor, socket[d]' # NoPeer, status'[socket[d]'] = "in"
             PROVE  /\ GrantsHold(down'[socket[d]'], socket[d]', locks)
                    /\ state[d]' = "owned" => Believed(down'[socket[d]'], 0, socket[d]', locks, held[d]')
                    /\ \/ myPeerId[d]' = socket[d]'
                       \/ down'[socket[d]'] # <<>> /\ Head(down'[socket[d]']).t = "welcome"
  BY DEF EditorsFollow
<1>1. CASE d = e
  BY <1>1
<1>2. CASE d # e
  <2>1. socket[d]' = socket[d] /\ socket[d] # socket[e]
    BY <1>2 DEF IInv, SocketsAreOwn
  <2>2. down'[socket[d]] = down[socket[d]] /\ status[socket[d]] = "in"
    BY <1>2, <2>1
  <2> QED BY <1>2, <2>1, <2>2 DEF IInv, EditorsFollow
<1> QED BY <1>1, <1>2

LEMMA ConnectHolds ==
  ASSUME IInv, NEW e \in Editor, Connect(e), down' \in [Peer -> Seq(DownMessage)],
         \A q \in Peer : q # socket[e] => down'[q] = down[q]
  PROVE  IInv'
<1>1. LocksTypes /\ NoGhostLock /\ SocketsAreOwn
  BY DEF IInv
<1>2. PICK p \in Unused : p = NewPeer
  BY NewPeerIsUnused DEF Connect
<1>3. /\ p \in Peer /\ status[p] = "unused" /\ p # NoPeer
      /\ socket' = [socket EXCEPT ![e] = p] /\ status' = [status EXCEPT ![p] = "hello"]
      /\ up' = [up EXCEPT ![p] = <<[t |-> "hello"]>>]
      /\ UNCHANGED <<locks, beats, controller, wanted, unarbitrated>>
  BY <1>2, PeersAreNumbers DEF Connect, Unused
<1>4. up' \in [Peer -> Seq(UpMessage)]
  <2>1. [t |-> "hello"] \in UpMessage
    BY DEF UpMessage
  <2>2. <<[t |-> "hello"]>> \in Seq(UpMessage)
    BY <2>1
  <2> QED BY <1>1, <1>3, <2>2 DEF LocksTypes
<1>5. LocksTypes'
  BY <1>1, <1>3, <1>4 DEF LocksTypes, controller
<1>6. NoGhostLock'
  BY <1>1, <1>3 DEF NoGhostLock, Authed, LocksTypes
<1>7. SocketsAreOwn'
  <2>1. \A d \in Editor : socket[d] # p
    BY <1>1, <1>3 DEF SocketsAreOwn
  <2>2. \A d \in Editor : socket'[d] = IF d = e THEN p ELSE socket[d]
    BY <1>1, <1>3 DEF LocksTypes
  <2>3. \A q \in Peer : status'[q] = IF q = p THEN "hello" ELSE status[q]
    BY <1>1, <1>3 DEF LocksTypes
  <2>4. \A d \in Editor : socket[d] # NoPeer => socket[d] \in Peer
    BY <1>1 DEF LocksTypes
  <2> QED BY <1>1, <1>3, <2>1, <2>2, <2>3, <2>4 DEF SocketsAreOwn
<1>8. EditorsFollow'
  <2>1. \A d \in Editor \ {e} : UNCHANGED <<socket[d], state[d], held[d], myPeerId[d]>>
    BY <1>1, <1>3 DEF LocksTypes, controller
  <2>2. \A d \in Editor \ {e} : socket[d] # NoPeer /\ socket[d] # socket[e] =>
            down'[socket[d]] = down[socket[d]] /\ (status'[socket[d]] = "in" => status[socket[d]] = "in")
    BY <1>1, <1>3 DEF LocksTypes
  <2>3. status'[socket[e]'] # "in"
    BY <1>1, <1>3 DEF LocksTypes
  <2> QED BY <1>3, <2>1, <2>2, <2>3, OthersFollow
<1> QED BY <1>5, <1>6, <1>7, <1>8 DEF IInv

LEMMA DisconnectHolds ==
  ASSUME IInv, NEW e \in Editor, Disconnected(e), EditorUnchanged,
         up' \in [Peer -> Seq(UpMessage)], down' \in [Peer -> Seq(DownMessage)],
         \A q \in Peer : q # socket[e] => down'[q] = down[q]
  PROVE  IInv'
<1>1. LocksTypes /\ NoGhostLock /\ SocketsAreOwn
  BY DEF IInv
<1>2. UNCHANGED <<status, locks, beats, myPeerId, wanted, unarbitrated>>
  BY DEF Disconnected, EditorUnchanged, server
<1>3. /\ NoRequest \in [ids : Ids, then : Ids] /\ Nobody \in [Obj -> Peer \cup {NoPeer}]
      /\ {} \in Ids
  BY DEF NoRequest, Nobody, Ids
<1>4. LocksTypes'
  BY <1>1, <1>2, <1>3 DEF LocksTypes, Disconnected
<1>5. NoGhostLock' /\ SocketsAreOwn'
  BY <1>1, <1>2 DEF NoGhostLock, Authed, LocksTypes, SocketsAreOwn, Disconnected
<1>6. EditorsFollow'
  <2>1. /\ \A d \in Editor \ {e} : UNCHANGED <<socket[d], state[d], held[d], myPeerId[d]>>
        /\ socket[e]' = NoPeer
    BY <1>1 DEF LocksTypes, Disconnected
  <2>2. \A d \in Editor \ {e} : socket[d] # NoPeer /\ socket[d] # socket[e] =>
            down'[socket[d]] = down[socket[d]] /\ (status'[socket[d]] = "in" => status[socket[d]] = "in")
    BY <1>1, <1>2 DEF LocksTypes
  <2> QED BY <1>2, <2>1, <2>2, OthersFollow
<1> QED BY <1>4, <1>5, <1>6 DEF IInv

LEMMA ConnectionHolds ==
  ASSUME IInv, NEW e \in Editor,
         Reconnect(e) \/ ChangeCredential(e) \/ SeesClose(e) \/ LoseConnection(e)
  PROVE  IInv'
<1>1. up \in [Peer -> Seq(UpMessage)] /\ down \in [Peer -> Seq(DownMessage)]
      /\ (socket[e] # NoPeer => socket[e] \in Peer)
  BY DEF IInv, LocksTypes
<1>2. CASE Reconnect(e)
  BY <1>1, <1>2, ConnectHolds DEF Reconnect
<1>3. CASE ChangeCredential(e)
  <2>1. /\ Connect(e) /\ down' \in [Peer -> Seq(DownMessage)]
        /\ \A q \in Peer : q # socket[e] => down'[q] = down[q]
    BY <1>1, <1>3 DEF ChangeCredential
  <2> QED BY <2>1, ConnectHolds
<1>4. CASE SeesClose(e)
  BY <1>1, <1>4, DisconnectHolds DEF SeesClose, channels
<1>5. CASE LoseConnection(e)
  <2>1. /\ Disconnected(e) /\ EditorUnchanged
        /\ up' \in [Peer -> Seq(UpMessage)] /\ down' \in [Peer -> Seq(DownMessage)]
        /\ \A q \in Peer : q # socket[e] => down'[q] = down[q]
    <3>1. PICK sent \in {<<>>, up[socket[e]]} : up' = [up EXCEPT ![socket[e]] = sent]
      BY <1>5 DEF LoseConnection
    <3>2. /\ Disconnected(e) /\ EditorUnchanged /\ socket[e] \in Peer
          /\ down' = [down EXCEPT ![socket[e]] = <<>>]
      BY <1>1, <1>5 DEF LoseConnection
    <3>3. up[socket[e]] \in Seq(UpMessage) /\ <<>> \in Seq(UpMessage) /\ <<>> \in Seq(DownMessage)
      BY <1>1, <3>2
    <3> QED BY <1>1, <3>1, <3>2, <3>3
  <2> QED BY <2>1, DisconnectHolds
<1> QED BY <1>2, <1>3, <1>4, <1>5

\* A message is read. What it takes the editor to believe, the rest of the channel covers.
LEMMA DeliveryHolds ==
  ASSUME IInv, NEW e \in Editor, DeliverTo(e)
  PROVE  IInv'
<1> DEFINE p == socket[e]
           s == down[p]
           m == Head(s)
<1>1. LocksTypes /\ NoGhostLock /\ SocketsAreOwn
  BY DEF IInv
<1>2. /\ p # NoPeer /\ s # <<>> /\ down' = [down EXCEPT ![p] = Tail(s)]
      /\ UNCHANGED <<up, status, locks, beats, socket, unarbitrated, wanted>>
         \/ UNCHANGED <<up, status, locks, beats, socket>>
  BY DEF DeliverTo, Welcome, Granted, Denied, SetOwners, Deliver, EditorUnchanged, server
<1>3. UNCHANGED <<up, status, locks, beats, socket>>
  BY <1>2
<1>4. p \in Peer /\ s \in Seq(DownMessage) /\ Tail(s) \in Seq(DownMessage) /\ m \in DownMessage
      /\ m = s[1] /\ 1 \in 1 .. Len(s)
  <2>1. p \in Peer /\ s \in Seq(DownMessage)
    BY <1>1, <1>2 DEF LocksTypes
  <2> HIDE DEF s
  <2> QED BY <1>2, <2>1, HeadIsFirst
<1>5. /\ down' \in [Peer -> Seq(DownMessage)] /\ down'[p] = Tail(s)
      /\ \A q \in Peer : q # p => down'[q] = down[q]
  BY <1>1, <1>2, <1>4 DEF LocksTypes
<1>6. /\ m.t \in {"welcome", "lockResult", "lockState"}
      /\ m.t = "lockResult" => m.ids \in Ids /\ m.granted \in BOOLEAN
      /\ m.t = "lockState" => m.owners \in [Obj -> Peer \cup {NoPeer}]
  BY <1>4, DownFields
<1>7. {} \in Ids /\ NoRequest \in [ids : Ids, then : Ids]
  BY DEF Ids, NoRequest
<1>8. /\ myPeerId' \in [Editor -> Peer \cup {NoPeer}]
      /\ owners' \in [Editor -> [Obj -> Peer \cup {NoPeer}]]
      /\ state' \in [Editor -> {"unlocked", "pending", "owned", "denied", "lost"}]
      /\ held' \in [Editor -> Ids]
      /\ pending' \in [Editor -> [ids : Ids, then : Ids]]
      /\ wanted' \in [Editor -> Ids]
      /\ unarbitrated' \subseteq Editor
      /\ \A d \in Editor \ {e} : UNCHANGED <<state[d], held[d], myPeerId[d]>>
  <2>1. CASE Welcome(e)
    BY <1>1, <1>4, <2>1 DEF LocksTypes, Welcome
  <2>2. CASE Granted(e)
    BY <1>1, <1>6, <1>7, <2>2 DEF LocksTypes, Granted, Deliver, Message
  <2>3. CASE Denied(e)
    BY <1>1, <1>7, <2>3 DEF LocksTypes, Denied
  <2>4. CASE SetOwners(e)
    <3>1. /\ m.t = "lockState" /\ owners' = [owners EXCEPT ![e] = m.owners]
          /\ UNCHANGED <<socket, myPeerId, pending, unarbitrated>>
      BY <2>4 DEF SetOwners, Deliver, Message
    <3>2. /\ state' \in {state, [state EXCEPT ![e] = "lost"]}
          /\ held' \in {held, [held EXCEPT ![e] = {}]}
          /\ wanted' \in {wanted, [wanted EXCEPT ![e] = {}]}
      BY <2>4 DEF SetOwners
    <3>3. owners' \in [Editor -> [Obj -> Peer \cup {NoPeer}]]
      <4> HIDE DEF m
      <4> QED BY <1>1, <1>6, <3>1 DEF LocksTypes
    <3>4. /\ state' \in [Editor -> {"unlocked", "pending", "owned", "denied", "lost"}]
          /\ \A d \in Editor \ {e} : UNCHANGED state[d]
      BY <1>1, <3>2 DEF LocksTypes
    <3>5. held \in [Editor -> Ids] /\ wanted \in [Editor -> Ids]
      BY <1>1 DEF LocksTypes
    <3>6. wanted' \in [Editor -> Ids]
      BY <1>7, <3>2, <3>5
    <3>7. held' \in [Editor -> Ids]
      BY <1>7, <3>2, <3>5
    <3>8. \A d \in Editor \ {e} : UNCHANGED held[d]
      BY <3>2, <3>5
    <3> QED BY <1>1, <3>1, <3>3, <3>4, <3>6, <3>7, <3>8 DEF LocksTypes
  <2> QED BY <2>1, <2>2, <2>3, <2>4 DEF DeliverTo
<1>9. LocksTypes' /\ NoGhostLock' /\ SocketsAreOwn'
  BY <1>1, <1>3, <1>5, <1>8 DEF LocksTypes, NoGhostLock, Authed, SocketsAreOwn
<1>10. ASSUME status[p] = "in"
       PROVE  /\ GrantsHold(Tail(s), p, locks)
              /\ state[e]' = "owned" => Believed(Tail(s), 0, p, locks, held[e]')
              /\ myPeerId[e]' = p
  <2>1. /\ GrantsHold(s, p, locks)
        /\ state[e] = "owned" => Believed(s, 0, p, locks, held[e])
        /\ myPeerId[e] = p \/ m.t = "welcome"
    BY <1>2, <1>10 DEF IInv, EditorsFollow
  <2>2. GrantsHold(Tail(s), p, locks)
    <3> HIDE DEF s
    <3> QED BY <1>2, <1>4, <2>1, RestCovers
  <2>3. ASSUME NEW have, Believed(s, 0, p, locks, have),
               m.t = "lockState" => \A o \in have : m.owners[o] = p
        PROVE  Believed(Tail(s), 0, p, locks, have)
    <3> HIDE DEF s, p
    <3> QED BY <1>2, <1>4, <2>3, RestCovers
  <2>4. CASE Welcome(e)
    <3>1. m.t = "welcome" /\ myPeerId[e]' = p /\ UNCHANGED <<state, held>>
      BY <1>1, <2>4 DEF Welcome, Deliver, LocksTypes
    <3> QED BY <2>1, <2>2, <2>3, <3>1
  <2>5. CASE Granted(e)
    <3>1. m.t = "lockResult" /\ m.granted /\ held[e]' = m.ids /\ UNCHANGED myPeerId
      BY <1>1, <2>5 DEF Granted, Deliver, Message, LocksTypes
    <3>2. Believed(s, 1, p, locks, m.ids)
      BY <1>4, <2>1, <3>1 DEF GrantsHold
    <3>3. Believed(Tail(s), 0, p, locks, m.ids)
      <4> HIDE DEF s, p
      <4> QED BY <1>2, <1>4, <3>2, RestCovers
    <3> QED BY <2>1, <2>2, <3>1, <3>3
  <2>6. CASE Denied(e)
    <3>1. m.t = "lockResult" /\ state[e]' = "denied" /\ UNCHANGED <<myPeerId, held>>
      BY <1>1, <2>6 DEF Denied, Deliver, LocksTypes
    <3> QED BY <2>1, <2>2, <3>1
  <2>7. CASE SetOwners(e)
    <3>1. m.t = "lockState" /\ UNCHANGED myPeerId
      BY <2>7 DEF SetOwners, Deliver
    <3>2. myPeerId[e] = p
      BY <2>1, <3>1
    <3>3. ASSUME state[e]' = "owned"
          PROVE  /\ state[e] = "owned" /\ held[e]' = held[e]
                 /\ \A o \in held[e] : m.owners[o] = p
      BY <1>1, <2>7, <3>2, <3>3 DEF SetOwners, Message, LocksTypes
    <3> QED BY <2>1, <2>2, <2>3, <3>1, <3>2, <3>3
  <2> QED BY <2>4, <2>5, <2>6, <2>7 DEF DeliverTo
<1>11. EditorsFollow'
  <2>1. \A d \in Editor \ {e} : UNCHANGED <<socket[d], state[d], held[d], myPeerId[d]>>
    BY <1>3, <1>8
  <2>2. \A d \in Editor \ {e} : socket[d] # NoPeer /\ socket[d] # p =>
          down'[socket[d]] = down[socket[d]] /\ (status'[socket[d]] = "in" => status[socket[d]] = "in")
    BY <1>1, <1>3, <1>5 DEF LocksTypes
  <2> HIDE DEF s
  <2> QED BY <1>3, <1>5, <1>10, <2>1, <2>2, OthersFollow
<1> QED BY <1>9, <1>11 DEF IInv

LEMMA SentTypes ==
  ASSUME LocksTypes, NEW e \in Editor, socket[e] # NoPeer,
         NEW messages \in Seq(UpMessage), Sent(e, messages)
  PROVE  up' \in [Peer -> Seq(UpMessage)]
<1>1. socket[e] \in Peer /\ up[socket[e]] \in Seq(UpMessage)
  BY DEF LocksTypes
<1>2. up[socket[e]] \o messages \in Seq(UpMessage)
  BY <1>1
<1> QED BY <1>1, <1>2 DEF LocksTypes, Sent

\* Asking gives nothing up, and takes nothing for owned that was not.
LEMMA AskHolds ==
  ASSUME LocksTypes, NEW e \in Editor, socket[e] # NoPeer,
         NEW have, NEW ids \in Ids, NEW then \in Ids, NEW sent \in Seq(UpMessage),
         NEW released \in {state[e], "unlocked"}, Ask(e, have, ids, then, sent, released)
  PROVE  /\ up' \in [Peer -> Seq(UpMessage)]
         /\ state' \in [Editor -> {"unlocked", "pending", "owned", "denied", "lost"}]
         /\ pending' \in [Editor -> [ids : Ids, then : Ids]]
         /\ \A d \in Editor : d # e => state'[d] = state[d]
         /\ state'[e] = "owned" => state[e] = "owned"
<1>1. [t |-> "lockRequest", ids |-> ids] \in UpMessage
  BY DEF UpMessage
<1>2. Append(sent, [t |-> "lockRequest", ids |-> ids]) \in Seq(UpMessage)
  BY <1>1
<1>3. PICK messages \in Seq(UpMessage), x \in {released, "denied", "pending"} :
        /\ Sent(e, messages) /\ state' = [state EXCEPT ![e] = x]
        /\ pending' \in {pending, [pending EXCEPT ![e] = [ids |-> ids, then |-> then]]}
  BY <1>2 DEF Ask
<1>4. up' \in [Peer -> Seq(UpMessage)]
  <2>1. Sent(e, messages)
    BY <1>3
  <2> QED BY <2>1, SentTypes
<1>5. [ids |-> ids, then |-> then] \in [ids : Ids, then : Ids]
  OBVIOUS
<1>6. pending' \in [Editor -> [ids : Ids, then : Ids]]
  BY <1>3, <1>5 DEF LocksTypes
<1>7. x \in {"unlocked", "pending", "owned", "denied", "lost"} /\ (x = "owned" => state[e] = "owned")
  BY DEF LocksTypes
<1>8. /\ state' \in [Editor -> {"unlocked", "pending", "owned", "denied", "lost"}]
      /\ state'[e] = x /\ \A d \in Editor : d # e => state'[d] = state[d]
  BY <1>3, <1>7 DEF LocksTypes
<1> QED BY <1>4, <1>6, <1>7, <1>8

\* What an editor's own work may change: nothing it was sent, and no more than it held.
Work(e) ==
  /\ UNCHANGED <<down, status, locks, beats, socket, myPeerId, owners, unarbitrated>>
  /\ up' \in [Peer -> Seq(UpMessage)]
  /\ state' \in [Editor -> {"unlocked", "pending", "owned", "denied", "lost"}]
  /\ pending' \in [Editor -> [ids : Ids, then : Ids]]
  /\ held' \in [Editor -> Ids] /\ wanted' \in [Editor -> Ids]
  /\ \A d \in Editor : d # e => state'[d] = state[d] /\ held'[d] = held[d]
  /\ state'[e] = "owned" => state[e] = "owned" /\ held'[e] \subseteq held[e]

LEMMA SelectWorks ==
  ASSUME LocksTypes, NEW e \in Editor, NEW ids \in Selection, Select(e, ids)
  PROVE  Work(e)
<1> DEFINE unpicked == (wanted[e] \ ids) \cap held[e]
           have == held[e] \ unpicked
           released == IF unpicked # {} /\ have = {} THEN "unlocked" ELSE state[e]
           sent == IF unpicked = {} THEN <<>> ELSE <<[t |-> "lockRelease", ids |-> unpicked]>>
<1>1. /\ Ask(e, have, ids, {}, sent, released) /\ socket[e] # NoPeer
      /\ wanted' = [wanted EXCEPT ![e] = ids] /\ held' = [held EXCEPT ![e] = have]
      /\ UNCHANGED <<down, status, locks, beats, socket, myPeerId, owners, unarbitrated>>
  BY DEF Select, Gesture, server
<1>2. ids \in Ids /\ {} \in Ids /\ have \in Ids /\ unpicked \in Ids
  BY LockAssumptions DEF LocksTypes, Ids
<1>3. sent \in Seq(UpMessage)
  <2> HIDE DEF unpicked
  <2>1. [t |-> "lockRelease", ids |-> unpicked] \in UpMessage
    BY <1>2 DEF UpMessage
  <2>2. <<>> \in Seq(UpMessage) /\ <<[t |-> "lockRelease", ids |-> unpicked]>> \in Seq(UpMessage)
    BY <2>1
  <2> QED BY <2>2
<1>4. released \in {state[e], "unlocked"}
  OBVIOUS
<1>5. have \subseteq held[e]
  OBVIOUS
<1> HIDE DEF have, sent, released
<1>6. /\ up' \in [Peer -> Seq(UpMessage)]
      /\ state' \in [Editor -> {"unlocked", "pending", "owned", "denied", "lost"}]
      /\ pending' \in [Editor -> [ids : Ids, then : Ids]]
      /\ \A d \in Editor : d # e => state'[d] = state[d]
      /\ state'[e] = "owned" => state[e] = "owned"
  BY <1>1, <1>2, <1>3, <1>4, AskHolds
<1> QED BY <1>1, <1>2, <1>5, <1>6 DEF Work, LocksTypes

LEMMA EditWorks ==
  ASSUME LocksTypes, NEW e \in Editor, Edit(e)
  PROVE  Work(e)
<1>1. /\ Ask(e, held[e], wanted[e], wanted[e], <<>>, state[e]) /\ socket[e] # NoPeer
      /\ UNCHANGED <<down, status, locks, beats, socket, myPeerId, owners, held, wanted, unarbitrated>>
  BY DEF Edit, Gesture, server
<1>2. wanted[e] \in Ids /\ <<>> \in Seq(UpMessage)
  BY DEF LocksTypes
<1>3. /\ up' \in [Peer -> Seq(UpMessage)]
      /\ state' \in [Editor -> {"unlocked", "pending", "owned", "denied", "lost"}]
      /\ pending' \in [Editor -> [ids : Ids, then : Ids]]
      /\ \A d \in Editor : d # e => state'[d] = state[d]
      /\ state'[e] = "owned" => state[e] = "owned"
  BY <1>1, <1>2, AskHolds
<1> QED BY <1>1, <1>3 DEF Work, LocksTypes

LEMMA BeatWorks ==
  ASSUME LocksTypes, NEW e \in Editor, Beat(e)
  PROVE  Work(e)
<1>1. /\ Sent(e, <<[t |-> "heartbeat"]>>) /\ socket[e] # NoPeer
      /\ UNCHANGED <<down, status, locks, beats, socket, controller, wanted, unarbitrated>>
  BY DEF Beat, server
<1>2. <<[t |-> "heartbeat"]>> \in Seq(UpMessage)
  <2>1. [t |-> "heartbeat"] \in UpMessage
    BY DEF UpMessage
  <2> QED BY <2>1
<1>3. up' \in [Peer -> Seq(UpMessage)]
  BY <1>1, <1>2, SentTypes
<1> QED BY <1>1, <1>3 DEF Work, LocksTypes, controller

LEMMA WorkHolds ==
  ASSUME IInv, NEW e \in Editor, Work(e)
  PROVE  IInv'
<1>1. LocksTypes' /\ NoGhostLock' /\ SocketsAreOwn'
  BY DEF IInv, Work, LocksTypes, NoGhostLock, Authed, SocketsAreOwn
<1>2. EditorsFollow'
  <2> SUFFICES ASSUME NEW d \in Editor, socket[d] # NoPeer, status[socket[d]] = "in"
               PROVE  /\ GrantsHold(down[socket[d]], socket[d], locks)
                      /\ state'[d] = "owned" => Believed(down[socket[d]], 0, socket[d], locks, held'[d])
                      /\ \/ myPeerId[d] = socket[d]
                         \/ down[socket[d]] # <<>> /\ Head(down[socket[d]]).t = "welcome"
    BY DEF EditorsFollow, Work
  <2> QED BY DEF IInv, EditorsFollow, Work, Believed
<1> QED BY <1>1, <1>2 DEF IInv

---------------------------------------------------------------------------
(* The theorems *)

LEMMA InitHolds == LocksInit => IInv
<1> SUFFICES ASSUME LocksInit PROVE IInv
  OBVIOUS
<1>1. Nobody \in [Obj -> Peer \cup {NoPeer}] /\ {} \in Ids /\ NoRequest \in [ids : Ids, then : Ids]
      /\ <<>> \in Seq(UpMessage) /\ <<>> \in Seq(DownMessage)
  BY DEF Nobody, Ids, NoRequest
<1>2. FirstPeer \in [Editor -> Peer]
  BY LockAssumptions DEF Peer
<1>3. LocksTypes
  BY <1>1, <1>2 DEF LocksInit, LocksTypes
<1>4. SocketsAreOwn /\ NoGhostLock
  BY <1>2, LockAssumptions DEF LocksInit, SocketsAreOwn, NoGhostLock, Nobody
<1>5. EditorsFollow
  BY <1>2 DEF LocksInit, EditorsFollow, GrantsHold
<1> QED BY <1>3, <1>4, <1>5 DEF IInv

LEMMA StepHolds == IInv /\ [LocksNext]_locksVars => IInv'
<1> SUFFICES ASSUME IInv, [LocksNext]_locksVars PROVE IInv'
  OBVIOUS
<1>1. CASE UNCHANGED locksVars
  BY <1>1 DEF IInv, LocksTypes, SocketsAreOwn, NoGhostLock, Authed, EditorsFollow,
              locksVars, channels, server, controller
<1>2. ASSUME NEW p \in Peer, ServerStep(p)
      PROVE  IInv'
  BY <1>2, HelloHolds, AuthorizedHolds, RefuseHolds, RequestHolds, ReleaseHolds, LeaseStepHolds, CloseHolds
     DEF ServerStep
<1>3. ASSUME NEW e \in Editor, EditorStep(e)
      PROVE  IInv'
  <2>1. LocksTypes
    BY DEF IInv
  <2>2. CASE Reconnect(e) \/ ChangeCredential(e) \/ SeesClose(e) \/ LoseConnection(e)
    BY <2>2, ConnectionHolds
  <2>3. CASE DeliverTo(e)
    BY <2>3, DeliveryHolds
  <2>4. CASE Edit(e) \/ Beat(e) \/ \E ids \in Selection : Select(e, ids)
    <3>1. Work(e)
      BY <2>1, <2>4, EditWorks, BeatWorks, SelectWorks
    <3> QED BY <3>1, WorkHolds
  <2> QED BY <1>3, <2>2, <2>3, <2>4 DEF EditorStep
<1> QED BY <1>1, <1>2, <1>3, SweepHolds DEF LocksNext

\* Whatever the editors, connections and leases do, an editor that takes an object for its
\* own when the server does not has a lock table on its way that says so
\* (lockController.setOwners, editorWs.broadcastLocks).
THEOREM BeliefIsCorrected == LocksSpec => []StaleBeliefIsCorrected
<1>1. IInv => StaleBeliefIsCorrected
  <2> SUFFICES ASSUME IInv, NEW e \in Editor, NEW o \in Obj, state[e] = "owned", o \in held[e],
                      socket[e] # NoPeer, locks[o] # socket[e], status[socket[e]] = "in"
               PROVE  Corrected(e, o)
    BY DEF IInv, LocksTypes, SocketsAreOwn, StaleBeliefIsCorrected, Corrected
  <2>1. Told(down[socket[e]], 0, o, socket[e])
    BY DEF IInv, EditorsFollow, Believed
  <2> QED BY <2>1 DEF Told, Corrected
<1> QED BY <1>1, InitHolds, StepHolds, PTL DEF LocksSpec

\* Every lock belongs to an admitted peer whose lease can run out (editorWs.dropPeer).
THEOREM LocksAreFreed == LocksSpec => []NoGhostLock
<1>1. IInv => NoGhostLock
  BY DEF IInv
<1> QED BY <1>1, InitHolds, StepHolds, PTL DEF LocksSpec

---------------------------------------------------------------------------
(* Saves, polls and drafts, for every number of admins, edits, saves, polls *)
(* and reloads, in whatever order they come: an edit is lost only where it  *)
(* was given up, or crossed a save (EditorSaves.crossed).                   *)

Draft == [at : {"draft"}, map : Map, base : Map]
ReadOfMap == [at : {"read"}, by : Admin, map : Map]
Save == [at : {"sent"}, by : Admin, heard : BOOLEAN, body : Map, ifMatch : Map]
          \cup [at : {"loaded"}, by : Admin, heard : BOOLEAN, body : Map, ifMatch : Map, current : Map]
          \cup [at : {"saved"}, by : Admin, body : Map] \cup [at : {"refused"}, by : Admin]

SavesTypes ==
  /\ file \in Map /\ dropped \in Map /\ crossed \in Map
  /\ work \in [Admin -> Map] /\ baseRevision \in [Admin -> Map]
  /\ made \in [Admin -> Seq(Edits)]
  /\ savedEdit \in [Admin -> Edits \cup {NoEdit}]
  /\ nonHistoryDirt \in [Admin -> BOOLEAN]
  /\ posting \in [Posts -> {Nothing} \cup Save]
  /\ polling \in [Reads -> {Nothing} \cup ReadOfMap]
  /\ draft \in [Admin -> {Nothing} \cup Draft] /\ queued \in [Admin -> {Nothing} \cup Draft]
  /\ booting \subseteq Admin
  /\ edits \in 0 .. MaxEdits

\* What is in map is in keep, or was given up, or crossed a save.
Covered(map, keep) == map \subseteq keep \cup dropped \cup crossed

\* A page's document has what the revision under it has.
BaseIsKept(a) == Covered(baseRevision[a], work[a])
\* A draft has what the revision it was made on has, and nothing its page does not have.
DraftFollows(a, d) == d # Nothing =>
  /\ Covered(d.base, d.map)
  /\ a \notin booting => Covered(d.map, work[a] \cup file)
\* A page that has yet to look for a draft does nothing else.
BootingRests(a) == a \in booting =>
  /\ queued[a] = Nothing
  /\ made[a] = <<>> /\ savedEdit[a] = NoEdit /\ ~nonHistoryDirt[a]
\* Edits are numbered as they are made.
HistoryGrows(a) == \A i, j \in 1 .. Len(made[a]) : i <= j => made[a][i] <= made[a][j]
EditsCounted(a) == savedEdit[a] <= edits /\ \A i \in 1 .. Len(made[a]) : made[a][i] <= edits
\* What a page has and the server has not is in its history past the saved marker.
Past(h, s) == {h[i] : i \in {j \in 1 .. Len(h) : h[j] > s}}
Unsaved(a) == Past(made[a], savedEdit[a])
MarkerTells(a) == ~nonHistoryDirt[a] => Covered(work[a], file \cup Unsaved(a))

AdminHolds(a) ==
  /\ BaseIsKept(a) /\ DraftFollows(a, draft[a]) /\ DraftFollows(a, queued[a])
  /\ BootingRests(a) /\ HistoryGrows(a) /\ EditsCounted(a) /\ MarkerTells(a)

\* A save has what the revision it was made on has, and is told to a page that is open.
PostHolds(p) == posting[p] # Nothing =>
  /\ posting[p].at \in {"sent", "loaded"} =>
       Covered(posting[p].ifMatch, posting[p].body) /\ (posting[p].heard => posting[p].by \notin booting)
  /\ posting[p].at = "loaded" => Covered(posting[p].current, file)
  /\ posting[p].at = "saved" => Covered(posting[p].body, file)
  /\ posting[p].at \in {"saved", "refused"} => posting[p].by \notin booting

\* A map that was read is still saved, and read for a page that is open.
ReadHolds(r) == polling[r] # Nothing => Covered(polling[r].map, file) /\ polling[r].by \notin booting

SavesIInv ==
  /\ SavesTypes
  /\ \A a \in Admin : AdminHolds(a)
  /\ \A p \in Posts : PostHolds(p)
  /\ \A r \in Reads : ReadHolds(r)

---------------------------------------------------------------------------
(* Steps *)

\* A page and its drafts stay as they are.
PageStays(b) ==
  /\ work'[b] = work[b] /\ made'[b] = made[b] /\ savedEdit'[b] = savedEdit[b]
  /\ nonHistoryDirt'[b] = nonHistoryDirt[b] /\ baseRevision'[b] = baseRevision[b]
  /\ draft'[b] = draft[b] /\ queued'[b] = queued[b]
  /\ (b \in booting') <=> (b \in booting)

\* An edit leaves the file only when it was given up, or crossed a save.
Onwards ==
  /\ file \subseteq file' \cup dropped' \cup crossed'
  /\ dropped \subseteq dropped' /\ crossed \subseteq crossed' /\ edits <= edits'

LEMMA Records ==
  /\ Nothing.at = "none"
  /\ \A d \in Draft : d.at = "draft" /\ d.map \in Map /\ d.base \in Map /\ d # Nothing
  /\ \A m \in ReadOfMap : m.at = "read" /\ m.by \in Admin /\ m.map \in Map /\ m # Nothing
  /\ \A p \in Save :
       /\ p.at \in {"sent", "loaded", "saved", "refused"} /\ p # Nothing /\ p.by \in Admin
       /\ p.at \in {"sent", "loaded"} => p.body \in Map /\ p.ifMatch \in Map /\ p.heard \in BOOLEAN
       /\ p.at = "loaded" => p.current \in Map
       /\ p.at = "saved" => p.body \in Map
  /\ \A m, n, k \in Map, a \in Admin, h \in BOOLEAN :
       /\ [at |-> "draft", map |-> m, base |-> n] \in Draft /\ [at |-> "read", by |-> a, map |-> m] \in ReadOfMap
       /\ [at |-> "sent", by |-> a, heard |-> h, body |-> m, ifMatch |-> n] \in Save
       /\ [at |-> "loaded", by |-> a, heard |-> h, body |-> m, ifMatch |-> n, current |-> k] \in Save
       /\ [at |-> "saved", by |-> a, body |-> m] \in Save /\ [at |-> "refused", by |-> a] \in Save
BY DEF Draft, ReadOfMap, Save, Nothing

LEMMA Histories ==
  ASSUME NEW h \in Seq(Edits)
  PROVE  /\ TopEdit(h) \in Edits \cup {NoEdit} /\ TopEdit(<<>>) = NoEdit
         /\ h # <<>> => /\ TopEdit(h) = h[Len(h)] /\ Last(h) = h[Len(h)] /\ h[Len(h)] \in Edits
                        /\ Front(h) \in Seq(Edits) /\ Len(Front(h)) = Len(h) - 1
                        /\ \A i \in 1 .. Len(h) - 1 : Front(h)[i] = h[i]
<1>1. TopEdit(<<>>) = NoEdit
  BY DEF TopEdit
<1>2. ASSUME h # <<>>
      PROVE  /\ TopEdit(h) = h[Len(h)] /\ Last(h) = h[Len(h)] /\ h[Len(h)] \in Edits
             /\ Front(h) \in Seq(Edits) /\ Len(Front(h)) = Len(h) - 1
             /\ \A i \in 1 .. Len(h) - 1 : Front(h)[i] = h[i]
  <2>1. Len(h) \in 1 .. Len(h) /\ Len(h) \in Nat
    BY <1>2, EmptySeq, LenProperties
  <2>2. TopEdit(h) = h[Len(h)] /\ Last(h) = h[Len(h)] /\ h[Len(h)] \in Edits
    BY <1>2, <2>1, ElementOfSeq DEF TopEdit, Last
  <2>3. \A i \in 1 .. Len(h) - 1 : h[i] \in Edits
    BY <2>1, ElementOfSeq
  <2>4. /\ SubSeq(h, 1, Len(h) - 1) \in Seq(Edits)
        /\ Len(SubSeq(h, 1, Len(h) - 1)) = IF 1 <= Len(h) - 1 THEN (Len(h) - 1) - 1 + 1 ELSE 0
        /\ \A i \in 1 .. (Len(h) - 1) - 1 + 1 : SubSeq(h, 1, Len(h) - 1)[i] = h[1 + i - 1]
    BY <2>1, <2>3, SubSeqProperties
  <2>5. /\ Len(SubSeq(h, 1, Len(h) - 1)) = Len(h) - 1
        /\ \A i \in 1 .. Len(h) - 1 : SubSeq(h, 1, Len(h) - 1)[i] = h[i]
    <3>1. (Len(h) - 1) - 1 + 1 = Len(h) - 1 /\ \A i \in 1 .. Len(h) - 1 : 1 + i - 1 = i
      BY <2>1
    <3>2. (IF 1 <= Len(h) - 1 THEN (Len(h) - 1) - 1 + 1 ELSE 0) = Len(h) - 1
      <4>1. \A x \in Nat \ {0} : (IF 1 <= x - 1 THEN (x - 1) - 1 + 1 ELSE 0) = x - 1
        OBVIOUS
      <4>2. Len(h) \in Nat \ {0}
        BY <2>1
      <4> HIDE <2>1
      <4> QED BY <4>1, <4>2, Zenon
    <3> HIDE <2>1
    <3> QED BY <2>4, <3>1, <3>2, Zenon
  <2> QED BY <2>2, <2>4, <2>5 DEF Front
<1>3. TopEdit(h) \in Edits \cup {NoEdit}
  BY <1>1, <1>2
<1> QED BY <1>1, <1>2, <1>3

LEMMA MadeAreEdits ==
  ASSUME SavesTypes
  PROVE  /\ edits \in Nat /\ Edits \subseteq Nat \ {NoEdit}
         /\ \A a \in Admin :
              /\ made[a] \in Seq(Edits) /\ Len(made[a]) \in Nat /\ savedEdit[a] \in Nat
              /\ \A i \in 1 .. Len(made[a]) : made[a][i] \in Edits /\ made[a][i] \in Nat \ {NoEdit}
<1>1. edits \in Nat /\ \A e \in Edits : e \in Nat \ {NoEdit}
  BY SaveAssumptions DEF SavesTypes, Edits, NoEdit
<1>2. ASSUME NEW a \in Admin
      PROVE  /\ made[a] \in Seq(Edits) /\ Len(made[a]) \in Nat /\ savedEdit[a] \in Nat
             /\ \A i \in 1 .. Len(made[a]) : made[a][i] \in Edits
  <2>1. made[a] \in Seq(Edits) /\ savedEdit[a] \in Edits \cup {NoEdit}
    BY DEF SavesTypes
  <2>2. savedEdit[a] \in Nat
    BY <1>1, <2>1 DEF NoEdit
  <2> QED BY <2>1, <2>2
<1> QED BY <1>1, <1>2

\* Another page's step keeps this one's invariant: all it shares is the file.
LEMMA OthersHold ==
  ASSUME NEW b \in Admin, AdminHolds(b), SavesTypes, SavesTypes', Onwards, PageStays(b)
  PROVE  AdminHolds(b)'
<1>1. BaseIsKept(b)'
  BY DEF AdminHolds, BaseIsKept, Covered, PageStays, SavesTypes, Onwards
<1>2. DraftFollows(b, draft[b])' /\ DraftFollows(b, queued[b])'
  BY DEF AdminHolds, DraftFollows, Covered, PageStays, Onwards
<1>3. BootingRests(b)' /\ HistoryGrows(b)'
  BY DEF AdminHolds, BootingRests, HistoryGrows, PageStays
<1>4. EditsCounted(b)'
  <2>1. savedEdit[b] <= edits' /\ edits' \in Nat
    BY MadeAreEdits, SaveAssumptions DEF AdminHolds, EditsCounted, SavesTypes, Onwards
  <2>2. ASSUME NEW i \in 1 .. Len(made[b]) PROVE made[b][i] <= edits'
    BY MadeAreEdits, <2>1 DEF AdminHolds, EditsCounted, Onwards
  <2> QED BY <2>1, <2>2 DEF EditsCounted, PageStays
<1>5. MarkerTells(b)'
  BY DEF AdminHolds, MarkerTells, Unsaved, Covered, PageStays, Onwards
<1> QED BY <1>1, <1>2, <1>3, <1>4, <1>5 DEF AdminHolds

\* A save and a read that nobody touches, while no page of theirs is closed.
LEMMA PostStands ==
  ASSUME NEW p \in Posts, PostHolds(p), Onwards, posting'[p] = posting[p],
         posting[p] # Nothing /\ posting[p].by \in booting' => posting[p].by \in booting
  PROVE  PostHolds(p)'
BY DEF PostHolds, Covered, Onwards

LEMMA ReadStands ==
  ASSUME NEW r \in Reads, ReadHolds(r), Onwards, polling'[r] = polling[r],
         polling[r] # Nothing /\ polling[r].by \in booting' => polling[r].by \in booting
  PROVE  ReadHolds(r)'
BY DEF ReadHolds, Covered, Onwards

\* What is past the saved marker in a history, and a history with one more edit or one fewer.
LEMMA PastAppended ==
  ASSUME NEW h, NEW k, NEW e, NEW s, Len(h) \in Nat, Len(k) = Len(h) + 1, k[Len(h) + 1] = e, e > s,
         \A i \in 1 .. Len(h) : k[i] = h[i]
  PROVE  Past(h, s) \cup {e} \subseteq Past(k, s)
<1>1. Len(h) + 1 \in 1 .. Len(k) /\ \A i \in 1 .. Len(h) : i \in 1 .. Len(k)
  OBVIOUS
<1>2. e \in Past(k, s)
  BY <1>1 DEF Past
<1>3. ASSUME NEW i \in 1 .. Len(h), h[i] > s PROVE h[i] \in Past(k, s)
  BY <1>1, <1>3 DEF Past
<1> QED BY <1>2, <1>3 DEF Past

LEMMA PastFront ==
  ASSUME NEW h, NEW k, NEW s, Len(h) \in Nat, Len(k) = Len(h) - 1, \A i \in 1 .. Len(k) : k[i] = h[i]
  PROVE  /\ Past(h, s) \subseteq Past(k, s) \cup {h[Len(h)]}
         /\ \A i \in 1 .. Len(k) : i \in 1 .. Len(h)
<1>1. \A i \in 1 .. Len(h) : i = Len(h) \/ i \in 1 .. Len(k)
  OBVIOUS
<1>2. ASSUME NEW i \in 1 .. Len(h), h[i] > s, i # Len(h) PROVE h[i] \in Past(k, s)
  BY <1>1, <1>2 DEF Past
<1>3. Past(h, s) \subseteq Past(k, s) \cup {h[Len(h)]}
  BY <1>2 DEF Past
<1>4. \A i \in 1 .. Len(k) : i \in 1 .. Len(h)
  OBVIOUS
<1> QED BY <1>3, <1>4

LEMMA GrowsFront ==
  ASSUME NEW h, NEW k, Len(h) \in Nat, Len(k) = Len(h) - 1, \A i \in 1 .. Len(k) : k[i] = h[i],
         \A i, j \in 1 .. Len(h) : i <= j => h[i] <= h[j]
  PROVE  \A i, j \in 1 .. Len(k) : i <= j => k[i] <= k[j]
<1>1. \A i \in 1 .. Len(k) : i \in 1 .. Len(h)
  OBVIOUS
<1> QED BY <1>1

LEMMA PageTypes ==
  ASSUME SavesTypes, NEW a \in Admin, PageStep(a)
  PROVE  SavesTypes'
<1>0. /\ edits \in Nat /\ made[a] \in Seq(Edits) /\ work[a] \in Map /\ baseRevision[a] \in Map
      /\ file \in Map /\ dropped \in Map /\ crossed \in Map
  BY MadeAreEdits DEF SavesTypes
<1> USE <1>0, Records, SaveAssumptions DEF traffic, pageState, storage, used, excused, Set, SavesTypes
<1>1. CASE MakeEdit(a)
  <2>1. edits' \in 0 .. MaxEdits /\ edits' \in Edits
    BY <1>1 DEF MakeEdit, Edits
  <2>2. work[a] \cup {edits'} \in Map /\ Append(made[a], edits') \in Seq(Edits)
    BY <2>1 DEF Map
  <2>3. queued' \in [Admin -> {Nothing} \cup Draft]
    <3> DEFINE d == [at |-> "draft", map |-> work'[a], base |-> baseRevision[a]]
    <3>0. work'[a] \in Map
      BY <1>1, <2>2 DEF MakeEdit
    <3>1. d \in Draft
      BY <3>0
    <3> HIDE DEF d
    <3>2. queued' = queued \/ queued' = [queued EXCEPT ![a] = d]
      BY <1>1 DEF MakeEdit, NoteDraft, d
    <3>3. queued \in [Admin -> {Nothing} \cup Draft]
      OBVIOUS
    <3> HIDE Records DEF SavesTypes
    <3> QED BY <3>1, <3>2, <3>3
  <2> QED BY <1>1, <2>1, <2>2, <2>3 DEF MakeEdit
<1>2. CASE UndoEdit(a)
  <2>1. Last(made[a]) \in Edits /\ Front(made[a]) \in Seq(Edits)
    <3>1. made[a] # <<>>
      BY <1>2 DEF UndoEdit
    <3> HIDE DEF SavesTypes
    <3> QED BY <3>1, Histories
  <2>2. work[a] \ {Last(made[a])} \in Map /\ dropped' \in Map
    BY <1>2, <2>1 DEF Map, UndoEdit
  <2>3. queued' \in [Admin -> {Nothing} \cup Draft]
    <3> DEFINE d == [at |-> "draft", map |-> work'[a], base |-> baseRevision[a]]
    <3>0. work'[a] \in Map
      BY <1>2, <2>2 DEF UndoEdit
    <3>1. d \in Draft
      BY <3>0
    <3> HIDE DEF d
    <3>2. queued' = queued \/ queued' = [queued EXCEPT ![a] = d]
      BY <1>2 DEF UndoEdit, NoteDraft, d
    <3>3. queued \in [Admin -> {Nothing} \cup Draft]
      OBVIOUS
    <3> HIDE Records DEF SavesTypes
    <3> QED BY <3>1, <3>2, <3>3
  <2> QED BY <1>2, <2>1, <2>2, <2>3 DEF UndoEdit
<1>3. CASE Import(a)
  <2>1. edits' \in 0 .. MaxEdits /\ edits' \in Edits
    BY <1>3 DEF Import, Edits
  <2>2. {edits'} \in Map /\ <<>> \in Seq(Edits)
    BY <1>3, <2>1 DEF Map
  <2>3. dropped' \in Map
    BY <1>3 DEF Map, Import
  <2> QED BY <1>3, <2>1, <2>2, <2>3 DEF Import, Adopt
<1>4. CASE KeepMine(a)
  BY <1>4 DEF KeepMine
<1>5. CASE TakeTheirs(a)
  BY <1>5, Histories DEF TakeTheirs, Read, Map, Reads
<1>6. CASE WriteDraft(a)
  BY <1>6 DEF WriteDraft
<1>7. CASE Reload(a)
  <2>1. posting' \in [Posts -> {Nothing} \cup Save] /\ polling' \in [Reads -> {Nothing} \cup ReadOfMap]
    <3>1. ASSUME NEW p \in Posts, posting[p] # Nothing, posting[p].at \in {"sent", "loaded"}
          PROVE  [posting[p] EXCEPT !.heard = FALSE] \in Save
      <4>1. posting[p] \in [at : {"sent"}, by : Admin, heard : BOOLEAN, body : Map, ifMatch : Map]
              \cup [at : {"loaded"}, by : Admin, heard : BOOLEAN, body : Map, ifMatch : Map, current : Map]
        <5>1. posting[p] \in Save
          BY <3>1
        <5> HIDE <1>0, Records, SaveAssumptions DEF SavesTypes
        <5> QED BY <3>1, <5>1 DEF Save
      <4> HIDE <1>0, Records, SaveAssumptions DEF SavesTypes
      <4> QED BY <4>1 DEF Save
    <3>2. /\ posting \in [Posts -> {Nothing} \cup Save] /\ polling \in [Reads -> {Nothing} \cup ReadOfMap]
          /\ HearNothing(a)
      BY <1>7 DEF Reload
    <3> HIDE <1>0, Records, SaveAssumptions DEF SavesTypes
    <3> QED BY <3>1, <3>2 DEF HearNothing
  <2> QED BY <1>7, <2>1 DEF Reload, Adopt, Map
<1>8. CASE RestoreDraft(a)
  BY <1>8 DEF RestoreDraft, Adopt, DraftFits
<1>9. CASE DiscardDraft(a)
  BY <1>9 DEF DiscardDraft, Map
<1>10. CASE SaveMap(a)
  BY <1>10 DEF SaveMap, Posts
<1>11. CASE Poll(a)
  BY <1>11 DEF Poll, Read, Reads
<1> QED BY <1>1, <1>2, <1>3, <1>4, <1>5, <1>6, <1>7, <1>8, <1>9, <1>10, <1>11 DEF PageStep

LEMMA PostTypes ==
  ASSUME SavesTypes, NEW p \in Posts, PostStep(p)
  PROVE  SavesTypes'
<1> DEFINE r == posting[p]
<1>0. /\ posting[p] \in Save /\ r.by \in Admin /\ r.at \in {"sent", "loaded", "saved", "refused"}
      /\ file \in Map /\ dropped \in Map /\ crossed \in Map
  BY Records DEF PostStep, Loads, Stores, Saved, Refused, Unreachable, SavesTypes
<1>1. CASE Loads(p)
  <2>1. [at |-> "loaded", by |-> r.by, heard |-> r.heard, body |-> r.body, ifMatch |-> r.ifMatch, current |-> file] \in Save
    BY <1>0, <1>1, Records DEF Loads
  <2> QED BY <1>1, <2>1 DEF Loads, Set, SavesTypes, pageState, storage, used, excused
<1>2. CASE Stores(p)
  <2>1. r.body \in Map /\ r.by \in Admin
    BY <1>0, <1>2, Records DEF Stores
  <2>2. [at |-> "saved", by |-> r.by, body |-> r.body] \in Save /\ [at |-> "refused", by |-> r.by] \in Save
    BY <2>1, Records
  <2>3. file' \in Map /\ crossed' \in Map
    BY <1>0, <1>2, <2>1 DEF Stores, Map
  <2>4. \E c \in {Nothing} \cup Save : posting' = [posting EXCEPT ![p] = c]
    BY <1>2, <2>2 DEF Stores, Answer, Set
  <2> QED BY <1>2, <2>3, <2>4 DEF Stores, SavesTypes, pageState, storage, used
<1>3. CASE Saved(p)
  <2> DEFINE a == r.by
  <2>1. r.body \in Map /\ a \in Admin /\ made[a] \in Seq(Edits) /\ work[a] \in Map
    BY <1>0, <1>3, Records DEF Saved, SavesTypes
  <2>2. TopEdit(made[a]) \in Edits \cup {NoEdit}
    BY <2>1, Histories
  <2>3. crossed' \in Map
    BY <1>0, <1>3, <2>1 DEF Saved, Map
  <2> QED BY <1>3, <2>1, <2>2, <2>3 DEF Saved, Set, SavesTypes, pageState, storage, used
<1>4. CASE Refused(p) \/ Unreachable(p)
  BY <1>4 DEF Refused, Unreachable, Set, SavesTypes, pageState, storage, used, excused
<1> QED BY <1>1, <1>2, <1>3, <1>4 DEF PostStep

LEMMA ReadTypes ==
  ASSUME SavesTypes, NEW r \in Reads, ReadStep(r)
  PROVE  SavesTypes'
<1>1. CASE PollNothing(r)
  BY <1>1 DEF PollNothing, Answered, Set, SavesTypes, pageState, storage, used, excused
<1>2. ASSUME NEW a \in Admin, PollConflict(r, a)
      PROVE  SavesTypes'
  BY <1>2 DEF PollConflict, News, Answered, Set, SavesTypes, storage, used, excused
<1>3. ASSUME NEW a \in Admin, PollAdopt(r, a)
      PROVE  SavesTypes'
  <2>1. polling[r].map \in Map /\ <<>> \in Seq(Edits)
    BY <1>3, Records DEF PollAdopt, News, Answered, SavesTypes
  <2> QED BY <1>3, <2>1 DEF PollAdopt, News, Answered, Adopt, Set, SavesTypes, storage, used, excused
<1> QED BY <1>1, <1>2, <1>3 DEF ReadStep

LEMMA PageFrame ==
  ASSUME SavesTypes, NEW a \in Admin, PageStep(a), NEW b \in Admin, b # a
  PROVE  PageStays(b)
BY DEF PageStep, SavesTypes, PageStays, Set, traffic, pageState, storage, used, Adopt, NoteDraft,
       MakeEdit, UndoEdit, Import, KeepMine, TakeTheirs, WriteDraft, Reload,
       RestoreDraft, DiscardDraft, SaveMap, Poll

LEMMA PageOnwards ==
  ASSUME SavesTypes, NEW a \in Admin, PageStep(a)
  PROVE  Onwards
<1>1. UNCHANGED file /\ dropped \subseteq dropped' /\ UNCHANGED crossed
  BY DEF PageStep, traffic, pageState, storage, used, excused, Adopt, NoteDraft,
       MakeEdit, UndoEdit, Import, KeepMine, TakeTheirs, WriteDraft, Reload,
       RestoreDraft, DiscardDraft, SaveMap, Poll
<1>2. edits' = edits \/ edits' = edits + 1
  BY DEF PageStep, traffic, pageState, storage, used, excused, Adopt, NoteDraft,
       MakeEdit, UndoEdit, Import, KeepMine, TakeTheirs, WriteDraft, Reload,
       RestoreDraft, DiscardDraft, SaveMap, Poll
<1> QED BY <1>1, <1>2, MadeAreEdits DEF Onwards

\* A save is stored over a map it was made on, or what it takes away has crossed it.
LEMMA PostOnwards ==
  ASSUME SavesIInv, NEW p \in Posts, PostStep(p)
  PROVE  Onwards
<1>0. edits <= edits /\ UNCHANGED edits /\ dropped \subseteq dropped'
  <2>1. UNCHANGED <<edits, dropped>>
    BY DEF PostStep, Loads, Stores, Saved, Refused, Unreachable, used, excused
  <2>2. edits \in Nat
    BY MadeAreEdits DEF SavesIInv
  <2> QED BY <2>1, <2>2
<1>1. CASE Stores(p)
  <2> DEFINE r == posting[p]
  <2>1. Covered(r.ifMatch, r.body)
    BY <1>1, Records DEF Stores, SavesIInv, PostHolds
  <2>2. CASE r.ifMatch = r.current /\ r.current = file
    BY <1>0, <1>1, <2>1, <2>2 DEF Stores, Covered, Onwards
  <2>3. CASE r.ifMatch = r.current /\ r.current # file
    BY <1>0, <1>1, <2>3 DEF Stores, Onwards
  <2>4. CASE r.ifMatch # r.current
    BY <1>0, <1>1, <2>4 DEF Stores, Onwards
  <2> QED BY <2>2, <2>3, <2>4
<1>2. CASE ~Stores(p)
  BY <1>0, <1>2 DEF PostStep, Loads, Saved, Refused, Unreachable, excused, Onwards
<1> QED BY <1>1, <1>2

LEMMA ReadOnwards ==
  ASSUME SavesTypes, NEW r \in Reads, ReadStep(r)
  PROVE  Onwards
<1>1. UNCHANGED <<file, edits, dropped, crossed>>
  BY DEF ReadStep, PollNothing, PollConflict, PollAdopt, excused, used
<1> QED BY <1>1, MadeAreEdits DEF Onwards

\* A history's newest edit has been made.
LEMMA TopIsCounted ==
  ASSUME SavesTypes, NEW a \in Admin, EditsCounted(a)
  PROVE  TopEdit(made[a]) \in Nat /\ TopEdit(made[a]) <= edits
<1>1. CASE made[a] = <<>>
  BY <1>1, MadeAreEdits DEF TopEdit, NoEdit
<1>2. CASE made[a] # <<>>
  <2>1. Len(made[a]) \in 1 .. Len(made[a])
    BY <1>2, MadeAreEdits, EmptySeq, LenProperties
  <2>2. TopEdit(made[a]) = made[a][Len(made[a])]
    BY <1>2, MadeAreEdits, Histories
  <2> QED BY <2>1, <2>2, MadeAreEdits DEF EditsCounted
<1> QED BY <1>1, <1>2

\* What a clean page shows is saved.
LEMMA CleanIsCovered ==
  ASSUME SavesTypes, NEW a \in Admin, HistoryGrows(a), MarkerTells(a), ~Dirty(a)
  PROVE  work[a] \subseteq file \cup dropped \cup crossed
<1>1. ~nonHistoryDirt[a] /\ TopEdit(made[a]) = savedEdit[a]
  BY DEF Dirty, HistoryDirty
<1>2. Unsaved(a) = {}
  <2> SUFFICES ASSUME NEW i \in 1 .. Len(made[a]), made[a][i] > savedEdit[a]
               PROVE  FALSE
    BY DEF Unsaved, Past
  <2>1. made[a] # <<>> /\ Len(made[a]) \in 1 .. Len(made[a]) /\ i <= Len(made[a])
    BY MadeAreEdits
  <2>2. savedEdit[a] = made[a][Len(made[a])]
    BY <1>1, <2>1, MadeAreEdits, Histories
  <2>3. made[a][i] <= made[a][Len(made[a])]
    BY <2>1 DEF HistoryGrows
  <2> QED BY <2>1, <2>2, <2>3, MadeAreEdits
<1> QED BY <1>1, <1>2 DEF MarkerTells, Covered

LEMMA PageHolds ==
  ASSUME SavesIInv, NEW a \in Admin, PageStep(a), SavesTypes'
  PROVE  AdminHolds(a)'
<1>0. SavesTypes /\ AdminHolds(a)
  BY DEF SavesIInv
<1> USE <1>0, MadeAreEdits, Histories, Records DEF SavesTypes, Set, traffic, pageState,
       storage, used, excused
<1>1. CASE MakeEdit(a)
  <2> USE <1>1 DEF MakeEdit, Editing, NoteDraft
  <2>1. BaseIsKept(a)'
    BY DEF AdminHolds, BaseIsKept, Covered
  <2>2. DraftFollows(a, draft[a])'
    BY SMTT(30), ZenonT(30) DEF AdminHolds, DraftFollows, Covered
  <2>3. DraftFollows(a, queued[a])'
    BY SMTT(30), ZenonT(30) DEF AdminHolds, DraftFollows, Covered, BaseIsKept, BootingRests
  <2>4. BootingRests(a)'
    BY DEF AdminHolds, BootingRests
  <2>5. HistoryGrows(a)'
    <3> DEFINE h == made[a]
               k == made'[a]
               e == edits'
    <3>1. Len(h) \in Nat /\ Len(k) = Len(h) + 1 /\ k[Len(h) + 1] = e /\ \A i \in 1 .. Len(h) : k[i] = h[i]
      OBVIOUS
    <3>2. \A i \in 1 .. Len(h) : h[i] <= edits
      BY DEF AdminHolds, EditsCounted
    <3>3. \A i, j \in 1 .. Len(h) : i <= j => h[i] <= h[j]
      BY DEF AdminHolds, HistoryGrows
    <3>4. e \in Nat /\ \A i \in 1 .. Len(h) : h[i] \in Nat /\ h[i] <= e
      <4>1. edits \in Nat /\ e = edits + 1 /\ \A i \in 1 .. Len(h) : h[i] \in Nat
        OBVIOUS
      <4> HIDE <1>0, <1>1, MadeAreEdits, Histories, Records DEF MakeEdit, SavesTypes, NoteDraft, h, k, e
      <4> QED BY <3>2, <4>1
    <3>5. \A i, j \in 1 .. Len(k) : i <= j => k[i] <= k[j]
      <4> HIDE <1>0, <1>1, MadeAreEdits, Histories, Records DEF MakeEdit, SavesTypes, NoteDraft, h, k, e
      <4> QED BY <3>1, <3>3, <3>4, SMTT(30), ZenonT(30)
    <3> QED BY <3>5 DEF HistoryGrows
  <2>6. EditsCounted(a)'
    BY SMTT(30), ZenonT(30) DEF AdminHolds, EditsCounted
  <2>7. MarkerTells(a)'
    <3>1. /\ Len(made'[a]) = Len(made[a]) + 1 /\ made'[a][Len(made[a]) + 1] = edits'
          /\ \A i \in 1 .. Len(made[a]) : made'[a][i] = made[a][i]
          /\ edits' > savedEdit[a] /\ savedEdit'[a] = savedEdit[a]
      <4>1. savedEdit[a] <= edits /\ savedEdit[a] \in Nat /\ edits' = edits + 1 /\ made'[a] = Append(made[a], edits') /\ savedEdit' = savedEdit
        BY DEF AdminHolds, EditsCounted
      <4>2. edits' > savedEdit[a]
        BY <4>1
      <4> HIDE Histories, Records DEF NoteDraft
      <4> QED BY <4>1, <4>2
    <3>2. Past(made[a], savedEdit[a]) \cup {edits'} \subseteq Past(made'[a], savedEdit[a])
      <4>1. Len(made[a]) \in Nat
        OBVIOUS
      <4> DEFINE h == made[a]
                 k == made'[a]
                 s == savedEdit[a]
                 e == edits'
      <4>2. Len(k) = Len(h) + 1 /\ k[Len(h) + 1] = e /\ e > s /\ \A i \in 1 .. Len(h) : k[i] = h[i]
        BY <3>1
      <4> HIDE <1>0, <1>1, MadeAreEdits, Histories, Records DEF MakeEdit, SavesTypes, NoteDraft, h, k, s, e
      <4>3. Past(h, s) \cup {e} \subseteq Past(k, s)
        BY <4>1, <4>2, PastAppended, SMTT(30), ZenonT(30) DEF h
      <4> QED BY <4>3 DEF h, k, s, e
    <3>3. Unsaved(a) \cup {edits'} \subseteq Unsaved(a)'
      BY <3>1, <3>2 DEF Unsaved
    <3> QED BY <3>3 DEF AdminHolds, MarkerTells, Covered
  <2> QED BY <2>1, <2>2, <2>3, <2>4, <2>5, <2>6, <2>7 DEF AdminHolds
<1>2. CASE UndoEdit(a)
  <2> USE <1>2 DEF UndoEdit, Editing, NoteDraft
  <2>0. /\ made'[a] = Front(made[a]) /\ Len(made'[a]) = Len(made[a]) - 1
        /\ \A i \in 1 .. Len(made'[a]) : i \in 1 .. Len(made[a]) /\ made'[a][i] = made[a][i]
        /\ work'[a] = work[a] \ {made[a][Len(made[a])]}
    <3>1. made'[a] = Front(made[a]) /\ work'[a] = work[a] \ {Last(made[a])} /\ made[a] # <<>>
      OBVIOUS
    <3>2. /\ Last(made[a]) = made[a][Len(made[a])] /\ Len(Front(made[a])) = Len(made[a]) - 1
          /\ \A i \in 1 .. Len(made[a]) - 1 : Front(made[a])[i] = made[a][i]
      <4> HIDE DEF SavesTypes
      <4> QED BY <3>1
    <3>3. \A i \in 1 .. Len(made[a]) - 1 : i \in 1 .. Len(made[a])
      OBVIOUS
    <3> QED BY <3>1, <3>2, <3>3
  <2>1. BaseIsKept(a)'
    BY DEF AdminHolds, BaseIsKept, Covered
  <2>2. DraftFollows(a, draft[a])'
    BY SMTT(30), ZenonT(30) DEF AdminHolds, DraftFollows, Covered
  <2>3. DraftFollows(a, queued[a])'
    BY DEF AdminHolds, DraftFollows, Covered, BaseIsKept, BootingRests
  <2>4. BootingRests(a)'
    BY DEF AdminHolds, BootingRests
  <2>5. HistoryGrows(a)'
    <3>1. HistoryGrows(a)
      BY DEF AdminHolds
    <3>2. \A i, j \in 1 .. Len(made'[a]) : i <= j => made'[a][i] <= made'[a][j]
      <4>1. Len(made[a]) \in Nat /\ \A i, j \in 1 .. Len(made[a]) : i <= j => made[a][i] <= made[a][j]
        BY <3>1 DEF HistoryGrows
      <4> HIDE <1>0, <1>2, MadeAreEdits, Histories, Records DEF UndoEdit, SavesTypes, NoteDraft
      <4> QED BY <2>0, <4>1, GrowsFront
    <3> QED BY <3>2 DEF HistoryGrows
  <2>6. EditsCounted(a)'
    <3>1. EditsCounted(a) /\ savedEdit' = savedEdit /\ edits' = edits
      BY DEF AdminHolds
    <3>2. \A i \in 1 .. Len(made'[a]) : made'[a][i] <= edits
      BY <2>0, <3>1 DEF EditsCounted
    <3> QED BY <3>1, <3>2 DEF EditsCounted
  <2>7. MarkerTells(a)'
    <3>1. Len(made[a]) \in Nat /\ savedEdit'[a] = savedEdit[a]
      OBVIOUS
    <3>2. Past(made[a], savedEdit[a]) \subseteq Past(made'[a], savedEdit[a]) \cup {made[a][Len(made[a])]}
      <4> HIDE <1>0, <1>2, MadeAreEdits, Histories, Records DEF UndoEdit, SavesTypes, NoteDraft
      <4> QED BY <2>0, <3>1, PastFront
    <3>3. Unsaved(a) \subseteq Unsaved(a)' \cup {made[a][Len(made[a])]}
      BY <3>1, <3>2 DEF Unsaved
    <3> QED BY <2>0, <3>3 DEF AdminHolds, MarkerTells, Covered
  <2> QED BY <2>1, <2>2, <2>3, <2>4, <2>5, <2>6, <2>7 DEF AdminHolds
<1>3. CASE Import(a)
  <2> USE <1>3 DEF Import, Editing, Adopt
  <2>1. BaseIsKept(a)'
    BY DEF AdminHolds, BaseIsKept, Covered
  <2>2. DraftFollows(a, draft[a])'
    BY DEF AdminHolds, DraftFollows, Covered
  <2>3. DraftFollows(a, queued[a])'
    BY DEF AdminHolds, DraftFollows, Covered, BaseIsKept, BootingRests
  <2>4. BootingRests(a)'
    BY DEF AdminHolds, BootingRests
  <2>5. HistoryGrows(a)'
    BY DEF AdminHolds, HistoryGrows, EditsCounted
  <2>6. EditsCounted(a)'
    BY DEF AdminHolds, EditsCounted, NoEdit
  <2>7. MarkerTells(a)'
    BY DEF AdminHolds, MarkerTells, Unsaved, Past, Covered, BootingRests
  <2> QED BY <2>1, <2>2, <2>3, <2>4, <2>5, <2>6, <2>7 DEF AdminHolds
<1>4. CASE KeepMine(a)
  <2> USE <1>4 DEF KeepMine, Editing
  <2>1. BaseIsKept(a)'
    BY DEF AdminHolds, BaseIsKept, Covered
  <2>2. DraftFollows(a, draft[a])'
    BY DEF AdminHolds, DraftFollows, Covered
  <2>3. DraftFollows(a, queued[a])'
    BY DEF AdminHolds, DraftFollows, Covered, BaseIsKept, BootingRests
  <2>4. BootingRests(a)'
    BY DEF AdminHolds, BootingRests
  <2>5. HistoryGrows(a)'
    BY DEF AdminHolds, HistoryGrows, EditsCounted
  <2>6. EditsCounted(a)'
    BY DEF AdminHolds, EditsCounted
  <2>7. MarkerTells(a)'
    BY DEF AdminHolds, MarkerTells, Unsaved, Past, Covered, BootingRests
  <2> QED BY <2>1, <2>2, <2>3, <2>4, <2>5, <2>6, <2>7 DEF AdminHolds
<1>5. CASE TakeTheirs(a)
  <2> USE <1>5 DEF TakeTheirs, Read, Editing
  <2>1. BaseIsKept(a)'
    BY DEF AdminHolds, BaseIsKept, Covered
  <2>2. DraftFollows(a, draft[a])'
    BY DEF AdminHolds, DraftFollows, Covered
  <2>3. DraftFollows(a, queued[a])'
    BY DEF AdminHolds, DraftFollows, Covered, BaseIsKept, BootingRests
  <2>4. BootingRests(a)'
    BY DEF AdminHolds, BootingRests
  <2>5. HistoryGrows(a)'
    BY DEF AdminHolds, HistoryGrows, EditsCounted
  <2>6. EditsCounted(a)'
    BY TopIsCounted DEF AdminHolds, EditsCounted
  <2>7. MarkerTells(a)'
    BY DEF AdminHolds, MarkerTells, Unsaved, Past, Covered, BootingRests
  <2> QED BY <2>1, <2>2, <2>3, <2>4, <2>5, <2>6, <2>7 DEF AdminHolds
<1>6. CASE WriteDraft(a)
  <2> USE <1>6 DEF WriteDraft
  <2>1. BaseIsKept(a)'
    BY DEF AdminHolds, BaseIsKept, Covered
  <2>2. DraftFollows(a, draft[a])'
    BY DEF AdminHolds, DraftFollows, Covered
  <2>3. DraftFollows(a, queued[a])'
    BY DEF AdminHolds, DraftFollows, Covered
  <2>4. BootingRests(a)'
    BY DEF AdminHolds, BootingRests
  <2>5. HistoryGrows(a)'
    BY DEF AdminHolds, HistoryGrows
  <2>6. EditsCounted(a)'
    BY DEF AdminHolds, EditsCounted
  <2>7. MarkerTells(a)'
    BY DEF AdminHolds, MarkerTells, Unsaved, Past, Covered
  <2> QED BY <2>1, <2>2, <2>3, <2>4, <2>5, <2>6, <2>7 DEF AdminHolds
<1>7. CASE Reload(a)
  <2> USE <1>7 DEF Reload, Adopt
  <2>1. BaseIsKept(a)'
    BY DEF AdminHolds, BaseIsKept, Covered
  <2>2. DraftFollows(a, draft[a])'
    BY DEF AdminHolds, DraftFollows, Covered
  <2>3. DraftFollows(a, queued[a])'
    BY DEF AdminHolds, DraftFollows, Covered, BaseIsKept, BootingRests
  <2>4. BootingRests(a)'
    BY DEF AdminHolds, BootingRests
  <2>5. HistoryGrows(a)'
    BY DEF AdminHolds, HistoryGrows, EditsCounted
  <2>6. EditsCounted(a)'
    BY DEF AdminHolds, EditsCounted, NoEdit
  <2>7. MarkerTells(a)'
    BY DEF AdminHolds, MarkerTells, Unsaved, Past, Covered, BootingRests
  <2> QED BY <2>1, <2>2, <2>3, <2>4, <2>5, <2>6, <2>7 DEF AdminHolds
<1>8. CASE RestoreDraft(a)
  <2> USE <1>8 DEF RestoreDraft, Adopt, DraftFits
  <2>1. BaseIsKept(a)'
    BY DEF AdminHolds, BaseIsKept, DraftFollows, Covered
  <2>2. DraftFollows(a, draft[a])'
    BY DEF AdminHolds, DraftFollows, Covered
  <2>3. DraftFollows(a, queued[a])'
    BY DEF AdminHolds, DraftFollows, Covered, BaseIsKept, BootingRests
  <2>4. BootingRests(a)'
    BY DEF AdminHolds, BootingRests
  <2>5. HistoryGrows(a)'
    BY DEF AdminHolds, HistoryGrows, EditsCounted
  <2>6. EditsCounted(a)'
    BY DEF AdminHolds, EditsCounted, NoEdit
  <2>7. MarkerTells(a)'
    BY DEF AdminHolds, MarkerTells, Unsaved, Past, Covered, BootingRests
  <2> QED BY <2>1, <2>2, <2>3, <2>4, <2>5, <2>6, <2>7 DEF AdminHolds
<1>9. CASE DiscardDraft(a)
  BY <1>9 DEF DiscardDraft, AdminHolds, BaseIsKept, DraftFollows,
         BootingRests, HistoryGrows, EditsCounted, MarkerTells, Unsaved, Past, Covered
<1>10. CASE SaveMap(a)
  <2> USE <1>10 DEF SaveMap
  <2>1. BaseIsKept(a)'
    BY DEF AdminHolds, BaseIsKept, Covered
  <2>2. DraftFollows(a, draft[a])'
    BY DEF AdminHolds, DraftFollows, Covered
  <2>3. DraftFollows(a, queued[a])'
    BY DEF AdminHolds, DraftFollows, Covered, BaseIsKept, BootingRests
  <2>4. BootingRests(a)'
    BY DEF AdminHolds, BootingRests
  <2>5. HistoryGrows(a)'
    BY DEF AdminHolds, HistoryGrows, EditsCounted
  <2>6. EditsCounted(a)'
    BY DEF AdminHolds, EditsCounted
  <2>7. MarkerTells(a)'
    BY DEF AdminHolds, MarkerTells, Unsaved, Covered
  <2> QED BY <2>1, <2>2, <2>3, <2>4, <2>5, <2>6, <2>7 DEF AdminHolds
<1>11. CASE Poll(a)
  <2> USE <1>11 DEF Poll, Read
  <2>1. BaseIsKept(a)'
    BY DEF AdminHolds, BaseIsKept, Covered
  <2>2. DraftFollows(a, draft[a])'
    BY DEF AdminHolds, DraftFollows, Covered
  <2>3. DraftFollows(a, queued[a])'
    BY DEF AdminHolds, DraftFollows, Covered, BaseIsKept, BootingRests
  <2>4. BootingRests(a)'
    BY DEF AdminHolds, BootingRests
  <2>5. HistoryGrows(a)'
    BY DEF AdminHolds, HistoryGrows, EditsCounted
  <2>6. EditsCounted(a)'
    BY DEF AdminHolds, EditsCounted
  <2>7. MarkerTells(a)'
    BY DEF AdminHolds, MarkerTells, Unsaved, Covered
  <2> QED BY <2>1, <2>2, <2>3, <2>4, <2>5, <2>6, <2>7 DEF AdminHolds
<1> QED BY <1>1, <1>2, <1>3, <1>4, <1>5, <1>6, <1>7, <1>8, <1>9, <1>10, <1>11 DEF PageStep

\* What the page is told was saved, and what it shows, differ by what crossed the save.
LEMMA SavedHolds ==
  ASSUME SavesIInv, NEW p \in Posts, Saved(p), SavesTypes', NEW a \in Admin, a = posting[p].by
  PROVE  AdminHolds(a)' /\ \A b \in Admin : b # a => PageStays(b)
<1>1. PICK body \in Map : body = posting[p].body /\ a \notin booting /\ Covered(body, file)
  BY Records DEF Saved, SavesIInv, SavesTypes, PostHolds
<1>2. /\ baseRevision'[a] = body /\ savedEdit'[a] = TopEdit(made[a]) /\ ~nonHistoryDirt'[a]
      /\ draft'[a] = Nothing /\ queued'[a] = Nothing
      /\ UNCHANGED <<file, work, made, booting, edits, dropped>>
      /\ crossed' = crossed \cup (work[a] \ body) \cup (body \ work[a])
  BY <1>1 DEF Saved, SavesIInv, SavesTypes, Set, used
<1>3. \A b \in Admin : b # a => PageStays(b)
  BY <1>1 DEF Saved, Set, SavesIInv, SavesTypes, PageStays
<1>4. BaseIsKept(a)' /\ MarkerTells(a)'
  BY <1>1, <1>2 DEF BaseIsKept, MarkerTells, Covered
<1>5. DraftFollows(a, draft[a])' /\ DraftFollows(a, queued[a])' /\ BootingRests(a)'
  BY <1>1, <1>2 DEF DraftFollows, BootingRests
<1>6. HistoryGrows(a)'
  BY <1>1, <1>2 DEF SavesIInv, AdminHolds, HistoryGrows
<1>7. EditsCounted(a)'
  BY <1>1, <1>2, TopIsCounted DEF SavesIInv, AdminHolds, EditsCounted
<1> QED BY <1>1, <1>3, <1>4, <1>5, <1>6, <1>7 DEF AdminHolds

\* A clean page shows nothing that is not saved, and may be replaced by what is.
LEMMA AdoptHolds ==
  ASSUME SavesIInv, NEW r \in Reads, NEW a \in Admin, PollAdopt(r, a), SavesTypes'
  PROVE  AdminHolds(a)' /\ \A b \in Admin : b # a => PageStays(b)
<1> DEFINE m == polling[r].map
<1>1. polling[r] # Nothing /\ m \in Map /\ Covered(m, file) /\ a \notin booting
  BY Records DEF PollAdopt, News, Answered, SavesIInv, SavesTypes, ReadHolds
<1>2. /\ baseRevision'[a] = m /\ work'[a] = m /\ made'[a] = <<>> /\ savedEdit'[a] = NoEdit
      /\ UNCHANGED <<file, nonHistoryDirt, draft, queued, booting, edits, dropped, crossed>>
  BY <1>1 DEF PollAdopt, News, Answered, Adopt, SavesIInv, SavesTypes, Set, used, excused, storage
<1>3. \A b \in Admin : b # a => PageStays(b)
  BY <1>1 DEF PollAdopt, News, Answered, Adopt, Set, SavesIInv, SavesTypes, storage, PageStays
<1>4. work[a] \subseteq file \cup dropped \cup crossed
  BY CleanIsCovered DEF PollAdopt, SavesIInv, AdminHolds
<1>5. BaseIsKept(a)' /\ MarkerTells(a)'
  BY <1>1, <1>2 DEF BaseIsKept, MarkerTells, Covered
<1>6. DraftFollows(a, draft[a])' /\ DraftFollows(a, queued[a])'
  BY <1>1, <1>2, <1>4 DEF SavesIInv, AdminHolds, DraftFollows, Covered
<1>7. HistoryGrows(a)' /\ BootingRests(a)'
  BY <1>1, <1>2 DEF HistoryGrows, BootingRests
<1>8. EditsCounted(a)'
  BY <1>2, MadeAreEdits DEF EditsCounted, NoEdit, SavesIInv
<1> QED BY <1>3, <1>5, <1>6, <1>7, <1>8 DEF AdminHolds

---------------------------------------------------------------------------
(* The saves and reads under way *)

LEMMA PagePosts ==
  ASSUME SavesIInv, NEW a \in Admin, PageStep(a), NEW p \in Posts
  PROVE  PostHolds(p)'
<1>1. Onwards /\ PostHolds(p) /\ posting[p] \in {Nothing} \cup Save
  BY PageOnwards DEF SavesIInv, SavesTypes
<1>2. CASE SaveMap(a)
  <2>1. a \notin booting /\ UNCHANGED booting /\ Covered(baseRevision[a], work[a])
    BY <1>2 DEF SaveMap, SavesIInv, AdminHolds, BaseIsKept
  <2>2. posting'[p] = posting[p] \/ posting'[p] = [at |-> "sent", by |-> a, heard |-> TRUE,
                                                    body |-> work[a], ifMatch |-> baseRevision[a]]
    BY <1>2 DEF SaveMap, Set, SavesIInv, SavesTypes
  <2>3. UNCHANGED <<dropped, crossed>>
    BY <1>2 DEF SaveMap, excused
  <2> QED BY <1>1, <2>1, <2>2, <2>3, PostStands DEF PostHolds, Covered
<1>3. CASE Reload(a)
  <2>1. booting' = booting \cup {a}
    BY <1>3 DEF Reload
  <2>2. CASE posting'[p] = posting[p] /\ (posting[p] = Nothing \/ posting[p].by # a)
    BY <1>1, <2>1, <2>2, PostStands
  <2>3. CASE posting[p] # Nothing /\ posting[p].at \in {"sent", "loaded"} /\ posting'[p] = [posting[p] EXCEPT !.heard = FALSE]
    <3>1. /\ posting'[p].at = posting[p].at /\ posting'[p].ifMatch = posting[p].ifMatch
          /\ posting'[p].body = posting[p].body /\ ~posting'[p].heard
      BY <1>1, <2>3 DEF Save, Nothing
    <3> QED BY <1>1, <2>3, <3>1 DEF PostHolds, Covered, Onwards
  <2>4. CASE posting'[p] = Nothing
    BY <2>4 DEF PostHolds
  <2> QED BY <1>3, <2>2, <2>3, <2>4 DEF Reload, HearNothing, SavesIInv, SavesTypes
<1>4. CASE ~SaveMap(a) /\ ~Reload(a)
  <2>1. posting' = posting /\ booting' \subseteq booting
    BY <1>4 DEF PageStep, traffic, MakeEdit, UndoEdit, Import, KeepMine, TakeTheirs, WriteDraft,
       RestoreDraft, DiscardDraft, Poll
  <2> QED BY <1>1, <2>1, PostStands
<1> QED BY <1>2, <1>3, <1>4

LEMMA PageReads ==
  ASSUME SavesIInv, NEW a \in Admin, PageStep(a), NEW r \in Reads
  PROVE  ReadHolds(r)'
<1>1. Onwards /\ ReadHolds(r) /\ polling[r] \in {Nothing} \cup ReadOfMap
  BY PageOnwards DEF SavesIInv, SavesTypes
<1>2. CASE TakeTheirs(a) \/ Poll(a)
  <2>1. a \notin booting /\ UNCHANGED <<booting, file>>
    BY <1>2 DEF TakeTheirs, Editing, Poll
  <2>2. polling'[r] = polling[r] \/ polling'[r] = [at |-> "read", by |-> a, map |-> file]
    BY <1>2 DEF TakeTheirs, Poll, Read, Set, SavesIInv, SavesTypes
  <2> QED BY <1>1, <2>1, <2>2, ReadStands DEF ReadHolds, Covered
<1>3. CASE Reload(a)
  <2>1. booting' = booting \cup {a}
    BY <1>3 DEF Reload
  <2>2. polling'[r] = Nothing \/ (polling'[r] = polling[r] /\ (polling[r] = Nothing \/ polling[r].by # a))
    BY <1>3 DEF Reload, HearNothing
  <2> QED BY <1>1, <2>1, <2>2, ReadStands DEF ReadHolds
<1>4. CASE ~TakeTheirs(a) /\ ~Poll(a) /\ ~Reload(a)
  <2>1. polling' = polling /\ booting' \subseteq booting
    BY <1>4 DEF PageStep, traffic, MakeEdit, UndoEdit, Import, KeepMine, WriteDraft,
       RestoreDraft, DiscardDraft, SaveMap
  <2> QED BY <1>1, <2>1, ReadStands
<1> QED BY <1>2, <1>3, <1>4

LEMMA PostPosts ==
  ASSUME SavesIInv, NEW q \in Posts, PostStep(q), NEW p \in Posts
  PROVE  PostHolds(p)'
<1>1. Onwards /\ PostHolds(p) /\ UNCHANGED booting /\ posting[p] \in {Nothing} \cup Save
  BY PostOnwards DEF SavesIInv, SavesTypes, PostStep, Loads, Stores, Saved, Refused, Unreachable
<1>2. CASE p # q
  <2>1. posting'[p] = posting[p]
    BY <1>2 DEF PostStep, Loads, Stores, Answer, Saved, Refused, Unreachable, Set, SavesIInv, SavesTypes
  <2> QED BY <1>1, <2>1, PostStands
<1>3. CASE p = q /\ Loads(p)
  <2>1. /\ posting[p] # Nothing /\ posting[p].at = "sent" /\ UNCHANGED <<dropped, crossed>>
        /\ posting'[p].at = "loaded" /\ posting'[p].current = file /\ file' = file /\ posting'[p].by = posting[p].by /\ posting'[p].heard = posting[p].heard
        /\ posting'[p].body = posting[p].body /\ posting'[p].ifMatch = posting[p].ifMatch
    BY <1>3, Records DEF Loads, Set, excused, SavesIInv, SavesTypes
  <2> QED BY <1>1, <2>1 DEF PostHolds, Covered
<1>4. CASE p = q /\ Stores(p)
  <2> DEFINE r == posting[p]
  <2>1. r # Nothing /\ r.at = "loaded" /\ (r.heard => r.by \notin booting)
    BY <1>1, <1>4, Records DEF Stores, PostHolds
  <2>2. CASE posting'[p] = Nothing
    BY <2>2 DEF PostHolds
  <2>3. CASE r.heard /\ r.ifMatch = r.current /\ posting'[p] = [at |-> "saved", by |-> r.by, body |-> r.body]
    <3> PICK m : m = r.body
      OBVIOUS
    <3>1. m \subseteq file' \cup dropped' \cup crossed'
      <4>1. m # r.current => file' = m
        BY <1>4, <2>3 DEF Stores
      <4>2. m = r.current => m \subseteq file \cup dropped \cup crossed
        BY <1>1, <1>4, <2>1 DEF PostHolds, Covered
      <4> QED BY <1>1, <4>1, <4>2 DEF Onwards
    <3>2. r.by \notin booting' /\ posting'[p].at = "saved" /\ posting'[p].body = m /\ posting'[p].by = r.by
      BY <1>1, <2>1, <2>3
    <3>3. posting'[p].by \notin booting'
      BY <3>2
    <3> HIDE DEF r
    <3> QED BY <3>1, <3>2, <3>3 DEF PostHolds, Covered
  <2>4. CASE r.heard /\ posting'[p] = [at |-> "refused", by |-> r.by]
    BY <1>1, <2>1, <2>4 DEF PostHolds
  <2> QED BY <1>4, <2>2, <2>3, <2>4 DEF Stores, Answer, Set, SavesIInv, SavesTypes
<1>5. CASE p = q /\ (Saved(p) \/ Refused(p) \/ Unreachable(p))
  BY <1>5 DEF Saved, Refused, Unreachable, Set, SavesIInv, SavesTypes, PostHolds
<1> QED BY <1>2, <1>3, <1>4, <1>5 DEF PostStep

LEMMA PostReads ==
  ASSUME SavesIInv, NEW q \in Posts, PostStep(q), NEW r \in Reads
  PROVE  ReadHolds(r)'
<1>1. Onwards /\ ReadHolds(r) /\ UNCHANGED <<booting, polling>>
  BY PostOnwards DEF SavesIInv, PostStep, Loads, Stores, Saved, Refused, Unreachable
<1> QED BY <1>1, ReadStands

LEMMA ReadTraffic ==
  ASSUME SavesIInv, NEW q \in Reads, ReadStep(q)
  PROVE  (\A p \in Posts : PostHolds(p)') /\ \A r \in Reads : ReadHolds(r)'
<1>1. Onwards /\ UNCHANGED <<booting, posting>> /\ \A r \in Reads : polling'[r] \in {polling[r], Nothing}
  BY ReadOnwards DEF SavesIInv, SavesTypes, ReadStep, PollNothing, PollConflict, PollAdopt, News, Answered, Set
<1>2. ASSUME NEW p \in Posts PROVE PostHolds(p)'
  BY <1>1, PostStands DEF SavesIInv
<1>3. ASSUME NEW r \in Reads PROVE ReadHolds(r)'
  BY <1>1, ReadStands DEF SavesIInv, ReadHolds
<1> QED BY <1>2, <1>3

---------------------------------------------------------------------------
(* The invariant *)

LEMMA SavesInitInv == SavesInit => SavesIInv
<1> SUFFICES ASSUME SavesInit PROVE SavesIInv
  OBVIOUS
<1>1. SavesTypes
  BY SaveAssumptions DEF SavesInit, SavesTypes, Map, EmptyMap
<1>2. ASSUME NEW a \in Admin PROVE AdminHolds(a)
  BY DEF SavesInit, AdminHolds, BaseIsKept, DraftFollows, BootingRests, HistoryGrows,
         EditsCounted, MarkerTells, Covered, Nothing, NoEdit, EmptyMap
<1>3. (\A p \in Posts : PostHolds(p)) /\ \A r \in Reads : ReadHolds(r)
  BY DEF SavesInit, PostHolds, ReadHolds
<1> QED BY <1>1, <1>2, <1>3 DEF SavesIInv

LEMMA SavesPageInv ==
  ASSUME SavesIInv, NEW a \in Admin, PageStep(a)
  PROVE  SavesIInv'
<1>1. SavesTypes' /\ Onwards
  BY PageTypes, PageOnwards DEF SavesIInv
<1>2. AdminHolds(a)'
  BY <1>1, PageHolds
<1>3. ASSUME NEW b \in Admin, b # a PROVE AdminHolds(b)'
  BY <1>1, <1>3, PageFrame, OthersHold DEF SavesIInv
<1> QED BY <1>1, <1>2, <1>3, PagePosts, PageReads DEF SavesIInv

LEMMA SavesPostInv ==
  ASSUME SavesIInv, NEW p \in Posts, PostStep(p)
  PROVE  SavesIInv'
<1>1. SavesTypes' /\ Onwards
  BY PostTypes, PostOnwards DEF SavesIInv
<1>2. ASSUME NEW b \in Admin PROVE AdminHolds(b)'
  <2>1. CASE Saved(p)
    <3>1. PICK a \in Admin : a = posting[p].by
      BY <2>1, Records DEF Saved, SavesIInv, SavesTypes
    <3>2. AdminHolds(a)' /\ (b # a => PageStays(b))
      BY <1>1, <2>1, <3>1, SavedHolds
    <3>3. b # a => AdminHolds(b)'
      BY <1>1, <3>2, OthersHold DEF SavesIInv
    <3> QED BY <3>2, <3>3
  <2>2. CASE ~Saved(p)
    <3>1. PageStays(b)
      BY <2>2 DEF PostStep, Loads, Stores, Refused, Unreachable, pageState, storage, PageStays
    <3> QED BY <1>1, <3>1, OthersHold DEF SavesIInv
  <2> QED BY <2>1, <2>2
<1> QED BY <1>1, <1>2, PostPosts, PostReads DEF SavesIInv

LEMMA SavesReadInv ==
  ASSUME SavesIInv, NEW r \in Reads, ReadStep(r)
  PROVE  SavesIInv'
<1>1. SavesTypes' /\ Onwards
  BY ReadTypes, ReadOnwards DEF SavesIInv
<1>2. ASSUME NEW b \in Admin PROVE AdminHolds(b)'
  <2>1. ASSUME NEW a \in Admin, PollAdopt(r, a) PROVE AdminHolds(b)'
    BY <1>1, <2>1, AdoptHolds, OthersHold DEF SavesIInv
  <2>2. ASSUME PollNothing(r) \/ \E a \in Admin : PollConflict(r, a) PROVE AdminHolds(b)'
    <3>1. PageStays(b)
      BY <2>2 DEF PollNothing, PollConflict, pageState, storage, PageStays
    <3> QED BY <1>1, <3>1, OthersHold DEF SavesIInv
  <2> QED BY <2>1, <2>2 DEF ReadStep
<1> QED BY <1>1, <1>2, ReadTraffic DEF SavesIInv

LEMMA SavesStepInv == SavesIInv /\ [SavesNext]_savesVars => SavesIInv'
<1> SUFFICES ASSUME SavesIInv, [SavesNext]_savesVars PROVE SavesIInv'
  OBVIOUS
<1>1. CASE UNCHANGED savesVars
  <2>1. SavesTypes' /\ Onwards /\ \A b \in Admin : PageStays(b)
    BY <1>1, MadeAreEdits DEF SavesIInv, SavesTypes, savesVars, traffic, pageState, storage, used, excused, Onwards, PageStays
  <2>2. UNCHANGED <<posting, polling, booting>>
    BY <1>1 DEF savesVars, traffic
  <2> QED BY <2>1, <2>2, OthersHold, PostStands, ReadStands DEF SavesIInv
<1> QED BY <1>1, SavesPageInv, SavesPostInv, SavesReadInv DEF SavesNext

LEMMA SavesInvariance == SavesSpec => []SavesIInv
BY SavesInitInv, SavesStepInv, PTL DEF SavesSpec

LEMMA SavesOnwards == SavesIInv /\ SavesNext => Onwards
BY PageOnwards, PostOnwards, ReadOnwards DEF SavesNext, SavesIInv

\* An edit leaves the map on disk only if an admin chose to do without it, or it crossed a save:
\* If-Match refuses whoever has not seen it (mapStore.saveMap).
THEOREM SavedStays == SavesSpec => SavedEditsStay
<1>1. ASSUME SavesIInv, [SavesNext]_savesVars PROVE [file \ file' \subseteq dropped' \cup crossed']_savesVars
  BY <1>1, SavesOnwards DEF Onwards
<1> QED BY <1>1, SavesInvariance, PTL DEF SavesSpec, SavedEditsStay

\* A page keeps its document and its draft until they are saved or given up.
KeptStays(b) == Kept(b) \ Kept(b)' \subseteq file' \cup dropped' \cup crossed'

LEMMA SameKept == ASSUME NEW b, PageStays(b) PROVE KeptStays(b)
BY DEF PageStays, Kept, KeptStays

LEMMA PageKept ==
  ASSUME SavesIInv, NEW a \in Admin, PageStep(a)
  PROVE  KeptStays(a)
<1> USE MadeAreEdits, Records DEF SavesIInv, SavesTypes, Set, traffic, pageState, storage, used, excused
<1>1. /\ draft[a] # Nothing /\ a \notin booting => Covered(draft[a].map, work[a] \cup file)
      /\ ~Dirty(a) => work[a] \subseteq file \cup dropped \cup crossed
      /\ a \in booting => work[a] \subseteq file \cup dropped \cup crossed
  <2>1. ~Dirty(a) => work[a] \subseteq file \cup dropped \cup crossed
    BY CleanIsCovered DEF AdminHolds
  <2>2. a \in booting => ~Dirty(a)
    BY DEF AdminHolds, BootingRests, Dirty, HistoryDirty, TopEdit
  <2> QED BY <2>1, <2>2 DEF AdminHolds, DraftFollows
<1>2. Onwards
  BY PageOnwards
<1> USE <1>1, <1>2 DEF Kept, Covered, KeptStays, Onwards
<1>3. CASE UndoEdit(a)
  BY <1>3 DEF UndoEdit
<1>4. CASE Import(a)
  BY <1>4 DEF Import, Adopt
<1>5. CASE TakeTheirs(a)
  BY <1>5 DEF TakeTheirs, Editing, Read
<1>6. CASE WriteDraft(a)
  BY <1>6 DEF WriteDraft, AdminHolds, BootingRests
<1>7. CASE Reload(a)
  BY <1>7 DEF Reload, Adopt
<1>8. CASE RestoreDraft(a)
  BY <1>8 DEF RestoreDraft, Adopt, DraftFits
<1>9. CASE DiscardDraft(a)
  BY <1>9 DEF DiscardDraft
<1>10. CASE MakeEdit(a)
  BY <1>10 DEF MakeEdit
<1>11. CASE KeepMine(a) \/ SaveMap(a) \/ Poll(a)
  BY <1>11 DEF KeepMine, SaveMap, Poll
<1> QED BY <1>3, <1>4, <1>5, <1>6, <1>7, <1>8, <1>9, <1>10, <1>11 DEF PageStep

LEMMA SavedKept ==
  ASSUME SavesIInv, NEW p \in Posts, Saved(p), NEW b \in Admin
  PROVE  KeptStays(b)
<1>0. SavesTypes' /\ Onwards
  BY PostTypes, PostOnwards DEF SavesIInv, PostStep
<1> PICK a \in Admin : a = posting[p].by
  BY Records DEF Saved, SavesIInv, SavesTypes
<1>1. CASE b # a
  BY <1>0, <1>1, SavedHolds, SameKept
<1>2. CASE b = a
  <2>1. a \notin booting /\ UNCHANGED work
    BY Records DEF Saved, SavesIInv, SavesTypes, PostHolds
  <2>2. draft[a] # Nothing => Covered(draft[a].map, work[a] \cup file)
    BY <1>2, <2>1 DEF SavesIInv, AdminHolds, DraftFollows
  <2> QED BY <1>0, <1>2, <2>1, <2>2 DEF Kept, Covered, Onwards, KeptStays
<1> QED BY <1>1, <1>2

LEMMA AdoptKept ==
  ASSUME SavesIInv, NEW r \in Reads, NEW a \in Admin, PollAdopt(r, a), NEW b \in Admin
  PROVE  KeptStays(b)
<1>0. SavesTypes' /\ Onwards
  BY ReadTypes, ReadOnwards DEF SavesIInv, ReadStep
<1>1. CASE b # a
  BY <1>0, <1>1, AdoptHolds, SameKept
<1>2. CASE b = a
  <2>1. work[a] \subseteq file \cup dropped \cup crossed /\ draft' = draft
    BY CleanIsCovered DEF PollAdopt, SavesIInv, AdminHolds, storage
  <2> QED BY <1>0, <1>2, <2>1 DEF Kept, Onwards, KeptStays
<1> QED BY <1>1, <1>2

LEMMA KeptStep ==
  ASSUME SavesIInv, SavesNext, NEW b \in Admin
  PROVE  KeptStays(b)
<1>1. ASSUME NEW a \in Admin, PageStep(a) PROVE KeptStays(b)
  BY <1>1, PageKept, PageFrame, SameKept DEF SavesIInv
<1>2. ASSUME NEW p \in Posts, PostStep(p) PROVE KeptStays(b)
  <2>1. CASE ~Saved(p)
    <3>1. PageStays(b)
      BY <1>2, <2>1 DEF PostStep, Loads, Stores, Refused, Unreachable, pageState, storage, PageStays
    <3> QED BY <3>1, SameKept
  <2> QED BY <2>1, SavedKept
<1>3. ASSUME NEW r \in Reads, ReadStep(r) PROVE KeptStays(b)
  <2>1. ASSUME PollNothing(r) \/ \E a \in Admin : PollConflict(r, a) PROVE KeptStays(b)
    <3>1. PageStays(b)
      BY <2>1 DEF PollNothing, PollConflict, pageState, storage, PageStays
    <3> QED BY <3>1, SameKept
  <2> QED BY <1>3, <2>1, AdoptKept DEF ReadStep
<1> QED BY <1>1, <1>2, <1>3 DEF SavesNext

\* Whatever is polled, adopted, conflicted, reloaded or restored, an edit leaves a page and
\* its draft only if it is saved, was given up or crossed a save (saveController.ts pollRemote,
\* draftStore.ts).
THEOREM WorkStays == SavesSpec => UnsavedWorkStays
<1>1. ASSUME SavesIInv, [SavesNext]_savesVars
      PROVE  [\A a \in Admin : Kept(a) \ Kept(a)' \subseteq file' \cup dropped' \cup crossed']_savesVars
  BY <1>1, KeptStep DEF KeptStays
<1> QED BY <1>1, SavesInvariance, PTL DEF SavesSpec, UnsavedWorkStays

---------------------------------------------------------------------------
(* The undo history: each entry leads every object, but the mixed ones,     *)
(* from one value to the next, and back.                                    *)

Content == Value \cup {None}
Commands == [id : Nat, parts : Seq(Parts)]

\* A part makes y of x, the value of t: it changes what it says was there.
Makes(t, x, p, y) == IF p.thing = t THEN x = p.was /\ y = p.now ELSE y = x

\* What Do makes of the value of t.
DoAt(t, x, p) ==
  IF p.thing # t \/ ((p.was = None) # (x = None) /\ p.now # None) THEN x ELSE p.now

\* Parts lead t from x to y through the values of some run.
Leads(t, x, parts, y) ==
  \E run \in [0 .. Len(parts) -> Content] :
    /\ run[0] = x /\ run[Len(parts)] = y
    /\ \A n \in 1 .. Len(parts) : Makes(t, run[n - 1], parts[n], run[n])

\* The entries of a stack lead t from x to y, the oldest first; or, the newest first.
Reaches(t, x, stack, y) ==
  \E run \in [0 .. Len(stack) -> Content] :
    /\ run[0] = x /\ run[Len(stack)] = y
    /\ \A n \in 1 .. Len(stack) : Leads(t, run[n - 1], stack[n].parts, run[n])

Returns(t, x, stack, y) ==
  \E run \in [0 .. Len(stack) -> Content] :
    /\ run[Len(stack)] = x /\ run[0] = y
    /\ \A n \in 1 .. Len(stack) : Leads(t, run[n], stack[n].parts, run[n - 1])

HistoryTypes ==
  /\ doc \in Doc /\ base \in Doc /\ starts \in Doc
  /\ done \in Seq(Commands) /\ undone \in Seq(Commands)
  /\ txn \in [open : BOOLEAN, parts : Seq(Parts)]
  /\ ~txn.open => txn.parts = <<>>
  /\ Quiet => ~txn.open
  /\ issued \in Nat /\ mixed \in SUBSET Thing

\* z is the value of t with what is open taken back: a member of a gesture is there, and the
\* gesture has it to itself.
IsSettled(t, z) ==
  IF t \in Moved THEN z = starts[t] /\ doc[t] # None /\ t \notin Things(txn.parts)
  ELSE Leads(t, z, txn.parts, doc[t])

\* The entries lead from base to it, and the undone ones on from it.
EntriesLead(t) ==
  \E z \in Content : /\ IsSettled(t, z) /\ Reaches(t, base[t], done, z)
                     /\ \E e \in Content : Returns(t, z, undone, e)

HistoryIInv == HistoryTypes /\ \A t \in Thing \ mixed : EntriesLead(t)

---------------------------------------------------------------------------
\* Two runs that begin alike and go on alike are alike.
LEMMA AlikeThroughout ==
  ASSUME NEW l \in Nat, NEW f, NEW g, f[0] = g[0],
         \A n \in 1 .. l : f[n - 1] = g[n - 1] => f[n] = g[n]
  PROVE  \A n \in 0 .. l : f[n] = g[n]
<1> DEFINE bad == {n \in 0 .. l : f[n] # g[n]}
<1> SUFFICES ASSUME bad # {} PROVE FALSE
  OBVIOUS
<1>1. bad \in SUBSET Nat
  OBVIOUS
<1>2. PICK m \in bad : \A n \in bad : ~(<<n, m>> \in OpToRel(<, Nat))
  <2> HIDE DEF bad
  <2> QED
    BY <1>1, NatLessThanWellFounded, WFMin
<1>3. m \in 1 .. l /\ m - 1 \in 0 .. l /\ m - 1 < m /\ m \in Nat /\ m - 1 \in Nat
  OBVIOUS
<1>4. m - 1 \in bad
  BY <1>3
<1>5. <<m - 1, m>> \in OpToRel(<, Nat)
  BY <1>3 DEF OpToRel
<1> QED
  BY <1>2, <1>4, <1>5

\* Whatever the steps, there is a run of them.
AreSteps(S, l, step) == step \in [1 .. l -> [S -> S]]
HasRun(S, x, l, step) ==
  \E run \in [0 .. l -> S] : run[0] = x /\ \A n \in 1 .. l : run[n] = step[n][run[n - 1]]

LEMMA RunOfSteps ==
  ASSUME NEW S, NEW x \in S, NEW l \in Nat, NEW step, AreSteps(S, l, step)
  PROVE  HasRun(S, x, l, step)
<1> DEFINE IsRun(m, run) == run[0] = x /\ \A n \in 1 .. m : run[n] = step[n][run[n - 1]]
           bad == {m \in 0 .. l : ~\E run \in [0 .. m -> S] : IsRun(m, run)}
<1> SUFFICES ASSUME bad # {} PROVE FALSE
  <2>1. l \in 0 .. l
    OBVIOUS
  <2> QED
    BY <2>1 DEF HasRun
<1>1. bad \in SUBSET Nat
  OBVIOUS
<1>2. PICK m \in bad : \A n \in bad : ~(<<n, m>> \in OpToRel(<, Nat))
  <2> HIDE DEF bad
  <2> QED
    BY <1>1, NatLessThanWellFounded, WFMin
<1>3. m # 0
  <2>1. [n \in 0 .. 0 |-> x] \in [0 .. 0 -> S] /\ IsRun(0, [n \in 0 .. 0 |-> x])
    OBVIOUS
  <2> QED
    BY <2>1
<1>4. m \in 1 .. l /\ m - 1 \in 0 .. l /\ m - 1 < m /\ m \in Nat /\ m - 1 \in Nat
  BY <1>3
<1>5. <<m - 1, m>> \in OpToRel(<, Nat)
  BY <1>4 DEF OpToRel
<1>6. m - 1 \notin bad
  BY <1>2, <1>5
<1>7. PICK run \in [0 .. m - 1 -> S] : IsRun(m - 1, run)
  <2> HIDE DEF IsRun
  <2> QED
    BY <1>4, <1>6
<1>8. PICK k : k = m - 1
  OBVIOUS
<1> HIDE DEF bad, IsRun
<1>9. /\ k \in Nat /\ m = k + 1 /\ k \in 0 .. k /\ 0 \in 0 .. k /\ m \in 0 .. m /\ m \notin 0 .. k
      /\ \A n \in 0 .. k : n \in 0 .. m /\ n # m
      /\ \A n \in 0 .. m : n = m \/ n \in 0 .. k
      /\ \A n \in 1 .. m : (n = m /\ n - 1 = k) \/ (n \in 1 .. k /\ n \in 0 .. k /\ n - 1 \in 0 .. k)
  BY <1>4, <1>8
<1>10. run \in [0 .. k -> S] /\ run[k] \in S /\ step[m] \in [S -> S] /\ step[m][run[k]] \in S
  BY <1>4, <1>7, <1>8, <1>9 DEF AreSteps
<1>11. PICK on : on = [n \in 0 .. m |-> IF n = m THEN step[m][run[k]] ELSE run[n]]
  OBVIOUS
<1>12. on \in [0 .. m -> S] /\ on[m] = step[m][run[k]] /\ \A n \in 0 .. k : on[n] = run[n]
  BY <1>9, <1>11, <1>10
<1>13. run[0] = x /\ \A n \in 1 .. k : run[n] = step[n][run[n - 1]]
  BY <1>7, <1>8 DEF IsRun
<1>14. IsRun(m, on)
  BY <1>9, <1>12, <1>13 DEF IsRun
<1> QED
  BY <1>4, <1>12, <1>14 DEF bad

\* DoAll is what a run of its steps comes to.
LEMMA RunMeets ==
  ASSUME NEW d, NEW parts, Len(parts) \in Nat, NEW run, run[0] = d,
         \A n \in 1 .. Len(parts) : run[n] = Do(run[n - 1], parts[n])
  PROVE  DoAll(d, parts) = run[Len(parts)]
<1> DEFINE Next1(f) == [n \in 0 .. Len(parts) |-> IF n = 0 THEN d ELSE Do(f[n - 1], parts[n])]
           after == CHOOSE f : f = Next1(f)
           own == [n \in 0 .. Len(parts) |-> run[n]]
<1>1. own = Next1(own)
  <2>1. ASSUME NEW n \in 0 .. Len(parts)
        PROVE  run[n] = IF n = 0 THEN d ELSE Do(own[n - 1], parts[n])
    <3>1. CASE n = 0
      BY <3>1
    <3>2. CASE n # 0
      <4>1. n \in 1 .. Len(parts) /\ n - 1 \in 0 .. Len(parts)
        BY <3>2
      <4> QED
        BY <3>2, <4>1
    <3> QED
      BY <3>1, <3>2
  <2> QED
    BY <2>1
<1>2. after = Next1(after)
  <2> HIDE DEF Next1, own
  <2> QED
    BY <1>1
<1>3. DoAll(d, parts) = after[Len(parts)]
  BY DEF DoAll
<1>4. /\ after[0] = d
      /\ \A n \in 1 .. Len(parts) : after[n] = Do(after[n - 1], parts[n])
  <2>1. PICK f : f = after
    OBVIOUS
  <2>2. f = [n \in 0 .. Len(parts) |-> IF n = 0 THEN d ELSE Do(f[n - 1], parts[n])]
    BY <1>2, <2>1
  <2>3. 0 \in 0 .. Len(parts) /\ \A n \in 1 .. Len(parts) : n \in 0 .. Len(parts) /\ n # 0
    OBVIOUS
  <2>4. f[0] = d /\ \A n \in 1 .. Len(parts) : f[n] = Do(f[n - 1], parts[n])
    BY <2>2, <2>3
  <2> QED
    BY <2>1, <2>4
<1> HIDE DEF after
<1>5. \A n \in 0 .. Len(parts) : after[n] = run[n]
  <2>1. PICK f : f = after
    OBVIOUS
  <2>2. f[0] = run[0] /\ \A n \in 1 .. Len(parts) : f[n - 1] = run[n - 1] => f[n] = run[n]
    BY <1>4, <2>1
  <2>3. \A n \in 0 .. Len(parts) : f[n] = run[n]
    BY <2>2, AlikeThroughout, ZenonT(60), SMTT(30)
  <2> QED
    BY <2>1, <2>3
<1> QED
  BY <1>3, <1>5

\* The same for the entries of a stack.
LEMMA UndoesMeet ==
  ASSUME NEW d, NEW stack, Len(stack) \in Nat, NEW run, run[0] = d,
         \A n \in 1 .. Len(stack) : run[n] = UndoAll(run[n - 1], stack[Len(stack) + 1 - n].parts)
  PROVE  UndoEach(d, stack) = run[Len(stack)]
<1> DEFINE Next1(f) ==
             [n \in 0 .. Len(stack) |->
                IF n = 0 THEN d ELSE UndoAll(f[n - 1], stack[Len(stack) + 1 - n].parts)]
           after == CHOOSE f : f = Next1(f)
           own == [n \in 0 .. Len(stack) |-> run[n]]
<1>1. own = Next1(own)
  <2>1. ASSUME NEW n \in 0 .. Len(stack)
        PROVE  run[n] = IF n = 0 THEN d ELSE UndoAll(own[n - 1], stack[Len(stack) + 1 - n].parts)
    <3>1. CASE n = 0
      BY <3>1
    <3>2. CASE n # 0
      <4>1. n \in 1 .. Len(stack) /\ n - 1 \in 0 .. Len(stack)
        BY <3>2
      <4> QED
        BY <3>2, <4>1
    <3> QED
      BY <3>1, <3>2
  <2> QED
    BY <2>1
<1>2. after = Next1(after)
  <2> HIDE DEF Next1, own
  <2> QED
    BY <1>1
<1>3. UndoEach(d, stack) = after[Len(stack)]
  BY DEF UndoEach
<1>4. /\ after[0] = d
      /\ \A n \in 1 .. Len(stack) : after[n] = UndoAll(after[n - 1], stack[Len(stack) + 1 - n].parts)
  <2>1. PICK f : f = after
    OBVIOUS
  <2>2. f = [n \in 0 .. Len(stack) |->
               IF n = 0 THEN d ELSE UndoAll(f[n - 1], stack[Len(stack) + 1 - n].parts)]
    BY <1>2, <2>1, ZenonT(60), SMTT(30)
  <2>3. 0 \in 0 .. Len(stack) /\ \A n \in 1 .. Len(stack) : n \in 0 .. Len(stack) /\ n # 0
    OBVIOUS
  <2>4. f[0] = d /\ \A n \in 1 .. Len(stack) : f[n] = UndoAll(f[n - 1], stack[Len(stack) + 1 - n].parts)
    BY <2>2, <2>3
  <2> QED
    BY <2>1, <2>4
<1> HIDE DEF after
<1>5. \A n \in 0 .. Len(stack) : after[n] = run[n]
  <2>1. PICK f : f = after
    OBVIOUS
  <2>2. f[0] = run[0] /\ \A n \in 1 .. Len(stack) : f[n - 1] = run[n - 1] => f[n] = run[n]
    BY <1>4, <2>1
  <2>3. \A n \in 0 .. Len(stack) : f[n] = run[n]
    BY <2>2, AlikeThroughout, ZenonT(60), SMTT(30)
  <2> QED
    BY <2>1, <2>3
<1> QED
  BY <1>3, <1>5

LEMMA RedoesMeet ==
  ASSUME NEW d, NEW stack, Len(stack) \in Nat, NEW run, run[0] = d,
         \A n \in 1 .. Len(stack) : run[n] = DoAll(run[n - 1], stack[Len(stack) + 1 - n].parts)
  PROVE  RedoEach(d, stack) = run[Len(stack)]
<1> DEFINE Next1(f) ==
             [n \in 0 .. Len(stack) |->
                IF n = 0 THEN d ELSE DoAll(f[n - 1], stack[Len(stack) + 1 - n].parts)]
           after == CHOOSE f : f = Next1(f)
           own == [n \in 0 .. Len(stack) |-> run[n]]
<1>1. own = Next1(own)
  <2>1. ASSUME NEW n \in 0 .. Len(stack)
        PROVE  run[n] = IF n = 0 THEN d ELSE DoAll(own[n - 1], stack[Len(stack) + 1 - n].parts)
    <3>1. CASE n = 0
      BY <3>1
    <3>2. CASE n # 0
      <4>1. n \in 1 .. Len(stack) /\ n - 1 \in 0 .. Len(stack)
        BY <3>2
      <4> QED
        BY <3>2, <4>1
    <3> QED
      BY <3>1, <3>2
  <2> QED
    BY <2>1
<1>2. after = Next1(after)
  <2> HIDE DEF Next1, own
  <2> QED
    BY <1>1
<1>3. RedoEach(d, stack) = after[Len(stack)]
  BY DEF RedoEach
<1>4. /\ after[0] = d
      /\ \A n \in 1 .. Len(stack) : after[n] = DoAll(after[n - 1], stack[Len(stack) + 1 - n].parts)
  <2>1. PICK f : f = after
    OBVIOUS
  <2>2. f = [n \in 0 .. Len(stack) |->
               IF n = 0 THEN d ELSE DoAll(f[n - 1], stack[Len(stack) + 1 - n].parts)]
    BY <1>2, <2>1, ZenonT(60), SMTT(30)
  <2>3. 0 \in 0 .. Len(stack) /\ \A n \in 1 .. Len(stack) : n \in 0 .. Len(stack) /\ n # 0
    OBVIOUS
  <2>4. f[0] = d /\ \A n \in 1 .. Len(stack) : f[n] = DoAll(f[n - 1], stack[Len(stack) + 1 - n].parts)
    BY <2>2, <2>3
  <2> QED
    BY <2>1, <2>4
<1> HIDE DEF after
<1>5. \A n \in 0 .. Len(stack) : after[n] = run[n]
  <2>1. PICK f : f = after
    OBVIOUS
  <2>2. f[0] = run[0] /\ \A n \in 1 .. Len(stack) : f[n - 1] = run[n - 1] => f[n] = run[n]
    BY <1>4, <2>1
  <2>3. \A n \in 0 .. Len(stack) : f[n] = run[n]
    BY <2>2, AlikeThroughout, ZenonT(60), SMTT(30)
  <2> QED
    BY <2>1, <2>3
<1> QED
  BY <1>3, <1>5

---------------------------------------------------------------------------
\* Documents stay documents, and each object goes its own way.
LEMMA DoIs ==
  ASSUME NEW d \in Doc, NEW p \in Parts
  PROVE  /\ Do(d, p) \in Doc /\ InverseOf(p) \in Parts
         /\ \A t \in Thing : Do(d, p)[t] = DoAt(t, d[t], p)
<1>1. /\ p.thing \in Thing /\ p.was \in Content /\ p.now \in Content
      /\ d \in [Thing -> Content]
  BY DEF Parts, Doc, Content
<1>2. PICK e : e = [d EXCEPT ![p.thing] = p.now]
  OBVIOUS
<1>3. e \in Doc /\ \A t \in Thing : e[t] = IF t = p.thing THEN p.now ELSE d[t]
  BY <1>1, <1>2 DEF Doc, Content
<1>4. Do(d, p) = IF (p.was = None) # (d[p.thing] = None) /\ p.now # None THEN d ELSE e
  BY <1>2 DEF Do
<1>5. InverseOf(p) \in Parts
  BY DEF InverseOf, Parts
<1> QED
  BY <1>3, <1>4, <1>5 DEF DoAt

LEMMA DoAllRuns ==
  ASSUME NEW d \in Doc, NEW parts \in Seq(Parts)
  PROVE  \E run \in [0 .. Len(parts) -> Doc] :
           /\ run[0] = d /\ run[Len(parts)] = DoAll(d, parts)
           /\ \A n \in 1 .. Len(parts) : run[n] = Do(run[n - 1], parts[n])
<1>1. PICK l : l = Len(parts)
  OBVIOUS
<1>2. l \in Nat /\ \A n \in 1 .. l : parts[n] \in Parts
  BY <1>1
<1>3. PICK step : step = [n \in 1 .. l |-> [x \in Doc |-> Do(x, parts[n])]]
  OBVIOUS
<1>4. step \in [1 .. l -> [Doc -> Doc]]
  <2>1. \A n \in 1 .. l : \A x \in Doc : Do(x, parts[n]) \in Doc
    BY <1>2, DoIs
  <2> QED
    BY <1>3, <2>1
<1>5. PICK run \in [0 .. l -> Doc] : run[0] = d /\ \A n \in 1 .. l : run[n] = step[n][run[n - 1]]
  <2>1. AreSteps(Doc, l, step)
    BY <1>4 DEF AreSteps
  <2>2. HasRun(Doc, d, l, step)
    BY <1>2, <2>1, RunOfSteps
  <2> QED
    BY <2>2 DEF HasRun
<1>6. \A n \in 1 .. l : run[n] = Do(run[n - 1], parts[n])
  <2>1. ASSUME NEW n \in 1 .. l PROVE run[n] = Do(run[n - 1], parts[n])
    <3>1. n - 1 \in 0 .. l
      BY <1>2
    <3>2. run[n - 1] \in Doc
      BY <1>5, <3>1
    <3> QED
      BY <1>3, <1>5, <3>2
  <2> QED
    BY <2>1
<1>7. DoAll(d, parts) = run[l]
  BY <1>1, <1>2, <1>5, <1>6, RunMeets
<1> QED
  BY <1>1, <1>5, <1>6, <1>7

LEMMA BackwardsIs ==
  ASSUME NEW parts \in Seq(Parts)
  PROVE  /\ Backwards(parts) \in Seq(Parts) /\ Len(Backwards(parts)) = Len(parts)
         /\ \A i \in 1 .. Len(parts) : Backwards(parts)[i] = InverseOf(parts[Len(parts) + 1 - i])
<1>1. PICK l, back : l = Len(parts) /\ back = Backwards(parts)
  OBVIOUS
<1>2. l \in Nat /\ DOMAIN parts = 1 .. l /\ \A n \in 1 .. l : parts[n] \in Parts
  BY <1>1
<1>3. back = [i \in 1 .. l |-> InverseOf(parts[l + 1 - i])]
  BY <1>1, <1>2 DEF Backwards
<1>4. \A i \in 1 .. l : l + 1 - i \in 1 .. l
  BY <1>2
<1>5. \A i \in 1 .. l : InverseOf(parts[l + 1 - i]) \in Parts
  <2>1. \A p \in Parts : InverseOf(p) \in Parts
    BY DEF InverseOf, Parts
  <2> QED
    BY <1>2, <1>4, <2>1
<1>6. back \in Seq(Parts) /\ Len(back) = l
  BY <1>2, <1>3, <1>5
<1> QED
  BY <1>1, <1>3, <1>6

LEMMA DocumentsStay ==
  ASSUME NEW d \in Doc, NEW parts \in Seq(Parts)
  PROVE  DoAll(d, parts) \in Doc /\ UndoAll(d, parts) \in Doc
<1>1. \A any \in Seq(Parts) : DoAll(d, any) \in Doc
  <2>1. ASSUME NEW any \in Seq(Parts) PROVE DoAll(d, any) \in Doc
    <3>1. PICK run \in [0 .. Len(any) -> Doc] : run[Len(any)] = DoAll(d, any)
      BY DoAllRuns
    <3>2. Len(any) \in 0 .. Len(any)
      OBVIOUS
    <3> QED
      BY <3>1, <3>2
  <2> QED
    BY <2>1
<1> QED
  BY <1>1, BackwardsIs DEF UndoAll

LEMMA MakesBothWays ==
  ASSUME NEW t, NEW x, NEW p \in Parts, NEW y, Makes(t, x, p, y)
  PROVE  DoAt(t, x, p) = y /\ DoAt(t, y, InverseOf(p)) = x
<1>1. InverseOf(p).thing = p.thing /\ InverseOf(p).was = p.now /\ InverseOf(p).now = p.was
  BY DEF InverseOf, Parts
<1> QED
  BY <1>1 DEF DoAt, Makes

\* What leads from x to y does so, and back.
LEMMA LeadsForth ==
  ASSUME NEW d \in Doc, NEW parts \in Seq(Parts), NEW t \in Thing, NEW y, Leads(t, d[t], parts, y)
  PROVE  DoAll(d, parts)[t] = y
<1>1. PICK l : l = Len(parts)
  OBVIOUS
<1>2. l \in Nat /\ \A n \in 1 .. l : parts[n] \in Parts /\ n - 1 \in 0 .. l
  BY <1>1
<1>3. PICK g \in [0 .. l -> Content] :
        g[0] = d[t] /\ g[l] = y /\ \A n \in 1 .. l : Makes(t, g[n - 1], parts[n], g[n])
  BY <1>1 DEF Leads
<1>4. PICK run \in [0 .. l -> Doc] :
        /\ run[0] = d /\ run[l] = DoAll(d, parts)
        /\ \A n \in 1 .. l : run[n] = Do(run[n - 1], parts[n])
  BY <1>1, DoAllRuns
<1>5. PICK f : f = [n \in 0 .. l |-> run[n][t]]
  OBVIOUS
<1>6. f[0] = g[0]
  <2>1. 0 \in 0 .. l
    BY <1>2
  <2> QED
    BY <1>3, <1>4, <1>5, <2>1
<1>7. ASSUME NEW n \in 1 .. l, f[n - 1] = g[n - 1]
      PROVE  f[n] = g[n]
  <2>1. n \in 0 .. l /\ n - 1 \in 0 .. l /\ parts[n] \in Parts
    BY <1>2
  <2>2. run[n - 1] \in Doc /\ run[n] = Do(run[n - 1], parts[n])
    BY <1>4, <2>1
  <2>3. f[n] = DoAt(t, f[n - 1], parts[n])
    BY <1>5, <2>1, <2>2, DoIs
  <2>4. DoAt(t, g[n - 1], parts[n]) = g[n]
    BY <1>3, <2>1, MakesBothWays
  <2> QED
    BY <1>7, <2>3, <2>4
<1>8. \A n \in 0 .. l : f[n] = g[n]
  <2>1. l \in Nat /\ f[0] = g[0] /\ \A n \in 1 .. l : f[n - 1] = g[n - 1] => f[n] = g[n]
    BY <1>2, <1>6, <1>7
  <2> QED
    BY <2>1, AlikeThroughout, ZenonT(60), SMTT(30)
<1>9. l \in 0 .. l
  BY <1>2
<1> QED
  BY <1>3, <1>4, <1>5, <1>8, <1>9

LEMMA LeadsBack ==
  ASSUME NEW d \in Doc, NEW parts \in Seq(Parts), NEW t \in Thing, NEW x, Leads(t, x, parts, d[t])
  PROVE  UndoAll(d, parts)[t] = x
<1>1. PICK l, back : l = Len(parts) /\ back = Backwards(parts)
  OBVIOUS
<1>2. /\ l \in Nat /\ \A n \in 1 .. l : parts[n] \in Parts
      /\ back \in Seq(Parts) /\ Len(back) = l
      /\ \A i \in 1 .. l : back[i] = InverseOf(parts[l + 1 - i])
  BY <1>1, BackwardsIs
<1>3. PICK r \in [0 .. l -> Content] :
        r[0] = x /\ r[l] = d[t] /\ \A n \in 1 .. l : Makes(t, r[n - 1], parts[n], r[n])
  BY <1>1 DEF Leads
<1>4. PICK run \in [0 .. l -> Doc] :
        /\ run[0] = d /\ run[l] = DoAll(d, back)
        /\ \A n \in 1 .. l : run[n] = Do(run[n - 1], back[n])
  BY <1>2, DoAllRuns
<1>5. PICK f, g : f = [n \in 0 .. l |-> run[n][t]] /\ g = [n \in 0 .. l |-> r[l - n]]
  OBVIOUS
<1>6. f[0] = g[0] /\ l \in 0 .. l /\ g[l] = x
  <2>1. 0 \in 0 .. l /\ l \in 0 .. l /\ l - 0 = l /\ l - l = 0
    BY <1>2
  <2> QED
    BY <1>3, <1>4, <1>5, <2>1
<1>7. ASSUME NEW n \in 1 .. l, f[n - 1] = g[n - 1]
      PROVE  f[n] = g[n]
  <2>1. PICK k : k = l + 1 - n
    OBVIOUS
  <2>2. /\ n \in 0 .. l /\ n - 1 \in 0 .. l /\ k \in 1 .. l
        /\ l - n = k - 1 /\ l - (n - 1) = k
    BY <1>2, <2>1
  <2>3. run[n - 1] \in Doc /\ run[n] = Do(run[n - 1], back[n]) /\ back[n] \in Parts
        /\ back[n] = InverseOf(parts[k]) /\ parts[k] \in Parts
    BY <1>2, <1>4, <2>1, <2>2
  <2>4. f[n] = DoAt(t, f[n - 1], back[n])
    BY <1>5, <2>2, <2>3, DoIs
  <2>5. Makes(t, r[k - 1], parts[k], r[k])
    BY <1>3, <2>2
  <2>6. DoAt(t, r[k], back[n]) = r[k - 1]
    <3>1. PICK p, a, b : p = parts[k] /\ a = r[k - 1] /\ b = r[k]
      OBVIOUS
    <3>2. p \in Parts /\ Makes(t, a, p, b)
      BY <2>3, <2>5, <3>1
    <3>3. DoAt(t, b, InverseOf(p)) = a
      BY <3>2, MakesBothWays, SMTT(30), ZenonT(30)
    <3> QED
      BY <2>3, <3>1, <3>3
  <2>7. g[n - 1] = r[k] /\ g[n] = r[k - 1]
    BY <1>5, <2>2
  <2> QED
    BY <1>7, <2>4, <2>6, <2>7
<1>8. \A n \in 0 .. l : f[n] = g[n]
  <2>1. l \in Nat /\ f[0] = g[0] /\ \A n \in 1 .. l : f[n - 1] = g[n - 1] => f[n] = g[n]
    BY <1>2, <1>6, <1>7
  <2> QED
    BY <2>1, AlikeThroughout, ZenonT(60), SMTT(30)
<1> QED
  BY <1>1, <1>4, <1>5, <1>6, <1>8 DEF UndoAll

\* Parts of other objects lead from a value to itself alone.
LEMMA Untouched ==
  ASSUME NEW t \in Thing, NEW parts \in Seq(Parts), t \notin Things(parts)
  PROVE  /\ \A x \in Content : Leads(t, x, parts, x)
         /\ \A x, y : Leads(t, x, parts, y) => y = x
<1>1. PICK l : l = Len(parts)
  OBVIOUS
<1>2. l \in Nat /\ 0 \in 0 .. l /\ l \in 0 .. l /\ \A n \in 1 .. l : n - 1 \in 0 .. l /\ n \in 0 .. l
  BY <1>1
<1>3. \A n \in 1 .. l : parts[n].thing # t
  <2>1. DOMAIN parts = 1 .. l
    BY <1>1
  <2> QED
    BY <2>1 DEF Things, Range
<1>4. ASSUME NEW x \in Content PROVE Leads(t, x, parts, x)
  <2>1. PICK run : run = [n \in 0 .. l |-> x]
    OBVIOUS
  <2>2. run \in [0 .. l -> Content] /\ run[0] = x /\ run[l] = x
    BY <1>2, <2>1
  <2>3. \A n \in 1 .. l : Makes(t, run[n - 1], parts[n], run[n])
    BY <1>2, <1>3, <2>1 DEF Makes
  <2> QED
    BY <1>1, <2>2, <2>3 DEF Leads
<1>5. ASSUME NEW x, NEW y, Leads(t, x, parts, y) PROVE y = x
  <2>1. PICK run \in [0 .. l -> Content] :
          run[0] = x /\ run[l] = y /\ \A n \in 1 .. l : Makes(t, run[n - 1], parts[n], run[n])
    BY <1>1, <1>5 DEF Leads
  <2>2. PICK g : g = [n \in 0 .. l |-> x]
    OBVIOUS
  <2>3. run[0] = g[0]
    BY <1>2, <2>1, <2>2
  <2>4. \A n \in 1 .. l : run[n - 1] = g[n - 1] => run[n] = g[n]
    BY <1>2, <1>3, <2>1, <2>2 DEF Makes
  <2>5. \A n \in 0 .. l : run[n] = g[n]
    <3>1. l \in Nat /\ run[0] = g[0] /\ \A n \in 1 .. l : run[n - 1] = g[n - 1] => run[n] = g[n]
      BY <1>2, <2>3, <2>4
    <3> QED
      BY <3>1, AlikeThroughout, ZenonT(60), SMTT(30)
  <2> QED
    BY <1>2, <2>1, <2>2, <2>5
<1> QED
  BY <1>4, <1>5

LEMMA EntriesHaveParts ==
  ASSUME NEW stack \in Seq(Commands)
  PROVE  /\ Len(stack) \in Nat /\ DOMAIN stack = 1 .. Len(stack)
         /\ \A n \in 1 .. Len(stack) : stack[n] \in Commands /\ stack[n].parts \in Seq(Parts)
<1>1. /\ Len(stack) \in Nat /\ DOMAIN stack = 1 .. Len(stack)
      /\ \A n \in 1 .. Len(stack) : stack[n] \in Commands
  OBVIOUS
<1>2. \A c \in Commands : c.parts \in Seq(Parts)
  BY DEF Commands
<1> QED
  BY <1>1, <1>2

\* The same for the entries of a stack.
LEMMA UndoEachRuns ==
  ASSUME NEW d \in Doc, NEW stack \in Seq(Commands)
  PROVE  \E run \in [0 .. Len(stack) -> Doc] :
           /\ run[0] = d /\ run[Len(stack)] = UndoEach(d, stack)
           /\ \A n \in 1 .. Len(stack) : run[n] = UndoAll(run[n - 1], stack[Len(stack) + 1 - n].parts)
<1>1. PICK l : l = Len(stack)
  OBVIOUS
<1>2. l \in Nat /\ \A n \in 1 .. l : n - 1 \in 0 .. l /\ stack[l + 1 - n].parts \in Seq(Parts)
  <2>1. l \in Nat /\ \A n \in 1 .. l : stack[n].parts \in Seq(Parts)
    BY <1>1, EntriesHaveParts
  <2>2. \A n \in 1 .. l : l + 1 - n \in 1 .. l /\ n - 1 \in 0 .. l
    BY <2>1
  <2> QED
    BY <2>1, <2>2
<1>3. PICK step : step = [n \in 1 .. l |-> [x \in Doc |-> UndoAll(x, stack[l + 1 - n].parts)]]
  OBVIOUS
<1>4. AreSteps(Doc, l, step)
  <2>1. \A n \in 1 .. l : \A x \in Doc : UndoAll(x, stack[l + 1 - n].parts) \in Doc
    BY <1>2, DocumentsStay
  <2> QED
    BY <1>3, <2>1 DEF AreSteps
<1>5. PICK run \in [0 .. l -> Doc] : run[0] = d /\ \A n \in 1 .. l : run[n] = step[n][run[n - 1]]
  <2>1. HasRun(Doc, d, l, step)
    BY <1>2, <1>4, RunOfSteps
  <2> QED
    BY <2>1 DEF HasRun
<1>6. \A n \in 1 .. l : run[n] = UndoAll(run[n - 1], stack[l + 1 - n].parts)
  <2>1. ASSUME NEW n \in 1 .. l PROVE run[n] = UndoAll(run[n - 1], stack[l + 1 - n].parts)
    <3>1. run[n - 1] \in Doc
      BY <1>2, <1>5
    <3> QED
      BY <1>3, <1>5, <3>1
  <2> QED
    BY <2>1
<1>7. UndoEach(d, stack) = run[l]
  BY <1>1, <1>2, <1>5, <1>6, UndoesMeet
<1> QED
  BY <1>1, <1>5, <1>6, <1>7

LEMMA RedoEachRuns ==
  ASSUME NEW d \in Doc, NEW stack \in Seq(Commands)
  PROVE  \E run \in [0 .. Len(stack) -> Doc] :
           /\ run[0] = d /\ run[Len(stack)] = RedoEach(d, stack)
           /\ \A n \in 1 .. Len(stack) : run[n] = DoAll(run[n - 1], stack[Len(stack) + 1 - n].parts)
<1>1. PICK l : l = Len(stack)
  OBVIOUS
<1>2. l \in Nat /\ \A n \in 1 .. l : n - 1 \in 0 .. l /\ stack[l + 1 - n].parts \in Seq(Parts)
  <2>1. l \in Nat /\ \A n \in 1 .. l : stack[n].parts \in Seq(Parts)
    BY <1>1, EntriesHaveParts
  <2>2. \A n \in 1 .. l : l + 1 - n \in 1 .. l /\ n - 1 \in 0 .. l
    BY <2>1
  <2> QED
    BY <2>1, <2>2
<1>3. PICK step : step = [n \in 1 .. l |-> [x \in Doc |-> DoAll(x, stack[l + 1 - n].parts)]]
  OBVIOUS
<1>4. AreSteps(Doc, l, step)
  <2>1. \A n \in 1 .. l : \A x \in Doc : DoAll(x, stack[l + 1 - n].parts) \in Doc
    BY <1>2, DocumentsStay
  <2> QED
    BY <1>3, <2>1 DEF AreSteps
<1>5. PICK run \in [0 .. l -> Doc] : run[0] = d /\ \A n \in 1 .. l : run[n] = step[n][run[n - 1]]
  <2>1. HasRun(Doc, d, l, step)
    BY <1>2, <1>4, RunOfSteps
  <2> QED
    BY <2>1 DEF HasRun
<1>6. \A n \in 1 .. l : run[n] = DoAll(run[n - 1], stack[l + 1 - n].parts)
  <2>1. ASSUME NEW n \in 1 .. l PROVE run[n] = DoAll(run[n - 1], stack[l + 1 - n].parts)
    <3>1. run[n - 1] \in Doc
      BY <1>2, <1>5
    <3> QED
      BY <1>3, <1>5, <3>1
  <2> QED
    BY <2>1
<1>7. RedoEach(d, stack) = run[l]
  BY <1>1, <1>2, <1>5, <1>6, RedoesMeet
<1> QED
  BY <1>1, <1>5, <1>6, <1>7

LEMMA ReachesBack ==
  ASSUME NEW d \in Doc, NEW stack \in Seq(Commands), NEW t \in Thing, NEW x, Reaches(t, x, stack, d[t])
  PROVE  UndoEach(d, stack)[t] = x
<1>1. PICK l : l = Len(stack)
  OBVIOUS
<1>2. l \in Nat /\ \A n \in 1 .. l : stack[n].parts \in Seq(Parts)
  BY <1>1, EntriesHaveParts
<1>3. PICK r \in [0 .. l -> Content] :
        r[0] = x /\ r[l] = d[t] /\ \A n \in 1 .. l : Leads(t, r[n - 1], stack[n].parts, r[n])
  BY <1>1 DEF Reaches
<1>4. PICK run \in [0 .. l -> Doc] :
        /\ run[0] = d /\ run[l] = UndoEach(d, stack)
        /\ \A n \in 1 .. l : run[n] = UndoAll(run[n - 1], stack[l + 1 - n].parts)
  BY <1>1, UndoEachRuns, SMTT(30), ZenonT(30)
<1>5. PICK f, g : f = [n \in 0 .. l |-> run[n][t]] /\ g = [n \in 0 .. l |-> r[l - n]]
  OBVIOUS
<1>6. f[0] = g[0] /\ l \in 0 .. l /\ g[l] = x
  <2>1. 0 \in 0 .. l /\ l \in 0 .. l /\ l - 0 = l /\ l - l = 0
    BY <1>2
  <2> QED
    BY <1>3, <1>4, <1>5, <2>1
<1>7. ASSUME NEW n \in 1 .. l, f[n - 1] = g[n - 1]
      PROVE  f[n] = g[n]
  <2>1. PICK k, parts, before : k = l + 1 - n /\ parts = stack[k].parts /\ before = run[n - 1]
    OBVIOUS
  <2>2. /\ n \in 0 .. l /\ n - 1 \in 0 .. l /\ k \in 1 .. l
        /\ l - n = k - 1 /\ l - (n - 1) = k
    BY <1>2, <2>1
  <2>3. before \in Doc /\ run[n] = UndoAll(before, parts) /\ parts \in Seq(Parts)
    BY <1>2, <1>4, <2>1, <2>2
  <2>4. g[n - 1] = r[k] /\ g[n] = r[k - 1] /\ f[n - 1] = before[t] /\ f[n] = UndoAll(before, parts)[t]
    BY <1>5, <2>1, <2>2, <2>3
  <2>5. Leads(t, r[k - 1], parts, before[t])
    BY <1>3, <1>7, <2>1, <2>2, <2>4
  <2>6. UndoAll(before, parts)[t] = r[k - 1]
    BY <2>3, <2>5, LeadsBack
  <2> QED
    BY <2>4, <2>6
<1>8. \A n \in 0 .. l : f[n] = g[n]
  <2>1. l \in Nat /\ f[0] = g[0] /\ \A n \in 1 .. l : f[n - 1] = g[n - 1] => f[n] = g[n]
    BY <1>2, <1>6, <1>7
  <2> QED
    BY <2>1, AlikeThroughout, ZenonT(60), SMTT(30)
<1> QED
  BY <1>1, <1>4, <1>5, <1>6, <1>8

LEMMA ReturnsForth ==
  ASSUME NEW d \in Doc, NEW stack \in Seq(Commands), NEW t \in Thing, NEW y, Returns(t, d[t], stack, y)
  PROVE  RedoEach(d, stack) \in Doc /\ RedoEach(d, stack)[t] = y
<1>1. PICK l : l = Len(stack)
  OBVIOUS
<1>2. l \in Nat /\ \A n \in 1 .. l : stack[n].parts \in Seq(Parts)
  BY <1>1, EntriesHaveParts
<1>3. PICK r \in [0 .. l -> Content] :
        r[l] = d[t] /\ r[0] = y /\ \A n \in 1 .. l : Leads(t, r[n], stack[n].parts, r[n - 1])
  BY <1>1 DEF Returns
<1>4. PICK run \in [0 .. l -> Doc] :
        /\ run[0] = d /\ run[l] = RedoEach(d, stack)
        /\ \A n \in 1 .. l : run[n] = DoAll(run[n - 1], stack[l + 1 - n].parts)
  BY <1>1, RedoEachRuns, SMTT(30), ZenonT(30)
<1>5. PICK f, g : f = [n \in 0 .. l |-> run[n][t]] /\ g = [n \in 0 .. l |-> r[l - n]]
  OBVIOUS
<1>6. f[0] = g[0] /\ l \in 0 .. l /\ g[l] = y
  <2>1. 0 \in 0 .. l /\ l \in 0 .. l /\ l - 0 = l /\ l - l = 0
    BY <1>2
  <2> QED
    BY <1>3, <1>4, <1>5, <2>1
<1>7. ASSUME NEW n \in 1 .. l, f[n - 1] = g[n - 1]
      PROVE  f[n] = g[n]
  <2>1. PICK k, parts, before : k = l + 1 - n /\ parts = stack[k].parts /\ before = run[n - 1]
    OBVIOUS
  <2>2. /\ n \in 0 .. l /\ n - 1 \in 0 .. l /\ k \in 1 .. l
        /\ l - n = k - 1 /\ l - (n - 1) = k
    BY <1>2, <2>1
  <2>3. before \in Doc /\ run[n] = DoAll(before, parts) /\ parts \in Seq(Parts)
    BY <1>2, <1>4, <2>1, <2>2
  <2>4. g[n - 1] = r[k] /\ g[n] = r[k - 1] /\ f[n - 1] = before[t] /\ f[n] = DoAll(before, parts)[t]
    BY <1>5, <2>1, <2>2, <2>3
  <2>5. Leads(t, before[t], parts, r[k - 1])
    BY <1>3, <1>7, <2>1, <2>2, <2>4
  <2>6. DoAll(before, parts)[t] = r[k - 1]
    BY <2>3, <2>5, LeadsForth
  <2> QED
    BY <2>4, <2>6
<1>8. \A n \in 0 .. l : f[n] = g[n]
  <2>1. l \in Nat /\ f[0] = g[0] /\ \A n \in 1 .. l : f[n - 1] = g[n - 1] => f[n] = g[n]
    BY <1>2, <1>6, <1>7
  <2> QED
    BY <2>1, AlikeThroughout, ZenonT(60), SMTT(30)
<1> QED
  BY <1>1, <1>4, <1>5, <1>6, <1>8

\* The undone entries, once redone, are entries like the others.
LEMMA ReturnsReach ==
  ASSUME NEW stack \in Seq(Commands), NEW t, NEW x, NEW y, Returns(t, x, stack, y)
  PROVE  Reverse(stack) \in Seq(Commands) /\ Reaches(t, x, Reverse(stack), y)
<1>1. PICK l, turned : l = Len(stack) /\ turned = Reverse(stack)
  OBVIOUS
<1>2. l \in Nat /\ \A n \in 1 .. l : stack[n] \in Commands
  BY <1>1, EntriesHaveParts
<1>3. \A n \in 1 .. l : l - n + 1 \in 1 .. l /\ n \in 0 .. l /\ n - 1 \in 0 .. l
  BY <1>2
<1>4. turned = [n \in 1 .. l |-> stack[l - n + 1]]
  BY <1>1 DEF Reverse
<1>5. turned \in Seq(Commands) /\ Len(turned) = l
  BY <1>2, <1>3, <1>4
<1>6. PICK r \in [0 .. l -> Content] :
        r[l] = x /\ r[0] = y /\ \A n \in 1 .. l : Leads(t, r[n], stack[n].parts, r[n - 1])
  BY <1>1 DEF Returns
<1>7. PICK run : run = [n \in 0 .. l |-> r[l - n]]
  OBVIOUS
<1>8. run \in [0 .. l -> Content] /\ run[0] = x /\ run[l] = y
  <2>1. 0 \in 0 .. l /\ l \in 0 .. l /\ l - 0 = l /\ l - l = 0 /\ \A n \in 0 .. l : l - n \in 0 .. l
    BY <1>2
  <2> QED
    BY <1>6, <1>7, <2>1
<1>9. ASSUME NEW n \in 1 .. l PROVE Leads(t, run[n - 1], turned[n].parts, run[n])
  <2>1. PICK k : k = l - n + 1
    OBVIOUS
  <2>2. k \in 1 .. l /\ l - (n - 1) = k /\ l - n = k - 1
    BY <1>2, <2>1
  <2>3. run[n - 1] = r[k] /\ run[n] = r[k - 1] /\ turned[n] = stack[k]
    BY <1>3, <1>4, <1>7, <2>1, <2>2
  <2> QED
    BY <1>6, <2>2, <2>3
<1>10. Reaches(t, x, turned, y)
  BY <1>5, <1>8, <1>9 DEF Reaches
<1> QED
  BY <1>1, <1>5, <1>10

LEMMA SettledIs ==
  ASSUME HistoryTypes, NEW t \in Thing, NEW z \in Content, IsSettled(t, z)
  PROVE  Settled \in Doc /\ Settled[t] = z
<1>1. doc \in Doc /\ starts \in Doc /\ txn.parts \in Seq(Parts) /\ Moved \subseteq Thing
  BY DEF HistoryTypes, Moved
<1>2. PICK d : d = AtStarts(doc)
  OBVIOUS
<1>3. d \in Doc /\ d[t] = IF t \in Moved /\ doc[t] # None THEN starts[t] ELSE doc[t]
  BY <1>1, <1>2 DEF AtStarts, Doc
<1>4. Settled = UndoAll(d, txn.parts)
  BY <1>2 DEF Settled
<1>5. Leads(t, z, txn.parts, d[t])
  BY <1>1, <1>3, Untouched DEF IsSettled
<1> QED
  BY <1>1, <1>3, <1>4, <1>5, DocumentsStay, LeadsBack

LEMMA HistoryImplies == HistoryIInv => UndoIsExact
<1> SUFFICES ASSUME HistoryIInv, NEW t \in Thing \ mixed
             PROVE  /\ UndoEach(Settled, done)[t] = base[t]
                    /\ UndoEach(RedoEach(Settled, undone), Reverse(undone))[t] = Settled[t]
  BY DEF UndoIsExact, Same
<1>1. PICK z \in Content, e \in Content :
        IsSettled(t, z) /\ Reaches(t, base[t], done, z) /\ Returns(t, z, undone, e)
  BY DEF HistoryIInv, EntriesLead
<1>2. /\ Settled \in Doc /\ Settled[t] = z
      /\ done \in Seq(Commands) /\ undone \in Seq(Commands)
  BY <1>1, SettledIs DEF HistoryIInv, HistoryTypes
<1>3. UndoEach(Settled, done)[t] = base[t]
  BY <1>1, <1>2, ReachesBack
<1>4. RedoEach(Settled, undone) \in Doc /\ RedoEach(Settled, undone)[t] = e
  BY <1>1, <1>2, ReturnsForth
<1>5. Reverse(undone) \in Seq(Commands) /\ Reaches(t, z, Reverse(undone), e)
  BY <1>1, <1>2, ReturnsReach
<1>6. UndoEach(RedoEach(Settled, undone), Reverse(undone))[t] = z
  BY <1>4, <1>5, ReachesBack
<1> QED
  BY <1>2, <1>3, <1>6
---------------------------------------------------------------------------
\* How the runs grow and shrink.
LEMMA RunOn ==
  ASSUME NEW l \in Nat, NEW run \in [0 .. l -> Content], NEW x \in Content
  PROVE  \E on \in [0 .. l + 1 -> Content] : on[l + 1] = x /\ \A n \in 0 .. l : on[n] = run[n]
<1>1. PICK on : on = [n \in 0 .. l + 1 |-> IF n = l + 1 THEN x ELSE run[n]]
  OBVIOUS
<1>2. /\ \A n \in 0 .. l : n # l + 1 /\ n \in 0 .. l + 1
      /\ \A n \in 0 .. l + 1 : n = l + 1 \/ n \in 0 .. l
      /\ l + 1 \in 0 .. l + 1
  OBVIOUS
<1>3. on \in [0 .. l + 1 -> Content] /\ on[l + 1] = x /\ \A n \in 0 .. l : on[n] = run[n]
  BY <1>1, <1>2
<1> QED
  BY <1>3

LEMMA LeadsOn ==
  ASSUME NEW t \in Thing, NEW d, NEW parts \in Seq(Parts), NEW e, NEW p \in Parts, NEW f,
         Leads(t, d, parts, e), Makes(t, e, p, f)
  PROVE  Append(parts, p) \in Seq(Parts) /\ Leads(t, d, Append(parts, p), f)
<1>1. PICK run \in [0 .. Len(parts) -> Content] :
        /\ run[0] = d /\ run[Len(parts)] = e
        /\ \A n \in 1 .. Len(parts) : Makes(t, run[n - 1], parts[n], run[n])
  BY DEF Leads
<1>2. PICK l, more : l = Len(parts) /\ more = Append(parts, p)
  OBVIOUS
<1>3. /\ l \in Nat /\ more \in Seq(Parts) /\ Len(more) = l + 1 /\ more[l + 1] = p
      /\ \A n \in 1 .. l : more[n] = parts[n]
  BY <1>2, AppendProperties
<1>4. f \in Content
  <2>1. e \in Content
    BY <1>1, <1>2, <1>3
  <2> QED
    BY <2>1 DEF Makes, Parts, Content
<1>5. PICK on \in [0 .. l + 1 -> Content] : on[l + 1] = f /\ \A n \in 0 .. l : on[n] = run[n]
  BY <1>1, <1>2, <1>3, <1>4, RunOn
<1>6. 0 \in 0 .. l /\ l \in 0 .. l
  BY <1>3
<1>7. ASSUME NEW n \in 1 .. l + 1
      PROVE  Makes(t, on[n - 1], more[n], on[n])
  <2>1. CASE n = l + 1
    <3>1. n - 1 = l
      BY <1>3, <2>1
    <3> QED
      BY <1>1, <1>2, <1>3, <1>5, <1>6, <2>1, <3>1
  <2>2. CASE n # l + 1
    <3>1. n \in 1 .. l /\ n - 1 \in 0 .. l /\ n \in 0 .. l
      BY <1>3, <2>2
    <3> QED
      BY <1>1, <1>2, <1>3, <1>5, <3>1
  <2> QED
    BY <2>1, <2>2
<1>8. Leads(t, d, more, f)
  BY <1>1, <1>2, <1>3, <1>5, <1>6, <1>7 DEF Leads
<1> QED
  BY <1>2, <1>3, <1>8

LEMMA LeadsNowhere ==
  ASSUME NEW t \in Thing, NEW d \in Content
  PROVE  Leads(t, d, <<>>, d) /\ \A e : Leads(t, d, <<>>, e) => e = d
<1>1. Len(<<>>) = 0
  OBVIOUS
<1>2. PICK run : run = [n \in 0 .. 0 |-> d]
  OBVIOUS
<1>3. run \in [0 .. Len(<<>>) -> Content] /\ run[0] = d /\ run[Len(<<>>)] = d
  BY <1>1, <1>2
<1>4. \A n \in 1 .. Len(<<>>) : FALSE
  BY <1>1
<1>5. Leads(t, d, <<>>, d)
  BY <1>3, <1>4 DEF Leads
<1> QED
  BY <1>1, <1>5 DEF Leads

\* A stack that has got one entry more.
LEMMA StackOn ==
  ASSUME NEW stack \in Seq(Commands), NEW c \in Commands, NEW t \in Thing, NEW d, NEW e, NEW f \in Content
  PROVE  /\ Append(stack, c) \in Seq(Commands)
         /\ Reaches(t, d, stack, e) /\ Leads(t, e, c.parts, f) => Reaches(t, d, Append(stack, c), f)
         /\ Returns(t, e, stack, d) /\ Leads(t, f, c.parts, e) => Returns(t, f, Append(stack, c), d)
<1>1. PICK l, more : l = Len(stack) /\ more = Append(stack, c)
  OBVIOUS
<1>2. /\ l \in Nat /\ more \in Seq(Commands) /\ Len(more) = l + 1 /\ more[l + 1] = c
      /\ \A n \in 1 .. l : more[n] = stack[n]
  BY <1>1, AppendProperties
<1>3. 0 \in 0 .. l /\ l \in 0 .. l /\ 0 \in 0 .. l + 1 /\ l + 1 \in 0 .. l + 1
  BY <1>2
<1>4. \A n \in 1 .. l + 1 : \/ n = l + 1 /\ n - 1 = l
                            \/ n \in 1 .. l /\ n - 1 \in 0 .. l /\ n \in 0 .. l
  BY <1>2
<1>5. ASSUME Reaches(t, d, stack, e), Leads(t, e, c.parts, f)
      PROVE  Reaches(t, d, more, f)
  <2>1. PICK run \in [0 .. l -> Content] :
          /\ run[0] = d /\ run[l] = e
          /\ \A n \in 1 .. l : Leads(t, run[n - 1], stack[n].parts, run[n])
    BY <1>1, <1>5 DEF Reaches
  <2>2. PICK on \in [0 .. l + 1 -> Content] : on[l + 1] = f /\ \A n \in 0 .. l : on[n] = run[n]
    BY <1>2, <2>1, RunOn
  <2>3. ASSUME NEW n \in 1 .. l + 1
        PROVE  Leads(t, on[n - 1], more[n].parts, on[n])
    BY <1>2, <1>3, <1>4, <1>5, <2>1, <2>2
  <2> QED
    BY <1>2, <1>3, <2>1, <2>2, <2>3 DEF Reaches
<1>6. ASSUME Returns(t, e, stack, d), Leads(t, f, c.parts, e)
      PROVE  Returns(t, f, more, d)
  <2>1. PICK run \in [0 .. l -> Content] :
          /\ run[l] = e /\ run[0] = d
          /\ \A n \in 1 .. l : Leads(t, run[n], stack[n].parts, run[n - 1])
    BY <1>1, <1>6 DEF Returns
  <2>2. PICK on \in [0 .. l + 1 -> Content] : on[l + 1] = f /\ \A n \in 0 .. l : on[n] = run[n]
    BY <1>2, <2>1, RunOn
  <2>3. ASSUME NEW n \in 1 .. l + 1
        PROVE  Leads(t, on[n], more[n].parts, on[n - 1])
    BY <1>2, <1>3, <1>4, <1>6, <2>1, <2>2
  <2> QED
    BY <1>2, <1>3, <2>1, <2>2, <2>3 DEF Returns
<1> QED
  BY <1>1, <1>2, <1>5, <1>6

\* A stack without its newest entry.
LEMMA StackOff ==
  ASSUME NEW stack \in Seq(Commands), stack # <<>>, NEW t \in Thing, NEW d, NEW e
  PROVE  /\ Front(stack) \in Seq(Commands) /\ Last(stack) \in Commands
         /\ Reaches(t, d, stack, e) =>
              \E f \in Content : Reaches(t, d, Front(stack), f) /\ Leads(t, f, Last(stack).parts, e)
         /\ Returns(t, e, stack, d) =>
              \E f \in Content : Returns(t, f, Front(stack), d) /\ Leads(t, e, Last(stack).parts, f)
<1>1. PICK l, less, c : l = Len(stack) - 1 /\ less = Front(stack) /\ c = Last(stack)
  OBVIOUS
<1>2. /\ l \in Nat /\ Len(stack) = l + 1 /\ c = stack[l + 1] /\ c \in Commands
      /\ less = SubSeq(stack, 1, l) /\ 1 \in Int /\ l \in Int
      /\ \A n \in 1 .. l : stack[n] \in Commands
  <2>1. Len(stack) \in Nat /\ Len(stack) # 0
    BY EmptySeq
  <2>2. l \in Nat /\ Len(stack) = l + 1 /\ l + 1 \in 1 .. Len(stack) /\ 1 \in Int /\ l \in Int
    BY <1>1, <2>1
  <2>3. \A n \in 1 .. l : n \in 1 .. Len(stack)
    BY <2>2
  <2>4. \A n \in 1 .. Len(stack) : stack[n] \in Commands
    BY EntriesHaveParts
  <2>5. c = stack[l + 1] /\ less = SubSeq(stack, 1, l)
    BY <1>1, <2>2 DEF Front, Last
  <2> QED
    BY <2>2, <2>3, <2>4, <2>5
<1>3. less \in Seq(Commands) /\ Len(less) = l /\ \A n \in 1 .. l : less[n] = stack[n]
  <2>1. /\ less \in Seq(Commands)
        /\ Len(less) = IF 1 <= l THEN l - 1 + 1 ELSE 0
        /\ \A n \in 1 .. l - 1 + 1 : less[n] = stack[1 + n - 1]
    BY <1>2, SubSeqProperties
  <2> QED
    BY <1>2, <2>1
<1>4. 0 \in 0 .. l /\ l \in 0 .. l /\ l + 1 \in 1 .. l + 1 /\ (l + 1) - 1 = l
      /\ \A n \in 1 .. l : n \in 1 .. l + 1 /\ n - 1 \in 0 .. l /\ n \in 0 .. l
  BY <1>2
<1>5. \A run \in [0 .. l + 1 -> Content] :
        \E off \in [0 .. l -> Content] : \A n \in 0 .. l : off[n] = run[n]
  <2>1. ASSUME NEW run \in [0 .. l + 1 -> Content]
        PROVE  \E off \in [0 .. l -> Content] : \A n \in 0 .. l : off[n] = run[n]
    <3>1. \A n \in 0 .. l : n \in 0 .. l + 1
      BY <1>2
    <3>2. [n \in 0 .. l |-> run[n]] \in [0 .. l -> Content]
      BY <3>1
    <3> QED
      BY <3>2
  <2> QED
    BY <2>1
<1>6. ASSUME Reaches(t, d, stack, e)
      PROVE  \E f \in Content : Reaches(t, d, less, f) /\ Leads(t, f, c.parts, e)
  <2>1. PICK run \in [0 .. l + 1 -> Content] :
          /\ run[0] = d /\ run[l + 1] = e
          /\ \A n \in 1 .. l + 1 : Leads(t, run[n - 1], stack[n].parts, run[n])
    BY <1>2, <1>6 DEF Reaches
  <2>2. PICK off \in [0 .. l -> Content] : \A n \in 0 .. l : off[n] = run[n]
    BY <1>5, <2>1
  <2>3. off[l] \in Content /\ Leads(t, off[l], c.parts, e)
    BY <1>2, <1>4, <2>1, <2>2
  <2>4. \A n \in 1 .. l : Leads(t, off[n - 1], less[n].parts, off[n])
    BY <1>3, <1>4, <2>1, <2>2
  <2>5. Reaches(t, d, less, off[l])
    BY <1>3, <1>4, <2>1, <2>2, <2>4 DEF Reaches
  <2> QED
    BY <2>3, <2>5
<1>7. ASSUME Returns(t, e, stack, d)
      PROVE  \E f \in Content : Returns(t, f, less, d) /\ Leads(t, e, c.parts, f)
  <2>1. PICK run \in [0 .. l + 1 -> Content] :
          /\ run[l + 1] = e /\ run[0] = d
          /\ \A n \in 1 .. l + 1 : Leads(t, run[n], stack[n].parts, run[n - 1])
    BY <1>2, <1>7 DEF Returns
  <2>2. PICK off \in [0 .. l -> Content] : \A n \in 0 .. l : off[n] = run[n]
    BY <1>5, <2>1
  <2>3. off[l] \in Content /\ Leads(t, e, c.parts, off[l])
    BY <1>2, <1>4, <2>1, <2>2
  <2>4. \A n \in 1 .. l : Leads(t, off[n], less[n].parts, off[n - 1])
    BY <1>3, <1>4, <2>1, <2>2
  <2>5. Returns(t, off[l], less, d)
    BY <1>3, <1>4, <2>1, <2>2, <2>4 DEF Returns
  <2> QED
    BY <2>3, <2>5
<1> QED
  BY <1>1, <1>2, <1>3, <1>6, <1>7

\* A stack without its oldest entry.
LEMMA StackTrimmed ==
  ASSUME NEW stack \in Seq(Commands), stack # <<>>, NEW t \in Thing, NEW d \in Doc, NEW e, Reaches(t, d[t], stack, e)
  PROVE  /\ Tail(stack) \in Seq(Commands)
         /\ DoAll(d, Head(stack).parts) \in Doc
         /\ Reaches(t, DoAll(d, Head(stack).parts)[t], Tail(stack), e)
<1>1. PICK l, less, c : l = Len(stack) - 1 /\ less = Tail(stack) /\ c = Head(stack)
  OBVIOUS
<1>2. /\ l \in Nat /\ Len(stack) = l + 1 /\ c = stack[1] /\ c.parts \in Seq(Parts)
      /\ less \in Seq(Commands) /\ Len(less) = l /\ \A n \in 1 .. l : less[n] = stack[n + 1]
  <2>1. Len(stack) \in Nat /\ Len(stack) # 0
    BY EmptySeq
  <2>2. l \in Nat /\ Len(stack) = l + 1 /\ 1 \in 1 .. Len(stack)
    BY <1>1, <2>1
  <2>3. less \in Seq(Commands) /\ Len(less) = Len(stack) - 1 /\ \A n \in 1 .. Len(less) : less[n] = stack[n + 1]
    BY <1>1, HeadTailProperties
  <2>4. c = stack[1]
    BY <1>1
  <2>5. stack[1].parts \in Seq(Parts)
    BY <2>2, EntriesHaveParts
  <2> QED
    BY <1>1, <2>2, <2>3, <2>4, <2>5
<1>3. PICK run \in [0 .. l + 1 -> Content] :
        /\ run[0] = d[t] /\ run[l + 1] = e
        /\ \A n \in 1 .. l + 1 : Leads(t, run[n - 1], stack[n].parts, run[n])
  BY <1>2 DEF Reaches
<1>4. PICK off : off = [n \in 0 .. l |-> run[n + 1]]
  OBVIOUS
<1>5. /\ 0 \in 0 .. l /\ l \in 0 .. l /\ 1 \in 1 .. l + 1 /\ 1 - 1 = 0 /\ 1 \in 0 .. l + 1 /\ 0 + 1 = 1
      /\ \A n \in 0 .. l : n + 1 \in 0 .. l + 1
      /\ \A n \in 1 .. l : /\ n + 1 \in 1 .. l + 1 /\ (n + 1) - 1 = n /\ (n - 1) + 1 = n
                           /\ n - 1 \in 0 .. l /\ n \in 0 .. l
  BY <1>2
<1>6. off \in [0 .. l -> Content] /\ off[0] = run[1] /\ off[l] = e
  BY <1>3, <1>4, <1>5
<1>7. ASSUME NEW n \in 1 .. l
      PROVE  Leads(t, off[n - 1], less[n].parts, off[n])
  <2>1. off[n - 1] = run[n] /\ off[n] = run[n + 1] /\ less[n] = stack[n + 1]
    BY <1>2, <1>4, <1>5
  <2>2. Leads(t, run[(n + 1) - 1], stack[n + 1].parts, run[n + 1])
    BY <1>3, <1>5
  <2> QED
    BY <1>5, <2>1, <2>2
<1>8. Leads(t, d[t], c.parts, run[1])
  BY <1>2, <1>3, <1>5
<1>9. DoAll(d, c.parts)[t] = run[1] /\ DoAll(d, c.parts) \in Doc
  BY <1>2, <1>8, LeadsForth, DocumentsStay
<1>10. Reaches(t, run[1], less, e)
  BY <1>2, <1>6, <1>7 DEF Reaches
<1> QED
  BY <1>1, <1>2, <1>9, <1>10

LEMMA StackEmpty ==
  ASSUME NEW t \in Thing, NEW d \in Content
  PROVE  Reaches(t, d, <<>>, d) /\ Returns(t, d, <<>>, d)
<1>1. Len(<<>>) = 0
  OBVIOUS
<1>2. PICK run : run = [n \in 0 .. 0 |-> d]
  OBVIOUS
<1>3. run \in [0 .. Len(<<>>) -> Content] /\ run[0] = d /\ run[Len(<<>>)] = d
  BY <1>1, <1>2
<1>4. \A n \in 1 .. Len(<<>>) : FALSE
  BY <1>1
<1> QED
  BY <1>3, <1>4 DEF Reaches, Returns
---------------------------------------------------------------------------
\* One run after another.
LEMMA LeadsFurther ==
  ASSUME NEW t \in Thing, NEW parts \in Seq(Parts), NEW more \in Seq(Parts), NEW x, NEW y, NEW w,
         Leads(t, x, parts, y), Leads(t, y, more, w)
  PROVE  Leads(t, x, parts \o more, w)
<1>1. PICK k, l, all : k = Len(parts) /\ l = Len(more) /\ all = parts \o more
  OBVIOUS
<1>2. /\ k \in Nat /\ l \in Nat /\ Len(all) = k + l
      /\ \A n \in 1 .. k : all[n] = parts[n]
      /\ \A n \in k + 1 .. k + l : all[n] = more[n - k]
  BY <1>1
<1>3. PICK f \in [0 .. k -> Content] :
        f[0] = x /\ f[k] = y /\ \A n \in 1 .. k : Makes(t, f[n - 1], parts[n], f[n])
  BY <1>1 DEF Leads
<1>4. PICK g \in [0 .. l -> Content] :
        g[0] = y /\ g[l] = w /\ \A n \in 1 .. l : Makes(t, g[n - 1], more[n], g[n])
  BY <1>1 DEF Leads
<1>5. PICK run : run = [n \in 0 .. k + l |-> IF n <= k THEN f[n] ELSE g[n - k]]
  OBVIOUS
<1>6. /\ 0 \in 0 .. k + l /\ k + l \in 0 .. k + l /\ 0 <= k /\ k <= k /\ k - k = 0 /\ (k + l) - k = l
      /\ \A n \in 0 .. k + l : (n <= k /\ n \in 0 .. k) \/ (~(n <= k) /\ n - k \in 0 .. l)
      /\ \A n \in 0 .. k : n \in 0 .. k + l /\ n <= k
      /\ \A n \in k .. k + l : n \in 0 .. k + l /\ n - k \in 0 .. l /\ (n <= k => n = k)
  BY <1>2, SMTT(30)
<1>7. run \in [0 .. k + l -> Content]
  BY <1>3, <1>4, <1>5, <1>6
<1>8. \A n \in 0 .. k : run[n] = f[n]
  BY <1>5, <1>6
<1>9. \A n \in k .. k + l : run[n] = g[n - k]
  BY <1>3, <1>4, <1>5, <1>6
<1>10. run[0] = x /\ run[k + l] = w
  <2>1. 0 \in 0 .. k /\ k + l \in k .. k + l
    BY <1>2
  <2> QED
    BY <1>3, <1>4, <1>6, <1>8, <1>9, <2>1
<1>11. ASSUME NEW n \in 1 .. k + l PROVE Makes(t, run[n - 1], all[n], run[n])
  <2>1. CASE n \in 1 .. k
    <3>1. n - 1 \in 0 .. k /\ n \in 0 .. k
      BY <1>2, <2>1
    <3> QED
      BY <1>2, <1>3, <1>8, <2>1, <3>1
  <2>2. CASE n \in k + 1 .. k + l
    <3>1. PICK m : m = n - k
      OBVIOUS
    <3>2. m \in 1 .. l /\ n - 1 \in k .. k + l /\ n \in k .. k + l /\ (n - 1) - k = m - 1
      BY <1>2, <2>2, <3>1
    <3>3. run[n - 1] = g[m - 1] /\ run[n] = g[m] /\ all[n] = more[m]
      BY <1>2, <1>9, <2>2, <3>1, <3>2
    <3> QED
      BY <1>4, <3>2, <3>3
  <2> QED
    BY <1>2, <2>1, <2>2
<1>12. Leads(t, x, all, w)
  BY <1>2, <1>7, <1>10, <1>11 DEF Leads
<1> QED
  BY <1>1, <1>12

LEMMA OnePart ==
  ASSUME NEW t \in Thing, NEW x \in Content, NEW p \in Parts, NEW y
  PROVE  /\ <<p>> \in Seq(Parts) /\ Len(<<p>>) = 1 /\ Head(<<p>>) = p
         /\ Leads(t, x, <<p>>, y) <=> Makes(t, x, p, y)
<1>1. PICK one : one = <<p>>
  OBVIOUS
<1>2. one \in Seq(Parts) /\ Len(one) = 1 /\ one[1] = p /\ Head(one) = p
  BY <1>1
<1>3. ASSUME Leads(t, x, one, y) PROVE Makes(t, x, p, y)
  <2>1. PICK run \in [0 .. Len(one) -> Content] :
          /\ run[0] = x /\ run[Len(one)] = y
          /\ \A n \in 1 .. Len(one) : Makes(t, run[n - 1], one[n], run[n])
    BY <1>3 DEF Leads
  <2>2. 1 \in 1 .. Len(one) /\ 1 - 1 = 0
    BY <1>2
  <2> QED
    BY <1>2, <2>1, <2>2
<1>4. ASSUME Makes(t, x, p, y) PROVE Leads(t, x, one, y)
  <2>1. PICK none : none = <<>>
    OBVIOUS
  <2>2. none \in Seq(Parts) /\ Append(none, p) = one
    BY <1>1, <2>1
  <2>3. Leads(t, x, none, x)
    BY <2>1, LeadsNowhere
  <2> QED
    BY <1>4, <2>2, <2>3, LeadsOn
<1> QED
  BY <1>1, <1>2, <1>3, <1>4

LEMMA ThingsOf ==
  ASSUME NEW parts \in Seq(Parts)
  PROVE  /\ Things(<<>>) = {}
         /\ \A t : t \in Things(parts) <=> \E n \in 1 .. Len(parts) : parts[n].thing = t
         /\ \A more \in Seq(Parts) : /\ parts \o more \in Seq(Parts)
                                     /\ Things(parts \o more) \subseteq Things(parts) \cup Things(more)
<1>1. \A any \in Seq(Parts) : DOMAIN any = 1 .. Len(any) /\ Len(any) \in Nat
  OBVIOUS
<1>2. Things(<<>>) = {}
  BY DEF Things, Range
<1>3. \A any \in Seq(Parts) : \A t : t \in Things(any) <=> \E n \in 1 .. Len(any) : any[n].thing = t
  <2>1. ASSUME NEW any \in Seq(Parts), NEW t
        PROVE  t \in Things(any) <=> \E n \in 1 .. Len(any) : any[n].thing = t
    BY <1>1 DEF Things, Range
  <2> QED
    BY <2>1
<1>4. ASSUME NEW more \in Seq(Parts)
      PROVE  parts \o more \in Seq(Parts) /\ Things(parts \o more) \subseteq Things(parts) \cup Things(more)
  <2>1. PICK all : all = parts \o more
    OBVIOUS
  <2>2. all \in Seq(Parts) /\ Len(all) = Len(parts) + Len(more)
    BY <2>1
  <2>3. \A n \in 1 .. Len(all) : \/ n \in 1 .. Len(parts) /\ all[n] = parts[n]
                                 \/ n - Len(parts) \in 1 .. Len(more) /\ all[n] = more[n - Len(parts)]
    BY <1>1, <2>1, <2>2
  <2>4. ASSUME NEW t \in Things(all) PROVE t \in Things(parts) \cup Things(more)
    <3>1. PICK n \in 1 .. Len(all) : all[n].thing = t
      BY <1>3, <2>2
    <3> QED
      BY <1>3, <2>3, <3>1
  <2> QED
    BY <2>1, <2>2, <2>4
<1> QED
  BY <1>2, <1>3, <1>4

\* A folded part leads as far as the two it stands for.
LEMMA ExtendLeads ==
  ASSUME NEW t \in Thing, NEW d, NEW parts \in Seq(Parts), NEW e, NEW p \in Parts, NEW f,
         Leads(t, d, parts, e), Makes(t, e, p, f), Folds(parts, p)
  PROVE  LET all == Append(Front(parts), [Last(parts) EXCEPT !.now = p.now]) IN
         Leads(t, d, all, f)
<1>1. PICK l, less, last : l = Len(parts) - 1 /\ less = Front(parts) /\ last = Last(parts)
  OBVIOUS
<1>2. parts # <<>> /\ last.thing = p.thing
  BY <1>1 DEF Folds
<1>3. /\ l \in Nat /\ Len(parts) = l + 1 /\ last = parts[l + 1] /\ last \in Parts
      /\ less = SubSeq(parts, 1, l) /\ 1 \in Int /\ l \in Int
      /\ \A n \in 1 .. l : parts[n] \in Parts
  <2>1. Len(parts) \in Nat /\ Len(parts) # 0
    BY <1>2, EmptySeq
  <2>2. l \in Nat /\ Len(parts) = l + 1 /\ l + 1 \in 1 .. Len(parts) /\ 1 \in Int /\ l \in Int
    BY <1>1, <2>1
  <2>3. \A n \in 1 .. l : n \in 1 .. Len(parts)
    BY <2>2
  <2>4. \A n \in 1 .. Len(parts) : parts[n] \in Parts
    OBVIOUS
  <2>5. last = parts[l + 1] /\ less = SubSeq(parts, 1, l)
    BY <1>1, <2>2 DEF Front, Last
  <2> QED
    BY <2>2, <2>3, <2>4, <2>5
<1>4. less \in Seq(Parts) /\ Len(less) = l /\ \A n \in 1 .. l : less[n] = parts[n]
  <2>1. /\ less \in Seq(Parts)
        /\ Len(less) = IF 1 <= l THEN l - 1 + 1 ELSE 0
        /\ \A n \in 1 .. l - 1 + 1 : less[n] = parts[1 + n - 1]
    BY <1>3, SubSeqProperties
  <2> QED
    BY <1>3, <2>1
<1>5. PICK run \in [0 .. l + 1 -> Content] :
        /\ run[0] = d /\ run[l + 1] = e
        /\ \A n \in 1 .. l + 1 : Makes(t, run[n - 1], parts[n], run[n])
  BY <1>3 DEF Leads
<1>6. /\ 0 \in 0 .. l /\ l \in 0 .. l /\ l + 1 \in 1 .. l + 1 /\ (l + 1) - 1 = l
      /\ l \in 0 .. l + 1
      /\ \A n \in 0 .. l : n \in 0 .. l + 1
      /\ \A n \in 1 .. l : n \in 1 .. l + 1 /\ n - 1 \in 0 .. l /\ n \in 0 .. l
  BY <1>3
<1>7. PICK off : off = [n \in 0 .. l |-> run[n]]
  OBVIOUS
<1>8. off \in [0 .. l -> Content] /\ off[0] = d /\ off[l] = run[l]
  BY <1>5, <1>6, <1>7
<1>9. \A n \in 1 .. l : Makes(t, off[n - 1], less[n], off[n])
  BY <1>4, <1>5, <1>6, <1>7
<1>10. Leads(t, d, less, run[l])
  BY <1>4, <1>8, <1>9 DEF Leads
<1>11. Makes(t, run[l], last, e) /\ run[l] \in Content
  BY <1>3, <1>5, <1>6
<1>12. PICK q : q = [last EXCEPT !.now = p.now]
  OBVIOUS
<1>13. q \in Parts /\ q.thing = p.thing /\ q.was = last.was /\ q.now = p.now
  BY <1>2, <1>3, <1>12 DEF Parts
<1>14. Makes(t, run[l], q, f)
  BY <1>2, <1>11, <1>13 DEF Makes
<1>15. PICK all : all = Append(less, q)
  OBVIOUS
<1>16. all \in Seq(Parts) /\ Leads(t, d, all, f)
  BY <1>4, <1>10, <1>13, <1>14, <1>15, LeadsOn
<1> QED
  BY <1>1, <1>12, <1>15, <1>16

LEMMA ExtendIs ==
  ASSUME NEW parts \in Seq(Parts), NEW more \in Seq(Parts), NEW t \in Thing, NEW x, NEW y, NEW w,
         more # <<>>, Len(more) = 1 \/ ~Head(more).move,
         Leads(t, x, parts, y), Leads(t, y, more, w)
  PROVE  Leads(t, x, Extend(parts, more), w)
<1>1. CASE ~Folds(parts, Head(more))
  BY <1>1, LeadsFurther DEF Extend
<1>2. CASE Folds(parts, Head(more))
  <2>1. PICK p : p = Head(more)
    OBVIOUS
  <2>2. Len(more) = 1 /\ p \in Parts /\ more = <<p>>
    <3>1. Len(more) = 1
      BY <1>2 DEF Folds
    <3> QED
      BY <2>1, <3>1
  <2>3. y \in Content
    <3>1. PICK run \in [0 .. Len(more) -> Content] : run[0] = y
      BY DEF Leads
    <3>2. 0 \in 0 .. Len(more)
      BY <2>2
    <3> QED
      BY <3>1, <3>2
  <2>4. Makes(t, y, p, w)
    BY <2>2, <2>3, OnePart
  <2> QED
    BY <1>2, <2>1, <2>2, <2>4, ExtendLeads DEF Extend
<1> QED
  BY <1>1, <1>2

LEMMA ExtendKeeps ==
  ASSUME NEW parts \in Seq(Parts), NEW more \in Seq(Parts), more # <<>>
  PROVE  /\ Extend(parts, more) \in Seq(Parts)
         /\ Things(Extend(parts, more)) \subseteq Things(parts) \cup Things(more)
<1>1. CASE ~Folds(parts, Head(more))
  BY <1>1, ThingsOf DEF Extend
<1>2. CASE Folds(parts, Head(more))
  <2>1. PICK l, less, last, q :
          /\ l = Len(parts) - 1 /\ less = Front(parts) /\ last = Last(parts)
          /\ q = [last EXCEPT !.now = Head(more).now]
    OBVIOUS
  <2>2. parts # <<>> /\ Head(more) \in Parts
    BY <1>2 DEF Folds
  <2>3. /\ l \in Nat /\ Len(parts) = l + 1 /\ last = parts[l + 1] /\ last \in Parts
        /\ less = SubSeq(parts, 1, l) /\ 1 \in Int /\ l \in Int
        /\ \A n \in 1 .. l : parts[n] \in Parts
    <3>1. Len(parts) \in Nat /\ Len(parts) # 0
      BY <2>2, EmptySeq
    <3>2. l \in Nat /\ Len(parts) = l + 1 /\ l + 1 \in 1 .. Len(parts) /\ 1 \in Int /\ l \in Int
      BY <2>1, <3>1
    <3>3. \A n \in 1 .. l : n \in 1 .. Len(parts)
      BY <3>2
    <3>4. \A n \in 1 .. Len(parts) : parts[n] \in Parts
      OBVIOUS
    <3>5. last = parts[l + 1] /\ less = SubSeq(parts, 1, l)
      BY <2>1, <3>2 DEF Front, Last
    <3> QED
      BY <3>2, <3>3, <3>4, <3>5
  <2>4. less \in Seq(Parts) /\ Len(less) = l /\ \A n \in 1 .. l : less[n] = parts[n]
    <3>1. /\ less \in Seq(Parts)
          /\ Len(less) = IF 1 <= l THEN l - 1 + 1 ELSE 0
          /\ \A n \in 1 .. l - 1 + 1 : less[n] = parts[1 + n - 1]
      BY <2>3, SubSeqProperties
    <3> QED
      BY <2>3, <3>1
  <2>5. q \in Parts /\ q.thing = last.thing
    BY <2>1, <2>2, <2>3 DEF Parts
  <2>6. PICK all : all = Append(less, q)
    OBVIOUS
  <2>7. /\ all \in Seq(Parts) /\ Len(all) = l + 1 /\ all[l + 1] = q
        /\ \A n \in 1 .. l : all[n] = parts[n]
    BY <2>4, <2>5, <2>6, AppendProperties
  <2>8. \A n \in 1 .. Len(all) : n \in 1 .. Len(parts) /\ all[n].thing = parts[n].thing
    <3>1. ASSUME NEW n \in 1 .. l + 1 PROVE n \in 1 .. Len(parts) /\ all[n].thing = parts[n].thing
      <4>1. CASE n = l + 1
        BY <2>3, <2>5, <2>7, <4>1
      <4>2. CASE n # l + 1
        <5>1. n \in 1 .. l
          BY <2>3, <4>2
        <5> QED
          BY <2>3, <2>7, <5>1
      <4> QED
        BY <4>1, <4>2
    <3> QED
      BY <2>7, <3>1
  <2>9. \A u \in Things(all) : \E n \in 1 .. Len(all) : all[n].thing = u
    BY <2>7, ThingsOf
  <2>10. Things(all) \subseteq Things(parts)
    BY <2>8, <2>9, ThingsOf
  <2> QED
    BY <1>2, <2>1, <2>6, <2>7, <2>10 DEF Extend
<1> QED
  BY <1>1, <1>2

\* The members of a gesture in some order, each once.
LEMMA MembersAre ==
  /\ Cardinality(Moved) \in Nat
  /\ Members \in [1 .. Cardinality(Moved) -> Moved]
  /\ \A i, j \in 1 .. Cardinality(Moved) : Members[i] = Members[j] => i = j
  /\ \A t \in Moved : \E i \in 1 .. Cardinality(Moved) : Members[i] = t
<1>1. IsFiniteSet(Moved)
  <2>1. Moved \in SUBSET Thing /\ IsFiniteSet(Thing)
    BY HistoryAssumptions DEF Moved
  <2> QED
    BY <2>1, FS_Subset
<1>2. PICK m : m = Cardinality(Moved)
  OBVIOUS
<1>3. m \in Nat /\ ExistsBijection(1 .. m, Moved)
  BY <1>1, <1>2, FS_CardinalityType
<1>4. \E f \in [1 .. m -> Moved] : IsInjective(f)
  BY <1>3 DEF ExistsBijection, Bijection, Injection
<1>5. Members = CHOOSE f \in [1 .. m -> Moved] : IsInjective(f)
  BY <1>2 DEF Members, SetToSeq
<1>6. Members \in [1 .. m -> Moved] /\ IsInjective(Members)
  BY <1>4, <1>5
<1>7. Members \in Injection(1 .. m, Moved)
  BY <1>6 DEF Injection
<1>8. IsFiniteSet(1 .. m) /\ Cardinality(1 .. m) = m
  <2>1. 1 \in Int /\ m \in Int
    BY <1>3
  <2>2. IsFiniteSet(1 .. m) /\ Cardinality(1 .. m) = IF 1 > m THEN 0 ELSE m - 1 + 1
    BY <2>1, FS_Interval
  <2> QED
    BY <1>3, <2>2
<1>9. Members \in Surjection(1 .. m, Moved)
  BY <1>1, <1>2, <1>7, <1>8, FS_Injection
<1> QED
  BY <1>2, <1>3, <1>6, <1>9 DEF Surjection, IsInjective

\* What a gesture records leads each member from where it began to where it is.
LEMMA RecordedLeads ==
  ASSUME HistoryTypes, NEW t \in Thing
  PROVE  /\ Recorded \in Seq(Parts) /\ (t \notin Moved => t \notin Things(Recorded))
         /\ t \in Moved /\ doc[t] # None => Leads(t, starts[t], Recorded, doc[t])
<1>1. PICK k, member, parts, s, d :
        /\ k = Cardinality(Moved) /\ member = Members /\ parts = Recorded
        /\ s = starts /\ d = doc
  OBVIOUS
<1>2. /\ k \in Nat /\ member \in [1 .. k -> Moved]
      /\ \A i, j \in 1 .. k : member[i] = member[j] => i = j
      /\ \A u \in Moved : \E i \in 1 .. k : member[i] = u
  BY <1>1, MembersAre
<1>3. /\ s \in [Thing -> Content] /\ d \in [Thing -> Content] /\ Moved \subseteq Thing
  BY <1>1 DEF HistoryTypes, Doc, Moved, Content
<1>4. parts = [i \in 1 .. k |-> [thing |-> member[i], was |-> s[member[i]],
                                 now |-> IF d[member[i]] = None THEN s[member[i]] ELSE d[member[i]],
                                 move |-> FALSE]]
  BY <1>1, <1>2 DEF Recorded
<1>5. parts \in Seq(Parts) /\ Len(parts) = k
  <2>1. \A i \in 1 .. k : parts[i] \in Parts
    BY <1>2, <1>3, <1>4 DEF Parts, Content
  <2> QED
    BY <1>2, <1>4, <2>1
<1>6. ASSUME t \notin Moved PROVE t \notin Things(parts)
  <2>1. \A n \in 1 .. k : parts[n].thing \in Moved
    BY <1>2, <1>4
  <2> QED
    BY <1>5, <1>6, <2>1, ThingsOf
<1>7. ASSUME t \in Moved, d[t] # None PROVE Leads(t, s[t], parts, d[t])
  <2>1. PICK m \in 1 .. k : member[m] = t
    BY <1>2, <1>7
  <2>2. PICK run : run = [n \in 0 .. k |-> IF n < m THEN s[t] ELSE d[t]]
    OBVIOUS
  <2>3. /\ 0 \in 0 .. k /\ k \in 0 .. k /\ 0 < m /\ ~(k < m)
        /\ \A n \in 1 .. k : /\ n \in 0 .. k /\ n - 1 \in 0 .. k
                             /\ n = m => n - 1 < m /\ ~(n < m)
                             /\ n # m => (n - 1 < m <=> n < m)
    BY <1>2
  <2>4. s[t] \in Content /\ d[t] \in Content
    BY <1>3
  <2>5. run \in [0 .. k -> Content] /\ run[0] = s[t] /\ run[k] = d[t]
    BY <2>2, <2>3, <2>4
  <2>6. ASSUME NEW n \in 1 .. k PROVE Makes(t, run[n - 1], parts[n], run[n])
    <3>1. CASE n = m
      <4>1. parts[n].thing = t /\ parts[n].was = s[t] /\ parts[n].now = d[t]
        BY <1>4, <1>7, <2>1, <3>1
      <4> QED
        BY <2>2, <2>3, <3>1, <4>1 DEF Makes
    <3>2. CASE n # m
      <4>1. parts[n].thing # t
        BY <1>2, <1>4, <2>1, <3>2
      <4> QED
        BY <2>2, <2>3, <3>2, <4>1 DEF Makes
    <3> QED
      BY <3>1, <3>2
  <2> QED
    BY <1>5, <2>5, <2>6 DEF Leads
<1> QED
  BY <1>1, <1>5, <1>6, <1>7
---------------------------------------------------------------------------
\* A new entry: what was undone is gone, and the oldest entry may be.
LEMMA PushTypes ==
  ASSUME HistoryTypes, NEW parts \in Seq(Parts), Push(parts)
  PROVE  done' \in Seq(Commands) /\ undone' = <<>> /\ base' \in Doc
<1>1. PICK c, stack : c = [id |-> issued + 1, parts |-> parts] /\ stack = Append(done, c)
  OBVIOUS
<1>2. done \in Seq(Commands) /\ base \in Doc
  BY DEF HistoryTypes
<1>3. c \in Commands /\ c.parts = parts
  BY <1>1 DEF HistoryTypes, Commands
<1>4. stack \in Seq(Commands) /\ stack # <<>>
  BY <1>1, <1>2, <1>3, AppendProperties
<1>5. /\ undone' = <<>>
      /\ \/ done' = Tail(stack) /\ base' = DoAll(base, Head(stack).parts)
         \/ done' = stack /\ base' = base
  BY <1>1 DEF Push
<1>6. Tail(stack) \in Seq(Commands) /\ Head(stack) \in Commands /\ Head(stack).parts \in Seq(Parts)
  <2>1. Tail(stack) \in Seq(Commands) /\ Head(stack) \in Commands
    BY <1>4, HeadTailProperties
  <2> QED
    BY <2>1 DEF Commands
<1>7. DoAll(base, Head(stack).parts) \in Doc
  BY <1>2, <1>6, DocumentsStay
<1> QED
  BY <1>2, <1>4, <1>5, <1>6, <1>7

LEMMA PushLeads ==
  ASSUME HistoryTypes, NEW parts \in Seq(Parts), NEW t \in Thing, NEW z, NEW y \in Content,
         Reaches(t, base[t], done, z), Leads(t, z, parts, y), Push(parts)
  PROVE  Reaches(t, base'[t], done', y) /\ Returns(t, y, undone', y)
<1>1. PICK c, stack : c = [id |-> issued + 1, parts |-> parts] /\ stack = Append(done, c)
  OBVIOUS
<1>2. done \in Seq(Commands) /\ base \in Doc
  BY DEF HistoryTypes
<1>3. c \in Commands /\ c.parts = parts
  BY <1>1 DEF HistoryTypes, Commands
<1>4. stack \in Seq(Commands) /\ Reaches(t, base[t], stack, y)
  BY <1>1, <1>2, <1>3, StackOn
<1>5. stack # <<>>
  BY <1>1, <1>2, <1>3, AppendProperties
<1>6. /\ undone' = <<>>
      /\ \/ done' = Tail(stack) /\ base' = DoAll(base, Head(stack).parts)
         \/ done' = stack /\ base' = base
  BY <1>1 DEF Push
<1>7. Returns(t, y, undone', y)
  BY <1>6, StackEmpty
<1>8. CASE done' = Tail(stack) /\ base' = DoAll(base, Head(stack).parts)
  BY <1>2, <1>4, <1>5, <1>7, <1>8, StackTrimmed
<1>9. CASE done' = stack /\ base' = base
  BY <1>4, <1>7, <1>9
<1> QED
  BY <1>6, <1>8, <1>9

\* What the entries of an object are, once what leads to them is known.
LEMMA Entries ==
  ASSUME HistoryIInv, NEW t \in Thing, t \notin mixed
  PROVE  /\ \E z \in Content : IsSettled(t, z)
         /\ \A z \in Content : IsSettled(t, z) =>
              /\ Reaches(t, base[t], done, z)
              /\ \E e \in Content : Returns(t, z, undone, e)
<1>1. PICK z \in Content : /\ IsSettled(t, z) /\ Reaches(t, base[t], done, z)
                           /\ \E e \in Content : Returns(t, z, undone, e)
  BY DEF HistoryIInv, EntriesLead
<1>2. ASSUME NEW y \in Content, IsSettled(t, y) PROVE y = z
  BY <1>1, <1>2, SettledIs DEF HistoryIInv
<1> QED
  BY <1>1, <1>2

LEMMA HistoryStarts == HistoryInit => HistoryIInv
<1> SUFFICES ASSUME HistoryInit PROVE HistoryIInv
  OBVIOUS
<1>1. doc \in Doc /\ Missing \in Doc
  BY HistoryAssumptions DEF HistoryInit, Doc, Missing
<1>2. HistoryTypes
  BY <1>1 DEF HistoryInit, HistoryTypes, Closed
<1>3. ASSUME NEW t \in Thing PROVE EntriesLead(t)
  <2>1. doc[t] \in Content /\ t \notin Moved
    BY <1>1 DEF HistoryInit, Doc, Content, Moved, Missing
  <2>2. Leads(t, doc[t], txn.parts, doc[t])
    BY <2>1, LeadsNowhere DEF HistoryInit, Closed
  <2>3. Reaches(t, base[t], done, doc[t]) /\ Returns(t, doc[t], undone, doc[t])
    BY <2>1, StackEmpty DEF HistoryInit
  <2> QED
    BY <2>1, <2>2, <2>3 DEF EntriesLead, IsSettled
<1> QED
  BY <1>2, <1>3 DEF HistoryIInv

\* A command leads every object from what it is to what it becomes.
LEMMA CommandLeads ==
  ASSUME NEW d \in Doc, NEW p \in Changes(d)
  PROVE  /\ p \in Parts /\ Do(d, p) \in Doc
         /\ \A t \in Thing : Makes(t, d[t], p, Do(d, p)[t])
<1>1. p \in Parts /\ p.was = d[p.thing] /\ p.thing \in Thing
  BY DEF Changes, Parts
<1>2. Do(d, p) = [d EXCEPT ![p.thing] = p.now]
  BY <1>1 DEF Do
<1>3. \A t \in Thing : Makes(t, d[t], p, Do(d, p)[t])
  BY <1>1, <1>2 DEF Makes, Doc
<1> QED
  BY <1>1, <1>3, DoIs

LEMMA HistoryRecord ==
  ASSUME HistoryIInv, NEW parts \in Seq(Parts), Record(parts), parts # <<>>,
         Len(parts) = 1 \/ ~Head(parts).move,
         \A t \in Thing : Leads(t, doc[t], parts, DoAll(doc, parts)[t])
  PROVE  HistoryIInv'
<1>1. /\ HistoryTypes /\ doc' = DoAll(doc, parts) /\ starts' = starts
      /\ mixed' = mixed \cup (Things(parts) \cap Moved)
      /\ Moved' = Moved
  BY DEF HistoryIInv, Record, Moved
<1>2. /\ doc \in Doc /\ doc' \in Doc /\ txn.parts \in Seq(Parts)
      /\ txn \in [open : BOOLEAN, parts : Seq(Parts)] /\ mixed' \in SUBSET Thing
      /\ issued' \in Nat /\ undone \in Seq(Commands) /\ done \in Seq(Commands) /\ Moved \subseteq Thing
  BY <1>1, DocumentsStay DEF HistoryTypes, Record, NewCommand, Moved
<1>3. CASE txn.open
  <2>1. PICK all : all = Extend(txn.parts, parts)
    OBVIOUS
  <2>2. /\ txn' = [txn EXCEPT !.parts = all]
        /\ done' = done /\ undone' = undone /\ base' = base
    BY <1>3, <2>1 DEF Record
  <2>3. all \in Seq(Parts) /\ Things(all) \subseteq Things(txn.parts) \cup Things(parts)
    BY <1>2, <2>1, ExtendKeeps
  <2>4. txn' \in [open : BOOLEAN, parts : Seq(Parts)] /\ txn'.parts = all /\ txn'.open
    BY <1>2, <1>3, <2>2, <2>3
  <2>5. ASSUME NEW t \in Thing, t \notin mixed' PROVE EntriesLead(t)'
    <3>1. PICK z \in Content : IsSettled(t, z)
      BY <1>1, <2>5, Entries
    <3>2. Reaches(t, base[t], done, z) /\ \E e \in Content : Returns(t, z, undone, e)
      BY <1>1, <2>5, <3>1, Entries
    <3>3. IsSettled(t, z)'
      <4>1. CASE t \in Moved
        <5>1. t \notin Things(parts)
          BY <1>1, <2>5, <4>1
        <5>2. doc'[t] = doc[t]
          BY <1>1, <5>1, Untouched
        <5> QED
          BY <1>1, <2>3, <2>4, <3>1, <4>1, <5>1, <5>2 DEF IsSettled
      <4>2. CASE t \notin Moved
        <5>1. Leads(t, z, txn.parts, doc[t]) /\ Leads(t, doc[t], parts, doc'[t])
          BY <1>1, <3>1, <4>2 DEF IsSettled
        <5>2. Leads(t, z, all, doc'[t])
          BY <1>2, <2>1, <5>1, ExtendIs
        <5> QED
          BY <1>1, <2>4, <4>2, <5>2 DEF IsSettled
      <4> QED
        BY <4>1, <4>2
    <3> QED
      BY <2>2, <3>2, <3>3 DEF EntriesLead
  <2>6. HistoryTypes'
    BY <1>1, <1>2, <1>3, <2>2, <2>4 DEF HistoryTypes, Quiet, Missing
  <2> QED
    BY <2>5, <2>6 DEF HistoryIInv
<1>4. CASE ~txn.open
  <2>1. Push(parts) /\ txn' = txn /\ txn.parts = <<>>
    BY <1>1, <1>4 DEF Record, HistoryTypes
  <2>2. done' \in Seq(Commands) /\ undone' = <<>> /\ base' \in Doc
    BY <1>1, <2>1, PushTypes
  <2>3. ASSUME NEW t \in Thing, t \notin mixed' PROVE EntriesLead(t)'
    <3>1. PICK z \in Content : IsSettled(t, z)
      BY <1>1, <2>3, Entries
    <3>2. Reaches(t, base[t], done, z)
      BY <1>1, <2>3, <3>1, Entries
    <3>3. doc'[t] \in Content /\ Things(<<>>) = {}
      BY <1>2, ThingsOf DEF Doc, Content
    <3>4. CASE t \in Moved
      <4>1. t \notin Things(parts)
        BY <1>1, <2>3, <3>4
      <4>2. doc'[t] = doc[t] /\ Leads(t, z, parts, z)
        BY <1>1, <4>1, Untouched
      <4>3. Reaches(t, base'[t], done', z) /\ Returns(t, z, undone', z)
        BY <1>1, <2>1, <3>2, <4>2, PushLeads
      <4>4. IsSettled(t, z)'
        BY <1>1, <2>1, <3>1, <3>4, <4>2 DEF IsSettled
      <4> QED
        BY <4>3, <4>4 DEF EntriesLead
    <3>5. CASE t \notin Moved
      <4>1. z = doc[t]
        BY <2>1, <3>1, <3>5, LeadsNowhere DEF IsSettled
      <4>2. Leads(t, z, parts, doc'[t])
        BY <1>1, <4>1
      <4>3. Reaches(t, base'[t], done', doc'[t]) /\ Returns(t, doc'[t], undone', doc'[t])
        BY <1>1, <2>1, <3>2, <3>3, <4>2, PushLeads
      <4>4. IsSettled(t, doc[t])'
        BY <1>1, <2>1, <3>3, <3>5, LeadsNowhere DEF IsSettled
      <4> QED
        BY <3>3, <4>3, <4>4 DEF EntriesLead
    <3> QED
      BY <3>4, <3>5
  <2>4. HistoryTypes'
    <3>1. undone' \in Seq(Commands)
      BY <2>2
    <3> QED
      BY <1>1, <1>2, <2>1, <2>2, <3>1 DEF HistoryTypes, Quiet, Missing
  <2> QED
    BY <2>3, <2>4 DEF HistoryIInv
<1> QED
  BY <1>3, <1>4

LEMMA HistoryApply ==
  ASSUME HistoryIInv, Apply
  PROVE  HistoryIInv'
<1>1. PICK p \in Changes(doc) : Record(<<p>>)
  BY DEF Apply
<1>2. doc \in Doc
  BY DEF HistoryIInv, HistoryTypes
<1>3. p \in Parts /\ \A t \in Thing : Makes(t, doc[t], p, Do(doc, p)[t])
  BY <1>2, CommandLeads
<1>4. PICK one : one = <<p>>
  OBVIOUS
<1>5. one \in Seq(Parts) /\ Len(one) = 1 /\ one # <<>>
  BY <1>3, <1>4
<1>6. ASSUME NEW t \in Thing PROVE Leads(t, doc[t], one, DoAll(doc, one)[t])
  <2>1. doc[t] \in Content
    BY <1>2 DEF Doc, Content
  <2>2. Leads(t, doc[t], one, Do(doc, p)[t])
    BY <1>3, <1>4, <2>1, OnePart
  <2> QED
    BY <1>2, <1>5, <2>2, LeadsForth
<1> QED
  BY <1>1, <1>4, <1>5, <1>6, HistoryRecord

LEMMA HistoryApplyMany ==
  ASSUME HistoryIInv, ApplyMany
  PROVE  HistoryIInv'
<1>1. PICK p \in Changes(doc), q \in Changes(doc) : p.thing # q.thing /\ ~p.move /\ Record(<<p, q>>)
  BY DEF ApplyMany
<1>2. doc \in Doc
  BY DEF HistoryIInv, HistoryTypes
<1>3. PICK d : d = Do(doc, p)
  OBVIOUS
<1>4. p \in Parts /\ d \in Doc /\ \A t \in Thing : Makes(t, doc[t], p, d[t])
  BY <1>2, <1>3, CommandLeads
<1>5. q \in Changes(d)
  <2>1. q \in Parts /\ q.thing \in Thing
    BY <1>2, CommandLeads DEF Parts
  <2>2. d[q.thing] = doc[q.thing]
    BY <1>1, <1>4, <2>1 DEF Makes
  <2> QED
    BY <2>2 DEF Changes
<1>6. q \in Parts /\ \A t \in Thing : Makes(t, d[t], q, Do(d, q)[t])
  BY <1>4, <1>5, CommandLeads
<1>7. PICK one, more, two : one = <<p>> /\ more = <<q>> /\ two = <<p, q>>
  OBVIOUS
<1>8. /\ one \in Seq(Parts) /\ more \in Seq(Parts) /\ two \in Seq(Parts) /\ two = one \o more
      /\ two # <<>> /\ Head(two) = p
  <2>1. one \in Seq(Parts) /\ more \in Seq(Parts) /\ two \in Seq(Parts)
    BY <1>4, <1>6, <1>7
  <2>2. two = one \o more
    <3>1. PICK both : both = one \o more
      OBVIOUS
    <3>2. Len(one) = 1 /\ Len(more) = 1 /\ Len(two) = 2 /\ one[1] = p /\ more[1] = q
      BY <1>7
    <3>3. both \in Seq(Parts) /\ Len(both) = 2 /\ both[1] = p /\ both[2] = q
      BY <2>1, <3>1, <3>2, ConcatProperties
    <3>4. two[1] = p /\ two[2] = q
      BY <1>7
    <3> QED
      BY <2>1, <3>1, <3>2, <3>3, <3>4, SeqEqual
  <2>3. two # <<>> /\ Head(two) = p
    BY <1>7
  <2> QED
    BY <2>1, <2>2, <2>3
<1>9. ASSUME NEW t \in Thing PROVE Leads(t, doc[t], two, DoAll(doc, two)[t])
  <2>1. doc[t] \in Content /\ d[t] \in Content
    BY <1>2, <1>4 DEF Doc, Content
  <2>2. Leads(t, doc[t], one, d[t])
    BY <1>4, <1>7, <2>1, OnePart
  <2>3. Leads(t, d[t], more, Do(d, q)[t])
    BY <1>6, <1>7, <2>1, OnePart
  <2>4. Leads(t, doc[t], two, Do(d, q)[t])
    BY <1>8, <2>2, <2>3, LeadsFurther
  <2> QED
    BY <1>2, <1>8, <2>4, LeadsForth
<1> QED
  BY <1>1, <1>7, <1>8, <1>9, HistoryRecord

LEMMA HistoryUndo ==
  ASSUME HistoryIInv, Undo
  PROVE  HistoryIInv'
<1>1. /\ HistoryTypes /\ txn' = Closed /\ base' = base /\ issued' = issued /\ starts' = starts
      /\ Moved' = Moved
  BY DEF HistoryIInv, Undo, Moved
<1>2. PICK d : d = UndoAll(doc, txn.parts)
  OBVIOUS
<1>3. /\ doc \in Doc /\ txn.parts \in Seq(Parts) /\ d \in Doc /\ Moved \subseteq Thing
      /\ done \in Seq(Commands) /\ undone \in Seq(Commands)
  BY <1>1, <1>2, DocumentsStay DEF HistoryTypes, Moved
<1>4. txn'.parts = <<>> /\ txn' \in [open : BOOLEAN, parts : Seq(Parts)] /\ ~txn'.open
  BY <1>1 DEF Closed
\* The transaction taken back.
<1>5. ASSUME NEW t \in Thing, NEW z \in Content, IsSettled(t, z)
      PROVE  IF t \in Moved THEN z = starts[t] /\ d[t] # None ELSE d[t] = z
  <2>1. CASE t \in Moved
    <3>1. Leads(t, doc[t], txn.parts, doc[t])
      BY <1>3, <1>5, <2>1, Untouched DEF IsSettled, Doc, Content
    <3> QED
      BY <1>2, <1>3, <1>5, <2>1, <3>1, LeadsBack DEF IsSettled
  <2>2. CASE t \notin Moved
    BY <1>2, <1>3, <1>5, <2>2, LeadsBack DEF IsSettled
  <2> QED
    BY <2>1, <2>2
<1>6. CASE done = <<>>
  <2>1. doc' = d /\ done' = done /\ undone' = undone /\ mixed' = mixed
    BY <1>2, <1>6 DEF Undo
  <2>2. ASSUME NEW t \in Thing, t \notin mixed' PROVE EntriesLead(t)'
    <3>1. PICK z \in Content : IsSettled(t, z)
      BY <2>1, <2>2, Entries
    <3>2. Reaches(t, base[t], done, z) /\ \E e \in Content : Returns(t, z, undone, e)
      BY <2>1, <2>2, <3>1, Entries
    <3>3. IsSettled(t, z)'
      <4>1. Things(txn'.parts) = {} /\ Leads(t, z, txn'.parts, z)
        BY <1>4, ThingsOf, LeadsNowhere
      <4> QED
        BY <1>1, <1>5, <2>1, <3>1, <4>1 DEF IsSettled
    <3> QED
      BY <1>1, <2>1, <3>2, <3>3 DEF EntriesLead
  <2>3. HistoryTypes'
    BY <1>1, <1>3, <1>4, <2>1 DEF HistoryTypes
  <2> QED
    BY <2>2, <2>3 DEF HistoryIInv
<1>7. CASE done # <<>>
  <2>1. PICK c : c = Last(done)
    OBVIOUS
  <2>2. /\ doc' = UndoAll(d, c.parts) /\ done' = Front(done) /\ undone' = Append(undone, c)
        /\ mixed' = mixed \cup (Things(c.parts) \cap Moved)
    BY <1>2, <1>7, <2>1 DEF Undo
  <2>3. Front(done) \in Seq(Commands) /\ c \in Commands /\ c.parts \in Seq(Parts)
    <3>1. Front(done) \in Seq(Commands) /\ c \in Commands
      <4>1. Len(done) \in Nat /\ Len(done) # 0 /\ \A n \in 1 .. Len(done) : done[n] \in Commands
        BY <1>3, <1>7, EmptySeq, EntriesHaveParts
      <4>2. Len(done) \in 1 .. Len(done) /\ Len(done) - 1 \in Nat
            /\ \A n \in 1 .. Len(done) - 1 : n \in 1 .. Len(done)
        BY <4>1
      <4>3. Front(done) = SubSeq(done, 1, Len(done) - 1) /\ c = done[Len(done)]
        BY <2>1 DEF Front, Last
      <4>4. SubSeq(done, 1, Len(done) - 1) \in Seq(Commands)
        BY <4>1, <4>2, SubSeqProperties
      <4> QED
        BY <4>1, <4>2, <4>3, <4>4
    <3> QED
      BY <3>1 DEF Commands
  <2>4. doc' \in Doc /\ Append(undone, c) \in Seq(Commands)
    BY <1>3, <2>2, <2>3, DocumentsStay, AppendProperties
  <2>5. ASSUME NEW t \in Thing, t \notin mixed' PROVE EntriesLead(t)'
    <3>1. PICK z \in Content : IsSettled(t, z)
      BY <2>2, <2>5, Entries
    <3>2. Reaches(t, base[t], done, z) /\ \E e \in Content : Returns(t, z, undone, e)
      BY <2>2, <2>5, <3>1, Entries
    <3>3. PICK e \in Content : Returns(t, z, undone, e)
      BY <3>2
    <3>4. PICK f \in Content : Reaches(t, base[t], Front(done), f) /\ Leads(t, f, c.parts, z)
      BY <1>3, <1>7, <2>1, <3>2, StackOff
    <3>5. Returns(t, f, Append(undone, c), e)
      BY <1>3, <2>3, <3>3, <3>4, StackOn
    <3>6. IsSettled(t, f)'
      <4>1. Things(txn'.parts) = {} /\ Leads(t, f, txn'.parts, f)
        BY <1>4, ThingsOf, LeadsNowhere
      <4>2. CASE t \in Moved
        <5>1. t \notin Things(c.parts)
          BY <2>2, <2>5, <4>2
        <5>2. f = z
          BY <2>3, <3>4, <5>1, Untouched
        <5>3. Leads(t, d[t], c.parts, d[t])
          BY <1>3, <2>3, <5>1, Untouched DEF Doc, Content
        <5>4. doc'[t] = d[t]
          BY <1>3, <2>2, <2>3, <5>3, LeadsBack
        <5> QED
          BY <1>1, <1>5, <3>1, <4>1, <4>2, <5>2, <5>4 DEF IsSettled
      <4>3. CASE t \notin Moved
        <5>1. d[t] = z
          BY <1>5, <3>1, <4>3
        <5>2. doc'[t] = f
          BY <1>3, <2>2, <2>3, <3>4, <5>1, LeadsBack
        <5> QED
          BY <1>1, <4>1, <4>3, <5>2 DEF IsSettled
      <4> QED
        BY <4>2, <4>3
    <3>7. Reaches(t, base'[t], done', f) /\ Returns(t, f, undone', e)
      BY <1>1, <2>2, <3>4, <3>5
    <3> QED
      BY <3>6, <3>7 DEF EntriesLead
  <2>6. HistoryTypes'
    BY <1>1, <1>3, <1>4, <2>2, <2>3, <2>4 DEF HistoryTypes
  <2> QED
    BY <2>5, <2>6 DEF HistoryIInv
<1> QED
  BY <1>6, <1>7

LEMMA HistoryRedo ==
  ASSUME HistoryIInv, Redo
  PROVE  HistoryIInv'
<1>1. /\ HistoryTypes /\ starts' = starts /\ txn' = txn /\ undone # <<>>
      /\ base' = base /\ issued' = issued /\ Moved' = Moved
  BY DEF HistoryIInv, Redo, Moved
<1>2. PICK c : c = Last(undone)
  OBVIOUS
<1>3. /\ doc' = DoAll(doc, c.parts) /\ done' = Append(done, c) /\ undone' = Front(undone)
      /\ mixed' = mixed \cup (Things(c.parts) \cap (Moved \cup Things(txn.parts)))
  BY <1>2 DEF Redo
<1>4. /\ doc \in Doc /\ txn.parts \in Seq(Parts) /\ Moved \subseteq Thing /\ mixed \in SUBSET Thing
      /\ done \in Seq(Commands) /\ undone \in Seq(Commands)
  BY <1>1 DEF HistoryTypes, Moved
<1>5. Front(undone) \in Seq(Commands) /\ c \in Commands /\ c.parts \in Seq(Parts)
  <2>1. Len(undone) \in Nat /\ Len(undone) # 0 /\ \A n \in 1 .. Len(undone) : undone[n] \in Commands
    BY <1>1, <1>4, EmptySeq, EntriesHaveParts
  <2>2. Len(undone) \in 1 .. Len(undone) /\ Len(undone) - 1 \in Nat
        /\ \A n \in 1 .. Len(undone) - 1 : n \in 1 .. Len(undone)
    BY <2>1
  <2>3. Front(undone) = SubSeq(undone, 1, Len(undone) - 1) /\ c = undone[Len(undone)]
    BY <1>2 DEF Front, Last
  <2>4. SubSeq(undone, 1, Len(undone) - 1) \in Seq(Commands)
    BY <2>1, <2>2, SubSeqProperties
  <2>5. Front(undone) \in Seq(Commands) /\ c \in Commands
    BY <2>1, <2>2, <2>3, <2>4
  <2> QED
    BY <2>5 DEF Commands
<1>6. doc' \in Doc /\ Append(done, c) \in Seq(Commands)
  BY <1>3, <1>4, <1>5, DocumentsStay, AppendProperties
<1>7. ASSUME NEW t \in Thing, t \notin mixed' PROVE EntriesLead(t)'
  <2>1. PICK z \in Content : IsSettled(t, z)
    BY <1>3, <1>7, Entries
  <2>2. Reaches(t, base[t], done, z) /\ \E e \in Content : Returns(t, z, undone, e)
    BY <1>3, <1>7, <2>1, Entries
  <2>3. PICK e \in Content : Returns(t, z, undone, e)
    BY <2>2
  <2>4. PICK f \in Content : Returns(t, f, Front(undone), e) /\ Leads(t, z, c.parts, f)
    BY <1>1, <1>2, <1>4, <2>3, StackOff
  <2>5. Reaches(t, base[t], Append(done, c), f)
    BY <1>4, <1>5, <2>2, <2>4, StackOn
  <2>6. IsSettled(t, f)'
    <3>1. CASE t \notin Things(c.parts)
      <4>1. f = z
        BY <1>5, <2>4, <3>1, Untouched
      <4>2. Leads(t, doc[t], c.parts, doc[t])
        BY <1>4, <1>5, <3>1, Untouched DEF Doc, Content
      <4>3. doc'[t] = doc[t]
        BY <1>3, <1>4, <1>5, <4>2, LeadsForth
      <4> QED
        BY <1>1, <2>1, <4>1, <4>3 DEF IsSettled
    <3>2. CASE t \in Things(c.parts)
      <4>1. t \notin Moved /\ t \notin Things(txn.parts)
        BY <1>3, <1>7, <3>2
      <4>2. doc[t] = z
        BY <1>4, <2>1, <4>1, Untouched DEF IsSettled
      <4>3. doc'[t] = f
        BY <1>3, <1>4, <1>5, <2>4, <4>2, LeadsForth
      <4>4. Leads(t, f, txn.parts, f)
        BY <1>4, <4>1, Untouched
      <4> QED
        BY <1>1, <4>1, <4>3, <4>4 DEF IsSettled
    <3> QED
      BY <3>1, <3>2
  <2>7. Reaches(t, base'[t], done', f) /\ Returns(t, f, undone', e)
    BY <1>1, <1>3, <2>4, <2>5
  <2> QED
    BY <2>6, <2>7 DEF EntriesLead
<1>8. HistoryTypes'
  <2>1. mixed' \in SUBSET Thing
    <3>1. Things(c.parts) \subseteq Thing
      <4>1. Len(c.parts) \in Nat /\ \A n \in 1 .. Len(c.parts) : c.parts[n] \in Parts
        BY <1>5
      <4>2. \A p \in Parts : p.thing \in Thing
        BY DEF Parts
      <4>3. \A t \in Things(c.parts) : \E n \in 1 .. Len(c.parts) : c.parts[n].thing = t
        BY <1>5, ThingsOf
      <4> QED
        BY <4>1, <4>2, <4>3
    <3> QED
      BY <1>3, <1>4, <3>1
  <2>2. done' \in Seq(Commands) /\ undone' \in Seq(Commands) /\ doc' \in Doc
    BY <1>3, <1>5, <1>6
  <2> QED
    BY <1>1, <2>1, <2>2 DEF HistoryTypes, Quiet, Missing
<1> QED
  BY <1>7, <1>8 DEF HistoryIInv

\* With nothing open an object is settled as it is.
LEMMA ClosedIsSettled ==
  ASSUME doc' \in Doc, txn' = Closed, starts' = Missing, NEW t \in Thing
  PROVE  doc'[t] \in Content /\ IsSettled(t, doc[t])'
<1>1. doc'[t] \in Content
  BY DEF Doc, Content
<1>2. txn'.parts = <<>> /\ t \notin Moved'
  BY DEF Closed, Moved, Missing
<1>3. Leads(t, doc'[t], txn'.parts, doc'[t])
  BY <1>1, <1>2, LeadsNowhere
<1> QED
  BY <1>1, <1>2, <1>3 DEF IsSettled

LEMMA HistoryLoad ==
  ASSUME HistoryIInv, Load
  PROVE  HistoryIInv'
<1>1. /\ HistoryTypes /\ doc' \in Doc /\ base' = doc' /\ done' = <<>> /\ undone' = <<>>
      /\ txn' = Closed /\ starts' = starts /\ issued' = issued
      /\ mixed' = {t \in Moved : doc'[t] # starts[t]} /\ Moved' = Moved
  BY HistoryAssumptions DEF HistoryIInv, Load, Doc, Moved
<1>2. txn' \in [open : BOOLEAN, parts : Seq(Parts)] /\ ~txn'.open /\ txn'.parts = <<>>
  BY <1>1 DEF Closed
<1>3. ASSUME NEW t \in Thing, t \notin mixed' PROVE EntriesLead(t)'
  <2>1. doc'[t] \in Content /\ Things(txn'.parts) = {}
    BY <1>1, <1>2, ThingsOf DEF Doc, Content
  <2>2. IsSettled(t, doc[t])'
    <3>1. CASE t \in Moved
      <4>1. doc'[t] = starts[t] /\ starts[t] # None
        BY <1>1, <1>3, <3>1 DEF Moved
      <4> QED
        BY <1>1, <2>1, <3>1, <4>1 DEF IsSettled
    <3>2. CASE t \notin Moved
      <4>1. Leads(t, doc'[t], txn'.parts, doc'[t])
        BY <1>2, <2>1, LeadsNowhere
      <4> QED
        BY <1>1, <3>2, <4>1 DEF IsSettled
    <3> QED
      BY <3>1, <3>2
  <2>3. Reaches(t, base'[t], done', doc'[t]) /\ Returns(t, doc'[t], undone', doc'[t])
    BY <1>1, <2>1, StackEmpty
  <2> QED
    BY <2>1, <2>2, <2>3 DEF EntriesLead
<1>4. HistoryTypes'
  <2>1. done' \in Seq(Commands) /\ undone' \in Seq(Commands)
    BY <1>1
  <2>2. mixed' \in SUBSET Thing
    BY <1>1 DEF Moved
  <2> QED
    BY <1>1, <1>2, <2>1, <2>2 DEF HistoryTypes
<1> QED
  BY <1>3, <1>4 DEF HistoryIInv

LEMMA HistoryBegin ==
  ASSUME HistoryIInv, Begin
  PROVE  HistoryIInv'
<1>1. PICK ids \in (SUBSET {t \in Thing : doc[t] # None}) \ {{}} :
        starts' = [t \in Thing |-> IF t \in ids THEN doc[t] ELSE None]
  BY DEF Begin
<1>2. /\ HistoryTypes /\ doc' = doc /\ base' = base /\ done' = done /\ undone' = undone
      /\ txn' = Opened /\ issued' = issued /\ mixed' = mixed /\ Quiet
  BY DEF HistoryIInv, Begin, ghosts
<1>3. doc \in Doc /\ Moved = {} /\ txn.parts = <<>>
  BY <1>2 DEF HistoryTypes, Quiet, Moved, Missing
<1>4. starts' \in Doc /\ Moved' = ids /\ starts' # Missing
  <2>1. starts' \in Doc
    BY <1>1, <1>3 DEF Doc
  <2>2. Moved' = ids
    BY <1>1 DEF Moved
  <2>3. PICK u : u \in ids
    <3>1. ids # {}
      BY <1>1
    <3> QED
      BY <3>1
  <2>4. starts' # Missing
    <3>1. u \in Thing /\ doc[u] # None
      BY <1>1, <2>3
    <3>2. starts'[u] = doc[u] /\ Missing[u] = None
      BY <1>1, <2>3, <3>1 DEF Missing
    <3> QED
      BY <3>1, <3>2
  <2> QED
    BY <2>1, <2>2, <2>4
<1>5. txn' \in [open : BOOLEAN, parts : Seq(Parts)] /\ txn'.open /\ txn'.parts = <<>>
  BY <1>2 DEF Opened
<1>6. ASSUME NEW t \in Thing, t \notin mixed' PROVE EntriesLead(t)'
  <2>1. PICK z \in Content : IsSettled(t, z)
    BY <1>2, <1>6, Entries
  <2>2. Reaches(t, base[t], done, z) /\ \E e \in Content : Returns(t, z, undone, e)
    BY <1>2, <1>6, <2>1, Entries
  <2>3. z = doc[t]
    BY <1>3, <2>1, LeadsNowhere DEF IsSettled
  <2>4. Things(txn'.parts) = {} /\ Leads(t, z, txn'.parts, z)
    BY <1>5, ThingsOf, LeadsNowhere
  <2>5. IsSettled(t, z)'
    <3>1. t \in ids => starts'[t] = doc[t] /\ doc[t] # None
      BY <1>1
    <3> QED
      BY <1>2, <1>4, <2>3, <2>4, <3>1 DEF IsSettled
  <2> QED
    BY <1>2, <2>2, <2>5 DEF EntriesLead
<1>7. HistoryTypes'
  BY <1>2, <1>4, <1>5 DEF HistoryTypes, Quiet, Missing
<1> QED
  BY <1>6, <1>7 DEF HistoryIInv

LEMMA HistoryUpdate ==
  ASSUME HistoryIInv, Update
  PROVE  HistoryIInv'
<1>1. PICK v \in Value : doc' = [t \in Thing |-> IF t \in Moved /\ doc[t] # None THEN v ELSE doc[t]]
  BY DEF Update
<1>2. /\ HistoryTypes /\ starts' = starts /\ base' = base /\ done' = done /\ undone' = undone
      /\ txn' = txn /\ issued' = issued /\ mixed' = mixed /\ Moved' = Moved
  BY DEF HistoryIInv, Update, stacks, ghosts, Moved
<1>3. doc \in Doc /\ v # None
  BY <1>2, HistoryAssumptions DEF HistoryTypes
<1>4. doc' \in Doc
  BY <1>1, <1>3 DEF Doc
<1>5. ASSUME NEW t \in Thing, t \notin mixed' PROVE EntriesLead(t)'
  <2>1. PICK z \in Content : IsSettled(t, z)
    BY <1>2, <1>5, Entries
  <2>2. Reaches(t, base[t], done, z) /\ \E e \in Content : Returns(t, z, undone, e)
    BY <1>2, <1>5, <2>1, Entries
  <2>3. IF t \in Moved /\ doc[t] # None THEN doc'[t] # None ELSE doc'[t] = doc[t]
    BY <1>1, <1>3
  <2>4. IsSettled(t, z)'
    BY <1>2, <2>1, <2>3 DEF IsSettled
  <2> QED
    BY <1>2, <2>2, <2>4 DEF EntriesLead
<1>6. HistoryTypes'
  BY <1>2, <1>4 DEF HistoryTypes, Quiet, Missing
<1> QED
  BY <1>5, <1>6 DEF HistoryIInv

LEMMA HistoryCommit ==
  ASSUME HistoryIInv, Commit
  PROVE  HistoryIInv'
<1>1. HistoryTypes /\ starts' = Missing /\ txn' = Closed /\ mixed' = mixed
  BY DEF HistoryIInv, Commit
<1>2. /\ doc \in Doc /\ txn.parts \in Seq(Parts) /\ Moved \subseteq Thing /\ issued \in Nat
      /\ done \in Seq(Commands) /\ undone \in Seq(Commands) /\ base \in Doc /\ mixed \in SUBSET Thing
  BY <1>1 DEF HistoryTypes, Moved
<1>3. starts' \in Doc /\ txn' \in [open : BOOLEAN, parts : Seq(Parts)] /\ ~txn'.open /\ txn'.parts = <<>>
  BY <1>1 DEF Closed, Missing, Doc
<1>4. CASE doc = AtStarts(doc)
  <2>1. /\ doc' = UndoAll(doc, txn.parts) /\ doc' = Settled
        /\ done' = done /\ undone' = undone /\ issued' = issued /\ base' = base
    BY <1>4 DEF Commit, Settled
  <2>2. doc' \in Doc
    BY <1>2, <2>1, DocumentsStay
  <2>3. ASSUME NEW t \in Thing, t \notin mixed' PROVE EntriesLead(t)'
    <3>1. PICK z \in Content : IsSettled(t, z)
      BY <1>1, <2>3, Entries
    <3>2. Reaches(t, base[t], done, z) /\ \E e \in Content : Returns(t, z, undone, e)
      BY <1>1, <2>3, <3>1, Entries
    <3>3. doc'[t] = z
      BY <1>1, <2>1, <3>1, SettledIs
    <3>4. IsSettled(t, z)'
      BY <1>1, <2>2, <3>3, ClosedIsSettled
    <3> QED
      BY <2>1, <3>2, <3>4 DEF EntriesLead
  <2>4. HistoryTypes'
    BY <1>1, <1>2, <1>3, <2>1, <2>2 DEF HistoryTypes
  <2> QED
    BY <2>3, <2>4 DEF HistoryIInv
<1>5. CASE doc # AtStarts(doc)
  <2>1. PICK all : all = txn.parts \o Recorded
    OBVIOUS
  <2>2. Push(all) /\ doc' = doc /\ issued' = issued + 1
    BY <1>5, <2>1 DEF Commit, NewCommand
  <2>3. Recorded \in Seq(Parts) /\ all \in Seq(Parts)
    <3>1. CASE Thing = {}
      <4>1. Moved = {}
        BY <1>2, <3>1
      <4>2. starts \in Doc /\ doc = AtStarts(doc)
        BY <1>1, <1>2, <3>1, <4>1 DEF HistoryTypes, AtStarts, Doc
      <4> QED
        BY <1>5, <4>2
    <3>2. CASE Thing # {}
      <4>1. PICK t \in Thing : TRUE
        BY <3>2
      <4>2. Recorded \in Seq(Parts)
        BY <1>1, <4>1, RecordedLeads
      <4> QED
        BY <1>2, <2>1, <4>2, ConcatProperties
    <3> QED
      BY <3>1, <3>2
  <2>4. done' \in Seq(Commands) /\ undone' = <<>> /\ base' \in Doc
    BY <1>1, <2>2, <2>3, PushTypes
  <2>5. ASSUME NEW t \in Thing, t \notin mixed' PROVE EntriesLead(t)'
    <3>1. PICK z \in Content : IsSettled(t, z)
      BY <1>1, <2>5, Entries
    <3>2. Reaches(t, base[t], done, z) /\ doc[t] \in Content
      BY <1>1, <1>2, <2>5, <3>1, Entries DEF Doc, Content
    <3>3. Leads(t, z, all, doc[t])
      <4>1. CASE t \in Moved
        <5>1. z = starts[t] /\ doc[t] # None /\ t \notin Things(txn.parts)
          BY <3>1, <4>1 DEF IsSettled
        <5>2. Leads(t, z, txn.parts, z)
          BY <1>2, <5>1, Untouched
        <5>3. Leads(t, z, Recorded, doc[t])
          BY <1>1, <4>1, <5>1, RecordedLeads
        <5> QED
          BY <1>2, <2>1, <2>3, <5>2, <5>3, LeadsFurther
      <4>2. CASE t \notin Moved
        <5>1. Leads(t, z, txn.parts, doc[t])
          BY <3>1, <4>2 DEF IsSettled
        <5>2. t \notin Things(Recorded)
          BY <1>1, <4>2, RecordedLeads
        <5>3. Leads(t, doc[t], Recorded, doc[t])
          BY <2>3, <3>2, <5>2, Untouched
        <5> QED
          BY <1>2, <2>1, <2>3, <5>1, <5>3, LeadsFurther
      <4> QED
        BY <4>1, <4>2
    <3>4. Reaches(t, base'[t], done', doc[t]) /\ Returns(t, doc[t], undone', doc[t])
      BY <1>1, <2>2, <2>3, <3>2, <3>3, PushLeads
    <3>5. IsSettled(t, doc[t])'
      BY <1>1, <1>2, <2>2, ClosedIsSettled
    <3> QED
      BY <2>2, <3>2, <3>4, <3>5 DEF EntriesLead
  <2>6. HistoryTypes'
    <3>1. undone' \in Seq(Commands) /\ issued' \in Nat
      BY <1>2, <2>2, <2>4
    <3> QED
      BY <1>1, <1>2, <1>3, <2>2, <2>4, <3>1 DEF HistoryTypes
  <2> QED
    BY <2>5, <2>6 DEF HistoryIInv
<1> QED
  BY <1>4, <1>5

LEMMA HistoryCancel ==
  ASSUME HistoryIInv, Cancel
  PROVE  HistoryIInv'
<1>1. /\ HistoryTypes /\ starts' = Missing /\ txn' = Closed /\ doc' = Settled /\ base' = base
      /\ done' = done /\ undone' = undone /\ issued' = issued /\ mixed' = mixed
  BY DEF HistoryIInv, Cancel, ghosts
<1>2. doc \in Doc /\ starts \in Doc /\ txn.parts \in Seq(Parts)
  BY <1>1 DEF HistoryTypes
<1>3. doc' \in Doc
  <2>1. AtStarts(doc) \in Doc
    BY <1>2 DEF AtStarts, Doc
  <2> QED
    BY <1>1, <1>2, <2>1, DocumentsStay DEF Settled
<1>4. ASSUME NEW t \in Thing, t \notin mixed' PROVE EntriesLead(t)'
  <2>1. PICK z \in Content : IsSettled(t, z)
    BY <1>1, <1>4, Entries
  <2>2. Reaches(t, base[t], done, z) /\ \E e \in Content : Returns(t, z, undone, e)
    BY <1>1, <1>4, <2>1, Entries
  <2>3. doc'[t] = z
    BY <1>1, <2>1, SettledIs
  <2>4. IsSettled(t, z)'
    BY <1>1, <1>3, <2>3, ClosedIsSettled
  <2> QED
    BY <1>1, <2>2, <2>4 DEF EntriesLead
<1>5. HistoryTypes'
  <2>1. starts' \in Doc /\ txn' \in [open : BOOLEAN, parts : Seq(Parts)] /\ ~txn'.open /\ txn'.parts = <<>>
    BY <1>1 DEF Closed, Missing, Doc
  <2> QED
    BY <1>1, <1>3, <2>1 DEF HistoryTypes
<1> QED
  BY <1>4, <1>5 DEF HistoryIInv

LEMMA HistoryAlike ==
  ASSUME HistoryIInv, UNCHANGED <<doc, done, undone, txn, starts, issued, base, mixed>>
  PROVE  HistoryIInv'
<1>1. HistoryTypes'
  BY DEF HistoryIInv, HistoryTypes, Quiet
<1>2. ASSUME NEW t \in Thing, t \notin mixed' PROVE EntriesLead(t)'
  <2>1. EntriesLead(t)
    BY <1>2 DEF HistoryIInv
  <2>2. \A z : IsSettled(t, z) => IsSettled(t, z)'
    BY DEF IsSettled, Moved
  <2> QED
    BY <2>1, <2>2 DEF EntriesLead
<1> QED
  BY <1>1, <1>2 DEF HistoryIInv

LEMMA HistoryStep == HistoryIInv /\ [HistoryNext]_historyVars => HistoryIInv'
<1> SUFFICES ASSUME HistoryIInv, [HistoryNext]_historyVars PROVE HistoryIInv'
  OBVIOUS
<1>1. CASE Apply
  BY <1>1, HistoryApply
<1>2. CASE ApplyMany
  BY <1>2, HistoryApplyMany
<1>3. CASE Undo
  BY <1>3, HistoryUndo
<1>4. CASE Redo
  BY <1>4, HistoryRedo
<1>5. CASE MarkSaved
  BY <1>5, HistoryAlike DEF MarkSaved
<1>6. CASE Load
  BY <1>6, HistoryLoad
<1>7. CASE Begin
  BY <1>7, HistoryBegin
<1>8. CASE Update
  BY <1>8, HistoryUpdate
<1>9. CASE Commit
  BY <1>9, HistoryCommit
<1>10. CASE Cancel
  BY <1>10, HistoryCancel
<1>11. CASE UNCHANGED historyVars
  BY <1>11, HistoryAlike DEF historyVars, stacks, ghosts
<1> QED
  BY <1>1, <1>2, <1>3, <1>4, <1>5, <1>6, <1>7, <1>8, <1>9, <1>10, <1>11 DEF HistoryNext

\* Undo is an exact inverse (commandHistory.ts, transformSession.ts): with the open gesture and
\* its transaction taken back, the entries lead every object back to what it was under the oldest
\* of them, and what was undone leads on and back again. Commands, undo, redo and another
\* editor's map may come in the middle of a gesture, nothing is assumed of their order; the
\* objects the gesture itself holds when they do are in mixed.
THEOREM UndoExact == HistorySpec => []UndoIsExact
<1>1. HistorySpec => []HistoryIInv
  BY HistoryStarts, HistoryStep, PTL DEF HistorySpec
<1> QED
  BY <1>1, HistoryImplies, PTL
================================================================================
