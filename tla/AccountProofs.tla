----------------------------- MODULE AccountProofs -----------------------------
(****************************************************************************)
(* A character has one session at most, and no session without somebody     *)
(* behind it, for any connections, places and queues, wherever the rooms    *)
(* keep their leases; and what is stored of it is never taken back. What an *)
(* account has earned reaches Play, whoever adopts it and when.             *)
(****************************************************************************)
EXTENDS CharacterSessions, PlaySync, SequenceTheorems, FiniteSetTheorems, WellFoundedInduction, TLAPS

USE SessionAssumptions

\* Whether the running hello is past the admission.
Joining == step \in {"join", "enter", "joined"}

\* The types the argument needs; the chain is at rest between two hellos.
ChainTypes ==
  /\ place \in [Conn -> Place]
  /\ admission \in Seq(Conn)
  /\ step \in {"turn", "drain", "join", "enter", "joined"}
  /\ admission = <<>> => step = "turn"
  /\ admitted \cap closed = {}
  /\ suspensions \in Nat
  /\ byConn \subseteq Conn /\ attached \subseteq Conn

\* A room is without its lease only after a suspension, which only some behaviours have.
LeasesHold ==
  /\ suspensions = 0 => confirmed = Place
  /\ "suspend" \notin may => suspensions = 0

\* The router has passed on one connection at most; the one whose hello is past the
\* admission, if there is one.
OneAdmitted ==
  /\ \A c, o \in admitted : c = o
  /\ Joining => admitted \subseteq {This}

\* A session is that of the admitted connection, which its hub knows; while a hello is past
\* the admission it is that hello's, gone though its client may be.
SessionsAreAdmitted ==
  suspensions = 0 =>
    /\ ~Joining => byConn \subseteq admitted \cap attached
    /\ Joining => byConn \subseteq {This}
    /\ Joining /\ This \notin closed => This \in admitted \cap attached

\* The strengthening every step preserves.
IInv == ChainTypes /\ LeasesHold /\ OneAdmitted /\ SessionsAreAdmitted
--------------------------------------------------------------------------------
\* The chain: its head is a connection, and what a hello's end leaves of it.
LEMMA Chain ==
  ASSUME admission \in Seq(Conn)
  PROVE  /\ admission # <<>> => This \in Conn /\ Tail(admission) \in Seq(Conn)
         /\ \A c \in Conn : /\ Append(admission, c) \in Seq(Conn) /\ Append(admission, c) # <<>>
                            /\ admission # <<>> => Head(Append(admission, c)) = This
<1>1. admission # <<>> => This \in Conn /\ Tail(admission) \in Seq(Conn)
  BY HeadTailProperties DEF This
<1>2. ASSUME NEW c \in Conn
      PROVE  /\ Append(admission, c) \in Seq(Conn) /\ Append(admission, c) # <<>>
             /\ admission # <<>> => Head(Append(admission, c)) = This
  <2>1. /\ Append(admission, c) \in Seq(Conn) /\ Append(admission, c) # <<>>
        /\ \A i \in 1 .. Len(admission) : Append(admission, c)[i] = admission[i]
    BY AppendProperties
  <2>2. ASSUME admission # <<>> PROVE Head(Append(admission, c)) = This
    <3>1. Len(admission) \in Nat \ {0}
      BY <2>2, EmptySeq
    <3>2. Head(admission) = admission[1] /\ Head(Append(admission, c)) = Append(admission, c)[1]
      BY <2>1, HeadTailProperties, <2>2
    <3> QED
      BY <2>1, <3>1, <3>2 DEF This
  <2> QED
    BY <2>1, <2>2
<1> QED
  BY <1>1, <1>2

LEMMA InitIInv == Init => IInv
  BY EmptySeq DEF Init, IInv, ChainTypes, LeasesHold, OneAdmitted, SessionsAreAdmitted, Joining

\* Every step keeps the strengthening.
LEMMA IInvStep == IInv /\ [Next]_vars => IInv'
<1> SUFFICES ASSUME IInv, [Next]_vars PROVE IInv'
  OBVIOUS
<1> USE DEF IInv, ChainTypes, LeasesHold, OneAdmitted, SessionsAreAdmitted, Joining,
            fixed, router, chain, sessions
<1>0. admission # <<>> => This \in Conn /\ Tail(admission) \in Seq(Conn)
  BY Chain
<1>1. ASSUME NEW c \in Conn, Hello(c) PROVE IInv'
  <2>1. This' = This \/ admission = <<>>
    BY <1>1, Chain DEF Hello, This
  <2>2. admission' \in Seq(Conn) /\ admission' # <<>>
    BY <1>1, Chain DEF Hello
  <2> QED
    BY <1>1, <2>1, <2>2 DEF Hello
<1>2. ASSUME NEW c \in Conn, Close(c) PROVE IInv'
  BY <1>2, <1>0 DEF Close, Disconnect, RoomForgets, This
<1>3. ASSUME Skip PROVE IInv'
  BY <1>3, <1>0 DEF Skip, Now, Over
<1>4. ASSUME Supersede PROVE IInv'
  BY <1>4, <1>0 DEF Supersede, Superseded, Now, GoTo, Disconnect, RoomForgets, This
<1>5. ASSUME DrainedBefore PROVE IInv'
  BY <1>5 DEF DrainedBefore, Now, GoTo, This
<1>6. ASSUME Admit PROVE IInv'
  <2>1. /\ admission # <<>> /\ step = "turn" /\ This \notin closed /\ This \in Conn
        /\ admitted \subseteq {This} /\ admitted' = {This} \cup admitted
        /\ UNCHANGED <<may, place, closed, byConn, confirmed, suspensions>>
    BY <1>6, <1>0 DEF Admit, Superseded, Now
  <2>2. CASE place[This] \in confirmed
    <3>1. attached' = attached \cup {This} /\ step' = "join" /\ admission' = admission
      BY <1>6, <2>2 DEF Admit, GoTo
    <3> QED
      BY <2>1, <3>1 DEF This
  <2>3. CASE place[This] \notin confirmed
    <3>1. /\ suspensions # 0 /\ attached' = attached
          /\ step' = "turn" /\ admission' = Tail(admission)
      BY <1>6, <2>1, <2>3 DEF Admit, Over
    <3> QED
      BY <1>0, <2>1, <3>1
  <2> QED
    BY <2>2, <2>3
<1>7. ASSUME Read PROVE IInv'
  BY <1>7 DEF Read, Now, GoTo, This
<1>8. ASSUME Enter PROVE IInv'
  BY <1>8, <1>0 DEF Enter, Now, GoTo, This
<1>9. ASSUME Joined PROVE IInv'
  BY <1>9, <1>0 DEF Joined, Now, Over, RoomForgets
<1>10. ASSUME NEW c \in Conn, NEW d \in Deed, DoDeed(c, d) PROVE IInv'
  BY <1>10 DEF DoDeed, This
<1>11. ASSUME NEW p \in Place, Checkpoint(p) \/ Commit(p) PROVE IInv'
  BY <1>11 DEF Checkpoint, Commit, This
<1>12. ASSUME NEW p \in Place, Suspend(p) PROVE IInv'
  BY <1>12 DEF Suspend, This
<1>13. ASSUME NEW p \in Place, Regain(p) PROVE IInv'
  BY <1>13 DEF Regain, This
<1>14. ASSUME UNCHANGED vars PROVE IInv'
  BY <1>14 DEF vars, This
<1> QED
  BY <1>1, <1>2, <1>3, <1>4, <1>5, <1>6, <1>7, <1>8, <1>9, <1>10, <1>11, <1>12, <1>13, <1>14
  DEF Next, HelloStep

\* The strengthening holds in every reachable state.
LEMMA Invariance == Spec => []IInv
  BY InitIInv, IInvStep, PTL DEF Spec

\* One live session per character across every room of every place: the router's chain
\* closes the others before it admits one, and a client that went away during its join is
\* taken out again (placeRouter.ts admit, instanceHub.ts onDisconnect, sessions.ts).
THEOREM OneSession == Spec => []OneSteadySession
<1>1. IInv => OneSteadySession
  <2> SUFFICES ASSUME IInv, "suspend" \notin may PROVE Cardinality(byConn) <= 1
    BY DEF OneSteadySession, OneLiveSession
  <2>1. \A c, o \in byConn : c = o
    BY DEF IInv, LeasesHold, OneAdmitted, SessionsAreAdmitted
  <2>2. CASE byConn = {}
    BY <2>2, FS_EmptySet
  <2>3. CASE byConn # {}
    <3>1. PICK c : byConn = {c}
      BY <2>1, <2>3
    <3> QED
      BY <3>1, FS_Singleton
  <2> QED
    BY <2>2, <2>3
<1> QED
  BY <1>1, Invariance, PTL

\* A session outlives its connection only while its hello runs, unless a room waited for
\* its lease (the look at the connection when the join is over, instanceHub.ts).
THEOREM NoGhost == Spec => []NoGhostSession
<1>1. IInv => NoGhostSession
  BY DEF IInv, ChainTypes, SessionsAreAdmitted, Joining, NoGhostSession
<1> QED
  BY <1>1, Invariance, PTL
--------------------------------------------------------------------------------
(* What is stored stays *)

\* Drains wait to the end, rooms keep their leases, and a client that leaves one place for
\* another leaves the closing to the router.
Steady == may \cap {"cut", "suspend"} = {} /\ ~({"close", "hop"} \subseteq may)

\* Types of what is carried and saved.
DeedTypes ==
  /\ have \in [Conn -> SUBSET Deed]
  /\ byPlayer \in [Place -> Conn \cup {NoConn}]
  /\ queue \in [Place -> Seq(Job)]
  /\ loaded \subseteq Deed /\ stored \subseteq Deed

\* A connection says hello once, and is admitted when its turn has come.
HellosAreNew ==
  /\ known \subseteq Conn /\ known \cap closed = {}
  /\ admitted \subseteq known
  /\ \A i \in 1 .. Len(admission) :
       /\ admission[i] \in known \cup closed
       /\ admission[i] \in admitted => i = 1 /\ Joining
       /\ \A j \in 1 .. Len(admission) : admission[i] = admission[j] => i = j

\* A room's character is a session; a hello that has yet to enter finds none.
SessionsInRooms ==
  /\ \A p \in Place : byPlayer[p] # NoConn => byPlayer[p] \in byConn /\ place[byPlayer[p]] = p
  /\ step \in {"drain", "join", "enter"} => byConn = {}

\* No room has a save under way.
Idle == \A p \in Place : queue[p] = <<>>

\* Copies grow on the way to the database, and the session has the largest.
CopiesGrow ==
  /\ \A p \in Place : \A i, j \in 1 .. Len(queue[p]) :
       stored \subseteq queue[p][i].deeds /\ (i <= j => queue[p][i].deeds \subseteq queue[p][j].deeds)
  /\ \A c \in byConn :
       /\ stored \subseteq have[c]
       /\ \A i \in 1 .. Len(queue[place[c]]) : queue[place[c]][i].deeds \subseteq have[c]

\* One room at a time has saves under way: that of the session, or the one waited for.
OneRoomSaves ==
  /\ \A p \in Place : queue[p] # <<>> => \E c \in Conn : place[c] = p
  /\ "hop" \notin may => \A c, o \in Conn : place[c] = place[o]
  /\ "close" \notin may =>
       /\ Joining => This \notin closed
       /\ \A p \in Place : queue[p] # <<>> =>
            (\E c \in byConn : place[c] = p) \/ (step = "drain" /\ drainPlace = p)
  /\ step = "enter" => Idle /\ loaded = stored

\* What a steady behaviour keeps besides IInv.
SteadyInv == HellosAreNew /\ DeedTypes /\ SessionsInRooms /\ CopiesGrow /\ OneRoomSaves

\* A job appended to a queue of growing copies, when it has what the last of them has.
LEMMA QueueAppend ==
  ASSUME NEW q \in Seq(Job), NEW j \in Job
  PROVE  /\ Append(q, j) \in Seq(Job) /\ Len(Append(q, j)) = Len(q) + 1 /\ Len(q) \in Nat
         /\ Append(q, j) # <<>> /\ Append(q, j)[Len(q) + 1] = j
         /\ \A i \in 1 .. Len(q) : Append(q, j)[i] = q[i] /\ q[i] \in Job
  BY AppendProperties, ElementOfSeq

\* What a commit leaves of a queue.
LEMMA QueueTail ==
  ASSUME NEW q \in Seq(Job), q # <<>>
  PROVE  /\ Tail(q) \in Seq(Job) /\ Len(q) \in Nat /\ 1 \in 1 .. Len(q) /\ Head(q) = q[1] /\ Head(q) \in Job
         /\ Len(Tail(q)) = Len(q) - 1
         /\ \A i \in 1 .. Len(Tail(q)) : i + 1 \in 1 .. Len(q) /\ Tail(q)[i] = q[i + 1]
<1>1. /\ Tail(q) \in Seq(Job) /\ Len(q) \in Nat /\ Head(q) = q[1] /\ Head(q) \in Job
      /\ Len(Tail(q)) = Len(q) - 1 /\ \A i \in 1 .. Len(Tail(q)) : Tail(q)[i] = q[i + 1]
  BY HeadTailProperties
<1>2. Len(q) >= 1
  BY <1>1, EmptySeq
<1> QED
  BY <1>1, <1>2

\* What a hello's end leaves of the chain.
LEMMA ChainEnds ==
  ASSUME NEW s \in Seq(Conn), s # <<>>
  PROVE  /\ Head(s) = s[1] /\ 1 \in 1 .. Len(s) /\ Len(Tail(s)) = Len(s) - 1 /\ Len(s) \in Nat
         /\ \A i \in 1 .. Len(Tail(s)) : i + 1 \in 1 .. Len(s) /\ Tail(s)[i] = s[i + 1]
<1>1. /\ Len(s) \in Nat /\ Head(s) = s[1]
      /\ Len(Tail(s)) = Len(s) - 1 /\ \A i \in 1 .. Len(Tail(s)) : Tail(s)[i] = s[i + 1]
  BY HeadTailProperties
<1>2. Len(s) >= 1
  BY <1>1, EmptySeq
<1> QED
  BY <1>1, <1>2

\* Every step keeps the hellos apart.
LEMMA HellosStep ==
  ASSUME IInv, HellosAreNew, [Next]_vars
  PROVE  HellosAreNew'
<1> USE DEF IInv, ChainTypes, OneAdmitted, Joining, fixed, router, chain, sessions
<1>1. ASSUME NEW c \in Conn, Hello(c) PROVE HellosAreNew'
  <2>1. /\ Len(admission') = Len(admission) + 1 /\ admission'[Len(admission) + 1] = c
        /\ \A i \in 1 .. Len(admission) : admission'[i] = admission[i]
        /\ Len(admission) \in Nat
    BY <1>1, AppendProperties DEF Hello
  <2> QED
    BY <1>1, <2>1 DEF Hello, HellosAreNew
<1>2. ASSUME NEW c \in Conn, Close(c) PROVE HellosAreNew'
  BY <1>2 DEF Close, Disconnect, HellosAreNew
<1>3. ASSUME Skip \/ Joined PROVE HellosAreNew'
  <2>1. /\ admission # <<>> /\ admission' = Tail(admission) /\ step' = "turn"
        /\ UNCHANGED <<known, closed, admitted>>
    BY <1>3 DEF Skip, Joined, Now, Over
  <2>2. /\ Len(admission) \in Nat /\ Len(admission') = Len(admission) - 1
        /\ \A i \in 1 .. Len(admission') : i + 1 \in 1 .. Len(admission) /\ admission'[i] = admission[i + 1]
    BY <2>1, ChainEnds
  <2> QED
    BY <2>1, <2>2 DEF HellosAreNew
<1>4. ASSUME Supersede PROVE HellosAreNew'
  BY <1>4 DEF Supersede, Superseded, Now, GoTo, Disconnect, HellosAreNew
<1>5. ASSUME DrainedBefore PROVE HellosAreNew'
  BY <1>5 DEF DrainedBefore, Now, GoTo, HellosAreNew
<1>6. ASSUME Admit PROVE HellosAreNew'
  <2>1. /\ admission # <<>> /\ step = "turn" /\ This \notin closed
        /\ admitted' = admitted \cup {This} /\ UNCHANGED <<known, closed>>
    BY <1>6 DEF Admit, Now
  <2>2. /\ This = admission[1] /\ 1 \in 1 .. Len(admission) /\ Len(admission) \in Nat
        /\ Len(Tail(admission)) = Len(admission) - 1
        /\ \A i \in 1 .. Len(Tail(admission)) : i + 1 \in 1 .. Len(admission) /\ Tail(admission)[i] = admission[i + 1]
    BY <2>1, ChainEnds DEF This
  <2>3. This \in known
    BY <2>1, <2>2 DEF HellosAreNew
  <2>4. CASE place[This] \in confirmed
    <3>1. step' = "join" /\ admission' = admission
      BY <1>6, <2>4 DEF Admit, GoTo
    <3> QED
      BY <2>1, <2>2, <2>3, <3>1 DEF HellosAreNew
  <2>5. CASE place[This] \notin confirmed
    <3>1. step' = "turn" /\ admission' = Tail(admission)
      BY <1>6, <2>5 DEF Admit, Over
    <3> QED
      BY <2>1, <2>2, <2>3, <3>1 DEF HellosAreNew
  <2> QED
    BY <2>4, <2>5
<1>7. ASSUME Read \/ Enter PROVE HellosAreNew'
  BY <1>7 DEF Read, Enter, Now, GoTo, HellosAreNew
<1>8. ASSUME UNCHANGED <<known, closed, admitted, admission, step>> PROVE HellosAreNew'
  BY <1>8 DEF HellosAreNew
<1> QED
  BY <1>1, <1>2, <1>3, <1>4, <1>5, <1>6, <1>7, <1>8
  DEF Next, HelloStep, DoDeed, Checkpoint, Commit, Suspend, Regain, vars


\* With leases that hold there is one session, behind the admitted connection, and a hello
\* before its turn has none.
LEMMA OneHasASession ==
  ASSUME IInv, Steady
  PROVE  /\ confirmed = Place /\ \A c, o \in byConn : c = o
         /\ byConn \subseteq Conn
         /\ ~Joining => byConn \subseteq admitted \cap attached
         /\ Joining => byConn \subseteq {This}
  BY DEF Steady, IInv, ChainTypes, LeasesHold, OneAdmitted, SessionsAreAdmitted

\* The session's copy goes to the end of its room's queue.
LEMMA SaveQueued ==
  ASSUME IInv, Steady, SteadyInv, NEW c \in byConn, NEW k \in {"checkpoint", "leave"},
         queue' = [queue EXCEPT ![place[c]] = Append(@, [kind |-> k, deeds |-> have[c]])],
         UNCHANGED <<stored, have, place>>, byConn' \subseteq byConn
  PROVE  /\ CopiesGrow' /\ queue' \in [Place -> Seq(Job)]
         /\ \A p \in Place \ {place[c]} : queue'[p] = queue[p]
<1> DEFINE j == [kind |-> k, deeds |-> have[c]]
           q == queue[place[c]]
<1>1. c \in Conn /\ place[c] \in Place /\ j \in Job /\ j.deeds = have[c] /\ q \in Seq(Job)
  BY OneHasASession DEF IInv, ChainTypes, SteadyInv, DeedTypes, Job
<1> HIDE DEF j
<1>2. /\ queue'[place[c]] = Append(q, j) /\ \A p \in Place \ {place[c]} : queue'[p] = queue[p]
      /\ queue' \in [Place -> Seq(Job)]
  BY <1>1, QueueAppend DEF SteadyInv, DeedTypes, j
<1>3. /\ Len(queue'[place[c]]) = Len(q) + 1 /\ Len(q) \in Nat /\ queue'[place[c]][Len(q) + 1] = j
      /\ \A i \in 1 .. Len(q) : queue'[place[c]][i] = q[i]
  BY <1>1, <1>2, QueueAppend
<1>4. /\ stored \subseteq have[c]
      /\ \A i \in 1 .. Len(q) : /\ stored \subseteq q[i].deeds /\ q[i].deeds \subseteq have[c]
                                /\ \A n \in 1 .. Len(q) : i <= n => q[i].deeds \subseteq q[n].deeds
  BY <1>1 DEF SteadyInv, CopiesGrow
<1>5. \A i, n \in 1 .. Len(queue'[place[c]]) :
        /\ stored \subseteq queue'[place[c]][i].deeds /\ queue'[place[c]][i].deeds \subseteq have[c]
        /\ i <= n => queue'[place[c]][i].deeds \subseteq queue'[place[c]][n].deeds
  BY <1>1, <1>3, <1>4
<1>6. ASSUME NEW p \in Place, NEW i \in 1 .. Len(queue'[p]), NEW n \in 1 .. Len(queue'[p])
      PROVE  stored \subseteq queue'[p][i].deeds /\ (i <= n => queue'[p][i].deeds \subseteq queue'[p][n].deeds)
  <2>1. CASE p = place[c]
    BY <1>5, <2>1
  <2>2. CASE p # place[c]
    BY <1>2, <2>2 DEF SteadyInv, CopiesGrow
  <2> QED
    BY <2>1, <2>2
<1>7. ASSUME NEW o \in byConn'
      PROVE  /\ stored \subseteq have[o]
             /\ \A i \in 1 .. Len(queue'[place[o]]) : queue'[place[o]][i].deeds \subseteq have[o]
  <2>1. o = c
    BY OneHasASession
  <2> QED
    BY <1>4, <1>5, <2>1
<1> QED
  BY <1>2, <1>6, <1>7 DEF CopiesGrow

\* Disconnecting a connection that may have a session.
LEMMA ForgetsSteadily ==
  ASSUME IInv, Steady, SteadyInv, NEW c \in Conn, RoomForgets(c) \/ UNCHANGED <<byConn, byPlayer, queue>>,
         UNCHANGED <<stored, have, place>>
  PROVE  /\ CopiesGrow' /\ queue' \in [Place -> Seq(Job)] /\ byPlayer' \in [Place -> Conn \cup {NoConn}]
         /\ \A p \in Place : byPlayer'[p] # NoConn => byPlayer'[p] \in byConn' /\ place[byPlayer'[p]] = p
         /\ byConn' \subseteq byConn
         /\ \A p \in Place : queue'[p] # <<>> => queue[p] # <<>> \/ (c \in byConn /\ p = place[c])
<1>1. CASE c \in byConn /\ RoomForgets(c)
  <2>1. /\ queue' = [queue EXCEPT ![place[c]] = Append(@, [kind |-> "leave", deeds |-> have[c]])]
        /\ byConn' = byConn \ {c} /\ byPlayer' = [byPlayer EXCEPT ![place[c]] = NoConn]
    BY <1>1 DEF RoomForgets
  <2>2. CopiesGrow' /\ queue' \in [Place -> Seq(Job)] /\ \A p \in Place \ {place[c]} : queue'[p] = queue[p]
    BY <1>1, <2>1, SaveQueued
  <2> QED
    BY <1>1, <2>1, <2>2 DEF IInv, ChainTypes, SteadyInv, DeedTypes, SessionsInRooms
<1>2. CASE UNCHANGED <<byConn, byPlayer, queue>>
  BY <1>2 DEF SteadyInv, DeedTypes, SessionsInRooms, CopiesGrow
<1> QED
  BY <1>1, <1>2 DEF RoomForgets

\* While nothing is saved and the hello has no session, everything is settled when its read begins.
LEMMA QuietBeforeRead ==
  ASSUME IInv, Steady, SteadyInv, step = "join", queue[place[This]] = <<>>, This \in Conn
  PROVE  Idle
<1> SUFFICES ASSUME NEW p \in Place, queue[p] # <<>> PROVE FALSE
  BY DEF Idle
<1>1. byConn = {}
  BY DEF SteadyInv, SessionsInRooms
<1>2. "close" \in may
  BY <1>1 DEF SteadyInv, OneRoomSaves
<1>3. \A c, o \in Conn : place[c] = place[o]
  BY <1>2 DEF Steady, SteadyInv, OneRoomSaves
<1> QED
  BY <1>3 DEF SteadyInv, OneRoomSaves

\* Every step keeps the copies in order, and none takes back what is stored.
LEMMA SteadyStep ==
  ASSUME IInv, Steady, SteadyInv, [Next]_vars, IInv', HellosAreNew'
  PROVE  SteadyInv' /\ stored \subseteq stored'
<1> USE DEF fixed, router, chain, sessions
<1>0. /\ admission # <<>> => This \in Conn
      /\ place \in [Conn -> Place] /\ may' = may /\ place' = place
  BY Chain DEF IInv, ChainTypes, Next, HelloStep, Hello, Close, Disconnect, Skip, Supersede, DrainedBefore, Admit,
     Read, Enter, Joined, DoDeed, Checkpoint, Commit, Suspend, Regain, vars
<1>1. ASSUME NEW c \in Conn, Hello(c) PROVE SteadyInv' /\ stored \subseteq stored'
  <2>1. Joining => This' = This
    BY <1>1, Chain DEF Hello, This, IInv, ChainTypes, Joining
  <2> QED
    BY <1>1, <2>1 DEF Hello, SteadyInv, DeedTypes, SessionsInRooms, CopiesGrow, OneRoomSaves, Idle, Joining
<1>2. ASSUME NEW c \in Conn, Close(c) PROVE SteadyInv' /\ stored \subseteq stored'
  <2>1. /\ RoomForgets(c) \/ UNCHANGED <<byConn, byPlayer, queue>>
        /\ "close" \in may /\ UNCHANGED <<chain, have, stored>>
    BY <1>2 DEF Close, Disconnect
  <2>2. step = "enter" => byConn = {}
    BY DEF SteadyInv, SessionsInRooms
  <2> QED
    BY <1>0, <2>1, <2>2, ForgetsSteadily DEF SteadyInv, DeedTypes, SessionsInRooms, OneRoomSaves, Idle
<1>3. ASSUME Skip PROVE SteadyInv' /\ stored \subseteq stored'
  BY <1>3 DEF Skip, Over, Now, SteadyInv, DeedTypes, SessionsInRooms, CopiesGrow, OneRoomSaves, Joining
<1>4. ASSUME Supersede PROVE SteadyInv' /\ stored \subseteq stored'
  <2>1. PICK o \in Superseded : Disconnect(o) /\ drainPlace' = place[o]
    BY <1>4 DEF Supersede
  <2>2. /\ step = "turn" /\ step' = "drain" /\ admission' = admission
        /\ UNCHANGED <<may, place, loaded, have, stored, confirmed>>
    BY <1>4 DEF Supersede, Now, GoTo
  <2>3. byConn \subseteq {o} /\ o \in Conn /\ (o \in byConn => RoomForgets(o))
    <3>1. byConn \subseteq admitted \cap attached
      BY <2>2, OneHasASession DEF Joining
    <3>2. byConn \subseteq {o}
      BY <2>1, <3>1 DEF Superseded, IInv, OneAdmitted
    <3> QED
      BY <1>0, <2>1, <3>1, <3>2, OneHasASession 
         DEF Disconnect, Superseded, IInv, ChainTypes, SteadyInv, HellosAreNew
  <2>4. RoomForgets(o) \/ UNCHANGED <<byConn, byPlayer, queue>>
    BY <2>1 DEF Disconnect
  <2>5. /\ CopiesGrow' /\ queue' \in [Place -> Seq(Job)] /\ byPlayer' \in [Place -> Conn \cup {NoConn}]
        /\ \A p \in Place : byPlayer'[p] # NoConn => byPlayer'[p] \in byConn' /\ place[byPlayer'[p]] = p
        /\ \A p \in Place : queue'[p] # <<>> => queue[p] # <<>> \/ (o \in byConn /\ p = place[o])
    BY <1>0, <2>2, <2>3, <2>4, ForgetsSteadily
  <2>6. byConn' = {}
    BY <2>3, <2>4 DEF RoomForgets
  <2>7. "close" \notin may => \A p \in Place : queue'[p] # <<>> => p = drainPlace'
    BY <2>1, <2>2, <2>3, <2>5 DEF SteadyInv, OneRoomSaves
  <2>8. OneRoomSaves'
    BY <1>0, <2>2, <2>3, <2>5, <2>6, <2>7 DEF SteadyInv, OneRoomSaves, Joining
  <2> QED
    BY <2>2, <2>5, <2>6, <2>8 DEF SteadyInv, DeedTypes, SessionsInRooms
<1>5. ASSUME DrainedBefore PROVE SteadyInv' /\ stored \subseteq stored'
  <2>1. /\ step = "drain" /\ step' = "turn" /\ UNCHANGED <<may, place, admission, closed, drainPlace, loaded>>
        /\ UNCHANGED <<sessions, queue, stored>>
    BY <1>5 DEF DrainedBefore, Now, GoTo
  <2>2. queue[drainPlace] = <<>> \/ drainPlace \notin Place
    BY <1>5, OneHasASession DEF DrainedBefore, Steady
  <2> QED
    BY <2>1, <2>2 DEF SteadyInv, DeedTypes, SessionsInRooms, CopiesGrow, OneRoomSaves, Joining
<1>6. ASSUME Admit PROVE SteadyInv' /\ stored \subseteq stored'
  <2>1. /\ admission # <<>> /\ step = "turn" /\ This \notin closed /\ admitted \subseteq {This}
        /\ place[This] \in confirmed
    BY <1>0, <1>6, OneHasASession DEF Admit, Now, Superseded, IInv, ChainTypes
  <2>2. /\ step' = "join" /\ admission' = admission
        /\ UNCHANGED <<may, place, closed, drainPlace, loaded, sessions, queue, stored>>
    BY <1>6, <2>1 DEF Admit, GoTo
  <2>3. This \notin admitted
    <3>1. This = admission[1] /\ 1 \in 1 .. Len(admission)
      BY <2>1, ChainEnds DEF This, IInv, ChainTypes
    <3> QED
      BY <2>1, <3>1 DEF SteadyInv, HellosAreNew, Joining
  <2>4. byConn = {}
    BY <2>1, <2>3, OneHasASession DEF Joining
  <2> QED
    BY <2>1, <2>2, <2>4 DEF SteadyInv, DeedTypes, SessionsInRooms, CopiesGrow, OneRoomSaves, Joining, This
<1>7. ASSUME Read PROVE SteadyInv' /\ stored \subseteq stored'
  <2>1. /\ step = "join" /\ step' = "enter" /\ queue[place[This]] = <<>> /\ This \in Conn
        /\ UNCHANGED <<may, place, admission, closed, drainPlace, sessions, queue, stored>> /\ loaded' = stored
    BY <1>0, <1>7 DEF Read, Now, GoTo, Steady
  <2>2. Idle
    BY <2>1, QuietBeforeRead
  <2> QED
    BY <2>1, <2>2 DEF SteadyInv, DeedTypes, SessionsInRooms, CopiesGrow, OneRoomSaves, Idle, Joining, This
<1>8. ASSUME Enter PROVE SteadyInv' /\ stored \subseteq stored'
  <2>1. /\ step = "enter" /\ step' = "joined" /\ This \in Conn /\ admission # <<>>
        /\ UNCHANGED <<may, place, admission, closed, drainPlace, queue, stored>>
        /\ byConn' = byConn \cup {This} /\ byPlayer' = [byPlayer EXCEPT ![place[This]] = This]
        /\ have' = [have EXCEPT ![This] = loaded] /\ loaded' = loaded
    BY <1>0, <1>8 DEF Enter, Now, GoTo
  <2>2. Idle /\ loaded = stored /\ byConn = {}
    BY <2>1 DEF SteadyInv, OneRoomSaves, SessionsInRooms
  <2>3. \A p \in Place : queue[p] = <<>> /\ Len(queue[p]) = 0
    BY <2>2, EmptySeq DEF Idle
  <2> QED
    BY <1>0, <2>1, <2>2, <2>3 DEF SteadyInv, DeedTypes, SessionsInRooms, CopiesGrow, OneRoomSaves, Joining, This
<1>9. ASSUME Joined PROVE SteadyInv' /\ stored \subseteq stored'
  <2>1. /\ admission # <<>> /\ step = "joined" /\ step' = "turn" /\ This \in Conn
        /\ UNCHANGED <<may, place, closed, drainPlace, loaded, have, stored>>
        /\ RoomForgets(This) \/ UNCHANGED <<byConn, byPlayer, queue>>
        /\ This \notin closed => UNCHANGED <<byConn, byPlayer, queue>>
    BY <1>0, <1>9 DEF Joined, Now, Over
  <2>2. "close" \notin may => This \notin closed
    BY <2>1 DEF SteadyInv, OneRoomSaves, Joining
  <2> QED
    BY <1>0, <2>1, <2>2, ForgetsSteadily DEF SteadyInv, DeedTypes, SessionsInRooms, OneRoomSaves, Joining
<1>10. ASSUME NEW c \in Conn, NEW d \in Deed, DoDeed(c, d) PROVE SteadyInv' /\ stored \subseteq stored'
  <2>1. /\ have' = [have EXCEPT ![c] = @ \cup {d}]
        /\ UNCHANGED <<may, place, closed, chain, byConn, byPlayer, queue, stored>>
    BY <1>10 DEF DoDeed
  <2>2. /\ have' \in [Conn -> SUBSET Deed] /\ \A o \in Conn : have[o] \subseteq have'[o]
    BY <2>1 DEF SteadyInv, DeedTypes
  <2>3. CopiesGrow'
    BY <2>1, <2>2, OneHasASession DEF SteadyInv, CopiesGrow
  <2> QED
    BY <2>1, <2>2, <2>3 DEF SteadyInv, DeedTypes, SessionsInRooms, OneRoomSaves, Idle, Joining, This
<1>11. ASSUME NEW p \in Place, Checkpoint(p) PROVE SteadyInv' /\ stored \subseteq stored'
  <2> DEFINE c == byPlayer[p]
  <2>1. /\ c \in byConn /\ place[c] = p
        /\ queue' = [queue EXCEPT ![p] = Append(@, [kind |-> "checkpoint", deeds |-> have[c]])]
        /\ UNCHANGED <<may, place, closed, chain, sessions, stored>>
    BY <1>11 DEF Checkpoint, SteadyInv, SessionsInRooms
  <2>2. CopiesGrow' /\ queue' \in [Place -> Seq(Job)] /\ \A r \in Place \ {p} : queue'[r] = queue[r]
    BY <2>1, SaveQueued
  <2>3. step \notin {"drain", "join", "enter"} /\ c \in Conn
    BY <2>1, OneHasASession DEF SteadyInv, SessionsInRooms
  <2> QED
    BY <2>1, <2>2, <2>3 DEF SteadyInv, DeedTypes, SessionsInRooms, OneRoomSaves, Joining, This
<1>12. ASSUME NEW p \in Place, Commit(p) PROVE SteadyInv' /\ stored \subseteq stored'
  <2>1. /\ queue[p] # <<>> /\ stored' = Head(queue[p]).deeds /\ queue' = [queue EXCEPT ![p] = Tail(@)]
        /\ UNCHANGED <<may, place, closed, chain, sessions>>
    BY <1>12 DEF Commit
  <2>2. /\ queue[p] \in Seq(Job) /\ queue \in [Place -> Seq(Job)]
    BY DEF SteadyInv, DeedTypes
  <2>3. /\ Tail(queue[p]) \in Seq(Job) /\ 1 \in 1 .. Len(queue[p]) /\ Head(queue[p]) = queue[p][1]
        /\ Head(queue[p]) \in Job /\ Len(queue[p]) \in Nat /\ Len(Tail(queue[p])) = Len(queue[p]) - 1
        /\ \A i \in 1 .. Len(Tail(queue[p])) : i + 1 \in 1 .. Len(queue[p]) /\ Tail(queue[p])[i] = queue[p][i + 1]
    BY <2>1, <2>2, QueueTail
  <2>4. stored \subseteq stored' /\ stored' \subseteq Deed
    BY <2>1, <2>3 DEF SteadyInv, CopiesGrow, Job
  <2>5. \A r \in Place \ {p} : queue[r] = <<>> /\ Len(queue[r]) = 0
    <3>1. ASSUME NEW r \in Place, queue[r] # <<>> PROVE r = p
      <4>1. CASE "close" \notin may
        BY <2>1, <3>1, <4>1, OneHasASession DEF SteadyInv, OneRoomSaves, SessionsInRooms
      <4>2. CASE "close" \in may
        BY <2>1, <3>1, <4>2 DEF SteadyInv, OneRoomSaves, Steady
      <4> QED
        BY <4>1, <4>2
    <3> QED
      BY <3>1, EmptySeq
  <2>6. /\ queue' \in [Place -> Seq(Job)] /\ queue'[p] = Tail(queue[p])
        /\ \A r \in Place \ {p} : queue'[r] = queue[r]
    BY <2>1, <2>2, <2>3
  <2>7. \A i, n \in 1 .. Len(queue[p]) : i <= n => queue[p][i].deeds \subseteq queue[p][n].deeds
    BY DEF SteadyInv, CopiesGrow
  <2>8. ASSUME NEW r \in Place, NEW i \in 1 .. Len(queue'[r]), NEW n \in 1 .. Len(queue'[r])
        PROVE  /\ stored' \subseteq queue'[r][i].deeds
               /\ i <= n => queue'[r][i].deeds \subseteq queue'[r][n].deeds
    <3>1. r = p
      BY <2>5, <2>6
    <3>2. queue'[r] = Tail(queue[p])
      BY <2>6, <3>1
    <3>3. i \in 1 .. Len(Tail(queue[p])) /\ n \in 1 .. Len(Tail(queue[p]))
      BY <3>2
    <3>4. 1 <= i + 1 /\ (i <= n => i + 1 <= n + 1)
      BY <2>3, <3>3
    <3>5. /\ queue'[r][i] = queue[p][i + 1] /\ queue'[r][n] = queue[p][n + 1]
          /\ i + 1 \in 1 .. Len(queue[p]) /\ n + 1 \in 1 .. Len(queue[p])
      BY <2>3, <3>2, <3>3
    <3> QED
      BY <2>1, <2>3, <2>7, <3>4, <3>5
  <2>9. ASSUME NEW c \in byConn
        PROVE  /\ stored' \subseteq have[c]
               /\ \A i \in 1 .. Len(queue'[place[c]]) : queue'[place[c]][i].deeds \subseteq have[c]
    <3>1. place[c] = p
      <4>1. CASE "close" \notin may
        BY <2>1, <4>1, OneHasASession DEF SteadyInv, OneRoomSaves, SessionsInRooms
      <4>2. CASE "close" \in may
        BY <2>1, <4>2, OneHasASession DEF SteadyInv, OneRoomSaves, Steady
      <4> QED
        BY <4>1, <4>2
    <3>2. \A i \in 1 .. Len(queue[p]) : queue[p][i].deeds \subseteq have[c]
      BY <3>1 DEF SteadyInv, CopiesGrow
    <3> QED
      BY <2>1, <2>3, <2>6, <3>1, <3>2
  <2>10. CopiesGrow'
    BY <2>1, <2>8, <2>9 DEF CopiesGrow
  <2>11. step # "enter"
    BY <2>1 DEF SteadyInv, OneRoomSaves, Idle
  <2>12. OneRoomSaves'
    <3>1. \A r \in Place : queue'[r] # <<>> => queue[r] # <<>>
      BY <2>1, <2>6
    <3> QED
      BY <2>1, <2>11, <3>1 DEF SteadyInv, OneRoomSaves, Joining, This
  <2> QED
    BY <2>1, <2>4, <2>6, <2>10, <2>12 DEF SteadyInv, DeedTypes, SessionsInRooms
<1>13. ASSUME NEW p \in Place, Suspend(p) PROVE SteadyInv' /\ stored \subseteq stored'
  BY <1>13 DEF Suspend, Steady
<1>14. ASSUME NEW p \in Place, Regain(p) PROVE SteadyInv' /\ stored \subseteq stored'
  BY <1>14, OneHasASession DEF Regain
<1>15. ASSUME UNCHANGED vars PROVE SteadyInv' /\ stored \subseteq stored'
  BY <1>15 DEF vars, SteadyInv, DeedTypes, SessionsInRooms, CopiesGrow, OneRoomSaves, Idle, Joining, This
<1> QED
  BY <1>1, <1>2, <1>3, <1>4, <1>5, <1>6, <1>7, <1>8, <1>9, <1>10, <1>11, <1>12, <1>13, <1>14, <1>15 DEF Next, HelloStep


\* It begins so.
LEMMA SteadyInit == Init /\ Steady => SteadyInv
  BY EmptySeq DEF Init, Steady, SteadyInv, HellosAreNew, DeedTypes, SessionsInRooms, CopiesGrow, OneRoomSaves, Joining

\* What a steady behaviour keeps, and what it never does.
LEMMA SteadyInvariance == Spec => [](Steady => SteadyInv)
<1>1. IInv /\ IInv' /\ (Steady => SteadyInv) /\ [Next]_vars => (Steady => SteadyInv)'
  <2> SUFFICES ASSUME IInv, IInv', Steady => SteadyInv, [Next]_vars, Steady' PROVE SteadyInv'
    OBVIOUS
  <2>1. may' = may
    BY DEF Next, HelloStep, Hello, Close, Skip, Supersede, DrainedBefore, Admit, Read, Enter, Joined, DoDeed,
       Checkpoint, Commit, Suspend, Regain, vars, fixed
  <2>2. SteadyInv
    BY <2>1 DEF Steady
  <2> QED
    BY <2>1, <2>2, HellosStep, SteadyStep DEF Steady, SteadyInv
<1> QED
  BY <1>1, SteadyInit, Invariance, PTL DEF Spec

\* What the database holds of a character is never taken back: the next join waits for the
\* saves of the last session, in its room or at the place it is superseded at
\* (placeRouter.ts admit, sessions.ts resolveHello), when drains wait to the end, rooms keep
\* their leases, and clients do not both close and hop.
THEOREM SteadyStays == Spec => SteadyDeedsStay
<1>1. ASSUME IInv, IInv', Steady => SteadyInv, [Next]_vars
      PROVE  [may \cap {"cut", "suspend"} = {} /\ ~({"close", "hop"} \subseteq may) => stored \subseteq stored']_vars
  <2> SUFFICES ASSUME Steady PROVE stored \subseteq stored'
    BY DEF Steady
  <2> QED
    BY <1>1, HellosStep, SteadyStep DEF SteadyInv
<1> QED
  BY <1>1, Invariance, SteadyInvariance, PTL DEF Spec, SteadyDeedsStay
--------------------------------------------------------------------------------
(* The streams to Play                                                          *)

HIDE SessionAssumptions

Tables == {"rounds", "unlocks"}
Cursors == Nat \X Nat \X Nat
Rows == [ref : Nat, player : Account, at : Nat]
Adoptions == [player : Guest, into : Person, ref : {0}, at : Nat]
Entries == [ref : Nat, players : SUBSET Account, at : Nat]

\* The types the argument needs; a pass that has read nothing is at the start of a stream.
QueueTypes ==
  /\ clock \in Nat
  /\ pending \in [rounds : Seq(Entries), unlocks : Seq(Rows)]

StreamTypes ==
  /\ rows \in [Tables -> SUBSET Rows]
  /\ adoptions \subseteq Adoptions
  /\ position \in [Stream -> Cursors]

PassTypes ==
  /\ pass.read =>
       /\ pass \in [stream : Stream, batch : Seq(Rows \cup adoptions), read : BOOLEAN, accepted : BOOLEAN]
       /\ pass.batch # <<>>
       /\ \A i \in DOMAIN pass.batch : pass.batch[i] \in IF pass.stream = "adoptions" THEN adoptions ELSE Rows
  /\ ~pass.read => pass = Rest \/ \E s \in Stream : pass = At(s)

\* A guest is adopted once.
AdoptedOnce == \A a, b \in adoptions : a.player = b.player => a = b

\* The batch in hand is in the stream's order and past its position.
BatchInOrder ==
  pass.read =>
    /\ \A i, j \in DOMAIN pass.batch : i < j => Before(CursorOf(pass.batch[i]), CursorOf(pass.batch[j]))
    /\ \A i \in DOMAIN pass.batch : Before(position[pass.stream], CursorOf(pass.batch[i]))

\* What Play has accepted it holds; an adoption it has accepted left nothing the guest's.
AcceptedIsHeld ==
  pass.read /\ pass.accepted =>
    /\ pass.stream # "adoptions" =>
         \A i \in 1..Size : <<pass.stream, pass.batch[i].ref, pass.batch[i].player>> \in play
    /\ pass.stream = "adoptions" => \A x \in play : x[3] # pass.batch[1].player

\* The adoptions Play will be told of: those in hand, and those past what has been read.
InHand(a) == pass.read /\ pass.stream = "adoptions" /\ \E i \in DOMAIN pass.batch : pass.batch[i] = a
ToTell == {a \in adoptions : Before(ReadUpTo("adoptions"), CursorOf(a)) \/ InHand(a)}

\* The keys of KnownAs, from the adoptions that will be told.
StillKnown(x) ==
  {x} \cup {a.player : a \in {b \in ToTell : b.into = x}}
      \cup {a.into : a \in {b \in adoptions : b.player = x}}

Held(s, r) == \E x \in StillKnown(r.player) : <<s, r.ref, x>> \in play
IsLate(s, r) == <<s, r.ref, r.player>> \in late

\* A row at or behind the position is Play's, or late.
Covered(s, r) == Before(position[s], CursorOf(r)) \/ Held(s, r) \/ IsLate(s, r)

\* The batch holds the row, under a key it is known as, and not past it.
Carried(r) ==
  \E i \in DOMAIN pass.batch :
    /\ pass.batch[i].ref = r.ref /\ pass.batch[i].player \in StillKnown(r.player)
    /\ ~Before(CursorOf(r), CursorOf(pass.batch[i]))

\* A row at or behind the end of the batch is in it, or Play's, or late.
Reached(s, r) ==
  pass.read /\ pass.stream = s =>
    Before(ReadUpTo(s), CursorOf(r)) \/ Held(s, r) \/ IsLate(s, r) \/ Carried(r)

RowsReached == \A s \in Tables : \A r \in rows[s] : Covered(s, r) /\ Reached(s, r)

\* The strengthening of NothingIsLost that every step preserves.
PlayIInv ==
  /\ QueueTypes /\ StreamTypes /\ PassTypes
  /\ AdoptedOnce /\ BatchInOrder /\ AcceptedIsHeld /\ RowsReached
--------------------------------------------------------------------------------
\* Some numbers have a least one.
LEMMA LeastOf ==
  ASSUME NEW T \in SUBSET Nat, T # {}
  PROVE  \E t \in T : \A u \in T : t <= u
<1>1. PICK t \in T : \A u \in T : ~(<<u, t>> \in OpToRel(<, Nat))
  BY NatLessThanWellFounded, WFMin
<1>2. ASSUME NEW u \in T PROVE t <= u
  <2>1. t \in Nat /\ u \in Nat /\ <<u, t>> \in Nat \X Nat
    OBVIOUS
  <2>2. ~(u < t)
    BY <1>1, <2>1 DEF OpToRel
  <2> QED
    BY <2>1, <2>2
<1> QED
  BY <1>2

\* Cursors are ordered by time and key.
LEMMA Accounts ==
  /\ Account \subseteq Nat
  /\ \A g \in Guest, p \in Person : g < p /\ g \notin Person /\ p \notin Guest /\ g \in Account /\ p \in Account
<1>1. /\ Guest \subseteq Nat /\ Person \subseteq Nat
      /\ \A g \in Guest, p \in Person : g < p
  BY PlaySyncAssumption
<1>2. ASSUME NEW g \in Guest, NEW p \in Person
      PROVE  g < p /\ g \notin Person /\ p \notin Guest
  <2>1. g < p /\ g \in Nat /\ p \in Nat
    BY <1>1
  <2>2. g \notin Person
    BY <1>1, <2>1
  <2>3. p \notin Guest
    BY <1>1, <2>1
  <2> QED
    BY <2>1, <2>2, <2>3
<1> QED
  BY <1>1, <1>2 DEF Account

LEMMA BeforeOrder ==
  ASSUME NEW x \in Cursors, NEW y \in Cursors, NEW z \in Cursors
  PROVE  /\ ~Before(x, x)
         /\ Before(x, y) /\ Before(y, z) => Before(x, z)
         /\ Before(x, y) /\ ~Before(z, y) => Before(x, z)
<1>1. /\ x[1] \in Nat /\ x[2] \in Nat /\ x[3] \in Nat
      /\ y[1] \in Nat /\ y[2] \in Nat /\ y[3] \in Nat
      /\ z[1] \in Nat /\ z[2] \in Nat /\ z[3] \in Nat
  BY DEF Cursors
<1>2. ~Before(x, x)
  BY <1>1 DEF Before
<1>3. Before(x, y) /\ Before(y, z) => Before(x, z)
  BY <1>1 DEF Before
<1>4. Before(x, y) /\ ~Before(z, y) => Before(x, z)
  BY <1>1 DEF Before
<1> QED
  BY <1>2, <1>3, <1>4

LEMMA CursorType ==
  ASSUME NEW r \in Rows \cup Adoptions
  PROVE  CursorOf(r) \in Cursors
<1>1. r.at \in Nat /\ r.ref \in Nat /\ r.player \in Account
  BY Accounts DEF Rows, Adoptions, Account
<1> QED
  BY <1>1, Accounts DEF CursorOf, Cursors

\* A row that becomes a person's moves on in its stream.
LEMMA CursorMovesOn ==
  ASSUME NEW r \in Rows, r.player \in Guest, NEW p \in Person, NEW x \in Cursors,
         NEW n, n = [r EXCEPT !.player = p]
  PROVE  /\ n \in Rows /\ n.ref = r.ref /\ n.player = p
         /\ Before(CursorOf(r), CursorOf(n))
         /\ Before(x, CursorOf(r)) => Before(x, CursorOf(n))
         /\ ~Before(CursorOf(r), x) => ~Before(CursorOf(n), x)
<1>1. n \in Rows /\ n.ref = r.ref /\ n.player = p /\ n.at = r.at
  BY Accounts DEF Rows
<1>2. r.player < p /\ r.player \in Nat /\ p \in Nat /\ r.at \in Nat /\ r.ref \in Nat
  BY Accounts DEF Rows
<1>3. Before(CursorOf(r), CursorOf(n))
  BY <1>1, <1>2 DEF CursorOf, Before
<1>4. CursorOf(r) \in Cursors /\ CursorOf(n) \in Cursors
  BY <1>1, CursorType
<1> QED
  BY <1>1, <1>3, <1>4, BeforeOrder

\* What the batch is while there is one.
LEMMA Batch0 ==
  ASSUME PassTypes, StreamTypes, pass.read
  PROVE  /\ pass.stream \in Stream
         /\ Len(pass.batch) \in Nat /\ Len(pass.batch) > 0 /\ DOMAIN pass.batch = 1 .. Len(pass.batch)
         /\ pass.batch \in Seq(Rows \cup adoptions)
         /\ \A i \in 1 .. Len(pass.batch) : pass.batch[i] \in Rows \cup Adoptions /\ CursorOf(pass.batch[i]) \in Cursors
         /\ \A i \in 1 .. Len(pass.batch) : pass.stream # "adoptions" => pass.batch[i] \in Rows
         /\ \A i \in 1 .. Len(pass.batch) : pass.stream = "adoptions" => pass.batch[i] \in adoptions
<1>1. pass.stream \in Stream /\ pass.batch \in Seq(Rows \cup adoptions) /\ pass.batch # <<>>
  BY DEF PassTypes
<1>2. Len(pass.batch) \in Nat /\ DOMAIN pass.batch = 1 .. Len(pass.batch) /\ Len(pass.batch) > 0
  BY <1>1, EmptySeq
<1>3. ASSUME NEW i \in 1 .. Len(pass.batch)
      PROVE  /\ pass.stream # "adoptions" => pass.batch[i] \in Rows
             /\ pass.stream = "adoptions" => pass.batch[i] \in adoptions
             /\ pass.batch[i] \in Rows \cup Adoptions
  BY <1>2 DEF PassTypes, StreamTypes
<1> QED
  BY <1>1, <1>2, <1>3, CursorType

LEMMA ReadUpToType ==
  ASSUME PassTypes, StreamTypes, BatchInOrder, NEW s \in Stream
  PROVE  /\ position[s] \in Cursors /\ ReadUpTo(s) \in Cursors
         /\ \A t \in Cursors : Before(ReadUpTo(s), t) => Before(position[s], t)
<1>1. position[s] \in Cursors
  BY DEF StreamTypes
<1>2. CASE pass.stream = s /\ pass.read
  <2>1. Len(pass.batch) \in DOMAIN pass.batch /\ CursorOf(pass.batch[Len(pass.batch)]) \in Cursors
    BY <1>2, Batch0
  <2>2. ReadUpTo(s) = CursorOf(pass.batch[Len(pass.batch)])
    BY <1>2 DEF ReadUpTo
  <2>3. Before(position[s], ReadUpTo(s))
    BY <1>2, <2>1, <2>2 DEF BatchInOrder
  <2> QED
    BY <1>1, <2>1, <2>2, <2>3, BeforeOrder
<1>3. CASE ~(pass.stream = s /\ pass.read)
  BY <1>1, <1>3 DEF ReadUpTo
<1> QED
  BY <1>2, <1>3

\* The size of a post.
LEMMA SizeInBatch ==
  ASSUME PassTypes, StreamTypes, pass.read
  PROVE  Size \in 1 .. Len(pass.batch) /\ (pass.stream = "adoptions" => Size = 1)
<1>1. CASE pass.stream # "rounds"
  BY <1>1, Batch0 DEF Size
<1>2. CASE pass.stream = "rounds"
  <2> DEFINE same == {i \in DOMAIN pass.batch : pass.batch[i].ref = Head(pass.batch).ref}
  <2>1. Len(pass.batch) \in Nat /\ Len(pass.batch) > 0 /\ DOMAIN pass.batch = 1 .. Len(pass.batch)
    BY Batch0
  <2>2. IsFiniteSet(1 .. Len(pass.batch)) /\ Cardinality(1 .. Len(pass.batch)) = Len(pass.batch)
    <3>1. 1 \in Int /\ Len(pass.batch) \in Int /\ ~(1 > Len(pass.batch)) /\ Len(pass.batch) - 1 + 1 = Len(pass.batch)
      BY <2>1
    <3> QED
      BY <3>1, FS_Interval, Zenon
  <2>3. same \in SUBSET (1 .. Len(pass.batch))
    BY <2>1
  <2>4. IsFiniteSet(same) /\ Cardinality(same) <= Len(pass.batch)
    BY <2>2, <2>3, FS_Subset
  <2>5. Head(pass.batch) = pass.batch[1]
    OBVIOUS
  <2>6. 1 \in same
    BY <2>1, <2>5
  <2>7. Cardinality(same) \in Nat /\ Cardinality(same) # 0
    BY <2>4, <2>6, FS_CardinalityType, FS_EmptySet
  <2>8. Size = Cardinality(same)
    BY <1>2 DEF Size
  <2> HIDE DEF same
  <2> QED
    BY <1>2, <2>1, <2>4, <2>7, <2>8
<1> QED
  BY <1>1, <1>2

\* What will be told is ahead of the position.
LEMMA ToldIsAhead ==
  ASSUME PassTypes, StreamTypes, BatchInOrder
  PROVE  /\ ToTell \subseteq Ahead("adoptions")
         /\ ~pass.read => ToTell = Ahead("adoptions")
<1>1. \A a \in adoptions : CursorOf(a) \in Cursors
  BY CursorType DEF StreamTypes
<1>2. ASSUME NEW a \in ToTell
      PROVE  a \in Ahead("adoptions")
  <2>1. CASE Before(ReadUpTo("adoptions"), CursorOf(a))
    <3>1. a \in adoptions
      BY DEF ToTell
    <3>2. Before(position["adoptions"], CursorOf(a))
      BY <1>1, <2>1, <3>1, ReadUpToType DEF Stream
    <3> QED
      BY <3>1, <3>2 DEF Ahead, Table
  <2>2. CASE InHand(a)
    <3>1. a \in adoptions /\ Before(position["adoptions"], CursorOf(a))
      BY <2>2 DEF ToTell, InHand, BatchInOrder
    <3> QED
      BY <3>1 DEF Ahead, Table
  <2> QED
    BY <2>1, <2>2 DEF ToTell
<1>3. ASSUME ~pass.read PROVE ToTell = Ahead("adoptions")
  BY <1>3 DEF ToTell, Ahead, Table, ReadUpTo, InHand
<1> QED
  BY <1>2, <1>3

LEMMA PlayInit == PlaySyncInit => PlayIInv
<1> SUFFICES ASSUME PlaySyncInit PROVE PlayIInv
  OBVIOUS
<1>1. ~pass.read /\ pass = Rest
  BY DEF PlaySyncInit, Rest, At
<1>2. QueueTypes
  BY DEF PlaySyncInit, QueueTypes
<1>3. StreamTypes
  BY DEF PlaySyncInit, StreamTypes, Tables, Start, Cursors
<1>4. PassTypes
  BY <1>1 DEF PassTypes
<1>5. RowsReached
  BY DEF PlaySyncInit, RowsReached, Tables
<1> QED
  BY <1>1, <1>2, <1>3, <1>4, <1>5 DEF PlayIInv, AdoptedOnce, BatchInOrder, AcceptedIsHeld, PlaySyncInit

\* What the streams' invariant is about.
streamVars == <<rows, adoptions, position, pass, play, late>>

LEMMA StreamsRest ==
  ASSUME PlayIInv, UNCHANGED streamVars, QueueTypes'
  PROVE  PlayIInv'
<1>1. StreamTypes'
  BY DEF PlayIInv, StreamTypes, streamVars
<1>2. PassTypes'
  BY DEF PlayIInv, PassTypes, streamVars, At, Rest
<1>3. AdoptedOnce' /\ BatchInOrder' /\ AcceptedIsHeld'
  <2>1. AdoptedOnce'
    BY DEF PlayIInv, AdoptedOnce, streamVars
  <2>2. BatchInOrder'
    BY DEF PlayIInv, BatchInOrder, streamVars, Before, CursorOf
  <2>3. AcceptedIsHeld'
    BY DEF PlayIInv, AcceptedIsHeld, streamVars, Size
  <2> QED
    BY <2>1, <2>2, <2>3
<1>4. ReadUpTo("adoptions")' = ReadUpTo("adoptions") /\ \A s \in Tables : ReadUpTo(s)' = ReadUpTo(s)
  BY DEF ReadUpTo, streamVars, CursorOf
<1>5. ToTell' = ToTell
  BY <1>4 DEF ToTell, InHand, streamVars, Before, CursorOf
<1>6. ASSUME NEW x PROVE StillKnown(x)' = StillKnown(x)
  BY <1>5 DEF StillKnown, streamVars
<1>7. ASSUME NEW s \in Tables, NEW r \in rows[s]
      PROVE  Covered(s, r)' /\ Reached(s, r)'
  <2>1. Covered(s, r) /\ Reached(s, r)
    BY <1>7 DEF PlayIInv, RowsReached
  <2>2. Held(s, r)' = Held(s, r) /\ IsLate(s, r)' = IsLate(s, r)
    BY <1>6 DEF Held, IsLate, streamVars
  <2>3. Carried(r)' = Carried(r)
    BY <1>6 DEF Carried, streamVars, Before, CursorOf
  <2>4. Before(position[s], CursorOf(r))' = Before(position[s], CursorOf(r))
    BY DEF streamVars, Before, CursorOf
  <2>5. Before(ReadUpTo(s), CursorOf(r))' = Before(ReadUpTo(s), CursorOf(r))
    BY <1>4 DEF Before, CursorOf
  <2>6. pass' = pass
    BY DEF streamVars
  <2> QED
    BY <2>1, <2>2, <2>3, <2>4, <2>5, <2>6 DEF Covered, Reached
<1>8. RowsReached'
  BY <1>7 DEF RowsReached, streamVars
<1> QED
  BY <1>1, <1>2, <1>3, <1>8 DEF PlayIInv

\* Rows stay held and carried while what is known of their owner grows.
LEMMA HeldStays ==
  ASSUME adoptions \subseteq adoptions', ToTell \subseteq ToTell'
  PROVE  /\ \A x : StillKnown(x) \subseteq StillKnown(x)'
         /\ play \subseteq play' => \A s, r : Held(s, r) => Held(s, r)'
         /\ UNCHANGED pass => \A r : Carried(r) => Carried(r)'
<1>1. ASSUME NEW x PROVE StillKnown(x) \subseteq StillKnown(x)'
  BY DEF StillKnown
<1>2. ASSUME play \subseteq play', NEW s, NEW r, Held(s, r) PROVE Held(s, r)'
  BY <1>1, <1>2 DEF Held
<1>3. ASSUME UNCHANGED pass, NEW r, Carried(r) PROVE Carried(r)'
  BY <1>1, <1>3 DEF Carried, CursorOf, Before
<1> QED
  BY <1>1, <1>2, <1>3
--------------------------------------------------------------------------------
\* The writer commits rows: each is past what has been read, or late.
LEMMA StoreKeeps ==
  ASSUME PlayIInv, NEW R \in SUBSET Rows, NEW U \in SUBSET Rows, Store(R, U),
         UNCHANGED <<adoptions, position, pass, play>>, QueueTypes'
  PROVE  PlayIInv'
<1>0. StreamTypes /\ PassTypes /\ BatchInOrder
  BY DEF PlayIInv
<1>1. StreamTypes'
  BY DEF PlayIInv, StreamTypes, Store, Insert, Tables
<1>2. PassTypes' /\ AdoptedOnce' /\ AcceptedIsHeld'
  BY DEF PlayIInv, PassTypes, AdoptedOnce, AcceptedIsHeld, Size, At, Rest
<1>3. BatchInOrder'
  BY DEF PlayIInv, BatchInOrder, Before, CursorOf
<1>4. \A s \in Stream : ReadUpTo(s)' = ReadUpTo(s)
  BY DEF ReadUpTo, CursorOf
<1>5. ToTell' = ToTell
  BY <1>4 DEF ToTell, InHand, Before, CursorOf, Stream
<1>6. /\ \A s, r : Held(s, r) => Held(s, r)'
      /\ \A r : Carried(r) => Carried(r)'
  BY <1>5, HeldStays
<1>7. \A s, r : IsLate(s, r) => IsLate(s, r)'
  BY DEF IsLate, Store
<1>8. ASSUME NEW s \in Tables, NEW r \in rows'[s]
      PROVE  Covered(s, r)' /\ Reached(s, r)'
  <2>1. s \in Stream
    BY DEF Tables, Stream
  <2>2. CASE r \in rows[s]
    <3>1. Covered(s, r) /\ Reached(s, r)
      BY <2>2 DEF PlayIInv, RowsReached
    <3>2. Covered(s, r)'
      BY <1>6, <1>7, <3>1 DEF Covered, Before, CursorOf
    <3>3. Reached(s, r)'
      BY <1>4, <1>6, <1>7, <2>1, <3>1 DEF Reached, Before, CursorOf
    <3> QED
      BY <3>2, <3>3
  <2>3. CASE r \notin rows[s]
    <3>1. r \in Rows
      BY <1>1 DEF StreamTypes
    <3>2. CASE Before(ReadUpTo(s), CursorOf(r))
      <4>1. Before(position[s], CursorOf(r))
        BY <1>0, <2>1, <3>1, <3>2, ReadUpToType, CursorType
      <4> QED
        BY <1>4, <2>1, <3>2, <4>1 DEF Covered, Reached, Before, CursorOf
    <3>3. CASE ~Before(ReadUpTo(s), CursorOf(r))
      <4>1. <<s, r.ref, r.player>> \in late'
        BY <2>3, <3>3 DEF Store, Behind, Tables, StreamTypes, PlayIInv
      <4> QED
        BY <4>1 DEF Covered, Reached, IsLate
    <3> QED
      BY <3>2, <3>3
  <2> QED
    BY <2>2, <2>3
<1>9. RowsReached'
  BY <1>8 DEF RowsReached
<1> QED
  BY <1>1, <1>2, <1>3, <1>9 DEF PlayIInv
\* The writer's steps.
LEMMA WriterKeeps ==
  ASSUME PlayIInv,
         \/ Tick \/ (\E id \in DOMAIN Players : SubmitRound(id)) \/ (\E a \in Milestones : SubmitMilestone(a))
         \/ Flushed \/ FlushTimer
  PROVE  PlayIInv'
<1>1. clock \in Nat /\ pending \in [rounds : Seq(Entries), unlocks : Seq(Rows)]
  BY DEF PlayIInv, QueueTypes
<1>2. CASE Tick
  <2>1. UNCHANGED streamVars /\ QueueTypes'
    BY <1>1, <1>2 DEF Tick, streamVars, QueueTypes
  <2> QED
    BY <2>1, StreamsRest
<1>3. ASSUME NEW id \in DOMAIN Players, SubmitRound(id) PROVE PlayIInv'
  <2>1. [ref |-> id, players |-> Players[id], at |-> clock] \in Entries
    BY <1>1, PlaySyncAssumption DEF Entries, Account
  <2>2. Append(pending.rounds, [ref |-> id, players |-> Players[id], at |-> clock]) \in Seq(Entries)
    BY <1>1, <2>1, AppendProperties
  <2>3. QueueTypes'
    BY <1>1, <1>3, <2>2 DEF SubmitRound, QueueTypes
  <2>4. UNCHANGED streamVars
    BY <1>3 DEF SubmitRound, streamVars
  <2> QED
    BY <2>3, <2>4, StreamsRest
<1>4. ASSUME NEW a \in Milestones, SubmitMilestone(a) PROVE PlayIInv'
  <2>1. Row(Milestone, a, clock) \in Rows
    BY <1>1, PlaySyncAssumption DEF Rows, Row, Milestone, Account
  <2>2. Append(pending.unlocks, Row(Milestone, a, clock)) \in Seq(Rows)
    BY <1>1, <2>1, AppendProperties
  <2>3. QueueTypes'
    BY <1>1, <1>4, <2>2 DEF SubmitMilestone, QueueTypes
  <2>4. UNCHANGED streamVars
    BY <1>4 DEF SubmitMilestone, streamVars
  <2> QED
    BY <2>3, <2>4, StreamsRest
<1>5. CASE FlushTimer \/ FlushFails
  <2>1. UNCHANGED streamVars /\ QueueTypes'
    BY <1>1, <1>5 DEF FlushTimer, FlushFails, streamVars, QueueTypes
  <2> QED
    BY <2>1, StreamsRest
<1>6. CASE CommitRound
  <2>1. pending.rounds \in Seq(Entries) /\ pending.rounds # <<>>
    BY <1>1, <1>6 DEF CommitRound
  <2>2. Head(pending.rounds) \in Entries /\ Tail(pending.rounds) \in Seq(Entries)
    BY <2>1, HeadTailProperties
  <2> DEFINE e == Head(pending.rounds)
             R == {Row(e.ref, p, e.at) : p \in e.players}
             U == {Row(Winner, p, e.at) : p \in e.players}
  <2>3. R \in SUBSET Rows /\ U \in SUBSET Rows
    BY <2>2 DEF Rows, Row, Entries, Winner
  <2>4. Store(R, U) /\ UNCHANGED <<adoptions, position, pass, play>>
    BY <1>6 DEF CommitRound
  <2>5. QueueTypes'
    BY <1>1, <1>6, <2>2 DEF CommitRound, QueueTypes
  <2> HIDE DEF R, U
  <2> QED
    BY <2>3, <2>4, <2>5, StoreKeeps
<1>7. CASE CommitUnlock
  <2>1. pending.unlocks \in Seq(Rows) /\ pending.unlocks # <<>>
    BY <1>1, <1>7 DEF CommitUnlock
  <2>2. Head(pending.unlocks) \in Rows /\ Tail(pending.unlocks) \in Seq(Rows)
    BY <2>1, HeadTailProperties
  <2>3. Store({}, {Head(pending.unlocks)}) /\ UNCHANGED <<adoptions, position, pass, play>>
    BY <1>7 DEF CommitUnlock
  <2>4. QueueTypes'
    BY <1>1, <1>7, <2>2 DEF CommitUnlock, QueueTypes
  <2> QED
    BY <2>2, <2>3, <2>4, StoreKeeps
<1> QED
  BY <1>2, <1>3, <1>4, <1>5, <1>6, <1>7 DEF Flushed
--------------------------------------------------------------------------------
\* What becomes of the rows when a guest is adopted: they are its person's, at their times.
LEMMA MovedRows ==
  ASSUME StreamTypes, NEW g \in Guest, NEW p \in Person,
         NEW s \in Tables, NEW r \in IF s = "rounds" THEN MoveRounds(g, p) ELSE MoveUnlocks(g, p)
  PROVE  /\ r \in Rows
         /\ \/ r \in rows[s] /\ r.player # g
            \/ \E o \in rows[s] : o.player = g /\ r = [o EXCEPT !.player = p]
<1>1. rows["rounds"] \subseteq Rows /\ rows["unlocks"] \subseteq Rows /\ p # g /\ p \in Account
  BY Accounts DEF StreamTypes, Tables
<1>2. CASE s = "rounds"
  <2>1. r \in MoveRounds(g, p)
    BY <1>2
  <2>2. \/ r \in rows["rounds"] /\ r.player # g
        \/ \E o \in rows["rounds"] : o.player = g /\ r = [o EXCEPT !.player = p]
    BY <2>1 DEF MoveRounds, Insert
  <2> QED
    BY <1>1, <1>2, <2>2 DEF Rows
<1>3. CASE s = "unlocks"
  <2> DEFINE mine == {x \in rows["unlocks"] : x.player \in {g, p}}
             Times(ref) == {x.at : x \in {m \in mine : m.ref = ref}}
             First(ref) == CHOOSE t \in Times(ref) : \A u \in Times(ref) : t <= u
  <2>1. r \in (rows["unlocks"] \ mine) \cup {Row(ref, p, First(ref)) : ref \in {x.ref : x \in mine}}
    BY <1>3 DEF MoveUnlocks
  <2>2. CASE r \in rows["unlocks"] \ mine
    BY <1>1, <1>3, <2>2
  <2>3. CASE r \notin rows["unlocks"] \ mine
    <3>1. PICK w \in mine : r = Row(w.ref, p, First(w.ref))
      BY <2>1, <2>3, ZenonT(60), SMTT(30)
    <3>2. w.at \in Times(w.ref) /\ Times(w.ref) \subseteq Nat
      BY <1>1 DEF Rows
    <3>3. \E t \in Times(w.ref) : \A u \in Times(w.ref) : t <= u
      <4>1. PICK T : T = Times(w.ref)
        OBVIOUS
      <4>2. T \in SUBSET Nat /\ T # {}
        BY <3>2, <4>1
      <4>3. \E t \in T : \A u \in T : t <= u
        BY <4>2, LeastOf
      <4> QED
        BY <4>1, <4>3
    <3>4. First(w.ref) \in Times(w.ref)
      BY <3>3
    <3>5. PICK o \in mine : o.ref = w.ref /\ o.at = First(w.ref)
      BY <3>4
    <3>6. o \in Rows /\ o \in rows["unlocks"] /\ o.player \in {g, p}
      BY <1>1
    <3>7. r = [ref |-> o.ref, player |-> p, at |-> o.at]
      BY <3>1, <3>5 DEF Row
    <3>8. r \in Rows /\ (o.player = p => r = o) /\ (o.player = g => r = [o EXCEPT !.player = p])
      BY <1>1, <3>6, <3>7 DEF Rows
    <3> QED
      BY <1>1, <1>3, <3>6, <3>8
  <2> QED
    BY <2>2, <2>3
<1> QED
  BY <1>2, <1>3 DEF Tables

LEMMA AdoptKeeps ==
  ASSUME PlayIInv, NEW g \in Guest, NEW p \in Person, Adopt(g, p)
  PROVE  PlayIInv'
<1> DEFINE a == [player |-> g, into |-> p, ref |-> 0, at |-> clock]
<1>0. /\ StreamTypes /\ PassTypes /\ BatchInOrder /\ AdoptedOnce /\ QueueTypes
      /\ g \notin Adopted /\ adoptions' = adoptions \cup {a}
      /\ UNCHANGED <<clock, pending, position, pass, play>>
  BY DEF PlayIInv, Adopt
<1>1. a \in Adoptions
  BY <1>0 DEF Adoptions, QueueTypes
<1>2. \A s \in Tables : rows'[s] = IF s = "rounds" THEN MoveRounds(g, p) ELSE MoveUnlocks(g, p)
  BY DEF Adopt, Tables, StreamTypes, PlayIInv
<1>3. StreamTypes'
  <2>1. \A s \in Tables : rows'[s] \subseteq Rows
    BY <1>0, <1>2, MovedRows
  <2>2. rows' = [s \in Tables |-> rows'[s]]
    BY <1>0 DEF Adopt, StreamTypes
  <2>3. rows' \in [Tables -> SUBSET Rows]
    BY <2>1, <2>2
  <2> QED
    BY <1>0, <1>1, <2>3 DEF StreamTypes
<1>4. PassTypes'
  <2>1. ASSUME pass.read
        PROVE  pass \in [stream : Stream, batch : Seq(Rows \cup adoptions'), read : BOOLEAN, accepted : BOOLEAN]
    <3>1. pass \in [stream : Stream, batch : Seq(Rows \cup adoptions), read : BOOLEAN, accepted : BOOLEAN]
      BY <1>0, <2>1 DEF PassTypes
    <3>2. pass.batch \in Seq(Rows \cup adoptions')
      BY <1>0, <3>1
    <3> QED
      BY <3>1, <3>2
  <2>2. \A i \in DOMAIN pass.batch :
          pass.read => pass.batch[i] \in IF pass.stream = "adoptions" THEN adoptions' ELSE Rows
    BY <1>0 DEF PassTypes
  <2> QED
    BY <1>0, <2>1, <2>2 DEF PassTypes, At, Rest
<1>5. AdoptedOnce'
  BY <1>0 DEF AdoptedOnce, Adopted
<1>6. BatchInOrder' /\ AcceptedIsHeld'
  BY <1>0, SMTT(30), ZenonT(30) DEF PlayIInv, BatchInOrder, AcceptedIsHeld, Size, Before, CursorOf
<1>7. \A s \in Stream : ReadUpTo(s)' = ReadUpTo(s)
  BY <1>0 DEF ReadUpTo, CursorOf
<1>8. ToTell \subseteq ToTell'
  BY <1>0, <1>7 DEF ToTell, InHand, Before, CursorOf, Stream
<1>9. /\ \A x : StillKnown(x) \subseteq StillKnown(x)'
      /\ \A s, r : Held(s, r) => Held(s, r)'
      /\ \A r : Carried(r) => Carried(r)'
  BY <1>0, <1>8, HeldStays
<1>10. \A s, r : IsLate(s, r) => IsLate(s, r)'
  BY DEF IsLate, Adopt
\* The guest was known as itself alone.
<1>11. StillKnown(g) = {g}
  BY <1>0, Accounts DEF StillKnown, Adopted, StreamTypes, Adoptions, ToTell
<1>12. Before(ReadUpTo("adoptions"), CursorOf(a)) => g \in StillKnown(p)'
  <2>1. ASSUME Before(ReadUpTo("adoptions"), CursorOf(a)) PROVE a \in ToTell'
    BY <1>0, <1>7, <2>1 DEF ToTell, Before, CursorOf, Stream
  <2> QED
    BY <2>1 DEF StillKnown
<1>13. ASSUME NEW s \in Tables, NEW o \in rows[s], o.player = g, ~Before(ReadUpTo("adoptions"), CursorOf(a))
       PROVE  <<s, o.ref, p>> \in late'
  <2>1. s \in DOMAIN rows
    BY <1>0 DEF StreamTypes
  <2>2. <<s, o.ref, p>> \in Untold(a)
    BY <1>13, <2>1 DEF Untold
  <2> QED
    BY <2>2 DEF Adopt
<1>14. ASSUME NEW s \in Tables, NEW r \in rows'[s]
       PROVE  Covered(s, r)' /\ Reached(s, r)'
  <2>1. s \in Stream
    BY DEF Tables, Stream
  <2>2. CASE r \in rows[s]
    <3>1. Covered(s, r) /\ Reached(s, r)
      BY <2>2 DEF PlayIInv, RowsReached
    <3>2. Covered(s, r)'
      BY <1>0, <1>9, <1>10, <3>1 DEF Covered, Before, CursorOf
    <3>3. Reached(s, r)'
      BY <1>0, <1>7, <1>9, <1>10, <2>1, <3>1 DEF Reached, Before, CursorOf
    <3> QED
      BY <3>2, <3>3
  <2>3. ASSUME NEW o \in rows[s], o.player = g, r = [o EXCEPT !.player = p]
        PROVE  Covered(s, r)' /\ Reached(s, r)'
    <3>1. Covered(s, o) /\ Reached(s, o)
      BY DEF PlayIInv, RowsReached
    <3>2. o \in Rows
      BY <1>0 DEF StreamTypes
    <3>3. /\ r.ref = o.ref /\ r.player = p
          /\ \A x \in Cursors : /\ Before(x, CursorOf(o)) => Before(x, CursorOf(r))
                                /\ ~Before(CursorOf(o), x) => ~Before(CursorOf(r), x)
      BY <2>3, <3>2, CursorMovesOn
    <3>4. /\ position[s] \in Cursors /\ ReadUpTo(s) \in Cursors
          /\ \A i \in DOMAIN pass.batch : pass.read => CursorOf(pass.batch[i]) \in Cursors
      BY <1>0, <2>1, ReadUpToType, Batch0
    <3>5. Before(position[s], CursorOf(o)) => Before(position[s], CursorOf(r))'
      BY <1>0, <3>3, <3>4 DEF Before, CursorOf
    <3>6. Before(ReadUpTo(s), CursorOf(o)) => Before(ReadUpTo(s), CursorOf(r))'
      BY <1>7, <2>1, <3>3, <3>4 DEF Before, CursorOf
    <3>7. IsLate(s, o) => IsLate(s, r)'
      <4>1. ASSUME <<s, o.ref, g>> \in late
            PROVE  <<s, o.ref, p>> \in late'
        <5> DEFINE l == <<s, o.ref, g>>
        <5>1. l \in {m \in late : m[3] = g} /\ <<l[1], l[2], p>> = <<s, o.ref, p>>
          BY <4>1
        <5>2. {<<m[1], m[2], p>> : m \in {k \in late : k[3] = g}} \subseteq late'
          BY DEF Adopt
        <5> QED
          BY <5>1, <5>2
      <4> QED
        BY <2>3, <3>3, <4>1 DEF IsLate
    <3>8. Held(s, o) => Held(s, r)' \/ IsLate(s, r)'
      BY <1>0, <1>11, <1>12, <1>13, <2>3, <3>3 DEF Held, IsLate
    <3>9. pass.read /\ Carried(o) => Carried(r)' \/ IsLate(s, r)'
      <4>1. CASE Before(ReadUpTo("adoptions"), CursorOf(a))
        <5>1. ASSUME pass.read, NEW i \in DOMAIN pass.batch, pass.batch[i].ref = o.ref,
                     pass.batch[i].player \in StillKnown(o.player),
                     ~Before(CursorOf(o), CursorOf(pass.batch[i]))
              PROVE  Carried(r)'
          <6>1. pass.batch[i].player \in StillKnown(p)'
            BY <1>11, <1>12, <2>3, <4>1, <5>1
          <6>2. ~Before(CursorOf(r), CursorOf(pass.batch[i]))'
            BY <1>0, <3>3, <3>4, <5>1 DEF Before, CursorOf
          <6>3. pass'.batch = pass.batch
            BY <1>0
          <6> QED
            BY <3>3, <5>1, <6>1, <6>2, <6>3 DEF Carried
        <5> QED
          BY <5>1 DEF Carried
      <4>2. CASE ~Before(ReadUpTo("adoptions"), CursorOf(a))
        BY <1>13, <2>3, <3>3, <4>2 DEF IsLate
      <4> QED
        BY <4>1, <4>2
    <3>10. Covered(s, r)'
      BY <1>0, <3>1, <3>5, <3>7, <3>8 DEF Covered
    <3>11. Reached(s, r)'
      BY <1>0, <3>1, <3>6, <3>7, <3>8, <3>9 DEF Reached
    <3> QED
      BY <3>10, <3>11
  <2>4. \/ r \in rows[s]
        \/ \E o \in rows[s] : o.player = g /\ r = [o EXCEPT !.player = p]
    BY <1>0, <1>2, <1>14, MovedRows
  <2> QED
    BY <2>2, <2>3, <2>4
<1>15. RowsReached'
  BY <1>14 DEF RowsReached
<1>16. QueueTypes'
  BY <1>0 DEF QueueTypes
<1> QED
  BY <1>3, <1>4, <1>5, <1>6, <1>15, <1>16 DEF PlayIInv
--------------------------------------------------------------------------------
\* PlaySync's steps that leave the rows, the adoptions and what is late alone.
rowVars == <<clock, pending, rows, adoptions, late>>

\* The conditions under which such a step keeps what covers the rows.
LEMMA SyncKeeps ==
  ASSUME PlayIInv, UNCHANGED rowVars, StreamTypes', PassTypes', BatchInOrder', AcceptedIsHeld',
         \A s \in Tables : \A r \in rows[s] : Covered(s, r)' /\ Reached(s, r)'
  PROVE  PlayIInv'
<1>1. QueueTypes' /\ AdoptedOnce'
  BY DEF PlayIInv, QueueTypes, AdoptedOnce, rowVars
<1>2. RowsReached'
  BY DEF RowsReached, rowVars
<1> QED
  BY <1>1, <1>2 DEF PlayIInv

\* A step that only begins or ends a pass: the position stands.
LEMMA PassRests ==
  ASSUME PlayIInv, UNCHANGED <<rowVars, position>>, ~pass'.read, PassTypes',
         \A s \in Tables : \A r \in rows[s] : Held(s, r) => \E x \in StillKnown(r.player) : <<s, r.ref, x>> \in play'
  PROVE  PlayIInv'
<1>0. StreamTypes /\ PassTypes /\ BatchInOrder
  BY DEF PlayIInv
<1>1. StreamTypes'
  BY <1>0 DEF StreamTypes, rowVars
<1>2. BatchInOrder' /\ AcceptedIsHeld'
  BY DEF BatchInOrder, AcceptedIsHeld
<1>3. ToTell' = Ahead("adoptions")
  BY DEF ToTell, ReadUpTo, InHand, Ahead, Table, rowVars, Before, CursorOf
<1>4. ToTell \subseteq ToTell' /\ adoptions \subseteq adoptions'
  BY <1>0, <1>3, ToldIsAhead DEF rowVars
<1>5. \A x : StillKnown(x) \subseteq StillKnown(x)'
  BY <1>4, HeldStays
<1>6. ASSUME NEW s \in Tables, NEW r \in rows[s]
      PROVE  Covered(s, r)' /\ Reached(s, r)'
  <2>1. Covered(s, r)
    BY DEF PlayIInv, RowsReached
  <2>2. Held(s, r) => Held(s, r)'
    BY <1>5 DEF Held
  <2>3. IsLate(s, r) => IsLate(s, r)'
    BY DEF IsLate, rowVars
  <2>4. Before(position[s], CursorOf(r)) => Before(position[s], CursorOf(r))'
    BY DEF Before, CursorOf
  <2>5. Covered(s, r)'
    BY <2>1, <2>2, <2>3, <2>4 DEF Covered
  <2> QED
    BY <2>5 DEF Reached
<1> QED
  BY <1>1, <1>2, <1>6, SyncKeeps

LEMMA PassStartTypes ==
  /\ \A s \in Stream : At(s) # Rest /\ ~At(s).read /\ At(s).stream = s
  /\ \A s \in Stream : ~Following[s].read /\ (Following[s] = Rest \/ \E t \in Stream : Following[s] = At(t))
  /\ ~Rest.read
<1>1. \A s \in Stream : s # "none"
  BY DEF Stream
<1>2. At("none").stream = "none" /\ \A s \in Stream : At(s).stream = s /\ ~At(s).read
  BY DEF At
<1>3. \A s \in Stream : At(s) # Rest /\ ~At(s).read /\ At(s).stream = s
  BY <1>1, <1>2 DEF Rest
<1>4. \A s \in Stream : Following[s] = Rest \/ \E t \in Stream : Following[s] = At(t)
  BY DEF Following, Stream
<1>5. ~Rest.read
  BY DEF Rest, At
<1> QED
  BY <1>2, <1>3, <1>4, <1>5

LEMMA StartKeeps ==
  ASSUME PlayIInv, StartPass \/ Restart \/ (pass # Rest /\ ~pass.read /\ pass' = Following[pass.stream]
                                            /\ UNCHANGED <<rowVars, position, play>>)
  PROVE  PlayIInv'
<1>1. QueueTypes /\ PassTypes /\ StreamTypes
  BY DEF PlayIInv
<1>2. CASE StartPass
  <2>1. UNCHANGED <<rowVars, position, play>> /\ pass' = At("rounds")
    BY <1>2 DEF StartPass, rowVars
  <2>2. ~pass'.read /\ PassTypes'
    BY <2>1, PassStartTypes DEF PassTypes, Stream, At, Rest
  <2> QED
    BY <2>1, <2>2, PassRests DEF Held
<1>3. CASE pass # Rest /\ ~pass.read /\ pass' = Following[pass.stream] /\ UNCHANGED <<rowVars, position, play>>
  <2>1. PICK s \in Stream : pass = At(s)
    BY <1>1, <1>3 DEF PassTypes
  <2>2. pass.stream = s
    BY <2>1, PassStartTypes
  <2>3. ~pass'.read /\ (pass' = Rest \/ \E t \in Stream : pass' = At(t))
    BY <1>3, <2>2, PassStartTypes
  <2>4. PassTypes'
    BY <2>3 DEF PassTypes, At, Rest
  <2> QED
    BY <1>3, <2>3, <2>4, PassRests DEF Held
\* A restart also empties the writer's maps.
<1>4. CASE Restart
  <2>1. UNCHANGED <<clock, rows, adoptions, late, position, play>> /\ pass' = Rest /\ ~pass'.read
    BY <1>4, PassStartTypes DEF Restart
  <2>2. QueueTypes'
    BY <1>1, <1>4, EmptySeq DEF QueueTypes, Restart
  <2>3. PassTypes'
    BY <2>1 DEF PassTypes, At, Rest
  <2>4. StreamTypes' /\ AdoptedOnce'
    BY <2>1 DEF PlayIInv, StreamTypes, AdoptedOnce
  <2>5. BatchInOrder' /\ AcceptedIsHeld'
    BY <2>1 DEF BatchInOrder, AcceptedIsHeld
  <2>6. ToTell' = Ahead("adoptions")
    BY <2>1 DEF ToTell, ReadUpTo, InHand, Ahead, Table, Before, CursorOf
  <2>7. ToTell \subseteq ToTell' /\ adoptions \subseteq adoptions' /\ play \subseteq play'
    BY <2>1, <2>6, ToldIsAhead DEF PlayIInv
  <2>8. \A s, r : Held(s, r) => Held(s, r)'
    BY <2>7, HeldStays
  <2>9. ASSUME NEW s \in Tables, NEW r \in rows[s]
        PROVE  Covered(s, r)' /\ Reached(s, r)'
    <3>1. Covered(s, r)
      BY DEF PlayIInv, RowsReached
    <3>2. Covered(s, r)'
      BY <2>1, <2>8, <3>1 DEF Covered, IsLate, Before, CursorOf
    <3> QED
      BY <2>1, <3>2 DEF Reached
  <2>10. RowsReached'
    BY <2>1, <2>9 DEF RowsReached
  <2> QED
    BY <2>2, <2>3, <2>4, <2>5, <2>10 DEF PlayIInv
<1> QED
  BY <1>2, <1>3, <1>4

\* Reading a batch: what is not in it is past its end.
LEMMA ReadKeeps ==
  ASSUME PlayIInv, ReadBatch
  PROVE  PlayIInv'
<1>0. /\ StreamTypes /\ PassTypes /\ BatchInOrder
      /\ pass # Rest /\ ~pass.read
      /\ UNCHANGED <<rowVars, position, play>>
  BY DEF PlayIInv, ReadBatch, rowVars
<1>1. PICK st \in Stream : pass = At(st)
  BY <1>0 DEF PassTypes
<1>2. pass.stream = st /\ pass = [stream |-> st, batch |-> <<>>, read |-> FALSE, accepted |-> FALSE]
  BY <1>1 DEF At, Rest
<1>3. CASE Ahead(st) = {}
  BY <1>0, <1>2, <1>3, StartKeeps DEF ReadBatch
<1>4. CASE Ahead(st) # {}
  <2>1. PICK b \in Selected(st) : pass' = [pass EXCEPT !.read = TRUE, !.batch = b]
    BY <1>2, <1>4 DEF ReadBatch
  <2>2. PICK n \in 1 .. Batch : b \in [1 .. n -> Ahead(st)]
    BY <2>1 DEF Selected
  <2>3. n \in Nat /\ n > 0
    BY <2>2, PlaySyncAssumption
  <2>4. b \in Seq(Ahead(st)) /\ Len(b) = n /\ DOMAIN b = 1 .. n /\ b # <<>>
    BY <2>2, <2>3
  <2>5. /\ \A i, j \in 1 .. n : i < j => Before(CursorOf(b[i]), CursorOf(b[j]))
        /\ Range(b) = Ahead(st) \/ n = Batch
        /\ \A r \in Ahead(st) \ Range(b) : Before(CursorOf(b[n]), CursorOf(r))
    BY <2>1, <2>4 DEF Selected
  <2>6. /\ pass'.stream = st /\ pass'.batch = b /\ pass'.read = TRUE /\ pass'.accepted = FALSE
        /\ \A T : b \in Seq(T) =>
             pass' \in [stream : Stream, batch : Seq(T), read : BOOLEAN, accepted : BOOLEAN]
    <3>1. PICK q : q = pass
      OBVIOUS
    <3>2. q = [stream |-> st, batch |-> <<>>, read |-> FALSE, accepted |-> FALSE]
      BY <1>2, <3>1
    <3>3. PICK u : u = [q EXCEPT !.read = TRUE]
      OBVIOUS
    <3>4. pass' = [u EXCEPT !.batch = b]
      BY <2>1, <3>1, <3>3
    <3>5. /\ u.stream = st /\ u.batch = <<>> /\ u.read = TRUE /\ u.accepted = FALSE
          /\ u \in [stream : Stream, batch : {<<>>}, read : BOOLEAN, accepted : BOOLEAN]
      BY <3>2, <3>3
    <3> QED
      BY <3>4, <3>5
  <2>7. /\ Ahead(st) \subseteq IF st = "adoptions" THEN adoptions ELSE Rows
        /\ \A r \in Ahead(st) : Before(position[st], CursorOf(r))
    BY <1>0 DEF Ahead, Table, StreamTypes, Stream, Tables
  <2>8. PassTypes'
    <3>1. b \in Seq(Rows \cup adoptions) /\ \A i \in DOMAIN b : b[i] \in IF st = "adoptions" THEN adoptions ELSE Rows
      BY <2>2, <2>4, <2>7
    <3>2. adoptions' = adoptions
      BY <1>0 DEF rowVars
    <3> QED
      BY <2>4, <2>6, <3>1, <3>2 DEF PassTypes
  <2>9. StreamTypes'
    BY <1>0 DEF StreamTypes, rowVars
  <2>10. BatchInOrder'
    BY <1>0, <2>2, <2>4, <2>5, <2>6, <2>7 DEF BatchInOrder, Before, CursorOf
  <2>11. AcceptedIsHeld'
    BY <2>6 DEF AcceptedIsHeld
  <2>12. /\ \A s \in Stream : s # st => ReadUpTo(s)' = position[s]
         /\ ReadUpTo(st)' = CursorOf(b[n])
    BY <1>0, <2>4, <2>6 DEF ReadUpTo, CursorOf
  <2>13. ToTell \subseteq ToTell'
    <3>1. ASSUME NEW a \in ToTell PROVE a \in ToTell'
      <4>1. a \in Ahead("adoptions") /\ a \in adoptions /\ a \in adoptions' /\ Before(position["adoptions"], CursorOf(a))
        BY <1>0, ToldIsAhead DEF ToTell, Ahead, rowVars
      <4>2. CASE st # "adoptions"
        <5>1. ReadUpTo("adoptions")' = position["adoptions"]
          BY <2>12, <4>2 DEF Stream
        <5> QED
          BY <4>1, <5>1 DEF ToTell, Before, CursorOf
      <4>3. CASE st = "adoptions" /\ a \in Range(b)
        <5>1. PICK i \in DOMAIN b : b[i] = a
          BY <4>3 DEF Range
        <5>2. InHand(a)'
          BY <2>6, <4>3, <5>1 DEF InHand
        <5> QED
          BY <4>1, <5>2 DEF ToTell
      <4>4. CASE st = "adoptions" /\ a \notin Range(b)
        <5>1. Before(CursorOf(b[n]), CursorOf(a))
          BY <2>5, <4>1, <4>4
        <5> QED
          BY <2>12, <4>1, <4>4, <5>1 DEF ToTell, Before, CursorOf
      <4> QED
        BY <4>2, <4>3, <4>4
    <3> QED
      BY <3>1
  <2>14. adoptions \subseteq adoptions' /\ play \subseteq play'
    BY <1>0 DEF rowVars
  <2>15. /\ \A s, r : Held(s, r) => Held(s, r)'
         /\ \A s, r : IsLate(s, r) => IsLate(s, r)'
    BY <1>0, <2>13, <2>14, HeldStays DEF IsLate, rowVars
  <2>16. ASSUME NEW s \in Tables, NEW r \in rows[s]
         PROVE  Covered(s, r)' /\ Reached(s, r)'
    <3>1. Covered(s, r) /\ r \in Rows /\ CursorOf(r) \in Cursors
      BY <1>0, CursorType DEF PlayIInv, RowsReached, StreamTypes
    <3>2. Covered(s, r)'
      BY <1>0, <2>15, <3>1 DEF Covered, Before, CursorOf
    <3>3. CASE s # st \/ Held(s, r) \/ IsLate(s, r)
      BY <2>6, <2>15, <3>2, <3>3 DEF Reached
    <3>4. CASE s = st /\ Before(position[s], CursorOf(r))
      <4>1. r \in Ahead(st)
        BY <3>4 DEF Ahead, Table, Tables
      <4>2. CASE r \in Range(b)
        <5>1. PICK i \in DOMAIN b : b[i] = r
          BY <4>2 DEF Range
        <5>2. r.player \in StillKnown(r.player)'
          BY DEF StillKnown
        <5>3. ~Before(CursorOf(r), CursorOf(b[i]))
          BY <3>1, <5>1, BeforeOrder
        <5>4. Carried(r)'
          BY <2>6, <5>1, <5>2, <5>3 DEF Carried, Before, CursorOf
        <5> QED
          BY <3>2, <5>4 DEF Reached
      <4>3. CASE r \notin Range(b)
        <5>1. Before(CursorOf(b[n]), CursorOf(r))
          BY <2>5, <4>1, <4>3
        <5>2. Before(ReadUpTo(s), CursorOf(r))'
          BY <2>12, <3>4, <5>1 DEF Before, CursorOf
        <5> QED
          BY <3>2, <5>2 DEF Reached
      <4> QED
        BY <4>2, <4>3
    <3> QED
      BY <3>1, <3>3, <3>4 DEF Covered
  <2> QED
    BY <1>0, <2>8, <2>9, <2>10, <2>11, <2>16, SyncKeeps
<1> QED
  BY <1>3, <1>4

\* What Play holds after it took a post: each row still under a key it is known as, the rows
\* posted, and nothing of the guest's after its adoption.
LEMMA AcceptHolds ==
  ASSUME PlayIInv, pass.read
  PROVE  /\ \A s \in Tables : \A r \in rows[s] :
              Held(s, r) => \E x \in StillKnown(r.player) : <<s, r.ref, x>> \in Accept
         /\ pass.stream # "adoptions" =>
              \A i \in 1..Size : <<pass.stream, pass.batch[i].ref, pass.batch[i].player>> \in Accept
         /\ pass.stream = "adoptions" => \A x \in Accept : x[3] # pass.batch[1].player
<1>0. /\ StreamTypes /\ PassTypes /\ BatchInOrder /\ AdoptedOnce
      /\ Len(pass.batch) \in Nat /\ Len(pass.batch) > 0
      /\ Size \in 1 .. Len(pass.batch)
  BY Batch0, SizeInBatch DEF PlayIInv
<1>1. CASE pass.stream # "adoptions"
  <2>1. Accept = play \cup {<<pass.stream, r.ref, r.player>> : r \in Group}
    BY <1>1 DEF Accept
  <2>2. \A i \in 1..Size : pass.batch[i] \in Group
    BY DEF Group
  <2> QED
    BY <1>1, <2>1, <2>2 DEF Held
<1>2. CASE pass.stream = "adoptions"
  <2>1. PICK a : a = pass.batch[1]
    OBVIOUS
  <2>2. /\ a \in adoptions /\ a \in Adoptions /\ a.player \in Guest /\ a.into \in Person /\ a.into # a.player
        /\ Head(pass.batch) = a
    <3>1. a \in adoptions /\ Head(pass.batch) = a
      BY <1>0, <1>2, <2>1, Batch0
    <3> QED
      BY <1>0, <3>1, Accounts DEF StreamTypes, Adoptions
  <2>3. Accept = {IF x[3] = a.player THEN <<x[1], x[2], a.into>> ELSE x : x \in play}
    BY <1>2, <2>2 DEF Accept
  <2>4. ASSUME NEW y \in Accept PROVE y[3] # a.player
    <3>1. PICK x \in play : y = IF x[3] = a.player THEN <<x[1], x[2], a.into>> ELSE x
      BY <2>3
    <3> QED
      BY <2>2, <3>1
  <2>5. ASSUME NEW s \in Tables, NEW r \in rows[s], Held(s, r)
        PROVE  \E x \in StillKnown(r.player) : <<s, r.ref, x>> \in Accept
    <3>1. PICK x \in StillKnown(r.player) : <<s, r.ref, x>> \in play
      BY <2>5 DEF Held
    <3>2. CASE x # a.player
      <4>1. <<s, r.ref, x>>[3] = x
        OBVIOUS
      <4>2. <<s, r.ref, x>> \in Accept
        BY <2>3, <3>1, <3>2, <4>1
      <4> QED
        BY <4>2
    <3>3. CASE x = a.player
      <4>1. <<s, r.ref, a.into>> \in Accept
        <5> DEFINE o == <<s, r.ref, x>>
        <5>1. o \in play /\ o[1] = s /\ o[2] = r.ref /\ o[3] = a.player
          BY <3>1, <3>3
        <5>2. (IF o[3] = a.player THEN <<o[1], o[2], a.into>> ELSE o) = <<s, r.ref, a.into>>
          BY <5>1
        <5> HIDE DEF o
        <5> QED
          BY <2>3, <5>1, <5>2
      <4>2. a.into \in StillKnown(r.player)
        <5>1. CASE r.player = x
          BY <2>2, <3>3, <5>1 DEF StillKnown
        <5>2. ASSUME NEW b \in ToTell, b.into = r.player, b.player = x PROVE a.into \in StillKnown(r.player)
          <6>1. b = a
            BY <1>0, <2>2, <3>3, <5>2 DEF AdoptedOnce, ToTell
          <6> QED
            BY <5>2, <6>1 DEF StillKnown
        <5>3. ASSUME NEW b \in adoptions, b.into = x PROVE FALSE
          BY <1>0, <2>2, <3>3, <5>3, Accounts DEF StreamTypes, Adoptions
        <5> QED
          BY <3>1, <5>1, <5>2, <5>3 DEF StillKnown
      <4> QED
        BY <4>1, <4>2
    <3> QED
      BY <3>2, <3>3
  <2> QED
    BY <1>2, <2>1, <2>4, <2>5
<1> QED
  BY <1>1, <1>2

LEMMA PostKeeps ==
  ASSUME PlayIInv, PostAccepted \/ PostFails
  PROVE  PlayIInv'
<1>0. /\ StreamTypes /\ PassTypes /\ BatchInOrder /\ pass.read
      /\ UNCHANGED <<rowVars, position>>
  BY DEF PlayIInv, PostAccepted, PostFails, Posting, rowVars
<1>1. CASE PostFails
  <2>1. pass' = Rest /\ play' \in {play, Accept}
    BY <1>1 DEF PostFails
  <2>2. ~pass'.read /\ PassTypes'
    BY <2>1, PassStartTypes DEF PassTypes, At, Rest
  <2> QED
    BY <1>0, <2>1, <2>2, AcceptHolds, PassRests DEF Held
<1>2. CASE PostAccepted
  <2>1. play' = Accept /\ pass' = [pass EXCEPT !.accepted = TRUE]
    BY <1>2 DEF PostAccepted
  <2>2. /\ pass'.stream = pass.stream /\ pass'.batch = pass.batch /\ pass'.read = TRUE
        /\ \A T : pass.batch \in Seq(T) =>
             pass' \in [stream : Stream, batch : Seq(T), read : BOOLEAN, accepted : BOOLEAN]
    <3>1. pass \in [stream : Stream, batch : Seq(Rows \cup adoptions), read : BOOLEAN, accepted : BOOLEAN]
      BY <1>0 DEF PassTypes
    <3> QED
      BY <1>0, <2>1, <3>1
  <2>3. PassTypes'
    <3>1. pass.batch \in Seq(Rows \cup adoptions) /\ pass.batch # <<>> /\ adoptions' = adoptions
      BY <1>0 DEF PassTypes, rowVars
    <3>2. \A i \in DOMAIN pass.batch : pass.batch[i] \in IF pass.stream = "adoptions" THEN adoptions ELSE Rows
      BY <1>0 DEF PassTypes
    <3> QED
      BY <2>2, <3>1, <3>2 DEF PassTypes
  <2>4. StreamTypes'
    BY <1>0 DEF StreamTypes, rowVars
  <2>5. BatchInOrder'
    BY <1>0, <2>2 DEF BatchInOrder, Before, CursorOf
  <2>6. AcceptedIsHeld'
    BY <1>0, <2>1, <2>2, AcceptHolds DEF AcceptedIsHeld, Size
  <2>7. \A s \in Stream : ReadUpTo(s)' = ReadUpTo(s)
    BY <1>0, <2>2 DEF ReadUpTo, CursorOf
  <2>8. ToTell' = ToTell
    BY <1>0, <2>2, <2>7 DEF ToTell, InHand, rowVars, Before, CursorOf, Stream
  <2>9. \A x : StillKnown(x)' = StillKnown(x)
    BY <1>0, <2>8 DEF StillKnown, rowVars
  <2>10. ASSUME NEW s \in Tables, NEW r \in rows[s]
         PROVE  Covered(s, r)' /\ Reached(s, r)'
    <3>1. Covered(s, r) /\ Reached(s, r) /\ s \in Stream
      BY DEF PlayIInv, RowsReached, Tables, Stream
    <3>2. Held(s, r) => Held(s, r)'
      BY <1>0, <2>1, <2>9, AcceptHolds DEF Held
    <3>3. IsLate(s, r) => IsLate(s, r)'
      BY <1>0 DEF IsLate, rowVars
    <3>4. Carried(r) => Carried(r)'
      BY <2>2, <2>9 DEF Carried, Before, CursorOf
    <3>5. Before(position[s], CursorOf(r)) => Before(position[s], CursorOf(r))'
      BY <1>0 DEF Before, CursorOf
    <3>6. Before(ReadUpTo(s), CursorOf(r)) => Before(ReadUpTo(s), CursorOf(r))'
      BY <2>7, <3>1 DEF Before, CursorOf
    <3> QED
      BY <1>0, <2>2, <3>1, <3>2, <3>3, <3>4, <3>5, <3>6 DEF Covered, Reached
  <2> QED
    BY <1>0, <2>3, <2>4, <2>5, <2>6, <2>10, SyncKeeps
<1> QED
  BY <1>1, <1>2

\* The position moves past what Play accepted.
LEMMA AdvanceKeeps ==
  ASSUME PlayIInv, Advance
  PROVE  PlayIInv'
<1>0. /\ StreamTypes /\ PassTypes /\ BatchInOrder /\ AcceptedIsHeld /\ AdoptedOnce
      /\ UNCHANGED <<rowVars, play>> /\ pass.accepted
  BY DEF PlayIInv, Advance, rowVars
<1>1. pass.read
  <2>1. ~pass.read => ~pass.accepted
    BY <1>0 DEF PassTypes, At, Rest
  <2> QED
    BY <1>0, <2>1
<1>2. PICK b, n, m, st : b = pass.batch /\ n = Size /\ m = Len(pass.batch) /\ st = pass.stream
  OBVIOUS
<1>3. /\ st \in Stream /\ m \in Nat /\ m = Len(b) /\ DOMAIN b = 1 .. m
      /\ n \in 1 .. m /\ (st = "adoptions" => n = 1)
      /\ \A i \in 1 .. m : CursorOf(b[i]) \in Cursors
      /\ \A i \in 1 .. m : b[i] \in IF st = "adoptions" THEN adoptions ELSE Rows
      /\ b \in Seq(Rows \cup adoptions)
  BY <1>0, <1>1, <1>2, Batch0, SizeInBatch
<1>n. m \in Nat /\ n \in Nat /\ 1 <= n /\ n <= m
  BY <1>3
<1>4. /\ \A i, j \in 1 .. m : i < j => Before(CursorOf(b[i]), CursorOf(b[j]))
      /\ \A i \in 1 .. m : Before(position[st], CursorOf(b[i]))
  BY <1>0, <1>1, <1>2, <1>3 DEF BatchInOrder
<1>5. /\ st # "adoptions" => \A i \in 1 .. n : <<st, b[i].ref, b[i].player>> \in play
      /\ st = "adoptions" => \A x \in play : x[3] # b[1].player
  BY <1>0, <1>1, <1>2 DEF AcceptedIsHeld
<1>6. position' = [position EXCEPT ![st] = CursorOf(b[n])]
  BY <1>2 DEF Advance
<1>7. /\ \A s \in Stream : position'[s] = IF s = st THEN CursorOf(b[n]) ELSE position[s]
      /\ position' \in [Stream -> Cursors]
  BY <1>0, <1>3, <1>6 DEF StreamTypes
<1>8. StreamTypes'
  BY <1>0, <1>7 DEF StreamTypes, rowVars
\* What is left in hand.
<1>9. \/ n = m /\ ~pass'.read /\ PassTypes'
      \/ /\ n < m /\ pass'.read = TRUE /\ ~pass'.accepted /\ pass'.stream = st
         /\ Len(pass'.batch) = m - n /\ DOMAIN pass'.batch = 1 .. m - n
         /\ \A i \in 1 .. m - n : pass'.batch[i] = b[i + n]
         /\ PassTypes'
  <2>1. CASE n = m
    <3>1. pass' = Following[st]
      BY <1>2, <2>1 DEF Advance
    <3>2. ~pass'.read /\ (pass' = Rest \/ \E t \in Stream : pass' = At(t))
      BY <1>3, <3>1, PassStartTypes
    <3>3. PassTypes'
      BY <3>2 DEF PassTypes, At, Rest
    <3> QED
      BY <2>1, <3>2, <3>3
  <2>2. CASE n # m
    <3>1. PICK c : c = SubSeq(b, n + 1, m)
      OBVIOUS
    <3>2. pass' = [pass EXCEPT !.accepted = FALSE, !.batch = c]
      BY <1>2, <2>2, <3>1 DEF Advance
    <3>3. n \in Int /\ n + 1 \in Int /\ m \in Int /\ n + 1 <= m /\ n < m /\ n > 0
      BY <1>n, <2>2
    <3>4. \A i \in n + 1 .. m : b[i] \in Rows \cup adoptions
      BY <1>3, <3>3
    <3>5. /\ c \in Seq(Rows \cup adoptions)
          /\ Len(c) = m - (n + 1) + 1
          /\ \A i \in 1 .. m - (n + 1) + 1 : c[i] = b[n + 1 + i - 1]
      BY <3>1, <3>3, <3>4, SubSeqProperties
    <3>6. Len(c) = m - n /\ DOMAIN c = 1 .. m - n /\ Len(c) > 0
      BY <1>3, <3>3, <3>5
    <3>7. \A i \in 1 .. m - n : c[i] = b[i + n] /\ i + n \in 1 .. m
      BY <1>3, <3>3, <3>5
    <3>8. /\ pass'.stream = st /\ pass'.batch = c /\ pass'.read = TRUE /\ pass'.accepted = FALSE
          /\ pass' \in [stream : Stream, batch : Seq(Rows \cup adoptions), read : BOOLEAN, accepted : BOOLEAN]
      <4>1. pass \in [stream : Stream, batch : Seq(Rows \cup adoptions), read : BOOLEAN, accepted : BOOLEAN] /\ pass.read = TRUE
        BY <1>0, <1>1 DEF PassTypes
      <4>2. PICK q : q = pass
        OBVIOUS
      <4>3. PICK u : u = [q EXCEPT !.accepted = FALSE]
        OBVIOUS
      <4>4. /\ u \in [stream : Stream, batch : Seq(Rows \cup adoptions), read : BOOLEAN, accepted : BOOLEAN]
            /\ u.accepted = FALSE /\ u.read = TRUE /\ u.stream = st
        BY <1>2, <4>1, <4>2, <4>3
      <4>5. pass' = [u EXCEPT !.batch = c]
        BY <3>2, <4>2, <4>3
      <4> QED
        BY <3>5, <4>4, <4>5
    <3>9. adoptions' = adoptions /\ c # <<>>
      BY <1>0, <3>6 DEF rowVars
    <3>10. \A i \in DOMAIN c : c[i] \in IF st = "adoptions" THEN adoptions ELSE Rows
      BY <1>3, <3>6, <3>7
    <3>11. PassTypes'
      BY <3>8, <3>9, <3>10 DEF PassTypes
    <3> QED
      BY <3>3, <3>6, <3>7, <3>8, <3>11
  <2> QED
    BY <2>1, <2>2
<1>10. PassTypes'
  BY <1>9
<1>11. BatchInOrder'
  <2>1. CASE ~pass'.read
    BY <2>1 DEF BatchInOrder
  <2>2. CASE pass'.read
    <3>1. /\ pass'.stream = st /\ DOMAIN pass'.batch = 1 .. m - n
          /\ \A i \in 1 .. m - n : pass'.batch[i] = b[i + n] /\ i + n \in 1 .. m /\ n < i + n
      BY <1>3, <1>9, <2>2
    <3>2. \A i, j \in 1 .. m - n : i < j => Before(CursorOf(b[i + n]), CursorOf(b[j + n]))
      BY <1>3, <1>4, <3>1
    <3>3. \A i \in 1 .. m - n : Before(CursorOf(b[n]), CursorOf(b[i + n]))
      BY <1>3, <1>4, <3>1
    <3>4. position'[st] = CursorOf(b[n])
      BY <1>3, <1>7
    <3>5. PICK c, q, st1 : c = pass'.batch /\ q = position' /\ st1 = pass'.stream
      OBVIOUS
    <3>6. /\ \A i, k \in DOMAIN c : i < k => Before(CursorOf(c[i]), CursorOf(c[k]))
          /\ \A i \in DOMAIN c : Before(q[st1], CursorOf(c[i]))
      <4>1. DOMAIN c = 1 .. m - n /\ (\A i \in 1 .. m - n : c[i] = b[i + n]) /\ q[st1] = CursorOf(b[n])
        BY <3>1, <3>4, <3>5
      <4> QED
        BY <3>2, <3>3, <4>1
    <3>7. ASSUME NEW i \in DOMAIN pass'.batch, NEW k \in DOMAIN pass'.batch, i < k
          PROVE  Before(CursorOf(pass.batch[i]), CursorOf(pass.batch[k]))'
      <4>1. Before(CursorOf(c[i]), CursorOf(c[k]))
        BY <3>5, <3>6, <3>7
      <4> QED
        BY <3>5, <4>1 DEF CursorOf, Before
    <3>8. ASSUME NEW i \in DOMAIN pass'.batch
          PROVE  Before(position[pass.stream], CursorOf(pass.batch[i]))'
      <4>1. Before(q[st1], CursorOf(c[i]))
        BY <3>5, <3>6
      <4> QED
        BY <3>5, <4>1 DEF CursorOf, Before
    <3> QED
      BY <3>7, <3>8 DEF BatchInOrder
  <2> QED
    BY <2>1, <2>2
<1>12. AcceptedIsHeld'
  BY <1>9 DEF AcceptedIsHeld
<1>13. \A s \in Stream : ReadUpTo(s)' = ReadUpTo(s)
  <2>1. ReadUpTo(st) = CursorOf(b[m])
    BY <1>1, <1>2 DEF ReadUpTo
  <2>2. CASE n = m
    <3>1. ~pass'.read
      BY <1>9, <2>2, <1>3
    <3> QED
      BY <1>2, <1>3, <1>7, <2>1, <2>2, <3>1 DEF ReadUpTo
  <2>3. CASE n < m
    <3>1. /\ pass'.read /\ pass'.stream = st
          /\ pass'.batch[Len(pass'.batch)] = b[m]
      <4>1. m - n \in 1 .. m - n /\ (m - n) + n = m /\ n # m
        BY <1>n, <2>3
      <4> QED
        BY <1>9, <4>1
    <3> QED
      BY <1>2, <1>3, <1>7, <2>1, <3>1 DEF ReadUpTo, CursorOf
  <2> QED
    BY <1>n, <2>2, <2>3
\* Only the adoption accepted is no longer to be told.
<1>14. ASSUME NEW a \in ToTell
       PROVE  a \in ToTell' \/ (st = "adoptions" /\ a = b[1])
  <2>1. CASE Before(ReadUpTo("adoptions"), CursorOf(a))
    BY <1>0, <1>13, <2>1 DEF ToTell, rowVars, Stream, Before, CursorOf
  <2>2. CASE InHand(a)
    <3>1. PICK i \in 1 .. m : b[i] = a
      BY <1>2, <1>3, <2>2 DEF InHand
    <3>2. st = "adoptions" /\ n = 1
      BY <1>2, <1>3, <2>2 DEF InHand
    <3>3. CASE i = 1
      BY <3>1, <3>2, <3>3
    <3>4. CASE i # 1
      <4>1. i - 1 \in 1 .. m - n /\ (i - 1) + n = i /\ n < m
        BY <1>n, <3>2, <3>4
      <4>2. pass'.read /\ pass'.stream = st /\ i - 1 \in DOMAIN pass'.batch /\ pass'.batch[i - 1] = a
        BY <1>3, <1>9, <3>1, <4>1
      <4>3. InHand(a)'
        BY <3>2, <4>2 DEF InHand
      <4> QED
        BY <1>0, <4>3 DEF ToTell, rowVars
    <3> QED
      BY <3>3, <3>4
  <2> QED
    BY <2>1, <2>2 DEF ToTell
<1>15. ASSUME NEW x, NEW y \in StillKnown(x), y \notin StillKnown(x)'
       PROVE  st = "adoptions" /\ y = b[1].player
  BY <1>0, <1>14, <1>15 DEF StillKnown, rowVars
<1>16. ASSUME NEW s \in Tables, NEW r \in rows[s], Held(s, r)
       PROVE  Held(s, r)'
  <2>1. PICK x \in StillKnown(r.player) : <<s, r.ref, x>> \in play
    BY <1>16 DEF Held
  <2>2. <<s, r.ref, x>>[3] = x
    OBVIOUS
  <2>3. x \in StillKnown(r.player)'
    BY <1>5, <1>15, <2>1, <2>2
  <2> QED
    BY <1>0, <2>1, <2>3 DEF Held
<1>17. st # "adoptions" => \A x : StillKnown(x) \subseteq StillKnown(x)'
  BY <1>15
<1>18. ASSUME NEW s \in Tables, NEW r \in rows[s]
       PROVE  Covered(s, r)' /\ Reached(s, r)'
  <2>1. Covered(s, r) /\ Reached(s, r) /\ s \in Stream /\ s # "adoptions" /\ CursorOf(r) \in Cursors
    BY <1>0, CursorType DEF PlayIInv, RowsReached, Tables, Stream, StreamTypes
  <2>2. IsLate(s, r) => IsLate(s, r)'
    BY <1>0 DEF IsLate, rowVars
  <2>3. CASE s # st
    <3>1. Covered(s, r)'
      BY <1>7, <1>16, <2>1, <2>2, <2>3 DEF Covered, Before, CursorOf
    <3>2. Reached(s, r)'
      BY <1>9, <2>3 DEF Reached
    <3> QED
      BY <3>1, <3>2
  <2>4. CASE s = st
    <3>1. \/ Before(ReadUpTo(s), CursorOf(r)) \/ Held(s, r) \/ IsLate(s, r) \/ Carried(r)
      BY <1>1, <1>2, <2>1, <2>4 DEF Reached
    <3>2. CASE Before(ReadUpTo(s), CursorOf(r))
      <4>1. Before(ReadUpTo(s), CursorOf(r))'
        BY <1>13, <2>1, <3>2 DEF Before, CursorOf
      <4>2. Before(position'[s], CursorOf(r))
        <5>1. ReadUpTo(s) = CursorOf(b[m]) /\ position'[s] = CursorOf(b[n])
          BY <1>1, <1>2, <1>7, <2>1, <2>4 DEF ReadUpTo
        <5>2. n = m \/ Before(CursorOf(b[n]), CursorOf(b[m]))
          BY <1>n, <1>4
        <5>3. m \in 1 .. m
          BY <1>3
        <5> QED
          BY <1>3, <2>1, <3>2, <5>1, <5>2, <5>3, BeforeOrder
      <4> QED
        BY <4>1, <4>2 DEF Covered, Reached, Before, CursorOf
    <3>3. CASE Held(s, r) \/ IsLate(s, r)
      BY <1>16, <2>2, <3>3 DEF Covered, Reached
    <3>4. CASE Carried(r)
      <4>1. PICK i \in 1 .. m : /\ b[i].ref = r.ref /\ b[i].player \in StillKnown(r.player)
                                     /\ ~Before(CursorOf(r), CursorOf(b[i]))
        BY <1>2, <1>3, <3>4 DEF Carried
      <4>2. CASE i <= n
        <5>1. <<s, r.ref, b[i].player>> \in play
          BY <1>n, <1>5, <2>1, <2>4, <4>1, <4>2
        <5>2. Held(s, r)
          BY <4>1, <5>1 DEF Held
        <5> QED
          BY <1>16, <5>2 DEF Covered, Reached
      <4>3. CASE i > n
        <5>1. Before(CursorOf(b[n]), CursorOf(b[i]))
          BY <1>3, <1>4, <4>3
        <5>2. Before(position'[s], CursorOf(r))
          BY <1>3, <1>7, <2>1, <2>4, <4>1, <5>1, BeforeOrder
        <5>3. i - n \in 1 .. m - n /\ (i - n) + n = i /\ n < m
          BY <1>n, <4>3
        <5>4. i - n \in DOMAIN pass'.batch /\ pass'.batch[i - n] = b[i]
          BY <1>3, <1>9, <5>3
        <5>5. b[i].player \in StillKnown(r.player)'
          BY <1>17, <2>1, <2>4, <4>1
        <5>6. Carried(r)'
          BY <4>1, <5>4, <5>5 DEF Carried, Before, CursorOf
        <5> QED
          BY <5>2, <5>6 DEF Covered, Reached, Before, CursorOf
      <4> QED
        BY <1>3, <4>2, <4>3
    <3> QED
      BY <3>1, <3>2, <3>3, <3>4
  <2> QED
    BY <2>3, <2>4
<1> QED
  BY <1>0, <1>8, <1>10, <1>11, <1>12, <1>18, SyncKeeps
--------------------------------------------------------------------------------
LEMMA PlayStep == PlayIInv /\ [PlaySyncNext]_playVars => PlayIInv'
<1> SUFFICES ASSUME PlayIInv, [PlaySyncNext]_playVars PROVE PlayIInv'
  OBVIOUS
<1>1. CASE UNCHANGED playVars
  <2>1. UNCHANGED streamVars /\ QueueTypes'
    BY <1>1 DEF playVars, streamVars, PlayIInv, QueueTypes
  <2> QED
    BY <2>1, StreamsRest
<1>2. CASE PlaySyncNext
  BY <1>2, WriterKeeps, AdoptKeeps, StartKeeps, ReadKeeps, PostKeeps, AdvanceKeeps DEF PlaySyncNext, Passing
<1> QED
  BY <1>1, <1>2

LEMMA PlayImplies == PlayIInv => NothingIsLost
<1> SUFFICES ASSUME PlayIInv, NEW s \in Tables, NEW r \in rows[s]
             PROVE  r \in Ahead(s) \/ Posted(s, r) \/ <<s, r.ref, r.player>> \in late
  BY DEF NothingIsLost, Tables
<1>1. Covered(s, r)
  BY DEF PlayIInv, RowsReached
<1>2. StillKnown(r.player) \subseteq KnownAs(r.player)
  BY ToldIsAhead DEF StillKnown, KnownAs, PlayIInv
<1> QED
  BY <1>1, <1>2 DEF Covered, Held, IsLate, Ahead, Table, Posted, Tables

\* playSync.ts:16: for any accounts, rounds, batch and number of restarts, a row at or behind a
\* stream's position is Play's, or was committed, or its owner adopted, behind what had been read.
THEOREM ProgressReachesPlay == PlaySyncSpec => []NothingIsLost
<1>1. PlaySyncInit => PlayIInv
  BY PlayInit
<1>2. PlayIInv /\ [PlaySyncNext]_playVars => PlayIInv'
  BY PlayStep
<1>3. PlayIInv => NothingIsLost
  BY PlayImplies
<1> QED
  BY <1>1, <1>2, <1>3, PTL DEF PlaySyncSpec
================================================================================
