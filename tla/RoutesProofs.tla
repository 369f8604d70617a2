------------------------------- MODULE RoutesProofs ------------------------------
(* What the staff's and the builders' requests keep, for every number of    *)
(* calls, worlds and clients: a revoked mod install stays revoked           *)
(* (ModGrants), and what the creator worlds' API and host promise           *)
(* (WorldRoutes).                                                           *)
EXTENDS ModGrants, WorldRoutes, SequenceTheorems, FiniteSetTheorems, TLAPS

---------------------------------------------------------------------------
(* Mods: what a call may be, and which revision its write is made for.      *)

Changes == {"grant", "withdraw", "revoke"}

Deliveries == [at : {"apply"}, principal : Principal, boot : BOOLEAN, current : Install,
               withdraw : SUBSET Capability, grant : SUBSET Capability]
Asks == [at : {"ask"}, change : Changes, arg : Capability]
Answers == [at : {"answer"}, change : Changes, arg : Capability, revision : Nat]
Writes == [at : {"write"}, change : Changes \cup {"status", "reload"},
           arg : Capability \cup {"enabled", "disabled"} \cup SUBSET Capability,
           granted : SUBSET Capability, revision : Nat, then : SUBSET Deliveries]
Refreshes == [at : {"refresh"}, then : SUBSET Deliveries]
Reads == [at : {"refreshGrants", "refreshed"}, row : Install, then : SUBSET Deliveries]

ArgIsKnown(w) ==
  /\ w.change \in {"grant", "withdraw"} => w.arg \in Capability
  /\ w.change = "status" => w.arg \in {"enabled", "disabled"}
  /\ w.change = "reload" => w.arg \in SUBSET Capability

\* The principal's revocation is its last change: r is its revision.
IsEnd(r) == principal.status = "revoked" /\ r = principal.revision

\* A principal that was: the revoked one is the last.
WasPrincipal(p) == p.revision <= principal.revision /\ (p.status = "revoked" <=> IsEnd(p.revision))

\* What is granted is granted by a principal that is not revoked, a revocation is the last change,
\* and what is written for no revision is this server's own.
ForRevision(c) ==
  /\ c.revision <= principal.revision
  /\ c.change = "revoke" => IsEnd(c.revision)
  /\ c.change \in {"grant", "status"} => ~IsEnd(c.revision)

ToApply(a) == WasPrincipal(a.principal) /\ (a.grant # {} => a.principal.status # "revoked")

CallFits(c) ==
  /\ c \in {Idle, [at |-> "boot"]} \cup Asks \cup Answers \cup Writes \cup Refreshes \cup Reads \cup Deliveries
  /\ c.at \in {"answer", "write"} => ForRevision(c)
  /\ c.at = "write" => ArgIsKnown(c)
  /\ c.at \in {"write", "refresh", "refreshGrants", "refreshed"} => \A a \in c.then : ToApply(a)
  /\ c.at = "apply" => ToApply(c)

\* A write that could bring a revoked install back was decided on a view that had missed the
\* revocation, or the revocation was committed beside it.
CrossedIfLate(c) ==
  c.at = "write" /\ c.change \in {"grant", "status"} /\ stored.status = "revoked" => "crossed" \in doubt

InstallsHold ==
  /\ principal \in Principal /\ stored \in Install /\ view \in Install /\ DOMAIN call = Request
  /\ \A e \in events : e \in Principal /\ WasPrincipal(e)

IInv == InstallsHold /\ \A q \in Request : CallFits(call[q]) /\ CrossedIfLate(call[q])

\* What a step must not do to a revoked install.
Ended == stored.status = "revoked" /\ "crossed" \notin doubt' =>
           stored'.status = "revoked" /\ stored'.granted \subseteq stored.granted

---------------------------------------------------------------------------
(* The steps *)

\* A call goes on at q; the row and the principal stand.
LEMMA OneCall ==
  ASSUME NEW q \in Request, NEW c, IInv, Put(q, c), UNCHANGED <<principal, stored>>,
         view' \in Install, events' \subseteq events, "crossed" \in doubt => "crossed" \in doubt',
         CallFits(c),
         c.at = "write" /\ c.change \in {"grant", "status"} /\ stored.status = "revoked" => "crossed" \in doubt'
  PROVE  IInv' /\ Ended
<1>1. InstallsHold'
  BY DEF IInv, InstallsHold, Put, WasPrincipal, IsEnd
<1>2. ASSUME NEW r \in Request
      PROVE  CallFits(call'[r]) /\ CrossedIfLate(call[r])'
  <2>1. CASE r = q
    BY <2>1 DEF IInv, InstallsHold, Put, CrossedIfLate
  <2>2. CASE r # q
    BY <2>2 DEF IInv, InstallsHold, Put, CrossedIfLate
  <2> QED BY <2>1, <2>2
<1>3. ASSUME NEW r \in Request
      PROVE  CallFits(call[r])'
  BY <1>2 DEF CallFits, ForRevision, ToApply, WasPrincipal, IsEnd
<1> QED BY <1>1, <1>2, <1>3 DEF IInv, Ended, Install

LEMMA ViewIsInstall == ASSUME IInv PROVE view \in Install /\ stored \in Install /\ principal \in Principal
BY DEF IInv, InstallsHold

\* What is decided on a view that is not revoked, for a row that is, has crossed.
LEMMA DecidedLate ==
  ASSUME NEW S, "crossed" \in S \/ view = stored, view.status # "revoked"
  PROVE  stored.status = "revoked" => "crossed" \in S
OBVIOUS

LEMMA IdleFits == CallFits(Idle)
BY DEF CallFits, Idle

\* A write this server makes for itself.
LEMMA OwnWriteFits ==
  ASSUME IInv, NEW change \in {"withdraw", "status", "reload"}, NEW c,
         change = "withdraw" => c \in Capability, change = "status" => c \in {"enabled", "disabled"},
         change = "reload" => c \in SUBSET Capability
  PROVE  CallFits(Writing(change, c, 0, {}))
<1> DEFINE w == Writing(change, c, 0, {})
<1>1. view.granted \in SUBSET Capability /\ principal.revision \in 1..MaxRevision
  BY ViewIsInstall DEF Install, Principal
<1>2. w \in Writes
  BY <1>1 DEF Writing, Writes, Changes
<1>3. w.at = "write" /\ w.revision = 0 /\ w.change = change /\ w.arg = c /\ w.then = {}
  BY DEF Writing
<1>4. ForRevision(w) /\ ArgIsKnown(w)
  BY <1>1, <1>3, ModGrantsAssumption DEF ForRevision, IsEnd, ArgIsKnown
<1> QED BY <1>2, <1>3, <1>4 DEF CallFits

LEMMA RequestHolds ==
  ASSUME NEW q \in Request, IInv, StaffRequest(q)
  PROVE  IInv' /\ Ended
<1>1. /\ UNCHANGED <<principal, stored, view, events>> /\ view \in Install
      /\ doubt \subseteq doubt' /\ (call'[q].at = "write" => Stale \subseteq doubt')
  BY ViewIsInstall DEF StaffRequest
<1>2. DOMAIN call = Request
  BY DEF IInv, InstallsHold
<1>3. ASSUME NEW c, Put(q, c)
      PROVE  call'[q] = c
  BY <1>2, <1>3 DEF Put
<1>4. ASSUME NEW change \in Changes, NEW c \in Capability, Put(q, Asking(change, c))
      PROVE  IInv' /\ Ended
  <2>1. CallFits(Asking(change, c)) /\ Asking(change, c).at = "ask"
    BY DEF CallFits, Asking, Asks
  <2> QED BY <1>1, <1>4, <2>1, OneCall
<1>5. ASSUME NEW c \in Capability, Put(q, Writing("withdraw", c, 0, {}))
      PROVE  IInv' /\ Ended
  <2>1. CallFits(Writing("withdraw", c, 0, {})) /\ Writing("withdraw", c, 0, {}).change = "withdraw"
    BY OwnWriteFits DEF Writing
  <2> QED BY <1>1, <1>5, <2>1, OneCall
<1>6. ASSUME NEW to \in {"enabled", "disabled"}, SetStatus(q, to)
      PROVE  IInv' /\ Ended
  <2> DEFINE w == Writing("status", to, 0, {})
  <2>1. Put(q, w) /\ view.status # "revoked"
    BY <1>6 DEF SetStatus
  <2>2. CallFits(w) /\ w.at = "write"
    BY OwnWriteFits DEF Writing
  <2>3. "crossed" \in doubt' \/ view = stored
    BY <1>1, <1>3, <2>1, <2>2 DEF Stale
  <2>4. stored.status = "revoked" => "crossed" \in doubt'
    BY <2>1, <2>3
  <2> HIDE DEF w
  <2> QED BY <1>1, <2>1, <2>2, <2>4, OneCall
<1>7. ASSUME NEW caps \in SUBSET Capability, Reload(q, caps)
      PROVE  IInv' /\ Ended
  <2>1. CallFits(Writing("reload", caps, 0, {})) /\ Writing("reload", caps, 0, {}).change = "reload"
    BY OwnWriteFits DEF Writing
  <2>2. Put(q, Writing("reload", caps, 0, {}))
    BY <1>7 DEF Reload
  <2> QED BY <1>1, <2>1, <2>2, OneCall
<1>8. ASSUME NEW c \in Capability, AskToGrant(q, c) \/ AskToWithdraw(q, c) \/ AskToRevoke(q, c)
      PROVE  IInv' /\ Ended
  <2>1. \/ \E change \in Changes : Put(q, Asking(change, c))
        \/ Put(q, Writing("withdraw", c, 0, {}))
    BY <1>8 DEF AskToGrant, AskToWithdraw, AskToRevoke, Changes
  <2> QED BY <1>4, <1>5, <2>1
<1> QED BY <1>6, <1>7, <1>8 DEF StaffRequest

\* The principal changes: what was of it before still was, and nothing of it was its end.
LEMMA NetworkMoves ==
  ASSUME IInv, NEW action \in Changes, NEW c \in Capability, NetworkChanges(action, c)
  PROVE  /\ principal' \in Principal /\ WasPrincipal(principal)' /\ principal'.revision \in Nat
         /\ action = "revoke" => IsEnd(principal.revision)'
         /\ action = "grant" => ~IsEnd(principal.revision)'
         /\ \A p \in Principal : WasPrincipal(p) => WasPrincipal(p)'
         /\ \A d : CallFits(d) => CallFits(d)'
<1>1. /\ principal \in Principal /\ principal.status = "active" /\ principal.revision < MaxRevision
      /\ principal' = Changed(action, c)
  BY ViewIsInstall DEF NetworkChanges
<1>2. principal.revision \in 1..MaxRevision /\ principal.revision \in Nat
  BY <1>1 DEF Principal
<1>3. principal' \in Principal
  BY <1>1, <1>2, ModGrantsAssumption DEF Principal, Changed, Changes
<1>4. principal'.revision = principal.revision + 1 /\ (principal'.status = "revoked" <=> action = "revoke")
  BY <1>1 DEF Changed
<1>5. ASSUME NEW p \in Principal, WasPrincipal(p)
      PROVE  WasPrincipal(p)'
  BY <1>1, <1>2, <1>4, <1>5 DEF WasPrincipal, IsEnd, Principal
<1>6. ASSUME NEW r \in Nat, r <= principal.revision
      PROVE  r <= principal'.revision /\ ~IsEnd(r)'
  BY <1>2, <1>4, <1>6 DEF IsEnd
<1>7. ASSUME NEW a \in Deliveries, ToApply(a)
      PROVE  ToApply(a)'
  BY <1>5, <1>7 DEF ToApply, Deliveries
<1>8. ASSUME NEW d \in Answers \cup Writes, ForRevision(d)
      PROVE  ForRevision(d)'
  <2>1. d.revision \in Nat
    BY DEF Answers, Writes
  <2>2. d.change # "revoke"
    BY <1>1, <1>8 DEF ForRevision, IsEnd
  <2> QED BY <1>6, <1>8, <2>1, <2>2 DEF ForRevision
<1>9. ASSUME NEW d, CallFits(d)
      PROVE  CallFits(d)'
  <2>1. d \in {Idle, [at |-> "boot"]} \cup Asks \cup Answers \cup Writes \cup Refreshes \cup Reads \cup Deliveries
    BY <1>9 DEF CallFits
  <2>2. d.at \in {"answer", "write"} => d \in Answers \cup Writes
    BY <2>1 DEF Idle, Asks, Refreshes, Reads, Deliveries
  <2>3. d.at = "apply" => d \in Deliveries
    BY <2>1 DEF Idle, Asks, Answers, Writes, Refreshes, Reads
  <2>4. d.at \in {"write", "refresh", "refreshGrants", "refreshed"} => \A a \in d.then : a \in Deliveries
    BY <2>1 DEF Idle, Asks, Answers, Writes, Refreshes, Reads, Deliveries
  <2> QED BY <1>7, <1>8, <1>9, <2>1, <2>2, <2>3, <2>4 DEF CallFits, ArgIsKnown
<1>10. WasPrincipal(principal)'
  BY <1>3 DEF WasPrincipal, IsEnd, Principal
<1> QED BY <1>2, <1>3, <1>4, <1>5, <1>9, <1>10 DEF IsEnd

LEMMA StaffInNetworkHolds ==
  ASSUME IInv, StaffInNetwork
  PROVE  IInv' /\ Ended
<1>1. PICK c \in Capability, action \in Changes : NetworkChanges(action, c)
  BY DEF StaffInNetwork, Changes
<1>2. UNCHANGED <<stored, view, call, doubt>> /\ events' = events \cup {principal'}
  BY <1>1 DEF StaffInNetwork, NetworkChanges
<1>3. InstallsHold'
  BY <1>1, <1>2, NetworkMoves DEF IInv, InstallsHold
<1>4. \A q \in Request : CallFits(call[q])'
  BY <1>1, <1>2, NetworkMoves DEF IInv
<1>5. \A q \in Request : CrossedIfLate(call[q])'
  BY <1>2 DEF IInv, CrossedIfLate
<1> QED BY <1>2, <1>3, <1>4, <1>5 DEF IInv, Ended, Install

LEMMA NetworkAnswersHolds ==
  ASSUME NEW q \in Request, IInv, NetworkAnswers(q)
  PROVE  IInv' /\ Ended
<1>1. call[q] \in Asks
  BY DEF NetworkAnswers, IInv, CallFits, Idle, Answers, Writes, Refreshes, Reads, Deliveries
<1>2. call[q].change \in Changes /\ call[q].arg \in Capability /\ NetworkChanges(call[q].change, call[q].arg)
  BY <1>1 DEF Asks, NetworkAnswers
<1>4. PICK b \in Answers : b = [at |-> "answer", change |-> call[q].change, arg |-> call[q].arg,
                               revision |-> principal'.revision]
  BY <1>2, NetworkMoves DEF Answers
<1>3. UNCHANGED <<stored, view, doubt>> /\ events' = events \cup {principal'} /\ Put(q, b)
  BY <1>2, <1>4 DEF NetworkAnswers, NetworkChanges
<1>5. ForRevision(b)'
  BY <1>2, <1>4, NetworkMoves DEF ForRevision, Changes, IsEnd
<1>6. CallFits(b)'
  BY <1>4, <1>5 DEF CallFits
<1>7. InstallsHold'
  BY <1>2, <1>3, NetworkMoves DEF IInv, InstallsHold, Put
<1>8. \A r \in Request : call'[r] = IF r = q THEN b ELSE call[r]
  BY <1>3 DEF IInv, InstallsHold, Put
<1>9. ASSUME NEW r \in Request
      PROVE  CallFits(call[r])' /\ CrossedIfLate(call[r])'
  <2>1. CASE r = q
    BY <1>4, <1>6, <1>8, <2>1 DEF CrossedIfLate
  <2>2. CASE r # q
    <3>1. CallFits(call[r]) /\ CrossedIfLate(call[r]) /\ call'[r] = call[r]
      BY <1>8, <2>2 DEF IInv
    <3>2. CallFits(call[r])'
      BY <1>2, <3>1, NetworkMoves
    <3> QED BY <1>3, <3>1, <3>2 DEF CrossedIfLate
  <2> QED BY <2>1, <2>2
<1> QED BY <1>3, <1>7, <1>9 DEF IInv, Ended, Install

LEMMA AnsweredHolds ==
  ASSUME NEW q \in Request, IInv, Answered(q)
  PROVE  IInv' /\ Ended
<1> DEFINE d == call[q]
           w == Writing(d.change, d.arg, d.revision, {})
<1>1. UNCHANGED <<principal, events, stored, view>> /\ Stale \subseteq doubt' /\ doubt \subseteq doubt'
  BY DEF Answered
<1>2. d \in Answers /\ ForRevision(d)
  BY DEF Answered, IInv, CallFits, Idle, Asks, Writes, Refreshes, Reads, Deliveries
<1>3. CASE Put(q, Idle)
  BY <1>1, <1>3, IdleFits, ViewIsInstall, OneCall DEF Idle
<1>4. CASE ~(d.change = "grant" /\ view.status = "revoked") /\ Put(q, w)
  <2>1. d.change \in Changes /\ d.arg \in Capability /\ d.revision \in Nat /\ view.granted \in SUBSET Capability
    BY <1>2, ViewIsInstall DEF Answers, Install
  <2>2. w \in Writes /\ w.at = "write" /\ w.change = d.change /\ w.arg = d.arg /\ w.revision = d.revision /\ w.then = {}
    BY <2>1 DEF Writing, Writes
  <2>3. CallFits(w)
    BY <1>2, <2>1, <2>2 DEF CallFits, ForRevision, ArgIsKnown, Changes
  <2>4. ASSUME w.change \in {"grant", "status"}, stored.status = "revoked"
        PROVE  "crossed" \in doubt'
    BY <1>1, <1>4, <2>1, <2>2, <2>4 DEF Changes, Stale
  <2> HIDE DEF w
  <2> QED BY <1>1, <1>4, <2>3, <2>4, ViewIsInstall, OneCall
<1> QED BY <1>3, <1>4 DEF Answered

---------------------------------------------------------------------------
(* A delivery's steps *)

\* A write for the delivery a, which goes on as b.
LEMMA DeliveryWriteFits ==
  ASSUME IInv, NEW a \in Deliveries, ToApply(a), NEW b \in Deliveries, ToApply(b),
         NEW change \in Changes, NEW c, change # "revoke" => c \in Capability, change = "revoke" => c = {},
         change = "revoke" => a.principal.status = "revoked",
         change = "grant" => a.principal.status # "revoked"
  PROVE  CallFits(Writing(change, c, a.principal.revision, {b}))
<1> DEFINE r == a.principal.revision
           w == Writing(change, c, r, {b})
<1>1. r \in Nat /\ a.principal \in Principal /\ WasPrincipal(a.principal) /\ view.granted \in SUBSET Capability
  BY ViewIsInstall DEF Deliveries, Principal, Install, ToApply
<1>2. w \in Writes
  BY <1>1 DEF Writing, Writes
<1>3. w.at = "write" /\ w.revision = r /\ w.change = change /\ w.arg = c /\ w.then = {b}
  BY DEF Writing
<1>4. ForRevision(w)
  BY <1>1, <1>3 DEF ForRevision, WasPrincipal, Changes
<1>5. ArgIsKnown(w)
  BY <1>3 DEF ArgIsKnown, Changes
<1> QED BY <1>2, <1>3, <1>4, <1>5 DEF CallFits

LEMMA ApplyHolds ==
  ASSUME NEW q \in Request, IInv, NEW p \in Principal, WasPrincipal(p), NEW boot \in BOOLEAN, Apply(q, p, boot),
         UNCHANGED <<principal, events, stored, view>>, doubt \subseteq doubt'
  PROVE  IInv' /\ Ended
<1> DEFINE a == Applying(p, boot)
           w == Writing("revoke", {}, p.revision, {a})
<1>1. view \in Install /\ p.approved \in SUBSET Capability
  BY ViewIsInstall DEF Principal
<1>2. a \in Deliveries /\ a.principal = p /\ a.at = "apply" /\ (a.grant # {} => p.status # "revoked")
  BY <1>1 DEF Applying, Deliveries, Install
<1>3. ToApply(a)
  BY <1>2 DEF ToApply
<1>4. CallFits(a)
  BY <1>2, <1>3 DEF CallFits
<1>5. CASE p.status = "revoked" /\ Put(q, w)
  <2>1. CallFits(w)
    BY <1>2, <1>3, <1>5, DeliveryWriteFits DEF Changes
  <2>2. w.change = "revoke"
    BY DEF Writing
  <2> HIDE DEF w
  <2> QED BY <1>1, <1>5, <2>1, <2>2, OneCall
<1>6. CASE Put(q, a)
  <2> HIDE DEF a
  <2> QED BY <1>1, <1>2, <1>4, <1>6, OneCall
<1> QED BY <1>5, <1>6 DEF Apply

LEMMA DeliverHolds ==
  ASSUME NEW q \in Request, IInv, NEW e \in events, Deliver(q, e)
  PROVE  IInv' /\ Ended
<1>1. UNCHANGED <<principal, stored, view>> /\ e \in Principal /\ WasPrincipal(e)
  BY DEF Deliver, IInv, InstallsHold
<1>2. CASE events' \subseteq events /\ UNCHANGED <<call, doubt>>
  <2>1. InstallsHold'
    BY <1>1, <1>2 DEF IInv, InstallsHold, WasPrincipal, IsEnd
  <2>2. \A r \in Request : CallFits(call[r])' /\ CrossedIfLate(call[r])'
    BY <1>1, <1>2 DEF IInv, CallFits, ForRevision, ToApply, WasPrincipal, IsEnd, CrossedIfLate
  <2> QED BY <1>1, <2>1, <2>2 DEF IInv, Ended, Install
<1>3. CASE Apply(q, e, FALSE) /\ doubt' = doubt \cup Stale /\ UNCHANGED events
  BY <1>1, <1>3, ApplyHolds
<1> QED BY <1>2, <1>3 DEF Deliver

LEMMA BootReadHolds ==
  ASSUME NEW q \in Request, IInv, BootRead(q)
  PROVE  IInv' /\ Ended
<1>1. UNCHANGED <<principal, events, stored, view>> /\ principal \in Principal
  BY ViewIsInstall DEF BootRead
<1>2. CASE Apply(q, principal, TRUE) /\ UNCHANGED doubt
  <2>1. WasPrincipal(principal)
    BY <1>1 DEF WasPrincipal, IsEnd, Principal
  <2> QED BY <1>1, <1>2, <2>1, ApplyHolds
<1>3. CASE Put(q, Idle) /\ doubt' = doubt \cup {"unread"}
  BY <1>1, <1>3, IdleFits, ViewIsInstall, OneCall DEF Idle
<1> QED BY <1>2, <1>3 DEF BootRead

LEMMA DeliveryIsTyped ==
  ASSUME NEW q \in Request, IInv, call[q].at = "apply"
  PROVE  call[q] \in Deliveries /\ ToApply(call[q])
BY DEF IInv, CallFits, Idle, Asks, Answers, Writes, Refreshes, Reads

LEMMA WithdrawalHolds ==
  ASSUME NEW q \in Request, IInv, ApplyWithdrawal(q)
  PROVE  IInv' /\ Ended
<1> DEFINE a == call[q]
<1>1. a \in Deliveries /\ ToApply(a) /\ UNCHANGED <<principal, events, stored, view>> /\ doubt \subseteq doubt'
  BY DeliveryIsTyped DEF ApplyWithdrawal
<1>2. PICK c \in a.withdraw :
        Put(q, Writing("withdraw", c, a.principal.revision, {[a EXCEPT !.withdraw = @ \ {c}, !.current = view]}))
  BY DEF ApplyWithdrawal
<1> DEFINE b == [a EXCEPT !.withdraw = @ \ {c}, !.current = view]
           w == Writing("withdraw", c, a.principal.revision, {b})
<1>3. b \in Deliveries /\ b.principal = a.principal /\ b.grant = a.grant /\ c \in Capability
  BY <1>1, ViewIsInstall DEF Deliveries
<1>4. CallFits(w)
  BY <1>1, <1>3, DeliveryWriteFits DEF ToApply, Changes
<1>5. w.change = "withdraw" /\ Put(q, w)
  BY <1>2 DEF Writing
<1> HIDE DEF w
<1> QED BY <1>1, <1>4, <1>5, ViewIsInstall, OneCall

LEMMA GrantHolds ==
  ASSUME NEW q \in Request, IInv, ApplyGrant(q)
  PROVE  IInv' /\ Ended
<1> DEFINE a == call[q]
           rest(c) == [a EXCEPT !.grant = @ \ {c}]
           w(c) == Writing("grant", c, a.principal.revision, {rest(c)})
<1>1. /\ a \in Deliveries /\ ToApply(a) /\ UNCHANGED <<principal, events, stored, view>>
      /\ doubt \subseteq doubt' /\ Stale \subseteq doubt'
  BY DeliveryIsTyped DEF ApplyGrant
<1>2. PICK c \in a.grant : \/ Put(q, rest(c)) \/ Put(q, Idle) \/ Put(q, [rest(c) EXCEPT !.current = view])
                           \/ view.status # "revoked" /\ Put(q, w(c))
  BY DEF ApplyGrant
<1>3. a.principal.status # "revoked" /\ c \in Capability
  BY <1>1, <1>2 DEF ToApply, Deliveries
<1>4. rest(c) \in Deliveries /\ rest(c).principal = a.principal /\ [rest(c) EXCEPT !.current = view] \in Deliveries
      /\ [rest(c) EXCEPT !.current = view].principal = a.principal
  BY <1>1, ViewIsInstall DEF Deliveries
<1>5. ASSUME NEW b \in Deliveries, b.principal = a.principal, Put(q, b)
      PROVE  IInv' /\ Ended
  <2>1. CallFits(b) /\ b.at = "apply"
    BY <1>1, <1>3, <1>5 DEF CallFits, ToApply, Deliveries
  <2> QED BY <1>1, <1>5, <2>1, ViewIsInstall, OneCall
<1>6. CASE Put(q, Idle)
  BY <1>1, <1>6, IdleFits, ViewIsInstall, OneCall DEF Idle
<1>7. CASE view.status # "revoked" /\ Put(q, w(c))
  <2>1. CallFits(w(c))
    BY <1>1, <1>3, <1>4, DeliveryWriteFits DEF ToApply, Changes
  <2>2. stored.status = "revoked" => "crossed" \in doubt'
    BY <1>1, <1>7 DEF Stale
  <2> HIDE DEF w
  <2> QED BY <1>1, <1>7, <2>1, <2>2, ViewIsInstall, OneCall
<1> QED BY <1>2, <1>4, <1>5, <1>6, <1>7

---------------------------------------------------------------------------
(* Writes, and the view read again *)

\* Where a delivery goes on after a write.
LEMMA ProceedFits ==
  ASSUME NEW then \in SUBSET Deliveries, \A a \in then : ToApply(a), NEW v \in Install
  PROVE  CallFits(Proceed(then, v)) /\ Proceed(then, v).at # "write"
<1>1. CASE then = {}
  BY <1>1, IdleFits DEF Proceed, Idle
<1>2. CASE then # {}
  <2> DEFINE a == CHOOSE a \in then : TRUE
             b == [a EXCEPT !.current = v]
  <2>1. a \in Deliveries /\ ToApply(a)
    BY <1>2
  <2>2. b \in Deliveries /\ b.principal = a.principal /\ b.grant = a.grant /\ b.at = "apply"
    BY <2>1 DEF Deliveries
  <2>3. CallFits(b)
    BY <2>1, <2>2 DEF CallFits, ToApply
  <2>4. Proceed(then, v) = b
    BY <1>2 DEF Proceed
  <2> QED BY <2>2, <2>3, <2>4
<1> QED BY <1>1, <1>2

LEMMA RefreshHolds ==
  ASSUME NEW q \in Request, IInv, RefreshRow(q) \/ RefreshGrants(q) \/ RefreshView(q)
  PROVE  IInv' /\ Ended
<1> DEFINE d == call[q]
<1>1. UNCHANGED <<principal, events, stored, doubt>> /\ view \in Install /\ stored \in Install
  BY ViewIsInstall DEF RefreshRow, RefreshGrants, RefreshView
<1>2. CallFits(d)
  BY DEF IInv
<1>3. CASE RefreshRow(q)
  <2> DEFINE c == [at |-> "refreshGrants", row |-> stored, then |-> d.then]
  <2>1. d \in Refreshes /\ \A a \in d.then : ToApply(a)
    BY <1>2, <1>3 DEF RefreshRow, CallFits, Idle, Asks, Answers, Writes, Reads, Deliveries
  <2>2. CallFits(c) /\ c.at = "refreshGrants"
    BY <1>1, <2>1 DEF CallFits, Reads, Refreshes
  <2>3. Put(q, c) /\ UNCHANGED view
    BY <1>3 DEF RefreshRow
  <2> QED BY <1>1, <2>2, <2>3, OneCall
<1>4. CASE RefreshGrants(q)
  <2> DEFINE c == [d EXCEPT !.at = "refreshed", !.row.granted = stored.granted]
  <2>1. d \in Reads /\ \A a \in d.then : ToApply(a)
    BY <1>2, <1>4 DEF RefreshGrants, CallFits, Idle, Asks, Answers, Writes, Refreshes, Deliveries
  <2>2. stored.granted \in SUBSET Capability
    BY <1>1 DEF Install
  <2>3. [d.row EXCEPT !.granted = stored.granted] \in Install
    BY <2>1, <2>2 DEF Reads, Install
  <2>4. c \in Reads /\ c.then = d.then /\ c.at = "refreshed"
    BY <2>1, <2>3 DEF Reads
  <2>5. CallFits(c)
    BY <2>1, <2>4 DEF CallFits
  <2>6. Put(q, c) /\ UNCHANGED view
    BY <1>4 DEF RefreshGrants
  <2> HIDE DEF c
  <2> QED BY <1>1, <2>4, <2>5, <2>6, OneCall
<1>5. CASE RefreshView(q)
  <2>1. d \in Reads /\ \A a \in d.then : ToApply(a)
    BY <1>2, <1>5 DEF RefreshView, CallFits, Idle, Asks, Answers, Writes, Refreshes, Deliveries
  <2>2. view' \in Install /\ Put(q, Proceed(d.then, view')) /\ d.then \in SUBSET Deliveries
    BY <1>5, <2>1 DEF RefreshView, Reads
  <2>3. CallFits(Proceed(d.then, view')) /\ Proceed(d.then, view').at # "write"
    BY <2>1, <2>2, ProceedFits
  <2> QED BY <1>1, <2>2, <2>3, OneCall
<1> QED BY <1>3, <1>4, <1>5

LEMMA EndsIdle ==
  ASSUME NEW q \in Request, IInv, NetworkFails(q) \/ WriteFails(q) \/ Applied(q)
  PROVE  IInv' /\ Ended
<1>1. /\ UNCHANGED <<principal, stored, view>> /\ events' \subseteq events /\ Put(q, Idle)
      /\ "crossed" \in doubt => "crossed" \in doubt'
  BY DEF NetworkFails, WriteFails, Applied
<1> QED BY <1>1, IdleFits, ViewIsInstall, OneCall DEF Idle

\* A write leaves an install an install. Only a revocation ends it, and only a grant or a status
\* does not leave one that has ended as it is, but for grants it takes away.
LEMMA WriteIsInstall ==
  ASSUME NEW w \in Writes, ArgIsKnown(w), stored \in Install
  PROVE  /\ Write(w) \in Install
         /\ w.change \notin {"status", "grant"} /\ stored.status = "revoked" =>
              Write(w).status = "revoked" /\ Write(w).granted \subseteq stored.granted
         /\ w.change # "revoke" => (Write(w).status = "revoked" => stored.status = "revoked")
<1>1. w.change \in {"grant", "withdraw", "revoke", "status", "reload"} /\ w.granted \in SUBSET Capability
  BY DEF Writes, Changes
<1>2. CASE w.change = "grant"
  BY <1>2 DEF Write, Install, ArgIsKnown
<1>3. CASE w.change = "withdraw"
  BY <1>3 DEF Write, Install, ArgIsKnown
<1>4. CASE w.change = "status"
  BY <1>4 DEF Write, Install, ArgIsKnown
<1>5. CASE w.change = "revoke"
  BY <1>5 DEF Write, Install, ArgIsKnown
<1>6. CASE w.change = "reload"
  BY <1>6 DEF Write, Install, ArgIsKnown
<1> QED BY <1>1, <1>2, <1>3, <1>4, <1>5, <1>6

LEMMA CommitHolds ==
  ASSUME NEW q \in Request, IInv, Commit(q)
  PROVE  IInv' /\ Ended
<1> DEFINE w == call[q]
           c == IF w.change = "withdraw" /\ stored' = stored
                THEN IF w.then = {} THEN Idle ELSE CHOOSE a \in w.then : TRUE
                ELSE [at |-> "refresh", then |-> w.then]
<1>1. /\ w \in Writes /\ ArgIsKnown(w) /\ ForRevision(w) /\ \A a \in w.then : ToApply(a)
      /\ w.change \in {"grant", "status"} /\ stored.status = "revoked" => "crossed" \in doubt
  BY DEF Commit, IInv, CallFits, CrossedIfLate, Idle, Asks, Answers, Refreshes, Reads, Deliveries
<1>2. stored' = Write(w) /\ Put(q, c) /\ UNCHANGED <<principal, events, view>> /\ doubt \subseteq doubt'
  BY DEF Commit
<1>3. stored \in Install /\ stored' \in Install
  BY <1>1, <1>2, ViewIsInstall, WriteIsInstall
<1>4. Ended
  <2>1. CASE w.change \in {"status", "grant"}
    BY <1>1, <1>2, <2>1 DEF Ended
  <2>2. CASE w.change \notin {"status", "grant"}
    BY <1>1, <1>2, <1>3, <2>2, WriteIsInstall DEF Ended
  <2> QED BY <2>1, <2>2
<1>5. CallFits(c) /\ c.at # "write"
  <2>1. CallFits([at |-> "refresh", then |-> w.then])
    BY <1>1 DEF CallFits, Refreshes, Writes
  <2>2. w.then # {} => CallFits(CHOOSE a \in w.then : TRUE) /\ (CHOOSE a \in w.then : TRUE).at = "apply"
    BY <1>1 DEF CallFits, Writes, Deliveries
  <2> QED BY <2>1, <2>2, IdleFits DEF Idle
<1>6. \A r \in Request : call'[r] = IF r = q THEN c ELSE call[r]
  BY <1>2 DEF IInv, InstallsHold, Put
<1>7. InstallsHold'
  BY <1>2, <1>3 DEF IInv, InstallsHold, Put, WasPrincipal, IsEnd
<1>8. ASSUME NEW d, CallFits(d)
      PROVE  CallFits(d)'
  BY <1>2, <1>8 DEF CallFits, ForRevision, ToApply, WasPrincipal, IsEnd
<1>9. ASSUME NEW r \in Request
      PROVE  CallFits(call[r])'
  <2>1. CallFits(call[r]) /\ call'[r] \in {c, call[r]}
    BY <1>6 DEF IInv
  <2> HIDE DEF c
  <2> QED BY <1>5, <1>8, <2>1
<1>10. ASSUME NEW r \in Request, call'[r].at = "write", call'[r].change \in {"grant", "status"}, stored'.status = "revoked"
       PROVE  "crossed" \in doubt'
  <2>1. r # q /\ call'[r] = call[r]
    BY <1>5, <1>6, <1>10
  <2>2. CASE stored.status = "revoked"
    BY <1>2, <1>10, <2>1, <2>2 DEF IInv, CrossedIfLate
  <2>3. CASE stored.status # "revoked"
    <3>1. w.change = "revoke"
      BY <1>1, <1>2, <1>3, <1>10, <2>3, WriteIsInstall
    <3>2. IsEnd(w.revision) /\ ForRevision(call[r])
      BY <1>1, <1>10, <2>1, <3>1 DEF ForRevision, IInv, CallFits
    <3>3. call[r].revision # w.revision
      BY <1>10, <2>1, <3>2 DEF ForRevision
    <3>4. Misses(r, w.revision) /\ stored' # stored
      BY <1>10, <2>1, <2>3, <3>3 DEF Misses
    <3> QED BY <2>1, <3>4 DEF Commit
  <2> QED BY <2>2, <2>3
<1> QED BY <1>4, <1>7, <1>9, <1>10 DEF IInv, CrossedIfLate

LEMMA CrashHolds ==
  ASSUME IInv, Crash
  PROVE  IInv' /\ Ended
<1>1. /\ UNCHANGED <<principal, events, stored, doubt>> /\ view' = stored /\ DOMAIN call' = Request
      /\ \A q \in Request : call'[q] \in {Idle, [at |-> "boot"]}
  BY DEF Crash
<1>2. InstallsHold'
  BY <1>1 DEF IInv, InstallsHold, WasPrincipal, IsEnd
<1>3. \A q \in Request : CallFits(call[q])' /\ CrossedIfLate(call[q])'
  BY <1>1 DEF CallFits, CrossedIfLate, Idle
<1> QED BY <1>1, <1>2, <1>3 DEF IInv, Ended, Install

LEMMA StepHolds ==
  ASSUME IInv, [ModGrantsNext]_modVars
  PROVE  IInv' /\ Ended
<1>1. CASE UNCHANGED modVars
  <2>1. UNCHANGED <<principal, events, stored, view, call, doubt>>
    BY <1>1 DEF modVars
  <2>2. InstallsHold'
    BY <2>1 DEF IInv, InstallsHold, WasPrincipal, IsEnd
  <2>3. \A q \in Request : CallFits(call[q])' /\ CrossedIfLate(call[q])'
    BY <2>1 DEF IInv, CallFits, ForRevision, ToApply, WasPrincipal, IsEnd, CrossedIfLate
  <2> QED BY <2>1, <2>2, <2>3 DEF IInv, Ended, Install
<1>2. ASSUME NEW q \in Request, Serve(q)
      PROVE  IInv' /\ Ended
  BY <1>2, RequestHolds, NetworkAnswersHolds, AnsweredHolds, CommitHolds, RefreshHolds, EndsIdle, DeliverHolds,
     WithdrawalHolds, GrantHolds, BootReadHolds DEF Serve
<1> QED BY <1>1, <1>2, StaffInNetworkHolds, CrashHolds DEF ModGrantsNext

LEMMA InitHolds == ModGrantsInit => IInv
<1> SUFFICES ASSUME ModGrantsInit PROVE IInv
  OBVIOUS
<1>1. PICK m \in Installs : \E approved \in SUBSET (m.asks \cap Bindable) :
        /\ principal = [status |-> "active", requested |-> m.asks, approved |-> approved, revision |-> 1]
        /\ stored = [status |-> "enabled", requested |-> m.asks, granted |-> approved]
  BY DEF ModGrantsInit
<1>2. m.asks \in SUBSET Capability
  BY <1>1, ModGrantsAssumption
<1>3. principal \in Principal /\ stored \in Install
  BY <1>1, <1>2, ModGrantsAssumption DEF Principal, Install
<1>4. view = stored /\ events = {} /\ call = [q \in Request |-> Idle]
  BY DEF ModGrantsInit
<1> QED BY <1>3, <1>4, IdleFits DEF IInv, InstallsHold, CrossedIfLate, Idle

---------------------------------------------------------------------------
(* The theorem *)

\* However many calls are served at once, no request, event, failure, crash or boot brings a revoked
\* install back or gives it a grant (registry.ts setStatus, grant, replace, applyNetwork), but where
\* a write was decided on a view that had missed a commit.
THEOREM RevokedForGood == ModGrantsSpec => RevokedStaysRevoked
<1>1. ASSUME IInv, [ModGrantsNext]_modVars
      PROVE  /\ IInv'
             /\ [stored.status = "revoked" /\ "crossed" \notin doubt' =>
                   stored'.status = "revoked" /\ stored'.granted \subseteq stored.granted]_modVars
  BY <1>1, StepHolds DEF Ended
<1> QED BY <1>1, InitHolds, PTL DEF ModGrantsSpec, RevokedStaysRevoked

---------------------------------------------------------------------------
(* Creator worlds: the chain                                                *)

\* The steps of a hello that has been read.
OpeningSteps == {"check", "map", "place", "claim", "build", "renew"}

\* Only a running job is beyond its turn, the opening steps are a hello's, and a save
\* stops no world.
StepsBelong == step # "turn" =>
  /\ chain # <<>>
  /\ Job.kind = "hello" <=> step \in OpeningSteps
  /\ Job.kind = "apply" => step # "stop"

LEMMA JobIsKnown ==
  ASSUME HostTypeOK, chain # <<>>
  PROVE  /\ Job \in Jobs /\ Tail(chain) \in Seq(Jobs)
         /\ Job.kind \in {"hello", "sweep", "changed", "remove", "scripts", "apply"}
         /\ Job.kind # "sweep" => Job.world \in World
         /\ Job.kind = "hello" => Job.client \in Client
         /\ Job.kind = "changed" => Job.status \in Status
         /\ Job.kind = "apply" => Job.map \in 1..MaxSaves
<1>1. Job \in Jobs /\ Tail(chain) \in Seq(Jobs)
  BY HeadTailProperties DEF HostTypeOK, Job
<1> QED BY <1>1 DEF Jobs

\* A job queued behind the chain leaves the running one where it is.
LEMMA QueuedBehind ==
  ASSUME HostTypeOK, NEW job \in Jobs, chain' = Append(chain, job)
  PROVE  /\ chain' \in Seq(Jobs) /\ chain' # <<>>
         /\ chain # <<>> => Job' = Job
<1>1. chain \in Seq(Jobs)
  BY DEF HostTypeOK
<1>2. chain' \in Seq(Jobs) /\ chain' # <<>>
  BY <1>1, AppendProperties
<1>3. chain # <<>> => Head(chain') = Head(chain)
  BY <1>1, HeadTailAppend
<1> QED BY <1>2, <1>3 DEF Job

LEMMA HostInitHolds == HostInit => HostTypeOK /\ StepsBelong
<1> SUFFICES ASSUME HostInit PROVE HostTypeOK /\ StepsBelong
  OBVIOUS
<1>1. chain \in Seq(Jobs)
  BY EmptySeq DEF HostInit
<1>2. StepsBelong
  BY DEF HostInit, StepsBelong
<1>3. saved \in [World -> 0..MaxSaves] /\ override \in [World -> (0..MaxSaves) \cup {NoMap}]
  BY HostAssumptions DEF HostInit
<1>4. HostTypeOK
  BY <1>1, <1>3 DEF HostInit, HostTypeOK, Status
<1> QED BY <1>2, <1>4

\* What clients and timers do.
LEMMA ClientsKeepTypes ==
  ASSUME HostTypeOK, StepsBelong,
         \/ \E c \in Client, w \in World : Hello(c, w)
         \/ \E c \in Client : Disconnect(c)
         \/ SweepTimer
         \/ \E w \in World : IdleTimePasses(w) \/ LeaseLost(w)
  PROVE  HostTypeOK' /\ StepsBelong'
<1>1. ASSUME NEW c \in Client, NEW w \in World, Hello(c, w)
      PROVE  HostTypeOK' /\ StepsBelong'
  <2> DEFINE job == [kind |-> "hello", client |-> c, world |-> w]
  <2>1. job \in Jobs
    BY DEF Jobs
  <2>2. chain' \in Seq(Jobs) /\ chain' # <<>> /\ (chain # <<>> => Job' = Job)
    BY <1>1, <2>1, QueuedBehind DEF Hello, Queue
  <2>3. HostTypeOK'
    BY <1>1, <2>2 DEF Hello, HostTypeOK, database
  <2>4. StepsBelong'
    BY <1>1, <2>2 DEF Hello, StepsBelong
  <2> QED BY <2>3, <2>4
<1>2. ASSUME NEW c \in Client, Disconnect(c)
      PROVE  HostTypeOK' /\ StepsBelong'
  BY <1>2 DEF Disconnect, HostTypeOK, StepsBelong, Job, database
<1>3. CASE SweepTimer
  <2>1. [kind |-> "sweep"] \in Jobs
    BY DEF Jobs
  <2>2. chain' \in Seq(Jobs) /\ chain' # <<>> /\ (chain # <<>> => Job' = Job)
    BY <1>3, <2>1, QueuedBehind DEF SweepTimer
  <2>3. HostTypeOK'
    BY <1>3, <2>2 DEF SweepTimer, HostTypeOK, database
  <2>4. StepsBelong'
    BY <1>3, <2>2 DEF SweepTimer, StepsBelong
  <2> QED BY <2>3, <2>4
<1>4. ASSUME NEW w \in World, IdleTimePasses(w)
      PROVE  HostTypeOK' /\ StepsBelong'
  BY <1>4 DEF IdleTimePasses, HostTypeOK, StepsBelong, Job, database
<1>5. ASSUME NEW w \in World, LeaseLost(w)
      PROVE  HostTypeOK' /\ StepsBelong'
  BY <1>5 DEF LeaseLost, HostTypeOK, StepsBelong, Job, database
<1> QED BY <1>1, <1>2, <1>3, <1>4, <1>5

\* The running job goes on, or ends.
LEMMA GoesOn ==
  ASSUME HostTypeOK, StepsBelong, NEW where, GoTo(where), chain # <<>>,
         where # "turn" => (Job.kind = "hello" <=> where \in OpeningSteps),
         Job.kind = "apply" => where # "stop"
  PROVE  chain' \in Seq(Jobs) /\ StepsBelong' /\ Job' = Job
BY DEF GoTo, HostTypeOK, StepsBelong, Job

LEMMA Ends ==
  ASSUME HostTypeOK, chain # <<>>, Over
  PROVE  chain' \in Seq(Jobs) /\ step' = "turn" /\ StepsBelong'
BY JobIsKnown DEF Over, StepsBelong

LEMMA AnswersAreTyped ==
  ASSUME HostTypeOK, chain # <<>>, Job.kind = "hello", Admit \/ Refuse \/ UNCHANGED at
  PROVE  at' \in [Client -> World \cup {"out", "waiting", "gone", "stranded"}]
<1>1. Job.world \in World /\ at \in [Client -> World \cup {"out", "waiting", "gone", "stranded"}]
  BY JobIsKnown DEF HostTypeOK
<1> QED BY <1>1 DEF Admit, Refuse

LEMMA OpeningKeepsTypes ==
  ASSUME HostTypeOK, StepsBelong,
         OpenWorld \/ CheckJoin \/ ReadMap \/ EnsurePlace \/ ClaimLease \/ BuildRoom \/ RunWorld
  PROVE  HostTypeOK' /\ StepsBelong'
<1>1. /\ chain # <<>> /\ Job.kind = "hello" /\ Job.world \in World /\ Job.client \in Client
  BY JobIsKnown DEF OpenWorld, CheckJoin, ReadMap, EnsurePlace, ClaimLease, BuildRoom, RunWorld, Now, Job
<1>2. /\ Admit \/ Refuse \/ UNCHANGED at
      /\ Over \/ GoTo("check") \/ GoTo("map") \/ GoTo("place") \/ GoTo("claim") \/ GoTo("build")
           \/ GoTo("renew")
  BY DEF OpenWorld, CheckJoin, ReadMap, EnsurePlace, ClaimLease, BuildRoom, RunWorld, StartFails
<1>3. chain' \in Seq(Jobs) /\ StepsBelong' /\ step' \in OpeningSteps \cup {"turn"}
  <2>1. CASE Over
    BY <1>1, <2>1, Ends
  <2>2. ASSUME NEW where \in OpeningSteps, GoTo(where)
        PROVE  chain' \in Seq(Jobs) /\ StepsBelong' /\ step' \in OpeningSteps
    BY <1>1, <2>2, GoesOn DEF GoTo, OpeningSteps
  <2> QED BY <1>2, <2>1, <2>2 DEF OpeningSteps
<1>4. at' \in [Client -> World \cup {"out", "waiting", "gone", "stranded"}]
  BY <1>1, <1>2, AnswersAreTyped
<1>5. seen' \in Status \cup {"unread"}
  BY <1>1 DEF OpenWorld, CheckJoin, ReadMap, EnsurePlace, ClaimLease, BuildRoom, RunWorld, HostTypeOK
<1>6. override' \in [World -> (0..MaxSaves) \cup {NoMap}]
  <2>1. saved[Job.world] \in 0..MaxSaves
    BY <1>1 DEF HostTypeOK
  <2> QED BY <2>1 DEF OpenWorld, CheckJoin, ReadMap, EnsurePlace, ClaimLease, BuildRoom, RunWorld, StartFails, HostTypeOK
<1>7. /\ UNCHANGED <<status, saved, shared, stopping>>
      /\ places' \subseteq World /\ leased' \subseteq World /\ rooms' \subseteq World
      /\ running' \subseteq World /\ due' \subseteq World
  BY <1>1 DEF OpenWorld, CheckJoin, ReadMap, EnsurePlace, ClaimLease, BuildRoom, RunWorld, HostTypeOK, database
<1> QED BY <1>3, <1>4, <1>5, <1>6, <1>7 DEF HostTypeOK, OpeningSteps

LEMMA StoppingKeepsTypes ==
  ASSUME HostTypeOK, StepsBelong,
         StopEnds \/ Sweep \/ WorldChanged \/ RemoveBegins \/ Remove \/ ApplyMap
  PROVE  HostTypeOK' /\ StepsBelong'
<1>1. chain # <<>> /\ Job.kind # "hello"
  BY DEF StopEnds, Sweep, WorldChanged, RemoveBegins, Remove, ApplyMap, Now, Job, StepsBelong, OpeningSteps
<1>2. Over \/ GoTo("turn") \/ GoTo("delete") \/ GoTo("stop")
  BY DEF StopEnds, Sweep, WorldChanged, RemoveBegins, Remove, ApplyMap, StopBegins
<1>0. Job.kind = "apply" => StopEnds \/ Over
  BY DEF Sweep, WorldChanged, RemoveBegins, Remove, ApplyMap, Now, Job
<1>3. chain' \in Seq(Jobs) /\ StepsBelong' /\ step' \in {"turn", "delete", "stop"}
  <2>1. CASE Over
    BY <1>1, <2>1, Ends
  <2>2. ASSUME NEW where \in {"turn", "delete", "stop"}, GoTo(where), Job.kind = "apply" => where # "stop"
        PROVE  chain' \in Seq(Jobs) /\ StepsBelong' /\ step' \in {"turn", "delete", "stop"}
    BY <1>1, <2>2, GoesOn DEF GoTo, OpeningSteps
  <2>3. StopEnds => Job.kind # "apply"
    BY <1>1 DEF StopEnds, StepsBelong
  <2> QED BY <1>0, <1>2, <2>1, <2>2, <2>3
<1>4. /\ Job.kind \in {"sweep", "changed", "remove", "scripts", "apply"}
      /\ Job.kind # "sweep" => Job.world \in World
      /\ Job.kind = "apply" => Job.map \in 1..MaxSaves
  BY <1>1, JobIsKnown
<1>5. at' \in [Client -> World \cup {"out", "waiting", "gone", "stranded"}]
  BY DEF StopEnds, Sweep, WorldChanged, RemoveBegins, Remove, ApplyMap, HostTypeOK
<1>6. override' \in [World -> (0..MaxSaves) \cup {NoMap}]
  <2>1. CASE StopEnds
    BY <2>1 DEF StopEnds, HostTypeOK
  <2>2. CASE ApplyMap
    <3>1. Job.map \in 0..MaxSaves
      BY <1>4, <2>2, HostAssumptions DEF ApplyMap, Now, Job
    <3> QED BY <2>2, <3>1 DEF ApplyMap, HostTypeOK
  <2>3. CASE Sweep \/ WorldChanged \/ RemoveBegins \/ Remove
    BY <2>3 DEF Sweep, WorldChanged, RemoveBegins, Remove, HostTypeOK
  <2> QED BY <2>1, <2>2, <2>3
<1>7. status' \in [World -> Status \cup {"gone"}]
  BY DEF StopEnds, Sweep, WorldChanged, RemoveBegins, Remove, ApplyMap, HostTypeOK, Deleted, database
<1>8. /\ UNCHANGED <<saved, shared, seen>>
      /\ places' \subseteq World /\ leased' \subseteq World /\ rooms' \subseteq World
      /\ running' \subseteq World /\ due' \subseteq World /\ stopping' \subseteq World
  BY <1>1, <1>4 DEF StopEnds, Sweep, WorldChanged, RemoveBegins, Remove, ApplyMap, StopBegins, HostTypeOK,
       Deleted, database, IdleWorlds, Now, Job
<1> QED BY <1>3, <1>5, <1>6, <1>7, <1>8 DEF HostTypeOK

LEMMA ChainKeepsTypes ==
  ASSUME HostTypeOK, StepsBelong, ChainStep
  PROVE  HostTypeOK' /\ StepsBelong'
BY OpeningKeepsTypes, StoppingKeepsTypes DEF ChainStep

LEMMA HostKeepsTypes ==
  ASSUME HostTypeOK, StepsBelong, HostStep
  PROVE  HostTypeOK' /\ StepsBelong'
BY ClientsKeepTypes, ChainKeepsTypes DEF HostStep

---------------------------------------------------------------------------
(* Creator worlds: the requests                                             *)

\* A request carries what its later steps use.
LEMMA RequestIsKnown ==
  ASSUME RoutesTypeOK, NEW r \in Patch, req[r] # NoRequest
  PROVE  /\ req[r].stage \in {"read", "updated", "synced"}
         /\ req[r].world \in World /\ req[r].to \in Status
         /\ At(r, "read") => req[r].who \in Client /\ req[r].from \in Status /\ req[r].dated \in BOOLEAN
BY DEF RoutesTypeOK, At

LEMMA AtIsARequest ==
  ASSUME NEW r \in Patch, NEW stage \in {"read", "updated", "synced"}, At(r, stage)
  PROVE  req[r] # NoRequest
BY DEF At, NoRequest

LEMMA RoutesInitHolds == HostInit /\ RoutesInit => RoutesTypeOK
BY DEF HostInit, RoutesInit, RoutesTypeOK

LEMMA PatchKeepsTypes ==
  ASSUME HostTypeOK, StepsBelong, RoutesTypeOK,
         \/ \E r \in Patch, c \in Client, w \in World, to \in Status : PatchReads(r, c, w, to)
         \/ \E r \in Patch : Answer(r)
  PROVE  HostTypeOK' /\ StepsBelong' /\ RoutesTypeOK'
<1>1. ASSUME NEW r \in Patch, NEW c \in Client, NEW w \in World, NEW to \in Status, PatchReads(r, c, w, to)
      PROVE  HostTypeOK' /\ StepsBelong' /\ RoutesTypeOK'
  <2>1. status[w] \in Status /\ (w \in dated) \in BOOLEAN
    BY <1>1 DEF PatchReads, HostTypeOK
  <2>2. RoutesTypeOK'
    BY <1>1, <2>1 DEF PatchReads, RoutesTypeOK, excused
  <2>3. HostTypeOK' /\ StepsBelong'
    BY <1>1 DEF PatchReads, HostTypeOK, StepsBelong, Job, hostVars, database
  <2> QED BY <2>2, <2>3
<1>2. ASSUME NEW r \in Patch, PatchUpdates(r)
      PROVE  HostTypeOK' /\ StepsBelong' /\ RoutesTypeOK'
  <2> DEFINE q == req[r]
  <2>1. q # NoRequest /\ q.world \in World /\ q.to \in Status
    BY <1>2, AtIsARequest, RequestIsKnown DEF PatchUpdates
  <2>2. req' \in [Patch -> {NoRequest} \cup
          [stage: {"read"}, who: Client, world: World, to: Status, from: Status, dated: BOOLEAN]
            \cup [stage: {"updated", "synced"}, world: World, to: Status, tells: BOOLEAN]]
    <3> DEFINE new == [stage |-> "updated", world |-> q.world, to |-> q.to, tells |-> q.to # q.from]
    <3>1. (q.to # q.from) \in BOOLEAN
      OBVIOUS
    <3>2. new \in [stage: {"updated", "synced"}, world: World, to: Status, tells: BOOLEAN]
      BY <2>1, <3>1
    <3>3. req' = [req EXCEPT ![r] = NoRequest] \/ req' = [req EXCEPT ![r] = new]
      BY <1>2 DEF PatchUpdates
    <3> HIDE DEF new, q
    <3> QED BY <3>2, <3>3 DEF RoutesTypeOK
  <2>3. /\ published' \in [World -> Nat] /\ dated' \subseteq World /\ may' \in Conditions
        /\ crossed' \subseteq World /\ unsynced' \subseteq World /\ torn' \subseteq World
    BY <1>2, <2>1 DEF PatchUpdates, RoutesTypeOK
  <2>4. status' \in [World -> Status \cup {"gone"}]
    BY <1>2, <2>1 DEF PatchUpdates, HostTypeOK
  <2>5. HostTypeOK' /\ StepsBelong'
    BY <1>2, <2>4 DEF PatchUpdates, HostTypeOK, StepsBelong, Job
  <2> QED BY <2>2, <2>3, <2>5 DEF RoutesTypeOK
<1>3. ASSUME NEW r \in Patch, PatchSyncs(r)
      PROVE  HostTypeOK' /\ StepsBelong' /\ RoutesTypeOK'
  <2> DEFINE q == req[r]
  <2>1. q # NoRequest /\ q.world \in World
    BY <1>3, AtIsARequest, RequestIsKnown DEF PatchSyncs
  <2>2. RoutesTypeOK'
    <3>1. q \in [stage: {"updated", "synced"}, world: World, to: Status, tells: BOOLEAN]
      BY <1>3, <2>1 DEF PatchSyncs, At, RoutesTypeOK
    <3>2. req' \in [Patch -> {NoRequest} \cup
            [stage: {"read"}, who: Client, world: World, to: Status, from: Status, dated: BOOLEAN]
              \cup [stage: {"updated", "synced"}, world: World, to: Status, tells: BOOLEAN]]
      BY <1>3, <3>1 DEF PatchSyncs, RoutesTypeOK
    <3>3. crossed' \subseteq World /\ unsynced' \subseteq World
      BY <1>3, <2>1 DEF PatchSyncs, RoutesTypeOK
    <3> QED BY <1>3, <3>2, <3>3 DEF PatchSyncs, RoutesTypeOK
  <2>3. shared' \subseteq World
    BY <1>3, <2>1 DEF PatchSyncs, Synced, HostTypeOK
  <2>4. HostTypeOK' /\ StepsBelong'
    BY <1>3, <2>3 DEF PatchSyncs, HostTypeOK, StepsBelong, Job
  <2> QED BY <2>2, <2>4
<1>4. ASSUME NEW r \in Patch, PatchTells(r)
      PROVE  HostTypeOK' /\ StepsBelong' /\ RoutesTypeOK'
  <2> DEFINE q == req[r]
             job == [kind |-> "changed", world |-> q.world, status |-> q.to]
  <2>1. q # NoRequest /\ q.world \in World /\ q.to \in Status
    BY <1>4, AtIsARequest, RequestIsKnown DEF PatchTells
  <2>2. RoutesTypeOK'
    BY <1>4 DEF PatchTells, RoutesTypeOK, excused
  <2>3. job \in Jobs
    BY <2>1 DEF Jobs
  <2>4. CASE UNCHANGED chain
    BY <1>4, <2>2, <2>4 DEF PatchTells, HostTypeOK, StepsBelong, Job, database
  <2>5. CASE chain' = Append(chain, job)
    <3>1. chain' \in Seq(Jobs) /\ chain' # <<>> /\ (chain # <<>> => Job' = Job)
      BY <2>3, <2>5, QueuedBehind
    <3> QED BY <1>4, <2>2, <3>1 DEF PatchTells, HostTypeOK, StepsBelong, database
  <2> QED BY <1>4, <2>4, <2>5 DEF PatchTells
<1> QED BY <1>1, <1>2, <1>3, <1>4 DEF Answer

LEMMA WritesKeepTypes ==
  ASSUME HostTypeOK, StepsBelong, RoutesTypeOK,
         \/ \E w \in World : Delete(w) \/ SaveMap(w) \/ SaveScripts(w)
         \/ \E c \in Client : Erase(c)
  PROVE  HostTypeOK' /\ StepsBelong' /\ RoutesTypeOK'
<1>1. RoutesTypeOK'
  <2>1. ASSUME NEW c \in Client, Erase(c)
        PROVE  RoutesTypeOK'
    <3>1. torn' \subseteq World
      BY <2>1 DEF Erase, RoutesTypeOK
    <3> QED BY <2>1, <3>1 DEF Erase, RoutesTypeOK
  <2> QED BY <2>1 DEF Delete, SaveMap, SaveScripts, routeVars, excused, RoutesTypeOK
<1>2. ASSUME NEW w \in World, NEW job \in Jobs, Queue(job), UNCHANGED step
      PROVE  chain' \in Seq(Jobs) /\ StepsBelong'
  BY <1>2, QueuedBehind DEF Queue, StepsBelong
<1>3. ASSUME NEW w \in World, Delete(w)
      PROVE  HostTypeOK' /\ StepsBelong'
  <2>1. [kind |-> "remove", world |-> w] \in Jobs
    BY DEF Jobs
  <2> QED BY <1>2, <1>3, <2>1 DEF Delete, HostTypeOK, database
<1>4. ASSUME NEW w \in World, SaveScripts(w)
      PROVE  HostTypeOK' /\ StepsBelong'
  <2>1. [kind |-> "scripts", world |-> w] \in Jobs
    BY DEF Jobs
  <2> QED BY <1>2, <1>4, <2>1 DEF SaveScripts, HostTypeOK, database
<1>5. ASSUME NEW w \in World, SaveMap(w)
      PROVE  HostTypeOK' /\ StepsBelong'
  <2>1. saved[w] \in 0..MaxSaves /\ saved[w] + 1 \in 1..MaxSaves
    BY <1>5, HostAssumptions DEF SaveMap, HostTypeOK
  <2>2. [kind |-> "apply", world |-> w, map |-> saved[w] + 1] \in Jobs
    BY <2>1 DEF Jobs
  <2>3. saved' \in [World -> 0..MaxSaves]
    BY <1>5, <2>1, HostAssumptions DEF SaveMap, HostTypeOK
  <2> QED BY <1>2, <1>5, <2>2, <2>3 DEF SaveMap, HostTypeOK
<1>6. ASSUME NEW c \in Client, Erase(c)
      PROVE  HostTypeOK' /\ StepsBelong'
  BY <1>6 DEF Erase, Deleted, HostTypeOK, StepsBelong, Job
<1> QED BY <1>1, <1>3, <1>4, <1>5, <1>6

WorldsInv == HostTypeOK /\ StepsBelong /\ RoutesTypeOK

\* The steps that are not the running job's.
Clients ==
  \/ \E c \in Client, w \in World : Hello(c, w)
  \/ \E c \in Client : Disconnect(c)
  \/ SweepTimer
  \/ \E w \in World : IdleTimePasses(w) \/ LeaseLost(w)
Requests ==
  \/ \E r \in Patch, c \in Client, w \in World, to \in Status : PatchReads(r, c, w, to)
  \/ \E r \in Patch : Answer(r)
  \/ \E w \in World : Delete(w) \/ SaveMap(w) \/ SaveScripts(w)
  \/ \E c \in Client : Erase(c)
Others == Clients \/ Requests \/ UNCHANGED vars

LEMMA StepKinds ==
  ASSUME [Next]_vars
  PROVE  \/ (ChainStep \/ Clients) /\ UNCHANGED routeVars
         \/ Requests
         \/ UNCHANGED vars
BY DEF Next, HostStep, Clients, Requests

LEMMA WorldsStep == WorldsInv /\ [Next]_vars => WorldsInv'
<1> SUFFICES ASSUME WorldsInv, [Next]_vars PROVE WorldsInv'
  OBVIOUS
<1>1. CASE HostStep /\ UNCHANGED routeVars
  BY <1>1, HostKeepsTypes DEF WorldsInv, routeVars, excused, RoutesTypeOK
<1>2. CASE UNCHANGED vars
  BY <1>2 DEF vars, hostVars, routeVars, excused, database, WorldsInv, HostTypeOK, StepsBelong, RoutesTypeOK, Job
<1> QED BY <1>1, <1>2, PatchKeepsTypes, WritesKeepTypes DEF Next, WorldsInv

\* A save is the only job that gives a running world a map.
Queues(job) ==
  /\ chain' = Append(chain, job)
  /\ job.kind = "apply" => \E w \in World : SaveMap(w)

\* The others queue a job behind the running one, or none.
LEMMA OthersQueue ==
  ASSUME WorldsInv, Others
  PROVE  /\ UNCHANGED step
         /\ UNCHANGED chain \/ \E job \in Jobs : Queues(job)
         /\ step # "turn" => chain' # <<>> /\ Job' = Job
<1>1. UNCHANGED step
  BY DEF Others, Clients, Requests, Hello, Disconnect, SweepTimer, IdleTimePasses, LeaseLost, PatchReads,
       Answer, PatchUpdates, PatchSyncs, PatchTells, Delete, SaveMap, SaveScripts, Erase, hostVars, vars
<1>2. UNCHANGED chain \/ \E job \in Jobs : Queues(job)
  <2>1. CASE \E c \in Client, w \in World : Hello(c, w)
    BY <2>1 DEF Hello, Queue, Queues, Jobs
  <2>2. CASE SweepTimer
    BY <2>2 DEF SweepTimer, Queues, Jobs
  <2>3. ASSUME NEW r \in Patch, PatchTells(r)
        PROVE  UNCHANGED chain \/ \E job \in Jobs : Queues(job)
    <3> DEFINE q == req[r]
               job == [kind |-> "changed", world |-> q.world, status |-> q.to]
    <3>1. q.world \in World /\ q.to \in Status
      BY <2>3, AtIsARequest, RequestIsKnown DEF PatchTells, WorldsInv
    <3>2. job \in Jobs
      BY <3>1 DEF Jobs
    <3> QED BY <2>3, <3>2 DEF PatchTells, Queues
  <2>4. ASSUME NEW w \in World, SaveMap(w)
        PROVE  \E job \in Jobs : Queues(job)
    <3>1. saved[w] + 1 \in 1..MaxSaves
      BY <2>4, HostAssumptions DEF SaveMap, WorldsInv, HostTypeOK
    <3>2. [kind |-> "apply", world |-> w, map |-> saved[w] + 1] \in Jobs
      BY <3>1 DEF Jobs
    <3> QED BY <2>4, <3>2 DEF SaveMap, Queue, Queues
  <2>5. ASSUME NEW w \in World, Delete(w) \/ SaveScripts(w)
        PROVE  \E job \in Jobs : Queues(job)
    <3>1. [kind |-> "remove", world |-> w] \in Jobs /\ [kind |-> "scripts", world |-> w] \in Jobs
      BY DEF Jobs
    <3> QED BY <2>5, <3>1 DEF Delete, SaveScripts, Queue, Queues
  <2>6. CASE \/ \E c \in Client : Disconnect(c)
             \/ \E w \in World : IdleTimePasses(w) \/ LeaseLost(w)
             \/ \E r \in Patch, c \in Client, w \in World, to \in Status : PatchReads(r, c, w, to)
             \/ \E r \in Patch : PatchUpdates(r) \/ PatchSyncs(r)
             \/ \E c \in Client : Erase(c)
             \/ UNCHANGED vars
    BY <2>6 DEF Disconnect, IdleTimePasses, LeaseLost, PatchReads, PatchUpdates, PatchSyncs, Erase, hostVars, vars
  <2> QED BY <2>1, <2>2, <2>3, <2>4, <2>5, <2>6 DEF Others, Clients, Requests, Answer
<1>3. step # "turn" => chain' # <<>> /\ Job' = Job
  BY <1>2, QueuedBehind DEF Queues, WorldsInv, StepsBelong, Job
<1> QED BY <1>1, <1>2, <1>3

LEMMA WorldsStart == Init => WorldsInv
BY HostInitHolds, RoutesInitHolds DEF Init, WorldsInv

\* Every variable of the worlds, their clients and the requests keeps its domain.
THEOREM WorldTypes == Spec => [](HostTypeOK /\ RoutesTypeOK)
BY WorldsStart, WorldsStep, PTL DEF Spec, WorldsInv

---------------------------------------------------------------------------
(* Creator worlds: the rooms in memory                                      *)

\* The world a hello is starting, and the one whose room it has just built.
Starting == IF step \in OpeningSteps \ {"check"} THEN {Job.world} ELSE {}
Built == IF step = "renew" THEN {Job.world} ELSE {}

\* The worlds that take a slot.
Taken == running \cup stopping \cup Starting

SlotsSuffice == IsFiniteSet(Taken) /\ Cardinality(Taken) <= MaxRunning
RoomsHaveSlots == rooms \subseteq running \cup stopping \cup Built
OneStops ==
  /\ step # "stop" => stopping = {}
  /\ step = "stop" => \E w \in World : stopping = {w} /\ w \notin running

\* A world that is being started is not running yet.
StartsOnce == running \cap Starting = {}

RoomsInv == SlotsSuffice /\ RoomsHaveSlots /\ OneStops /\ StartsOnce /\ due \subseteq running

LEMMA RoomsStart == HostInit => RoomsInv
<1> SUFFICES ASSUME HostInit PROVE RoomsInv
  OBVIOUS
<1>1. Taken = {} /\ Built = {} /\ Starting = {}
  BY DEF HostInit, Taken, Starting, Built, OpeningSteps
<1>2. SlotsSuffice
  BY <1>1, FS_EmptySet, HostAssumptions DEF SlotsSuffice
<1> QED BY <1>1, <1>2 DEF HostInit, RoomsInv, RoomsHaveSlots, OneStops, StartsOnce

LEMMA FewerSlots ==
  ASSUME SlotsSuffice, Taken' \subseteq Taken
  PROVE  SlotsSuffice'
<1>1. /\ IsFiniteSet(Taken') /\ Cardinality(Taken') <= Cardinality(Taken)
  BY FS_Subset DEF SlotsSuffice
<1>2. Cardinality(Taken) \in Nat /\ Cardinality(Taken') \in Nat
  BY <1>1, FS_CardinalityType DEF SlotsSuffice
<1> QED BY <1>1, <1>2, HostAssumptions DEF SlotsSuffice

\* Steps that queue a job, or none, and free rooms at most.
LEMMA RoomsStand ==
  ASSUME WorldsInv, RoomsInv, UNCHANGED <<running, stopping, step>>, rooms' \subseteq rooms,
         due' \subseteq running,
         UNCHANGED chain \/ \E job \in Jobs : chain' = Append(chain, job)
  PROVE  RoomsInv'
<1>1. step # "turn" => Job' = Job
  BY QueuedBehind DEF WorldsInv, StepsBelong, Job
<1>2. Starting' = Starting /\ Built' = Built
  BY <1>1 DEF Starting, Built, OpeningSteps
<1>3. Taken' = Taken
  BY <1>2 DEF Taken
<1> QED BY <1>2, <1>3, FewerSlots DEF RoomsInv, RoomsHaveSlots, OneStops, StartsOnce

LEMMA OpeningKeepsRooms ==
  ASSUME WorldsInv, RoomsInv,
         OpenWorld \/ CheckJoin \/ ReadMap \/ EnsurePlace \/ ClaimLease \/ BuildRoom \/ RunWorld
  PROVE  RoomsInv'
<1>1. /\ chain # <<>> /\ stopping = {} /\ stopping' = {} /\ Job.world \in World
  BY JobIsKnown DEF OpenWorld, CheckJoin, ReadMap, EnsurePlace, ClaimLease, BuildRoom, RunWorld, Now, Job,
       WorldsInv, RoomsInv, OneStops
<1>2. step' # "stop"
  BY DEF OpenWorld, CheckJoin, ReadMap, EnsurePlace, ClaimLease, BuildRoom, RunWorld, GoTo, Over, StartFails
<1>0. due' \subseteq running'
  BY DEF OpenWorld, CheckJoin, ReadMap, EnsurePlace, ClaimLease, BuildRoom, RunWorld, RoomsInv
<1> SUFFICES SlotsSuffice' /\ RoomsHaveSlots' /\ StartsOnce'
  BY <1>0, <1>1, <1>2 DEF RoomsInv, OneStops
<1>3. CASE OpenWorld
  <2>1. Starting' = {} /\ Starting = {} /\ Built = {} /\ Built' = {} /\ UNCHANGED <<running, rooms>>
    BY <1>3 DEF OpenWorld, Starting, Built, OpeningSteps, GoTo, Over, Now
  <2>2. Taken' \subseteq Taken
    BY <1>1, <2>1 DEF Taken
  <2> QED BY <1>1, <2>1, <2>2, FewerSlots DEF RoomsInv, RoomsHaveSlots, StartsOnce
<1>4. CASE CheckJoin
  <2>1. Starting = {} /\ Built = {} /\ Built' = {} /\ UNCHANGED <<running, rooms>>
    BY <1>4 DEF CheckJoin, Starting, Built, OpeningSteps, GoTo, Over, Now
  <2>2. CASE Over
    <3>1. Starting' = {}
      BY <2>2 DEF Over, Starting, OpeningSteps
    <3>2. Taken' \subseteq Taken
      BY <1>1, <2>1, <3>1 DEF Taken
    <3> QED BY <1>1, <2>1, <3>1, <3>2, FewerSlots DEF RoomsInv, RoomsHaveSlots, StartsOnce
  <2>3. CASE GoTo("map") /\ Job.world \notin running /\ HasSlot
    <3>1. Starting' = {Job.world}
      BY <2>3 DEF GoTo, Starting, OpeningSteps, Job
    <3>2. Taken = running /\ Taken' = running \cup {Job.world}
      BY <1>1, <2>1, <3>1 DEF Taken
    <3>3. IsFiniteSet(Taken') /\ Cardinality(Taken') = Cardinality(running) + 1
      BY <2>3, <3>2, FS_AddElement DEF RoomsInv, SlotsSuffice
    <3>4. Cardinality(running) \in Nat
      BY <3>2, FS_CardinalityType DEF RoomsInv, SlotsSuffice
    <3>5. SlotsSuffice'
      BY <2>3, <3>3, <3>4, HostAssumptions DEF SlotsSuffice, HasSlot
    <3> QED BY <1>1, <2>1, <2>3, <3>1, <3>5 DEF RoomsInv, RoomsHaveSlots, StartsOnce
  <2> QED BY <1>4, <2>2, <2>3 DEF CheckJoin
<1>5. CASE ReadMap \/ EnsurePlace \/ ClaimLease
  <2>1. Starting = {Job.world} /\ Built = {} /\ UNCHANGED <<running, rooms>>
    BY <1>5 DEF ReadMap, EnsurePlace, ClaimLease, Now, Starting, Built, OpeningSteps
  <2>2. Starting' \subseteq Starting /\ Built' = {}
    BY <1>5, <2>1 DEF ReadMap, EnsurePlace, ClaimLease, StartFails, Over, GoTo, Starting, Built, OpeningSteps, Job
  <2>3. Taken' \subseteq Taken
    BY <1>1, <2>1, <2>2 DEF Taken
  <2> QED BY <1>1, <2>1, <2>2, <2>3, FewerSlots DEF RoomsInv, RoomsHaveSlots, StartsOnce
<1>6. CASE BuildRoom
  <2>1. Starting = {Job.world} /\ Built = {} /\ UNCHANGED running
    BY <1>6 DEF BuildRoom, Now, Starting, Built, OpeningSteps
  <2>2. \/ Starting' = {Job.world} /\ Built' = {Job.world} /\ rooms' = rooms \cup {Job.world}
        \/ Starting' = {} /\ Built' = {} /\ rooms' = rooms
    BY <1>6 DEF BuildRoom, StartFails, Over, GoTo, Starting, Built, OpeningSteps, Job
  <2>3. Taken' \subseteq Taken
    BY <1>1, <2>1, <2>2 DEF Taken
  <2> QED BY <1>1, <2>1, <2>2, <2>3, FewerSlots DEF RoomsInv, RoomsHaveSlots, StartsOnce
<1>7. CASE RunWorld
  <2>1. Starting = {Job.world} /\ Built = {Job.world} /\ Starting' = {} /\ Built' = {}
    BY <1>7 DEF RunWorld, StartFails, Now, Over, Starting, Built, OpeningSteps
  <2>2. \/ running' = running \cup {Job.world} /\ rooms' = rooms
        \/ running' = running /\ rooms' = rooms \ {Job.world}
    BY <1>7 DEF RunWorld
  <2>3. Taken' \subseteq Taken
    BY <1>1, <2>1, <2>2 DEF Taken
  <2> QED BY <1>1, <2>1, <2>2, <2>3, FewerSlots DEF RoomsInv, RoomsHaveSlots, StartsOnce
<1> QED BY <1>3, <1>4, <1>5, <1>6, <1>7

\* A world that stops gives its slot up only when its room is gone.
LEMMA StopBeginsKeepsRooms ==
  ASSUME WorldsInv, RoomsInv, NEW w \in running, StopBegins(w), step = "turn", UNCHANGED rooms
  PROVE  RoomsInv'
<1>1. /\ w \in World /\ running' = running \ {w} /\ stopping' = {w} /\ step' = "stop" /\ stopping = {}
      /\ due' \subseteq running'
  BY DEF StopBegins, GoTo, RoomsInv, OneStops, WorldsInv, HostTypeOK
<1>2. Starting' = {} /\ Built' = {} /\ Built = {}
  BY <1>1 DEF Starting, Built, OpeningSteps
<1>3. Taken' \subseteq Taken
  BY <1>1, <1>2 DEF Taken
<1> QED BY <1>1, <1>2, <1>3, FewerSlots DEF RoomsInv, RoomsHaveSlots, OneStops, StartsOnce

LEMMA StoppingKeepsRooms ==
  ASSUME WorldsInv, RoomsInv,
         StopEnds \/ Sweep \/ WorldChanged \/ RemoveBegins \/ Remove \/ ApplyMap
  PROVE  RoomsInv'
<1>1. Starting = {} /\ Built = {} /\ chain # <<>>
  BY DEF StopEnds, Sweep, WorldChanged, RemoveBegins, Remove, ApplyMap, Now, Starting, Built, OpeningSteps
<1>2. CASE StopEnds
  <2>1. PICK w \in World : stopping = {w} /\ w \notin running
    BY <1>2 DEF StopEnds, RoomsInv, OneStops
  <2>2. rooms' = rooms \ {w} /\ stopping' = {} /\ UNCHANGED <<running, due>>
    BY <1>2, <2>1 DEF StopEnds
  <2>3. step' \in {"turn", "delete"}
    BY <1>2 DEF StopEnds, GoTo, Over
  <2>4. Starting' = {} /\ Built' = {}
    BY <2>3 DEF Starting, Built, OpeningSteps
  <2>5. Taken' \subseteq Taken
    BY <2>2, <2>4 DEF Taken
  <2> QED BY <1>1, <2>1, <2>2, <2>3, <2>4, <2>5, FewerSlots DEF RoomsInv, RoomsHaveSlots, OneStops, StartsOnce
<1>3. CASE \E w \in running : StopBegins(w) /\ step = "turn" /\ UNCHANGED rooms
  BY <1>3, StopBeginsKeepsRooms
<1>4. CASE due' \subseteq due /\ UNCHANGED <<rooms, running, stopping>> /\ step \in {"turn", "delete"} /\ step' \in {"turn", "delete"}
  <2>1. Starting' = {} /\ Built' = {}
    BY <1>4 DEF Starting, Built, OpeningSteps
  <2>2. Taken' \subseteq Taken
    BY <1>4, <2>1 DEF Taken
  <2> QED BY <1>1, <1>4, <2>1, <2>2, FewerSlots DEF RoomsInv, RoomsHaveSlots, OneStops, StartsOnce
<1>5. CASE Sweep
  <2>1. IdleWorlds \subseteq running
    BY DEF IdleWorlds, RoomsInv
  <2> QED BY <1>3, <1>4, <1>5, <2>1 DEF Sweep, Over, Now
<1>6. CASE WorldChanged \/ RemoveBegins
  BY <1>3, <1>4, <1>6 DEF WorldChanged, RemoveBegins, GoTo, Over, Now
<1>7. CASE Remove \/ ApplyMap
  BY <1>4, <1>7 DEF Remove, ApplyMap, Over, Now
<1> QED BY <1>2, <1>5, <1>6, <1>7

LEMMA RoomsStep == WorldsInv /\ RoomsInv /\ [Next]_vars => RoomsInv'
<1> SUFFICES ASSUME WorldsInv, RoomsInv, [Next]_vars PROVE RoomsInv'
  OBVIOUS
<1>1. CASE ChainStep
  BY <1>1, OpeningKeepsRooms, StoppingKeepsRooms DEF ChainStep
<1>2. CASE Others
  <2>1. UNCHANGED <<running, stopping>> /\ rooms' \subseteq rooms /\ due' \subseteq running
    BY <1>2 DEF Others, Clients, Requests, Hello, Disconnect, SweepTimer, IdleTimePasses, LeaseLost,
         PatchReads, Answer, PatchUpdates, PatchSyncs, PatchTells, Delete, SaveMap, SaveScripts, Erase,
         hostVars, vars, RoomsInv
  <2> QED BY <1>2, <2>1, OthersQueue, RoomsStand DEF Queues
<1> QED BY <1>1, <1>2, StepKinds DEF Others

\* However creator worlds are opened, closed and swept, rooms in memory stay within
\* GAMES_CREATOR_WORLDS_MAX (worldHost.ts open and stop): a world gives its slot up only
\* when its hub has shut down, because nothing else runs in the chain meanwhile.
THEOREM RoomsFit == Spec => []RoomsWithinLimit
<1>1. ASSUME WorldsInv, RoomsInv
      PROVE  RoomsWithinLimit
  <2>1. rooms \subseteq Taken
    BY <1>1 DEF RoomsInv, RoomsHaveSlots, Taken, Built, Starting, OpeningSteps
  <2>2. Cardinality(rooms) <= Cardinality(Taken) /\ IsFiniteSet(rooms)
    BY <1>1, <2>1, FS_Subset DEF RoomsInv, SlotsSuffice
  <2>3. Cardinality(Taken) \in Nat /\ Cardinality(rooms) \in Nat
    BY <1>1, <2>2, FS_CardinalityType DEF RoomsInv, SlotsSuffice
  <2> QED BY <1>1, <2>2, <2>3, HostAssumptions DEF RoomsInv, SlotsSuffice, RoomsWithinLimit
<1>2. Init => WorldsInv /\ RoomsInv
  BY WorldsStart, RoomsStart DEF Init
<1>3. WorldsInv /\ RoomsInv /\ [Next]_vars => (WorldsInv /\ RoomsInv)'
  BY WorldsStep, RoomsStep
<1> QED BY <1>1, <1>2, <1>3, PTL DEF Spec

---------------------------------------------------------------------------
(* Creator worlds: what is left of a removed one                            *)

\* Only an opening erased just before it writes the place's row leaves that row of a removed
\* world, and a lease has its room or a room that is about to be built.
NoRowsOfTheGone == \A w \in World : status[w] = "gone" /\ w \in places \cup leased => w \in torn
OpeningsOfTheGone == step \in {"place", "build"} /\ status[Job.world] = "gone" => Job.world \in torn
LeasesHaveRooms == \A w \in leased : w \in rooms \/ (step = "build" /\ Job.world = w)

RowsInv == NoRowsOfTheGone /\ OpeningsOfTheGone /\ LeasesHaveRooms

LEMMA RowsStart == HostInit => RowsInv
BY DEF HostInit, RowsInv, NoRowsOfTheGone, OpeningsOfTheGone, LeasesHaveRooms

LEMMA ChainKeepsRows ==
  ASSUME WorldsInv, RowsInv, ChainStep, UNCHANGED routeVars
  PROVE  RowsInv'
<1> USE DEF RowsInv, NoRowsOfTheGone, OpeningsOfTheGone, LeasesHaveRooms
<1>1. UNCHANGED torn
  BY DEF routeVars, excused
<1>2. CASE OpenWorld \/ CheckJoin \/ ReadMap
  <2>1. UNCHANGED <<status, places, leased, rooms>> /\ step # "build" /\ step' # "build"
    BY <1>2 DEF OpenWorld, CheckJoin, ReadMap, Now, GoTo, Over, database
  <2>2. step' = "place" => status'[Job'.world] # "gone"
    BY <1>2 DEF OpenWorld, CheckJoin, ReadMap, Now, GoTo, Over, Job, database
  <2> QED BY <1>1, <2>1, <2>2
<1>3. CASE EnsurePlace
  BY <1>1, <1>3 DEF EnsurePlace, Now, GoTo
<1>4. CASE ClaimLease
  <2>1. UNCHANGED <<status, places, rooms>> /\ step = "claim" /\ Job.world \in World
    BY <1>4, JobIsKnown DEF ClaimLease, Now, Job, WorldsInv
  <2>2. CASE UNCHANGED leased /\ step' = "turn"
    BY <1>1, <2>1, <2>2
  <2>3. CASE Job.world \in places /\ leased' = leased \cup {Job.world} /\ step' = "build" /\ Job' = Job
    BY <1>1, <2>1, <2>3
  <2>4. \/ UNCHANGED leased /\ Over
        \/ Job.world \in places /\ leased' = leased \cup {Job.world} /\ GoTo("build")
    BY <1>4 DEF ClaimLease, StartFails
  <2> QED BY <2>2, <2>3, <2>4 DEF Over, GoTo, Job
<1>5. CASE BuildRoom
  <2>1. UNCHANGED status /\ step = "build" /\ places' = places \cup {Job.world} /\ step' \notin {"place", "build"}
    BY <1>5 DEF BuildRoom, Now, StartFails, Over, GoTo
  <2>2. \/ rooms' = rooms \cup {Job.world} /\ UNCHANGED leased
        \/ leased' = leased \ {Job.world} /\ UNCHANGED rooms
    BY <1>5 DEF BuildRoom
  <2> QED BY <1>1, <2>1, <2>2
<1>6. CASE RunWorld
  BY <1>1, <1>6 DEF RunWorld, StartFails, Over, Now, database
<1>7. CASE StopEnds
  BY <1>1, <1>7 DEF StopEnds, GoTo, Over
<1>8. CASE Remove
  BY <1>1, <1>8 DEF Remove, Deleted, Over, Now
<1>9. CASE Sweep \/ WorldChanged \/ RemoveBegins \/ ApplyMap
  <2>1. UNCHANGED <<status, places, leased, rooms>> /\ step # "build" /\ step' \notin {"place", "build"}
    BY <1>9 DEF Sweep, WorldChanged, RemoveBegins, ApplyMap, StopBegins, Now, GoTo, Over, database
  <2> QED BY <1>1, <2>1
<1> QED BY <1>2, <1>3, <1>4, <1>5, <1>6, <1>7, <1>8, <1>9 DEF ChainStep

LEMMA OthersKeepRows ==
  ASSUME WorldsInv, RowsInv, (Clients /\ UNCHANGED routeVars) \/ Requests \/ UNCHANGED vars
  PROVE  RowsInv'
<1> USE DEF RowsInv, NoRowsOfTheGone, OpeningsOfTheGone, LeasesHaveRooms
<1>1. UNCHANGED step /\ (step # "turn" => Job' = Job)
  BY OthersQueue DEF Others
<1>2. step \in {"place", "build"} => Job.world \in World /\ Opening(Job.world)
  BY JobIsKnown DEF WorldsInv, StepsBelong, Opening, OpeningSteps
<1>3. CASE UNCHANGED <<status, places, leased, rooms, torn>>
  BY <1>1, <1>3
<1>4. ASSUME NEW r \in Patch, PatchUpdates(r)
      PROVE  RowsInv'
  <2>1. req[r].world \in World /\ req[r].to # "gone"
    BY <1>4, AtIsARequest, RequestIsKnown DEF PatchUpdates, WorldsInv, Status
  <2>2. /\ UNCHANGED <<places, leased, rooms, torn>>
        /\ \A w \in World : status'[w] = "gone" <=> status[w] = "gone"
    BY <1>4, <2>1 DEF PatchUpdates, WorldsInv, HostTypeOK
  <2> QED BY <1>1, <1>2, <2>2
<1>5. ASSUME NEW c \in Client, Erase(c)
      PROVE  RowsInv'
  <2> DEFINE theirs == {w \in World : OwnerOf[w] = c /\ status[w] # "gone"}
  <2>1. /\ places' = places \ theirs /\ leased' = leased \ theirs /\ UNCHANGED rooms
        /\ \A w \in World : status'[w] = IF w \in theirs THEN "gone" ELSE status[w]
        /\ torn' = torn \cup {w \in theirs : Opening(w) /\ step \in {"place", "build"}}
    BY <1>5 DEF Erase, Deleted
  <2>2. NoRowsOfTheGone'
    BY <2>1
  <2>3. OpeningsOfTheGone'
    BY <1>1, <1>2, <2>1
  <2>4. LeasesHaveRooms'
    BY <1>1, <2>1
  <2> QED BY <2>2, <2>3, <2>4
<1>6. ASSUME NEW v \in World, LeaseLost(v), UNCHANGED routeVars
      PROVE  RowsInv'
  BY <1>1, <1>6 DEF LeaseLost, database, routeVars, excused
<1>7. \/ UNCHANGED <<status, places, leased, rooms, torn>>
      \/ (\E r \in Patch : PatchUpdates(r)) \/ (\E c \in Client : Erase(c)) \/ (\E v \in World : LeaseLost(v) /\ UNCHANGED routeVars)
  BY DEF Clients, Requests, Hello, Disconnect, SweepTimer, IdleTimePasses, PatchReads,
       Answer, PatchSyncs, PatchTells, Delete, SaveMap, SaveScripts, hostVars, routeVars, excused, vars, database
<1> QED BY <1>3, <1>4, <1>5, <1>6, <1>7

\* A removed world leaves no row of its place and no lease behind (creatorWorlds.ts
\* removeWorldPlaces): the deletion waits for its turn in the chain, so no opening is between
\* its steps; an erasure does not wait, and leaves a row only from just before an opening
\* writes it.
THEOREM NothingIsLeft == Spec => []RemovedWorldsLeaveNothing
<1>1. WorldsInv /\ RowsInv => RemovedWorldsLeaveNothing
  <2> SUFFICES ASSUME WorldsInv, RowsInv, NEW w \in World, status[w] = "gone", ~Opening(w)
               PROVE  (w \in leased => w \in rooms) /\ (w \in places \cup leased => w \in torn)
    BY DEF RemovedWorldsLeaveNothing
  <2>1. w \in leased /\ w \notin rooms => step = "build" /\ Job.world = w
    BY DEF RowsInv, LeasesHaveRooms
  <2>2. step = "build" => chain # <<>> /\ Job.kind = "hello"
    BY DEF WorldsInv, StepsBelong, OpeningSteps
  <2> QED BY <2>1, <2>2 DEF RowsInv, NoRowsOfTheGone, Opening
<1>2. Init => WorldsInv /\ RowsInv
  BY WorldsStart, RowsStart DEF Init
<1>3. WorldsInv /\ RowsInv /\ [Next]_vars => (WorldsInv /\ RowsInv)'
  BY WorldsStep, ChainKeepsRows, OthersKeepRows, StepKinds
<1> QED BY <1>1, <1>2, <1>3, PTL DEF Spec

---------------------------------------------------------------------------
(* Creator worlds: a status and what follows it, where no two requests have *)
(* crossed                                                                  *)

\* A world with an event has its date, and its next event would need it to have none.
PatchInv == \A w \in World \ crossed : published[w] \in {0, 1} /\ (w \notin dated => published[w] = 0)

\* A request that has changed the status and will say so, and has yet to write the share row.
Behind(r, w) == At(r, "updated") /\ req[r].world = w /\ req[r].tells /\ (w \in shared => req[r].to # "published")

\* The share row is behind the status only between the update and the sync of such a request.
ShareInv == \A w \in InOrder :
  \/ status[w] = "gone"
  \/ w \in shared <=> status[w] = "published"
  \/ \E r \in Patch : Behind(r, w)

LEMMA PatchStart == Init => PatchInv /\ ShareInv
BY DEF Init, HostInit, RoutesInit, PatchInv, ShareInv, InOrder

\* All other steps leave requests and share rows alone and change a status only when they
\* remove the world.
StatusStands ==
  /\ UNCHANGED <<may, req, dated, published, crossed, unsynced, shared>>
  /\ \A w \in World : status'[w] \in {status[w], "gone"}

LEMMA StepsOfAStatus ==
  ASSUME WorldsInv, [Next]_vars
  PROVE  \/ StatusStands
         \/ \E r \in Patch, c \in Client, w \in World, to \in Status : PatchReads(r, c, w, to)
         \/ \E r \in Patch : Answer(r)
<1>1. ASSUME UNCHANGED routeVars, ChainStep \/ Clients \/ UNCHANGED vars
      PROVE  StatusStands
  <2>1. UNCHANGED <<status, shared>> \/ (Remove /\ UNCHANGED shared)
    BY <1>1 DEF ChainStep, Clients, OpenWorld, CheckJoin, ReadMap, EnsurePlace, ClaimLease, BuildRoom, RunWorld,
         StopEnds, Sweep, WorldChanged, RemoveBegins, Remove, Deleted, ApplyMap, Hello, Disconnect, SweepTimer,
         IdleTimePasses, LeaseLost, vars, hostVars, database
  <2> QED BY <1>1, <2>1 DEF StatusStands, Remove, Deleted, routeVars, excused
<1>2. ASSUME NEW w \in World, Delete(w) \/ SaveMap(w) \/ SaveScripts(w)
      PROVE  StatusStands
  BY <1>2 DEF Delete, SaveMap, SaveScripts, StatusStands, database, routeVars, excused
<1>3. ASSUME NEW c \in Client, Erase(c)
      PROVE  StatusStands
  BY <1>3 DEF Erase, Deleted, StatusStands
<1>4. UNCHANGED vars => UNCHANGED routeVars
  BY DEF vars
<1> QED BY <1>1, <1>2, <1>3, <1>4, StepKinds DEF Requests

\* The other requests stay as they are, and no world comes back in order.
LEMMA OneRequest ==
  ASSUME WorldsInv, NEW r \in Patch, Answer(r)
  PROVE  /\ \A s \in Patch \ {r} : req'[s] = req[s]
         /\ crossed \subseteq crossed' /\ unsynced \subseteq unsynced'
         /\ req[r] # NoRequest /\ req[r].world \in World /\ req[r].to \in Status
<1>1. \A s \in Patch \ {r} : req'[s] = req[s]
  BY DEF Answer, PatchUpdates, PatchSyncs, PatchTells, WorldsInv, RoutesTypeOK
<1>2. crossed \subseteq crossed' /\ unsynced \subseteq unsynced'
  BY DEF Answer, PatchUpdates, PatchSyncs, PatchTells, excused
<1>3. req[r] # NoRequest /\ req[r].world \in World /\ req[r].to \in Status
  BY AtIsARequest, RequestIsKnown DEF Answer, PatchUpdates, PatchSyncs, PatchTells, WorldsInv
<1> QED BY <1>1, <1>2, <1>3

LEMMA OrderOnlyShrinks ==
  ASSUME WorldsInv, [Next]_vars
  PROVE  InOrder' \subseteq InOrder /\ World \ crossed' \subseteq World \ crossed
<1>1. crossed \subseteq crossed' /\ unsynced \subseteq unsynced'
  BY StepsOfAStatus, OneRequest DEF StatusStands, PatchReads, excused
<1> QED BY <1>1 DEF InOrder

\* An update that takes its turn: what the request has read still holds.
LEMMA UpdateInTurn ==
  ASSUME WorldsInv, NEW r \in Patch, PatchUpdates(r), req[r].world \notin crossed', status[req[r].world] # "gone"
  PROVE  LET q == req[r] IN
         /\ status[q.world] = q.from /\ (q.dated <=> q.world \in dated)
         /\ status'[q.world] = q.to /\ \A w \in World \ {q.world} : status'[w] = status[w]
         /\ dated' = IF q.to = "published" THEN dated \cup {q.world} ELSE dated
         /\ published'[q.world] = IF FirstPublication(q) THEN published[q.world] + 1 ELSE published[q.world]
         /\ \A w \in World \ {q.world} : published'[w] = published[w]
         /\ req'[r].stage = "updated" /\ req'[r].world = q.world /\ req'[r].to = q.to
         /\ req'[r].tells <=> q.to # q.from
<1> DEFINE q == req[r]
<1>1. q.world \in World /\ q.dated \in BOOLEAN /\ At(r, "read")
  BY AtIsARequest, RequestIsKnown DEF PatchUpdates, WorldsInv
<1>2. /\ status' = [status EXCEPT ![q.world] = q.to]
      /\ dated' = IF q.to = "published" THEN dated \cup {q.world} ELSE dated
      /\ published' = [published EXCEPT ![q.world] = IF FirstPublication(q) THEN @ + 1 ELSE @]
      /\ req' = [req EXCEPT ![r] = [stage |-> "updated", world |-> q.world, to |-> q.to, tells |-> q.to # q.from]]
      /\ crossed' = IF Overtaken(q) THEN crossed \cup {q.world} ELSE crossed
  BY DEF PatchUpdates
<1>3. ~Overtaken(q)
  BY <1>2
<1>4. status[q.world] = q.from /\ (q.dated <=> q.world \in dated)
  <2>1. status[q.world] = q.from /\ (q.world \in dated) = q.dated
    BY <1>3 DEF Overtaken
  <2>2. CASE q.world \in dated
    BY <2>1, <2>2
  <2>3. CASE q.world \notin dated
    BY <2>1, <2>3
  <2> QED BY <2>1, <2>2, <2>3
<1>5. status'[q.world] = q.to /\ \A w \in World \ {q.world} : status'[w] = status[w]
  BY <1>1, <1>2 DEF WorldsInv, HostTypeOK
<1>6. /\ published'[q.world] = IF FirstPublication(q) THEN published[q.world] + 1 ELSE published[q.world]
      /\ \A w \in World \ {q.world} : published'[w] = published[w]
  BY <1>1, <1>2 DEF WorldsInv, RoutesTypeOK
<1>7. req'[r] = [stage |-> "updated", world |-> q.world, to |-> q.to, tells |-> q.to # q.from]
  BY <1>2 DEF WorldsInv, RoutesTypeOK
<1>8. req'[r].stage = "updated" /\ req'[r].world = q.world /\ req'[r].to = q.to /\ (req'[r].tells <=> q.to # q.from)
  <2>1. req'[r].stage = "updated" /\ req'[r].world = q.world /\ req'[r].to = q.to /\ req'[r].tells = (q.to # q.from)
    BY <1>7
  <2>2. CASE q.to # q.from
    BY <2>1, <2>2
  <2>3. CASE q.to = q.from
    BY <2>1, <2>3
  <2> QED BY <2>1, <2>2, <2>3
<1> QED BY <1>2, <1>4, <1>5, <1>6, <1>8

LEMMA PatchStep ==
  ASSUME WorldsInv, PatchInv, [Next]_vars
  PROVE  PatchInv'
<1>1. CASE UNCHANGED <<dated, published>>
  BY <1>1, OrderOnlyShrinks DEF PatchInv
<1>2. ASSUME NEW r \in Patch, PatchUpdates(r), ~UNCHANGED <<dated, published>>
      PROVE  PatchInv'
  <2> DEFINE q == req[r]
  <2>1. q.world \in World /\ status[q.world] # "gone"
    BY <1>2, OneRequest DEF Answer, PatchUpdates
  <2> SUFFICES ASSUME NEW w \in World \ crossed'
               PROVE  published'[w] \in {0, 1} /\ (w \notin dated' => published'[w] = 0)
    BY DEF PatchInv
  <2>2. published[w] \in {0, 1} /\ (w \notin dated => published[w] = 0)
    BY OrderOnlyShrinks DEF PatchInv
  <2>3. CASE w = q.world
    <3>1. FirstPublication(q) => w \notin dated /\ w \in dated'
      BY <1>2, <2>1, <2>3, UpdateInTurn DEF FirstPublication
    <3>2. /\ published'[w] = IF FirstPublication(q) THEN published[w] + 1 ELSE published[w]
          /\ dated \subseteq dated'
      BY <1>2, <2>1, <2>3, UpdateInTurn
    <3> QED BY <2>2, <3>1, <3>2
  <2>4. CASE w # q.world
    <3>1. published'[w] = published[w] /\ dated \subseteq dated'
      BY <1>2, <2>1, <2>4 DEF PatchUpdates, WorldsInv, RoutesTypeOK
    <3> QED BY <2>2, <3>1
  <2> QED BY <2>3, <2>4
<1> QED BY <1>1, <1>2, StepsOfAStatus DEF StatusStands, PatchReads, Answer, PatchSyncs, PatchTells

LEMMA ShareStep ==
  ASSUME WorldsInv, ShareInv, [Next]_vars
  PROVE  ShareInv'
<1> SUFFICES ASSUME NEW w \in InOrder', status'[w] # "gone", ~(w \in shared' <=> status'[w] = "published")
             PROVE  \E r \in Patch : Behind(r, w)'
  BY DEF ShareInv
<1>1. w \in InOrder /\ w \in World /\ w \notin crossed' /\ w \notin unsynced'
  BY OrderOnlyShrinks DEF InOrder
<1>2. ASSUME status'[w] = status[w], w \in shared' <=> w \in shared,
             \A s \in Patch : At(s, "updated") /\ req[s].world = w => req'[s] = req[s]
      PROVE  \E r \in Patch : Behind(r, w)'
  <2>1. PICK s \in Patch : Behind(s, w)
    BY <1>1, <1>2 DEF ShareInv
  <2>2. Behind(s, w)'
    BY <1>2, <2>1 DEF Behind, At
  <2> QED BY <2>2
<1>3. CASE StatusStands
  BY <1>1, <1>2, <1>3 DEF StatusStands
<1>4. ASSUME NEW r \in Patch, NEW c \in Client, NEW v \in World, NEW to \in Status, PatchReads(r, c, v, to)
      PROVE  \E s \in Patch : Behind(s, w)'
  <2>1. ~At(r, "updated") /\ \A s \in Patch \ {r} : req'[s] = req[s]
    BY <1>4, AtIsARequest DEF PatchReads, WorldsInv, RoutesTypeOK
  <2> QED BY <1>2, <1>4, <2>1 DEF PatchReads, hostVars, database
<1>5. ASSUME NEW r \in Patch, PatchUpdates(r)
      PROVE  \E s \in Patch : Behind(s, w)'
  <2> DEFINE q == req[r]
  <2>1. ~At(r, "updated") /\ UNCHANGED shared /\ \A s \in Patch \ {r} : req'[s] = req[s]
    BY <1>5, OneRequest DEF PatchUpdates, At, Answer
  <2>2. CASE status'[w] = status[w]
    BY <1>2, <2>1, <2>2
  <2>3. CASE status'[w] # status[w]
    <3>1. q.world = w /\ status[w] # "gone"
      BY <1>1, <1>5, <2>3 DEF PatchUpdates, WorldsInv, HostTypeOK
    <3>2. /\ req'[r].stage = "updated" /\ req'[r].world = w /\ req'[r].to = status'[w] /\ req'[r].tells
      BY <1>1, <1>5, <2>3, <3>1, UpdateInTurn
    <3> QED BY <3>2 DEF Behind, At
  <2> QED BY <2>2, <2>3
<1>6. ASSUME NEW r \in Patch, PatchSyncs(r)
      PROVE  \E s \in Patch : Behind(s, w)'
  <2> DEFINE q == req[r]
  <2>1. UNCHANGED status /\ \A s \in Patch \ {r} : req'[s] = req[s]
    BY <1>6, OneRequest DEF PatchSyncs, Answer
  <2>2. CASE q.world = w
    <3>1. shared' = Synced(q) /\ status[w] = q.to
      BY <1>1, <1>6, <2>1, <2>2 DEF PatchSyncs
    <3> QED BY <2>1, <2>2, <3>1 DEF Synced
  <2>3. CASE q.world # w
    <3>1. w \in shared' <=> w \in shared
      BY <1>6, <2>3 DEF PatchSyncs, Synced
    <3> QED BY <1>2, <2>1, <2>3, <3>1
  <2> QED BY <2>2, <2>3
<1>7. ASSUME NEW r \in Patch, PatchTells(r)
      PROVE  \E s \in Patch : Behind(s, w)'
  <2>1. ~At(r, "updated") /\ UNCHANGED <<status, shared>> /\ \A s \in Patch \ {r} : req'[s] = req[s]
    BY <1>7, OneRequest DEF PatchTells, At, Answer, database
  <2> QED BY <1>2, <2>1
<1> QED BY <1>3, <1>4, <1>5, <1>6, <1>7, StepsOfAStatus DEF Answer

\* games.world.published is sent once in the life of a world whose requests have found the row
\* as they had read it (worldRoutes.ts PATCH): the date that decides it is the row's.
THEOREM PublishedOnce == Spec => []FirstPublicationOnce
<1>1. PatchInv => FirstPublicationOnce
  BY DEF PatchInv, FirstPublicationOnce
<1>2. Init => WorldsInv /\ PatchInv
  BY WorldsStart, PatchStart
<1>3. WorldsInv /\ PatchInv /\ [Next]_vars => (WorldsInv /\ PatchInv)'
  BY WorldsStep, PatchStep
<1> QED BY <1>1, <1>2, <1>3, PTL DEF Spec

\* Where no requests have crossed and no write of the share row has failed, the row is public
\* exactly for a published world whenever no change of its status is at work (sharing.ts
\* syncFromStatus).
THEOREM ShareIsRight == Spec => []ShareFollowsStatus
<1>1. WorldsInv /\ ShareInv => ShareFollowsStatus
  BY AtIsARequest DEF ShareInv, Behind, ShareFollowsStatus, AtWork
<1>2. Init => WorldsInv /\ ShareInv
  BY WorldsStart, PatchStart
<1>3. WorldsInv /\ ShareInv /\ [Next]_vars => (WorldsInv /\ ShareInv)'
  BY WorldsStep, ShareStep
<1> QED BY <1>1, <1>2, <1>3, PTL DEF Spec

---------------------------------------------------------------------------
(* Creator worlds: the map a running world has                              *)

\* The places in the chain of the saves of a world, and the world whose map is loaded.
Applies(w) == {i \in 1..Len(chain) : chain[i].kind = "apply" /\ chain[i].world = w}
Loaded == IF step \in {"place", "claim", "build", "renew"} THEN {Job.world} ELSE {}

\* The last save in the chain is the stored one, and without a save in the chain the map
\* of a loaded or running world is.
LastIsStored == \A w \in World : \A i \in Applies(w) :
  (\A j \in Applies(w) : j <= i) => chain[i].map = saved[w]
MapsFollow == \A w \in running \cup Loaded : override[w] = saved[w] \/ Applies(w) # {}

MapsInv == LastIsStored /\ MapsFollow

LEMMA MapsStart == HostInit => MapsInv
BY DEF HostInit, MapsInv, LastIsStored, MapsFollow, Applies, Loaded

\* A job queued behind the chain.
LEMMA AppliesQueued ==
  ASSUME HostTypeOK, NEW job \in Jobs, chain' = Append(chain, job), NEW w \in World
  PROVE  /\ Len(chain) \in Nat
         /\ Applies(w) \subseteq 1..Len(chain)
         /\ Applies(w)' = IF job.kind = "apply" /\ job.world = w THEN Applies(w) \cup {Len(chain) + 1} ELSE Applies(w)
         /\ \A i \in 1..Len(chain) : chain'[i] = chain[i]
         /\ chain'[Len(chain) + 1] = job
<1>1. chain \in Seq(Jobs) /\ Len(chain) \in Nat
  BY LenProperties DEF HostTypeOK
<1>2. /\ Len(chain') = Len(chain) + 1
      /\ \A i \in 1..Len(chain) : chain'[i] = chain[i]
      /\ chain'[Len(chain) + 1] = job
  BY <1>1, AppendProperties
<1> QED BY <1>1, <1>2 DEF Applies

\* The running job ends.
LEMMA AppliesEnded ==
  ASSUME HostTypeOK, chain # <<>>, Over, NEW w \in World
  PROVE  /\ \A i \in Applies(w) : i \in Nat /\ i >= 1
         /\ \A i \in Applies(w) \ {1} : i - 1 \in Applies(w)'
         /\ \A i \in Applies(w)' : i + 1 \in Applies(w) /\ chain'[i] = chain[i + 1] /\ i \in Nat /\ i >= 1
         /\ 1 \in Applies(w) <=> Job.kind = "apply" /\ Job.world = w
         /\ chain[1] = Job
<1>1. chain \in Seq(Jobs) /\ Len(chain) \in Nat /\ Len(chain) >= 1
  BY EmptySeq, LenProperties DEF HostTypeOK
<1>2. /\ Len(chain') = Len(chain) - 1
      /\ \A i \in 1..Len(chain') : chain'[i] = chain[i + 1]
  BY <1>1, HeadTailProperties DEF Over
<1>3. chain[1] = Job
  BY <1>1 DEF Job
<1> QED BY <1>1, <1>2, <1>3 DEF Applies

\* Steps that leave chain, maps and loaded worlds alone, but for worlds that stop running.
LEMMA MapsStand ==
  ASSUME MapsInv, UNCHANGED <<chain, saved>>, running' \cup Loaded' \subseteq running \cup Loaded,
         \A w \in running' \cup Loaded' : override'[w] = override[w]
  PROVE  MapsInv'
BY DEF MapsInv, LastIsStored, MapsFollow, Applies

\* A job ends that is no save.
LEMMA MapsStandAtTheEnd ==
  ASSUME WorldsInv, MapsInv, chain # <<>>, Over, Job.kind # "apply", UNCHANGED saved,
         running' \cup Loaded' \subseteq running \cup Loaded, running' \cup Loaded' \subseteq World,
         \A w \in running' \cup Loaded' : override'[w] = override[w]
  PROVE  MapsInv'
<1>1. \A w \in World :
        /\ \A i \in Applies(w) : i \in Nat /\ i >= 1 /\ i # 1 /\ i - 1 \in Applies(w)'
        /\ \A i \in Applies(w)' : i + 1 \in Applies(w) /\ chain'[i] = chain[i + 1] /\ i \in Nat
  BY AppliesEnded DEF WorldsInv
<1>2. LastIsStored'
  <2> SUFFICES ASSUME NEW w \in World, NEW i \in Applies(w)', \A j \in Applies(w)' : j <= i
               PROVE  chain'[i].map = saved'[w]
    BY DEF LastIsStored
  <2>1. \A j \in Applies(w) : j <= i + 1
    <3> TAKE j \in Applies(w)
    <3> QED BY <1>1
  <2> QED BY <1>1, <2>1 DEF MapsInv, LastIsStored
<1>3. MapsFollow'
  BY <1>1 DEF MapsInv, MapsFollow
<1> QED BY <1>2, <1>3 DEF MapsInv

LEMMA ApplyMapKeepsMaps ==
  ASSUME WorldsInv, MapsInv, ApplyMap
  PROVE  MapsInv'
<1>0. PICK u \in World : u = Job.world
  BY JobIsKnown DEF ApplyMap, Now, Job, WorldsInv
<1>1. /\ chain # <<>> /\ Over /\ Job.kind = "apply" /\ Loaded = {} /\ Loaded' = {} /\ UNCHANGED <<saved, running>>
      /\ u = Job.world /\ running \subseteq World
  BY <1>0 DEF ApplyMap, Now, Job, Over, Loaded, database, WorldsInv, HostTypeOK
<1>2. \A w \in World :
        /\ \A i \in Applies(w) : i \in Nat /\ i >= 1 /\ (i # 1 => i - 1 \in Applies(w)')
        /\ \A i \in Applies(w)' : i + 1 \in Applies(w) /\ chain'[i] = chain[i + 1] /\ i \in Nat /\ i >= 1
        /\ 1 \in Applies(w) <=> w = u
        /\ chain[1] = Job
  BY <1>1, AppliesEnded DEF WorldsInv
<1>3. LastIsStored'
  <2> SUFFICES ASSUME NEW w \in World, NEW i \in Applies(w)', \A j \in Applies(w)' : j <= i
               PROVE  chain'[i].map = saved'[w]
    BY DEF LastIsStored
  <2>1. \A j \in Applies(w) : j <= i + 1
    <3> TAKE j \in Applies(w)
    <3> QED BY <1>2
  <2> QED BY <1>1, <1>2, <2>1 DEF MapsInv, LastIsStored
<1>4. ASSUME Applies(u)' = {}
      PROVE  Job.map = saved[u]
  <2>1. \A j \in Applies(u) : j <= 1
    BY <1>1, <1>2, <1>4
  <2> QED BY <1>1, <1>2, <2>1 DEF MapsInv, LastIsStored
<1>5. MapsFollow'
  <2> SUFFICES ASSUME NEW w \in running, Applies(w)' = {}
               PROVE  override'[w] = saved[w]
    BY <1>1 DEF MapsFollow
  <2>1. CASE w = u
    BY <1>1, <1>4, <2>1 DEF ApplyMap, WorldsInv, HostTypeOK
  <2>2. CASE w # u
    <3>1. Applies(w) = {}
      BY <1>1, <1>2, <2>2
    <3>2. override'[w] = override[w]
      BY <1>1, <2>2 DEF ApplyMap, WorldsInv, HostTypeOK
    <3> QED BY <3>1, <3>2 DEF MapsInv, MapsFollow
  <2> QED BY <2>1, <2>2
<1> QED BY <1>3, <1>5 DEF MapsInv

LEMMA SaveMapKeepsMaps ==
  ASSUME WorldsInv, MapsInv, NEW u \in World, SaveMap(u)
  PROVE  MapsInv'
<1> DEFINE job == [kind |-> "apply", world |-> u, map |-> saved[u] + 1]
<1>1. /\ chain' = Append(chain, job) /\ UNCHANGED <<running, override, step>>
      /\ saved[u] + 1 \in 1..MaxSaves
      /\ saved'[u] = saved[u] + 1 /\ \A w \in World \ {u} : saved'[w] = saved[w]
  BY HostAssumptions DEF SaveMap, Queue, WorldsInv, HostTypeOK
<1>2. job \in Jobs
  BY <1>1 DEF Jobs
<1>3. running \cup Loaded' \subseteq running \cup Loaded /\ running \cup Loaded' \subseteq World
  <2>1. step # "turn" => Job' = Job /\ (step \in OpeningSteps => Job.world \in World)
    BY <1>1, <1>2, QueuedBehind, JobIsKnown DEF WorldsInv, StepsBelong
  <2> QED BY <1>1, <2>1 DEF Loaded, OpeningSteps, WorldsInv, HostTypeOK
<1>4. \A w \in World :
        /\ Applies(w) \subseteq 1..Len(chain) /\ Len(chain) \in Nat
        /\ Applies(w)' = IF w = u THEN Applies(w) \cup {Len(chain) + 1} ELSE Applies(w)
        /\ \A i \in 1..Len(chain) : chain'[i] = chain[i]
        /\ chain'[Len(chain) + 1] = job
  <2> TAKE w \in World
  <2>1. job.kind = "apply" /\ job.world = u
    OBVIOUS
  <2> HIDE DEF job
  <2> QED BY <1>1, <1>2, <2>1, AppliesQueued DEF WorldsInv
<1>5. LastIsStored'
  <2> SUFFICES ASSUME NEW w \in World, NEW i \in Applies(w)', \A j \in Applies(w)' : j <= i
               PROVE  chain'[i].map = saved'[w]
    BY DEF LastIsStored
  <2>1. CASE w = u
    <3>1. i = Len(chain) + 1
      BY <1>4, <2>1
    <3> QED BY <1>1, <1>4, <2>1, <3>1
  <2>2. CASE w # u
    BY <1>1, <1>4, <2>2 DEF MapsInv, LastIsStored
  <2> QED BY <2>1, <2>2
<1>6. MapsFollow'
  <2> SUFFICES ASSUME NEW w \in running \cup Loaded', Applies(w)' = {}
               PROVE  override[w] = saved'[w]
    BY <1>1 DEF MapsFollow
  <2>1. w # u /\ Applies(w) = {} /\ w \in World
    BY <1>3, <1>4
  <2> QED BY <1>1, <1>3, <2>1 DEF MapsInv, MapsFollow
<1> QED BY <1>5, <1>6 DEF MapsInv

\* The other steps of clients and requests queue no save.
LEMMA OthersKeepMaps ==
  ASSUME WorldsInv, MapsInv, Others, \A w \in World : ~SaveMap(w)
  PROVE  MapsInv'
<1>1. UNCHANGED <<saved, running, override>>
  BY DEF Others, Clients, Requests, Hello, Disconnect, SweepTimer, IdleTimePasses, LeaseLost, PatchReads,
       Answer, PatchUpdates, PatchSyncs, PatchTells, Delete, SaveScripts, Erase, Deleted, hostVars, vars, database
<1>2. Loaded' = Loaded
  BY OthersQueue DEF Loaded
<1>3. CASE UNCHANGED chain
  BY <1>1, <1>2, <1>3, MapsStand
<1>4. ASSUME NEW job \in Jobs, chain' = Append(chain, job), job.kind # "apply"
      PROVE  MapsInv'
  <2>1. \A w \in World :
          /\ Applies(w)' = Applies(w) /\ Applies(w) \subseteq 1..Len(chain)
          /\ \A i \in 1..Len(chain) : chain'[i] = chain[i]
    BY <1>4, AppliesQueued DEF WorldsInv
  <2>2. running \cup Loaded \subseteq World
    BY JobIsKnown DEF Loaded, WorldsInv, HostTypeOK, StepsBelong, OpeningSteps
  <2> QED BY <1>1, <1>2, <2>1, <2>2 DEF MapsInv, LastIsStored, MapsFollow
<1>5. UNCHANGED chain \/ \E job \in Jobs : chain' = Append(chain, job) /\ job.kind # "apply"
  BY OthersQueue DEF Queues
<1> QED BY <1>3, <1>4, <1>5

LEMMA ChainKeepsMaps ==
  ASSUME WorldsInv, RoomsInv, MapsInv, ChainStep
  PROVE  MapsInv'
<1>1. chain # <<>> /\ UNCHANGED saved
  BY DEF ChainStep, OpenWorld, CheckJoin, ReadMap, EnsurePlace, ClaimLease, BuildRoom, RunWorld, StopEnds,
       Sweep, WorldChanged, RemoveBegins, Remove, Deleted, ApplyMap, Now, database
<1>2. running \cup Loaded \subseteq World /\ running' \cup Loaded' \subseteq World
  <2>1. running \subseteq World /\ running' \subseteq World
    BY ChainKeepsTypes DEF WorldsInv, HostTypeOK
  <2>2. Job.kind = "hello" => Job.world \in World
    BY <1>1, JobIsKnown DEF WorldsInv
  <2>3. Loaded \subseteq World
    BY <2>2 DEF Loaded, WorldsInv, StepsBelong, OpeningSteps
  <2>4. Loaded' = {} \/ (Loaded' = {Job.world} /\ Job.kind = "hello")
    BY DEF ChainStep, OpenWorld, CheckJoin, ReadMap, EnsurePlace, ClaimLease, BuildRoom, RunWorld, StopEnds,
         Sweep, WorldChanged, RemoveBegins, Remove, ApplyMap, StopBegins, StartFails, GoTo, Over, Now, Loaded, Job
  <2> QED BY <2>1, <2>2, <2>3, <2>4
<1>3. CASE OpenWorld \/ CheckJoin \/ EnsurePlace
  <2>1. UNCHANGED <<running, override>> /\ Loaded' \subseteq Loaded
    BY <1>3 DEF OpenWorld, CheckJoin, EnsurePlace, Loaded, GoTo, Over, Now, Job
  <2>2. Over \/ UNCHANGED chain
    BY <1>3 DEF OpenWorld, CheckJoin, EnsurePlace, GoTo
  <2>3. Job.kind # "apply"
    BY <1>3 DEF OpenWorld, CheckJoin, EnsurePlace, Now, Job
  <2> QED BY <1>1, <1>2, <2>1, <2>2, <2>3, MapsStand, MapsStandAtTheEnd
<1>4. CASE ReadMap
  <2>1. CASE Over /\ UNCHANGED override
    <3>1. Loaded' \subseteq Loaded /\ UNCHANGED running /\ Job.kind # "apply"
      BY <1>4, <2>1 DEF ReadMap, Loaded, Over, Now, Job
    <3> QED BY <1>1, <1>2, <2>1, <3>1, MapsStandAtTheEnd
  <2>2. CASE GoTo("place") /\ override' = [override EXCEPT ![Job.world] = saved[Job.world]]
    <3>1. Loaded' = {Job.world} /\ UNCHANGED <<chain, running>>
      BY <1>4, <2>2 DEF ReadMap, Loaded, GoTo, Job
    <3>2. \A w \in World : override'[w] = IF w = Job.world THEN saved[w] ELSE override[w]
      BY <2>2 DEF WorldsInv, HostTypeOK
    <3> QED BY <1>1, <1>2, <3>1, <3>2 DEF MapsInv, LastIsStored, MapsFollow, Applies
  <2> QED BY <1>4, <2>1, <2>2 DEF ReadMap
<1>5. CASE ClaimLease \/ BuildRoom \/ RunWorld
  <2>1. Job.kind # "apply" /\ Loaded = {Job.world} /\ Job.world \notin running
    BY <1>5 DEF ClaimLease, BuildRoom, RunWorld, Now, Job, Loaded, RoomsInv, StartsOnce, Starting, OpeningSteps
  <2>2. CASE StartFails /\ UNCHANGED running
    <3>1. Over /\ Loaded' = {} /\ \A w \in running : override'[w] = override[w]
      BY <1>2, <2>1, <2>2 DEF StartFails, Over, Loaded, WorldsInv, HostTypeOK
    <3> QED BY <1>1, <1>2, <2>1, <2>2, <3>1, MapsStandAtTheEnd
  <2>3. CASE UNCHANGED override
    <3>1. running' \cup Loaded' \subseteq running \cup Loaded
      BY <1>5, <2>1, <2>3 DEF ClaimLease, BuildRoom, RunWorld, StartFails, GoTo, Over, Loaded, Job
    <3>2. Over \/ UNCHANGED chain
      BY <1>5 DEF ClaimLease, BuildRoom, RunWorld, StartFails, GoTo
    <3> QED BY <1>1, <1>2, <2>1, <2>3, <3>1, <3>2, MapsStand, MapsStandAtTheEnd
  <2> QED BY <1>5, <2>2, <2>3 DEF ClaimLease, BuildRoom, RunWorld
<1>6. CASE StopEnds
  <2>1. PICK w \in World : stopping = {w} /\ w \notin running
    BY <1>6 DEF StopEnds, RoomsInv, OneStops
  <2>2. override' = [override EXCEPT ![w] = NoMap] /\ UNCHANGED running
    BY <1>6, <2>1 DEF StopEnds
  <2>3. \A v \in running : override'[v] = override[v]
    BY <1>2, <2>1, <2>2 DEF WorldsInv, HostTypeOK
  <2>4. Loaded' = {}
    BY <1>6 DEF StopEnds, GoTo, Over, Loaded
  <2>5. Over \/ UNCHANGED chain
    BY <1>6 DEF StopEnds, GoTo
  <2>6. CASE UNCHANGED chain
    BY <1>1, <1>2, <2>2, <2>3, <2>4, <2>6, MapsStand
  <2>7. CASE Over
    <3>1. Job.kind # "apply"
      BY <1>1, <1>6 DEF StopEnds, WorldsInv, StepsBelong
    <3> QED BY <1>1, <1>2, <2>2, <2>3, <2>4, <2>7, <3>1, MapsStandAtTheEnd
  <2> QED BY <2>5, <2>6, <2>7
<1>7. CASE Sweep \/ WorldChanged \/ RemoveBegins \/ Remove
  <2>1. running' \subseteq running /\ Loaded' = {} /\ UNCHANGED override /\ Job.kind # "apply"
    BY <1>7 DEF Sweep, WorldChanged, RemoveBegins, Remove, StopBegins, GoTo, Over, Loaded, Now, Job
  <2>2. Over \/ UNCHANGED chain
    BY <1>7 DEF Sweep, WorldChanged, RemoveBegins, Remove, StopBegins, GoTo
  <2> QED BY <1>1, <1>2, <2>1, <2>2, MapsStand, MapsStandAtTheEnd
<1> QED BY <1>3, <1>4, <1>5, <1>6, <1>7, ApplyMapKeepsMaps DEF ChainStep

\* A world that runs has the stored map once the saves made have had their turn, whichever
\* saves came while it was being opened (worldHost.ts open and applyMap).
THEOREM MapIsStored == Spec => []RunningMapIsStored
<1>1. ASSUME WorldsInv, MapsInv
      PROVE  RunningMapIsStored
  <2>1. DOMAIN chain = 1..Len(chain)
    BY <1>1, LenProperties DEF WorldsInv, HostTypeOK
  <2> QED BY <1>1, <2>1 DEF MapsInv, MapsFollow, Applies, RunningMapIsStored
<1>2. Init => WorldsInv /\ RoomsInv /\ MapsInv
  BY WorldsStart, RoomsStart, MapsStart DEF Init
<1>3. WorldsInv /\ RoomsInv /\ MapsInv /\ [Next]_vars => (WorldsInv /\ RoomsInv /\ MapsInv)'
  BY WorldsStep, RoomsStep, ChainKeepsMaps, OthersKeepMaps, SaveMapKeepsMaps, StepKinds DEF Others
<1> QED BY <1>1, <1>2, <1>3, PTL DEF Spec

---------------------------------------------------------------------------
(* Creator worlds: nobody stays where they may not be                       *)

\* A change of a world's status that is still at work and will close the world, and a job in
\* the chain that closes it.
WillTell(r, w) ==
  (At(r, "updated") \/ At(r, "synced")) /\ req[r].world = w /\ req[r].tells /\ req[r].to # "published"
Pending(w) == \E r \in Patch : WillTell(r, w)
ClosingJob(w, job) == job.kind = "changed" /\ job.world = w /\ job.status # "published"
Closing(w) == \E i \in 1..Len(chain) : ClosingJob(w, chain[i])

\* The client may be in the world, or will not be for long.
MayStay(c, w) == status[w] = "gone" \/ MayJoin(c, w, status[w]) \/ Pending(w) \/ Closing(w)

\* In a world whose requests are in order who is inside may stay; so may the client such a
\* world is being started for; what a hello has read is still so, or everyone may join, or the
\* world closes.
InsideMayStay == \A c \in Client, w \in InOrder : at[c] = w => MayStay(c, w)
StarterMayStay == step \in OpeningSteps \ {"check"} /\ Job.world \in InOrder => MayStay(Job.client, Job.world)
Fresh(w) == status[w] \in {seen, "published", "gone"} \/ Pending(w) \/ Closing(w)
SeenIsFresh == step = "check" /\ Job.world \in InOrder => Fresh(Job.world)

\* Who is inside is in a world that runs or stops, and a job stops its own world.
InsideRuns == \A c \in Client, w \in World : at[c] = w => w \in running \cup stopping
StopsItsWorld == step = "stop" /\ Job.kind # "sweep" => stopping = {Job.world}

StayInv == InsideMayStay /\ StarterMayStay /\ SeenIsFresh
PlaceInv == InsideRuns /\ StopsItsWorld

LEMMA StayStart == HostInit => StayInv /\ PlaceInv
<1> SUFFICES ASSUME HostInit PROVE StayInv /\ PlaceInv
  OBVIOUS
<1>1. \A c \in Client : at[c] \notin World
  BY HostAssumptions DEF HostInit
<1> QED BY <1>1 DEF HostInit, StayInv, InOrder, InsideMayStay, StarterMayStay, SeenIsFresh, PlaceInv, InsideRuns,
       StopsItsWorld, OpeningSteps

\* A status that changes is a pending change, or everyone may join or the world has gone.
LEMMA StatusMoves ==
  ASSUME WorldsInv, [Next]_vars, NEW w \in InOrder'
  PROVE  status'[w] \in {status[w], "gone", "published"} \/ Pending(w)'
<1>1. CASE StatusStands
  BY <1>1 DEF StatusStands, InOrder
<1>2. CASE \/ \E r \in Patch, c \in Client, v \in World, to \in Status : PatchReads(r, c, v, to)
           \/ \E r \in Patch : PatchSyncs(r) \/ PatchTells(r)
  BY <1>2 DEF PatchReads, PatchSyncs, PatchTells, hostVars, database
<1>3. ASSUME NEW r \in Patch, PatchUpdates(r), status'[w] \notin {status[w], "published"}
      PROVE  Pending(w)'
  <2>1. w \in World /\ w \notin crossed'
    BY DEF InOrder
  <2>2. req[r].world = w /\ status[w] # "gone"
    BY <1>3, <2>1 DEF PatchUpdates, WorldsInv, HostTypeOK
  <2>3. req'[r].stage = "updated" /\ req'[r].world = w /\ req'[r].to = status'[w] /\ req'[r].tells
    BY <1>3, <2>1, <2>2, UpdateInTurn
  <2> QED BY <1>3, <2>3 DEF Pending, WillTell, At
<1> QED BY <1>1, <1>2, <1>3, StepsOfAStatus DEF Answer

\* So is a draft that is shared or unshared.
LEMMA DraftShareMoves ==
  ASSUME WorldsInv, ShareInv, [Next]_vars, NEW w \in InOrder', status[w] = "draft"
  PROVE  (w \in shared' <=> w \in shared) \/ Pending(w)'
<1>1. CASE StatusStands
  BY <1>1 DEF StatusStands
<1>2. CASE \/ \E r \in Patch, c \in Client, v \in World, to \in Status : PatchReads(r, c, v, to)
           \/ \E r \in Patch : PatchUpdates(r) \/ PatchTells(r)
  BY <1>2 DEF PatchReads, PatchUpdates, PatchTells, hostVars, database
<1>3. ASSUME NEW r \in Patch, PatchSyncs(r), ~(w \in shared' <=> w \in shared)
      PROVE  Pending(w)'
  <2>1. w \in InOrder /\ w \notin crossed'
    BY OrderOnlyShrinks DEF InOrder
  <2>2. req[r].world = w /\ shared' = Synced(req[r])
    BY <1>3 DEF PatchSyncs, Synced
  <2>3. req[r].to = "draft"
    BY <1>3, <2>1, <2>2 DEF PatchSyncs
  <2>4. w \in shared
    BY <1>3, <2>2, <2>3 DEF Synced
  <2>5. PICK s \in Patch : Behind(s, w)
    BY <2>1, <2>4 DEF ShareInv
  <2>6. At(s, "updated") /\ req[s].world = w /\ req[s].tells /\ req[s].to # "published"
    BY <2>4, <2>5 DEF Behind
  <2>7. WillTell(s, w)'
    <3>1. CASE s = r
      <4>1. req'[r].stage = "synced" /\ req'[r].world = w /\ req'[r].tells /\ req'[r].to # "published"
        BY <1>3, <2>6, <3>1, AtIsARequest DEF PatchSyncs, WorldsInv, RoutesTypeOK, NoRequest
      <4> QED BY <3>1, <4>1 DEF WillTell, At
    <3>2. CASE s # r
      <4>1. req'[s] = req[s]
        BY <1>3, <3>2, OneRequest DEF Answer
      <4> QED BY <2>6, <4>1 DEF WillTell, At
    <3> QED BY <3>1, <3>2
  <2> QED BY <2>7 DEF Pending
<1> QED BY <1>1, <1>2, <1>3, StepsOfAStatus DEF Answer

\* A pending change ends by queueing the job that closes the world.
LEMMA PendingIsTold ==
  ASSUME WorldsInv, [Next]_vars, NEW w \in World, Pending(w)
  PROVE  Pending(w)' \/ Closing(w)'
<1>1. PICK s \in Patch : WillTell(s, w)
  BY DEF Pending
<1>2. ASSUME req'[s] = req[s]
      PROVE  Pending(w)'
  BY <1>1, <1>2 DEF Pending, WillTell, At
<1>3. CASE StatusStands
  BY <1>2, <1>3 DEF StatusStands
<1>4. ASSUME NEW r \in Patch, NEW c \in Client, NEW v \in World, NEW to \in Status, PatchReads(r, c, v, to)
      PROVE  Pending(w)'
  <2>1. s # r /\ req'[s] = req[s]
    BY <1>1, <1>4, AtIsARequest DEF PatchReads, WillTell, WorldsInv, RoutesTypeOK
  <2> QED BY <1>2, <2>1
<1>5. ASSUME NEW r \in Patch, Answer(r), s # r
      PROVE  Pending(w)'
  BY <1>2, <1>5, OneRequest
<1>6. CASE PatchUpdates(s)
  BY <1>1, <1>6 DEF WillTell, PatchUpdates, At
<1>7. CASE PatchSyncs(s)
  <2>1. req'[s].stage = "synced" /\ req'[s].world = w /\ req'[s].tells /\ req'[s].to # "published"
    BY <1>1, <1>7, AtIsARequest DEF WillTell, PatchSyncs, WorldsInv, RoutesTypeOK, NoRequest
  <2>2. WillTell(s, w)'
    BY <2>1 DEF WillTell, At
  <2> QED BY <2>2 DEF Pending
<1>8. CASE PatchTells(s)
  <2> DEFINE job == [kind |-> "changed", world |-> w, status |-> req[s].to]
  <2>1. chain' = Append(chain, job) /\ req[s].to \in Status
    BY <1>1, <1>8, AtIsARequest, RequestIsKnown DEF WillTell, PatchTells, WorldsInv
  <2>2. job \in Jobs
    BY <2>1 DEF Jobs
  <2>3. chain' \in Seq(Jobs) /\ Len(chain') = Len(chain) + 1 /\ chain'[Len(chain) + 1] = job /\ Len(chain) \in Nat
    BY <2>1, <2>2, AppendProperties, LenProperties DEF WorldsInv, HostTypeOK
  <2>4. ClosingJob(w, chain'[Len(chain')])
    BY <1>1, <2>3 DEF ClosingJob, WillTell
  <2> QED BY <2>3, <2>4 DEF Closing
<1> QED BY <1>3, <1>4, <1>5, <1>6, <1>7, <1>8, StepsOfAStatus DEF Answer

\* While the jobs that close a world stay, a client who may stay may go on to.
LEMMA StayGoesOn ==
  ASSUME WorldsInv, ShareInv, [Next]_vars, NEW w \in InOrder', Closing(w) => Closing(w)'
  PROVE  /\ \A c \in Client : MayStay(c, w) => MayStay(c, w)'
         /\ Fresh(w) /\ seen' = seen => Fresh(w)'
<1>1. status'[w] \in {status[w], "gone", "published"} \/ Pending(w)'
  BY StatusMoves
<1>2. Pending(w) => Pending(w)' \/ Closing(w)'
  BY PendingIsTold DEF InOrder
<1>3. ASSUME NEW c \in Client, MayStay(c, w)
      PROVE  MayStay(c, w)'
  <2>1. CASE status'[w] \in {"published", "gone"} \/ Pending(w)' \/ Closing(w)'
    BY <2>1 DEF MayStay, MayJoin
  <2>2. CASE status'[w] = status[w] /\ MayJoin(c, w, status[w])
    <3>1. CASE status[w] = "draft"
      BY <2>1, <2>2, <3>1, DraftShareMoves DEF MayStay, MayJoin
    <3>2. CASE status[w] # "draft"
      BY <2>2, <3>2 DEF MayStay, MayJoin
    <3> QED BY <3>1, <3>2
  <2> QED BY <1>1, <1>2, <1>3, <2>1, <2>2 DEF MayStay
<1>4. ASSUME Fresh(w), seen' = seen
      PROVE  Fresh(w)'
  BY <1>1, <1>2, <1>4 DEF Fresh
<1> QED BY <1>3, <1>4

\* The jobs that close a world stay when a job is queued, and when another one ends.
LEMMA ClosingQueued ==
  ASSUME HostTypeOK, NEW w, UNCHANGED chain \/ \E job \in Jobs : chain' = Append(chain, job), Closing(w)
  PROVE  Closing(w)'
<1>1. CASE UNCHANGED chain
  BY <1>1 DEF Closing
<1>2. ASSUME NEW job \in Jobs, chain' = Append(chain, job)
      PROVE  Closing(w)'
  <2>1. /\ chain \in Seq(Jobs) /\ Len(chain) \in Nat /\ Len(chain') = Len(chain) + 1
        /\ \A i \in 1..Len(chain) : chain'[i] = chain[i]
    BY <1>2, AppendProperties, LenProperties DEF HostTypeOK
  <2>2. PICK i \in 1..Len(chain) : ClosingJob(w, chain[i])
    BY DEF Closing
  <2>3. i \in 1..Len(chain') /\ ClosingJob(w, chain'[i])
    BY <2>1, <2>2
  <2> QED BY <2>3 DEF Closing
<1> QED BY <1>1, <1>2

LEMMA ClosingEnded ==
  ASSUME HostTypeOK, chain # <<>>, Over, NEW w, Closing(w), ~ClosingJob(w, Job)
  PROVE  Closing(w)'
<1>1. chain \in Seq(Jobs) /\ Len(chain) \in Nat /\ Len(chain) >= 1
  BY EmptySeq, LenProperties DEF HostTypeOK
<1>2. /\ Len(chain') = Len(chain) - 1
      /\ \A i \in 1..Len(chain') : chain'[i] = chain[i + 1]
      /\ chain[1] = Job
  BY <1>1, HeadTailProperties DEF Over, Job
<1>3. PICK i \in 1..Len(chain) : ClosingJob(w, chain[i])
  BY DEF Closing
<1>4. i - 1 \in 1..Len(chain') /\ ClosingJob(w, chain'[i - 1])
  BY <1>1, <1>2, <1>3
<1> QED BY <1>4 DEF Closing

LEMMA OthersLetStay ==
  ASSUME WorldsInv, ShareInv, StayInv, PlaceInv, Others, [Next]_vars
  PROVE  StayInv' /\ PlaceInv'
<1>1. UNCHANGED <<step, seen, running, stopping>> /\ (step # "turn" => Job' = Job)
  BY OthersQueue DEF Others, Clients, Requests, Hello, Disconnect, SweepTimer, IdleTimePasses, LeaseLost,
     PatchReads, Answer, PatchUpdates, PatchSyncs, PatchTells, Delete, SaveMap, SaveScripts, Erase, hostVars, vars
<1>2. \A w \in World : Closing(w) => Closing(w)'
  BY OthersQueue, ClosingQueued DEF Queues, WorldsInv
<1>3. \A w \in InOrder' :
        /\ \A c \in Client : MayStay(c, w) => MayStay(c, w)'
        /\ Fresh(w) => Fresh(w)'
  BY <1>1, <1>2, StayGoesOn DEF InOrder
<1>4. \A c \in Client, w \in World : at'[c] = w => at[c] = w
  <2>1. at \in [Client -> World \cup {"out", "waiting", "gone", "stranded"}]
    BY DEF WorldsInv, HostTypeOK
  <2>2. ASSUME NEW d \in Client, at' = [at EXCEPT ![d] = "waiting"] \/ Disconnect(d)
        PROVE  \A c \in Client, w \in World : at'[c] = w => at[c] = w
    BY <2>1, <2>2, HostAssumptions DEF Disconnect
  <2>3. ASSUME NEW v \in World, LeaseLost(v)
        PROVE  \A c \in Client, w \in World : at'[c] = w => at[c] = w
    BY <2>1, <2>3, HostAssumptions DEF LeaseLost
  <2>4. UNCHANGED at \/ (\E d \in Client : at' = [at EXCEPT ![d] = "waiting"] \/ Disconnect(d))
          \/ \E v \in World : LeaseLost(v)
    BY DEF Others, Clients, Requests, Hello, SweepTimer, IdleTimePasses,
       PatchReads, Answer, PatchUpdates, PatchSyncs, PatchTells, Delete, SaveMap, SaveScripts, Erase, hostVars, vars
  <2> QED BY <2>2, <2>3, <2>4
<1>5. step \in OpeningSteps => Job.world \in World /\ Job.client \in Client
  BY JobIsKnown DEF WorldsInv, StepsBelong, OpeningSteps
<1>6. StayInv'
  <2>1. InsideMayStay'
    BY <1>3, <1>4, OrderOnlyShrinks DEF StayInv, InsideMayStay, InOrder
  <2>2. StarterMayStay'
    <3> SUFFICES ASSUME step' \in OpeningSteps \ {"check"}, Job'.world \in InOrder'
                 PROVE  MayStay(Job.client, Job.world)'
      BY DEF StarterMayStay
    <3>1. PICK c \in Client, w \in World : c = Job.client /\ w = Job.world /\ c = Job'.client /\ w = Job'.world
      BY <1>1, <1>5 DEF OpeningSteps
    <3>2. MayStay(c, w)'
      BY <1>1, <1>3, <3>1, OrderOnlyShrinks DEF StayInv, StarterMayStay
    <3> QED BY <3>1, <3>2
  <2>3. SeenIsFresh'
    <3> SUFFICES ASSUME step' = "check", Job'.world \in InOrder'
                 PROVE  Fresh(Job.world)'
      BY DEF SeenIsFresh
    <3>1. PICK w \in World : w = Job.world /\ w = Job'.world
      BY <1>1, <1>5 DEF OpeningSteps
    <3>2. Fresh(w)'
      BY <1>1, <1>3, <3>1, OrderOnlyShrinks DEF StayInv, SeenIsFresh
    <3> QED BY <3>1, <3>2
  <2> QED BY <2>1, <2>2, <2>3 DEF StayInv
<1>7. PlaceInv'
  BY <1>1, <1>4 DEF PlaceInv, InsideRuns, StopsItsWorld
<1> QED BY <1>6, <1>7

\* The chain's job goes on, or ends; what closes a world leaves nobody inside.
LEMMA ChainGoesOn ==
  ASSUME ChainStep
  PROVE  chain # <<>> /\ (Over \/ (UNCHANGED chain /\ Job' = Job))
BY DEF ChainStep, OpenWorld, CheckJoin, ReadMap, EnsurePlace, ClaimLease, BuildRoom, RunWorld, StopEnds, Sweep,
     WorldChanged, RemoveBegins, Remove, ApplyMap, StartFails, StopBegins, GoTo, Now, Job

LEMMA ClosingGoesOn ==
  ASSUME WorldsInv, RoomsInv, PlaceInv, ChainStep, NEW w \in World, Closing(w)
  PROVE  Closing(w)' \/ (step' = "turn" /\ \A c \in Client : at'[c] # w)
<1>1. CASE UNCHANGED chain
  BY <1>1 DEF Closing
<1>2. CASE Over /\ ~ClosingJob(w, Job)
  BY <1>2, ChainGoesOn, ClosingEnded DEF WorldsInv
<1>3. CASE Over /\ ClosingJob(w, Job)
  <2>1. Job.kind = "changed" /\ Job.world = w /\ Job.status # "published" /\ step' = "turn"
    BY <1>3 DEF ClosingJob, Over
  <2>2. CASE StopEnds
    <3>1. stopping = {w}
      BY <2>1, <2>2 DEF StopEnds, PlaceInv, StopsItsWorld
    <3>2. at \in [Client -> World \cup {"out", "waiting", "gone", "stranded"}]
      BY DEF WorldsInv, HostTypeOK
    <3>3. \A c \in Client : at'[c] # w
      BY <2>2, <3>1, <3>2, HostAssumptions DEF StopEnds, Inside
    <3> QED BY <2>1, <3>3
  <2>3. CASE WorldChanged
    <3>1. step = "turn" /\ UNCHANGED at
      BY <2>3 DEF WorldChanged, Now
    <3>2. w \notin running
      BY <2>1, <2>3, <3>1 DEF WorldChanged, Closes, StopBegins, GoTo
    <3>3. w \notin stopping
      BY <3>1 DEF RoomsInv, OneStops
    <3> QED BY <2>1, <3>1, <3>2, <3>3 DEF PlaceInv, InsideRuns
  <2>4. StopEnds \/ WorldChanged
    BY <2>1 DEF ChainStep, OpenWorld, CheckJoin, ReadMap, EnsurePlace, ClaimLease, BuildRoom, RunWorld, Sweep,
         RemoveBegins, Remove, ApplyMap, Now, Job
  <2> QED BY <2>2, <2>3, <2>4
<1> QED BY <1>1, <1>2, <1>3, ChainGoesOn

\* Only a hello's own client is let in, into a running world that client may stay in.
LEMMA AdmittedMayStay ==
  ASSUME WorldsInv, StayInv, ChainStep, NEW c \in Client, NEW w \in World, at'[c] = w, at[c] # w
  PROVE  (w \in InOrder => MayStay(c, w)) /\ w \in running'
<1>1. at \in [Client -> World \cup {"out", "waiting", "gone", "stranded"}]
  BY DEF WorldsInv, HostTypeOK
<1>2. Admit /\ (CheckJoin \/ RunWorld)
  <2>1. CASE StopEnds
    BY <1>1, <2>1, HostAssumptions DEF StopEnds
  <2>2. CASE Refuse
    BY <1>1, <2>2, HostAssumptions DEF Refuse
  <2>3. CASE OpenWorld \/ ReadMap \/ EnsurePlace \/ ClaimLease \/ BuildRoom
    BY <2>2, <2>3 DEF OpenWorld, ReadMap, EnsurePlace, ClaimLease, BuildRoom, StartFails
  <2>4. CASE Sweep \/ WorldChanged \/ RemoveBegins \/ Remove \/ ApplyMap
    BY <2>4 DEF Sweep, WorldChanged, RemoveBegins, Remove, ApplyMap
  <2>5. CASE CheckJoin
    BY <2>2, <2>5 DEF CheckJoin
  <2>6. CASE RunWorld
    BY <2>2, <2>6 DEF RunWorld, StartFails
  <2> QED BY <2>1, <2>3, <2>4, <2>5, <2>6 DEF ChainStep
<1>3. c = Job.client /\ w = Job.world
  BY <1>1, <1>2, HostAssumptions DEF Admit
<1>4. CASE CheckJoin
  <2>1. Refuse \/ (MayJoin(c, w, seen) /\ w \in running /\ UNCHANGED running) \/ UNCHANGED at
    BY <1>3, <1>4 DEF CheckJoin
  <2>2. MayJoin(c, w, seen) /\ w \in running'
    BY <1>1, <2>1, HostAssumptions DEF Refuse
  <2>3. w \in InOrder => Fresh(w)
    BY <1>3, <1>4 DEF CheckJoin, Now, StayInv, SeenIsFresh
  <2> QED BY <2>2, <2>3 DEF MayStay, Fresh, MayJoin
<1>5. CASE RunWorld
  <2>2. w \in InOrder => MayStay(c, w)
    BY <1>3, <1>5 DEF RunWorld, Now, StayInv, StarterMayStay, OpeningSteps
  <2>3. w \in running'
    <3>1. Refuse \/ w \in running'
      BY <1>3, <1>5 DEF RunWorld, StartFails
    <3> QED BY <1>1, <3>1, HostAssumptions DEF Refuse
  <2> QED BY <2>2, <2>3
<1> QED BY <1>2, <1>4, <1>5

LEMMA ChainLetsStay ==
  ASSUME WorldsInv, ShareInv, RoomsInv, StayInv, PlaceInv, ChainStep, [Next]_vars
  PROVE  StayInv' /\ PlaceInv'
<1>1. InOrder' \subseteq InOrder /\ InOrder \subseteq World
  BY OrderOnlyShrinks DEF InOrder
<1>2. InsideMayStay'
  <2> SUFFICES ASSUME NEW c \in Client, NEW w \in InOrder', at'[c] = w
               PROVE  MayStay(c, w)'
    BY DEF InsideMayStay
  <2>1. Closing(w) => Closing(w)'
    BY <1>1, ClosingGoesOn
  <2>2. MayStay(c, w)
    BY <1>1, AdmittedMayStay DEF StayInv, InsideMayStay
  <2> QED BY <1>1, <2>1, <2>2, StayGoesOn
<1>3. StarterMayStay'
  <2> SUFFICES ASSUME step' \in OpeningSteps \ {"check"}, Job'.world \in InOrder'
               PROVE  MayStay(Job.client, Job.world)'
    BY DEF StarterMayStay
  <2>1. /\ Now("hello", step) /\ step \in OpeningSteps
        /\ UNCHANGED chain /\ Job' = Job
        /\ step = "check" => MayJoin(Job.client, Job.world, seen)
    BY DEF OpeningSteps, ChainStep, OpenWorld, CheckJoin, ReadMap, EnsurePlace, ClaimLease, BuildRoom, RunWorld, StopEnds,
         Sweep, WorldChanged, RemoveBegins, Remove, ApplyMap, StartFails, StopBegins, GoTo, Over, Now, Job
  <2>2. Job.client \in Client /\ Job.world \in World
    BY <2>1, JobIsKnown DEF Now, Job, WorldsInv
  <2>3. PICK c \in Client, w \in World : c = Job.client /\ w = Job.world /\ c = Job'.client /\ w = Job'.world
    BY <2>1, <2>2
  <2>4. MayStay(c, w)
    <3>1. CASE step = "check"
      BY <1>1, <2>1, <2>3, <3>1 DEF StayInv, SeenIsFresh, Fresh, MayStay, MayJoin
    <3>2. CASE step # "check"
      BY <1>1, <2>1, <2>3, <3>2 DEF StayInv, StarterMayStay
    <3> QED BY <3>1, <3>2
  <2>5. Closing(w) => Closing(w)'
    BY <2>1 DEF Closing
  <2>6. MayStay(c, w)'
    BY <2>3, <2>4, <2>5, StayGoesOn
  <2> QED BY <2>3, <2>6
<1>4. SeenIsFresh'
  <2> SUFFICES ASSUME step' = "check"
               PROVE  Fresh(Job.world)'
    BY DEF SeenIsFresh
  <2>1. seen' = status[Job.world] /\ UNCHANGED status /\ Job' = Job
    BY DEF ChainStep, OpenWorld, CheckJoin, ReadMap, EnsurePlace, ClaimLease, BuildRoom, RunWorld, StopEnds, Sweep,
         WorldChanged, RemoveBegins, Remove, ApplyMap, StartFails, StopBegins, GoTo, Over, Now, Job, database
  <2> QED BY <2>1 DEF Fresh
<1>5. InsideRuns'
  <2> SUFFICES ASSUME NEW c \in Client, NEW w \in World, at'[c] = w
               PROVE  w \in running' \cup stopping'
    BY DEF InsideRuns
  <2>1. CASE at[c] # w
    BY <2>1, AdmittedMayStay
  <2>2. CASE at[c] = w /\ StopEnds
    <3>1. at \in [Client -> World \cup {"out", "waiting", "gone", "stranded"}]
      BY DEF WorldsInv, HostTypeOK
    <3>2. PICK v \in World : stopping = {v}
      BY <2>2 DEF StopEnds, RoomsInv, OneStops
    <3>3. w # v
      BY <2>2, <3>1, <3>2, HostAssumptions DEF StopEnds, Inside
    <3>4. w \in running
      BY <2>2, <3>2, <3>3 DEF PlaceInv, InsideRuns
    <3> QED BY <2>2, <3>4 DEF StopEnds
  <2>3. CASE at[c] = w /\ ~StopEnds
    <3>1. w \in running \cup stopping
      BY <2>3 DEF PlaceInv, InsideRuns
    <3>2. CASE \E v \in World : StopBegins(v) /\ step # "stop"
      BY <3>1, <3>2 DEF StopBegins, RoomsInv, OneStops
    <3>3. CASE running \subseteq running' /\ UNCHANGED stopping
      BY <3>1, <3>3
    <3>4. CASE Sweep
      BY <3>2, <3>3, <3>4 DEF Sweep, Now, IdleWorlds, RoomsInv, WorldsInv, HostTypeOK
    <3>5. CASE WorldChanged \/ RemoveBegins
      <4>1. Job.world \in World
        BY <3>5, JobIsKnown DEF WorldChanged, RemoveBegins, Now, Job, WorldsInv
      <4> QED BY <3>2, <3>3, <3>5, <4>1 DEF WorldChanged, RemoveBegins, Now
    <3>6. CASE ~Sweep /\ ~WorldChanged /\ ~RemoveBegins
      BY <2>3, <3>3, <3>6 DEF ChainStep, OpenWorld, CheckJoin, ReadMap, EnsurePlace, ClaimLease, BuildRoom, RunWorld,
           Remove, ApplyMap
    <3> QED BY <3>4, <3>5, <3>6
  <2> QED BY <2>1, <2>2, <2>3
<1>6. StopsItsWorld'
  <2> SUFFICES ASSUME step' = "stop", Job'.kind # "sweep"
               PROVE  stopping' = {Job'.world}
    BY DEF StopsItsWorld
  <2> QED
    BY DEF ChainStep, OpenWorld, CheckJoin, ReadMap, EnsurePlace, ClaimLease, BuildRoom, RunWorld, StopEnds, Sweep,
         WorldChanged, RemoveBegins, Remove, ApplyMap, StartFails, StopBegins, GoTo, Over, Now, Job
<1> QED BY <1>2, <1>3, <1>4, <1>5, <1>6 DEF StayInv, PlaceInv

\* A world that was unpublished or hidden keeps nobody who could not join it now, once requests
\* and jobs have ended (worldHost.ts open and changed): what a hello has read is overtaken only
\* by a change whose job is still to come.  It is so for every world whose requests have found
\* the row as they had read it and have written its share row.
THEOREM NobodyStays == Spec => []ClosedWorldsEmpty
<1> DEFINE Inv == WorldsInv /\ ShareInv /\ RoomsInv /\ StayInv /\ PlaceInv
<1>1. ASSUME Inv
      PROVE  ClosedWorldsEmpty
  <2> SUFFICES ASSUME chain = <<>>, \A r \in Patch : req[r] = NoRequest,
                      NEW w \in InOrder, status[w] # "gone", NEW c \in Inside(w)
               PROVE  MayJoin(c, w, status[w])
    BY DEF ClosedWorldsEmpty
  <2>1. ~Pending(w)
    BY AtIsARequest DEF Pending, WillTell
  <2>2. ~Closing(w)
    <3>1. Len(chain) = 0
      OBVIOUS
    <3> QED BY <3>1 DEF Closing
  <2> QED BY <1>1, <2>1, <2>2 DEF StayInv, InsideMayStay, MayStay, Inside
<1>2. Init => Inv
  BY WorldsStart, PatchStart, RoomsStart, StayStart DEF Init
<1>3. ASSUME Inv, [Next]_vars
      PROVE  Inv'
  <2>1. WorldsInv' /\ ShareInv' /\ RoomsInv'
    BY <1>3, WorldsStep, ShareStep, RoomsStep
  <2>2. StayInv' /\ PlaceInv'
    BY <1>3, StepKinds, ChainLetsStay, OthersLetStay DEF Others
  <2> QED BY <2>1, <2>2
<1> QED BY <1>1, <1>2, <1>3, PTL DEF Spec
================================================================================
