-------------------------------- MODULE ModGrants --------------------------------
(* One mod install and its principal in OpenVibe.Network: the registry's    *)
(* rows, the view it keeps of them, the staff's requests (Network is asked  *)
(* first), the network.mod.grants_changed events, which arrive in any order *)
(* and again after a failure, and the read of the principal at boot. Calls  *)
(* are served side by side: each reads the view, writes and reads again.    *)
EXTENDS Integers, FiniteSets

CONSTANTS
  Capability,    \* what a manifest may ask for
  Installs,      \* what a manifest asked for at first, with two bounds: the requests the
                 \* staff make, and the writes that fail and crashes there are
  Bindable,      \* the ones the install's runtime can bind (viewRuntimeCaps)
  Request,       \* slots, numbered: one for each call served at a time
  MaxRevision    \* bound: revisions of the principal

ASSUME ModGrantsAssumption ==
  /\ Bindable \subseteq Capability /\ IsFiniteSet(Capability)
  /\ Request \subseteq Nat /\ Request # {}
  /\ Installs \subseteq [asks : SUBSET Capability, requests : Nat, faults : Nat]
  /\ MaxRevision \in Nat \ {0}

VARIABLES
  principal,        \* Network's record: [status, requested, approved, revision]
  events,           \* what Events has still to deliver: past values of principal
  stored,           \* mods and mod_grants: [status, requested, granted]
  view,             \* ModRegistry.views: the same, as last read
  networkRevision,  \* the revision this process has seen applied (0: none)
  call,             \* what each slot is doing
  doubt,            \* why the copy may differ from the principal (history)
  requests, faults  \* how many are still to come (bounds)

modVars == <<principal, events, stored, view, networkRevision, call, doubt, requests, faults>>

Idle == [at |-> "idle"]
Put(q, c) == call' = [call EXCEPT ![q] = c]

---------------------------------------------------------------------------
(* OpenVibe.Network and Events *)

Principal == [status : {"active", "revoked"}, requested : SUBSET Capability,
              approved : SUBSET Capability, revision : 1..MaxRevision]

\* The principal after a change of c; every change is a revision and an event.
Changed(action, c) ==
  [ requested |-> principal.requested,
    status |-> IF action = "revoke" THEN "revoked" ELSE principal.status,
    approved |-> CASE action = "grant" -> principal.approved \cup {c}
                   [] action = "withdraw" -> principal.approved \ {c}
                   [] OTHER -> principal.approved,
    revision |-> principal.revision + 1 ]

NetworkChanges(action, c) ==
  /\ principal.status = "active" /\ principal.revision < MaxRevision
  /\ action = "grant" => c \in principal.requested
  /\ principal' = Changed(action, c)
  /\ events' = events \cup {principal'}

\* Staff change the principal in Network itself.
StaffInNetwork ==
  /\ \E c \in Capability, action \in {"grant", "withdraw", "revoke"} : NetworkChanges(action, c)
  /\ UNCHANGED <<stored, view, networkRevision, call, doubt, requests, faults>>

---------------------------------------------------------------------------
(* The staff's requests *)

Grantable(v, c) == c \in v.requested \cap Bindable

\* The delivery a slot is at work on, if any.
Delivery(q) == IF call[q].at = "apply" THEN {call[q]}
               ELSE IF call[q].at \in {"write", "refresh", "refreshGrants", "refreshed"} THEN call[q].then ELSE {}

\* A call takes the first free slot; the principals are read and applied before the server
\* listens.
Serving(q) ==
  /\ call[q] = Idle /\ \A r \in Request : r < q => call[r] # Idle
  /\ \A r \in Request : call[r].at # "boot" /\ \A a \in Delivery(r) : ~a.boot

\* The registry's write, ready to be committed: granted is what the view held when it was
\* checked, revision the one of Network it is made for (0: none, it is this server's own).
Writing(change, c, revision, then) ==
  [at |-> "write", change |-> change, arg |-> c, granted |-> view.granted, revision |-> revision, then |-> then]
Asking(change, c) == [at |-> "ask", change |-> change, arg |-> c]

\* History: somebody acts on a view that is not what is stored.
Stale == IF view # stored THEN {"crossed"} ELSE {}

\* grant, DELETE grants/<c> and revoke: Network is asked first.
AskToGrant(q, c) == view.status # "revoked" /\ Grantable(view, c) /\ Put(q, Asking("grant", c))
AskToWithdraw(q, c) == Put(q, IF c \in view.granted THEN Asking("withdraw", c) ELSE Writing("withdraw", c, 0, {}))
AskToRevoke(q, c) == view.status # "revoked" /\ Put(q, Asking("revoke", c))

\* enable and disable (setStatus) and reload (replace) are this server's own.
SetStatus(q, status) ==
  /\ view.status \notin {"revoked", status}
  /\ Put(q, Writing("status", status, 0, {}))

Reload(q, caps) ==
  /\ view.status # "revoked" /\ caps \subseteq view.requested
  /\ Put(q, Writing("reload", caps, 0, {}))

StaffRequest(q) ==
  /\ Serving(q) /\ requests > 0
  /\ requests' = requests - 1
  /\ \/ \E c \in Capability : AskToGrant(q, c) \/ AskToWithdraw(q, c) \/ AskToRevoke(q, c)
     \/ \E status \in {"enabled", "disabled"} : SetStatus(q, status)
     \/ \E caps \in SUBSET Capability : Reload(q, caps)
  /\ doubt' = doubt \cup IF call'[q].at = "write" THEN Stale ELSE {}
  /\ UNCHANGED <<principal, events, stored, view, networkRevision, faults>>

\* Network makes the change and its answer is on the way.
NetworkAnswers(q) ==
  /\ call[q].at = "ask"
  /\ NetworkChanges(call[q].change, call[q].arg)
  /\ Put(q, [at |-> "answer", change |-> call[q].change, arg |-> call[q].arg,
             revision |-> principal'.revision])
  /\ UNCHANGED <<stored, view, networkRevision, doubt, requests, faults>>

\* Network refuses or is not reached, or its answer is lost on the way: the request fails.
NetworkFails(q) ==
  /\ call[q].at \in {"ask", "answer"}
  /\ Put(q, Idle)
  /\ UNCHANGED <<principal, events, stored, view, networkRevision, doubt, requests, faults>>

\* noteNetworkRevision. A revision that skips another one leaves that change unapplied.
Noted(revision) == IF revision > networkRevision THEN revision ELSE networkRevision
Skips(revision) == IF revision > networkRevision + 1 THEN {"skipped"} ELSE {}

\* Variant: what was checked before Network was asked is not checked again.
AnsweredUnchecked(q) ==
  /\ call[q].at = "answer"
  /\ networkRevision' = Noted(call[q].revision)
  /\ doubt' = doubt \cup Skips(call[q].revision) \cup Stale
  /\ Put(q, Writing(call[q].change, call[q].arg, call[q].revision, {}))
  /\ UNCHANGED <<principal, events, stored, view, requests, faults>>

\* The answer: its revision is noted, and the registry checks the view as it is now and
\* starts to write. That the revision is an older one is not looked at.
Answered(q) ==
  LET c == call[q].arg
      change == call[q].change
  IN /\ call[q].at = "answer"
     /\ networkRevision' = Noted(call[q].revision)
     /\ doubt' = doubt \cup Skips(call[q].revision) \cup Stale
     /\ Put(q, IF \/ change = "grant" /\ (view.status = "revoked" \/ ~Grantable(view, c) \/ c \in view.granted)
                  \/ change = "revoke" /\ view.status = "revoked"
               THEN Idle ELSE Writing(change, c, call[q].revision, {}))
     /\ UNCHANGED <<principal, events, stored, view, requests, faults>>

---------------------------------------------------------------------------
(* The registry's writes: a transaction, then the row and its grants are read again *)

Write(w) ==
  CASE w.change = "grant" -> [stored EXCEPT !.granted = @ \cup {w.arg}]
    [] w.change = "withdraw" -> [stored EXCEPT !.granted = @ \ {w.arg}]
    [] w.change = "status" -> [stored EXCEPT !.status = w.arg]
    [] w.change = "revoke" -> [stored EXCEPT !.status = "revoked", !.granted = @ \ w.granted]
    [] w.change = "reload" -> [stored EXCEPT !.requested = w.arg, !.granted = @ \ (w.granted \ w.arg)]

\* then is the delivery that goes on after the write (a set of at most one), with the view
\* the write returned.
Proceed(then, v) == IF then = {} THEN Idle ELSE [(CHOOSE a \in then : TRUE) EXCEPT !.current = v]

\* History: q has read the view for a write it has still to make, for another revision than r.
Misses(q, revision) ==
  \/ call[q].at = "write" /\ (revision = 0 \/ call[q].revision # revision)
  \/ \E a \in Delivery(q) : a.principal.revision # revision

Commit(q) ==
  LET w == call[q] IN
  /\ w.at = "write"
  /\ stored' = Write(w)
  /\ doubt' = doubt \cup
       IF stored' = stored THEN {}
       ELSE (IF \E r \in Request \ {q} : Misses(r, w.revision) THEN {"crossed"} ELSE {})
            \cup IF w.revision # 0 /\ w.revision < networkRevision THEN {"late"} ELSE {}
  /\ Put(q, IF w.change = "withdraw" /\ stored' = stored
            THEN IF w.then = {} THEN Idle ELSE CHOOSE a \in w.then : TRUE
            ELSE [at |-> "refresh", then |-> w.then])
  /\ UNCHANGED <<principal, events, view, networkRevision, requests, faults>>

RefreshRow(q) ==
  /\ call[q].at = "refresh"
  /\ Put(q, [at |-> "refreshGrants", row |-> stored, then |-> call[q].then])
  /\ UNCHANGED <<principal, events, stored, view, networkRevision, doubt, requests, faults>>

RefreshGrants(q) ==
  /\ call[q].at = "refreshGrants"
  /\ Put(q, [call[q] EXCEPT !.at = "refreshed", !.row.granted = stored.granted])
  /\ UNCHANGED <<principal, events, stored, view, networkRevision, doubt, requests, faults>>

RefreshView(q) ==
  /\ call[q].at = "refreshed"
  /\ view' = call[q].row
  /\ Put(q, Proceed(call[q].then, view'))
  /\ UNCHANGED <<principal, events, stored, networkRevision, doubt, requests, faults>>

\* A failed transaction ends the request, or leaves the event to be delivered again;
\* at boot it is logged and the server starts.
WriteFails(q) ==
  LET w == call[q] IN
  /\ w.at = "write" /\ faults > 0
  /\ faults' = faults - 1
  /\ doubt' = doubt \cup
       IF w.then # {} THEN IF \E a \in w.then : a.boot THEN {"unread"} ELSE {}
       ELSE IF w.revision = 0 THEN {} ELSE {"unwritten"}
  /\ Put(q, Idle)
  /\ UNCHANGED <<principal, events, stored, view, networkRevision, requests>>

---------------------------------------------------------------------------
(* applyNetwork: an event's principal, or the one read at boot *)

\* What is to be done for p is read off the view once: first what to withdraw, then what
\* to grant. current is the view the last write returned.
Applying(p, boot) ==
  LET ends == p.status = "revoked" \/ view.status = "revoked" IN
  [ at |-> "apply", principal |-> p, boot |-> boot, current |-> view,
    withdraw |-> IF ends THEN {} ELSE view.granted \ p.approved,
    grant |-> IF ends THEN {} ELSE p.approved ]

Apply(q, p, boot) ==
  LET a == Applying(p, boot) IN
  Put(q, IF p.status = "revoked" /\ view.status # "revoked"
         THEN Writing("revoke", {}, p.revision, {a}) ELSE a)

\* Variant: the revision is noted before its writes have succeeded.
DeliverNoting(q, e) ==
  /\ e \in events /\ Serving(q)
  /\ IF e.revision <= networkRevision
     THEN events' \in {events, events \ {e}} /\ UNCHANGED <<call, networkRevision, doubt>>
     ELSE Apply(q, e, FALSE) /\ networkRevision' = e.revision /\ doubt' = doubt \cup Stale /\ UNCHANGED events
  /\ UNCHANGED <<principal, stored, view, requests, faults>>

\* An older or equal revision changes nothing. The answer to Events may be lost: the
\* event then stays and comes again.
Deliver(q, e) ==
  /\ e \in events /\ Serving(q)
  /\ IF e.revision <= networkRevision
     THEN events' \in {events, events \ {e}} /\ UNCHANGED <<call, doubt>>
     ELSE Apply(q, e, FALSE) /\ doubt' = doubt \cup Stale /\ UNCHANGED events
  /\ UNCHANGED <<principal, stored, view, networkRevision, requests, faults>>

ApplyWithdrawal(q) ==
  LET a == call[q] IN
  /\ a.at = "apply"
  /\ \E c \in a.withdraw :
       Put(q, Writing("withdraw", c, a.principal.revision, {[a EXCEPT !.withdraw = @ \ {c}, !.current = view]}))
  /\ doubt' = doubt \cup Stale
  /\ UNCHANGED <<principal, events, stored, view, networkRevision, requests, faults>>

\* What the last view already grants, or cannot be granted, is passed over; the grant looks at
\* the registry's view again, and throws where the install has been revoked meanwhile: the
\* event then comes again.
ApplyGrant(q) ==
  LET a == call[q] IN
  /\ a.at = "apply" /\ a.withdraw = {}
  /\ \E c \in a.grant :
       LET rest == [a EXCEPT !.grant = @ \ {c}] IN
       Put(q, IF c \in a.current.granted \/ ~Grantable(a.current, c) THEN rest
              ELSE IF view.status = "revoked" \/ ~Grantable(view, c) THEN Idle
              ELSE IF c \in view.granted THEN [rest EXCEPT !.current = view]
              ELSE Writing("grant", c, a.principal.revision, {rest}))
  /\ doubt' = doubt \cup Stale
  /\ UNCHANGED <<principal, events, stored, view, networkRevision, requests, faults>>

\* Every write succeeded: only now is the revision remembered and the event answered. The
\* copy is in doubt no longer, unless calls have crossed: the view may have missed a write,
\* and a grant that crossed a reload may be one the manifest has ceased to ask for, which
\* no principal takes away.
Applied(q) ==
  LET a == call[q]
      p == a.principal
  IN /\ a.at = "apply" /\ a.withdraw = {} /\ a.grant = {}
     /\ networkRevision' = Noted(p.revision)
     /\ doubt' = IF p = principal THEN doubt \cap {"crossed"} ELSE doubt
     /\ events' \in {events, events \ {p}}
     /\ Put(q, Idle)
     /\ UNCHANGED <<principal, stored, view, requests, faults>>

\* The process dies and starts again: the views are loaded, nothing is noted.
Crash ==
  /\ faults > 0
  /\ faults' = faults - 1
  /\ view' = stored /\ networkRevision' = 0
  /\ call' = [q \in Request |-> IF \A r \in Request : q <= r THEN [at |-> "boot"] ELSE Idle]
  /\ UNCHANGED <<principal, events, stored, doubt, requests>>

BootRead(q) ==
  /\ call[q].at = "boot"
  /\ \/ Apply(q, principal, TRUE) /\ UNCHANGED doubt
     \/ Put(q, Idle) /\ doubt' = doubt \cup {"unread"}
  /\ UNCHANGED <<principal, events, stored, view, networkRevision, requests, faults>>

---------------------------------------------------------------------------
ModGrantsInit ==
  /\ \E m \in Installs : \E approved \in SUBSET (m.asks \cap Bindable) :
       /\ principal = [status |-> "active", requested |-> m.asks, approved |-> approved, revision |-> 1]
       /\ stored = [status |-> "enabled", requested |-> m.asks, granted |-> approved]
       /\ requests = m.requests /\ faults = m.faults
  /\ view = stored /\ networkRevision = 1
  /\ events = {} /\ call = [q \in Request |-> Idle]
  /\ doubt = {}

Serve(q) ==
  \/ StaffRequest(q) \/ NetworkAnswers(q) \/ NetworkFails(q) \/ Answered(q)
  \/ Commit(q) \/ RefreshRow(q) \/ RefreshGrants(q) \/ RefreshView(q) \/ WriteFails(q)
  \/ (\E e \in events : Deliver(q, e)) \/ ApplyWithdrawal(q) \/ ApplyGrant(q) \/ Applied(q) \/ BootRead(q)

ModGrantsNext == StaffInNetwork \/ Crash \/ \E q \in Request : Serve(q)

ModGrantsSpec == ModGrantsInit /\ [][ModGrantsNext]_modVars

---------------------------------------------------------------------------
Install == [status : {"enabled", "disabled", "revoked"}, requested : SUBSET Capability, granted : SUBSET Capability]

ModGrantsTypeOK ==
  /\ principal \in Principal /\ events \subseteq Principal
  /\ stored \in Install /\ view \in Install
  /\ networkRevision \in 0..MaxRevision
  /\ doubt \subseteq {"skipped", "unwritten", "unread", "late", "crossed"}

Quiet == events = {} /\ \A q \in Request : call[q] = Idle

Matches ==
  IF principal.status = "revoked" THEN stored.status = "revoked" /\ stored.granted = {}
  ELSE stored.granted = principal.approved \cap stored.requested \cap Bindable

\* registry.ts:498 "Make this copy match the install's principal in Network": once every event
\* has been answered.
CopyMatchesNetwork == Quiet => Matches

\* The same, whatever order the events came in, however often and beside whatever other calls,
\* and however many of their writes failed, with the exceptions doubt names: a revision that
\* skips another, an answer whose write failed, a principal not read at boot, a write made for
\* an older revision than one already noted, and a write that was decided on a view which
\* missed another's. A revocation is not even lost where a revision was skipped.
CopyFollowsNetwork ==
  /\ Quiet /\ doubt = {} => Matches
  /\ Quiet /\ doubt \subseteq {"skipped"} /\ principal.status = "revoked" => Matches

\* "Ends the install for good": a call that waited for Network, a delivery, a reload or a boot
\* does not bring a revoked install back, or grant it anything: each looks at the view again
\* before it writes. Only a write decided before the revocation reached the view, and committed
\* after it, does (statuses and grants are written unconditionally).
RevokedStaysRevoked ==
  [][stored.status = "revoked" /\ "crossed" \notin doubt' =>
       stored'.status = "revoked" /\ stored'.granted \subseteq stored.granted]_modVars
==================================================================================
