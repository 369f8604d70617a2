-------------------------- MODULE InstanceLeaseProofs --------------------------
(****************************************************************************)
(* What InstanceLeaseMC checks for three claims, proved for any number of   *)
(* holders and processes and for any clocks.                                *)
(****************************************************************************)
EXTENDS InstanceLease, TLAPS

USE LeaseAssumptions

\* Every grant is at most the row's version, and the row carries its holder's grant.
GrantsBelowRow ==
  /\ \A h \in Holder : version[h] <= row.version
  /\ row.holder \in Holder => version[row.holder] = row.version

\* A released row has lapsed, so that only a claim can follow.
StoppedIsLapsed == row.state = "stopped" => row.until = 0

\* An open write transaction is the one that locks the row, and owns it.
WriterOwnsRow ==
  /\ \A h \in Holder : h \in writing <=> lock = h
  /\ lock # NoHolder => row.holder = lock /\ row.version = version[lock]

\* The strengthening that every step preserves when each room asserts its own lease.
IInv ==
  /\ TypeOK
  /\ GrantsBelowRow
  /\ VersionsAreUnique
  /\ NullHeartbeatIsFinal
  /\ StoppedIsLapsed

\* Renewing keeps the owner and the version of a row.
LEMMA RenewedRow ==
  ASSUME NEW r \in Row, NEW now \in Time, NEW s \in LiveState
  PROVE  /\ Renewed(r, now, s) \in Row
         /\ Renewed(r, now, s).state = s
         /\ Renewed(r, now, s).holder = r.holder
         /\ Renewed(r, now, s).version = r.version
  BY DEF Renewed, Row, RowState

\* Stopping a row keeps them too, and ends its lease.
LEMMA StoppedRow ==
  ASSUME NEW r \in Row
  PROVE  /\ Stopped(r) \in Row
         /\ Stopped(r).state = "stopped"
         /\ Stopped(r).until = 0
         /\ Stopped(r).holder = r.holder
         /\ Stopped(r).version = r.version
  BY DEF Stopped, Row, RowState

\* Types hold from the first state on.
LEMMA InitTypeOK == Init => TypeOK
  BY DEF Init, TypeOK, Row, RowState, LiveState, Phase

\* A step keeps the types, and keeps the row and the phases in agreement.
LEMMA TypeOKStep == TypeOK /\ [Next]_vars => TypeOK'
<1> SUFFICES ASSUME TypeOK, [Next]_vars PROVE TypeOK'
  OBVIOUS
<1> USE DEF TypeOK, RowState, LiveState, Phase
<1>1. ASSUME NEW h \in Holder, NEW now \in Time, NEW answered \in BOOLEAN,
             Claim(h, now, answered)
      PROVE  TypeOK'
  BY <1>1 DEF Row, Claim, Claimed, CanClaim, Unlocked
<1>2. ASSUME NEW h \in Holder, BuildRoom(h) PROVE TypeOK'
  BY <1>2 DEF BuildRoom
<1>3. ASSUME NEW h \in Holder, NEW now \in Time, NEW state \in {"running", "draining"},
             Renew(h, now, state)
      PROVE  TypeOK'
  BY <1>3, RenewedRow DEF Renew, CanRenew, OwnedBy
<1>4. ASSUME NEW h \in Holder, NEW now \in Time, HeartbeatRenew(h, now) PROVE TypeOK'
  BY <1>4, RenewedRow, SMTT(30), ZenonT(30) DEF HeartbeatRenew, CanRenew, OwnedBy
<1>5. ASSUME NEW h \in Holder, NEW now \in Time, HeartbeatRegain(h, now) PROVE TypeOK'
  BY <1>5, RenewedRow, SMTT(30), ZenonT(30) DEF HeartbeatRegain, CanRegain, OwnedBy
<1>6. ASSUME NEW h \in Holder, HeartbeatFails(h) PROVE TypeOK'
  BY <1>6 DEF HeartbeatFails
<1>7. ASSUME NEW h \in Holder, Stop(h) PROVE TypeOK'
  BY <1>7, StoppedRow DEF Stop, OwnedBy
<1>8. ASSUME NEW h \in Holder, Abandon(h) PROVE TypeOK'
  BY <1>8 DEF Abandon
<1>9. ASSUME NEW h \in Holder, NEW now \in Time, WriteBegin(h, now) PROVE TypeOK'
  BY <1>9 DEF WriteBegin
<1>10. ASSUME NEW h \in Holder, WriteCommit(h) PROVE TypeOK'
  BY <1>10 DEF Row, WriteCommit
<1>11. ASSUME NEW h \in Holder, WriteAbort(h) PROVE TypeOK'
  BY <1>11 DEF WriteAbort
<1>12. ASSUME NEW p \in Process, Crash(p) PROVE TypeOK'
  BY <1>12 DEF Crash
<1>13. CASE UNCHANGED vars
  BY <1>13 DEF vars
<1> QED
  BY <1>1, <1>2, <1>3, <1>4, <1>5, <1>6, <1>7, <1>8, <1>9, <1>10, <1>11, <1>12, <1>13
  DEF Next, HolderStep

\* The row, the phases and the versions always have their types, and a holder has a
\* version exactly when it has claimed.
THEOREM TypeCorrect == Spec => []TypeOK
  BY InitTypeOK, TypeOKStep, PTL DEF Spec
--------------------------------------------------------------------------------
\* The grants and the row stay in step: a claim hands out the next version, and no
\* other statement of the registry changes a version or a holder.
LEMMA IInvStep == IInv /\ [Next]_vars => IInv'
<1> SUFFICES ASSUME IInv, [Next]_vars PROVE IInv'
  OBVIOUS
<1>0. TypeOK'
  BY TypeOKStep DEF IInv
<1> USE <1>0 DEF IInv, TypeOK, GrantsBelowRow, VersionsAreUnique, NullHeartbeatIsFinal,
                 StoppedIsLapsed
<1>1. ASSUME NEW h \in Holder, NEW now \in Time, NEW answered \in BOOLEAN,
             Claim(h, now, answered)
      PROVE  IInv'
  <2>1. /\ row'.state = "starting"
        /\ row'.holder = h
        /\ row'.version = row.version + 1
        /\ version' = [version EXCEPT ![h] = row.version + 1]
        /\ phase' \in {[phase EXCEPT ![h] = "claimed"], [phase EXCEPT ![h] = "dead"]}
    BY <1>1 DEF Claim, Claimed
  <2>2. row.version \in Nat
    BY DEF Row
  <2>3. GrantsBelowRow'
    BY <2>1, <2>2
  <2>4. VersionsAreUnique'
    BY <2>1, <2>2
  <2>5. NullHeartbeatIsFinal'
    BY <2>1
  <2>6. StoppedIsLapsed'
    BY <2>1
  <2> QED
    BY <2>3, <2>4, <2>5, <2>6
<1>2. ASSUME NEW h \in Holder, BuildRoom(h) PROVE IInv'
  BY <1>2 DEF BuildRoom
<1>3. ASSUME NEW h \in Holder, NEW now \in Time, NEW state \in {"running", "draining"},
             Renew(h, now, state)
      PROVE  IInv'
  BY <1>3, RenewedRow, SMTT(30), ZenonT(30) DEF Renew, CanRenew, OwnedBy, LiveState
<1>4. ASSUME NEW h \in Holder, NEW now \in Time, HeartbeatRenew(h, now) PROVE IInv'
  <2>1. CASE CanRenew(row, h, version[h], now)
    <3>1. /\ row'.state = "running"
          /\ row'.holder = row.holder
          /\ row'.version = row.version
          /\ UNCHANGED <<phase, version>>
      <4>1. row' = Renewed(row, now, "running") /\ UNCHANGED <<phase, version>>
        BY <1>4, <2>1 DEF HeartbeatRenew
      <4> QED
        BY <4>1, RenewedRow DEF LiveState
    <3>2. row.holder = h /\ phase[h] = "built"
      BY <1>4, <2>1 DEF HeartbeatRenew, CanRenew, OwnedBy
    <3> QED
      BY <3>1, <3>2
  <2>2. CASE ~CanRenew(row, h, version[h], now)
    BY <1>4, <2>2 DEF HeartbeatRenew
  <2> QED
    BY <2>1, <2>2
<1>5. ASSUME NEW h \in Holder, NEW now \in Time, HeartbeatRegain(h, now) PROVE IInv'
  <2>1. CASE CanRegain(row, h, version[h])
    BY <1>5, <2>1, RenewedRow DEF HeartbeatRegain, CanRegain, OwnedBy, LiveState
  <2>2. CASE ~CanRegain(row, h, version[h])
    BY <1>5, <2>2 DEF HeartbeatRegain, CanRegain, OwnedBy
  <2> QED
    BY <2>1, <2>2
<1>6. ASSUME NEW h \in Holder, HeartbeatFails(h) PROVE IInv'
  BY <1>6 DEF HeartbeatFails
<1>7. ASSUME NEW h \in Holder, Stop(h) PROVE IInv'
  <2>1. CASE OwnedBy(row, h, version[h])
    BY <1>7, <2>1, StoppedRow DEF Stop, OwnedBy
  <2>2. CASE ~OwnedBy(row, h, version[h])
    BY <1>7, <2>2 DEF Stop, OwnedBy
  <2> QED
    BY <2>1, <2>2
<1>8. ASSUME NEW h \in Holder, Abandon(h) PROVE IInv'
  BY <1>8 DEF Abandon
<1>9. ASSUME NEW h \in Holder, NEW now \in Time, WriteBegin(h, now) PROVE IInv'
  BY <1>9 DEF WriteBegin
<1>10. ASSUME NEW h \in Holder, WriteCommit(h) PROVE IInv'
  BY <1>10 DEF WriteCommit
<1>11. ASSUME NEW h \in Holder, WriteAbort(h) PROVE IInv'
  BY <1>11 DEF WriteAbort
<1>12. ASSUME NEW p \in Process, Crash(p) PROVE IInv'
  BY <1>12 DEF Crash
<1>13. CASE UNCHANGED vars
  BY <1>13 DEF vars
<1> QED
  BY <1>1, <1>2, <1>3, <1>4, <1>5, <1>6, <1>7, <1>8, <1>9, <1>10, <1>11, <1>12, <1>13
  DEF Next, HolderStep

\* The strengthened invariant holds in every reachable state.
LEMMA Invariance == Spec => []IInv
<1>1. Init => IInv
  BY InitTypeOK DEF Init, IInv, GrantsBelowRow, VersionsAreUnique, NullHeartbeatIsFinal,
                    StoppedIsLapsed
<1> QED
  BY <1>1, IInvStep, PTL DEF Spec

\* No two claims of a slot are granted the same version.
THEOREM VersionsUnique == Spec => []VersionsAreUnique
  BY Invariance, PTL DEF IInv

\* A room stopped because its heartbeat matched nothing never owns a live row again.
THEOREM NullIsFinal == Spec => []NullHeartbeatIsFinal
  BY Invariance, PTL DEF IInv

\* A row that was released goes back to a live state only through a claim, which
\* raises its version: a heartbeat on its way when the room was stopped cannot.
THEOREM ReleaseIsFinal == Spec => ReleasedStaysReleased
<1>1. ASSUME IInv, IInv', [Next]_vars, row.state = "stopped", row'.state # "stopped"
      PROVE  row'.version > row.version
  <2> USE <1>1 DEF IInv, TypeOK, Row, StoppedIsLapsed
  <2>1. ASSUME NEW h \in Holder, NEW now \in Time, NEW answered \in BOOLEAN,
               Claim(h, now, answered)
        PROVE  row'.version > row.version
    BY <2>1 DEF Claim, Claimed
  <2>2. ASSUME NEW h \in Holder, NEW now \in Time, CanRenew(row, h, version[h], now)
        PROVE  FALSE
    BY <2>2 DEF CanRenew
  <2>3. ASSUME NEW h \in Holder, CanRegain(row, h, version[h])
        PROVE  FALSE
    BY <2>3 DEF CanRegain
  <2>4. ASSUME NEW h \in Holder, Stop(h) PROVE FALSE
    BY <2>4, StoppedRow DEF Stop
  <2>5. ASSUME row' = row PROVE FALSE
    BY <2>5
  <2> QED
    BY <1>1, <2>1, <2>2, <2>3, <2>4, <2>5
    DEF Next, HolderStep, vars, BuildRoom, Renew, HeartbeatRenew, HeartbeatRegain,
        HeartbeatFails, Abandon, WriteBegin, WriteCommit, WriteAbort, Crash
<1> QED
  BY <1>1, Invariance, PTL DEF Spec, ReleasedStaysReleased
--------------------------------------------------------------------------------
(* Fencing, for the places where every room asserts its own lease.          *)

\* What fencing adds to IInv.
FenceInv == WriterOwnsRow /\ FormerHolderCannotCommit

\* An open transaction keeps the row as its guard found it, because every statement
\* that would change the row waits for the lock.
LEMMA FenceStep ==
  ASSUME ~SharedGuard
  PROVE  IInv /\ FenceInv /\ [Next]_vars => FenceInv'
<1> SUFFICES ASSUME IInv, FenceInv, [Next]_vars PROVE FenceInv'
  OBVIOUS
<1> USE ~SharedGuard
        DEF IInv, TypeOK, FenceInv, WriterOwnsRow, FormerHolderCannotCommit, Unlocked
<1>1. ASSUME lock = NoHolder, UNCHANGED <<lock, writing, commits>>
      PROVE  FenceInv'
  BY <1>1
<1>2. ASSUME NEW h \in Holder, BuildRoom(h) \/ HeartbeatFails(h) \/ Abandon(h)
      PROVE  FenceInv'
  BY <1>2 DEF BuildRoom, HeartbeatFails, Abandon
<1>3. ASSUME NEW h \in Holder, NEW now \in Time, WriteBegin(h, now) PROVE FenceInv'
  BY <1>3 DEF WriteBegin, Held, OwnedBy, Guard
<1>4. ASSUME NEW h \in Holder, WriteCommit(h) PROVE FenceInv'
  BY <1>4 DEF WriteCommit
<1>5. ASSUME NEW h \in Holder, WriteAbort(h) PROVE FenceInv'
  BY <1>5 DEF WriteAbort
<1>6. ASSUME NEW p \in Process, Crash(p) PROVE FenceInv'
  BY <1>6 DEF Crash
<1>7. CASE UNCHANGED vars
  BY <1>7 DEF vars
<1> QED
  BY <1>1, <1>2, <1>3, <1>4, <1>5, <1>6, <1>7
  DEF Next, HolderStep, Claim, Renew, HeartbeatRenew, HeartbeatRegain, Stop

\* Where rooms assert their own leases, the fence holds in every reachable state.
LEMMA FenceInvariance ==
  ASSUME ~SharedGuard
  PROVE  Spec => [](IInv /\ FenceInv)
<1>1. Init => FenceInv
  BY DEF Init, FenceInv, WriterOwnsRow, FormerHolderCannotCommit
<1> QED
  BY <1>1, FenceStep, Invariance, PTL DEF Spec

\* A former holder cannot commit after its lease is replaced, whatever the clocks
\* say and however claims, regains, crashes and transactions interleave.
THEOREM Fencing ==
  ASSUME ~SharedGuard
  PROVE  Spec => []FormerHolderCannotCommit
  BY FenceInvariance, PTL DEF FenceInv

\* No claim lands inside a transaction that has passed its guard.
THEOREM OwnerStable ==
  ASSUME ~SharedGuard
  PROVE  Spec => OwnerChangesBetweenWrites
<1>1. ASSUME IInv, FenceInv, [Next]_vars, row'.holder # row.holder
      PROVE  row'.version = row.version + 1 /\ writing = {}
  <2> USE <1>1 DEF IInv, TypeOK
  <2>1. ASSUME NEW h \in Holder, NEW now \in Time, NEW answered \in BOOLEAN,
               Claim(h, now, answered)
        PROVE  row'.version = row.version + 1 /\ writing = {}
    BY <2>1 DEF Claim, Claimed, Unlocked, FenceInv, WriterOwnsRow
  <2>2. \A now \in Time, s \in {"running", "draining"} : row' # Renewed(row, now, s)
    BY DEF Renewed
  <2>3. row' # Stopped(row) /\ row' # row
    BY DEF Stopped
  <2> QED
    BY <1>1, <2>1, <2>2, <2>3
    DEF Next, HolderStep, vars, BuildRoom, Renew, HeartbeatRenew, HeartbeatRegain,
        HeartbeatFails, Stop, Abandon, WriteBegin, WriteCommit, WriteAbort, Crash
<1> QED
  BY <1>1, FenceInvariance, PTL DEF Spec, OwnerChangesBetweenWrites

\* The lease implements the fenced store: a claim is a new epoch, a commit is the
\* current epoch's, and every other step leaves the store alone.
THEOREM LeaseImplementsFencedStore ==
  ASSUME ~SharedGuard
  PROVE  Spec => Fenced
<1>1. Init => Store!StoreInit
  BY DEF Init, Store!StoreInit
<1>2. ASSUME IInv, FenceInv, [Next]_vars
      PROVE  [Store!StoreNext]_(Store!storeVars)
  <2> USE <1>2 DEF IInv, TypeOK, Store!StoreNext, Store!storeVars, Store!Advance,
                   Store!OwnerCommits
  <2>1. ASSUME NEW h \in Holder, NEW now \in Time, NEW answered \in BOOLEAN,
               Claim(h, now, answered)
        PROVE  Store!Advance
    BY <2>1 DEF Claim, Claimed
  <2>2. ASSUME NEW h \in Holder, WriteCommit(h)
        PROVE  Store!OwnerCommits
    BY <2>2 DEF WriteCommit, FenceInv, WriterOwnsRow
  <2>3. ASSUME row' = row \/ row' = Stopped(row)
                 \/ \E now \in Time, s \in {"running", "draining"} : row' = Renewed(row, now, s),
               commits' = commits
        PROVE  UNCHANGED Store!storeVars
    BY <2>3 DEF Renewed, Stopped
  <2> QED
    BY <1>2, <2>1, <2>2, <2>3
    DEF Next, HolderStep, vars, BuildRoom, Renew, HeartbeatRenew, HeartbeatRegain,
        HeartbeatFails, Stop, Abandon, WriteBegin, WriteAbort, Crash
<1> QED
  BY <1>1, <1>2, FenceInvariance, PTL DEF Spec, Fenced, Store!StoreSpec
================================================================================
