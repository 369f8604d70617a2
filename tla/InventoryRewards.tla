---------------------------- MODULE InventoryRewards -----------------------------
(* The items achievements earn: after an unlock commits, and every few       *)
(* minutes, each pending row is settled with one grant in OpenVibe.Inventory *)
(* under a key of its own; accounts merge and guests are adopted meanwhile.  *)
EXTENDS Naturals, Sequences, FiniteSets, SequencesExt

CONSTANTS
  Achievement,  \* the ones with a reward
  RewardGuest, RewardPerson,  \* accounts
  Limit,        \* rows one scan takes (retryPending's limit)
  MaxFailed     \* bound: grants that fail

ASSUME InventoryRewardsAssumption ==
  /\ RewardGuest \cap RewardPerson = {} /\ IsFiniteSet(Achievement)
  /\ Limit \in Nat \ {0} /\ MaxFailed \in Nat

VARIABLES
  item,      \* game_achievements.item_state of the rows there are
  order,     \* those rows by item_updated_at, never settled first
  resting,   \* failed rows whose backoff has not passed
  worker,    \* "timer" (retryPending) and "event" (settleSubject): what each is settling
  held,      \* the keys Inventory has granted (external)
  merged,    \* who became whom: [from, into]
  failed

rewardVars == <<item, order, resting, worker, held, merged, failed>>

RewardAccount == RewardGuest \cup RewardPerson
Key == Achievement \X RewardAccount
Of(k) == k[2]
Settler == {"timer", "event"}

Free == [at |-> "idle", todo |-> <<>>]

\* active: the keys being settled.
Active == {worker[w].row : w \in {v \in Settler : worker[v].at \in {"ask", "granted", "failed"}}}

ToEnd(s, k) == Append(Remove(s, k), k)

---------------------------------------------------------------------------
\* A row of an unlock commits (recordRound, recordUnlocks): never settled, so before the ones that were.
Unlock(k) ==
  /\ k \notin DOMAIN item
  /\ item' = [x \in DOMAIN item \cup {k} |-> IF x = k THEN "none" ELSE item[x]]
  /\ LET fresh == SelectSeq(order, LAMBDA x : item[x] = "none")
     IN order' = fresh \o <<k>> \o SelectSeq(order, LAMBDA x : item[x] # "none")
  /\ UNCHANGED <<resting, worker, held, merged, failed>>

\* Variant: a failed row is never tried again.
PendingNew(x) == item[x] = "none" /\ Of(x) \in RewardPerson

\* settleSubject, after a commit, an adoption or a merge: what the person has that is not granted.
Pending(x) == item[x] # "granted" /\ Of(x) \in RewardPerson
SettleSubject(p) ==
  LET mine == SelectSeq(order, LAMBDA x : Pending(x) /\ Of(x) = p)
  IN /\ worker["event"] = Free /\ mine # <<>>
     /\ worker' = [worker EXCEPT !["event"] = [at |-> "next", todo |-> mine]]
     /\ UNCHANGED <<item, order, resting, held, merged, failed>>

\* retryPending: the longest unsettled first, at most Limit; a failed one waits for its backoff.
RetryPending ==
  LET pending == SelectSeq(order, Pending)
      due == SelectSeq(SubSeq(pending, 1, IF Len(pending) < Limit THEN Len(pending) ELSE Limit),
                       LAMBDA x : x \notin resting)
  IN /\ worker["timer"] = Free /\ due # <<>>
     /\ worker' = [worker EXCEPT !["timer"] = [at |-> "next", todo |-> due]]
     /\ UNCHANGED <<item, order, resting, held, merged, failed>>

\* settle: one that is being settled is left to that call; the row is read again first.
Settle(w) ==
  LET k == Head(worker[w].todo)
      rest == Tail(worker[w].todo)
  IN /\ worker[w].at = "next"
     /\ worker' = [worker EXCEPT ![w] =
          IF worker[w].todo = <<>> THEN Free
          ELSE IF k \in Active \/ k \notin DOMAIN item \/ (k \in DOMAIN item /\ item[k] = "granted")
          THEN [at |-> "next", todo |-> rest]
          ELSE [at |-> "ask", todo |-> rest, row |-> k]]
     /\ UNCHANGED <<item, order, resting, held, merged, failed>>

\* The grant: Inventory answers a key it has granted before with the same item. A refusal,
\* a timeout and a lost answer are one error to the caller.
GrantAnswered(w) ==
  /\ worker[w].at = "ask"
  /\ held' = held \cup {worker[w].row}
  /\ worker' = [worker EXCEPT ![w].at = "granted"]
  /\ UNCHANGED <<item, order, resting, merged, failed>>

GrantFails(w) ==
  /\ worker[w].at = "ask" /\ failed < MaxFailed
  /\ failed' = failed + 1
  /\ held' \in {held, held \cup {worker[w].row}}
  /\ worker' = [worker EXCEPT ![w].at = "failed"]
  /\ UNCHANGED <<item, order, resting, merged>>

\* UPDATE: a row that was moved meanwhile is not there; a failure never undoes a grant.
Recorded(k, state) ==
  k \in DOMAIN item /\ (state = "failed" => item[k] # "granted")

Record(w, state) ==
  LET k == worker[w].row IN
  /\ worker[w].at = state
  /\ worker' = [worker EXCEPT ![w] = [at |-> "next", todo |-> worker[w].todo]]
  /\ IF Recorded(k, state)
     THEN /\ item' = [item EXCEPT ![k] = state]
          /\ order' = ToEnd(order, k)
          /\ resting' = IF state = "failed" THEN resting \cup {k} ELSE resting \ {k}
     ELSE UNCHANGED <<item, order, resting>>
  /\ UNCHANGED <<held, merged, failed>>

BackoffEnds(k) ==
  /\ k \in resting
  /\ resting' = resting \ {k}
  /\ UNCHANGED <<item, order, worker, held, merged, failed>>

---------------------------------------------------------------------------
\* moveProgress: the rows become into's. A person's state comes along and a grant of either
\* counts for both; a guest's is dropped.
State(k, from) == IF from \in RewardPerson THEN item[k] ELSE "none"

Joined(k, from, into) ==
  LET a == <<k[1], from>>
      b == <<k[1], into>>
  IN IF a \notin DOMAIN item THEN item[b]
     ELSE IF b \notin DOMAIN item THEN State(a, from)
     ELSE IF item[b] = "granted" \/ State(a, from) = "granted" THEN "granted" ELSE "none"

Move(from, into) ==
  LET Become(k) == IF Of(k) = from THEN <<k[1], into>> ELSE k
      keys == {Become(k) : k \in DOMAIN item}
  IN /\ from # into /\ into \in RewardPerson
     /\ \A m \in merged : m.from \notin {from, into}
     /\ merged' = merged \cup {[from |-> from, into |-> into]}
     /\ item' = [k \in keys |-> IF Of(k) = into THEN Joined(k, from, into) ELSE item[k]]
        \* GREATEST of the two times: the later place is kept.
     /\ order' = FoldLeft(ToEnd, <<>>, [i \in DOMAIN order |-> Become(order[i])])
     /\ resting' = {k \in keys : item'[k] = "failed" /\ \E r \in resting : Become(r) = k}
     /\ UNCHANGED <<worker, held, failed>>

---------------------------------------------------------------------------
RewardsInit ==
  /\ item = <<>> /\ order = <<>> /\ resting = {}
  /\ worker = [w \in Settler |-> Free]
  /\ held = {} /\ merged = {} /\ failed = 0

Settling(w) == Settle(w) \/ GrantAnswered(w) \/ GrantFails(w) \/ Record(w, "granted") \/ Record(w, "failed")

RewardsNext ==
  \/ \E k \in Key : Unlock(k) \/ BackoffEnds(k)
  \/ \E p \in RewardPerson : SettleSubject(p)
  \/ RetryPending
  \/ \E w \in Settler : Settling(w)
  \/ \E from, into \in RewardAccount : Move(from, into)

---------------------------------------------------------------------------
RewardsTypeOK ==
  /\ DOMAIN item \subseteq Key /\ \A k \in DOMAIN item : item[k] \in {"none", "failed", "granted"}
  /\ Len(order) = Cardinality(DOMAIN item) /\ ToSet(order) = DOMAIN item
  /\ resting \subseteq {k \in DOMAIN item : item[k] = "failed"}
  /\ held \subseteq Key

\* Who x is: itself and the accounts that became x.
Lineage(x) ==
  LET Into(S) == S \cup {m.from : m \in {n \in merged : n.into \in S}}
  IN Into(Into({x}))

\* A row says granted only of an item Inventory gave this person, under whichever account it was
\* asked for.
GrantedIsHeld ==
  \A k \in DOMAIN item : item[k] = "granted" => \E x \in Lineage(Of(k)) : <<k[1], x>> \in held

\* A grant once recorded is never unrecorded: not by a late failure of another call, nor when
\* accounts merge, so it is not asked for again.
GrantsStay ==
  [][\A k \in DOMAIN item : item[k] = "granted" =>
       \E j \in DOMAIN item' : j[1] = k[1] /\ item'[j] = "granted"
                               /\ (j = k \/ [from |-> Of(k), into |-> Of(j)] \in merged')]_rewardVars

\* With Inventory answering in the end, every person's unlock gets its item: no failed row keeps
\* the others out of the bounded scan for good, and none is left between the two workers.
RewardsArrive == <>[](\A k \in DOMAIN item : Of(k) \in RewardPerson => item[k] = "granted")
===============================================================================
