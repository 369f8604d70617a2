------------------------------- MODULE CasualSaves -------------------------------
(****************************************************************************)
(* The casual games' saves: the kit's rules as one reducer                  *)
(* (packages/casual/src/actions.ts) and the transactions that apply it to   *)
(* a save under an idempotency key, with the ledger lines of every change   *)
(* (apps/server/src/casual/store.ts, packages/persistence pg/casualData.ts).*)
(*                                                                          *)
(* Each transaction locks the save, so it is one step; requests wait for    *)
(* that lock in any order, answers get lost and pages retry. The time read  *)
(* before the lock is taken for the time of the change. A battle and a draw *)
(* may come out any way the rules allow. One time unit is a minute of the   *)
(* idle chest and the time one point of energy takes.                       *)
(****************************************************************************)
EXTENDS Integers, Sequences, FiniteSets, FiniteSetsExt

CONSTANTS
  Guest, User,    \* the browser's guest token and the account that signs in on it
  Hero, Starter,  \* heroes; the one everybody starts with
  Legendary,      \* heroes of the highest rarity
  Epic,           \* heroes of the one below
  LastStage, StageEnergy, FreeFirstClears,
  First, Repeat,  \* rewards of a stage's first clear and of later ones
  Calendar,       \* the login rewards, one after the other
  Quest,          \* the daily quest: [counter, target, reward]
  Product,        \* the daily product: [gems, count, reward]
  StartWallet, MaxEnergy, GoldPerMinute, IdleCap,
  DrawCost, Many, Pity, DuplicateShards, FuseShards, StarCost, LevelsPerStar, MaxStars,
  DayLength, MaxTime,
  Key, Ask,       \* bound: the actions pages send, and what each may ask for
  MaxAttempts,    \* how often a page sends each request, three times at most
  MaxPages,       \* bound: pages of a player that wait for an answer at once
  MaxSaves        \* bound: saves ever created

Owner == {Guest, User}

\* A reward, as amounts of the assets it pays and the energy it gives.
Currency == {<<"gold", Starter>>, <<"gems", Starter>>, <<"gemsPaid", Starter>>, <<"sigils", Starter>>}
Gold == <<"gold", Starter>>
Gems == <<"gems", Starter>>
GemsPaid == <<"gemsPaid", Starter>>
Sigils == <<"sigils", Starter>>
Gear == <<"gear", Starter>>
Shard(h) == <<"shard", h>>
HeroAsset(h) == <<"hero", h>>
Asset == Currency \cup {Gear} \cup {Shard(h) : h \in Hero} \cup {HeroAsset(h) : h \in Hero}

Amounts == [Asset -> Nat]
Reward == [pay: Amounts, energy: Nat]

\* What a page can ask for.
Action ==
  [t : {"collect", "quest", "login", "buy"}] \cup [t : {"battle", "sweep"}, stage : Nat \ {0}] \cup
  [t : {"star", "fuse", "equip", "unequip"}, hero : Hero] \cup
  [t : {"level"}, hero : Hero, times : Nat \ {0}] \cup [t : {"summon"}, count : Nat \ {0}]

ASSUME CasualAssumptions ==
  /\ Guest # User
  /\ Starter \in Hero /\ Legendary \subseteq Hero /\ Epic \subseteq Hero
  /\ {First, Repeat, Quest.reward, Product.reward} \subseteq Reward
  /\ Calendar \in Seq(Reward) /\ Calendar # <<>>
  /\ StartWallet \in [Currency -> Nat]
  /\ MaxAttempts \in [Key -> 1 .. 3]
  /\ Quest.target \in Nat /\ Product.gems \in Nat /\ Product.count \in Nat
  /\ \A k \in Key : Ask[k] \subseteq Action
  /\ {LastStage, StageEnergy, FreeFirstClears, MaxEnergy, GoldPerMinute, IdleCap, MaxTime} \subseteq Nat
  /\ {DrawCost, Many, Pity, DuplicateShards, FuseShards, StarCost, LevelsPerStar, MaxStars,
      DayLength, MaxPages, MaxSaves} \subseteq Nat \ {0}

VARIABLES
  save,     \* casual_saves: each owner's save, NoSave without one
  ledger,   \* casual_ledger: the sum of each owner's lines of each asset
  records,  \* casual_actions: the keys of each owner, with their time
  asked,    \* the pages' requests by key: owner, action, how often it was sent
  waiting,  \* how many attempts of each key are at the server
  clock,
  saves,    \* saves created
  applied,  \* history: how often each key has been applied to each save
  claims    \* history: the daily rewards each save has been paid

vars == <<save, ledger, records, asked, waiting, clock, saves, applied, claims>>

NoSave == [id |-> 0]
NotAsked == [sent |-> 0, over |-> FALSE]   \* over: answered or given up
Closed == [sent |-> 0, over |-> TRUE]      \* and no attempt at the server any more
Day(t) == t \div DayLength
Nothing == [x \in Asset |-> 0]
Pays(x, n) == [y \in Asset |-> IF y = x THEN n ELSE 0]
--------------------------------------------------------------------------------
(* The reducer works on an outcome: the save and the ledger's lines so far. *)

Plus(f, g) == [x \in Asset |-> f[x] + g[x]]

\* credit, addShards, addGear, a new hero: the holding and its line change together.
Credit(o, pay) == [s |-> [o.s EXCEPT !.has = Plus(@, pay)], lines |-> Plus(o.lines, pay)]
Debit(o, x, n) == Credit(o, Pays(x, -n))

\* Gems earned in play go first, then gems bought with money.
SpendGems(o, n) ==
  LET free == IF o.s.has[Gems] < n THEN o.s.has[Gems] ELSE n
  IN IF o.s.has[Gems] + o.s.has[GemsPaid] < n
       THEN {}
       ELSE {Debit(Debit(o, Gems, free), GemsPaid, n - free)}

Spend(o, x, n) == IF o.s.has[x] < n THEN {} ELSE {Debit(o, x, n)}

EnergyNow(s, now) ==
  IF s.energy >= MaxEnergy
    THEN s.energy
    ELSE Min({MaxEnergy, s.energy + Max({0, now - s.energyAt})})

ChangeEnergy(o, n, now) ==
  [o EXCEPT !.s.energy = EnergyNow(o.s, now) + n,
            !.s.energyAt = IF EnergyNow(o.s, now) >= MaxEnergy THEN now ELSE Max({@, now}),
            !.s.spent = @ - Min({n, 0}),
            !.s.given = @ + Max({n, 0})]

Grant(o, r, now) ==
  IF r.energy = 0 THEN Credit(o, r.pay) ELSE ChangeEnergy(Credit(o, r.pay), r.energy, now)

\* rollQuests: another day starts its quests anew.
Roll(s, now) ==
  IF s.day = Day(now)
    THEN s
    ELSE [s EXCEPT !.day = Day(now), !.claimed = FALSE, !.progress = 0]

Bump(o, counter, n) ==
  IF Quest.counter = counter THEN [o EXCEPT !.s.progress = @ + n] ELSE o

\* A new hero joins the collection.
Unlock(o, h) ==
  LET u == Credit(o, Pays(HeroAsset(h), 1))
  IN [u EXCEPT !.s.level[h] = 1, !.s.stars[h] = 1]

Owned(s, h) == s.has[HeroAsset(h)] > 0
--------------------------------------------------------------------------------
(* The actions: the outcomes each may have; none is a refusal.              *)

\* Variant: the chest's time stays what it was.
CollectAgain(o, now) ==
  LET minutes == Min({Max({0, now - o.s.idleAt}), IdleCap})
      paid == Credit(o, Pays(Gold, minutes * (GoldPerMinute + o.s.cleared)))
  IN IF minutes < 1 THEN {} ELSE {[paid EXCEPT !.s.idlePaid = @ + minutes]}

\* The idle chest pays at most IdleCap minutes, and starts anew.
Collect(o, now) ==
  LET minutes == Min({Max({0, now - o.s.idleAt}), IdleCap})
      paid == Credit(o, Pays(Gold, minutes * (GoldPerMinute + o.s.cleared)))
  IN IF minutes < 1 THEN {} ELSE {[paid EXCEPT !.s.idleAt = now, !.s.idlePaid = @ + minutes]}

\* A lost battle costs one point of energy, a first clear of an early stage none.
Battle(o, stage, now) ==
  LET first == stage = o.s.cleared + 1
      cost == IF first /\ stage <= FreeFirstClears THEN 0 ELSE StageEnergy
      Paid(n) == IF n = 0 THEN o ELSE Bump(ChangeEnergy(o, -n, now), "energy_spent", n)
      Won == Bump(Grant(Paid(cost), IF first THEN First ELSE Repeat, now), "battle_won", 1)
  IN IF stage > o.s.cleared + 1 \/ stage > LastStage \/ EnergyNow(o.s, now) < cost
       THEN {}
       ELSE {Paid(Min({cost, 1}))} \cup
            {[Won EXCEPT !.s.cleared = Max({@, stage}),
                         !.s.swept = IF stars = 3 THEN @ \cup {stage} ELSE @] : stars \in {1, 3}}

Sweep(o, stage, now) ==
  IF stage > o.s.cleared \/ stage \notin o.s.swept \/ EnergyNow(o.s, now) < StageEnergy
    THEN {}
    ELSE LET paid == Bump(ChangeEnergy(o, -StageEnergy, now), "energy_spent", StageEnergy)
         IN {Bump(Grant(paid, Repeat, now), "battle_won", 1)}

\* As many levels as asked for, allowed by the stars and paid by the gold; one gold each.
Level(o, h, times) ==
  LET gained == Min({times, LevelsPerStar * o.s.stars[h] - o.s.level[h], o.s.has[Gold]})
      paid == Bump(Debit(o, Gold, gained), "hero_levelled", gained)
  IN IF ~Owned(o.s, h) \/ gained < 1 THEN {} ELSE {[paid EXCEPT !.s.level[h] = @ + gained]}

Star(o, h) ==
  IF ~Owned(o.s, h) \/ o.s.stars[h] >= MaxStars \/ o.s.has[Shard(h)] < StarCost
    THEN {}
    ELSE {[Bump(Debit(p, Shard(h), StarCost), "star_up", 1) EXCEPT !.s.stars[h] = @ + 1] :
            p \in Spend(o, Gold, StarCost)}

Fuse(o, h) ==
  IF Owned(o.s, h) \/ o.s.has[Shard(h)] < FuseShards
    THEN {}
    ELSE {Unlock(Debit(o, Shard(h), FuseShards), h)}

\* A spare piece goes on, the piece worn so far comes back; the ledger does not see it.
Equip(o, h) ==
  IF ~Owned(o.s, h) \/ o.s.has[Gear] < 1
    THEN {}
    ELSE {[o EXCEPT !.s.has[Gear] = IF h \in o.s.worn THEN @ ELSE @ - 1, !.s.worn = @ \cup {h}]}

Unequip(o, h) ==
  IF ~Owned(o.s, h)
    THEN {}
    ELSE {[o EXCEPT !.s.has[Gear] = IF h \in o.s.worn THEN @ + 1 ELSE @, !.s.worn = @ \ {h}]}

\* The draws since the last legendary, after a sequence of draws.
PityAfter(pity, draws) ==
  LET hits == {i \in DOMAIN draws : draws[i] \in Legendary}
  IN IF hits = {} THEN pity + Len(draws) ELSE Len(draws) - Max(hits)

\* A draw that reaches the pity is legendary, and many at once hold a good one.
Draws(pity, n) ==
  {d \in [1 .. n -> Hero] :
     /\ \A i \in 1 .. n :
          PityAfter(pity, SubSeq(d, 1, i - 1)) + 1 >= Pity => d[i] \in Legendary
     /\ n = Many => \E i \in 1 .. n : d[i] \in Legendary \cup Epic}

\* The first draw of a hero unlocks it, the others are shards.
Drawn(o, draws) ==
  LET Times(h) == Cardinality({i \in DOMAIN draws : draws[i] = h})
      Fresh(h) == ~Owned(o.s, h) /\ Times(h) > 0
      shards == [x \in Asset |->
        IF \E h \in Hero : x = Shard(h)
          THEN DuplicateShards * (Times(x[2]) - IF Fresh(x[2]) THEN 1 ELSE 0)
          ELSE IF \E h \in Hero : x = HeroAsset(h) /\ Fresh(h) THEN 1 ELSE 0]
      paid == Credit(o, shards)
  IN [paid EXCEPT !.s.pity = PityAfter(@, draws),
                  !.s.level = [h \in Hero |-> IF Fresh(h) THEN 1 ELSE @[h]],
                  !.s.stars = [h \in Hero |-> IF Fresh(h) THEN 1 ELSE @[h]]]

Summon(o, n) ==
  {Bump(Drawn(p, d), "summoned", n) :
     p \in Spend(o, Sigils, DrawCost * n), d \in Draws(o.s.pity, n)}

ClaimQuest(o, now) ==
  IF o.s.claimed \/ o.s.progress < Quest.target
    THEN {}
    ELSE {[Grant(o, Quest.reward, now) EXCEPT !.s.claimed = TRUE]}

Login(o, now) ==
  LET reward == Calendar[(o.s.logins % Len(Calendar)) + 1]
  IN IF o.s.lastLogin = Day(now)
       THEN {}
       ELSE {[Bump(Grant(o, reward, now), "login", 1) EXCEPT !.s.lastLogin = Day(now),
                                                            !.s.logins = @ + 1]}

\* boughtThisPeriod: what was bought on another day does not count.
Bought(s, now) == IF s.buyDay = Day(now) THEN s.bought ELSE 0

Buy(o, now) ==
  IF Bought(o.s, now) >= Product.count
    THEN {}
    ELSE {[Grant(p, Product.reward, now) EXCEPT !.s.buyDay = Day(now),
                                               !.s.bought = Bought(o.s, now) + 1] :
            p \in SpendGems(o, Product.gems)}

\* apply: the outcomes of one action on a copy of the save.
Outcomes(s, act, now) ==
  LET o == [s |-> Roll(s, now), lines |-> Nothing]
  IN CASE act.t = "collect" -> Collect(o, now)
       [] act.t = "battle"  -> Battle(o, act.stage, now)
       [] act.t = "sweep"   -> Sweep(o, act.stage, now)
       [] act.t = "level"   -> Level(o, act.hero, act.times)
       [] act.t = "star"    -> Star(o, act.hero)
       [] act.t = "fuse"    -> Fuse(o, act.hero)
       [] act.t = "equip"   -> Equip(o, act.hero)
       [] act.t = "unequip" -> Unequip(o, act.hero)
       [] act.t = "summon"  -> Summon(o, act.count)
       [] act.t = "quest"   -> ClaimQuest(o, now)
       [] act.t = "login"   -> Login(o, now)
       [] act.t = "buy"     -> Buy(o, now)
--------------------------------------------------------------------------------
(* The transactions.                                                        *)

\* newPlayer: the starting hero and wallet, with their ledger lines.
NewSave(id, now) ==
  LET empty == [id |-> id, has |-> Nothing, energy |-> MaxEnergy, energyAt |-> now,
                level |-> [h \in Hero |-> 0], stars |-> [h \in Hero |-> 0], worn |-> {},
                cleared |-> 0, swept |-> {}, idleAt |-> now, day |-> Day(now), progress |-> 0,
                claimed |-> FALSE, lastLogin |-> -1, logins |-> 0, pity |-> 0, buyDay |-> -1,
                bought |-> 0, born |-> now, idlePaid |-> 0, spent |-> 0, given |-> 0]
      wallet == [x \in Asset |-> IF x \in Currency THEN StartWallet[x] ELSE 0]
  IN Credit(Unlock([s |-> empty, lines |-> Nothing], Starter), wallet)

Init ==
  /\ save = [a \in Owner |-> NoSave]
  /\ ledger = [a \in Owner |-> Nothing]
  /\ records = [a \in Owner |-> {}]
  /\ asked = [k \in Key |-> NotAsked]
  /\ waiting = [k \in Key |-> 0]
  /\ clock = 0 /\ saves = 0
  /\ applied = [k \in Key |-> [i \in 1 .. MaxSaves |-> 0]]
  /\ claims = [i \in 1 .. MaxSaves |-> [d \in Day(0) .. Day(MaxTime) |->
                 [login |-> 0, quest |-> 0, buy |-> 0]]]

HasSave(a) == save[a] # NoSave

\* Variant: the ledger stays with the guest.
MoveWithoutLedger ==
  /\ save' = [save EXCEPT ![User] = save[Guest], ![Guest] = NoSave]
  /\ records' = [records EXCEPT ![Guest] = {}]
  /\ UNCHANGED <<ledger, saves>>

\* moveCasualSaves: the guest's save, lines and records go to an account without a save.
Move ==
  /\ save' = [save EXCEPT ![User] = save[Guest], ![Guest] = NoSave]
  /\ ledger' = [ledger EXCEPT ![User] = Plus(@, ledger[Guest]), ![Guest] = Nothing]
  /\ records' = [records EXCEPT ![Guest] = {}]
  /\ UNCHANGED saves

Create(a) ==
  LET new == NewSave(saves + 1, clock)
  IN /\ saves < MaxSaves
     /\ save' = [save EXCEPT ![a] = new.s]
     /\ ledger' = [ledger EXCEPT ![a] = Plus(@, new.lines)]
     /\ saves' = saves + 1
     /\ UNCHANGED records

\* openSave: the session call. An account that signs in with a guest token takes over
\* that guest's save when it has none.
Open(a, withGuest) ==
  /\ ~HasSave(a)
  /\ IF withGuest /\ a = User /\ HasSave(Guest) THEN Move ELSE Create(a)
  /\ UNCHANGED <<asked, waiting, clock, applied, claims>>

\* A page asks for an action under a fresh key; its identity stays what it was. Pages of one
\* player each send one action at a time.
AskFor(k, a, act) ==
  /\ asked[k] = NotAsked
  /\ \A j \in Key : j < k => asked[j] # NotAsked
  /\ Cardinality({j \in Key : asked[j].sent > 0 /\ ~asked[j].over}) < MaxPages
  /\ HasSave(a)
  /\ asked' = [asked EXCEPT ![k] = [owner |-> a, act |-> act, sent |-> 1, over |-> FALSE]]
  /\ waiting' = [waiting EXCEPT ![k] = 1]
  /\ UNCHANGED <<save, ledger, records, clock, saves, applied, claims>>

\* The connection broke or the answer was 503: the same request again, while the attempt before
\* may still be at the server.
Retry(k) ==
  /\ ~asked[k].over /\ asked[k].sent \in 1 .. MaxAttempts[k] - 1
  /\ asked' = [asked EXCEPT ![k].sent = @ + 1]
  /\ waiting' = [waiting EXCEPT ![k] = @ + 1]
  /\ UNCHANGED <<save, ledger, records, clock, saves, applied, claims>>

\* What is left of a request with n attempts at the server.
Left(k, n, over) == IF over /\ n = 0 THEN Closed ELSE [asked[k] EXCEPT !.over = over]

GiveUp(k) ==
  /\ ~asked[k].over /\ asked[k].sent = MaxAttempts[k]
  /\ asked' = [asked EXCEPT ![k] = Left(k, waiting[k], TRUE)]
  /\ UNCHANGED <<save, ledger, records, waiting, clock, saves, applied, claims>>

\* A request never arrives, or the database does not answer: nothing is written.
Fail(k) ==
  /\ waiting[k] > 0
  /\ waiting' = [waiting EXCEPT ![k] = @ - 1]
  /\ asked' = [asked EXCEPT ![k] = Left(k, waiting[k] - 1, @.over)]
  /\ UNCHANGED <<save, ledger, records, clock, saves, applied, claims>>

\* Variant: the key is remembered but not looked up.
HasNothing(a, k) == FALSE

Has(a, k) == \E d \in records[a] : d.key = k

\* applyAction: no save, a key already done and a refusal change nothing. The answer may be lost.
Execute(k) ==
  LET a == asked[k].owner
      act == asked[k].act
      id == save[a].id
  IN /\ waiting[k] > 0
     /\ waiting' = [waiting EXCEPT ![k] = @ - 1]
     /\ \E over \in {asked[k].over, TRUE} :
          asked' = [asked EXCEPT ![k] = Left(k, waiting[k] - 1, over)]
     /\ IF ~HasSave(a) \/ Has(a, k) \/ Outcomes(save[a], act, clock) = {}
          THEN UNCHANGED <<save, ledger, records, applied, claims>>
          ELSE /\ \E o \in Outcomes(save[a], act, clock) :
                    /\ save' = [save EXCEPT ![a] = o.s]
                    /\ ledger' = [ledger EXCEPT ![a] = Plus(@, o.lines)]
               /\ records' = [records EXCEPT ![a] = @ \cup {[key |-> k, at |-> clock]}]
               /\ applied' = [applied EXCEPT ![k][id] = @ + 1]
               /\ claims' = IF act.t \in {"login", "quest", "buy"}
                              THEN [claims EXCEPT ![id][Day(clock)][act.t] = @ + 1]
                              ELSE claims
     /\ UNCHANGED <<clock, saves>>

InFlight(k) == waiting[k] > 0 \/ (asked[k].sent > 0 /\ ~asked[k].over)

\* pruneCasualActions: keys older than a day are forgotten. The pages' retries are over within
\* seconds, so no such key is still in flight.
Prune ==
  /\ \E a \in Owner : \E d \in records[a] : d.at < clock - DayLength /\ ~InFlight(d.key)
  /\ records' = [a \in Owner |-> {d \in records[a] : d.at >= clock - DayLength \/ InFlight(d.key)}]
  /\ UNCHANGED <<save, ledger, asked, waiting, clock, saves, applied, claims>>

\* eraseCasual: everything of the account goes.
Erase ==
  /\ HasSave(User)
  /\ save' = [save EXCEPT ![User] = NoSave]
  /\ ledger' = [ledger EXCEPT ![User] = Nothing]
  /\ records' = [records EXCEPT ![User] = {}]
  /\ UNCHANGED <<asked, waiting, clock, saves, applied, claims>>

Minute ==
  /\ clock < MaxTime
  /\ clock' = clock + 1
  /\ UNCHANGED <<save, ledger, records, asked, waiting, saves, applied, claims>>

Next ==
  \/ \E a \in Owner : \E withGuest \in BOOLEAN : Open(a, withGuest)
  \/ \E k \in Key : Retry(k) \/ GiveUp(k) \/ Execute(k) \/ Fail(k) \/ \E a \in Owner, act \in Ask[k] : AskFor(k, a, act)
  \/ Prune \/ Erase \/ Minute

Spec == Init /\ [][Next]_vars
--------------------------------------------------------------------------------
(* Properties.                                                              *)

Holdings(s, x) == s.has[x] + IF x = Gear THEN Cardinality(s.worn) ELSE 0

\* Nothing a player holds, earns or waits for is ever negative, and progress stays in its bounds:
\* every spending looks at what is there (actions.ts spend,
\* spendGems, addShards, equip, level, changeEnergy).
TypeOK ==
  \A a \in Owner : HasSave(a) =>
    LET s == save[a] IN
    /\ s.id \in 1 .. MaxSaves
    /\ s.has \in Amounts
    /\ s.energy \in Nat /\ s.energyAt \in 0 .. clock
    /\ \A h \in Hero : /\ s.has[HeroAsset(h)] \in {0, 1}
                       /\ s.stars[h] \in 0 .. MaxStars
                       /\ s.level[h] \in 0 .. LevelsPerStar * s.stars[h]
    /\ s.worn \subseteq {h \in Hero : Owned(s, h)}
    /\ s.swept \subseteq 1 .. s.cleared

\* An owner's ledger lines add up to what the owner's save holds, worn pieces included, and an
\* owner without a save has no lines: over rewards, draws, purchases, retries, the move of a
\* guest's save into an account and erasure (store.ts writeLedger, casualData.ts).
LedgerExplainsSave ==
  \A a \in Owner : \A x \in Asset :
    ledger[a][x] = IF HasSave(a) THEN Holdings(save[a], x) ELSE 0

\* An action a page asked for once changes a save once, however often it is sent and whoever's
\* save it has become meanwhile (store.ts applyAction: the key's record is read under the save's
\* lock and written with the change).
KeyPaysOncePerSave == \A k \in Key : \A i \in 1 .. MaxSaves : applied[k][i] <= 1

\* A save is paid a day's login once, a day's quest once and sells a day's product as often as
\* its limit says, over retries and the turn of the day (actions.ts rollQuests, login, buy).
DailyLimits ==
  \A i \in 1 .. MaxSaves : \A d \in DOMAIN claims[i] :
    /\ claims[i][d].login <= 1
    /\ claims[i][d].quest <= 1
    /\ claims[i][d].buy <= Product.count

\* What a save has spent of energy was there at the start, given as a reward, or refilled by the
\* time since: lazily settled refills are never counted twice (kit.ts energyNow, changeEnergy).
EnergyNeverConjured ==
  \A a \in Owner : HasSave(a) =>
    save[a].spent + save[a].energy <= MaxEnergy + save[a].given + (clock - save[a].born)

\* The idle chest never pays a minute twice (kit.ts idlePending, collect).
IdlePaysEachMinuteOnce ==
  \A a \in Owner : HasSave(a) => save[a].idlePaid <= clock - save[a].born

\* Nobody ever waits longer for a legendary hero than the published number of draws: after any
\* action fewer than that many draws have gone by without one (actions.ts summon).
PityHolds == \A a \in Owner : HasSave(a) => save[a].pity < Pity

================================================================================
