-------------------------------- MODULE RecordsMC --------------------------------
(* Two records the server keeps, one at a time: the casual saves with their *)
(* ledger (a pack of two heroes, two stages, one quest and one product, and *)
(* the actions its pages may send), and the mod installs, a copy of what    *)
(* Network approved. part says which the behaviour is about.                *)
EXTENDS CasualSaves, ModGrants

CONSTANTS guest, user, common, legendary, c1, c2

VARIABLE part

Give(gold, gems, sigils, shards, gear, energy) ==
  [pay |-> [x \in Asset |-> CASE x = Gold -> gold [] x = Gems -> gems [] x = Sigils -> sigils
                               [] x = Shard(common) -> shards [] x = Gear -> gear [] OTHER -> 0],
   energy |-> energy]

MCHero == {common, legendary}
MCLegendary == {legendary}
MCWallet == [x \in Currency |->
               CASE x = Gold -> 1 [] x = Gems -> 1 [] x = GemsPaid -> 2 [] x = Sigils -> 2]
MCFirst == Give(1, 0, 0, 0, 1, 0)
MCRepeat == Give(1, 0, 0, 1, 0, 0)
MCAttempts == <<1, 2, 1>>
MCCalendar == <<Give(0, 1, 0, 0, 0, 1), Give(0, 0, 1, 0, 0, 0)>>
MCQuest == [counter |-> "battle_won", target |-> 1, reward |-> Give(0, 0, 1, 0, 0, 0)]
MCProduct == [gems |-> 2, count |-> 1, reward |-> Give(0, 0, 1, 0, 0, 2)]

Plain(T) == {[t |-> t] : t \in T}
Staged(T, N) == {[t |-> t, stage |-> n] : t \in T, n \in N}
OfHero(T, h) == {[t |-> t, hero |-> h] : t \in T}
Draw(N) == {[t |-> "summon", count |-> n] : n \in N}

\* Each action comes after one that makes it possible, and may come twice in a row.
MCAsk ==
  <<Plain({"collect", "login"}) \cup Staged({"battle"}, {1}) \cup Draw({1}),
    Plain({"quest", "login", "buy"}) \cup Staged({"battle", "sweep"}, {1})
      \cup OfHero({"equip"}, common) \cup Draw({1, 2}),
    Plain({"collect", "quest", "buy"}) \cup Staged({"battle"}, {2}) \cup Staged({"sweep"}, {1})
      \cup OfHero({"star", "equip", "unequip"}, common) \cup OfHero({"fuse"}, legendary)
      \cup {[t |-> "level", hero |-> common, times |-> 2]} \cup Draw({1})>>
--------------------------------------------------------------------------------
\* One capability, with two requests or with one and a fault; two capabilities, which one
\* delivery withdraws and grants, with a fault or with a request.
MCInstalls ==
  {[asks |-> {c1}, requests |-> 2, faults |-> 0], [asks |-> {c1}, requests |-> 1, faults |-> 1],
   [asks |-> {c1, c2}, requests |-> 0, faults |-> 1], [asks |-> {c1, c2}, requests |-> 1, faults |-> 0]}

recordVars == <<part, vars, modVars>>

\* The part that rests has one state.
RecordsInit ==
  /\ part \in {"saves", "mods"} /\ Init /\ ModGrantsInit
  /\ part = "saves" => principal.approved = {} /\ requests = 2

RecordsNext ==
  \/ part = "saves" /\ Next /\ UNCHANGED <<part, modVars>>
  \/ part = "mods" /\ ModGrantsNext /\ UNCHANGED <<part, vars>>

RecordsSpec == RecordsInit /\ [][RecordsNext]_recordVars

\* Each part's variables stay in their domains.
RecordsTypeOK == TypeOK /\ ModGrantsTypeOK
================================================================================
