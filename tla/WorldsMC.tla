-------------------------------- MODULE WorldsMC --------------------------------
(* Creator worlds of a few owners for TLC.                                  *)
EXTENDS WorldRoutes, TLC

CONSTANTS w1, w2, olga, vic, stan

MCOwnerOf == w1 :> olga @@ w2 :> olga
\* Acts on one world, or with two worlds for the one slot; or status requests, of which two
\* may cross or of which there is one at a time.
Nobody == [r \in Patch |-> {}]
One(acts) == [acts |-> acts, worlds |-> {w1}, clients |-> Client, asks |-> Nobody, jobs |-> 0]
Two(acts) == [One(acts) EXCEPT !.worlds = {w1, w2}, !.clients = {olga, vic}]
Asked(clients, asks, jobs) ==
  [acts |-> {}, worlds |-> {w1}, clients |-> clients, asks |-> asks, jobs |-> jobs]
Crossing == Asked({vic}, 1 :> {olga} @@ 2 :> {stan}, 1)
InTurn == Asked({olga, vic}, 1 :> {olga, stan} @@ 2 :> {}, 2)
MCConditions ==
  {One({"delete", "save"}), Crossing, InTurn} \cup {Two({act}) : act \in {"delete", "scripts", "erase"}}
MCTeam == w1 :> {} @@ w2 :> {vic}

\* Every variable of the worlds, their clients and requests stays in its domain.
WorldsTypeOK == HostTypeOK /\ RoutesTypeOK
================================================================================
