------------------------------ MODULE WriteBehind ------------------------------
(****************************************************************************)
(* What the write-behind flusher promises for the rows of a room: the       *)
(* database always holds one whole state the room has been in, each         *)
(* checkpoint moves it to a later one, and a crash falls back to it.        *)
(****************************************************************************)
CONSTANTS WorldRow, RowValue

VARIABLES
  world,     \* the simulation's value of every row
  durable,   \* the database's
  images     \* copies of the whole world on their way to the database

behindVars == <<world, durable, images>>

World == [WorldRow -> RowValue]

BehindInit == world \in World /\ durable = world /\ images = {}

\* The tick changes the world; nobody waits for the database.
Simulate == world' \in World /\ UNCHANGED <<durable, images>>

\* A checkpoint copies the world as it is now, one copy at a time.
TakeImage == images = {} /\ images' = {world} /\ UNCHANGED <<world, durable>>

\* The copy is written, and the flusher learns of it or not.
WriteImage ==
  /\ durable' \in images
  /\ images' = {}
  /\ UNCHANGED world

\* The copy is given up: a later one will carry what it held.
DropImage == images' = {} /\ UNCHANGED <<world, durable>>

\* The process ends: a new one starts from the database.
FallBack == world' = durable /\ images' = {} /\ UNCHANGED durable

BehindNext == Simulate \/ TakeImage \/ WriteImage \/ DropImage \/ FallBack

BehindSpec == BehindInit /\ [][BehindNext]_behindVars
================================================================================
