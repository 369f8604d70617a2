CONSTANTS
  ann = ann  bob = bob
  crate = crate  door = door
  rope = rope
  Nobody = Nobody
  Departed = Departed
  Player = {ann, bob}
  Prop = {crate, door}
  Rope = {rope}
  Ends <- MCEnds
  Spot = {0, 1, 2, 3}
  Radius = 1
  ExitRadius = 2
  Reach = 1
  Walkers = {ann}
  Movable = {crate}
  Authored = {door}
  Scenes = {{"walk", "rope", "map"}, {"gun", "cart"}, {"hop", "rope"}}
  MaxQueue = 2
  CatchUp = 2
  StallTicks = 1
  Window = 2
  MaxInputs = 4
  MaxLives = 2
  MaxTransit = 2
SPECIFICATION FairSpec
CHECK_DEADLOCK FALSE
INVARIANTS
  MirrorIsKnown
  RestingPropsAgree
  LatchIsABeam
  NoMisprediction
PROPERTIES
  AgreesOnceAnswered
