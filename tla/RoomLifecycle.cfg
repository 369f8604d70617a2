SPECIFICATION FairSpec
CONSTANTS
  s0 = s0
  s1 = s1
  Slot = {s0, s1}
  Primary = s0
  LeaseTtl = 1
  BootTtl = 2
  Grace = 2
  RegainMax = 1
  RestartMax = 1
  MaxTakeovers = 1
  Bounds <- OneOrTwoSlots
INVARIANTS
  OneRoomPerSlot
  NeverFencesItself
  ReleasedAtShutdown
PROPERTIES
  RoomComesBack
