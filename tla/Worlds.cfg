CONSTANTS
  w1 = w1  w2 = w2
  olga = olga  vic = vic  stan = stan
  World = {w1, w2}
  Client = {olga, vic, stan}
  Guest = {}
  Staff = {stan}
  OwnerOf <- MCOwnerOf
  Team <- MCTeam
  NoMap = NoMap
  MaxRunning = 1
  MaxSaves = 2
  MaxJobs = 2
  Conditions <- MCConditions
  Patch = {1, 2}
SPECIFICATION Spec
INVARIANTS
  RoomsWithinLimit
  RunningMapIsStored
  ClosedWorldsEmpty
  RemovedWorldsLeaveNothing
PROPERTY
  EmptyWorldsStop
