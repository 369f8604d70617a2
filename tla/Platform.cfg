CONSTANTS
  Guest = {1, 2}
  Person = {3}
  Players <- MCPlayers
  Milestones = {3}
  MaxClock = 2
  Batch = 2
  MaxRestarts = 1
  guest = guest  person = person  other = other  unlock = unlock
  Achievement = {unlock}
  RewardGuest = {guest}
  RewardPerson = {person, other}
  Limit = 1
  MaxFailed = 2
SPECIFICATION FairSpec
CHECK_DEADLOCK FALSE
INVARIANTS
  NothingIsLost
PROPERTIES
  RewardsArrive
