CONSTANTS
  guest = guest
  user = user
  common = common
  legendary = legendary
  Guest = guest
  User = user
  Hero <- MCHero
  Starter = common
  Legendary <- MCLegendary
  Epic = {}
  LastStage = 2
  StageEnergy = 2
  FreeFirstClears = 1
  First <- MCFirst
  Repeat <- MCRepeat
  Calendar <- MCCalendar
  Quest <- MCQuest
  Product <- MCProduct
  StartWallet <- MCWallet
  MaxEnergy = 2
  GoldPerMinute = 1
  IdleCap = 2
  DrawCost = 1
  Many = 3
  Pity = 2
  DuplicateShards = 1
  FuseShards = 1
  StarCost = 1
  LevelsPerStar = 2
  MaxStars = 2
  DayLength = 1
  MaxTime = 2
  Key = {1, 2, 3}
  Ask <- MCAsk
  MaxAttempts <- MCAttempts
  MaxSaves = 1
  MaxPages = 1
  c1 = c1  c2 = c2
  Capability = {c1, c2}
  Bindable = {c1, c2}
  Installs <- MCInstalls
  Request = {1, 2}
  MaxRevision = 3
SPECIFICATION RecordsSpec
CHECK_DEADLOCK FALSE
INVARIANTS
  LedgerExplainsSave
  KeyPaysOncePerSave
  IdlePaysEachMinuteOnce
  CopyFollowsNetwork
PROPERTIES
  RevokedStaysRevoked
