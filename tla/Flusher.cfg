SPECIFICATION FairSpec
CONSTANTS
  r1 = r1
  r2 = r2
  c1 = c1
  d1 = d1
  WorldRow = {r1, r2}
  Char = {c1}
  Deed = {d1}
  MaxVersion = 2
  MaxSaves = 1
  MaxTries = 1
INVARIANTS
  RowsAccountedFor
  DrainedShutdownIsComplete
PROPERTIES
  StoredDeedsStay
  StoresWholeWorlds
  DeedsAreSaved
