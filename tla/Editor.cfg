CONSTANTS
  e1 = e1  e2 = e2
  a = a  b = b
  Editor = {e1, e2}
  Obj = {a, b}
  FirstPeer <- MCFirstPeer
  Selection <- MCSelection
  Unsteady = {e1}
  MaxPeers = 3
  MaxGestures <- MCGestures
  MaxLapses = 1
  t1 = t1  t2 = t2
  v1 = v1  v2 = v2
  Thing = {t1, t2}
  Value = {v1, v2}
  None = None
  Loaded <- MCLoaded
  MaxEntries = 2
  MaxCommands = 2
  MaxLoads = 1
  alice = alice  bert = bert
  Admin = {alice, bert}
  MaxEdits = 2
  MaxSaves = 2
  MaxPolls = 1
  MaxReloads = 1
SPECIFICATION Spec
CHECK_DEADLOCK FALSE
INVARIANTS
  StaleBeliefIsCorrected
  NoGhostLock
  UndoIsExact
PROPERTIES
  SavedEditsStay
  UnsavedWorkStays
