CONSTANTS
  c1 = c1  c2 = c2  c3 = c3
  hero = hero  other = other
  Conn = {c1, c2, c3}
  CharOf <- MCCharOf
  MaxInstances = 2
  Capacity = 1
  MaxTransfers = 2
  MaxFaults = 1
SPECIFICATION FairSpec
CHECK_DEADLOCK FALSE
INVARIANTS
  ReservationsBalance
  BoundedOverbooking
  PlayerIsInItsRoom
