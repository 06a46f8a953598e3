SPECIFICATION Spec
CONSTANTS
  r1 = r1  r2 = r2  r3 = r3
  alice = alice  bob = bob  olga = olga
  Null = Null
  Users <- MCUsers
  Requests <- ThreeRequests
  Owner = olga
  Amounts = {3, 4, 6}
  StartPrice = 2
  MinAbsolute = 1
  Percent = 30
  MaxAttempts = 2
  Faults <- NoFaults
SYMMETRY RequestSymmetry
INVARIANTS
  LeaderIsBacked
  WinnerIsBestRow
  PriceCoversRows
  NoTiedRows
PROPERTY
  ImplementsOpenAuction
CHECK_DEADLOCK FALSE
