SPECIFICATION Spec
CONSTANTS
  alice = alice  bob = bob  olga = olga
  Null = Null
  Users <- MCUsers
  Bidders <- TwoBidders
  Owner = olga
  StartPrice = 2
  MinAbsolute = 1
  Percent = 30
  StartTime = 1
  EndTime = 4
  LaterEndTime = 5
  Buffer = 9
  Second = 2
  MaxTime = 5
  MaxAttempts = 2
  MaxCrashes = 0
  Commands = {"cancel", "extend"}
  Faults = {"slow_commit", "queue_fails"}
SYMMETRY BidderSymmetry
INVARIANTS
  TypeOK
  ActiveIsScheduled
  ActiveHasKeys
PROPERTY LivePriceNeverFalls
CHECK_DEADLOCK FALSE
