SPECIFICATION Spec
CONSTANTS
  alice = alice  bob = bob  olga = olga
  Null = Null
  Users <- MCUsers
  Bidders <- TwoBidders
  Owner = olga
  StartPrice = 2
  MinAbsolute = 1
  Percent = 30
  StartTime = 1
  EndTime = 4
  LaterEndTime = 5
  Buffer = 9
  Second = 2
  MaxTime = 6
  MaxAttempts = 2
  MaxCrashes = 1
  Commands = {}
  Faults = {"db_fails", "redis_fails", "redis_lost"}
INVARIANTS
  AnnouncedIsRecorded
PROPERTY BootRestoresLeader
CHECK_DEADLOCK FALSE
