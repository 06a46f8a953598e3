SPECIFICATION Spec
CONSTANTS
  r1 = r1  r2 = r2  r3 = r3
  alice = alice  bob = bob  olga = olga
  Null = Null
  Users <- MCUsers
  Requests <- TwoRequests
  Owner = olga
  Amounts = {3, 4}
  StartPrice = 2
  MinAbsolute = 1
  Percent = 30
  MaxAttempts = 2
  Faults <- ManyFaults
SYMMETRY RequestSymmetry
INVARIANTS
  TypeOK
  OwnerNeverBids
  AnswersAreTrue
  AnnouncedIsRecorded
CHECK_DEADLOCK FALSE
