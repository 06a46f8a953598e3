SPECIFICATION Spec
CONSTANTS
  s1 = s1  s2 = s2  a1 = a1  a2 = a2  alice = alice  bob = bob
  c1 = c1  c2 = c2  c3 = c3
  Null = Null
  Sockets = {s1, s2}
  Auctions = {a1, a2}
  Users = {alice, bob}
  UserOf <- SameUser
  Calls = {c1, c2}
  MaxEvents = 3
  Faults = {"redis_fails", "db_fails", "key_expires"}
SYMMETRY RoomSymmetry
INVARIANTS
  TypeOK
  BoundSocketsAreCounted
  BidsComeFromTheRoom
  PresenceSettles
  RoomMirrorsHash
  WinnersCanBeTold
CHECK_DEADLOCK FALSE
