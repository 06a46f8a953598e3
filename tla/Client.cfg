SPECIFICATION Spec
CONSTANTS
  r1 = r1  r2 = r2  r3 = r3  m1 = m1  m2 = m2  m3 = m3  listener = listener
  Null = Null  NoSocket = NoSocket
  Requests = {r1, r2, r3}
  Messages = {m1, m2}
  MaxToasts = 2
  MaxLogouts = 3
  MaxSockets = 2
  Subscriptions = {listener}
  MaxEvents = 4
SYMMETRY ClientSymmetry
INVARIANTS
  TypeOK
  WaitersAreReleased
  NoHalfSession
  ToastsGoAway
  SocketIsCurrent
CHECK_DEADLOCK FALSE
