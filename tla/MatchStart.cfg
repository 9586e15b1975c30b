SPECIFICATION Spec
CONSTANTS
  u1 = u1
  u2 = u2
  u3 = u3
  r1 = r1
  NoUser = NoUser
  NoRoom = NoRoom
  Users = {u1, u2, u3}
  Rooms = {r1}
  Workers = 2
  MaxAttempts = 1
  MaxRequests = 3
SYMMETRY Symmetric
CHECK_DEADLOCK FALSE
INVARIANT StartedOnce
