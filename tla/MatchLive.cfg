SPECIFICATION FairSpec
CONSTANTS
  u1 = u1
  u2 = u2
  r1 = r1
  NoUser = NoUser
  NoRoom = NoRoom
  Users = {u1, u2}
  Rooms = {r1}
  Workers = 2
  MaxAttempts = 2
  MaxRequests = 4
CHECK_DEADLOCK FALSE
PROPERTY RequestsEnd
