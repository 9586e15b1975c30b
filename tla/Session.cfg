SPECIFICATION Spec
CONSTANTS
  User = {u1}
  Conn = {c1, c2}
  None = None
  Faults = {"slow", "sql", "restart"}
  MaxFaults = 1
CHECK_DEADLOCK FALSE
INVARIANT TypeOK
INVARIANT RowsAgree
INVARIANT OneSession
INVARIANT NotLockedOut
INVARIANT HereIsNotAway
INVARIANT WrittenToWhereHeIs
PROPERTY GoneIsOffline
PROPERTY LostIsNoticed
