SPECIFICATION Spec
CONSTANTS
  Main = Main
  Turns = Turns
  Hearts = Hearts
  Nobody = Nobody
  Struck <- MCStruck
  Workers = 2
  MaxRequests = 1
CHECK_DEADLOCK FALSE
INVARIANT TypeOK
INVARIANT NoDeadlock
INVARIANT GivenToLoop
INVARIANT CheckersEndFirst
PROPERTY StopsCleanly
PROPERTY ArrivalsHandled
