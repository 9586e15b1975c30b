SPECIFICATION Spec
CONSTANTS
  Main = Main
  Loop = Loop
  Writer = {w1}
  Request = {r1, bye}
  Bye = {bye}
  Key = Key
  None = None
CHECK_DEADLOCK FALSE
INVARIANT TypeOK
INVARIANT InterestFollowsData
INVARIANT HandledInOrder
PROPERTY RepliesArrive
PROPERTY RequestsAreHandled
PROPERTY ClosedIsDestroyed
