SPECIFICATION Spec
CONSTANTS
  Main = Main
  Loop = Loop
  Writer = {}
  Request = {r1, r2}
  Bye = {}
  Key = Key
  None = None
CHECK_DEADLOCK FALSE
PROPERTY StickyPackets
