SPECIFICATION Spec
CONSTANTS
  r1 = r1
  r2 = r2
  client1 = client1
  client2 = client2
  silent1 = silent1
  silent2 = silent2
  own1 = own1
  own2 = own2
  shared = shared
  User = {1, 2, 3, 4, 5}
  Room = {r1, r2}
  Start <- MCStart
  Mover = {1}
  Job = {client1, silent1, client2}
  RoomOf <- MCRoomOf
  Db = {own1, own2, shared}
  DbOf <- MCDbOf
  NoJob = NoJob
  Faults = {"select", "update", "commit", "load", "redis"}
  MaxFaults = 1
  Winner = {"lord"}
  MaxGames = 2
CHECK_DEADLOCK FALSE
INVARIANT TypeOK
INVARIANT CacheAgrees
INVARIANT NothingLeftOpen
PROPERTY ScoresSettled
PROPERTY ToldIsSaved
