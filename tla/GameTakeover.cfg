SPECIFICATION SilentSpec
CONSTANTS
  P1 = P1
  P2 = P2
  P3 = P3
  Checker = Checker
  NoOne = NoOne
  Cards <- Cards7
  BottomSize = 1
  Shuffles <- Packs7
  Bets = {0, 1, 3}
  Announce = FALSE
  MaxDeals = 2
  MaxTroubles = 1
CHECK_DEADLOCK FALSE
PROPERTY SilentGameEnds
INVARIANT EveryoneInTurn
