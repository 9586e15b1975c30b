SPECIFICATION Spec
CONSTANTS
  P1 = P1
  P2 = P2
  P3 = P3
  Checker = Checker
  NoOne = NoOne
  Cards <- Cards4
  BottomSize = 1
  Shuffles <- Packs4
  Bets = {3}
  Announce = TRUE
  MaxDeals = 2
  MaxTroubles = 1
SYMMETRY Symmetric
CHECK_DEADLOCK FALSE
INVARIANT TypeOK
INVARIANT TurnAgreement
INVARIANT NoLostTurn
INVARIANT EveryoneInTurn
INVARIANT CardsConserved
INVARIANT WinnerIsScored
INVARIANT ZeroSum
