SPECIFICATION Spec
CONSTANTS
  TotalPoints = 4
  MaxBid = 10
  HandSize = 1
  KittySize = 3
  Deals <- KittyDeals
  BidSet <- FewBids
  CallSet <- TinyCalls
  ConfigChoices = {4}
  StartSizes = {4}
  AllowJokerPartner = FALSE
  FailDist = "two_one_split"
  DistinctDiscards = TRUE
  MaxRounds = 2
INVARIANTS TotalsZeroSum
PROPERTIES EveryoneConsents
