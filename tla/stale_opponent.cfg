SPECIFICATION Spec
CONSTANTS
  TotalPoints = 4
  MaxBid = 10
  HandSize = 1
  KittySize = 1
  Deals <- TinyDeals
  BidSet <- OneBid
  CallSet <- TinyCalls
  ConfigChoices = {4}
  StartSizes = {5}
  AllowJokerPartner = FALSE
  FailDist = "declarer_alone"
  DistinctDiscards = TRUE
  MaxRounds = 2
INVARIANTS TotalsZeroSum
