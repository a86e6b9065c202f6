SPECIFICATION Spec
CONSTANTS
  TotalPoints = 4
  MaxBid = 10
  HandSize = 1
  KittySize = 3
  Deals <- KittyDeals
  BidSet <- OneBid
  CallSet <- TinyCalls
  ConfigChoices = {}
  StartSizes = {4}
  AllowJokerPartner = FALSE
  FailDist = "equal_split"
  DistinctDiscards = FALSE
  MaxRounds = 1
INVARIANTS PointsAllCaptured
