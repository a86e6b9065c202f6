SPECIFICATION Spec
CONSTANTS
  TotalPoints = 4
  MaxBid = 10
  HandSize = 1
  KittySize = 1
  Deals <- TinyDeals
  BidSet <- OneBid
  CallSet <- TinyCalls
  ConfigChoices = {5}
  StartSizes = {4}
  AllowJokerPartner = FALSE
  FailDist = "equal_split"
  DistinctDiscards = TRUE
  MaxRounds = 2
PROPERTIES FreshAuction
