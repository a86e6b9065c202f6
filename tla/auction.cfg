SPECIFICATION Spec
CONSTANTS
  TotalPoints = 4
  MaxBid = 10
  HandSize = 1
  KittySize = 1
  Deals <- TinyDeals
  BidSet <- AllBids
  CallSet = {}
  ConfigChoices = {4, 5}
  StartSizes = {5}
  AllowJokerPartner = TRUE
  FailDist = "equal_split"
  DistinctDiscards = TRUE
  MaxRounds = 2
INVARIANTS TypeOK AuctionInv
PROPERTIES AuctionAdvances FreshAuction
