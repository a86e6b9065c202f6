SPECIFICATION Spec
CONSTANTS
  TotalPoints = 9
  MaxBid = 10
  HandSize = 4
  KittySize = 1
  Deals <- PlayDeals
  BidSet <- PlayBids
  CallSet <- PlayCalls
  ConfigChoices = {}
  StartSizes = {4}
  AllowJokerPartner = TRUE
  FailDist = "equal_split"
  DistinctDiscards = TRUE
  MaxRounds = 1
INVARIANTS PointsAllCaptured OnePlacePerCard HandsInStep NeverStuck NoSpecialAtTheEnd RevealSound
PROPERTIES FriendStable
