SPECIFICATION Spec
CONSTANTS
  g1 = g1
  g2 = g2
  g3 = g3
  ann = ann
  bob = bob
  cid = cid
  Games = {g1, g2, g3}
  Players = {ann, bob}
  Listers = {bob}
  Creator <- MadeByAnn
  SeatCounts = {2}
  ListLimit = 2
  Asked = {"waiting"}
  MaxFaults = 1
  MaxExpiries = 1
INVARIANT ListingAccurate
CHECK_DEADLOCK FALSE
