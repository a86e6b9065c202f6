SPECIFICATION Spec
CONSTANTS
  g1 = g1
  g2 = g2
  g3 = g3
  ann = ann
  bob = bob
  cid = cid
  Games = {g1, g2}
  Players = {ann, bob, cid}
  Listers = {bob, cid}
  Creator <- MadeBy
  SeatCounts = {1, 2}
  ListLimit = 2
  Asked = {"waiting"}
  MaxFaults = 1
  MaxExpiries = 1
INVARIANTS TypeOK EveryGameHasRow SeatsSound CreatorSeated
CHECK_DEADLOCK FALSE
