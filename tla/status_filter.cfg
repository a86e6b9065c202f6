SPECIFICATION Spec
CONSTANTS
  g1 = g1
  g2 = g2
  g3 = g3
  ann = ann
  bob = bob
  cid = cid
  Games = {g1, g2}
  Players = {ann, bob, cid}
  Listers = {bob, cid}
  Creator <- MadeByAnn
  SeatCounts = {2}
  ListLimit = 2
  Asked = {"bidding"}
  MaxFaults = 0
  MaxExpiries = 0
INVARIANTS ShowsWhatIsThere
CHECK_DEADLOCK FALSE
