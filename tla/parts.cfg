SPECIFICATION PartsSpec
CONSTANTS
  c1 = c1
  c2 = c2
  u = u
  a = a
  Conns = {c1, c2}
  Users = {u}
  Addrs = {a}
  UserOf <- OneUser
  AddrOf <- OneAddr
  UserCaps = {1, 2}
  AddrCaps = {1}
  IdlePeriods = 1
  Room = 1
  QueueCap = 0
  Moods = {}
  r1 = r1
  r2 = r2
  r3 = r3
  s1 = s1
  s2 = s2
  Reqs = {r1, r2, r3}
  Servers = {s1, s2}
  Skew <- Apart
  MaxSkew = 1
  Capacity = 1
  Period = 3
  Margin = 2
  Second = 2
  MaxTime = 7
  MaxFaults = 1
  g1 = g1
  g2 = g2
  ann = ann
  bob = bob
  cid = cid
  Games = {g1, g2}
  Players = {ann, bob, cid}
  Listers = {bob}
  Creator <- MadeByAnn
  SeatCounts = {1, 2}
  ListLimit = 1
  Asked = {"waiting"}
  MaxExpiries = 1
  TotalPoints = 20
  MaxBid = 10
INVARIANTS TypesKept SlotsMatchSockets RetryIsHonest GamesSound ListingAccurate
INVARIANTS ZeroSum OutcomeDecidesSign DeclarerAtStake
PROPERTIES KeepsLimit KeepsBucket CapturingNeverCosts
SYMMETRY Alike
CHECK_DEADLOCK FALSE
