SPECIFICATION LiveSpec
CONSTANTS
  c = c
  j1 = j1
  m1 = m1
  p1 = p1
  Free = Free
  NoGame = NoGame
  Creates = {c}
  Joins = {j1}
  Moves = {m1}
  Players = {p1}
  PlayerOf <- Sender
  MaxRetries = 1
  ClientVersions = {1, 2}
  MaxFaults = 2
  MaxLapses = 0
  MaxGameLapses = 0
  c1 = c1
  u = u
  a = a
  Conns = {c1}
  Users = {u}
  Addrs = {a}
  UserOf <- OneUser
  AddrOf <- OneAddr
  UserCaps = {1}
  AddrCaps = {1}
  IdlePeriods = 2
  Room = 2
  QueueCap = 1
  Moods = {"slow", "silent"}
  s1 = s1
  s2 = s2
  r1 = r1
  r2 = r2
  r3 = r3
  n = n
  n1 = n1
  n2 = n2
  NoRow = NoRow
  Reqs = {r1, r2, r3}
  Subs = {s1, s2}
  Names = {n, n1, n2, s1, s2}
  SubOf <- Tokens
  Preferred <- Chosen
  SelfName <- Self
  Suffixed <- Suffixes
INVARIANTS PromptClientStays UsersSound
PROPERTIES EveryRequestAnswered LockFreed
PROPERTIES LostConnectionEnds ReapedUnlessStuck FirstRequestsAnswered
