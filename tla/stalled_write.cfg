SPECIFICATION FairSocketsSpec
CONSTANTS
  c1 = c1
  c2 = c2
  u = u
  a = a
  Conns = {c1}
  Users = {u}
  Addrs = {a}
  UserOf <- OneUser
  AddrOf <- OneAddr
  UserCaps <- One
  AddrCaps <- One
  IdlePeriods = 2
  Room = 1
  QueueCap = 1
  Moods = {"slow", "silent"}
PROPERTY SilentIsReaped
