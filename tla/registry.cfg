SPECIFICATION RegistrySpec
CONSTANTS
  c1 = c1
  c2 = c2
  c3 = c3
  c4 = c4
  c5 = c5
  u1 = u1
  u2 = u2
  a1 = a1
  a2 = a2
  Conns = {c1, c2, c3, c4, c5}
  Users = {u1, u2}
  Addrs = {a1, a2}
  UserOf <- SomeUsers
  AddrOf <- SomeAddrs
  UserCaps <- Caps
  AddrCaps <- Caps
INVARIANT RegistryTypeOK
INVARIANT CountsAreLive
INVARIANT CapsHold
PROPERTY KeepsLimit
