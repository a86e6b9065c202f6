SPECIFICATION Spec
CONSTANTS
  a = a
  b = b
  c = c
  r1 = r1
  r2 = r2
  r3 = r3
  n = n
  na = na
  nb = nb
  nc = nc
  NoRow = NoRow
  Reqs = {r1, r2, r3}
  Subs = {a, b, c}
  Names = {n, na, nb, nc, a, b, c}
  SubOf <- Senders
  Preferred <- Chosen
  SelfName <- Self
  Suffixed <- Suffixes
  MaxFaults = 0
INVARIANT FirstRequestsSafe
