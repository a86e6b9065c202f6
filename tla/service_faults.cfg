SPECIFICATION Spec
CONSTANTS
  c = c
  j1 = j1
  j2 = j2
  j3 = j3
  m1 = m1
  m2 = m2
  p1 = p1
  p2 = p2
  Free = Free
  NoGame = NoGame
  Creates = {c}
  Joins = {j1, j3}
  Moves = {m1}
  Players = {p1, p2}
  PlayerOf <- SomeSenders
  MaxRetries = 0
  ClientVersions = {2}
  MaxFaults = 2
  MaxLapses = 1
  MaxGameLapses = 1
INVARIANTS TypeOK NoLostUpdate VersionsAgree SavedOnce ConflictHasCause LedgerComplete
PROPERTIES ReleasesItsOwn InOrder KeepsPromise
