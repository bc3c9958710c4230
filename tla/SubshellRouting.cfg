SPECIFICATION FairSpec
CONSTANTS
  Runners = {r1}
  ClientIds = {c1, c2, c3}
  Shells = {s1, s2, s3}
  MaxProcs = 3
  MaxQueued = 2
  Main = Main
  NoShell = NoShell
  NoClient = NoClient
  Lab = Lab
CHECK_DEADLOCK FALSE
INVARIANTS
  TypeOK StopFindsCell
PROPERTIES
  SubshellsAreKnown StopEndsCell
