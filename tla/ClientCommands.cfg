SPECIFICATION FairSpec
CONSTANTS
  c1 = c1
  c2 = c2
  a = a
  Clients = {c1, c2}
  OldCells <- OneCell
  Printing <- FirstCell
  Commands <- TheCommands
  MaxBatch = 2
  MaxText = 2
  NoJob = NoJob
  Before = Before
INVARIANTS TypeOK WatchShowsAll BatchStopsAtHalt ExitTellsOutcome ResultsAreFresh
 
CHECK_DEADLOCK FALSE
