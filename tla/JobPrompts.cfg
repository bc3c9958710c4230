SPECIFICATION FairSpec
CONSTANTS
  Notebooks = {n1}
  Jobs = {j1, j2}
  NCells = 2
  RoomIds = {r1}
  MaxCompleted = 2
  NoJob = NoJob
  NoNotebook = NoNotebook
  NoRoom = NoRoom
  Kernels = {k1, k2}
  Callers = {c1}
  Senders = {s1}
  Prompts = {p1, p2}
  MaxPrompts = 2
  RepeatPrompts = FALSE
  Disturbances = {"attach", "restart", "lab", "interrupt"}
  NoPrompt = NoPrompt
  NoKernel = NoKernel
CHECK_DEADLOCK FALSE
INVARIANTS
  FirstErrorEndsJob
  AwaitingIsReal
  AwaitingRoomHasJob
PROPERTIES
  EveryJobEnds
