SPECIFICATION FairSpec
CONSTANTS
  Notebooks = {n1}
  Jobs = {j1}
  NCells = 1
  RoomIds = {r1}
  MaxCompleted = 1
  NoJob = NoJob
  NoNotebook = NoNotebook
  NoRoom = NoRoom
  Kernels = {k1}
  Callers = {c1}
  Senders = {s1}
  Prompts = {p1}
  MaxPrompts = 2
  RepeatPrompts = TRUE
  Disturbances = {}
  NoPrompt = NoPrompt
  NoKernel = NoKernel
CHECK_DEADLOCK FALSE
PROPERTIES
  EveryJobEnds
