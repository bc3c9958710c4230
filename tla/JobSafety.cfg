SPECIFICATION Spec
CONSTANTS
  Notebooks = {n1}
  Jobs = {j1, j2}
  NCells = 1
  RoomIds = {r1, r2}
  MaxCompleted = 1
  NoJob = NoJob
  NoNotebook = NoNotebook
  NoRoom = NoRoom
  Kernels = {k1, k2}
  Callers = {c1, c2}
  Senders = {s1}
  Prompts = {p1}
  MaxPrompts = 1
  RepeatPrompts = FALSE
  Disturbances = {"stop", "fail", "die"}
  NoPrompt = NoPrompt
  NoKernel = NoKernel
SYMMETRY Symmetry
CHECK_DEADLOCK FALSE
INVARIANTS
  TypeOK
  SerialRequests
  HistoryBounded
  RuntimeJobsActive
PROPERTIES
  ActiveJobHasTask
  ActiveJobsKept
