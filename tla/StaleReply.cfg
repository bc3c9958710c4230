SPECIFICATION Spec
CONSTANTS
  Notebooks = {n1}
  Jobs = {j1}
  NCells = 1
  RoomIds = {r1}
  MaxCompleted = 1
  NoJob = NoJob
  NoNotebook = NoNotebook
  NoRoom = NoRoom
  Kernels = {k1}
  Callers = {c1}
  Senders = {s1, s2}
  Prompts = {p1, p2}
  MaxPrompts = 2
  RepeatPrompts = FALSE
  Disturbances = {}
  NoPrompt = NoPrompt
  NoKernel = NoKernel
CHECK_DEADLOCK FALSE
PROPERTIES
  ReplyIsAwaited
