SPECIFICATION Spec
CONSTANTS
  Notebooks = {n1, n2}
  RoomIds = {r1, r2, r3}
  SessionIds = {s1, s2}
  Clients = {c1}
  Jobs = {}
  KernelNames = {python3, k2}
  DefaultKernel = python3
  Tasks = {t1}
  Gc = gc
  MaxInFlight = 1
  LabActs = FALSE
  NoRoom = NoRoom
  NoSession = NoSession
  NoKernel = NoKernel
  NoClient = NoClient
  NoNotebook = NoNotebook
CHECK_DEADLOCK FALSE
INVARIANTS
  EnsuredRoomUsable ShutdownLeavesNoKernel
PROPERTY ImplementsPromise
