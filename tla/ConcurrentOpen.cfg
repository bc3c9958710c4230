SPECIFICATION Spec
CONSTANTS
  Notebooks = {n1}
  RoomIds = {r1, r2, r3}
  SessionIds = {s1, s2, s3}
  Clients = {}
  Jobs = {}
  KernelNames = {python3}
  DefaultKernel = python3
  Tasks = {t1, t2}
  Gc = gc
  MaxInFlight = 2
  LabActs = FALSE
  NoRoom = NoRoom
  NoSession = NoSession
  NoKernel = NoKernel
  NoClient = NoClient
  NoNotebook = NoNotebook
CHECK_DEADLOCK FALSE
INVARIANT OneKernelPerNotebook
