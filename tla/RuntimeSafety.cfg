SPECIFICATION Spec
CONSTANTS
  Notebooks = {n1}
  RoomIds = {r1, r2, r3}
  SessionIds = {s1, s2}
  Clients = {}
  Jobs = {j1}
  KernelNames = {python3}
  DefaultKernel = python3
  Tasks = {t1, t2}
  Gc = gc
  MaxInFlight = 3
  LabActs = TRUE
  NoRoom = NoRoom
  NoSession = NoSession
  NoKernel = NoKernel
  NoClient = NoClient
  NoNotebook = NoNotebook
SYMMETRY Symmetry
CHECK_DEADLOCK FALSE
INVARIANTS
  TypeOK MapConsistent EnsuredRoomUsable RoomMatchesSession KernelAccountedFor StopClearsControlPlane
PROPERTY RoomKeepsKernel
