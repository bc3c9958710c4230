SPECIFICATION FairSpec
CONSTANTS
  Notebooks = {n1}
  RoomIds = {r1, r2}
  SessionIds = {s1, s2}
  Clients = {c1}
  Jobs = {}
  KernelNames = {python3}
  DefaultKernel = python3
  Tasks = {t1}
  Gc = gc
  MaxInFlight = 2
  LabActs = FALSE
  NoRoom = NoRoom
  NoSession = NoSession
  NoKernel = NoKernel
  NoClient = NoClient
  NoNotebook = NoNotebook
CHECK_DEADLOCK FALSE
PROPERTIES
  EveryCallReturns IdleRoomIsReaped StopRemovesRoom
