SPECIFICATION FairSpec
CONSTANTS
  h1 = h1
  h2 = h2
  a = a
  b = b
  Requests = {h1, h2}
  OldCells <- TwoCells
  Targets = {a}
  Anchors = {b, h1}
  DocRooms = {d1, d2}
  MaxLab = 1
  OpensOverlap = FALSE
  NoKey = NoKey
  Lab = Lab
  Nobody = Nobody
  NoRoom = NoRoom
  NoFile = NoFile
  NoCell = NoCell
  NoMove = NoMove
  NoToken = NoToken
INVARIANTS TypeOK OneControlPlane SavedBeforeAnswered DiffIsExact
PROPERTIES ImplementsSharedNotebook EveryRequestAnswered
CHECK_DEADLOCK FALSE
