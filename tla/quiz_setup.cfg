SPECIFICATION Spec
CONSTANTS
  Objs = {o1, o2, o3}
  NoObj = none
  Readers = {r1, r2}
  Lines <- MCLines
  MaxLines = 4
  Rows <- MCRows
  MaxRows = 3
  HostEdits = TRUE
SYMMETRY MCSymmetry
INVARIANTS
  ServingIsReady
  HeldStays
  AcceptedIdIsFound
  ConfigFollowsOrder
  KBCNeedsBullet
CHECK_DEADLOCK FALSE
