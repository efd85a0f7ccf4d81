SPECIFICATION Spec
CONSTANTS
  Key = {k1, k2, k3, k4}
  ValueMod = 2
  IntMod = 2
  TableSizes = {4, 8, 16}
  StashSize = 4
  Hashers <- RoomHashers
  NewSizes = {0}
  Written = {0}
  Increments = {}
  NoItem = NoItem
  NULL = NULL
INVARIANTS
  StashedOnlyIfNoRoom
