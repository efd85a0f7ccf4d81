SPECIFICATION Spec
CONSTANTS
  Key = {k1, k2, k3, k4, k5}
  ValueMod = 2
  IntMod = 2
  TableSizes = {4, 8, 16}
  StashSize = 4
  Hashers <- MCHashers
  NewSizes = {0}
  Written = {0}
  Increments = {}
  NoItem = NoItem
  NULL = NULL
SYMMETRY Symmetry
INVARIANTS
  TypeOK
  CuckooPlaced
  NoKeyTwice
  StashAccounting
  UsedIsCount
  LessThanHalfFull
  NoInternalError
  StashedOnlyIfBlocked
  AddLeavesStashBlocked
