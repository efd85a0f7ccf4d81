SPECIFICATION Spec
CONSTANTS
  Key = {k1, k2}
  ValueMod = 8
  IntMod = 4
  TableSizes = {4, 8}
  StashSize = 4
  Hashers <- FewHashers
  NewSizes = {0}
  Written = {}
  Increments = {1, 7}
  NoItem = NoItem
  NULL = NULL
PROPERTIES
  IncReturnsNewValue
