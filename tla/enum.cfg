SPECIFICATION EnumSpec
CONSTANTS
  Key = {k1, k2, k3, k4}
  ValueMod = 2
  IntMod = 2
  TableSizes = {8, 16}
  StashSize = 6
  Hashers <- EnumHashers
  NewSizes = {0}
  Written = {0, 1}
  Increments = {1}
  NoItem = NoItem
  NULL = NULL
SYMMETRY Symmetry
INVARIANTS
  EnumTypeOK
PROPERTIES
  ImplementsEnum
