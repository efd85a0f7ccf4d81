SPECIFICATION Spec
CONSTANTS
  Key = {k1, k2, k3}
  ValueMod = 4
  IntMod = 2
  TableSizes = {4, 8}
  StashSize = 6
  Hashers <- MCHashers
  NewSizes = {0, 5}
  Written = {0, 3}
  Increments = {1, 3}
  NoItem = NoItem
  NULL = NULL
SYMMETRY Symmetry
PROPERTIES
  ImplementsMap
  
INVARIANTS
  AccessorsAgree
