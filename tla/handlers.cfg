SPECIFICATION HandlersSpec
CONSTANTS
  Key = {k1, k2, k3, k4}
  ValueMod = 4
  IntMod = 2
  TableSizes = {8, 16}
  StashSize = 4
  Hashers <- HandlersHashers
  NewSizes = {0}
  Written = {0, 1, 2}
  Increments = {}
  NoItem = NoItem
  NULL = NULL
SYMMETRY Symmetry
INVARIANTS
  OwnsItsValues
  OwnsItsNames
  NoMisuse
PROPERTIES
  ImplementsMap
