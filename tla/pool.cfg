SPECIFICATION PoolSpec
CONSTANTS
  empty = empty
  ab = ab
  b = b
  cde = cde
  Key = {empty, ab, b, cde}
  ValueMod = 2
  IntMod = 2
  TableSizes = {16}
  StashSize = 6
  Hashers <- PoolHashers
  NewSizes = {0}
  Written = {0}
  Increments = {}
  NoItem = NoItem
  NULL = NULL
  StrSize <- PoolSizes
  Tails <- PoolTails
  MinPoolCapacity = 4
  MaxCapacity = 16
INVARIANTS
  NamesReadBack
  PoolAccounting
  NoPoolError
