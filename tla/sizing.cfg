SPECIFICATION SizingSpec
CONSTANTS
  Builds <- SmallBuilds
  MinLgSize = 2
  MinPoolCapacity = 4
INVARIANTS
  ShiftDefined
  LeastPow2
  TableAllocated
  MaskCoversTable
  PoolInCapacity
PROPERTIES
  NewReturns
  CapacityGrows
