SPECIFICATION SizingSpec
CONSTANTS
  Builds <- SmallBuilds
  MinLgSize = 2
  MinPoolCapacity = 4
PROPERTIES
  CapacityIsFound
