SPECIFICATION Spec
CONSTANTS
  a = a
  b = b
  NoName = NoName
  Names <- OneName
  ResNames <- OneName
  Contains <- Own
  Proxied <- OnlyA
  Removing <- OnlyA
  Commanded <- Nobody
  Faults <- OnlyPodlist
  MaxFaults = 1
PROPERTIES
  CollectsOnlyUnmanaged
CHECK_DEADLOCK FALSE
