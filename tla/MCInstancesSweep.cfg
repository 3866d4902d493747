SPECIFICATION Spec
CONSTANTS
  a = a
  b = b
  NoName = NoName
  Names <- OneName
  ResNames <- OneName
  Contains <- Own
  Proxied <- OnlyA
  Removing <- OnlyA
  Commanded <- Nobody
  Faults <- NoFaults
  MaxFaults = 0
PROPERTIES
  SweepsOnlyStopped
CHECK_DEADLOCK FALSE
