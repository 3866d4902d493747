SPECIFICATION FairSpec
CONSTANTS
  a = a
  b = b
  NoName = NoName
  Names <- TwoNames
  ResNames <- TwoNames
  Contains <- Overlapping
  Proxied <- OnlyA
  Removing <- OnlyA
  Commanded <- OnlyB
  Faults <- Survived
  MaxFaults = 1
INVARIANTS
  TypeOK
PROPERTIES
  CollectsOnlyUnmanaged
  PodEnds
  OrphansCollected
CHECK_DEADLOCK FALSE
