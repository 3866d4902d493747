SPECIFICATION FairSpec
CONSTANTS
  Self = s
  Ports = {p1, p2}
  MaxRetry = 1
  MaxFailure = 2
  MaxBlips = 2
  Removing <- Itself
  Commanded <- Itself
  NoName = NoName
  Faults <- Met
  MaxFaults = 1
INVARIANTS
  TypeOK
  DeadMeansDown
PROPERTIES
  ImplementsLife
  DownEnds
  NoPortLeftDead
  PodEnds
CHECK_DEADLOCK FALSE
