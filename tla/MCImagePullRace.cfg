SPECIFICATION Spec
CONSTANTS
  Versions = {v1, v2}
  Meta = Meta
  Rootfs = Rootfs
  None = None
  Torn = Torn
  Pullers = {w1}
  Faults <- OnlyRace
  MaxFaults = 1
INVARIANTS
  SkippedDataExists
