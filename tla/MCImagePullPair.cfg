SPECIFICATION FairSpec
CONSTANTS
  Versions = {v1}
  Meta = Meta
  Rootfs = Rootfs
  None = None
  Torn = Torn
  Pullers = {w1, w2}
  Faults <- OnlyErrorBody
  MaxFaults = 1
PROPERTIES
  PullEnds
