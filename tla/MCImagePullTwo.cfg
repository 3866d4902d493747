SPECIFICATION Spec
CONSTANTS
  Versions = {v1, v2}
  Meta = Meta
  Rootfs = Rootfs
  None = None
  Torn = Torn
  Pullers = {w1, w2}
  Faults <- NoFaults
  MaxFaults = 0
INVARIANTS
  CleanupSparesAliased
