SPECIFICATION FairSpec
CONSTANTS
  Versions = {v1, v2}
  Meta = Meta
  Rootfs = Rootfs
  None = None
  Torn = Torn
  Pullers = {w1}
  Faults <- Survived
  MaxFaults = 3
INVARIANTS
  TypeOK
  ImportsUnmixed
  CleanupSparesAliased
PROPERTIES
  DigestWrittenOverWhole
  AliasDroppedForSuccessor
  StoreContract
  Converges
