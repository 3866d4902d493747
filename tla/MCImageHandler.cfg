SPECIFICATION FairSpec
CONSTANTS
  a = a
  b = b
  Workers = {w1, w2}
  SlotsPerWorker = 1
  Images <- TwoImages
  Lists <- MixedLists
  NoImage = NoImage
INVARIANTS
  TypeOK
  RoomReserved
  ReadyTokenOnce
  CancelOnlyWhenIdle
PROPERTIES
  JobQueueContract
  ShutdownCompletes
  ListedImageAttempted
