SPECIFICATION FairSpec
CONSTANTS
  w1 = w1
  w2 = w2
  a1 = a1
  a2 = a2
  b = b
  bad = bad
  manage = manage
  load = load
  Workers <- Pair
  Processes = {manage, load}
  Repo <- RepoOf
  NoWorker = NoWorker
  NoImage = NoImage
  Home <- OneEach
  Loaders <- JustLoad
  Images <- Three
  Kind <- ThreeKinds
  Faults <- AllFaults
  MaxFaults = 2
INVARIANTS
  TypeOK
  AsksWithOwnToken
  NoRefusalTaken
PROPERTIES
  Synchronises
