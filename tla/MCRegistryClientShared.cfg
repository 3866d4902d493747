SPECIFICATION Spec
CONSTANTS
  w1 = w1
  w2 = w2
  a1 = a1
  a2 = a2
  b = b
  bad = bad
  manage = manage
  load = load
  Workers <- Pair
  Processes = {manage, load}
  Repo <- RepoOf
  NoWorker = NoWorker
  NoImage = NoImage
  Home <- BothManage
  Loaders <- NoLoaders
  Images <- Tags
  Kind <- TagKinds
  Faults <- NoFaults
  MaxFaults = 0
INVARIANTS
  NoRefusalTaken
