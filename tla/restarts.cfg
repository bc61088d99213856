SPECIFICATION FairSpec
CONSTANTS
  s1 = s1
  s2 = s2
  s3 = s3
  Shell <- MCShells
  NoFifo = NoFifo
INVARIANT OnlyUnlinkParts FifoOwned
PROPERTY StaleFifoRemoved
CHECK_DEADLOCK FALSE
