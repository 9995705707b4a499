CONSTANTS
  BlockLen = 2
  Bufs = 2
  RingFrames = 2
  Counters = 4
  ReadSizes = {1, 3}
  MaxBlocks = 5
  MaxSessions = 2
SPECIFICATION FairSpec
INVARIANT WithinCapacity
PROPERTIES
  StreamSpec
  EverySampleLeaves
