SPECIFICATION FairSpec
CONSTANTS
  Adapters = {a1, a2}
  Handles = {h1, h2}
  None = None
  Depth = 3
INVARIANTS TypeOK CoreExclusive OwnSession NoOrphan
PROPERTIES MainReturns
