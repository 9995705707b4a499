SPECIFICATION FairSpec
CONSTANTS
  Partitions = {"A", "B"}
  MAX_BLOCKS = 2
  First = 1
  Last = 5
  Route <- DiscRoute
  Reject = "Reject"
  Audio = "Audio"
  None = "None"
  Plays <- SomePlays
  Repeats = {0, 1, 15}
  Issues = 3
INVARIANTS TypeOK BlocksCounted FullIsKnown TransferIntact ResponseKept
PROPERTIES DelayedIrqFirst ReadSpec CommandAnswered NoStall
CHECK_DEADLOCK FALSE
