SPECIFICATION Spec
CONSTANTS
  Partitions = {"A", "B"}
  MAX_BLOCKS = 2
  First = 1
  Last = 5
  Route <- DiscRoute
  Reject = "Reject"
  Audio = "Audio"
  None = "None"
  Plays <- SomePlays
  Repeats = {0, 1}
  Issues = 3
PROPERTIES ResumeStaysInRange
CHECK_DEADLOCK FALSE
