SPECIFICATION FairSpec
CONSTANTS
  Comreg = {"SNDON", "CKCHG352", "INTBACK", "unknown"}
  Ireg0 = {{}, {"status"}, {"status", "break"}, {"break"}, {"continue"}}
  Oregs = 3
  Size1 = 4
  Size2 = 4
  Decilines = 2
  WaitLine = 2
  VBlankLines = {3, 4}
  ResetVBlankLine = 3
  MaxLineCount = 5
  Quick = 1
  Short = 3
  Long = 9
  Writes = 7
INVARIANTS TypeOK SFTellsThePort FirstOnce
PROPERTIES PortDataInOrder PortSpec BusyEnds
