CONSTANTS
  Slots = 3
  Commands <- MCCommands
  TerminatorSlot = 2
  EndCommand <- End
  MaxLineCount = 6
  ResetVBlankLineCount = 4
  MAX_LINES = 3
  DRAW_END_FLOOR = 2
  POLL_AGAIN = 1
  CYCLES_PER_LINE = 3
  CYCLES_PER_COMMAND = 2
  NoAddr = NoAddr
  VBlankLineCounts = {4}
  RamImages <- ListImages
  RamWrites <- ListWrites
  FbcrValues = {2, 3}
  PtmrValues = {0, 1, 2}
  PowerOnEDSR = {0, 3, 4}
  CpuWrites = 4
SPECIFICATION Spec
INVARIANTS
  TypeOK
  NoEndFlagWhileDrawing
  NoBudgetCarriedOver
  ChunksFollowTheList
