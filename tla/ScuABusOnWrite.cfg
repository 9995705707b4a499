CONSTANTS
  Devices = {"External00"}
  ImsValues = {{}, {"ABus", "DrawEnd"}}
  IstValues = {{}, {"External00"}}
  SrValues = {0, 15}
  T0Values = {1}
  T1Values = {1}
  MaxLineCount = 3
  VBlankLineCount = 2
  Events = 4
  Levels = {"DMA0End"}
  Transfers = {}
  Factors = {}
  StartWords = 1
  ExecWords = 2
SPECIFICATION Spec
PROPERTIES
  ABusDeliveredOnWrite
