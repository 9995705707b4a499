CONSTANTS
  Devices = {"External00", "External12"}
  ImsValues = {{}, {"ABus", "DMA0End"}}
  IstValues = {{}, {"External00"}}
  SrValues = {0, 15}
  T0Values = {1, 501}
  T1Values = {1}
  MaxLineCount = 3
  VBlankLineCount = 2
  Events = 4
  Levels = {"DMA0End", "DMA1End"}
  Transfers <- MCTransfers
  Factors = {"HBlankIN"}
  StartWords = 1
  ExecWords = 2
SPECIFICATION Spec
INVARIANTS
  TypeOK
  MostUrgentLast
  ABusQueuedIsLatched
  Timer0Current
  Timer1OncePerField
PROPERTIES
  ABusOncePerAck
  TransfersTold
  LatchSpec
