CONSTANTS
  PipeSize = 2
  MaxOutput = 4
  MaxFD = 4
  MaxCalls = 2
  BufferSize = 2
  MaxInput = 5
  MaxGrowth = 2
SPECIFICATION HelpersSpec
INVARIANTS OutputWhole LeavesNothing TrueMeansWhole
PROPERTIES CallReturns Terminates
CHECK_DEADLOCK FALSE
