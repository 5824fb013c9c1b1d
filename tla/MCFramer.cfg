CONSTANTS
  Base = 2
  AskedLen = 1
  MaxData = 8
  Inputs <- MCInputs
  Endings <- MCEndings
SPECIFICATION ReplaySpec
INVARIANTS
  InStep
  EndReported
PROPERTIES
  KeepsPromise
  CallReturns
  ReplayEnds
