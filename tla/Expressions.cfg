SPECIFICATION Spec
CONSTANTS
  NEXPRESSIONS = 2
  STACK_SIZE = 4
  NREGISTERS = 1
  NPORTS = 1
  MAX_INPUT_STATES = 3
  SCALE = 2
  Values = {0, 2, 4}
  Elements <- MCElements
  MaxElements = 2
  Stored <- MCStored
  Mapped <- MCMapped
  NULL = NULL
INVARIANTS ExpressionsInv
PROPERTIES SlotsAreFed
