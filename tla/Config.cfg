SPECIFICATION Spec
CONSTANTS
  q1 = q1
  NMACROS = 2
  NMACROS_8 = 1
  NEXPRESSIONS = 1
  NOUR_DESCRIPTORS = 6
  MACRO_ITEMS_IN_PACKET = 2
  APPEND_BYTES = 9
  GET_BYTES = 7
  PERSISTED_CONFIG_SIZE = 92
  LENGTHS = 4
  CONFIG_VERSION = 18
  Keys = {1}
  NewMappings <- MCNewMappings
  NewQuirks <- MCNewQuirks
  NewSettings <- MCNewSettings
  MacroPackets <- MCMacroPackets
  ExprPackets <- MCExprPackets
  Images <- MCImages
  Readings <- MCReadings
  Blank = Blank
  None = None
  MaxEdits = 2
INVARIANTS ConfigInv SuccessIsSaved
PROPERTIES RestoredAtStart
