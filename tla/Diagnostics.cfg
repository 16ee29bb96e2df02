SPECIFICATION DiagnosticsSpec
CONSTANTS
  kbd = kbd
  mouse = mouse
  NoInterface = NoInterface
  Interfaces <- MCInterfaces
  Instance <- MCInstance
  Fragments <- MCFragments
  CFG_TUH_HID = 2
  PENDING_QUEUE_SIZE = 1
  MAX_REPORT_COUNTERS = 2
  CONTEXT_COUNT = 2
  QUEUE_SIZE = 2
  PORTS = 1
  MaxLine = 1
  Scenarios <- MCScenarios
INVARIANTS DiagnosticsInv
PROPERTIES QueueIsShownInOrder
