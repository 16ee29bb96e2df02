SPECIFICATION Spec
CONSTANTS
  keyA = keyA
  button = button
  keyboard = keyboard
  mouse = mouse
  Idle = Idle
  ReportIds <- KeyboardThenMouse
  RelativeId = mouse
  MappingOrder <- OneKey
  ArrayUsages <- Keys
  ReportOf <- ReportOfUsage
  InterfaceOf <- Separate
  ArrayCount = 1
  OR_BUFSIZE = 2
  LogicalMaximum = 3
  MaxOwed = 5
  Motions = {1}
INVARIANTS OutQueueInv MotionConserved
