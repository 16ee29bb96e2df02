SPECIFICATION FairSpec
CONSTANTS
  keyA = keyA
  button = button
  keyboard = keyboard
  mouse = mouse
  Idle = Idle
  ReportIds <- KeyboardThenMouse
  RelativeId = mouse
  MappingOrder <- OneKey
  ArrayUsages <- Keys
  ReportOf <- ReportOfUsage
  InterfaceOf <- Shared
  ArrayCount = 1
  OR_BUFSIZE = 2
  LogicalMaximum = 1
  MaxOwed = 1
  Motions = {1}
PROPERTIES HostSettles PressIsShown
