SPECIFICATION Spec
CONSTANTS
  boot = boot
  nkro = nkro
  wheel = wheel
  direct = direct
  receiver = receiver
  mouse = mouse
  plain = plain
  r1 = r1
  r2 = r2
  keyA = keyA
  keyB = keyB
  DeviceOf <- OnDevices
  Ports = {1}
  HUB_PORT_NONE = HUB_PORT_NONE
  PortOf <- SamePort
  Axis = Axis
  NoIndex = NoIndex
  NoEntry = NoEntry
  Deltas <- LeftAndRight
  DRAIN_LIMIT = 1
  MaxMotion = 1
  Interfaces = {boot, nkro, wheel}
  Devices = {receiver, mouse}
  ReportIds = {r1, r2}
  Usages = {keyA, keyB}
  Exact <- ExactKeys
  Ranged <- RangedKeys
  Relative = {nkro, wheel}
  Configs <- MotionConfigs
  LAST_INDEX = 1
INVARIANTS TypeOK BitsFollowReports IndexPerInterface MotionTakenOnce
