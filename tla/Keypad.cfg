SPECIFICATION FairKeypadSpec
CONSTANTS
  keyboard = keyboard
  receiver = receiver
  boot = boot
  extended = extended
  NoFilter = NoFilter
  Interfaces = {keyboard}
  ReportIds = {boot, extended}
  DefinesNumLock = {boot, extended}
  DefinesKeypad = {boot}
  DeviceOf <- OneDevice
  NUM_LOCK_SYNC_EDGE = 2
  Burst = 2
  Digits = {1, 2, 6}
  One = 1
  Six = 6
  Held <- SomeKeys
  Builds <- TwoBuilds
  ReportOrder <- Order
  Places = 3
  MaxUncleared = 1
INVARIANTS TypeOK TogglesConserved NoStuckNumLock BacklogBounded KeepsItsUsage KeyboardReportInv
PROPERTY SettlesToKey
