SPECIFICATION FairSpec
CONSTANTS
  keyboard = keyboard
  receiver = receiver
  boot = boot
  extended = extended
  NoFilter = NoFilter
  Interfaces = {keyboard}
  ReportIds = {boot, extended}
  DefinesNumLock = {boot, extended}
  DefinesKeypad = {boot}
  DeviceOf <- OneDevice
  NUM_LOCK_SYNC_EDGE = 2
  Burst = 2
PROPERTY HeldIsForwarded
