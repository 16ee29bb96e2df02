SPECIFICATION MappingSpec
CONSTANTS
  k1 = k1
  k2 = k2
  k3 = k3
  numlock = numlock
  hello = hello
  taps = taps
  nothing = nothing
  Keys = {k1, k2, k3}
  NLAYERS = 4
  OtherTargets = {k1, k2, numlock, hello, taps, nothing}
  Configs <- MCConfigs
  tap_hold_threshold = 2
  MappingOrder <- UsageOrder
  Macros <- MCMacros
  PassthroughOf <- Passthroughs
  ArrayCount = 3
  OR_BUFSIZE = 2
  macro_entry_duration = 0
  NUM_LOCK_USAGE = numlock
  StartupDuration = 1
  ReadyDelay = 1
  IdleDelay = 1
  Builds <- MCBuilds
  MaxEntries = 1
INVARIANTS TypeOK TapHoldOnce StickyToggles MappingInv
PROPERTIES HeldLayerStays EntryIsShown LayerKeyIsSilent
