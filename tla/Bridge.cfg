SPECIFICATION FairSpec
CONSTANTS
  kbd = kbd
  mouse = mouse
  pad = pad
  NoInterface = NoInterface
  NoReport = NoReport
  Interfaces <- KbdMousePad
  HasInput <- KbdMouse
  DeviceOf <- Composite
  CFG_TUH_HID = 2
  BUFFER_SIZE = 2
  WIRE_SIZE = 2
  FrameBytes <- SmallFrames
  ReportBytes <- SmallReports
  ReportNumbers = 2
  MaxPlugs = 3
INVARIANTS TypeOK HeldIsNotArmed SlotPerInput NextReportInOrder AgreeOnInterfaces
PROPERTIES IdleIsArmed ImplementsStreams NoSecondOvertake
