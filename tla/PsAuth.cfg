SPECIFICATION FairSpec
CONSTANTS
  Pad = Pad
  Keyboard = Keyboard
  NoDevice = NoDevice
  NoTransfer = NoTransfer
  NoData = NoData
  NONCE_PARTS = 2
  SIGNATURE_PARTS = 2
  OOR_BUFSIZE = 1
  MaxChallenges = 2
  MaxPlugs = 1
  MaxOutputs = 1
CHECK_DEADLOCK FALSE
INVARIANTS PsAuthInv SignatureOfChallenge
PROPERTIES ChallengeIsAnswered
