SPECIFICATION FairSpec
CONSTANTS
  r48 = r48
  r44 = r44
  NoRate = none
  DefaultRate = r48
  SenderPeriods = {1, 2}
  SenderChannels = {0, 2}
  Senders <- MCSenders
  OutputPorts = 2
  ForwardPeriod = 2
  BufferSize = 9
  MaxFrames = 6
  MaxWire = 1
  MaxNumberOut = 4
  MaxFaults = 2
  PlayPorts = 2
  PlayPeriod = 1
  PlayBuffer = 6
  PlayPre = 1
CHECK_DEADLOCK FALSE
INVARIANTS TypeOK ForwardAligned PortsInStep AllAccounted HelperIsDrained
PROPERTIES BufferIsSent
