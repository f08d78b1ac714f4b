SPECIFICATION FairSpec
CONSTANTS
  LocalRate = r48
  NoRate = none
  NoPause = FALSE
  SendMax = 0
  SenderRates = {r48, r44}
  SenderChannels = {0, 2}
  MaxNumber = 2
  PreBuffer = 1
  MaxBuffer = 2
  RebufferOnRestart = FALSE
  RebufferOnUnderflow = TRUE
  CloseOnIncomp = FALSE
  RequestedPre = {}
  RequestedMax = {}
  MaxWire = 1
  MaxFaults = 1
  OutputPorts = 2
INVARIANTS TypeOK ChannelsMatch
PROPERTIES SilentWhileBuffering IncompatibleSenderStops
