SPECIFICATION FairSpec
CONSTANTS
  LocalRate = r48
  NoRate = none
  NoPause = FALSE
  SendMax = 0
  SenderRates = {r48}
  SenderChannels = {1}
  MaxNumber = 2
  PreBuffer = 2
  MaxBuffer = 3
  RebufferOnRestart = TRUE
  RebufferOnUnderflow = FALSE
  CloseOnIncomp = FALSE
  RequestedPre = {1}
  RequestedMax = {2, 3}
  MaxWire = 1
  MaxFaults = 1
  OutputPorts = 1
PROPERTIES StreamIsHeard
