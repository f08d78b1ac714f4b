SPECIFICATION Spec
CONSTANTS
  LocalRate = r48
  NoRate = none
  NoPause = FALSE
  SendMax = 0
  SenderRates = {r48}
  SenderChannels = {2}
  MaxNumber = 3
  PreBuffer = 1
  MaxBuffer = 2
  RebufferOnRestart = TRUE
  RebufferOnUnderflow = FALSE
  CloseOnIncomp = FALSE
  RequestedPre = {}
  RequestedMax = {}
  MaxWire = 1
  MaxFaults = 0
  OutputPorts = 2
INVARIANTS ChannelsMatch
