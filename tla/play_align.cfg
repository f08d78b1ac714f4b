SPECIFICATION Spec
CONSTANTS
  FileFrames = 7
  FrameOffset = 0
  FrameCount = 7
  Channels = 2
  Period = 3
  ResampledSize = 8
  DeinterleavedSize = 4
  LoopEnabled = {FALSE}
  PauseAtEnd = {FALSE}
  UseJackTransport = FALSE
  SeekStep = 2
  Keys = {}
  MaxKeys = 0
  Word = 64
INVARIANTS ChannelsAligned
