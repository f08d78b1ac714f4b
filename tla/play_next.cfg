SPECIFICATION FairSpec
CONSTANTS
  FileFrames = 7
  FrameOffset = 1
  FrameCount = 4
  Channels = 1
  Period = 2
  ResampledSize = 6
  DeinterleavedSize = 3
  LoopEnabled = {FALSE}
  PauseAtEnd = {TRUE}
  UseJackTransport = FALSE
  SeekStep = 2
  Keys = {"next"}
  MaxKeys = 1
  Word = 64
PROPERTIES NextFileIsReached
