SPECIFICATION FairSpec
CONSTANTS
  FileFrames = 12
  FrameOffset = 1
  FrameCount = 9
  Channels = 1
  Period = 2
  ResampledSize = 7
  DeinterleavedSize = 3
  LoopEnabled = {TRUE, FALSE}
  PauseAtEnd = {TRUE, FALSE}
  UseJackTransport = FALSE
  SeekStep = 2
  Keys = {}
  MaxKeys = 0
  Word = 64
INVARIANTS LosesAtMostOneRead
PROPERTIES PlaysInOrder FileIsLeft LoopGoesRound
