SPECIFICATION FairSpec
CONSTANTS
  FileFrames = 7
  FrameOffset = 1
  FrameCount = 4
  Channels = 1
  Period = 2
  ResampledSize = 6
  DeinterleavedSize = 3
  LoopEnabled = {TRUE, FALSE}
  PauseAtEnd = {TRUE, FALSE}
  UseJackTransport = FALSE
  SeekStep = 2
  Keys = {"space", "backward", "forward", "start", "end", "loop", "pae", "next"}
  MaxKeys = 2
  Word = 64
INVARIANTS TypeOK
PROPERTIES SeekIsServed 
