SPECIFICATION ToolsSpec
CONSTANTS
  Period = 2
  NoteSamples <- MCNoteSamples
  Keys <- MCKeys
  Intervals <- MCIntervals
  Gaps = {1, 3}
  Durations = {3}
  Positions = {1, 2}
  OneKeyboard = TRUE
  MaxGenMessages = 4

  Numbers = {1, 3}
  MaxCommands = 4
  MaxInterrupts = 3
  InterruptsMain = FALSE

  Messages <- MCMessages
  BridgeCapacity = 7
  Frames = 2
  PortRoom = 2
  MaxMessages = 3

  TtyCapacity = 7
  MaxStray = 2
  MaxSent = 3
  MaxBreaks = 2
  SignalInTime = TRUE

  Users <- MCUsers
  Size = 2
  VersionOf <- MCVersionOf
  Version = 1

  Arguments <- MCArguments
  FormatOf <- MCFormatOf
  Playable = {"good", "rate", "last"}
  FitsRate = {"good", "empty", "last"}
  MaxEvents = 3
  AtAnyTime = FALSE
CHECK_DEADLOCK FALSE
INVARIANTS ToolsTypes StoppedIsClean NotesAreHeld CyclesAsAsked RecordsWhole RightSide MessagesAreWhole MappedWhole NameIsKept PlaysWhatIsOpen SkippedAfterErased
PROPERTIES SoundsAHeldKey FreewheelsToAPrompt EveryMessageEnds SerialIsStarted PlaysOrLeaves
