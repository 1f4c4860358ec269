SPECIFICATION FairSpec
CONSTANTS
  PixelsPerScanline = 1
  CyclesPerScanline = 3
  ScanlinesPerFrame = 2
  TimerHalf = 2
  PollModulus = 5
  TimeoutPolls = 3
  TimeoutCycles = 4
  AutoScanline = 0
  AutoVblank = 2
  InstrCycles = {0, 2, 7}
  Modes = {}
  TimerWords = {}
  Acks <- EachSource
  Masks = {0, 2}
  Latches = {"bios"}
  HostLevels = {0, 2, 7}
  HostReset = TRUE
  MaxCycles = 12
  MaxFrames = 3
INVARIANTS LineMatchesPending WatchdogExact
PROPERTIES NoLostInterrupt NoNesting WatchdogBites VblankDelivered
