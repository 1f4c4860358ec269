SPECIFICATION FairSpec
CONSTANTS
  PixelsPerScanline = 5
  CyclesPerScanline = 4
  ScanlinesPerFrame = 2
  TimerHalf = 4
  PollModulus = 3
  TimeoutPolls = 0
  TimeoutCycles = 0
  AutoScanline = 3
  AutoVblank = 0
  InstrCycles = {3, 4, 9}
  Modes <- SomeModes
  TimerWords = {0, 1}
  Acks <- AckPair
  Masks = {0}
  Latches = {}
  HostLevels = {}
  HostReset = FALSE
  MaxCycles = 17
  MaxFrames = 3
INVARIANTS ClockConsistent TimerLoopExact
PROPERTIES BoundaryRecurs
