SPECIFICATION FairSpec
CONSTANTS
  Commands = {c1}
  Capacity = 2
  CyclesPerScanline = 3
  SyncCycles = 5
  ServiceCycles = 2
  Overshoot = 1
  HostRate = 2
  DeviceRate = 3
  MainClock = 5
  InstrCycles = {4}
  MaxCycles = 6
  MaxCommands = 3
INVARIANTS CyclesConserved SamplesConserved StampsOrdered CommandOnTime CaughtUp
PROPERTY QueueDrained
