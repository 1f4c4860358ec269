SPECIFICATION BusSpec
CONSTANTS
  ByteSize = 2
  Events = {0, 1}
  NoEvent = NoEvent
  Capacity = 3
  MaxOverflows = 3
  PromSize = 2097148
  BiosSize = 126
  ReloadOnWrite = 1
  WorkOffsets <- MCWork
  PaletteOffsets <- MCPalette
  BackupOffsets <- MCBackup
  Programs <- MCPrograms
INVARIANT RingConsistent
PROPERTIES ImplementsFifo ImplementsBoard
