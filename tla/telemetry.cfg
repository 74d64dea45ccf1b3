SPECIFICATION Spec
CONSTANTS
  Delays = {0, 7}
  LoopNumbers = {1, 2}
  MinDelay = 3
  Jitter = 1
  DelayWord = 8
  DemoPeriod = 5
  MaxBusy = 1
  Loads = {1, 2}
  DeadZone = 2
  Hour = 8
  FrameWord = 2
  MaxFailures = 1
  MaxChanges = 1
INVARIANTS
  TypeOK
  ReportInterval
  DemoPace
PROPERTIES
  AccountKept
  NoFlood
