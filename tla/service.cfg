SPECIFICATION FairSpec
CONSTANTS
  InitialNvm <- FirstBootOrTime
  ReadFaults <- FewFaults
  CurveLevels = {50}
  DemoLevels = {20}
  OnOffTimes <- MCOnOffTimes
  CurveHalves <- MCCurveHalves
  CurveIndexes = {7}
  DimBytes = {53}
  Periods <- Faster
  DefaultOnOff <- MCDefaultOnOff
  ZeroHalf <- MCZeroHalf
  MaxWait = 2
  MaxDownlinks = 1
  MaxRestarts = 1
INVARIANTS
  DurableSettings
  TimeModeNeedsClock
PROPERTIES
  RequestsServed
  EventuallyReported
  ModeResumed
