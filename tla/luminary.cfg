SPECIFICATION Spec
CONSTANTS
  InitialNvm <- StoredCurve
  ReadFaults <- NoFaults
  CurveLevels = {50}
  DemoLevels = {20}
  OnOffTimes <- DefaultTimes
  CurveHalves <- MCCurveHalves
  CurveIndexes = {7}
  DimBytes = {53}
  Periods <- Faster
  DefaultOnOff <- MCDefaultOnOff
  ZeroHalf <- MCZeroHalf
  MaxWait = 1
  MaxDownlinks = 3
  MaxRestarts = 1
INVARIANTS
  TypeOK
  DurableSettings
  ChangeReported
  RequestKept
  TimeModeNeedsClock
  SavesSettle
PROPERTY
  StoredModeChosen
