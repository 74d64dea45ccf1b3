SPECIFICATION Spec
CONSTANTS
  InitialNvm <- StoredCurve
  ReadFaults <- NoFaults
  CurveLevels = {50}
  DemoLevels = {20}
  OnOffTimes <- MCOnOffTimes
  CurveHalves <- MCCurveHalves
  CurveIndexes = {7}
  DimBytes = {53}
  Periods <- Faster
  DefaultOnOff <- MCDefaultOnOff
  ZeroHalf <- MCZeroHalf
  MaxWait = 1
  MaxDownlinks = 1
  MaxRestarts = 0
PROPERTY
  SavedModeKept
