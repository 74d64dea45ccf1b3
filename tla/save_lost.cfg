SPECIFICATION Spec
CONSTANTS
  InitialNvm <- StoredSafe
  ReadFaults <- NoFaults
  CurveLevels = {50}
  DemoLevels = {20}
  OnOffTimes <- MCOnOffTimes
  CurveHalves <- MCCurveHalves
  CurveIndexes = {7}
  DimBytes = {53}
  Periods <- Faster
  DefaultOnOff <- MCDefaultOnOff
  ZeroHalf <- MCZeroHalf
  MaxWait = 1
  MaxDownlinks = 2
  MaxRestarts = 0
INVARIANT
  SaveNotLost
