SPECIFICATION Spec
CONSTANTS
  InitialNvm <- FirstBoot
  ReadFaults <- NoFaults
  CurveLevels = {50}
  DemoLevels = {20}
  OnOffTimes <- MCOnOffTimes
  CurveHalves <- MCCurveHalves
  CurveIndexes = {7}
  DimBytes = {53}
  Periods <- Faster
  DefaultOnOff <- MCDefaultOnOff
  ZeroHalf <- MCZeroHalf
  MaxWait = 1
  MaxDownlinks = 0
  MaxRestarts = 1
INVARIANT
  DefaultsLoaded
