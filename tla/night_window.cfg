SPECIFICATION Spec
CONSTANTS
  Times <- FewTimes
  Windows <- NightWindows
  CurveHalves <- NoHalves
  ManualLevels = {30}
INVARIANTS
  NightWindow
