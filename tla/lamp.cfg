SPECIFICATION Spec
CONSTANTS
  Times <- FewTimes
  Windows <- DayWindow
  CurveHalves <- OverRange
  ManualLevels = {30}
INVARIANTS
  TypeOK
  LampFollowsPolicy
  DemoInRange
