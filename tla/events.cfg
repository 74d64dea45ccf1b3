SPECIFICATION Spec
CONSTANTS
  MaxPackets = 3
  MaxHanded = 6
INVARIANTS
  TypeOK
  InOrder
PROPERTIES
  NoLateReplay
  AsPromised
