SPECIFICATION FairSpec
CONSTANTS
  Lengths = {2, 4, 6}
  IndexWord = 8
INVARIANTS
  TypeOK
  NeverFreezes
  InStep
  ManualIsStill
PROPERTIES
  Blinks
