SPECIFICATION FairSpec
CONSTANTS
  CountWord = 8
  ByteWord = 4
  Counters <- AllCounters
  MaxPulses = 10
INVARIANTS
  TypeOK
  NeverTwice
  PulsesAccounted
  NeverDeaf
PROPERTIES
  EventuallyTold
