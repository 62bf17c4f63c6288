SPECIFICATION FairSpec
CONSTANTS
  Tick = 10
  KeyOrder <- MCKeyOrder
  Delays <- MCDelays
  MaxTime = 25
INVARIANTS
  TypeOK
PROPERTIES
  OnePressPerHold
  HeldKeyIsReported
