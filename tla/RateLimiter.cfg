SPECIFICATION Spec
CONSTANTS
  h1 = h1
  h2 = h2
  Handlers = {h1, h2}
  Callers <- ThreeCallers
  Burst = 3
  IdleTimeout = 2
  MaxHold = 1
  MaxTime = 3
  MaxRestarts = 1
  NoKey = NoKey
INVARIANTS
  TypeOK
  HeldIsRegistered
  BurstPlusRate
PROPERTIES
  RefinesTokenBucket
SYMMETRY HandlerSymmetry
CHECK_DEADLOCK FALSE
