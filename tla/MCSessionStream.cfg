SPECIFICATION Spec
CONSTANTS
  c1 = c1
  c2 = c2
  Client = {c1, c2}
  ByteSize = 3
  MaxIndex <- Limits
  StepCap = 2
  Gaps = {1, 3}
  MaxDone = 5
INVARIANTS TypeOK NoClientErrors CorrectionsFit PromiseKept
PROPERTY ImplementsBroadcast
CHECK_DEADLOCK FALSE

SYMMETRY Clients
