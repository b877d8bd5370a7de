SPECIFICATION Spec
CONSTANTS
  Sizes <- SizesToNine
  MaxSize = 3
  MaxBuffer = 4
  MaxSent = 2
INVARIANTS OnlyWholeMessages LimitIsFair
CHECK_DEADLOCK FALSE
