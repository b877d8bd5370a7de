SPECIFICATION Spec
CONSTANTS
  main = main
  logic = logic
  Outside = outside
  NoOne = NoOne
  Loop <- TwoLoops
  Suspendable <- JustLogic
  Calls = {}
  MayExit = {}
  MaxPushes <- PushesToLogic
  MaxTimers <- NoTimers
  MaxSuspends = 2
INVARIANT ParkedLoopsRest
CHECK_DEADLOCK FALSE
