SPECIFICATION FairSpec
CONSTANTS
  main = main
  logic = logic
  Outside = outside
  NoOne = NoOne
  Loop <- TwoLoops
  Suspendable <- JustLogic
  Calls <- MainCallsLogic
  MayExit <- JustMain
  MaxPushes <- PushesToCall
  MaxTimers <- LogicTimer
  MaxSuspends = 2
INVARIANTS TypeOK RunInOrder FlagsAlive SuspendAlternates ParkedOrToPark
PROPERTIES CallsReturnResults EveryRunnableRuns CallsReturn
CHECK_DEADLOCK FALSE
