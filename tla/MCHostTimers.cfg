SPECIFICATION Spec
CONSTANTS
  activity = activity
  NoTimer = NoTimer
  Session = session
  Activity <- OneActivity
  Step = 2
  Advances <- Frame
  Lengths <- NoneOrShort
  Speeds <- NormalAndStill
  MaxTime = 4
  MaxTimers = 2
  MaxChanges = 2
INVARIANTS TypeOK Punctual NoOrphans
PROPERTIES OncePerMoment DeletedNeverRuns PausedStill
CHECK_DEADLOCK FALSE
