SPECIFICATION Spec
CONSTANTS
  w1 = w1
  Watcher = {w1}
  Script <- Plays
  ByteSize = 3
  MaxIndex <- Limits
  SaveGap = 1
  QueueCap = 1
  Goals = {0, 2}
  MaxRecorded = 2
  MaxFails = 1
  MaxPlays = 1
  MaxSeeks = 2
  MaxJoins = 1
  MaxChannel = 2
INVARIANTS TypeOK FileIsRecording PlaysTrue WatchersFollow
CHECK_DEADLOCK FALSE
