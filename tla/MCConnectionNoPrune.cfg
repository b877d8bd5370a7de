SPECIFICATION Spec
CONSTANTS
  host = host
  client = client
  Endpoint <- BothEnds
  Peer <- OtherEnd
  NumCount = 5
  FirstNum = 4
  PastDistance = 2
  AckBits = 1
  Window = 3
  PruneAllowed = FALSE
  Mortal = {}
  MaxSend <- HostSends2
  MaxUnreliable <- HostSends1
  NetCap = 2
INVARIANTS AckedIsHeld NeverTooOld UnreliableInPlace
CHECK_DEADLOCK FALSE
