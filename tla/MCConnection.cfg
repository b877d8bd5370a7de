SPECIFICATION Spec
CONSTANTS
  host = host
  client = client
  Endpoint <- BothEnds
  Peer <- OtherEnd
  NumCount = 4
  FirstNum = 3
  PastDistance = 2
  AckBits = 1
  Window = 2
  PruneAllowed = TRUE
  Mortal = {}
  MaxSend <- HostSends5
  MaxUnreliable <- HostSends0
  NetCap = 2
INVARIANTS TypeOK DeliveredInOrder NumbersIdentify
PROPERTY ImplementsChannels
CHECK_DEADLOCK FALSE
