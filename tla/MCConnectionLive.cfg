SPECIFICATION FairSpec
CONSTANTS
  host = host
  client = client
  Endpoint <- BothEnds
  Peer <- OtherEnd
  NumCount = 5
  FirstNum = 4
  PastDistance = 2
  AckBits = 1
  Window = 3
  PruneAllowed = FALSE
  Mortal = {host}
  MaxSend <- HostSends2
  MaxUnreliable <- HostSends0
  NetCap = 1
PROPERTY Delivery
CHECK_DEADLOCK FALSE
