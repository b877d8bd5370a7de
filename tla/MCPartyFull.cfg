SPECIFICATION Spec
CONSTANTS
  a1 = a1
  a2 = a2
  a3 = a3
  App = {a1, a2}
  Hosts <- Both
  NoLink = NoLink
  MaxSize = 2
  IdCount = 2
  FirstId = 1
  ReqCount = 2
  MaxActs <- Each010
  MaxSeats <- Each100
  MaxCalls <- Each110
  NetCap = 2
PROPERTY AcceptedAgain
CHECK_DEADLOCK FALSE
