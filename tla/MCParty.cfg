SPECIFICATION Spec
CONSTANTS
  a1 = a1
  a2 = a2
  a3 = a3
  App = {a1, a2, a3}
  Hosts <- Visits
  NoLink = NoLink
  MaxSize = 3
  IdCount = 2
  FirstId = 1
  ReqCount = 2
  MaxActs <- Each102
  MaxSeats <- Each300
  MaxCalls <- Each111
  NetCap = 2
INVARIANTS TypeOK AnswersAreMine MembersJoined SeatsKept
PROPERTY FreshIds
CHECK_DEADLOCK FALSE
