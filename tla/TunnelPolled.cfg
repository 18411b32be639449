SPECIFICATION FairSpec

\* While it awaits the control stream handler the program really stops.
CHECK_DEADLOCK FALSE

CONSTANTS
  ControlStreams = {c1}
  ProxyStreams = {p1, p2}
  NumAddrs = 1
  MaxBackoff = 1
  FailCap = 1
  Workers = 2
  IoInBackground = FALSE

INVARIANTS
  TypeOK
  ResponseFollowsRequest
  NeverRegistered

PROPERTIES
  RequestAnswered
  CloseNoticed
