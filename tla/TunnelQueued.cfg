SPECIFICATION FairSpec

\* While it awaits the control stream handler the program really stops.
CHECK_DEADLOCK FALSE

CONSTANTS
  ControlStreams = {c1}
  ProxyStreams = {}
  NumAddrs = 1
  MaxBackoff = 1
  FailCap = 1
  Workers = 1
  IoInBackground = FALSE

PROPERTIES
  QueuedIsFlushed
