SPECIFICATION FairSpec

CONSTANTS
  ControlStreams = {c1, c2}
  ProxyStreams = {}
  NumAddrs = 3
  MaxBackoff = 64
  FailCap = 8
  Workers = 1
  IoInBackground = TRUE

INVARIANTS
  BackoffLaw
  OneRegistration
  RegisteredMeansConfirmed

PROPERTIES
  EveryAddressTried
