SPECIFICATION Spec

\* A request is over when it is settled.
CHECK_DEADLOCK FALSE

CONSTANTS
  Units = {"x", "y"}
  Requests <- MCGetRequests
  Services <- MCStatusServices
  Responses <- MCTwoFieldResponses
  HopByHop <- MCHopByHop
  Private <- MCPrivate
  NonAscii = {latin}
  Latin = latin
  MaxHeaders = 3
  Localhost = localhost
  NoRule = norule
  Blank = blank

INVARIANTS
  StatusRulesHandled
