SPECIFICATION FairSpec

\* A request is over when it is settled.
CHECK_DEADLOCK FALSE

CONSTANTS
  Units = {"x", "y"}
  Requests <- MCRequests
  Services <- MCServices
  Responses <- MCResponses
  HopByHop <- MCHopByHop
  Private <- MCPrivate
  NonAscii = {latin}
  Latin = latin
  MaxHeaders = 3
  Localhost = localhost
  NoRule = norule
  Blank = blank

INVARIANTS
  TypeOK
  RequestWhole
  AnswerIsOrigins
  OriginFailuresAnswered

PROPERTIES
  RequestSettled
