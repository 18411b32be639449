SPECIFICATION FairSpec

CONSTANTS
  Tasks = {t1, t2}
  Requests <- MCRequests
  Configs <- MCConfigs
  Lower <- MCLower
  Chars <- MCChars
  Services <- MCServices
  Cut = cut

INVARIANTS
  TypeOK
  EveryRequestRouted
  TornReadSafe

PROPERTIES
  RoutesAtomically
  ConfigConverges
  RequestResolved
