SPECIFICATION FairSpec

\* A connection is over in the end.
CHECK_DEADLOCK FALSE

CONSTANTS
  Bytes = {0, 1}
  MaxSent = 2
  MaxCopy = 1

INVARIANTS
  TypeOK
  InOrder
  FirstEndIsWhole

PROPERTIES
  Relayed
