SPECIFICATION StreamSpec

\* The reading and the writing end.
CHECK_DEADLOCK FALSE

CONSTANTS
  Bytes = {0, 1}
  MaxSent = 6
  Window = 2
  MaxOut = 1
  MaxWritten = 2
  MaxWrite = 2
  PeerWindow = 1

INVARIANTS
  TypeOK
  CreditConserved
  MemoryBounded

PROPERTIES
  IsByteStream
  ReceivedIsRead
  WriterIsByteStream
