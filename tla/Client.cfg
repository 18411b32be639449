SPECIFICATION Spec

\* A program that failed or has registered, and one that is no tunnel, is done.
CHECK_DEADLOCK FALSE

CONSTANTS
  Starts <- SomeStarts
  Clients <- SomeClients
  Answers <- SomeAnswers
  Fallback <- BuiltIn
  Version <- SomeVersion
  Arch <- SomeArch
  Features <- SomeFeatures
  Causes <- SomeCauses
  Locations <- SomeLocations

INVARIANTS
  TypeOK
  ReadyIsSetUp
  EdgeReadsCreds
  RegisteredMeansAccepted
  HandCodeAgrees

PROPERTIES
  GetsReady
