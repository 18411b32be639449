SPECIFICATION Spec

\* A program that failed or has registered, and one that is no tunnel, is done.
CHECK_DEADLOCK FALSE

CONSTANTS
  Starts <- OneStart
  Clients <- SomeClients
  Answers <- SomeAnswers
  Fallback <- BuiltIn
  Version <- SomeVersion
  Arch <- SomeArch
  Features <- SomeFeatures
  Causes <- SomeCauses
  Locations <- SomeLocations

INVARIANTS
  RootsFound
