SPECIFICATION Spec

\* A struct that has been sent, or that all its setters have filled in, is done.
CHECK_DEADLOCK FALSE

CONSTANTS
  Readers <- SchemaReaders
  Builders <- SchemaBuilders
  Interfaces <- SchemaInterfaces
  Numbers <- SomeNumbers
  Contents <- SomeContents
  MaxSets = 3

INVARIANTS
  ReadBack
  LayoutsSound
  CallReachesMethod
