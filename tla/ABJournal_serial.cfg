SPECIFICATION Spec
CONSTANTS
  h1 = h1
  h2 = h2
  d1 = d1
  d2 = d2
  d3 = d3
  NoDigest = NoDigest
  Actors <- TwoActors
  Digests <- TwoImages
  MaxGeneration = 5
  MaxFaults = 3
  Serialized = TRUE
  ErrorsSettle = TRUE
  PartialReadFaults = FALSE
SYMMETRY Interchangeable
INVARIANTS
  TypeOK
  WritersAreCurrent
PROPERTIES
  DurableOnlyAdvances
  ReturnedStateIsLatest
  ImplementsRegister
