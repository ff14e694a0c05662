SPECIFICATION Spec
CONSTANTS
  h1 = h1
  h2 = h2
  d1 = d1
  d2 = d2
  d3 = d3
  NoDigest = NoDigest
  Actors <- OneActor
  Digests <- TwoImages
  MaxGeneration = 4
  MaxFaults = 1
  Serialized = TRUE
  ErrorsSettle = TRUE
  PartialReadFaults = TRUE
PROPERTIES
  ReturnedStateIsLatest
