SPECIFICATION FairUpdateSpec
CONSTANTS
  h1 = h1
  d1 = d1
  d2 = d2
  d3 = d3
  NoDigest = NoDigest
  Actors <- OneActor
  Digests <- ThreeImages
  MaxGeneration = 7
  MaxFaults = 4
  Serialized = TRUE
  ErrorsSettle = TRUE
  PartialReadFaults = FALSE
INVARIANTS
  ActiveImageComplete
  RetainedImageIntact
PROPERTIES
  ServiceRestored
