SPECIFICATION Spec
CONSTANTS
  NoUnit = NoUnit
  None = None
  desk = desk
  tip = tip
  Profiles <- SmallProfiles
  Preparations <- SmallPreparations
  Routes <- SmallRoutes
  AsFloat <- Nearest
  MaxOutcomes = 3
INVARIANTS
  ConflictOutranksUnavailable
