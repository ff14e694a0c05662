SPECIFICATION HostSpec
CONSTANTS
  Packs <- Files
  NoPack = NoPack
  NoKey = NoKey
  Fused <- FusedTable
  ReservedIds <- FusedIds
  Keys <- AskedKeys
  MaxPacks = 6
  MaxVectorLen = 1
  MaxPackBytes = 2
  MaxTotalBytes = 6
INVARIANTS
  HandlesStay
  RegistryUnambiguous
PROPERTIES
  ImplementsService
