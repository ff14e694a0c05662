SPECIFICATION Spec
CONSTANTS
  Never = Never
  NoPolicy = NoPolicy
  NoBudget = NoBudget
  None = None
  probe = probe
  snapshot1 = snapshot1
  snapshot2 = snapshot2
  output1 = output1
  Workload <- Contract
  Hosts <- DriftingHosts
  Sources <- SmallSources
  Measurements <- SmallMeasurements
  Policies <- OnePolicy
  Bindings <- TwoBindings
  Outputs <- OneOutput
  MaxReceipts = 1
  MaxTime = 1
INVARIANTS
  EvidenceCoversHost
  ServedProfileIsQualified
  ReleasedAsAdmitted
SYMMETRY Snapshots
