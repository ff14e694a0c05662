\* A refused pack is never evaluated: the behaviour ends there.
CHECK_DEADLOCK FALSE
SPECIFICATION Spec
CONSTANTS
  MaxInstructions = 8
  MaxStack = 3
  MaxClasses = 2
  MaxGiven = 2
  Operations <- SmallOperations
INVARIANTS
  MountedNeverFaults
  QuantizedIsFlagged
  RequiredClassIsExact
