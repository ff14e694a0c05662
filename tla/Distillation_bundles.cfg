SPECIFICATION Spec
CONSTANTS
    Harms = {"false_grounding"}
    SummedMeters <- Tokens
    PeakMeters <- Peaks
    None = None
    NoDir = NoDir
    Procs = {p1, p2}
    CompilePaths = {"c"}
    QualifyPaths = {"c", "q"}
    MaxJobs = 3
    MaxDrifts = 1
    Hosts <- MCHosts
    Objectives <- MCObjectives
    Worlds <- MCWorlds
    Outcome <- MCOutcome
    Flaws = {"none", "missing"}
    CalibrationItems = {"c1", "c2"}
    HeldOutItems = {"t1"}
    FixedMax = "integrated"
    p1 = p1
    p2 = p2
SYMMETRY Symmetry
CHECK_DEADLOCK FALSE
INVARIANTS
    PublishedVerifies
    SelectionIsUndominated
    QualifiedProfileTransfers
    HintsWithinQualification
PROPERTY
    PublishedNeverChanges
