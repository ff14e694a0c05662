SPECIFICATION Spec
CONSTANTS
    Checkouts = {"t1", "t2"}
    Reviewed <- MCReviewed
    RevisionOf <- MCRevisionOf
    ArgsOf <- MCArgsOf
    Families <- MCFamilies
    Absent = Absent
    Procs = {p1, p2}
    Dirs = {1, 2, 3, 4, 5}
    Sources <- MCSources
    PrebuiltArtifacts <- MCArtifacts
    Corpora <- MCCorpora
    Increments = {1}
    Policies <- MCPolicies
    Replies <- MCReplies
    Earlier <- MCEarlier
    MaxCommands = 3
    p1 = p1
    p2 = p2
SYMMETRY Symmetry
CHECK_DEADLOCK FALSE
INVARIANTS
    EveryBundleVerifies
    AttachedEvidenceMatches
    BoundRuntimeServes
    UpgradesCompose
    ForwardedCallsAreServable
