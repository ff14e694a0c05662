SPECIFICATION Spec
CONSTANTS
    MaxChars = 2
    Blank = "blank"
    Refused = Refused
    Cases = {"code", "unit"}
    NoRecord = NoRecord
    Procs = {p1, p2}
    ModelKeys = {"m"}
    Policies = {"policy", "policy2"}
    Abilities <- MCAbilities
    Contents <- MCContents
    HostReply <- MCHostReply
    Outputs = {output}
    output = output
    Calls <- MCCalls
    MaxCommands = 3
    Unset = Unset
    Absent = Absent
    Partial = Partial
    p1 = p1
    p2 = p2
SYMMETRY Symmetry
CHECK_DEADLOCK FALSE
CONSTRAINT Apart
INVARIANTS
    SelectionIsProven
    AnswersAreBound
    ConstraintsAdmitEveryAnswer
