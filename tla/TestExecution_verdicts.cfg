SPECIFICATION FairSpec
CONSTANTS
    NumSuites = 2
    CaseCount <- OneThenOne
    MaxCases = 1
    NumSteps = 2
    Mandatory = {}
    Certification = FALSE
INVARIANTS
    VerdictOfRun
PROPERTIES
    VerdictsStand
    AbortEndsRun
