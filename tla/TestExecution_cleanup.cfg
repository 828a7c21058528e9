SPECIFICATION Spec
CONSTANTS
    NumSuites = 4
    CaseCount <- FourSuites
    MaxCases = 2
    NumSteps = 1
    Mandatory = {2}
    Certification = TRUE
INVARIANTS
    CleanedUpOnce
    NothingLeftOpen
    MandatoryFailureStopsRun
