SPECIFICATION CaseSpec
CONSTANTS
    NumSteps = 4
    ExtraSteps = 1
    Flavours = {"commissioning", "legacy"}
    Cases <- SmallCases
INVARIANTS
    VerdictIsTheScripts
    BlameIsRight
PROPERTIES
    EveryCaseEnds
CHECK_DEADLOCK FALSE
