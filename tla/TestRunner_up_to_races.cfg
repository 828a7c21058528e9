SPECIFICATION Spec
CONSTANTS
    Runs = {r1, r2}
    NoRun = NoRun
    Requests = {q1, q2, q3}
    Kinds <- AnyKind
    MaxCrashes = 1
INVARIANTS
    OneRunAtATime
    ExecutedOnce
    ExecutingRunIsKept
PROPERTIES
    ResultsAreRecorded
    EngineSpec
CONSTRAINT OneEngine
SYMMETRY AnyName
CHECK_DEADLOCK FALSE
