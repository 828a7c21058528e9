SPECIFICATION FairSpec
CONSTANTS
    Runs = {r1}
    NoRun = NoRun
    Requests = {q1, q2}
    Kinds <- AnyKind
    MaxCrashes = 1
INVARIANTS
    TypeOK
    RunningHasTask
PROPERTIES
    EngineBecomesIdle
CHECK_DEADLOCK FALSE
