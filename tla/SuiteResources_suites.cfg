SPECIFICATION Spec
CONSTANTS
    Kinds = {"automated", "simulated", "python", "commissioning"}
    Thread = TRUE
    MaxSuites = 3
    MaxContainers = 5
    MaxFaults = 1
INVARIANTS
    CleanupLeavesNothing
    SuiteHasItsOwn
    RunningRoutersAreHeld
CHECK_DEADLOCK FALSE
