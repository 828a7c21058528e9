SPECIFICATION Spec
CONSTANTS
    Runs = {r1, r2}
    NoRun = NoRun
    Requests = {q1, q2}
    Kinds = {"start"}
    MaxCrashes = 0
INVARIANTS
    AtMostOneExecutes
CHECK_DEADLOCK FALSE
