SPECIFICATION Spec
CONSTANTS
    Catalogue <- SmallCatalogue
    PerformanceSuite = "Performance Test Suite"
    Threads = {t1, t2}
    MaxRequests = 4
    Operations <- AllRequests
    Projects = {p1, p2}
    Executions = {e1, e2}
    Operators = {o1}
    Clusters = {A, B}
    Selections <- SmallSelections
    None = None
    Free = Free
    Gone = Gone
SYMMETRY Symmetry
INVARIANTS
    RepeatKeepsTests
    UploadsLostOnlyToRemovals
    InvalidConfigIsAutomatic
CHECK_DEADLOCK FALSE
