SPECIFICATION DataSpec
CONSTANTS
    PythonScripts <- SmallScripts
    YamlFiles <- SmallFiles
    Tests <- SmallTests
    Mandatory = {}
    Performance = "performance"
    PlatformTests = {"a", "b"}
    PlatCert = "P3"
    Derived = "P4"
    Failure = Failure
    Missing = Missing
    PicsFiles <- SmallPics
    Projects <- SmallProjects
    Runs <- SmallRuns
    Commissionings <- SmallCommissionings
    Suites <- SmallSuites
    Sessions <- SmallSessions
INVARIANTS
    EachTestDeclaredOnce
    SkippedAreNotApplicable
    VerdictsAreAsDescribed
    EveryEntryIsInItsFile
    ReportAddsUp
    CommissionedAsConfigured
CHECK_DEADLOCK FALSE
