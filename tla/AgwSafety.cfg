SPECIFICATION Spec
CONSTANTS
    Specs <- SafetySpecs
    Volatile = {"deregister", "register"}
    MaxGeneration = 3
    MaxFaults = 1
INVARIANTS
    TypeOK
    SettledMeansReconciled
    SimulatorFollowsSpec
    NoOrphans
    WorkloadsHaveIdentity
PROPERTIES
    DeletionCompletes
