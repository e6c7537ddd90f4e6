SPECIFICATION Spec
CONSTANTS
    Specs <- GateSpecs
    Volatile = {"lifecycle"}
    MaxGeneration = 2
    MaxFaults = 1
INVARIANT SettledMeansReconciled
PROPERTIES
    Converges
    GateCloses
