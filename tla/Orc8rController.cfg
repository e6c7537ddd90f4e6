SPECIFICATION Spec
CONSTANTS
    Specs <- TwoSpecs
    MaxOps = 2
    MaxFaults = 1
INVARIANTS TypeOK MagmalteFollowsSpec NoOrphans
PROPERTIES CertsReused CertsServed ReadyAgain BootstrapRuns DeletionCompletes
CHECK_DEADLOCK FALSE
