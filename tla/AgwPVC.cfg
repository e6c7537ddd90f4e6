SPECIFICATION Spec
CONSTANTS
    Specs <- DefaultSpecs
    Volatile = {}
    MaxGeneration = 2
    MaxFaults = 0
PROPERTIES
    PVCPreserved
