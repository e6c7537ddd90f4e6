SPECIFICATION Spec
CONSTANTS
    Specs <- TwoTriggers
    Created <- First
    MaxEvents = 1
INVARIANT CleanAttach
