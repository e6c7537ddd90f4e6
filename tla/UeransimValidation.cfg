SPECIFICATION Spec
CONSTANTS
    Specs <- AllSpecs
    Created <- First
    MaxEvents = 2
INVARIANTS TypeOK VerdictOfTrigger
PROPERTIES OneShot VerdictReached
