SPECIFICATION Spec
CONSTANTS
    Agws = {agw1, agw2}
    agw1 = agw1
    agw2 = agw2
    JobOf <- Distinct
    SecretOf <- Shared
    Networks = {"n1"}
    Gateways = {"g1"}
    Keys = {k1, k2}
    k1 = k1
    k2 = k2
    Specs <- SecretSpecs
    Found = {"none"}
    MaxOrphans = 1
    MaxFaults = 0
SYMMETRY Symmetry
INVARIANTS TypeOK RegisteredWasConfirmed KeysNotShared
