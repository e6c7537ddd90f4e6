SPECIFICATION Spec
CONSTANTS
    Agws = {"a"}
    JobOf <- Distinct
    SecretOf <- Distinct
    Networks = {"n1"}
    Gateways = {"g1"}
    Keys = {"k1", "k2"}
    Specs <- RemovalSpecs
    Found = {"none"}
    MaxOrphans = 1
    MaxFaults = 0
PROPERTY RecordRemoved
