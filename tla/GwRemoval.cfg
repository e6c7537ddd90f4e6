SPECIFICATION Spec
CONSTANTS
    Agws = {"a"}
    JobOf <- Distinct
    SecretOf <- Distinct
    Networks = {"n1"}
    Gateways = {"g1"}
    Keys = {"k1", "k2", "k3"}
    Specs <- ImportSpecs
    Found = {"none", "generic", "k2"}
    MaxOrphans = 1
    MaxFaults = 1
PROPERTIES RegistrationCompletes DeregistrationCompletes
