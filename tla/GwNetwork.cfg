SPECIFICATION Spec
CONSTANTS
    Agws = {"a"}
    JobOf <- Distinct
    SecretOf <- Distinct
    Networks = {"n1", "n2"}
    Gateways = {"g1"}
    Keys = {"k1"}
    Specs <- NetworkSpecs
    Found = {"none"}
    MaxOrphans = 1
    MaxFaults = 1
 
PROPERTIES RegistrationCompletes RegistrationFollowsNetwork
