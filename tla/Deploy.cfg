\* Deploys one after the other, three artifacts, two instance types and numbers of devices;
\* compilations may last for ever.
CONSTANTS
    Deployer = {d1}
    ModelId = {m1, m2}
    Version = {v1, v2, v3}
    Instance = {"g6", "g7"}
    Devices = {1, 2}
    None = None
    MaxPolls = 2
SPECIFICATION FairSpec
INVARIANTS
    OneModel
    PreparedAsAsked
    ServesWhatWasDeployed
    DevicesAsAsked
PROPERTIES
    DeploysEnd
