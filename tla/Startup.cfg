SPECIFICATION FairSpec

CONSTANTS
    Service = service
    Servers = {service, client}
    Nobody = nobody
    Tokens = {"tok"}
    PortNumbers = {"8765", "8766"}
    Environments <- MCEnvironments
    Arguments <- MCArguments
    MaxKills = 2
    MaxRotations = 1

INVARIANTS
    StartupTypeOK
    StartupInv
    ServesWithSchema

PROPERTIES
    HealthHonest
    ServiceRecovers

CHECK_DEADLOCK FALSE
