SPECIFICATION EgressSpec
CONSTANTS
    Hosts = {"release-assets", "fullnode.testnet", "fullnode.mainnet"}
    AllowedEndpoints <- AllowedInRepo
    HostEntries <- HostsInRunSh
    Instances = {i1, i2}
    MaxEdits = 2
    Garbled = Garbled
    None = None
INVARIANTS
    EgressTypeOK
    GeneratedEgressIsRight
    HealthyMeansReached
    WorkingEgressLooksHealthy
CHECK_DEADLOCK FALSE
