SPECIFICATION EgressSpec
CONSTANTS
    Hosts = {"release-assets", "fullnode.testnet", "fullnode.mainnet"}
    AllowedEndpoints <- AllowedInRepo
    HostEntries <- HostsInRunSh
    Instances = {i1}
    MaxEdits = 0
    Garbled = Garbled
    None = None
INVARIANTS
    ForwardsToTheRespectiveDomains
CHECK_DEADLOCK FALSE
