SPECIFICATION FairServerSpec
CONSTANTS
    None = None
    Error = Error
    Lost = Lost
    NoExtras = NoExtras
    good = good
    needs_extra = needs_extra
    too_large = too_large
    no_package = no_package
    i_good = i_good
    i_extra = i_extra
    i_large = i_large
    readme = readme
    pkg1 = pkg1
    pkg2 = pkg2
    pkg3 = pkg3
    v1 = v1
    v2 = v2
    Commits <- OneCommits
    Inputs <- OneInputs
    Extras <- OneExtras
    Envs = {"mainnet"}
    EgressEnvs = {"mainnet"}
    PublishedAt <- OnePublishedAt
    Toolchain <- OneToolchain
    OnChain <- OneOnChain
    RepoSize = 1
    HomeSize <- OneHomeSize
    Requests = {r1, r2, r3}
    Probes = {p1}
    Endpoints = 2
    Revs = {"main"}
    Workers = 2
    Capacity = 2
    MaxMoves = 0
    MaxCrashes = 1
PROPERTIES
    RequestsSettle
    ProbesAnswered
CHECK_DEADLOCK FALSE
