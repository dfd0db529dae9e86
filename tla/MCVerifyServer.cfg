SPECIFICATION ServerSpec
CONSTANTS
    None = None
    Error = Error
    Lost = Lost
    NoExtras = NoExtras
    good = good
    needs_extra = needs_extra
    too_large = too_large
    no_package = no_package
    i_good = i_good
    i_extra = i_extra
    i_large = i_large
    readme = readme
    pkg1 = pkg1
    pkg2 = pkg2
    pkg3 = pkg3
    v1 = v1
    v2 = v2
    Commits <- MCCommits
    Inputs <- MCInputs
    Extras <- MCExtras
    Envs = {"mainnet", "devnet"}
    EgressEnvs = {"mainnet"}
    PublishedAt <- MCPublishedAt
    Toolchain <- MCToolchain
    OnChain <- MCOnChain
    RepoSize = 1
    HomeSize <- MCHomeSize
    Requests = {r1, r2, r3}
    Probes = {}
    Endpoints = 1
    Revs = {"main"}
    Workers = 2
    Capacity = 3
    MaxMoves = 1
    MaxCrashes = 1
SYMMETRY RequestSymmetry
INVARIANTS
    ServerTypeOK
    OneAtATime
    LockIsNeverOrphaned
    ScratchUnderLock
    NoSpuriousEnospc
PROPERTIES
    ImplementsVerifyOnce
CHECK_DEADLOCK FALSE
