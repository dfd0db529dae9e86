SPECIFICATION DeploySpec
CONSTANTS
    None = None
    Deleted = Deleted
    Error = Error
    Lost = Lost
    good = good
    bad = bad
    i_good = i_good
    i_bad = i_bad
    none_left = none_left
    pkg = pkg
    version_1 = version_1
    Accounts = {publisher}
    Publisher = publisher
    PcrValues = {honest, rogue}
    HonestImages = {honest}
    Keys = {k1, k2}
    Names = {name}
    CapIds = {cap}
    ConfigIds = {config}
    EnclaveIds = {e1}
    MaxVersion = 1
    PkgIds = {pkg}
    Claims <- MCClaims
    TruePayloads <- MCTruePayloads
    Timestamps = {0}
    AttestationIds = {a1}
    MaxSignatures = 2
    Machines = {m1}
    Commits = {good, bad}
    Inputs <- MCInputs
    Extras <- MCExtras
    NoExtras = none_left
    Envs = {"mainnet"}
    EgressEnvs = {"mainnet"}
    PublishedAt <- MCPublishedAt
    Toolchain <- MCToolchain
    OnChain <- MCOnChain
    RepoSize = 1
    HomeSize <- MCHomeSize
    Requests = {r}
    Revs = {main}
    MaxMoves = 1
SYMMETRY KeySymmetry
INVARIANTS
    DeployTypeOK
    NoFalseAttestation
    AttestationsAnswerRequests
PROPERTIES
    RotationStopsFalseAttestations
    ImplementsSystem
CHECK_DEADLOCK FALSE
