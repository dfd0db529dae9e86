SPECIFICATION SVSpec
CONSTANTS
    None = None
    Deleted = Deleted
    Accounts = {publisher}
    Publisher = publisher
    PcrValues = {imageA, imageB}
    Keys = {k1, k2}
    Names = {name}
    CapIds = {cap}
    ConfigIds = {c1, c2}
    EnclaveIds = {e1, e2}
    MaxVersion = 1
    PkgIds = {pkg}
    Claims = {claim}
    Timestamps = {0}
    AttestationIds = {a1}
    MaxSignatures = 1
INVARIANTS
    RotationIsEnforced
CHECK_DEADLOCK FALSE
