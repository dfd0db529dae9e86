SPECIFICATION SVSpec
CONSTANTS
    None = None
    Deleted = Deleted
    Accounts = {publisher, provider}
    Publisher = publisher
    PcrValues = {imageA, imageB}
    Keys = {k1, k2}
    Names = {name}
    CapIds = {cap}
    ConfigIds = {config}
    EnclaveIds = {e1, e2}
    MaxVersion = 2
    PkgIds = {pkg}
    Claims = {claim1, claim2}
    Timestamps = {0}
    AttestationIds = {a1}
    MaxSignatures = 1
INVARIANTS
    SVTypeOK
    CurrentMeansExpected
    EnclaveProvedItsVersion
    AttestedWasSigned
    RotationIsEnforced
PROPERTIES
    StaleStaysStale
CHECK_DEADLOCK FALSE
