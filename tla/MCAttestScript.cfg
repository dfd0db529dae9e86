SPECIFICATION ScriptSpec
CONSTANTS
    Base = 2
    IdBytes = 2
    TimeBytes = 2
    Error = Error
    None = None
    c1 = c1
    c2 = c2
    x1 = x1
    x2 = x2
    Commits = {c1, c2}
    Content <- MCContent
    Before <- MCBefore
    Branches = {main}
    Origins = {"ssh", "local"}
    Verifies = {x1, x2}
    AddressTexts <- MCAddressTexts
    Timestamps = {1, 4}
    Texts <- MCTexts
    HashText <- MCHashText
    ShaText <- MCShaText
    UrlTexts <- MCUrls
    SubdirTexts <- MCSubdirs
    VersionText <- One
    DigestText <- OneOne
    Quote = 2
    Tried <- MCTried
INVARIANTS
    ScriptTypeOK
    AnswerIsAboutTheCheckedCommit
    PkgIdIsTheReportedAddress
    RefusalsHaveACause
    AcceptedIsWhatWasSigned
CHECK_DEADLOCK FALSE
