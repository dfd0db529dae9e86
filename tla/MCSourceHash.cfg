SPECIFICATION HashSpec
CONSTANTS
    Paths <- Utf8Paths
    Top = "."
    Parent <- Utf8Parent
    MoveToml = "Move.toml"
    OtherManifests = {"Published.toml"}
    Sources = "sources"
    MoveNames <- Utf8MoveNames
    Text <- Utf8Text
    Rank <- Utf8Rank
    Absent = Absent
    Error = Error
INVARIANTS
    HashTypeOK
    HashCoversTheBuild
    Reproducible
    SymlinksAreRefused
PROPERTIES
    ImplementsBuildInputs
CHECK_DEADLOCK FALSE
