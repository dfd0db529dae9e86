SPECIFICATION HashSpec
CONSTANTS
    Paths <- LossyPaths
    Top = "."
    Parent <- LossyParent
    MoveToml = "Move.toml"
    OtherManifests = {}
    Sources = "sources"
    MoveNames <- LossyMoveNames
    Text <- LossyText
    Rank <- LossyRank
    Absent = Absent
    Error = Error
INVARIANTS
    Reproducible
CHECK_DEADLOCK FALSE
