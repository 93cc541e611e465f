CONSTANTS
    Runs = {r1, r2}
    Fields = {f1, f2}
    Configured = {f1, f2}
    Required = {f1}
    Scoped = {f2}
    FieldValues = {v1}
    Titles = {stem, t1}
    Stem = stem
    Correspondents = {c0, c1}
    Default = c0
    Empty = Empty
    NoValue = NoValue
    NoEntry = NoEntry
    AllowTitleOverwrite = FALSE
    CorrespondentEnabled = TRUE
    CorrespondentRequired = TRUE
    Exclusive = TRUE
    MaxEdits = 1
    MaxFaults = 1
SPECIFICATION ConsumedSpec
INVARIANTS SnapshotFresh AuditedWritesStand CompletedIsFilledWithoutFaults
PROPERTIES ProtectsKnownContent
SYMMETRY Symmetry
CHECK_DEADLOCK FALSE
