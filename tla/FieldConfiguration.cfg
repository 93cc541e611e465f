CONSTANTS
    e1 = e1
    e2 = e2
    Editors <- TwoEditors
    Labels <- SomeLabels
    NormalForm <- SomeNormalForm
    StandardLabel = "A"
    MaxId = 2
    Typed <- SecondIds
    MaxNew = 1
    MaxSaves = 2
    MaxTroubles = 1
SPECIFICATION StartSpec
SYMMETRY Symmetric
INVARIANTS ValuesReachTheirField
PROPERTIES ImportTakesNoLink LoadingSettles RetryIsAccepted
CHECK_DEADLOCK FALSE
