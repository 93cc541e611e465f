CONSTANTS
    i1 = i1
    i2 = i2
    c1 = c1
    c2 = c2
    Slugs <- OneSlug
    Calls <- TwoCalls
    Settings <- SomeSettings
    MaxId = 4
    MaxChanges = 1
    MaxTroubles = 1
SPECIFICATION StartSpec
SYMMETRY Symmetric
INVARIANT ProvisionedAsConfigured
PROPERTIES RepetitionChangesNothing ForeignWorkflowsKept
CHECK_DEADLOCK FALSE
