CONSTANTS
    Handlers = {h1, h2}
    Instances <- SomeInstances
    Bounds <- SomeBounds
SPECIFICATION FairSpec
INVARIANTS JobsNeedTheirTag OcrJobOnce CommandKept
PROPERTIES CommandAnswered
CHECK_DEADLOCK FALSE
