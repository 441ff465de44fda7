SPECIFICATION FairSpec
CONSTANTS
    Jobs = 3
    Connections = {c1, c2}
INVARIANTS TypeOK DatabaseOutlivesWork EndsWithNothingRunning
PROPERTIES ImplementsScopedResources ClosingCompletes
CHECK_DEADLOCK FALSE
