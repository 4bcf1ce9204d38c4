CONSTANTS
    MaxKeys = 3
    MayIgnoreHup = TRUE
SPECIFICATION Spec
CHECK_DEADLOCK FALSE
INVARIANTS CalmKeysArrive
PROPERTIES EndsForAReason EndsAll ExitCloses
