CONSTANTS
    Env <- MCEnv
    Names <- MCNames
    IdOf <- MCIdOf
    Contents <- MCContents
    None = None
    Disks <- MCDisks
    Hideable <- MCHideable
    MaxRefreshes = 2
    ShortcutIds = {"x-y"}
    InPath <- MCInPath
    Cut = Cut
    Malformed = Malformed
    ArgLists <- MCArgLists
    IconRequests <- MCIconRequests
    MaxTokens = 2
    MaxEvents = 2
SPECIFICATION Spec
INVARIANTS TypeOK CatalogIsTheMerge AnswerWithinHistory ShownIsLaunchable WaitsForRequestsOnly
INVARIANTS ExecRoundTrips IconsAreFound
PROPERTIES TokenKept
