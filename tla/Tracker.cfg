CONSTANTS
    firefox = firefox
    kitty = kitty
    Ids <- MCIds
    Pids = {1, 2}
    NoId = NoId
    MaxLate = 2
SPECIFICATION TrackerFairSpec
INVARIANTS EveryEntryHasReaper TrackedUnlessReused
PROPERTY ExitNoticed
