CONSTANTS
    ip1 = ip1
    ip2 = ip2
    IPs <- MCIPs
    PerIPMax = 2
    GlobalMax = 3
    Window = 3
    TicksPerSecond = 2
    MaxClock = 6
SPECIFICATION LimiterSpec
INVARIANTS HeaderCoversWait TwiceTheBudget RefusedOnlyWhenSpent
PROPERTIES NoAdmissionBeforeTold
