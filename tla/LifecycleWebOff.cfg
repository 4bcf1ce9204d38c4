CONSTANTS
    firefox = firefox
    Blank = Blank
    Junk = Junk
    Refused = Refused
    NotGiven = NotGiven
    Apps <- MCApps
    Setups <- MCSetups
    MaxBusy = 2
SPECIFICATION FairSpec
INVARIANTS DrainsOnlyWhenTold
