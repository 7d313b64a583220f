SPECIFICATION FairSpec
CONSTANTS
    Keys = {k1, k2}
    EverOwned = {k1}
    Mode = "full"
    HeavyInterval = 1
    CacheTTL = 1
    CbThreshold = 1
    CbCooldown = 2
    PollBound = 1
    BlankThreshold = 2
PROPERTIES
    OneProbePerCooldown
    OwnerNotLostUnread
    OwnersConverge
