SPECIFICATION PartSpec
CONSTANTS
    Names <- MCNames
    Kind <- MCKind
    Low <- MCLow
    High <- MCHigh
    Choices = {"full", "lite"}
    On = {"yes"}
    Words = {"full", "lite", "yes"}
    Halves <- MCHalves
    Environments <- MCEnvironments
    Flags = {"spend_mu_backfill"}
    Keys = {"k"}
    Teams = {"a", "b"}
    Users = {"u"}
    Requests = {"r1", "r2"}
    Labels = {"x", "m"}
    Excluded = {"m"}
    Ttl = 1
    Start = 3
    MaxTime = 7
    MaxChanges = 1
    MaxFailures = 1
    MaxRead = 1
    Windows = {"w", "m"}
    Days = 2
    TokenTtl = 2
    MaxEntries = 1
    MaxSeconds = 1
    Backstop = 1
    CbThreshold = 2
    CbCooldown = 2
    MaxNow = 5
PROPERTIES
    SettingsHold
    BoardHolds
    KeysGated
    TokensPulledOnce
