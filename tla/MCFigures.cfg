SPECIFICATION PartSpec
CONSTANTS
    Actors = {"capture", "page", "poll", "backfill"}
    LastDay = 2
    DayLen = 1
    MaxRequests = 2
    Live = 1
    Window = 1
    Backfill = 1
    Retention = 1
    Callers = {"sampler", "panel"}
    MaxEntries = 4
    MaxPage = 3
    PageLimit = 3
    Keys = {"h1", "h2"}
    Aliases = {"a", "m"}
    Masked = {"m"}
    Labels = {"k1", "k2"}
    TopN = 1
    MaxRows = 2
    Models <- ListPrices
    External = {"paid"}
    Excluded = {"k2"}
    Barred <- BarredOwner
    Prices = {2}
    LastUse = 5
    MonthLen = 2
    Short = 2
    Months = 2
    Anchors = {2, 5}
    LastTick = 5
    MaxMade = 1
    Rebases = {0, 1}
    LookbackTicks = 2
    BucketLen = 2
    LastBucket = 3
    Loads <- Shapes
    MaxGap = 2
    Lookback = 4
    Scale = 840
INVARIANTS
    ChartsAgree
    TotalsTrue
    PanelComplete
PROPERTIES
    LedgerTrue
    ListsRead
