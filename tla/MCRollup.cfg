SPECIFICATION Spec
CONSTANTS
    Sizes = {2, 4}
    Grace = 8
    RawKeep = 14
    Keep <- MCKeep
    RollupEvery = 1
    PruneEvery = 4
    Start = 40
    Gaps = {0, 5}
    Setbacks = {3}
    MaxGap = 5
    MaxBack = 3
    Spans = {3, 8, 16}
    RawSpan = 4
    FineSpan = 8
    Factor = 1
    Floor = 2
    Tolerance = 1
    LongSpan = 16
    Pans = {0, 6, 10}
    MaxTime = 62
    MaxRestarts = 1
    MaxFailures = 2
    MaxSetbacks = 1
PROPERTIES
    RecentBucketsExact
    NoRowLost
INVARIANT
    SiteGapsAreReal
