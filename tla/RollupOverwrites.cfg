SPECIFICATION Spec
CONSTANTS
    Sizes = {2, 4}
    Grace = 8
    RawKeep = 12
    Keep <- MCKeep
    RollupEvery = 1
    PruneEvery = 4
    Start = 40
    Gaps = {}
    Setbacks = {}
    MaxGap = 0
    MaxBack = 0
    Spans = {}
    RawSpan = 4
    FineSpan = 8
    Factor = 1
    Floor = 2
    Tolerance = 1
    LongSpan = 16
    Pans = {}
    MaxTime = 64
    MaxRestarts = 0
    MaxFailures = 0
    MaxSetbacks = 0
PROPERTY
    StoredBucketsKeep
