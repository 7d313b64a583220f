SPECIFICATION LaneSpec
CONSTANTS
    Heartbeat = 3
    Retention = 4
    Gaps = {1, 3}
    MaxTime = 7
    MaxFailures = 1
    MaxRestarts = 1
INVARIANTS
    LaneIsTrue
    LostEventIsMended
