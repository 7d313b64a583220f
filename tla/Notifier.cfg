SPECIFICATION FairSpec
CONSTANTS
    Keys = {k1, k2}
    Repeat = 2
    Gaps = {1, 2}
    LastCap = 1
    Timeouts = 1
INVARIANTS
    AlarmsTracked
    DueMatchesHistory
PROPERTIES
    MessagesArePager
    StampsArePager
    UncancelledAlarmCloses
