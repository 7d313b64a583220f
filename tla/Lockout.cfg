SPECIFICATION Spec
CONSTANTS
    Ips = {i1}
    Names = {ann}
    MaxFails = 3
    UserMaxFails = 2
    WindowS = 2
    LockS = 3
    UserLockS = 2
    DequeMax = 128
    PruneAt = 2
    MaxLogins = 2
    MaxNow = 7
INVARIANTS
    LocksJustified
    PruneIsInvisible
PROPERTIES
    LockNotProlonged
