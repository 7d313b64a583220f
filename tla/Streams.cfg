SPECIFICATION StreamsSpec
CONSTANTS
    Streams = {s1, s2, s3}
    Clients = {ann, bob}
    MaxPerClient = 2
    MaxTotal = 2
    RecheckAfter = 1
    Lifetime = 3
INVARIANTS
    StreamsInv
    RevokedSoon
PROPERTIES
    StreamsEnd
