SPECIFICATION FairSpec
CONSTANTS
    Backends = {gpu, litellm}
    Watched = {gpu, litellm}
    Gpu = gpu
    Permits = 2
    DownAfter = 1
    UpAfter = 1
    Window = 0
INVARIANT
    ProbesBounded
PROPERTIES
    HungIsReported
    HealedIsReleased
