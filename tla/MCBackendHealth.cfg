SPECIFICATION Spec
CONSTANTS
    Backends = {b1, b2}
    DownAfter = 3
    UpAfter = 3
    Window = 5
SYMMETRY Symmetry
INVARIANTS
    HealthyRunClears
    LatchInv
PROPERTIES
    ArmOnEvidence
    AbsenceExplained
