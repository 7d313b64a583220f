SPECIFICATION GateSpec
CONSTANTS
    Names = {ann, bob}
    Passwords = {p, q}
    Sids = {s1, s2, s3}
    SessionMax = 1
    BootName = ann
    BootPassword = p
    Tids = {t1, t2}
    Cids = {c1}
    MaxTokens = 1
    MaxForms = 1
SYMMETRY Symmetry
INVARIANTS
    CredentialsInStep
    AdminRemains
    AdminsOnly
    SharedTokenKeptOut
    MustChangeConfines
