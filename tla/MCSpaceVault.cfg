CONSTANTS
    FreeUnlockAttempts = 0
    BaseUnlockDelay = 1
    MaxUnlockDelay = 1
    MaxUnlockDoublings = 3
    FileErrors = TRUE
    Spaces = {s1}
    Callers = {c1, c2}
    Passwords = {p1, p2}
    KeyRefs = {k1, k2}
    Ops = {"create", "unlock", "change", "delete", "backup"}
    KdfSlots = 1
    MaxSpaces = 1
    MaxAccounts = 2
    AutoLocks = {2}
    GrantTTLs = {1}
    SweepInterval = 1
    Faults = {"failed", "unsynced"}
    MaxTime = 1
    MaxWrong = 1
    None = None
SPECIFICATION Spec
SYMMETRY Symmetry
INVARIANTS TypeOK SessionKeyOpensVault KeysSurvive CooldownRespected FailuresCounted
PROPERTIES OnlyUnlockOpensSession
