CONSTANTS
    FreeUnlockAttempts = 1
    BaseUnlockDelay = 1
    MaxUnlockDelay = 1
    MaxUnlockDoublings = 3
    FileErrors = FALSE
    Spaces = {s1}
    Callers = {c1, c2}
    Passwords = {p1, p2}
    KeyRefs = {k1}
    Ops = {"create", "unlock", "change", "confirm", "send"}
    KdfSlots = 1
    MaxSpaces = 1
    MaxAccounts = 2
    AutoLocks = {1, 2}
    GrantTTLs = {1}
    SweepInterval = 2
    Faults = {}
    MaxTime = 2
    MaxWrong = 1
    None = None
SPECIFICATION Spec
SYMMETRY Symmetry
INVARIANTS GrantBackedByPassword  IdleSessionsEnd
PROPERTIES LapsedNeedsPassword
