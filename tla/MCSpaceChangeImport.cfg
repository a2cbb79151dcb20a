CONSTANTS
    FreeUnlockAttempts = 1
    BaseUnlockDelay = 1
    MaxUnlockDelay = 2
    MaxUnlockDoublings = 3
    FileErrors = FALSE
    Spaces = {s1}
    Callers = {c1, c2}
    Passwords = {p1, p2}
    KeyRefs = {k1, k2}
    Ops = {"create", "change"}
    KdfSlots = 1
    MaxSpaces = 1
    MaxAccounts = 2
    AutoLocks = {2}
    GrantTTLs = {1}
    SweepInterval = 1
    Faults = {}
    MaxTime = 0
    MaxWrong = 1
    None = None
SPECIFICATION Spec
SYMMETRY Symmetry
INVARIANT VaultHoldsImportedKeys
