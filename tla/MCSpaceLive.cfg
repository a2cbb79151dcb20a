CONSTANTS
    FreeUnlockAttempts = 1
    BaseUnlockDelay = 1
    MaxUnlockDelay = 2
    MaxUnlockDoublings = 3
    FileErrors = FALSE
    Spaces = {s1, s2}
    Callers = {c1, c2}
    Passwords = {p1}
    KeyRefs = {}
    Ops = {"create", "createFirst", "unlock", "change", "reveal"}
    KdfSlots = 1
    MaxSpaces = 2
    MaxAccounts = 2
    AutoLocks = {1}
    GrantTTLs = {1, 2}
    SweepInterval = 1
    Faults = {}
    MaxTime = 0
    MaxWrong = 1
    None = None
SPECIFICATION FairSpec
PROPERTIES CallsReturn
