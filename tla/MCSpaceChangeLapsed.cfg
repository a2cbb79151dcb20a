CONSTANTS
    FreeUnlockAttempts = 1
    BaseUnlockDelay = 1
    MaxUnlockDelay = 2
    MaxUnlockDoublings = 3
    FileErrors = FALSE
    Spaces = {s1}
    Callers = {c1}
    Passwords = {p1, p2}
    KeyRefs = {}
    Ops = {"create", "unlock", "change"}
    KdfSlots = 1
    MaxSpaces = 1
    MaxAccounts = 1
    AutoLocks = {3}
    GrantTTLs = {1}
    SweepInterval = 2
    Faults = {}
    MaxTime = 4
    MaxWrong = 1
    None = None
SPECIFICATION FairSpec
PROPERTIES LapsedStaysClosed
