CONSTANTS
    Plans = {p1, p2}
    Wallets = {w}
    Txs = {t1, t2}
    Handlers = {h1, h2}
    Pollers = {q1}
    Faults = {"failed", "unsynced"}
    QuoteTTL = 1
    PlanRetention = 0
    MaxPlans = 2
    MaxOperations = 2
    Retention = 9
    MaxTime = 1
    None = None
SPECIFICATION Spec
SYMMETRY Symmetry
INVARIANTS OneTopUpPerWallet DepositAccountedFor
