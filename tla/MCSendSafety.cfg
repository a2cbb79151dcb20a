CONSTANTS
    Keys = {k1, k2}
    Requests = {tron, evm, deploy}
    Txs = {t1, t2}
    Evm = {evm}
    Solana = {}
    Deploys = {deploy}
    Handlers = {h1, h2}
    Pollers = {p1}
    Faults = {"failed", "unsynced"}
    Lifetime = 1
    ExpiryMargin = 0
    Lag = 0
    MaxOperations = 1
    Retention = 1
    MaxBook = 1
    MaxTime = 1
    None = None
SPECIFICATION Spec
SYMMETRY Symmetry
INVARIANTS OneTransactionPerKey SentIsRecorded StatusIsTrue
PROPERTIES DroppedIsDecided
