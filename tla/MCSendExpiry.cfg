CONSTANTS
    Keys = {k1}
    Requests = {sol}
    Txs = {t1, t2}
    Evm = {}
    Solana = {sol}
    Deploys = {}
    Handlers = {h1, h2}
    Pollers = {p1}
    Faults = {"failed", "unsynced"}
    Lifetime = 1
    ExpiryMargin = 2
    Lag = 2
    MaxOperations = 2
    Retention = 9
    MaxBook = 1
    MaxTime = 6
    None = None
SPECIFICATION FairSpec
PROPERTIES SendKeepsPromise SolanaSettles
