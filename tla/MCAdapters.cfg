SPECIFICATION AdaptersSpec
CONSTANTS
  None = None
  Families = {"evm", "solana", "tron", "sunswap"}
  EvmTabs = {t1, t2}
  Markets <- MCMarkets
  GasLevels = {1, 2}
  MaxGasPrice = 4
  Funds <- MCFunds
  MaxRounds = 3
  Amounts = {1}
  SolRequests <- MCSolRequests
  SolChains <- MCSolChains
  SolUses = {2, 4}
  SolPrices = {0, 6}
  SolRates = {1, 2, 3}
  SolLamports = {4, 9}
  SolTokens = {None, 0, 4}
  MaxMoves = 2
  LamportsPerSignature = 1
  Micro = 4
  MinPrice = 1
  MaxPrice = 4
  MaxLimit = 6
  CloseAllowance = 1
  Headroom = 1
  Rent = 3
  RentMin = 2
  Slippage = 3
  MaxSlippage = 5
  Whole = 10
  TronRequests <- MCTronRequests
  StakeRates <- MCStakeRates
  TronLoans <- MCTronLoans
  Skews <- MCSkews
  Lifetime = 4
  ClockSkew = 2
  NodeLifetime = 1
  FeeLimit = 5
  MaxTime = 8
  SwapTabs = {s1, s2}
  SwapRequests <- MCSwapRequests
  SwapGrants <- MCSwapGrants
  Payouts = {1, 4}
  Tolerances = {3}
  SwapSkews <- MCSwapSkews
  SwapSlippage = 5
  Parts = 10
  SwapDeadline = 1
  Permit2Lifetime = 3
  Permit2UnlimitedLifetime = 5
  RequestTimeout = 1
  TxLifetime = 1
  Unlimited = 9
  Holdings <- MCHoldings
  MaxSigned = 3
  SwapEnd = 3
SYMMETRY MCTabs
CHECK_DEADLOCK FALSE
INVARIANTS SendsCoexist CostsWhatWasShown MaxFits SolanaKeepsToApproval FreshQuoteIsHonoured SignedIsAsked SignedInTime ReclaimAllTakesAll SwapKeepsItsWord
