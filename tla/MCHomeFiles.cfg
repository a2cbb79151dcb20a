SPECIFICATION HomeSpec
CONSTANTS
  None = None
  Files = {"attempts", "space", "settings"}
  FreeUnlockAttempts = 1
  BaseUnlockDelay = 1
  MaxUnlockDelay = 4
  MaxUnlockDoublings = 3
  FileErrors = TRUE
  Setbacks = {6}
  MaxShift = 6
  Horizon = 14
  MaxFailures = 5
  EvmNetworks = {e1, e2}
  TronNetworks = {t1}
  SolanaNetworks = {s1}
  SecpKeys <- MCSecpKeys
  EdKeys = {k2}
  Legacy <- MCLegacy
  Ids = {a1, a2}
  Requests = {r1}
  MaxIndex = 1
  MaxAccounts = 2
  MaxFaults = 1
  Pages = {p1, p2}
  General = {1}
  MinAutoLock = 1
  MaxAutoLock = 1
  Durations = {0, 1}
  WriteOutcomes = {"done", "failed", "unsynced"}
  MaxSaves = 2
  MaxEdits = 1
SYMMETRY MCSymmetry
CHECK_DEADLOCK FALSE
INVARIANTS GuessesPayTheSchedule ClampLeavesScheduleAlone RefusedNoLonger OneWalletPerKeyOfAKind BoundIsSpendable SpaceReopens SignsForItsAddress MatchMeansSame 
