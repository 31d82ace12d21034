SPECIFICATION IndexerSpec
CONSTANTS
  MaxBucket = 1
  SECONDS_PER_DAY = 1
  BETTING_DURATION_DAYS = 1
  TIME_MULTIPLIERS <- MCMultipliers
  MULTIPLIER_SCALE = 1000
  CLOSENESS_SCALE = 10
  MaxU64 = 65535
  MaxU128 = 2147483647
  o1 = o1
  o2 = o2
  Markets = {m1}
  Users = {u1}
  Signers = {o1, o2}
  OracleSets <- MCOracleSets
  Thresholds = {2}
  StartDelays <- MCDelays
  Radii = {0}
  Amounts = {2}
  InitialWallet = 2
  MaxTime = 1
  SETTLEMENT_DAY = 1
  CLAIM_WINDOW_DAYS = 0
  ORACLE_WINDOWS_CLOSE_SECONDS = 0
  DEFAULT_PROTOCOL_FEE_BPS = 2500
  VaultOwner = "system"
  VaultSpace = 0
  VaultRent = 3
  TreasuryRent = 1
  Requests = {r1, r2}
  MaxLanded = 8
  MaxBacklog = 2
  MaxBatch = 2
  MaxFaults = 0
  Failing = {}
SYMMETRY MCRequests
INVARIANTS ClaimsAreForwarded
CHECK_DEADLOCK FALSE
