SPECIFICATION Spec
CONSTANTS
  MaxBucket = 2
  SECONDS_PER_DAY = 1
  BETTING_DURATION_DAYS = 2
  TIME_MULTIPLIERS <- MCMultipliers
  MULTIPLIER_SCALE = 1000
  CLOSENESS_SCALE = 10
  MaxU64 = 65535
  MaxU128 = 2147483647
  u1 = u1
  u2 = u2
  o1 = o1
  o2 = o2
  o3 = o3
  o4 = o4
  Markets = {m1}
  Users = {u1, u2}
  Signers = {o1, o2, o3}
  OracleSets <- MCDistinct
  Thresholds = {2}
  StartDelays <- MCDelays
  Radii = {0, 1}
  Amounts = {2, 3}
  InitialWallet = 3
  MaxTime = 6
  SETTLEMENT_DAY = 3
  CLAIM_WINDOW_DAYS = 2
  ORACLE_WINDOWS_CLOSE_SECONDS = 1
  DEFAULT_PROTOCOL_FEE_BPS = 2000
  VaultOwner = "program"
  VaultSpace = 8
  VaultRent = 3
  TreasuryRent = 2
SYMMETRY MCSymmetry
INVARIANTS AnyoneCanResolve
CHECK_DEADLOCK FALSE
