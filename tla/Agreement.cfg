SPECIFICATION ClientSpec
CONSTANTS
  MaxBucket = 3
  SECONDS_PER_DAY = 2
  BETTING_DURATION_DAYS = 2
  TIME_MULTIPLIERS <- MCMultipliers
  MULTIPLIER_SCALE = 1000
  CLOSENESS_SCALE = 10
  MaxU64 = 65535
  MaxU128 = 2147483647
  o1 = o1
  o2 = o2
  Markets = {m1}
  Users = {u1}
  Signers = {o1, o2}
  OracleSets <- MCOracleSets
  Thresholds = {1, 2}
  StartDelays <- MCDelays
  Radii = {1}
  Amounts = {3}
  InitialWallet = 6
  MaxTime = 10
  SETTLEMENT_DAY = 3
  CLAIM_WINDOW_DAYS = 1
  ORACLE_WINDOWS_CLOSE_SECONDS = 1
  DEFAULT_PROTOCOL_FEE_BPS = 2500
  VaultOwner = "system"
  VaultSpace = 0
  VaultRent = 3
  TreasuryRent = 2
  CallerGives = {"market"}
INVARIANTS PrizesReachWinners ClientOffersExactly ClientMissesOneSecond ClientStagesDisjoint ClientDayAgrees NeverTooEarly RefusalNamed RepeatIsRefused OnlyFailedReadsHide
PROPERTIES HandlersFetchChanges
CHECK_DEADLOCK FALSE
