SPECIFICATION Spec
CONSTANTS
  MaxBucket = 4
  SECONDS_PER_DAY = 2
  BETTING_DURATION_DAYS = 2
  TIME_MULTIPLIERS <- MCMultipliers
  MULTIPLIER_SCALE = 1000
  CLOSENESS_SCALE = 100
  MaxU64 = 65535
  MaxU128 = 2147483647
  Amounts = {2, 3}
  Radii = {0, 1}
  PrizePools = {2, 11}
  StakeBound = 7
INVARIANTS PrizesExhaustPool CloserPaysNoLess SharesWithinPrize WaitingNeverGains
CHECK_DEADLOCK FALSE
