----------------------------- MODULE ShareProofs -----------------------------
(***************************************************************************)
(* The four properties of PrizeShares, for every width of the bucket array,*)
(* every series of bets, every outcome, radius and prize money within      *)
(* PrizeShareConstants.                                                    *)
(*                                                                         *)
(* What the pool's history contributes is ShareInv: the weight of a bucket *)
(* never exceeds its stake, hence no product saturates; cell 0 stays empty;*)
(* and a position keeps weighing at most what its whole amount would have  *)
(* weighed at its first bet.  The rest is arithmetic on one pool.          *)
(***************************************************************************)
EXTENDS PrizeShares, WeightsProofs

\* A position: its amount, its weight, the time of its first stake.
Stakes == [ amount : Nat, weighted_amount : Nat, since : Nat ]

SharesTypeOK ==
    /\ now \in 0..BettingTime
    /\ pool \in [Buckets -> Nat]
    /\ weighted_pool \in [Buckets -> Nat]
    /\ mine \in [Buckets -> Stakes]

\* Nobody can bet on cell 0.
CellZeroEmpty == pool[0] = 0 /\ weighted_pool[0] = 0

\* A stake weighs at most its lamports, and the stakes stay within their bound.
WeightWithinStake ==
    /\ \A b \in Buckets : weighted_pool[b] <= pool[b]
    /\ SumFunctionOnSet(pool, Buckets) <= StakeBound

\* The bettor's weight is part of the bucket's, and at most what her whole amount
\* weighs on the day of her first bet.
PositionWithinPool ==
    \A b \in Buckets :
        /\ mine[b].weighted_amount <= weighted_pool[b]
        /\ mine[b].since <= now
        /\ mine[b].weighted_amount
             <= WeightedAmount(mine[b].amount, DayIndex(mine[b].since, 0))

ShareInv == SharesTypeOK /\ CellZeroEmpty /\ WeightWithinStake /\ PositionWithinPool
----------------------------------------------------------------------------
(* Days and weights. *)

\* A later time is not an earlier day.
LEMMA DayMonotone ==
    ASSUME NEW t \in Nat, NEW u \in Nat, t <= u
    PROVE  DayIndex(t, 0) <= DayIndex(u, 0)
<1> DEFINE s == SECONDS_PER_DAY
           p == t \div s
           q == u \div s
<1>1. s \in Nat \ {0} /\ BETTING_DURATION_DAYS \in Nat
  BY WeightConstants
<1>2. p \in Int /\ s * p <= t /\ q \in Int
  BY <1>1, Division
<1>3. p <= q
  BY <1>1, <1>2, QuotientMax
<1> HIDE DEF p, q
<1>4. (IF p < BETTING_DURATION_DAYS THEN p ELSE BETTING_DURATION_DAYS - 1)
        <= (IF q < BETTING_DURATION_DAYS THEN q ELSE BETTING_DURATION_DAYS - 1)
  BY <1>1, <1>2, <1>3
<1>5. t - 0 = t /\ u - 0 = u
  OBVIOUS
<1> QED
  BY <1>4, <1>5 DEF DayIndex, p, q, s

\* A later day does not weigh more, and none weighs more than the stake.
LEMMA MultiplierFalls ==
    ASSUME NEW d \in 0..BETTING_DURATION_DAYS - 1, NEW e \in 0..BETTING_DURATION_DAYS - 1, d <= e
    PROVE  /\ TimeMultiplier(d) \in Nat /\ TimeMultiplier(e) \in Nat
           /\ TimeMultiplier(e) <= TimeMultiplier(d)
           /\ TimeMultiplier(d) <= MULTIPLIER_SCALE
<1>1. /\ d + 1 \in 1..BETTING_DURATION_DAYS /\ e + 1 \in 1..BETTING_DURATION_DAYS
      /\ 1 \in 1..BETTING_DURATION_DAYS /\ d + 1 <= e + 1 /\ 1 <= d + 1
  BY WeightConstants
<1>2. /\ TIME_MULTIPLIERS[d + 1] \in Nat /\ TIME_MULTIPLIERS[e + 1] \in Nat
      /\ TIME_MULTIPLIERS[1] \in Nat
  BY <1>1, WeightConstants
<1>3. /\ TIME_MULTIPLIERS[e + 1] <= TIME_MULTIPLIERS[d + 1]
      /\ TIME_MULTIPLIERS[d + 1] <= TIME_MULTIPLIERS[1]
      /\ TIME_MULTIPLIERS[1] <= MULTIPLIER_SCALE
  BY <1>1, PrizeShareConstants
<1> QED
  BY <1>2, <1>3, WeightConstants DEF TimeMultiplier

\* A stake weighs at most its lamports.
LEMMA WeightAtMostStake ==
    ASSUME NEW amount \in Nat, NEW day \in 0..BETTING_DURATION_DAYS - 1
    PROVE  WeightedAmount(amount, day) \in Nat /\ WeightedAmount(amount, day) <= amount
<1> DEFINE c == TimeMultiplier(day)
           s == MULTIPLIER_SCALE
           w == WeightedAmount(amount, day)
<1>1. c \in Nat /\ s \in Nat \ {0} /\ c <= s
  BY MultiplierFalls, WeightConstants
<1>2. amount * c \in Nat /\ amount * c <= s * amount
  BY <1>1
<1>3. w \in Nat /\ w * s <= amount * c
  <2>1. w = (amount * c) \div s
    BY DEF WeightedAmount
  <2>2. w \in Nat
    BY WeightedAmountType
  <2> HIDE DEF w, c, s
  <2>3. w <= (amount * c) \div s
    BY <2>1, <2>2
  <2> QED
    BY <1>1, <1>2, <2>2, <2>3, DivScale
<1> HIDE DEF w, c, s
<1>4. w * s <= s * amount
  <2>1. w * s \in Nat /\ s * amount \in Nat
    BY <1>1, <1>3
  <2> QED
    BY <1>2, <1>3, <2>1
<1> QED
  BY <1>1, <1>3, <1>4, CancelFactor DEF w

\* Two stakes, the second on the same day or a later one, weigh together at most
\* what their sum weighs on the first day.
LEMMA WeightsJoin ==
    ASSUME NEW a \in Nat, NEW b \in Nat, NEW w \in Nat,
           NEW d \in 0..BETTING_DURATION_DAYS - 1, NEW e \in 0..BETTING_DURATION_DAYS - 1,
           d <= e, w <= WeightedAmount(a, d)
    PROVE  w + WeightedAmount(b, e) <= WeightedAmount(a + b, d)
<1> DEFINE s == MULTIPLIER_SCALE
           c == TimeMultiplier(d)
           k == TimeMultiplier(e)
           v == WeightedAmount(b, e)
<1>1. s \in Nat \ {0} /\ c \in Nat /\ k \in Nat /\ k <= c
  BY WeightConstants, MultiplierFalls
<1>2. v \in Nat /\ v = (b * k) \div s
  BY WeightedAmountType DEF WeightedAmount
<1>3. w <= (a * c) \div s
  BY DEF WeightedAmount
<1> HIDE DEF s, c, k, v
<1>4. w * s <= a * c
  <2>1. a * c \in Nat
    BY <1>1
  <2> QED
    BY <1>1, <1>3, <2>1, DivScale
<1>5. v * s <= b * k
  <2>1. b * k \in Nat /\ v <= (b * k) \div s
    BY <1>1, <1>2
  <2> QED
    BY <1>1, <1>2, <2>1, DivScale
<1>6. b * k <= b * c
  BY <1>1
<1>7. s * (w + v) <= (a + b) * c
  <2>1. s * (w + v) = w * s + v * s /\ (a + b) * c = a * c + b * c
    BY <1>1, <1>2
  <2>2. /\ w * s \in Nat /\ v * s \in Nat /\ a * c \in Nat /\ b * k \in Nat /\ b * c \in Nat
    BY <1>1, <1>2
  <2> QED
    BY <1>4, <1>5, <1>6, <2>1, <2>2
<1>8. w + v <= ((a + b) * c) \div s
  <2>1. (a + b) * c \in Int /\ w + v \in Int
    BY <1>1, <1>2
  <2> QED
    BY <1>1, <1>7, <2>1, QuotientMax
<1> QED
  BY <1>8 DEF WeightedAmount, s, c, v
----------------------------------------------------------------------------
(* The invariant of the pool. *)

LEMMA SharesInit == Init => ShareInv
<1> SUFFICES ASSUME Init PROVE ShareInv
  OBVIOUS
<1>1. BettingTime \in Nat
  BY WeightConstants, MulNat DEF BettingTime
<1>2. 0 \in Buckets
  BY WeightConstants DEF Buckets
<1>3. SharesTypeOK
  BY <1>1 DEF Init, SharesTypeOK, Stakes, NoStake
<1>4. CellZeroEmpty
  BY <1>2 DEF Init, CellZeroEmpty
<1>5. WeightWithinStake
  <2>1. SumFunctionOnSet(pool, Buckets) = 0
    BY BucketsFinite, SumZero DEF Init
  <2> QED
    BY <2>1, PrizeShareConstants DEF Init, WeightWithinStake
<1>6. PositionWithinPool
  <2>1. WeightedAmount(0, DayIndex(0, 0)) \in Nat
    BY DayIndexType, WeightedAmountType
  <2> QED
    BY <2>1 DEF Init, PositionWithinPool, NoStake
<1> QED
  BY <1>3, <1>4, <1>5, <1>6 DEF ShareInv

\* What a bet does to the two pools, whoever places it.
LEMMA StakeKeeps ==
    ASSUME ShareInv, NEW b \in Playable, NEW amount \in Amounts, StakeIn(b, amount)
    PROVE  LET w == WeightedAmount(amount, DayIndex(now, 0)) IN
           /\ w \in Nat /\ amount \in Nat /\ DayIndex(now, 0) \in 0..BETTING_DURATION_DAYS - 1
           /\ pool' \in [Buckets -> Nat] /\ weighted_pool' \in [Buckets -> Nat]
           /\ weighted_pool'[b] = weighted_pool[b] + w
           /\ \A i \in Buckets \ {b} : weighted_pool'[i] = weighted_pool[i]
           /\ CellZeroEmpty' /\ WeightWithinStake' /\ now' = now /\ now \in Nat
<1> DEFINE w == WeightedAmount(amount, DayIndex(now, 0))
<1>1. now \in Nat /\ pool \in [Buckets -> Nat] /\ weighted_pool \in [Buckets -> Nat]
  BY DEF ShareInv, SharesTypeOK
<1>2. amount \in Nat
  BY PrizeShareConstants
<1>3. DayIndex(now, 0) \in 0..BETTING_DURATION_DAYS - 1
  BY <1>1, DayIndexType
<1>4. w \in Nat /\ w <= amount
  BY <1>2, <1>3, WeightAtMostStake
<1>5. b \in Buckets /\ 0 \in Buckets /\ b # 0
  BY WeightConstants DEF Buckets, Playable
<1>6. /\ pool' = [ pool EXCEPT ![b] = @ + amount ]
      /\ weighted_pool' = [ weighted_pool EXCEPT ![b] = @ + w ]
      /\ now' = now /\ SumFunction(pool) + amount <= StakeBound
  BY DEF StakeIn
<1> HIDE DEF w
<1>7. pool' \in [Buckets -> Nat] /\ weighted_pool' \in [Buckets -> Nat]
  BY <1>1, <1>2, <1>4, <1>5, <1>6
<1>8. /\ pool'[b] = pool[b] + amount /\ weighted_pool'[b] = weighted_pool[b] + w
      /\ \A i \in Buckets \ {b} : pool'[i] = pool[i] /\ weighted_pool'[i] = weighted_pool[i]
  BY <1>1, <1>5, <1>6
<1>9. CellZeroEmpty'
  BY <1>5, <1>8 DEF ShareInv, CellZeroEmpty
<1>10. WeightWithinStake'
  <2>1. \A i \in Buckets : weighted_pool'[i] <= pool'[i]
    BY <1>1, <1>2, <1>4, <1>5, <1>8 DEF ShareInv, WeightWithinStake
  <2>2. SumFunctionOnSet(pool', Buckets)
          = SumFunctionOnSet(pool, Buckets) - pool[b] + pool'[b]
    BY <1>1, <1>5, <1>7, <1>8, BucketsFinite, SumUpdate
  <2>3. SumFunctionOnSet(pool, Buckets) \in Nat
    BY <1>1, BucketsFinite, SumNat
  <2>4. SumFunctionOnSet(pool', Buckets) = SumFunctionOnSet(pool, Buckets) + amount
    <3>1. pool[b] \in Nat
      BY <1>1, <1>5
    <3> QED
      BY <1>2, <1>8, <2>2, <2>3, <3>1
  <2>5. SumFunction(pool) = SumFunctionOnSet(pool, Buckets)
    BY <1>1 DEF SumFunction
  <2>6. SumFunctionOnSet(pool', Buckets) <= StakeBound
    BY <1>6, <2>4, <2>5
  <2> QED
    BY <2>1, <2>6 DEF WeightWithinStake
<1> QED
  BY <1>1, <1>2, <1>3, <1>4, <1>6, <1>7, <1>8, <1>9, <1>10 DEF w

LEMMA SharesNext == ShareInv /\ [Next]_vars => ShareInv'
<1> SUFFICES ASSUME ShareInv, [Next]_vars PROVE ShareInv'
  OBVIOUS
<1>0. now \in Nat /\ mine \in [Buckets -> Stakes] /\ BettingTime \in Nat
  BY WeightConstants, MulNat DEF ShareInv, SharesTypeOK, BettingTime
<1>1. CASE Tick
  <2>1. /\ now' = now + 1 /\ now' \in 0..BettingTime
        /\ pool' = pool /\ weighted_pool' = weighted_pool /\ mine' = mine
    BY <1>0, <1>1 DEF Tick
  <2>2. \A b \in Buckets : mine[b].since \in Nat
    BY <1>0 DEF Stakes
  <2>3. PositionWithinPool'
    BY <1>0, <2>1, <2>2 DEF ShareInv, PositionWithinPool
  <2> QED
    BY <2>1, <2>3 DEF ShareInv, SharesTypeOK, CellZeroEmpty, WeightWithinStake
<1>2. ASSUME NEW b \in Playable, NEW amount \in Amounts, OthersBet(b, amount)
      PROVE  ShareInv'
  <2> DEFINE w == WeightedAmount(amount, DayIndex(now, 0))
  <2>1. StakeIn(b, amount) /\ mine' = mine
    BY <1>2 DEF OthersBet
  <2>2. /\ w \in Nat
        /\ pool' \in [Buckets -> Nat] /\ weighted_pool' \in [Buckets -> Nat]
        /\ weighted_pool'[b] = weighted_pool[b] + w
        /\ \A i \in Buckets \ {b} : weighted_pool'[i] = weighted_pool[i]
        /\ CellZeroEmpty' /\ WeightWithinStake' /\ now' = now
    BY <2>1, StakeKeeps
  <2> HIDE DEF w
  <2>3. \A i \in Buckets : weighted_pool[i] \in Nat /\ mine[i].weighted_amount \in Nat
    BY <1>0 DEF ShareInv, SharesTypeOK, Stakes
  <2>4. PositionWithinPool'
    BY <2>1, <2>2, <2>3 DEF ShareInv, PositionWithinPool
  <2> QED
    BY <2>1, <2>2, <2>4 DEF ShareInv, SharesTypeOK
<1>3. ASSUME NEW b \in Playable, NEW amount \in Amounts, MyBet(b, amount)
      PROVE  ShareInv'
  <2> DEFINE day == DayIndex(now, 0)
             w   == WeightedAmount(amount, day)
             new == [ amount          |-> mine[b].amount + amount,
                      weighted_amount |-> mine[b].weighted_amount + w,
                      since           |-> IF mine[b].amount = 0 THEN now ELSE mine[b].since ]
  <2>1. StakeIn(b, amount) /\ mine' = [ mine EXCEPT ![b] = new ]
    BY <1>3 DEF MyBet
  <2>2. /\ w \in Nat /\ amount \in Nat /\ day \in 0..BETTING_DURATION_DAYS - 1
        /\ pool' \in [Buckets -> Nat] /\ weighted_pool' \in [Buckets -> Nat]
        /\ weighted_pool'[b] = weighted_pool[b] + w
        /\ \A i \in Buckets \ {b} : weighted_pool'[i] = weighted_pool[i]
        /\ CellZeroEmpty' /\ WeightWithinStake' /\ now' = now
    BY <2>1, StakeKeeps
  <2>3. b \in Buckets
    BY BucketsFinite
  <2>4. /\ mine[b].amount \in Nat /\ mine[b].weighted_amount \in Nat /\ mine[b].since \in Nat
        /\ mine[b].weighted_amount <= weighted_pool[b] /\ mine[b].since <= now
        /\ weighted_pool[b] \in Nat
        /\ mine[b].weighted_amount
             <= WeightedAmount(mine[b].amount, DayIndex(mine[b].since, 0))
    BY <1>0, <2>3 DEF ShareInv, SharesTypeOK, PositionWithinPool, Stakes
  <2>5. w + mine[b].weighted_amount <= WeightedAmount(mine[b].amount + amount,
                                                      DayIndex(new.since, 0))
    <3>1. CASE mine[b].amount = 0
      <4>1. mine[b].weighted_amount <= 0
        <5>1. DayIndex(mine[b].since, 0) \in 0..BETTING_DURATION_DAYS - 1
          BY <2>4, DayIndexType
        <5> QED
          BY <2>4, <3>1, <5>1, WeightAtMostStake
      <4>2. new.since = now
        BY <3>1
      <4>3. mine[b].amount + amount = amount /\ w + mine[b].weighted_amount = w
        BY <2>2, <2>4, <3>1, <4>1
      <4> QED
        BY <2>2, <4>2, <4>3
    <3>2. CASE mine[b].amount # 0
      <4>1. new.since = mine[b].since
        BY <3>2
      <4>2. /\ DayIndex(mine[b].since, 0) \in 0..BETTING_DURATION_DAYS - 1
            /\ DayIndex(mine[b].since, 0) <= day
        BY <1>0, <2>4, DayIndexType, DayMonotone
      <4>3. mine[b].weighted_amount + w
              <= WeightedAmount(mine[b].amount + amount, DayIndex(mine[b].since, 0))
        <5> HIDE DEF day
        <5> QED
          BY <2>2, <2>4, <4>2, WeightsJoin
      <4>4. mine[b].weighted_amount + w = w + mine[b].weighted_amount
        BY <2>2, <2>4
      <4> QED
        BY <4>1, <4>3, <4>4
    <3> QED
      BY <3>1, <3>2
  <2>6. /\ new \in Stakes /\ new.since <= now
        /\ new.amount = mine[b].amount + amount
        /\ new.weighted_amount = w + mine[b].weighted_amount
    BY <1>0, <2>2, <2>4 DEF Stakes
  <2> HIDE DEF w, new
  <2>7. /\ mine' \in [Buckets -> Stakes] /\ mine'[b] = new
        /\ \A i \in Buckets \ {b} : mine'[i] = mine[i]
    BY <1>0, <2>1, <2>3, <2>6
  <2>8. ASSUME NEW i \in Buckets
        PROVE  /\ mine'[i].weighted_amount <= weighted_pool'[i]
               /\ mine'[i].since <= now
               /\ mine'[i].weighted_amount
                    <= WeightedAmount(mine'[i].amount, DayIndex(mine'[i].since, 0))
    <3>1. CASE i = b
      BY <2>2, <2>4, <2>5, <2>6, <2>7, <3>1
    <3>2. CASE i # b
      BY <2>2, <2>7, <3>2 DEF ShareInv, PositionWithinPool
    <3> QED
      BY <3>1, <3>2
  <2>9. PositionWithinPool'
    BY <2>2, <2>8 DEF PositionWithinPool
  <2> QED
    BY <2>2, <2>7, <2>9 DEF ShareInv, SharesTypeOK
<1>4. CASE UNCHANGED vars
  BY <1>4 DEF vars, ShareInv, SharesTypeOK, CellZeroEmpty, WeightWithinStake, PositionWithinPool
<1> QED
  BY <1>1, <1>2, <1>3, <1>4 DEF Next

\* In every reachable state.
LEMMA SharesAlways == Spec => []ShareInv
<1> QED
  BY SharesInit, SharesNext, PTL DEF Spec

\* Nobody gains weight by waiting or by splitting a stake.
THEOREM WaitingPaysNothing == Spec => []WaitingNeverGains
<1>1. ShareInv => WaitingNeverGains
  BY BucketsFinite DEF ShareInv, PositionWithinPool, WaitingNeverGains
<1> QED
  BY <1>1, SharesAlways, PTL
----------------------------------------------------------------------------
(* The prizes of one pool. *)

\* A pool the bets can build up.
PoolWithin(arr) ==
    /\ arr \in [Buckets -> Nat]
    /\ arr[0] = 0
    /\ \A b \in Buckets : arr[b] <= StakeBound

LEMMA PoolsWithin == ShareInv => PoolWithin(weighted_pool)
<1> SUFFICES ASSUME ShareInv PROVE PoolWithin(weighted_pool)
  OBVIOUS
<1>1. pool \in [Buckets -> Nat] /\ weighted_pool \in [Buckets -> Nat] /\ weighted_pool[0] = 0
  BY DEF ShareInv, SharesTypeOK, CellZeroEmpty
<1>2. ASSUME NEW b \in Buckets PROVE weighted_pool[b] <= StakeBound
  <2>1. /\ SumFunctionOnSet(pool, Buckets) = pool[b] + SumFunctionOnSet(pool, Buckets \ {b})
        /\ SumFunctionOnSet(pool, Buckets \ {b}) \in Nat
    BY <1>1, BucketsFinite, SumTake
  <2>2. weighted_pool[b] <= pool[b] /\ SumFunctionOnSet(pool, Buckets) <= StakeBound
    BY DEF ShareInv, WeightWithinStake
  <2>3. pool[b] \in Nat /\ weighted_pool[b] \in Nat
    BY <1>1
  <2> QED
    BY <2>1, <2>2, <2>3, PrizeShareConstants
<1> QED
  BY <1>1, <1>2 DEF PoolWithin

\* The closeness of a bucket that can be bet on is positive, at most the scale, and
\* falls with the distance.
LEMMA ClosenessPositive ==
    ASSUME NEW b \in Playable, NEW outcome \in Playable
    PROVE  /\ ClosenessWeight(b, outcome) \in Nat \ {0}
           /\ ClosenessWeight(b, outcome) <= CLOSENESS_SCALE
           /\ Distance(b, outcome) \in Nat
<1> DEFINE d == Distance(b, outcome)
           k == CLOSENESS_SCALE
<1>1. d \in Nat /\ d + 1 <= k /\ k \in Nat \ {0}
  BY WeightConstants, PrizeShareConstants DEF Playable, Distance
<1>2. ClosenessWeight(b, outcome) = k \div (d + 1)
  BY DEF ClosenessWeight
<1> HIDE DEF d, k
<1>3. k \div (d + 1) \in Nat /\ (d + 1) * (k \div (d + 1)) <= k
  <2>1. d + 1 \in Nat \ {0} /\ k \in Nat
    BY <1>1
  <2> QED
    BY <2>1, DivNat
<1>4. 1 <= k \div (d + 1)
  <2>1. (d + 1) * 1 <= k /\ d + 1 \in Nat \ {0}
    BY <1>1
  <2> QED
    BY <1>1, <2>1, QuotientMax
<1> DEFINE q == k \div (d + 1)
<1>5. q <= k
  <2>1. q \in Nat /\ (d + 1) * q <= k
    BY <1>3
  <2> HIDE DEF q
  <2>2. (d + 1) * q = d * q + q /\ d * q \in Nat
    BY <1>1, <2>1
  <2> QED
    BY <1>1, <2>1, <2>2
<1> QED
  BY <1>1, <1>2, <1>3, <1>4, <1>5 DEF d, k, q

LEMMA ClosenessFalls ==
    ASSUME NEW i \in Playable, NEW j \in Playable, NEW outcome \in Playable,
           Distance(i, outcome) <= Distance(j, outcome)
    PROVE  ClosenessWeight(j, outcome) <= ClosenessWeight(i, outcome)
<1> DEFINE d == Distance(i, outcome)
           e == Distance(j, outcome)
           k == CLOSENESS_SCALE
           q == k \div (e + 1)
<1>1. d \in Nat /\ e \in Nat /\ d <= e /\ k \in Nat
  BY ClosenessPositive, WeightConstants
<1>2. q \in Nat /\ (e + 1) * q <= k
  BY <1>1, DivNat
<1> HIDE DEF d, e, k, q
<1>3. (d + 1) * q <= (e + 1) * q
  BY <1>1, <1>2
<1>4. (d + 1) * q <= k
  <2>1. (d + 1) * q \in Nat /\ (e + 1) * q \in Nat
    BY <1>1, <1>2
  <2> QED
    BY <1>1, <1>2, <1>3, <2>1
<1>5. q <= k \div (d + 1)
  BY <1>1, <1>2, <1>4, QuotientMax
<1> QED
  BY <1>5 DEF ClosenessWeight, d, e, k, q

\* Winning buckets can be bet on and are not empty.
LEMMA WinnersHaveWeight ==
    ASSUME NEW arr, PoolWithin(arr), NEW outcome \in Playable, NEW r,
           NEW i \in WinningBuckets(arr, outcome, r)
    PROVE  i \in Playable /\ i \in Buckets /\ arr[i] \in Nat \ {0} /\ arr[i] <= StakeBound
<1>1. i \in Playable /\ arr[i] > 0
  BY DEF WinningBuckets, Nearest, WithinRadius
<1>2. i \in Buckets
  BY <1>1, BucketsFinite
<1> QED
  BY <1>1, <1>2 DEF PoolWithin

\* If anything was staked, some bucket wins.
LEMMA SomebodyWins ==
    ASSUME NEW arr, PoolWithin(arr), NEW outcome \in Playable, NEW r
    PROVE  WinningBuckets(arr, outcome, r) = {} <=> \A b \in Buckets : arr[b] = 0
<1>1. ASSUME \A b \in Buckets : arr[b] = 0 PROVE WinningBuckets(arr, outcome, r) = {}
  BY <1>1, WinnersHaveWeight
<1>2. ASSUME NEW b \in Buckets, arr[b] # 0 PROVE WinningBuckets(arr, outcome, r) # {}
  <2> DEFINE T == { Distance(i, outcome) : i \in { j \in Playable : arr[j] > 0 } }
  <2>1. b \in Playable /\ arr[b] > 0
    BY <1>2, WeightConstants DEF PoolWithin, Buckets, Playable
  <2>2. T \subseteq Nat /\ T # {}
    BY <2>1, ClosenessPositive
  <2>3. PICK n \in T : \A k \in T : n <= k
    <3> HIDE DEF T
    <3> QED
      BY <2>2, LeastNatural
  <2>4. PICK i \in Playable : arr[i] > 0 /\ n = Distance(i, outcome)
    BY <2>3
  <2>5. i \in Nearest(arr, outcome)
    BY <2>3, <2>4 DEF Nearest
  <2> QED
    BY <2>5 DEF WinningBuckets, FallbackUsed
<1> QED
  BY <1>1, <1>2

\* The weight of a winning bucket is the exact product, and enters the total.
LEMMA WinnersWeigh ==
    ASSUME NEW arr, PoolWithin(arr), NEW outcome \in Playable, NEW r,
           NEW i \in WinningBuckets(arr, outcome, r)
    PROVE  LET bw  == BucketWeight(i, arr, outcome)
               tbw == TotalBucketWeight(arr, outcome, r)
           IN  /\ bw = ClosenessWeight(i, outcome) * arr[i]
               /\ bw \in Nat \ {0} /\ tbw \in Nat \ {0} /\ bw <= tbw
               /\ bw <= CLOSENESS_SCALE * StakeBound
<1> DEFINE c   == ClosenessWeight(i, outcome)
           a   == arr[i]
           k   == CLOSENESS_SCALE
           n   == StakeBound
           W   == WinningBuckets(arr, outcome, r)
           f   == [ j \in W |-> BucketWeight(j, arr, outcome) ]
<1>1. i \in Playable /\ a \in Nat \ {0} /\ a <= n /\ W \subseteq Playable /\ i \in W
  BY WinnersHaveWeight, WinningInPlayable
<1>2. c \in Nat \ {0} /\ c <= k /\ k \in Nat /\ n \in Nat /\ k * n <= MaxU128
  BY <1>1, ClosenessPositive, WeightConstants, PrizeShareConstants
<1>3. c * a \in Nat \ {0} /\ c * a <= k * n
  <2> HIDE DEF c, a, k, n
  <2>1. c * a <= k * a /\ k * a <= k * n
    BY <1>1, <1>2
  <2>2. c * a \in Nat /\ k * a \in Nat /\ k * n \in Nat /\ c * a >= 1
    BY <1>1, <1>2
  <2> QED
    BY <2>1, <2>2
<1>4. BucketWeight(i, arr, outcome) = c * a
  <2>1. c * a <= MaxU128
    <3> HIDE DEF c, a, k, n
    <3>1. c * a \in Nat /\ k * n \in Nat
      BY <1>2, <1>3
    <3> QED
      BY <1>2, <1>3, <3>1, WeightConstants
  <2>2. BucketWeight(i, arr, outcome) = SaturatingMul(c, a)
    BY DEF BucketWeight
  <2> HIDE DEF c, a
  <2> QED
    BY <1>3, <2>1, <2>2, WeightConstants DEF SaturatingMul
<1>5. f[i] <= SumFunctionOnSet(f, W) /\ SumFunctionOnSet(f, W) \in Nat
  <2>1. arr \in [Buckets -> Nat] /\ outcome \in Nat /\ IsFiniteSet(W)
    BY <1>1, BucketsFinite, FS_Subset DEF PoolWithin, Playable
  <2>2. \A j \in W : f[j] \in Nat
    BY <1>1, <2>1, BucketWeightType
  <2> HIDE DEF f, W
  <2>3. /\ SumFunctionOnSet(f, W) = f[i] + SumFunctionOnSet(f, W \ {i})
        /\ SumFunctionOnSet(f, W \ {i}) \in Nat
    BY <1>1, <2>1, <2>2, SumTake
  <2> QED
    BY <1>1, <2>2, <2>3
<1>6. /\ TotalBucketWeight(arr, outcome, r) = SumFunctionOnSet(f, W)
      /\ f[i] = BucketWeight(i, arr, outcome)
  BY DEF TotalBucketWeight
<1> HIDE DEF f, W, c, a, k, n
<1>7. /\ BucketWeight(i, arr, outcome) \in Nat \ {0}
      /\ TotalBucketWeight(arr, outcome, r) \in Nat \ {0}
      /\ BucketWeight(i, arr, outcome) <= TotalBucketWeight(arr, outcome, r)
  BY <1>3, <1>4, <1>5, <1>6
<1> QED
  BY <1>3, <1>4, <1>7 DEF c, a, k, n

\* A winning bucket's prize is its exact share of the prize money, rounded down.
LEMMA PrizeIsShare ==
    ASSUME NEW arr, PoolWithin(arr), NEW outcome \in Playable, NEW r, NEW t \in PrizePools,
           NEW i \in WinningBuckets(arr, outcome, r)
    PROVE  LET bw  == BucketWeight(i, arr, outcome)
               tbw == TotalBucketWeight(arr, outcome, r)
               p   == ComputeBucketPrizes(arr, outcome, r, t)[i]
           IN  /\ p \in Nat /\ p <= t
               /\ tbw * p <= bw * t
               /\ bw * t < tbw * p + tbw
<1> DEFINE bw  == BucketWeight(i, arr, outcome)
           tbw == TotalBucketWeight(arr, outcome, r)
           p   == ComputeBucketPrizes(arr, outcome, r, t)[i]
           k   == CLOSENESS_SCALE * StakeBound
           q   == (bw * t) \div tbw
<1>1. /\ bw \in Nat \ {0} /\ tbw \in Nat \ {0} /\ bw <= tbw /\ bw <= k
  BY WinnersWeigh
<1>2. t \in Nat /\ t <= MaxU64 /\ k \in Nat /\ k * t <= MaxU128 /\ MaxU64 \in Nat /\ MaxU128 \in Nat
  <2>1. CLOSENESS_SCALE \in Nat /\ StakeBound \in Nat
    BY WeightConstants, PrizeShareConstants
  <2>2. k \in Nat
    BY <2>1, MulNat
  <2> QED
    BY <2>2, WeightConstants, PrizeShareConstants
<1>3. i \in Buckets
  BY WinnersHaveWeight
<1>4. p = AsU64(SaturatingMul(bw, t) \div tbw)
  BY <1>1, <1>3 DEF ComputeBucketPrizes, BucketPrize
<1> HIDE DEF bw, tbw, p, k
<1>5. bw * t \in Nat /\ bw * t <= tbw * t /\ bw * t <= k * t
  BY <1>1, <1>2
<1>6. SaturatingMul(bw, t) = bw * t
  <2>1. k * t \in Nat /\ bw * t <= MaxU128
    BY <1>1, <1>2, <1>5
  <2> QED
    BY <2>1, <1>5, <1>2 DEF SaturatingMul
<1>7. q \in Nat /\ tbw * q <= bw * t /\ bw * t < tbw * q + tbw
  <2>1. q \in Nat
    BY <1>1, <1>5, DivNat
  <2>2. bw * t \in Int
    BY <1>5
  <2> QED
    BY <1>1, <2>1, <2>2, Division
<1>8. q <= t
  <2> HIDE DEF q
  <2>1. q * tbw <= tbw * t
    <3>1. q * tbw = tbw * q /\ tbw * q \in Nat /\ tbw * t \in Nat
      BY <1>1, <1>2, <1>7
    <3> QED
      BY <1>5, <1>7, <3>1
  <2> QED
    BY <1>1, <1>2, <1>7, <2>1, CancelFactor
<1>9. p = q
  <2>1. AsU64(q) = q
    <3> HIDE DEF q
    <3>1. q < MaxU64 + 1 /\ MaxU64 + 1 \in Nat \ {0}
      BY <1>2, <1>7, <1>8
    <3> QED
      BY <1>7, <3>1 DEF AsU64
  <2> QED
    BY <1>4, <1>6, <2>1
<1> HIDE DEF q
<1> QED
  BY <1>7, <1>8, <1>9 DEF bw, tbw, p
----------------------------------------------------------------------------
(* The properties. *)

\* Per unit of weight, a closer winning bucket earns at least what a farther one does,
\* up to the lamport lost in rounding.
LEMMA CloserEarns ==
    ASSUME NEW arr, PoolWithin(arr), NEW outcome \in Playable, NEW r, NEW t \in PrizePools,
           NEW i \in WinningBuckets(arr, outcome, r), NEW j \in WinningBuckets(arr, outcome, r),
           Distance(i, outcome) <= Distance(j, outcome)
    PROVE  LET prizes == ComputeBucketPrizes(arr, outcome, r, t) IN
           prizes[j] * arr[i] <= (prizes[i] + 1) * arr[j]
<1> DEFINE c   == ClosenessWeight(i, outcome)
           e   == ClosenessWeight(j, outcome)
           x   == arr[i]
           y   == arr[j]
           p   == ComputeBucketPrizes(arr, outcome, r, t)[i]
           q   == ComputeBucketPrizes(arr, outcome, r, t)[j]
           tbw == TotalBucketWeight(arr, outcome, r)
<1>1. x \in Nat /\ y \in Nat /\ i \in Playable /\ j \in Playable /\ t \in Nat
  BY WinnersHaveWeight, PrizeShareConstants
<1>2. c \in Nat /\ e \in Nat /\ e <= c
  BY <1>1, ClosenessPositive, ClosenessFalls
<1>3. p \in Nat /\ c * x * t < tbw * p + tbw /\ tbw \in Nat \ {0}
  BY PrizeIsShare, WinnersWeigh
<1>4. q \in Nat /\ tbw * q <= e * y * t
  BY PrizeIsShare, WinnersWeigh
<1> HIDE DEF c, e, x, y, p, q, tbw
<1>5. tbw * q * x <= e * y * t * x
  BY <1>1, <1>2, <1>3, <1>4
<1>6. e * y * t * x <= c * y * t * x
  <2>1. y * t * x \in Nat
    BY <1>1
  <2>2. e * (y * t * x) <= c * (y * t * x)
    BY <1>2, <2>1
  <2>3. e * (y * t * x) = e * y * t * x /\ c * (y * t * x) = c * y * t * x
    BY <1>1, <1>2
  <2> QED
    BY <2>2, <2>3
<1>7. c * y * t * x <= (tbw * p + tbw) * y
  <2>1. c * x * t \in Nat /\ tbw * p + tbw \in Nat
    BY <1>1, <1>2, <1>3
  <2>2. (c * x * t) * y <= (tbw * p + tbw) * y
    BY <1>1, <1>3, <2>1
  <2>3. (c * x * t) * y = c * y * t * x
    BY <1>1, <1>2
  <2> QED
    BY <2>2, <2>3
<1>8. (q * x) * tbw <= tbw * ((p + 1) * y)
  <2>1. (q * x) * tbw = tbw * q * x /\ tbw * ((p + 1) * y) = (tbw * p + tbw) * y
    BY <1>1, <1>3, <1>4
  <2>2. /\ tbw * q * x \in Nat /\ e * y * t * x \in Nat /\ c * y * t * x \in Nat
        /\ (tbw * p + tbw) * y \in Nat
    BY <1>1, <1>2, <1>3, <1>4
  <2> QED
    BY <1>5, <1>6, <1>7, <2>1, <2>2
<1>9. q * x \in Nat /\ (p + 1) * y \in Nat
  BY <1>1, <1>3, <1>4
<1>10. q * x <= (p + 1) * y
  BY <1>3, <1>8, <1>9, CancelFactor
<1> QED
  BY <1>10 DEF p, q, x, y

\* Per unit of weight, a winning bucket nearer to the outcome earns no less than one
\* farther away, up to the lamport that the division of the farther one rounds off.
THEOREM ClosenessPays == Spec => []CloserPaysNoLess
<1>1. ShareInv => CloserPaysNoLess
  <2> SUFFICES ASSUME ShareInv PROVE CloserPaysNoLess
    OBVIOUS
  <2>1. PoolWithin(weighted_pool)
    BY PoolsWithin
  <2>2. ASSUME NEW outcome \in Playable, NEW r \in Radii, NEW t \in PrizePools,
               NEW i \in Winning(outcome, r), NEW j \in Winning(outcome, r),
               Distance(i, outcome) <= Distance(j, outcome)
        PROVE  LET prizes == Prizes(outcome, r, t) IN
               prizes[j] * weighted_pool[i] <= (prizes[i] + 1) * weighted_pool[j]
    BY <2>1, <2>2, CloserEarns DEF Winning, Prizes
  <2> QED
    BY <2>2 DEF CloserPaysNoLess
<1> QED
  BY <1>1, SharesAlways, PTL

\* Splitting a bucket's weight in two loses at most a lamport of its prize.
LEMMA TwoShares ==
    ASSUME NEW w \in Nat, NEW v \in Nat, w + v # 0, NEW p \in Nat
    PROVE  LET both == (w * p) \div (w + v) + (v * p) \div (w + v)
           IN  p - 1 <= both /\ both <= p
<1> DEFINE n == w + v
           a == (w * p) \div n
           b == (v * p) \div n
<1>1. n \in Nat \ {0} /\ w * p \in Nat /\ v * p \in Nat /\ w * p + v * p = n * p
  OBVIOUS
<1> HIDE DEF n
<1>2. a \in Nat /\ n * a <= w * p /\ w * p < n * a + n
  BY <1>1, DivNat, Division
<1>3. b \in Nat /\ n * b <= v * p /\ v * p < n * b + n
  BY <1>1, DivNat, Division
<1> HIDE DEF a, b
<1>4. n * a \in Nat /\ n * b \in Nat /\ n * p \in Nat
  BY <1>1, <1>2, <1>3
<1>5. a + b <= p
  <2>1. n * (a + b) = n * a + n * b /\ a + b \in Nat
    BY <1>1, <1>2, <1>3
  <2>2. n * (a + b) <= n * p /\ (a + b) * n = n * (a + b)
    BY <1>1, <1>2, <1>3, <1>4, <2>1
  <2> QED
    BY <1>1, <2>1, <2>2, CancelFactor
<1>6. p <= a + b + 1
  <2>1. SUFFICES ASSUME p >= a + b + 2 PROVE FALSE
    BY <1>2, <1>3
  <2>2. n * p >= n * (a + b + 2)
    BY <1>1, <1>2, <1>3, <2>1
  <2>3. n * (a + b + 2) = n * a + n * b + n + n
    BY <1>1, <1>2, <1>3
  <2> QED
    BY <1>1, <1>2, <1>3, <1>4, <2>2, <2>3
<1> QED
  BY <1>2, <1>3, <1>5, <1>6 DEF n, a, b

\* What a share of a prize that fits in 64 bits pays is the exact quotient.
LEMMA PayIsQuotient ==
    ASSUME NEW arr, NEW prize, NEW b, arr[b] \in Nat \ {0},
           prize[b] \in Nat \ {0}, prize[b] <= MaxU64, NEW w \in Nat, w <= arr[b]
    PROVE  CalcUserPayout(w, b, prize, arr) = (w * prize[b]) \div arr[b]
<1> DEFINE n == arr[b]
           p == prize[b]
           q == (w * p) \div n
<1>1. CalcUserPayout(w, b, prize, arr) = AsU64(q)
  BY DEF CalcUserPayout
<1>2. n \in Nat \ {0} /\ p \in Nat /\ p <= MaxU64 /\ w <= n /\ MaxU64 \in Nat
  BY WeightConstants
<1> HIDE DEF n, p
<1>3. w * p \in Nat /\ w * p <= n * p /\ n * p \in Nat
  BY <1>2
<1>4. q \in Nat /\ n * q <= w * p
  BY <1>2, <1>3, DivNat
<1> HIDE DEF q
<1>5. q <= p
  <2>1. q * n = n * q /\ n * q \in Nat
    BY <1>2, <1>4
  <2> QED
    BY <1>2, <1>3, <1>4, <2>1, CancelFactor
<1>6. AsU64(q) = q
  <2>1. q < MaxU64 + 1 /\ MaxU64 + 1 \in Nat \ {0}
    BY <1>2, <1>4, <1>5
  <2> QED
    BY <1>4, <2>1 DEF AsU64
<1> QED
  BY <1>1, <1>6 DEF n, p, q

\* However a bucket's weight is divided between the followed bettor and the others,
\* the two claims leave at most one lamport of its prize and never exceed it.
THEOREM TwoClaimsSharePrize == Spec => []SharesWithinPrize
<1>1. ShareInv => SharesWithinPrize
  <2> SUFFICES ASSUME ShareInv, NEW outcome \in Playable, NEW r \in Radii,
                      NEW t \in PrizePools, NEW b \in Playable
               PROVE  LET prizes == Prizes(outcome, r, t)
                          w      == mine[b].weighted_amount
                          Pay(x) == CalcUserPayout(x, b, prizes, weighted_pool)
                          both   == Pay(w) + Pay(weighted_pool[b] - w)
                      IN  prizes[b] - 1 <= both /\ both <= prizes[b]
    BY DEF SharesWithinPrize
  <2> DEFINE prizes == Prizes(outcome, r, t)
             w      == mine[b].weighted_amount
             v      == weighted_pool[b] - w
             n      == weighted_pool[b]
             p      == prizes[b]
             Pay(x) == CalcUserPayout(x, b, prizes, weighted_pool)
  <2>1. PoolWithin(weighted_pool) /\ b \in Buckets
    BY PoolsWithin, BucketsFinite
  <2>2. w \in Nat /\ n \in Nat /\ w <= n
    BY <2>1 DEF ShareInv, SharesTypeOK, PositionWithinPool, Stakes
  <2>3. CASE b \in Winning(outcome, r)
    <3>1. n \in Nat \ {0}
      BY <2>1, <2>3, WinnersHaveWeight DEF Winning
    <3>2. p \in Nat /\ p <= MaxU64
      <4>1. p \in Nat /\ p <= t
        BY <2>1, <2>3, PrizeIsShare DEF Winning, Prizes
      <4> QED
        BY <4>1, PrizeShareConstants, WeightConstants
    <3>3. CASE p = 0
      <4>1. Pay(w) = 0 /\ Pay(v) = 0
        BY <3>3 DEF CalcUserPayout
      <4> HIDE DEF Pay, p
      <4> QED
        BY <3>3, <4>1 DEF Pay, p
    <3>4. CASE p # 0
      <4>1. v \in Nat /\ v <= n /\ w + v = n
        BY <2>2
      <4>2. Pay(w) = (w * p) \div n /\ Pay(v) = (v * p) \div n
        BY <2>2, <3>1, <3>2, <3>4, <4>1, PayIsQuotient
      <4>3. /\ p - 1 <= (w * p) \div n + (v * p) \div n
            /\ (w * p) \div n + (v * p) \div n <= p
        <5> HIDE DEF w, v, n, p
        <5> QED
          BY <2>2, <3>1, <3>2, <4>1, TwoShares
      <4> HIDE DEF Pay, p
      <4> QED
        BY <4>2, <4>3 DEF Pay, p
    <3> QED
      BY <3>3, <3>4
  <2>4. CASE b \notin Winning(outcome, r)
    <3>1. p = 0
      BY <2>1, <2>4 DEF Prizes, Winning, ComputeBucketPrizes
    <3>2. Pay(w) = 0 /\ Pay(v) = 0
      BY <3>1 DEF CalcUserPayout
    <3> HIDE DEF Pay, p
    <3> QED
      BY <3>1, <3>2 DEF Pay, p
  <2> QED
    BY <2>3, <2>4
<1> QED
  BY <1>1, SharesAlways, PTL

\* The prizes of the winning buckets miss the prize money by less than a lamport each.
LEMMA PrizesNearTotal ==
    ASSUME NEW arr, PoolWithin(arr), NEW outcome \in Playable, NEW r, NEW t \in PrizePools,
           WinningBuckets(arr, outcome, r) # {}
    PROVE  LET W == WinningBuckets(arr, outcome, r)
           IN  t < SumFunctionOnSet(ComputeBucketPrizes(arr, outcome, r, t), W) + Cardinality(W)
<1> DEFINE W     == WinningBuckets(arr, outcome, r)
           tbw   == TotalBucketWeight(arr, outcome, r)
           prize == ComputeBucketPrizes(arr, outcome, r, t)
           f     == [ i \in W |-> BucketWeight(i, arr, outcome) ]
           g     == [ i \in W |-> prize[i] + 1 ]
<1>1. PICK y \in W : TRUE
  OBVIOUS
<1>2. IsFiniteSet(W) /\ IsFiniteSet(W \ {y})
  <2>1. IsFiniteSet(W)
    BY WinningInPlayable, BucketsFinite, FS_Subset
  <2> QED
    BY <2>1, FS_RemoveElement
<1>3. ASSUME NEW i \in W
      PROVE  /\ f[i] \in Nat /\ g[i] \in Nat /\ prize[i] \in Nat /\ g[i] = prize[i] + 1
             /\ f[i] * t < g[i] * tbw
  <2>1. f[i] \in Nat /\ tbw \in Nat /\ f[i] = BucketWeight(i, arr, outcome)
    BY WinnersWeigh
  <2>2. /\ prize[i] \in Nat
        /\ BucketWeight(i, arr, outcome) * t < tbw * prize[i] + tbw
    BY PrizeIsShare
  <2>3. g[i] = prize[i] + 1
    OBVIOUS
  <2> HIDE DEF f, g, prize, tbw
  <2>4. g[i] * tbw = tbw * prize[i] + tbw
    BY <2>1, <2>2, <2>3
  <2> QED
    BY <2>1, <2>2, <2>3, <2>4
<1>4. tbw \in Nat /\ tbw = SumFunctionOnSet(f, W) /\ t \in Nat
  <2>1. tbw \in Nat
    BY <1>1, WinnersWeigh
  <2> QED
    BY <2>1, PrizeShareConstants DEF TotalBucketWeight
<1> HIDE DEF W, tbw, prize, f, g
<1>5. SumFunctionOnSet(g, W) = SumFunctionOnSet(prize, W) + Cardinality(W)
  BY <1>2, <1>3, SumSuccessors
<1> DEFINE F == SumFunctionOnSet(f, W \ {y})
           G == SumFunctionOnSet(g, W \ {y})
<1>6. tbw = f[y] + F /\ F \in Nat
  BY <1>2, <1>3, <1>4, SumTake
<1>7. SumFunctionOnSet(g, W) = g[y] + G /\ G \in Nat
  BY <1>2, <1>3, SumTake
<1>8. F * t <= G * tbw
  <2>1. \A i \in W \ {y} : g[i] \in Nat /\ f[i] \in Nat /\ f[i] * t <= g[i] * tbw
    <3>1. SUFFICES ASSUME NEW i \in W \ {y}
                   PROVE  g[i] \in Nat /\ f[i] \in Nat /\ f[i] * t <= g[i] * tbw
      OBVIOUS
    <3>2. g[i] \in Nat /\ f[i] \in Nat /\ f[i] * t < g[i] * tbw
      BY <1>3
    <3>3. f[i] * t \in Nat /\ g[i] * tbw \in Nat
      BY <1>4, <3>2
    <3> QED
      BY <3>2, <3>3
  <2> QED
    BY <1>2, <1>4, <2>1, SumScale
<1>9. t < g[y] + G
  <2>1. f[y] \in Nat /\ g[y] \in Nat /\ f[y] * t < g[y] * tbw
    BY <1>1, <1>3
  <2> HIDE DEF F, G
  <2>2. (f[y] + F) * t = f[y] * t + F * t /\ (g[y] + G) * tbw = g[y] * tbw + G * tbw
    BY <1>4, <1>6, <1>7, <2>1
  <2>3. /\ f[y] * t \in Nat /\ F * t \in Nat /\ g[y] * tbw \in Nat /\ G * tbw \in Nat
    BY <1>4, <1>6, <1>7, <2>1
  <2>4. tbw * t < (g[y] + G) * tbw
    BY <1>6, <1>8, <2>1, <2>2, <2>3
  <2>5. SUFFICES ASSUME g[y] + G <= t PROVE FALSE
    BY <1>4, <1>7, <2>1
  <2>6. (g[y] + G) * tbw <= t * tbw /\ t * tbw = tbw * t
    BY <1>4, <1>7, <2>1, <2>5
  <2>7. tbw * t \in Nat /\ (g[y] + G) * tbw \in Nat
    BY <1>4, <1>7, <2>1
  <2> QED
    BY <2>4, <2>6, <2>7
<1> QED
  BY <1>5, <1>7, <1>9 DEF W, prize

\* The prizes hand out the whole prize money, up to less than one lamport per winning
\* bucket, and never more; buckets that do not win get nothing; and some bucket wins
\* unless nothing was staked.
THEOREM PrizesExhaust == Spec => []PrizesExhaustPool
<1>1. ShareInv => PrizesExhaustPool
  <2> SUFFICES ASSUME ShareInv, NEW outcome \in Playable, NEW r \in Radii, NEW t \in PrizePools
               PROVE  LET winning == Winning(outcome, r)
                          prizes  == Prizes(outcome, r, t)
                          paid    == SumFunction(prizes)
                      IN  /\ \A b \in Buckets \ winning : prizes[b] = 0
                          /\ paid <= t
                          /\ winning = {} <=> \A b \in Buckets : weighted_pool[b] = 0
                          /\ winning # {} => paid > t - Cardinality(winning)
    BY DEF PrizesExhaustPool
  <2> DEFINE W      == Winning(outcome, r)
             prizes == Prizes(outcome, r, t)
             paid   == SumFunctionOnSet(prizes, Buckets)
  <2>1. PoolWithin(weighted_pool) /\ outcome \in Nat /\ t \in Nat
    BY PoolsWithin, PrizeShareConstants DEF Playable
  <2>2. \A b \in Buckets \ W : prizes[b] = 0
    BY DEF Winning, Prizes, ComputeBucketPrizes
  <2>3. prizes \in [Buckets -> Nat] /\ paid <= t
    BY <2>1, BucketPrizesType, PrizesWithinTotal DEF PoolWithin, Prizes
  <2>4. W = {} <=> \A b \in Buckets : weighted_pool[b] = 0
    BY <2>1, SomebodyWins DEF Winning
  <2>5. W # {} => t < SumFunctionOnSet(prizes, W) + Cardinality(W)
    BY <2>1, PrizesNearTotal DEF Winning, Prizes
  <2>6. W \subseteq Buckets /\ IsFiniteSet(W)
    BY WinningInPlayable, BucketsFinite, FS_Subset DEF Winning
  <2>7. SumFunction(prizes) = paid
    <3>1. DOMAIN prizes = Buckets
      BY <2>3
    <3> HIDE DEF prizes
    <3> QED
      BY <3>1 DEF SumFunction
  <2> HIDE DEF W, prizes
  <2>8. paid = SumFunctionOnSet(prizes, W) /\ paid \in Nat /\ Cardinality(W) \in Nat
    BY <2>2, <2>3, <2>6, BucketsFinite, SumSupport, SumNat, FS_CardinalityType
  <2>9. W # {} => paid > t - Cardinality(W)
    BY <2>1, <2>5, <2>8
  <2> QED
    BY <2>2, <2>3, <2>4, <2>7, <2>9 DEF W, prizes
<1> QED
  BY <1>1, SharesAlways, PTL
=============================================================================
