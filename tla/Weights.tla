------------------------------ MODULE Weights ------------------------------
(***************************************************************************)
(* The arithmetic of the prize pool (utils/weights.rs) and the winner test *)
(* (utils/validations.rs, is_winner): how much a bet weighs given the day  *)
(* it is placed on, how a resolved pool is split between the winning       *)
(* buckets, and what a position of a winning bucket is paid.               *)
(*                                                                         *)
(* A bucket array of the program ([u64; 101]) is a function on 0..MaxBucket*)
(* whose cell 0 is never written.  Integers are unbounded; where the code  *)
(* checks, saturates or truncates, the operator does, at the widths MaxU64 *)
(* and MaxU128.                                                            *)
(***************************************************************************)
EXTENDS Integers, Sequences, FiniteSets, Functions

CONSTANTS
    MaxBucket,              \* MAX_BUCKETS - 1: the highest score, 100 in the code
    SECONDS_PER_DAY,
    BETTING_DURATION_DAYS,
    TIME_MULTIPLIERS,       \* one multiplier per betting day, decreasing
    MULTIPLIER_SCALE,
    CLOSENESS_SCALE,
    MaxU64,
    MaxU128

ASSUME WeightConstants ==
    /\ MaxBucket \in Nat \ {0}
    /\ SECONDS_PER_DAY \in Nat \ {0}
    /\ BETTING_DURATION_DAYS \in Nat \ {0}
    /\ TIME_MULTIPLIERS \in [1..BETTING_DURATION_DAYS -> Nat]
    /\ MULTIPLIER_SCALE \in Nat \ {0}
    /\ CLOSENESS_SCALE \in Nat \ {0}
    /\ MaxU64 \in Nat
    /\ MaxU128 \in Nat

Buckets  == 0..MaxBucket        \* the indices of a bucket array
Playable == 1..MaxBucket        \* the buckets a bet, and a score, may name

Distance(i, j) == IF i >= j THEN i - j ELSE j - i

SaturatingMul(a, b) == IF a * b > MaxU128 THEN MaxU128 ELSE a * b

AsU64(n) == n % (MaxU64 + 1)    \* the cast "as u64"

----------------------------------------------------------------------------
(* Time weighting of a bet. *)

\* Faulty: the index wraps where it should be capped.
DayIndex_Wraps(bet_timestamp, betting_starts_at) ==
    ((bet_timestamp - betting_starts_at) \div SECONDS_PER_DAY) % BETTING_DURATION_DAYS

\* Days elapsed since betting started, capped at the last betting day.
DayIndex(bet_timestamp, betting_starts_at) ==
    LET day == (bet_timestamp - betting_starts_at) \div SECONDS_PER_DAY
    IN  IF day < BETTING_DURATION_DAYS THEN day ELSE BETTING_DURATION_DAYS - 1

TimeMultiplier(day_index) == TIME_MULTIPLIERS[day_index + 1]

\* The product is checked: a bet for which this is false is refused.
WeightFits(amount, day_index) == amount * TimeMultiplier(day_index) <= MaxU64

WeightedAmount(amount, day_index) ==
    (amount * TimeMultiplier(day_index)) \div MULTIPLIER_SCALE

----------------------------------------------------------------------------
(* Winning buckets and their prizes. *)

\* The non-empty buckets of arr at the smallest distance from the outcome.
Nearest(arr, final_outcome) ==
    { i \in Playable :
        /\ arr[i] > 0
        /\ \A j \in Playable :
              arr[j] > 0 => Distance(i, final_outcome) <= Distance(j, final_outcome) }

WithinRadius(arr, final_outcome, radius) ==
    { i \in Playable : Distance(i, final_outcome) <= radius /\ arr[i] > 0 }

FallbackUsed(weighted_pool, final_outcome, radius) ==
    WithinRadius(weighted_pool, final_outcome, radius) = {}

WinningBuckets(weighted_pool, final_outcome, radius) ==
    IF FallbackUsed(weighted_pool, final_outcome, radius)
    THEN Nearest(weighted_pool, final_outcome)
    ELSE WithinRadius(weighted_pool, final_outcome, radius)

\* Faulty: the quotient is not scaled.
ClosenessWeight_Unscaled(bucket, final_outcome) ==
    1 \div (Distance(bucket, final_outcome) + 1)

\* Faulty: the weight grows with the distance.
ClosenessWeight_Farther(bucket, final_outcome) ==
    CLOSENESS_SCALE * (Distance(bucket, final_outcome) + 1)

ClosenessWeight(bucket, final_outcome) ==
    CLOSENESS_SCALE \div (Distance(bucket, final_outcome) + 1)

BucketWeight(bucket, weighted_pool, final_outcome) ==
    SaturatingMul(ClosenessWeight(bucket, final_outcome), weighted_pool[bucket])

\* TBW: the weight of all winning buckets together.
TotalBucketWeight(weighted_pool, final_outcome, radius) ==
    LET winning == WinningBuckets(weighted_pool, final_outcome, radius)
    IN  SumFunctionOnSet([i \in winning |-> BucketWeight(i, weighted_pool, final_outcome)],
                         winning)

BucketPrize(bucket, weighted_pool, final_outcome, radius, total_prize_pool) ==
    LET tbw == TotalBucketWeight(weighted_pool, final_outcome, radius)
        bw  == BucketWeight(bucket, weighted_pool, final_outcome)
    IN  AsU64(SaturatingMul(bw, total_prize_pool) \div tbw)

ComputeBucketPrizes(weighted_pool, final_outcome, radius, total_prize_pool) ==
    LET winning == WinningBuckets(weighted_pool, final_outcome, radius)
        tbw     == TotalBucketWeight(weighted_pool, final_outcome, radius)
    IN  [ i \in Buckets |->
            IF i \in winning /\ tbw > 0
            THEN BucketPrize(i, weighted_pool, final_outcome, radius, total_prize_pool)
            ELSE 0 ]

----------------------------------------------------------------------------
(* A position's claim. *)

\* Faulty: a bucket on the edge of the radius loses.
IsWinner_InsideRadius(bucket, final_outcome, radius, fallback_used, pool) ==
    IF fallback_used
    THEN bucket \in Nearest(pool, final_outcome)
    ELSE Distance(bucket, final_outcome) < radius

\* The fallback branch looks at the staked amounts (pool), whereas the prizes
\* above are computed from the weighted ones.
IsWinner(bucket, final_outcome, radius, fallback_used, pool) ==
    IF fallback_used
    THEN bucket \in Nearest(pool, final_outcome)
    ELSE Distance(bucket, final_outcome) <= radius

\* Faulty: the payout is rounded up.
CalcUserPayout_RoundsUp(user_weighted_amount, bucket, bucket_prize, weighted_pool) ==
    IF weighted_pool[bucket] > 0 /\ bucket_prize[bucket] > 0
    THEN AsU64((user_weighted_amount * bucket_prize[bucket] + weighted_pool[bucket] - 1)
               \div weighted_pool[bucket])
    ELSE 0

\* An empty weighted pool and an empty prize are errors of the code; the claim
\* is refused then as it is when the quotient is zero, so they read as zero.
CalcUserPayout(user_weighted_amount, bucket, bucket_prize, weighted_pool) ==
    IF weighted_pool[bucket] > 0 /\ bucket_prize[bucket] > 0
    THEN AsU64((user_weighted_amount * bucket_prize[bucket]) \div weighted_pool[bucket])
    ELSE 0
============================================================================
