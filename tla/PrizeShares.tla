----------------------------- MODULE PrizeShares -----------------------------
(***************************************************************************)
(* The arithmetic of Weights on every pool that a series of bets can build *)
(* up.  One bettor is followed: her position in each bucket, and the time  *)
(* of her first stake in it.  The invariants resolve the pool reached in   *)
(* every way: for each outcome, radius and prize money.                    *)
(***************************************************************************)
EXTENDS Weights

CONSTANTS
    Amounts,        \* lamports of one bet
    Radii,
    PrizePools,     \* values of total_prize_pool
    StakeBound      \* bound on the lamports staked

\* Waiting costs weight, no bucket is too far from the outcome to count, and the
\* stakes and the prize money stay below the widths at which a product saturates or
\* a cast truncates.
ASSUME PrizeShareConstants ==
    /\ Amounts \subseteq Nat
    /\ Radii \subseteq Nat
    /\ PrizePools \subseteq 0..MaxU64
    /\ StakeBound \in Nat
    /\ \A d, e \in 1..BETTING_DURATION_DAYS :
          d <= e => TIME_MULTIPLIERS[e] <= TIME_MULTIPLIERS[d]
    /\ TIME_MULTIPLIERS[1] <= MULTIPLIER_SCALE
    /\ MaxBucket <= CLOSENESS_SCALE
    /\ CLOSENESS_SCALE * StakeBound <= MaxU128
    /\ \A t \in PrizePools : CLOSENESS_SCALE * StakeBound * t <= MaxU128

VARIABLES
    now,            \* time since betting_starts_at
    pool, weighted_pool,
    mine            \* the followed bettor: amount, weighted_amount and first time per bucket

vars == << now, pool, weighted_pool, mine >>

BettingTime == BETTING_DURATION_DAYS * SECONDS_PER_DAY

NoStake == [ amount |-> 0, weighted_amount |-> 0, since |-> 0 ]

Init ==
    /\ now = 0
    /\ pool = [ b \in Buckets |-> 0 ]
    /\ weighted_pool = [ b \in Buckets |-> 0 ]
    /\ mine = [ b \in Buckets |-> NoStake ]

Tick ==
    /\ now < BettingTime
    /\ now' = now + 1
    /\ UNCHANGED << pool, weighted_pool, mine >>

\* What place_bet adds to a bucket of the two pools; the last moment,
\* betting_closes_at, is included.
StakeIn(b, amount) ==
    LET day == DayIndex(now, 0) IN
    /\ SumFunction(pool) + amount <= StakeBound
    /\ WeightFits(amount, day)
    /\ pool' = [ pool EXCEPT ![b] = @ + amount ]
    /\ weighted_pool' = [ weighted_pool EXCEPT ![b] = @ + WeightedAmount(amount, day) ]
    /\ UNCHANGED now

OthersBet(b, amount) == StakeIn(b, amount) /\ UNCHANGED mine

MyBet(b, amount) ==
    /\ StakeIn(b, amount)
    /\ mine' = [ mine EXCEPT ![b] =
         [ amount          |-> @.amount + amount,
           weighted_amount |-> @.weighted_amount + WeightedAmount(amount, DayIndex(now, 0)),
           since           |-> IF @.amount = 0 THEN now ELSE @.since ] ]

Next ==
    \/ Tick
    \/ \E b \in Playable, amount \in Amounts : OthersBet(b, amount)
    \/ \E b \in Playable, amount \in Amounts : MyBet(b, amount)

Spec == Init /\ [][Next]_vars
----------------------------------------------------------------------------
Winning(outcome, r)   == WinningBuckets(weighted_pool, outcome, r)
Prizes(outcome, r, t) == ComputeBucketPrizes(weighted_pool, outcome, r, t)

\* If any weight was staked the prizes hand out the whole prize money, up to less
\* than one lamport per winning bucket, and never more; buckets that do not win
\* get nothing.  Holds below the width at which the products saturate.
PrizesExhaustPool ==
    \A outcome \in Playable, r \in Radii, t \in PrizePools :
        LET winning == Winning(outcome, r)
            prizes  == Prizes(outcome, r, t)
            paid    == SumFunction(prizes)
        IN  /\ \A b \in Buckets \ winning : prizes[b] = 0
            /\ paid <= t
            /\ winning = {} <=> \A b \in Buckets : weighted_pool[b] = 0
            /\ winning # {} => paid > t - Cardinality(winning)

\* Per unit of weight, a winning bucket closer to the outcome earns at least what
\* a farther one does, up to the lamport lost in rounding.
CloserPaysNoLess ==
    \A outcome \in Playable, r \in Radii, t \in PrizePools :
        LET prizes == Prizes(outcome, r, t) IN
        \A i, j \in Winning(outcome, r) :
            Distance(i, outcome) <= Distance(j, outcome) =>
                prizes[j] * weighted_pool[i] <= (prizes[i] + 1) * weighted_pool[j]

\* However a bucket's weight is divided between the followed bettor and the
\* others, the two claims together stay within the bucket's prize and leave at
\* most one lamport of it.
SharesWithinPrize ==
    \A outcome \in Playable, r \in Radii, t \in PrizePools :
        LET prizes == Prizes(outcome, r, t) IN
        \A b \in Playable :
            LET w     == mine[b].weighted_amount
                Pay(x) == CalcUserPayout(x, b, prizes, weighted_pool)
                both  == Pay(w) + Pay(weighted_pool[b] - w)
            IN  prizes[b] - 1 <= both /\ both <= prizes[b]

\* Nobody gains weight by waiting or by splitting a stake: a position weighs at
\* most what its whole amount would have weighed at its first bet.
WaitingNeverGains ==
    \A b \in Playable :
        mine[b].weighted_amount <= WeightedAmount(mine[b].amount, DayIndex(mine[b].since, 0))
============================================================================
