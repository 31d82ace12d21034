---------------------------- MODULE ClientState ----------------------------
(***************************************************************************)
(* The checks of the client (app/contract) against the guards of the       *)
(* program: what a client that has just read the accounts is told it may   *)
(* do, and what the program would say to it now.                           *)
(***************************************************************************)
EXTENDS Cinefi

(* Predicates on a market account as it was read, and the client's clock
   (utils/index.ts). *)

Null == [ exists |-> FALSE ]

\* What is read of a market account; the pools are left out.  A read that fails, for
\* whatever reason, answers like one of an account that does not exist.
FetchMarket(m, failed) ==
    IF failed \/ m \notin created THEN Null ELSE
    [ exists |-> TRUE, terms |-> terms[m], closed |-> m \in closed,
      resolved |-> m \in resolved, reclaimed |-> m \in reclaimed ]

\* Faulty: betting is open at betting_closes_at.
IsBettingOpen_Inclusive(market, currentTime) ==
    /\ market.terms.betting_starts_at <= currentTime
    /\ currentTime <= market.terms.betting_closes_at
    /\ ~market.closed

IsBettingOpen(market, currentTime) ==
    /\ market.terms.betting_starts_at <= currentTime
    /\ currentTime < market.terms.betting_closes_at
    /\ ~market.closed

\* Faulty: the day betting ends is not awaited.
CanCloseMarket_DayEarly(market, currentTime) ==
    /\ currentTime >= market.terms.betting_closes_at - SECONDS_PER_DAY
    /\ ~market.closed

CanCloseMarket(market, currentTime) ==
    currentTime >= market.terms.betting_closes_at /\ ~market.closed

\* Faulty: an open market takes scores.
CanSubmitScore_Open(market, currentTime) ==
    /\ market.terms.settle_at <= currentTime
    /\ currentTime < market.terms.settle_at + ORACLE_WINDOWS_CLOSE_SECONDS
    /\ ~market.resolved

CanSubmitScore(market, currentTime) ==
    /\ market.terms.settle_at <= currentTime
    /\ currentTime < market.terms.settle_at + ORACLE_WINDOWS_CLOSE_SECONDS
    /\ market.closed /\ ~market.resolved

\* The report is not looked at.
CanResolveMarket(market) == market.closed /\ ~market.resolved

\* Faulty: the deadline itself is too late.
CanClaimReward_Strict(market, currentTime) ==
    /\ market.resolved /\ ~market.reclaimed
    /\ currentTime < market.terms.claim_deadline

CanClaimReward(market, currentTime) ==
    /\ market.resolved /\ ~market.reclaimed
    /\ currentTime <= market.terms.claim_deadline

CanReclaimPool(market, currentTime) ==
    /\ market.resolved /\ ~market.reclaimed
    /\ currentTime > market.terms.claim_deadline

(* Checks on arguments. *)

MIN_BUCKET == 0
ValidateBucket(bucket) == MIN_BUCKET <= bucket /\ bucket <= MaxBucket
ValidateAmount(amount) == amount > 0

\* How a market was resolved is not looked at.
IsWinningBucket(bucket, final_outcome, radius) == Distance(bucket, final_outcome) <= radius

(* The day of betting (constants/index.ts). *)

AtLeast(n, low) == IF n >= low THEN n ELSE low
AtMost(n, high) == IF n <= high THEN n ELSE high

\* Faulty: a day that has begun does not count.
DaysLeft_Floor(seconds) == seconds \div SECONDS_PER_DAY

DaysLeft(seconds) == (seconds + SECONDS_PER_DAY - 1) \div SECONDS_PER_DAY

CalculateDaysRemaining(m) ==
    LET elapsed == now - terms[m].betting_starts_at
        total   == terms[m].betting_closes_at - terms[m].betting_starts_at
    IN  AtLeast(1, AtMost(DaysLeft(AtLeast(0, total - elapsed)), BETTING_DURATION_DAYS))

GetTimeMultiplier(day) == TIME_MULTIPLIERS[day]
----------------------------------------------------------------------------
\* What the program makes of what the checks of the client allow (utils/index.ts:62).
\* Bets and scores it accepts, but for bucket 0, which only the client takes for one.
\* Closing it accepts.  A resolution needs a verdict, the settlement time and, if there is
\* a fee, a vault that transfers debit and a treasury, at none of which canResolveMarket
\* looks; claims and the sweep need the vault.  And isWinningBucket calls a position with
\* a payout a winner exactly if no fallback was used, whether or not the program does.
ClientOffersExactly ==
    \A m \in created : LET market == FetchMarket(m, FALSE) IN
        /\ IsBettingOpen(market, now) =>
               \A u \in Users, b \in BucketArgs, amount \in Amounts :
                   ValidateBucket(b) /\ ValidateAmount(amount) /\ wallet[u] >= amount
                       => (BetAllowed(m, u, b, amount) <=> b # MIN_BUCKET)
        /\ CanCloseMarket(market, now) => CloseAllowed(m)
        /\ CanSubmitScore(market, now) /\ ReportOpen(m) =>
               \A s \in Signers, score \in BucketArgs :
                   /\ IsValidOracle(m, s) /\ ~HasAlreadySubmitted(report[m].submissions, s)
                   /\ ValidateBucket(score)
                   => (ScoreAllowed(m, s, score) <=> score # MIN_BUCKET)
        /\ CanResolveMarket(market) =>
               LET fee == Fee(total_pool[m]) IN
               (ResolveAllowed(m) <=>
                   /\ report[m].finalized /\ now >= terms[m].settle_at
                   /\ \/ fee = 0
                      \/ VaultDebitable /\ (treasury_open \/ treasury + fee >= TreasuryRent))
        /\ CanClaimReward(market, now) => \A u \in Users, b \in Playable :
               position[m][<<u, b>>].amount > 0 /\ Payout(m, u, b) > 0 =>
                   /\ ClaimAllowed(m, u, b) <=> Wins(m, b) /\ VaultDebitable
                   /\ IsWinningBucket(b, outcome[m].final_outcome, terms[m].radius)
                          <=> ~outcome[m].fallback_used
        /\ CanReclaimPool(market, now) => (ReclaimAllowed(m) <=> VaultDebitable)

\* What the program accepts, the client offers, but for the one second in which the
\* program lets two stages overlap; claims it offers to the last (utils/index.ts:62).
ClientMissesOneSecond ==
    \A m \in created : LET market == FetchMarket(m, FALSE) IN
        /\ CloseAllowed(m) => CanCloseMarket(market, now)
        /\ m \in resolved \ reclaimed /\ ClaimWindowOpen(m) => CanClaimReward(market, now)
        /\ BettingOpen(m) => IsBettingOpen(market, now) \/ now = terms[m].betting_closes_at
        /\ Reclaimable(m) => CanReclaimPool(market, now) \/ now = terms[m].claim_deadline
        /\ OracleWindowOpen(m) /\ m \in closed \ resolved =>
               \/ CanSubmitScore(market, now)
               \/ now = terms[m].settle_at + ORACLE_WINDOWS_CLOSE_SECONDS
        /\ ResolveAllowed(m) => CanResolveMarket(market)

\* The stages getMarketState offers never overlap, although those of the program do:
\* bets end before closing, closing before scores and the resolution, those before
\* claims, and claims before the sweep (utils/index.ts:118).
ClientStagesDisjoint ==
    \A m \in created :
        LET market == FetchMarket(m, FALSE)
            stages == << IsBettingOpen(market, now), CanCloseMarket(market, now),
                         CanSubmitScore(market, now) \/ CanResolveMarket(market),
                         CanClaimReward(market, now), CanReclaimPool(market, now) >>
        IN  \A i, j \in 1..5 : stages[i] /\ stages[j] => i = j

\* The client's days that remain and its multipliers per day, counted from 1, name
\* the multiplier that the program gives a bet now, at every second of betting
\* (constants/index.ts:23).
ClientDayAgrees ==
    \A m \in created : BettingOpen(m) =>
        GetTimeMultiplier(BETTING_DURATION_DAYS + 1 - CalculateDaysRemaining(m))
            = TimeMultiplier(DayIndex(now, terms[m].betting_starts_at))
============================================================================
