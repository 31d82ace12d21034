------------------------------- MODULE Cinefi -------------------------------
(***************************************************************************)
(* The cinefi program: prediction markets on the score of a film.          *)
(*                                                                         *)
(* One action per instruction of programs/cinefi/src/instructions, plus    *)
(* the passing of time.  An instruction is one Solana transaction: it runs *)
(* alone and either makes all its changes or, when any guard, checked      *)
(* operation or transfer fails, none; an action is therefore the           *)
(* instruction's successful execution and a refused one is no step.        *)
(*                                                                         *)
(* The accounts of a market m (market, vault, oracle_report PDAs) exist    *)
(* iff m \in created.  The boolean fields of the Market account are the    *)
(* sets closed, resolved and reclaimed; its other fields are grouped in    *)
(* terms (fixed at creation), the three pools, and outcome (written once,  *)
(* by resolve_market).  A user_position exists iff its amount is positive. *)
(***************************************************************************)
EXTENDS Weights

CONSTANTS
    Markets,            \* media ids: the seed that identifies a market
    Users,              \* keys that bet
    Signers,            \* keys that call submit_score
    OracleSets,         \* the oracle_set arguments: triples of keys, repeats allowed
    Thresholds,         \* the oracle_threshold arguments
    StartDelays,        \* the betting_starts_after arguments, 0 for None
    Radii,              \* the radius arguments
    Amounts,            \* the amount arguments of place_bet
    InitialWallet,      \* what each user can spend on bets
    MaxTime,            \* bound on the clock
    SETTLEMENT_DAY, CLAIM_WINDOW_DAYS, ORACLE_WINDOWS_CLOSE_SECONDS,
    DEFAULT_PROTOCOL_FEE_BPS,
    VaultOwner,         \* owner of a vault after its init: "program" in the code
    VaultSpace,         \* bytes of data of a vault after its init: 8 in the code
    VaultRent,          \* rent-exempt minimum of a vault
    TreasuryRent        \* rent-exempt minimum of the treasury

ASSUME CinefiConstants ==
    /\ IsFiniteSet(Markets) /\ IsFiniteSet(Users)
    /\ \A set \in OracleSets : set \in [1..3 -> Signers]
    /\ Thresholds \subseteq Nat
    /\ StartDelays \subseteq Int
    /\ Radii \subseteq Nat
    /\ Amounts \subseteq Nat
    /\ InitialWallet \in Nat
    /\ MaxTime \in Nat
    /\ SETTLEMENT_DAY \in Nat /\ SETTLEMENT_DAY >= BETTING_DURATION_DAYS
    /\ CLAIM_WINDOW_DAYS \in Nat
    /\ ORACLE_WINDOWS_CLOSE_SECONDS \in Nat
    /\ DEFAULT_PROTOCOL_FEE_BPS \in 0..10000
    /\ VaultSpace \in Nat /\ VaultRent \in Nat /\ TreasuryRent \in Nat

VARIABLES
    now,                \* Clock::get()?.unix_timestamp
    treasury_open,      \* initialize_treasury has run
    treasury,           \* lamports of the treasury PDA
    wallet,             \* lamports each user can spend
    created, closed, resolved, reclaimed,
    terms, pool, weighted_pool, total_pool, outcome,
    report,             \* the oracle_report PDA
    vault,              \* lamports of the vault PDA
    position            \* the user_position PDAs, one per user and bucket

vars == << now, treasury_open, treasury, wallet, created, closed, resolved,
           reclaimed, terms, pool, weighted_pool, total_pool, outcome, report,
           vault, position >>

marketVars == << terms, pool, weighted_pool, total_pool, outcome >>
flags      == << created, closed, resolved, reclaimed >>
lamports   == << treasury, wallet, vault >>
----------------------------------------------------------------------------
(* Account contents. *)

Positions == Users \X Buckets
Scores    == Playable

Terms == [ betting_starts_at : Int, betting_closes_at : Int, settle_at : Int,
           claim_deadline : Int, radius : Nat,
           oracle_set : [1..3 -> Signers], oracle_threshold : 2..3 ]

Outcome == [ final_outcome : Buckets, fallback_used : BOOLEAN,
             total_prize_pool : Nat, bucket_prize : [Buckets -> Nat] ]

Submission == [ signer : Signers, score : Scores ]

Report == [ submissions : Seq(Submission), agreed_score : Buckets,
            finalized : BOOLEAN, disputed : BOOLEAN ]

Position == [ amount : Nat, weighted_amount : Nat ]

EmptyArray  == [ b \in Buckets |-> 0 ]
EmptyReport == [ submissions |-> << >>, agreed_score |-> 0,
                 finalized |-> FALSE, disputed |-> FALSE ]
NoOutcome   == [ final_outcome |-> 0, fallback_used |-> FALSE,
                 total_prize_pool |-> 0, bucket_prize |-> EmptyArray ]
NoPosition  == [ amount |-> 0, weighted_amount |-> 0 ]

TypeOK ==
    /\ now \in Nat
    /\ treasury_open \in BOOLEAN
    /\ treasury \in Nat
    /\ wallet \in [Users -> Nat]
    /\ created \subseteq Markets
    /\ closed \subseteq created
    /\ resolved \subseteq created
    /\ reclaimed \subseteq created
    /\ terms \in [created -> Terms]
    /\ pool \in [Markets -> [Buckets -> Nat]]
    /\ weighted_pool \in [Markets -> [Buckets -> Nat]]
    /\ total_pool \in [Markets -> Nat]
    /\ outcome \in [Markets -> Outcome]
    /\ report \in [Markets -> Report]
    /\ vault \in [Markets -> Nat]
    /\ position \in [Markets -> [Positions -> Position]]
----------------------------------------------------------------------------
(* Lamport transfers: the rules of the Solana runtime and system program.  *)

\* system_program::transfer debits only an account that the system program
\* owns and that carries no data.
VaultDebitable == VaultOwner = "system" /\ VaultSpace = 0

\* A transaction may leave an account empty or rent-exempt, nothing between.
RentExempt(balance, minimum) == balance = 0 \/ balance >= minimum

\* Faulty: whoever owns the vault and whatever it holds, it can be debited.
VaultPays_AnyOwner(m, amount) ==
    /\ vault[m] >= amount
    /\ RentExempt(vault[m] - amount, VaultRent)

VaultPays(m, amount) ==
    /\ VaultDebitable
    /\ vault[m] >= amount
    /\ RentExempt(vault[m] - amount, VaultRent)

TreasuryTakes(amount) == RentExempt(treasury + amount, TreasuryRent)
----------------------------------------------------------------------------
Init ==
    /\ now = 0
    /\ treasury_open = FALSE
    /\ treasury = 0
    /\ wallet = [ u \in Users |-> InitialWallet ]
    /\ created = {} /\ closed = {} /\ resolved = {} /\ reclaimed = {}
    /\ terms = << >>
    /\ pool = [ m \in Markets |-> EmptyArray ]
    /\ weighted_pool = [ m \in Markets |-> EmptyArray ]
    /\ total_pool = [ m \in Markets |-> 0 ]
    /\ outcome = [ m \in Markets |-> NoOutcome ]
    /\ report = [ m \in Markets |-> EmptyReport ]
    /\ vault = [ m \in Markets |-> 0 ]
    /\ position = [ m \in Markets |-> [ p \in Positions |-> NoPosition ] ]

Tick ==
    /\ now < MaxTime
    /\ now' = now + 1
    /\ UNCHANGED << treasury_open, lamports, flags, marketVars, report, position >>

\* init of a PDA with space 0: refused once the program owns it; the authority
\* tops its balance up to the rent-exempt minimum.
InitializeTreasury ==
    /\ ~treasury_open
    /\ treasury_open' = TRUE
    /\ treasury' = IF treasury < TreasuryRent THEN TreasuryRent ELSE treasury
    /\ UNCHANGED << now, wallet, vault, flags, marketVars, report, position >>
----------------------------------------------------------------------------
(* create_market *)

MarketTerms(delay, radius, oracle_set, oracle_threshold) ==
    LET starts == now + delay
        closes == starts + BETTING_DURATION_DAYS * SECONDS_PER_DAY
        settle == closes + (SETTLEMENT_DAY - BETTING_DURATION_DAYS) * SECONDS_PER_DAY
    IN  [ betting_starts_at |-> starts,
          betting_closes_at |-> closes,
          settle_at         |-> settle,
          claim_deadline    |-> settle + CLAIM_WINDOW_DAYS * SECONDS_PER_DAY,
          radius            |-> radius,
          oracle_set        |-> oracle_set,
          oracle_threshold  |-> oracle_threshold ]

\* The three keys of an oracle_set need not differ.  The delay is a signed
\* argument: betting may open in the past.
CreateMarket(m, delay, radius, oracle_set, oracle_threshold) ==
    /\ m \notin created
    /\ oracle_threshold > 1 /\ oracle_threshold <= 3
    /\ created' = created \cup {m}
    /\ terms' = [ x \in created' |->
                    IF x = m THEN MarketTerms(delay, radius, oracle_set, oracle_threshold)
                    ELSE terms[x] ]
    /\ vault' = [ vault EXCEPT ![m] = VaultRent ]
    /\ report' = [ report EXCEPT ![m] = EmptyReport ]
    /\ UNCHANGED << now, treasury_open, treasury, wallet, closed, resolved, reclaimed,
                    pool, weighted_pool, total_pool, outcome, position >>
----------------------------------------------------------------------------
(* place_bet *)

\* Faulty: neither betting_closes_at nor the closed flag stops a bet.
BettingOpen_NeverEnds(m) ==
    m \in created \ resolved /\ now >= terms[m].betting_starts_at

BettingOpen(m) ==
    /\ m \in created \ (closed \cup resolved)
    /\ now >= terms[m].betting_starts_at
    /\ now <= terms[m].betting_closes_at

\* Faulty: a second stake replaces the weight of the first.
Staked_LastWeight(p, amount, weighted) ==
    [ amount |-> p.amount + amount, weighted_amount |-> weighted ]

\* The position after a further stake on it: both amounts accumulate.
Staked(p, amount, weighted) ==
    [ amount          |-> p.amount + amount,
      weighted_amount |-> p.weighted_amount + weighted ]

\* All that can refuse a bet.
BetAllowed(m, u, b, amount) ==
    /\ BettingOpen(m)
    /\ b \in Playable
    /\ amount > 0
    /\ WeightFits(amount, DayIndex(now, terms[m].betting_starts_at))
    /\ wallet[u] >= amount
    /\ total_pool[m] + amount <= MaxU64      \* bounds every other sum too

PlaceBet(m, u, b, amount) ==
    /\ BetAllowed(m, u, b, amount)
    /\ LET weighted == WeightedAmount(amount, DayIndex(now, terms[m].betting_starts_at))
       IN  /\ wallet' = [ wallet EXCEPT ![u] = @ - amount ]
           /\ vault' = [ vault EXCEPT ![m] = @ + amount ]
           /\ pool' = [ pool EXCEPT ![m][b] = @ + amount ]
           /\ weighted_pool' = [ weighted_pool EXCEPT ![m][b] = @ + weighted ]
           /\ total_pool' = [ total_pool EXCEPT ![m] = @ + amount ]
           /\ position' = [ position EXCEPT ![m][<<u, b>>] = Staked(@, amount, weighted) ]
    /\ UNCHANGED << now, treasury_open, treasury, flags, terms, outcome, report >>
----------------------------------------------------------------------------
(* close_market *)

CloseAllowed(m) ==
    /\ m \in created \ (closed \cup resolved)
    /\ now >= terms[m].betting_closes_at

CloseMarket(m) ==
    /\ CloseAllowed(m)
    /\ closed' = closed \cup {m}
    /\ UNCHANGED << now, treasury_open, lamports, created, resolved, reclaimed,
                    marketVars, report, position >>
----------------------------------------------------------------------------
(* submit_score *)

\* Faulty: a late score still counts.
OracleWindowOpen_NoEnd(m) == terms[m].settle_at <= now

OracleWindowOpen(m) ==
    /\ terms[m].settle_at <= now
    /\ now <= terms[m].settle_at + ORACLE_WINDOWS_CLOSE_SECONDS

IsValidOracle(m, s) == \E i \in 1..3 : terms[m].oracle_set[i] = s

\* Faulty: one submission too few is looked at.
HasAlreadySubmitted_OffByOne(submissions, s) ==
    \E i \in 1..Len(submissions) - 1 : submissions[i].signer = s

HasAlreadySubmitted(submissions, s) ==
    \E i \in 1..Len(submissions) : submissions[i].signer = s

AllAgree(submissions) ==
    \A i \in 1..Len(submissions) : submissions[i].score = submissions[1].score

\* Nothing is decided below the threshold; from it on, one dissent is enough
\* to dispute the report.
EvaluateReport(submissions, oracle_threshold) ==
    LET decided == Len(submissions) >= oracle_threshold
    IN  [ finalized |-> decided /\ AllAgree(submissions),
          disputed  |-> decided /\ ~AllAgree(submissions) ]

\* Faulty: a disputed report still takes scores.
ReportOpen_Disputed(m) == ~report[m].finalized

ReportOpen(m) == ~report[m].finalized /\ ~report[m].disputed

\* All that can refuse a score.
ScoreAllowed(m, s, score) ==
    /\ m \in closed \ resolved
    /\ ReportOpen(m)
    /\ OracleWindowOpen(m)
    /\ score \in Scores
    /\ IsValidOracle(m, s)
    /\ ~HasAlreadySubmitted(report[m].submissions, s)

SubmitScore(m, s, score) ==
    /\ ScoreAllowed(m, s, score)
    /\ LET submissions == Append(report[m].submissions, [ signer |-> s, score |-> score ])
           verdict     == EvaluateReport(submissions, terms[m].oracle_threshold)
       IN  report' = [ report EXCEPT ![m] =
               [ submissions  |-> submissions,
                 agreed_score |-> IF verdict.finalized THEN submissions[1].score
                                  ELSE @.agreed_score,
                 finalized    |-> verdict.finalized,
                 disputed     |-> verdict.disputed ] ]
    /\ UNCHANGED << now, treasury_open, lamports, flags, marketVars, position >>
----------------------------------------------------------------------------
(* resolve_market *)

\* Faulty: basis points read as thousandths.
Fee_PerMille(total) == AsU64((total * DEFAULT_PROTOCOL_FEE_BPS) \div 1000)

Fee(total) == AsU64((total * DEFAULT_PROTOCOL_FEE_BPS) \div 10000)

\* Faulty: the report's verdict is not awaited.
Resolvable_Unreported(m) ==
    m \in closed \ resolved /\ ~report[m].disputed /\ now >= terms[m].settle_at

\* Faulty: resolution is held to the oracle window.
Resolvable_InWindow(m) ==
    m \in closed \ resolved /\ report[m].finalized /\ OracleWindowOpen(m)

Resolvable(m) ==
    /\ m \in closed \ resolved
    /\ report[m].finalized
    /\ ~report[m].disputed
    /\ now >= terms[m].settle_at

\* Faulty: the prizes are computed from the pool before the fee.
OutcomeFor_GrossPool(m, score) ==
    [ final_outcome    |-> score,
      fallback_used    |-> FallbackUsed(weighted_pool[m], score, terms[m].radius),
      total_prize_pool |-> total_pool[m],
      bucket_prize     |-> ComputeBucketPrizes(weighted_pool[m], score, terms[m].radius,
                                               total_pool[m]) ]

OutcomeFor(m, score) ==
    LET prize  == total_pool[m] - Fee(total_pool[m])
        radius == terms[m].radius
    IN  [ final_outcome    |-> score,
          fallback_used    |-> FallbackUsed(weighted_pool[m], score, radius),
          total_prize_pool |-> prize,
          bucket_prize     |-> ComputeBucketPrizes(weighted_pool[m], score, radius, prize) ]

\* The treasury is an unchecked account: it need not have been initialized.
ResolveAllowed(m) ==
    LET fee == Fee(total_pool[m])
    IN  /\ Resolvable(m)
        /\ fee > 0 => VaultPays(m, fee) /\ TreasuryTakes(fee)

ResolveMarket(m) ==
    LET fee == Fee(total_pool[m])
    IN  /\ ResolveAllowed(m)
        /\ vault' = [ vault EXCEPT ![m] = @ - fee ]
        /\ treasury' = treasury + fee
        /\ outcome' = [ outcome EXCEPT ![m] = OutcomeFor(m, report[m].agreed_score) ]
        /\ resolved' = resolved \cup {m}
        /\ UNCHANGED << now, treasury_open, wallet, created, closed, reclaimed,
                        terms, pool, weighted_pool, total_pool, report, position >>
----------------------------------------------------------------------------
(* claim_reward *)

Payout(m, u, b) ==
    CalcUserPayout(position[m][<<u, b>>].weighted_amount, b, outcome[m].bucket_prize,
                   weighted_pool[m])

Wins(m, b) ==
    IsWinner(b, outcome[m].final_outcome, terms[m].radius, outcome[m].fallback_used, pool[m])

ClaimWindowOpen(m) == now <= terms[m].claim_deadline

\* All that can refuse a claim; reclaimed is not looked at.
ClaimAllowed(m, u, b) ==
    /\ m \in resolved
    /\ ClaimWindowOpen(m)
    /\ position[m][<<u, b>>].amount > 0
    /\ Wins(m, b)
    /\ Payout(m, u, b) > 0
    /\ VaultPays(m, Payout(m, u, b))

\* Faulty: the position account survives its claim.
ClaimReward_PositionKept(m, u, b) ==
    /\ ClaimAllowed(m, u, b)
    /\ vault' = [ vault EXCEPT ![m] = @ - Payout(m, u, b) ]
    /\ wallet' = [ wallet EXCEPT ![u] = @ + Payout(m, u, b) ]
    /\ UNCHANGED << now, treasury_open, treasury, flags, marketVars, report, position >>

\* Paying closes the position account: its claimed flag is never seen set.
ClaimReward(m, u, b) ==
    /\ ClaimAllowed(m, u, b)
    /\ vault' = [ vault EXCEPT ![m] = @ - Payout(m, u, b) ]
    /\ wallet' = [ wallet EXCEPT ![u] = @ + Payout(m, u, b) ]
    /\ position' = [ position EXCEPT ![m][<<u, b>>] = NoPosition ]
    /\ UNCHANGED << now, treasury_open, treasury, flags, marketVars, report >>
----------------------------------------------------------------------------
(* reclaim_pool *)

\* Faulty: the deadline is not awaited.
Reclaimable_Early(m) == m \in resolved \ reclaimed

Reclaimable(m) ==
    /\ m \in resolved \ reclaimed
    /\ now >= terms[m].claim_deadline

ReclaimAllowed(m) ==
    /\ Reclaimable(m)
    /\ vault[m] > 0 => VaultPays(m, vault[m]) /\ TreasuryTakes(vault[m])

ReclaimPool(m) ==
    /\ ReclaimAllowed(m)
    /\ vault' = [ vault EXCEPT ![m] = 0 ]
    /\ treasury' = treasury + vault[m]
    /\ reclaimed' = reclaimed \cup {m}
    /\ UNCHANGED << now, treasury_open, wallet, created, closed, resolved,
                    marketVars, report, position >>
----------------------------------------------------------------------------
\* Arguments of the instructions, the rejected values next to the range included.
BucketArgs == 0 .. MaxBucket + 1

Next ==
    \/ Tick
    \/ InitializeTreasury
    \/ \E m \in Markets :
        \/ \E d \in StartDelays, r \in Radii, set \in OracleSets, t \in Thresholds :
               CreateMarket(m, d, r, set, t)
        \/ \E u \in Users, b \in BucketArgs, amount \in Amounts : PlaceBet(m, u, b, amount)
        \/ CloseMarket(m)
        \/ \E s \in Signers, score \in BucketArgs : SubmitScore(m, s, score)
        \/ ResolveMarket(m)
        \/ \E u \in Users, b \in Buckets : ClaimReward(m, u, b)
        \/ ReclaimPool(m)

Spec == Init /\ [][Next]_vars
============================================================================
