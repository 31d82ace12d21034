------------------------------- MODULE Replies -------------------------------
(***************************************************************************)
(* How the program answers a call: what it refuses it for, the first of    *)
(* several reasons, or the step it takes; and what the client makes of the *)
(* error.                                                                  *)
(***************************************************************************)
EXTENDS ClientCalls

(* What the program checks of a call, in the order in which it refuses: accounts
   that must exist, accounts to be made, constraints, then the handler's own. *)

MarketOf(ix)  == CHOOSE m \in Markets : ix.accounts[2] = DeriveMarketPDA(m)
SignerOf(ix)  == ix.accounts[1]

PositionSeeds(user, market, bucket) == << "position_seed", user, market, bucket >>

\* The bucket whose position a claim names.
ClaimedBucket(ix) ==
    CHOOSE b \in Buckets :
        ix.accounts[3] = PositionSeeds(SignerOf(ix), ix.accounts[2], b)

InitializeTreasuryChecks(ix) == << << ~treasury_open, "AccountInUse" >> >>

CreateMarketChecks(ix) ==
    << << MarketOf(ix) \notin created, "AccountInUse" >>,
       << ix.args[5] \in 2..3, "InvalidOracleThreshold" >> >>

PlaceBetChecks(ix) ==
    LET m      == MarketOf(ix)
        bucket == ix.args[1]
        amount == ix.args[2]
    IN  << << ix.accounts[3] = PositionSeeds(SignerOf(ix), ix.accounts[2], bucket),
              "ConstraintSeeds" >>,
           << m \notin resolved, "MarketAlreadyResolved" >>,
           << m \notin closed, "MarketAlreadyClosed" >>,
           << now >= terms[m].betting_starts_at, "BettingNotStarted" >>,
           << now <= terms[m].betting_closes_at, "BettingClosed" >>,
           << amount > 0, "InvalidAmount" >>,
           << bucket \in Playable, "InvalidBucket" >>,
           << BettingOpen(m) => WeightFits(amount, DayIndex(now, terms[m].betting_starts_at)),
              "MathOverflow" >>,
           << wallet[SignerOf(ix)] >= amount, "InsufficientFunds" >>,
           << total_pool[m] + amount <= MaxU64, "MathOverflow" >> >>

CloseMarketChecks(ix) ==
    LET m == MarketOf(ix)
    IN  << << m \notin closed, "MarketAlreadyClosed" >>,
           << now >= terms[m].betting_closes_at, "BettingStillOpen" >>,
           << m \notin resolved, "MarketAlreadyResolved" >> >>

SubmitScoreChecks(ix) ==
    LET m == MarketOf(ix)
    IN  << << m \in closed, "MarketNotClosed" >>,
           << m \notin resolved, "MarketAlreadyResolved" >>,
           << IsValidOracle(m, SignerOf(ix)), "UnauthorizedOracle" >>,
           << ~report[m].finalized, "OracleAlreadyFinalized" >>,
           << ~report[m].disputed, "OracleDisputed" >>,
           << OracleWindowOpen(m), "OracleWindowClosed" >>,
           << ix.args[1] \in Scores, "InvalidBucket" >>,
           << ~HasAlreadySubmitted(report[m].submissions, SignerOf(ix)),
              "OracleAlreadySubmitted" >> >>

ResolveMarketChecks(ix) ==
    LET m   == MarketOf(ix)
        fee == Fee(total_pool[m])
    IN  << << m \in closed, "MarketNotClosed" >>,
           << m \notin resolved, "MarketAlreadyResolved" >>,
           << now >= terms[m].settle_at, "SettlementNotReady" >>,
           << report[m].finalized, "OracleNotFinalized" >>,
           << ~report[m].disputed, "OracleDisputed" >>,
           << fee > 0 => VaultDebitable, "InvalidArgument" >>,
           << vault[m] >= fee, "InsufficientFunds" >>,
           << fee > 0 => RentExempt(vault[m] - fee, VaultRent) /\ TreasuryTakes(fee),
              "InsufficientFundsForRent" >> >>

ClaimRewardChecks(ix) ==
    LET m    == MarketOf(ix)
        b    == ClaimedBucket(ix)
        paid == Payout(m, SignerOf(ix), b)
    IN  << << position[m][<< SignerOf(ix), b >>].amount > 0, "AccountNotInitialized" >>,
           << m \in resolved, "MarketNotResolved" >>,
           << now <= terms[m].claim_deadline, "ClaimDeadlinePassed" >>,
           << Wins(m, b), "NotAWinner" >>,
           << weighted_pool[m][b] > 0, "InsufficientClaimAmount" >>,
           << outcome[m].bucket_prize[b] > 0, "NotAWinner" >>,
           << paid > 0, "InsufficientClaimAmount" >>,
           << VaultDebitable, "InvalidArgument" >>,
           << vault[m] >= paid, "InsufficientFunds" >>,
           << RentExempt(vault[m] - paid, VaultRent), "InsufficientFundsForRent" >> >>

ReclaimPoolChecks(ix) ==
    LET m == MarketOf(ix)
    IN  << << m \in resolved, "MarketNotResolved" >>,
           << m \notin reclaimed, "MarketAlreadyClaimed" >>,
           << now >= terms[m].claim_deadline, "ClaimDeadlineNotPassed" >>,
           << vault[m] > 0 => VaultDebitable, "InvalidArgument" >>,
           << vault[m] > 0 => TreasuryTakes(vault[m]), "InsufficientFundsForRent" >> >>

Checks(ix) ==
    CASE ix.name = "initializeTreasury" -> InitializeTreasuryChecks(ix)
      [] ix.name = "createMarket"       -> CreateMarketChecks(ix)
      [] ix.name = "placeBet"           -> PlaceBetChecks(ix)
      [] ix.name = "closeMarket"        -> CloseMarketChecks(ix)
      [] ix.name = "submitScore"        -> SubmitScoreChecks(ix)
      [] ix.name = "resolveMarket"      -> ResolveMarketChecks(ix)
      [] ix.name = "claimReward"        -> ClaimRewardChecks(ix)
      [] ix.name = "reclaimPool"        -> ReclaimPoolChecks(ix)

Accepted == "accepted"

\* What a call is refused for now.
Refusal(ix) ==
    LET failing == { i \in DOMAIN Checks(ix) : ~Checks(ix)[i][1] }
    IN  IF failing = {} THEN Accepted
        ELSE Checks(ix)[CHOOSE i \in failing : \A j \in failing : i <= j][2]

\* An accepted call is a step of the program.
Execute(ix) ==
    \/ ix.name = "initializeTreasury" /\ InitializeTreasury
    \/ ix.name = "createMarket" /\ CreateMarket(MarketOf(ix), ix.args[1], ix.args[3],
                                                ix.args[4], ix.args[5])
    \/ ix.name = "placeBet"     /\ PlaceBet(MarketOf(ix), SignerOf(ix), ix.args[1], ix.args[2])
    \/ ix.name = "closeMarket"  /\ CloseMarket(MarketOf(ix))
    \/ ix.name = "submitScore"  /\ SubmitScore(MarketOf(ix), SignerOf(ix), ix.args[1])
    \/ ix.name = "resolveMarket" /\ ResolveMarket(MarketOf(ix))
    \/ ix.name = "claimReward"  /\ ClaimReward(MarketOf(ix), SignerOf(ix), ClaimedBucket(ix))
    \/ ix.name = "reclaimPool"  /\ ReclaimPool(MarketOf(ix))
----------------------------------------------------------------------------
(* Codes: the program numbers its errors from 6000 in the order of its enum; the
   client (errors/index.ts) has a table of its own. *)

ErrorCode ==
    << "MarketAlreadyClosed", "MarketNotClosed", "MarketAlreadyResolved", "MarketNotResolved",
       "MarketAlreadyClaimed", "BettingNotStarted", "BettingClosed", "BettingStillOpen",
       "SettlementNotReady", "SettlementTimeInvalid", "ClaimDeadlinePassed",
       "ClaimDeadlineNotPassed", "OracleWindowClosed", "UnauthorizedOracle",
       "InvalidOracleThreshold", "OracleAlreadyFinalized", "OracleNotFinalized",
       "OracleAlreadySubmitted", "OracleDisputed", "InvalidBucket", "InvalidAmount",
       "AlreadyClaimed", "InsufficientClaimAmount", "NotAWinner", "Unauthorized",
       "MathOverflow", "MathUnderflow" >>

\* External: the runtime's own refusals, of a transfer out of an account with data and of
\* a balance below the rent-exempt minimum, have no code at all.
Codeless == { "InvalidArgument", "InsufficientFundsForRent" }

\* External: Anchor and the system program have codes of their own.
CodeOf(refused) ==
    CASE refused \in Range(ErrorCode) ->
             5999 + CHOOSE i \in DOMAIN ErrorCode : ErrorCode[i] = refused
      [] refused = "AccountInUse"          -> 0
      [] refused = "InsufficientFunds"     -> 1
      [] refused = "ConstraintSeeds"       -> 2006
      [] refused = "AccountNotInitialized" -> 3012

CinefiErrorCode ==
    << "MarketAlreadyClosed", "MarketNotClosed", "MarketAlreadyResolved", "MarketNotResolved",
       "MarketAlreadyClaimed", "BettingNotStarted", "BettingClosed", "BettingStillOpen",
       "SettlementNotReady", "SettlementTimeInvalid", "ClaimDeadlinePassed",
       "ClaimDeadlineNotPassed", "OracleWindowClosed", "UnauthorizedOracle",
       "InvalidOracleThreshold", "OracleAlreadyFinalized", "OracleNotFinalized",
       "OracleAlreadySubmitted", "OracleDisputed", "InvalidBucket", "InvalidAmount",
       "AlreadyClaimed", "InsufficientClaimAmount", "NotAWinner", "Unauthorized",
       "MathOverflow", "MathUnderflow" >>

NoError == "none"

\* Faulty: the table is indexed from 0.
FromCode_OffByOne(code) == IF code \in 6001..6026 THEN CinefiErrorCode[code - 6000] ELSE NoError

FromCode(code) == IF code \in 6000..6026 THEN CinefiErrorCode[code - 5999] ELSE NoError

\* An error carries a code, or else logs that name codes, or neither.
ErrorsOf(refused) ==
    IF refused \in Codeless THEN { [ code |-> {}, logs |-> << >> ] } ELSE
    LET code == CodeOf(refused)
    IN  { [ code |-> {code}, logs |-> << >> ], [ code |-> {}, logs |-> << code >> ] }

ParseCinefiError(error) ==
    LET named == { i \in DOMAIN error.logs : FromCode(error.logs[i]) # NoError }
    IN  IF error.code # {} THEN FromCode(CHOOSE c \in error.code : TRUE)
        ELSE IF named # {}
             THEN FromCode(error.logs[CHOOSE i \in named : \A j \in named : i <= j])
        ELSE NoError
============================================================================
