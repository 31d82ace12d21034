---------------------------- MODULE CinefiProofs ----------------------------
(***************************************************************************)
(* Theorems about Cinefi, for every set of markets, users and oracles and  *)
(* every value of the program's constants that satisfies the assumptions.  *)
(***************************************************************************)
EXTENDS CinefiSafety, WeightsProofs

\* The fee resolve_market takes never exceeds the pool it is taken from.
LEMMA FeeType ==
    ASSUME NEW total \in Nat
    PROVE  Fee(total) \in Nat /\ Fee(total) <= total
<1> DEFINE p == total * DEFAULT_PROTOCOL_FEE_BPS
           q == p \div 10000
<1>1. DEFAULT_PROTOCOL_FEE_BPS \in 0..10000
  BY CinefiConstants
<1>2. p \in Nat /\ p <= total * 10000
  BY <1>1
<1> HIDE DEF p
<1>3. q \in Nat /\ q <= total
  BY <1>2
<1> HIDE DEF q
<1>4. AsU64(q) \in Nat /\ AsU64(q) <= total
  BY <1>3, AsU64Type
<1> QED
  BY <1>4 DEF Fee, p, q

\* The times and parameters create_market writes.
LEMMA MarketTermsType ==
    ASSUME now \in Nat, NEW d \in StartDelays, NEW r \in Radii,
           NEW set \in OracleSets, NEW t \in 2..3
    PROVE  MarketTerms(d, r, set, t) \in Terms
<1> DEFINE starts == now + d
           closes == starts + BETTING_DURATION_DAYS * SECONDS_PER_DAY
           settle == closes + (SETTLEMENT_DAY - BETTING_DURATION_DAYS) * SECONDS_PER_DAY
           dead   == settle + CLAIM_WINDOW_DAYS * SECONDS_PER_DAY
<1>1. d \in Int /\ r \in Nat /\ set \in [1..3 -> Signers]
  BY CinefiConstants
<1>2. starts \in Int /\ closes \in Int /\ settle \in Int /\ dead \in Int
  BY <1>1, CinefiConstants, WeightConstants
<1> QED
  BY <1>1, <1>2 DEF MarketTerms, Terms

\* The outcome resolve_market writes.
LEMMA OutcomeType ==
    ASSUME TypeOK, NEW m \in Markets, NEW score \in Buckets
    PROVE  OutcomeFor(m, score) \in Outcome
<1> DEFINE prize == total_pool[m] - Fee(total_pool[m])
<1>1. total_pool[m] \in Nat /\ weighted_pool[m] \in [Buckets -> Nat] /\ score \in Nat
  BY WeightConstants DEF TypeOK, Buckets
<1>2. prize \in Nat
  BY <1>1, FeeType
<1>3. ComputeBucketPrizes(weighted_pool[m], score, terms[m].radius, prize) \in [Buckets -> Nat]
  BY <1>1, <1>2, BucketPrizesType
<1>4. FallbackUsed(weighted_pool[m], score, terms[m].radius) \in BOOLEAN
  BY DEF FallbackUsed
<1> QED
  BY <1>2, <1>3, <1>4 DEF OutcomeFor, Outcome
----------------------------------------------------------------------------
(* Type correctness. *)

LEMMA InitType == Init => TypeOK
<1> SUFFICES ASSUME Init PROVE TypeOK
  OBVIOUS
<1>1. 0 \in Buckets
  BY WeightConstants DEF Buckets
<1>2. EmptyArray \in [Buckets -> Nat]
  BY DEF EmptyArray
<1>3. NoOutcome \in Outcome
  BY <1>1, <1>2 DEF NoOutcome, Outcome
<1>4. EmptyReport \in Report
  BY <1>1 DEF EmptyReport, Report
<1>5. NoPosition \in Position
  BY DEF NoPosition, Position
<1>6. terms \in [created -> Terms]
  BY DEF Init
<1>7. pool \in [Markets -> [Buckets -> Nat]] /\ weighted_pool \in [Markets -> [Buckets -> Nat]]
  BY <1>2 DEF Init
<1>8. outcome \in [Markets -> Outcome] /\ report \in [Markets -> Report]
  BY <1>3, <1>4 DEF Init
<1>9. position \in [Markets -> [Positions -> Position]]
  BY <1>5 DEF Init
<1>10. /\ wallet \in [Users -> Nat] /\ vault \in [Markets -> Nat]
       /\ total_pool \in [Markets -> Nat]
  BY CinefiConstants DEF Init
<1>11. /\ now \in Nat /\ treasury_open \in BOOLEAN /\ treasury \in Nat
       /\ created \subseteq Markets /\ closed \subseteq created
       /\ resolved \subseteq created /\ reclaimed \subseteq created
  BY DEF Init
<1> QED
  BY <1>6, <1>7, <1>8, <1>9, <1>10, <1>11 DEF TypeOK

\* create_market
LEMMA CreateType ==
    ASSUME TypeOK, NEW m \in Markets, NEW d \in StartDelays, NEW r \in Radii,
           NEW set \in OracleSets, NEW t \in Thresholds, CreateMarket(m, d, r, set, t)
    PROVE  TypeOK'
<1>1. t \in 2..3
  BY CinefiConstants DEF CreateMarket
<1>2. MarketTerms(d, r, set, t) \in Terms
  BY <1>1, MarketTermsType DEF TypeOK
<1>3. terms' \in [created' -> Terms]
  BY <1>2 DEF CreateMarket, TypeOK
<1>4. EmptyReport \in Report
  BY WeightConstants DEF EmptyReport, Report, Buckets
<1>5. VaultRent \in Nat
  BY CinefiConstants
<1> QED
  BY <1>3, <1>4, <1>5 DEF CreateMarket, TypeOK

\* The weight that place_bet computes while betting is open.
LEMMA BetWeightType ==
    ASSUME TypeOK, NEW m \in Markets, BettingOpen(m), NEW amount \in Nat
    PROVE  WeightedAmount(amount, DayIndex(now, terms[m].betting_starts_at)) \in Nat
<1>1. m \in created /\ terms[m] \in Terms /\ now >= terms[m].betting_starts_at
  BY DEF BettingOpen, TypeOK
<1>2. terms[m].betting_starts_at \in Int /\ now \in Int
  BY <1>1 DEF Terms, TypeOK
<1>3. DayIndex(now, terms[m].betting_starts_at) \in 0..BETTING_DURATION_DAYS - 1
  BY <1>1, <1>2, DayIndexType
<1> QED
  BY <1>3, WeightedAmountType

\* place_bet
LEMMA PlaceBetType ==
    ASSUME TypeOK, NEW m \in Markets, NEW u \in Users, NEW b \in BucketArgs,
           NEW amount \in Amounts, PlaceBet(m, u, b, amount)
    PROVE  TypeOK'
<1> DEFINE w == WeightedAmount(amount, DayIndex(now, terms[m].betting_starts_at))
<1>1. amount \in Nat /\ b \in Buckets
  BY CinefiConstants, BucketsFinite DEF PlaceBet, BetAllowed
<1>2. w \in Nat
  BY <1>1, BetWeightType DEF PlaceBet, BetAllowed
<1>3. /\ wallet[u] >= amount
      /\ wallet' = [ wallet EXCEPT ![u] = @ - amount ]
      /\ vault' = [ vault EXCEPT ![m] = @ + amount ]
      /\ pool' = [ pool EXCEPT ![m][b] = @ + amount ]
      /\ weighted_pool' = [ weighted_pool EXCEPT ![m][b] = @ + w ]
      /\ total_pool' = [ total_pool EXCEPT ![m] = @ + amount ]
      /\ position' = [ position EXCEPT ![m][<<u, b>>] = Staked(@, amount, w) ]
      /\ UNCHANGED << now, treasury_open, treasury, created, closed, resolved, reclaimed,
                      terms, outcome, report >>
  BY DEF PlaceBet, BetAllowed, flags
<1> HIDE DEF w
<1>4. wallet' \in [Users -> Nat]
  BY <1>1, <1>3 DEF TypeOK
<1>5. vault' \in [Markets -> Nat] /\ total_pool' \in [Markets -> Nat]
  BY <1>1, <1>3 DEF TypeOK
<1>6. pool' \in [Markets -> [Buckets -> Nat]]
  BY <1>1, <1>3 DEF TypeOK
<1>7. weighted_pool' \in [Markets -> [Buckets -> Nat]]
  BY <1>1, <1>2, <1>3 DEF TypeOK
<1>8. position' \in [Markets -> [Positions -> Position]]
  <2>1. <<u, b>> \in Positions
    BY <1>1 DEF Positions
  <2>2. Staked(position[m][<<u, b>>], amount, w) \in Position
    BY <1>1, <1>2, <2>1 DEF Staked, Position, TypeOK
  <2> QED
    BY <1>3, <2>1, <2>2 DEF TypeOK
<1> QED
  BY <1>3, <1>4, <1>5, <1>6, <1>7, <1>8 DEF TypeOK
\* submit_score
LEMMA SubmitType ==
    ASSUME TypeOK, NEW m \in Markets, NEW s \in Signers, NEW score \in BucketArgs,
           SubmitScore(m, s, score)
    PROVE  TypeOK'
<1> DEFINE new     == Append(report[m].submissions, [ signer |-> s, score |-> score ])
           verdict == EvaluateReport(new, terms[m].oracle_threshold)
           rep     == [ submissions  |-> new,
                        agreed_score |-> IF verdict.finalized THEN new[1].score
                                         ELSE report[m].agreed_score,
                        finalized    |-> verdict.finalized,
                        disputed     |-> verdict.disputed ]
<1>1. report[m] \in Report
  BY DEF TypeOK
<1>2. new \in Seq(Submission) /\ Len(new) \in Nat \ {0}
  BY <1>1 DEF Report, Submission, SubmitScore, ScoreAllowed
<1>3. new[1] \in Submission
  BY <1>2
<1>4. new[1].score \in Buckets
  BY <1>3, BucketsFinite DEF Submission, Scores
<1>5. verdict.finalized \in BOOLEAN /\ verdict.disputed \in BOOLEAN
  BY DEF EvaluateReport, AllAgree
<1>6. report' = [ report EXCEPT ![m] = rep ]
  BY DEF SubmitScore
<1> HIDE DEF new, verdict
<1>7. rep \in Report
  BY <1>1, <1>2, <1>4, <1>5 DEF Report
<1> HIDE DEF rep
<1>8. report' \in [Markets -> Report]
  BY <1>6, <1>7 DEF TypeOK
<1> QED
  BY <1>8 DEF SubmitScore, TypeOK, lamports, flags, marketVars

\* resolve_market
LEMMA ResolveType ==
    ASSUME TypeOK, NEW m \in Markets, ResolveMarket(m)
    PROVE  TypeOK'
<1> DEFINE fee == Fee(total_pool[m])
<1>1. fee \in Nat
  BY FeeType DEF TypeOK
<1>2. m \in created /\ report[m].agreed_score \in Buckets
  BY DEF ResolveMarket, ResolveAllowed, Resolvable, TypeOK, Report
<1>3. OutcomeFor(m, report[m].agreed_score) \in Outcome
  BY <1>2, OutcomeType
<1>4. fee > 0 => vault[m] >= fee
  BY DEF ResolveMarket, ResolveAllowed, VaultPays
<1>5. /\ vault' = [ vault EXCEPT ![m] = @ - fee ]
      /\ treasury' = treasury + fee
      /\ outcome' = [ outcome EXCEPT ![m] = OutcomeFor(m, report[m].agreed_score) ]
      /\ resolved' = resolved \cup {m}
      /\ UNCHANGED << now, treasury_open, wallet, created, closed, reclaimed,
                      terms, pool, weighted_pool, total_pool, report, position >>
  BY DEF ResolveMarket
<1> HIDE DEF fee
<1>6. vault' \in [Markets -> Nat]
  BY <1>1, <1>4, <1>5 DEF TypeOK
<1>7. outcome' \in [Markets -> Outcome]
  BY <1>3, <1>5 DEF TypeOK
<1> QED
  BY <1>1, <1>2, <1>5, <1>6, <1>7 DEF TypeOK

\* The payout claim_reward computes.
LEMMA DuePayoutType ==
    ASSUME TypeOK, NEW m \in Markets, NEW u \in Users, NEW b \in Buckets
    PROVE  Payout(m, u, b) \in Nat
<1>1. <<u, b>> \in Positions
  BY DEF Positions
<1>2. position[m][<<u, b>>].weighted_amount \in Nat
  BY <1>1 DEF TypeOK, Position
<1>3. outcome[m].bucket_prize \in [Buckets -> Nat] /\ weighted_pool[m] \in [Buckets -> Nat]
  BY DEF TypeOK, Outcome
<1> QED
  BY <1>2, <1>3, PayoutType DEF Payout

\* claim_reward
LEMMA ClaimType ==
    ASSUME TypeOK, NEW m \in Markets, NEW u \in Users, NEW b \in Buckets,
           ClaimReward(m, u, b)
    PROVE  TypeOK'
<1> DEFINE paid == Payout(m, u, b)
<1>1. paid \in Nat
  BY DuePayoutType
<1>2. NoPosition \in Position
  BY DEF NoPosition, Position
<1>3. /\ vault[m] >= paid
      /\ vault' = [ vault EXCEPT ![m] = @ - paid ]
      /\ wallet' = [ wallet EXCEPT ![u] = @ + paid ]
      /\ position' = [ position EXCEPT ![m][<<u, b>>] = NoPosition ]
      /\ UNCHANGED << now, treasury_open, treasury, created, closed, resolved, reclaimed,
                      terms, pool, weighted_pool, total_pool, outcome, report >>
  BY DEF ClaimReward, ClaimAllowed, VaultPays, flags, marketVars
<1> HIDE DEF paid
<1>4. vault' \in [Markets -> Nat] /\ wallet' \in [Users -> Nat]
  BY <1>1, <1>3 DEF TypeOK
<1>5. position' \in [Markets -> [Positions -> Position]]
  BY <1>2, <1>3 DEF TypeOK
<1> QED
  BY <1>3, <1>4, <1>5 DEF TypeOK

LEMMA NextType == TypeOK /\ [Next]_vars => TypeOK'
<1> SUFFICES ASSUME TypeOK, [Next]_vars PROVE TypeOK'
  OBVIOUS
<1>1. CASE Tick
  BY <1>1 DEF Tick, TypeOK, lamports, flags, marketVars
<1>2. CASE InitializeTreasury
  BY <1>2, CinefiConstants DEF InitializeTreasury, TypeOK, flags, marketVars
<1>3. ASSUME NEW m \in Markets, NEW d \in StartDelays, NEW r \in Radii,
             NEW set \in OracleSets, NEW t \in Thresholds, CreateMarket(m, d, r, set, t)
      PROVE  TypeOK'
  BY <1>3, CreateType
<1>4. ASSUME NEW m \in Markets, NEW u \in Users, NEW b \in BucketArgs,
             NEW amount \in Amounts, PlaceBet(m, u, b, amount)
      PROVE  TypeOK'
  BY <1>4, PlaceBetType
<1>5. ASSUME NEW m \in Markets, CloseMarket(m) PROVE TypeOK'
  BY <1>5 DEF CloseMarket, CloseAllowed, TypeOK, lamports, marketVars
<1>6. ASSUME NEW m \in Markets, NEW s \in Signers, NEW score \in BucketArgs,
             SubmitScore(m, s, score)
      PROVE  TypeOK'
  BY <1>6, SubmitType
<1>7. ASSUME NEW m \in Markets, ResolveMarket(m) PROVE TypeOK'
  BY <1>7, ResolveType
<1>8. ASSUME NEW m \in Markets, NEW u \in Users, NEW b \in Buckets, ClaimReward(m, u, b)
      PROVE  TypeOK'
  BY <1>8, ClaimType
<1>9. ASSUME NEW m \in Markets, ReclaimPool(m) PROVE TypeOK'
  BY <1>9 DEF ReclaimPool, ReclaimAllowed, Reclaimable, TypeOK, marketVars
<1>10. CASE UNCHANGED vars
  BY <1>10 DEF vars, TypeOK
<1> QED
  BY <1>1, <1>2, <1>3, <1>4, <1>5, <1>6, <1>7, <1>8, <1>9, <1>10 DEF Next

\* In every reachable state every account holds a value of its type; no balance and
\* no sum is ever negative.
THEOREM TypeCorrect == Spec => []TypeOK
  BY InitType, NextType, PTL DEF Spec
============================================================================
