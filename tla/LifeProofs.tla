----------------------------- MODULE LifeProofs -----------------------------
(***************************************************************************)
(* The verdict of the oracles and the life cycle of a market: what the     *)
(* submissions of a report have in common, and what closing, deciding,     *)
(* resolving and sweeping leave behind.                                    *)
(***************************************************************************)
EXTENDS CinefiProofs
----------------------------------------------------------------------------
(* The verdict.

   VerdictOfOracles counts different keys, which no step can be seen to keep by
   itself: the count is the number of submissions only because no key is in the
   report twice.  Reported says so, and says whose keys and scores they are; it
   is inductive. *)

Reported(r, oracle_set, oracle_threshold) ==
    /\ \A i, j \in 1..Len(r.submissions) :
          r.submissions[i].signer = r.submissions[j].signer => i = j
    /\ \A i \in 1..Len(r.submissions) :
          \E k \in 1..3 : oracle_set[k] = r.submissions[i].signer
    /\ r.finalized =>
          /\ ~r.disputed
          /\ Len(r.submissions) >= oracle_threshold
          /\ \A i \in 1..Len(r.submissions) : r.submissions[i].score = r.agreed_score
    /\ r.disputed =>
          \E i, j \in 1..Len(r.submissions) :
              r.submissions[i].score # r.submissions[j].score

ReportInv ==
    \A m \in created : Reported(report[m], terms[m].oracle_set, terms[m].oracle_threshold)

\* A report with one submission more, evaluated as submit_score does.
LEMMA SubmissionKeepsReport ==
    ASSUME NEW r \in Report, NEW set, NEW threshold \in 2..3,
           Reported(r, set, threshold), ~r.finalized, ~r.disputed,
           NEW s \in Signers, NEW score \in Scores,
           \E k \in 1..3 : set[k] = s,
           ~HasAlreadySubmitted(r.submissions, s),
           NEW q \in Report,
           q.submissions = Append(r.submissions, [ signer |-> s, score |-> score ]),
           q.finalized = EvaluateReport(q.submissions, threshold).finalized,
           q.disputed = EvaluateReport(q.submissions, threshold).disputed,
           q.finalized => q.agreed_score = q.submissions[1].score
    PROVE  Reported(q, set, threshold)
<1> DEFINE n   == Len(r.submissions)
           new == [ signer |-> s, score |-> score ]
<1>1. /\ n \in Nat
      /\ Len(q.submissions) = n + 1
      /\ q.submissions[n + 1] = new
      /\ \A i \in 1..n : q.submissions[i] = r.submissions[i]
  BY DEF Report, Submission
<1>2. \A i \in 1..n : r.submissions[i].signer # s
  BY DEF HasAlreadySubmitted
<1>3. \A i, j \in 1..n + 1 : q.submissions[i].signer = q.submissions[j].signer => i = j
  <2>1. SUFFICES ASSUME NEW i \in 1..n + 1, NEW j \in 1..n + 1,
                        q.submissions[i].signer = q.submissions[j].signer
                 PROVE  i = j
    OBVIOUS
  <2>2. CASE i \in 1..n /\ j \in 1..n
    BY <1>1, <2>1, <2>2 DEF Reported
  <2>3. CASE i = n + 1 /\ j \in 1..n
    BY <1>1, <1>2, <2>1, <2>3
  <2>4. CASE j = n + 1 /\ i \in 1..n
    BY <1>1, <1>2, <2>1, <2>4
  <2> QED
    BY <1>1, <2>2, <2>3, <2>4
<1>4. \A i \in 1..n + 1 : \E k \in 1..3 : set[k] = q.submissions[i].signer
  <2>1. SUFFICES ASSUME NEW i \in 1..n + 1
                 PROVE  \E k \in 1..3 : set[k] = q.submissions[i].signer
    OBVIOUS
  <2>2. CASE i \in 1..n
    BY <1>1, <2>2 DEF Reported
  <2>3. CASE i = n + 1
    BY <1>1, <2>3
  <2> QED
    BY <1>1, <2>2, <2>3
<1>5. q.finalized =>
        /\ ~q.disputed
        /\ Len(q.submissions) >= threshold
        /\ \A i \in 1..n + 1 : q.submissions[i].score = q.agreed_score
  BY <1>1 DEF EvaluateReport, AllAgree
<1>6. q.disputed =>
        \E i, j \in 1..n + 1 : q.submissions[i].score # q.submissions[j].score
  <2>1. SUFFICES ASSUME q.disputed
                 PROVE  \E i, j \in 1..n + 1 : q.submissions[i].score # q.submissions[j].score
    OBVIOUS
  <2>2. ~AllAgree(q.submissions)
    BY <2>1 DEF EvaluateReport, Report
  <2>3. 1 \in 1..n + 1
    BY <1>1
  <2> QED
    BY <1>1, <2>2, <2>3 DEF AllAgree
<1> QED
  BY <1>1, <1>3, <1>4, <1>5, <1>6 DEF Reported

LEMMA ReportInit == Init => ReportInv
  BY DEF Init, ReportInv

LEMMA ReportNext == TypeOK /\ ReportInv /\ [Next]_vars => ReportInv'
<1> SUFFICES ASSUME TypeOK, ReportInv, [Next]_vars PROVE ReportInv'
  OBVIOUS
<1>1. ASSUME UNCHANGED << created, terms, report >> PROVE ReportInv'
  BY <1>1 DEF ReportInv
<1>2. ASSUME NEW m \in Markets, NEW d \in StartDelays, NEW r \in Radii,
             NEW set \in OracleSets, NEW t \in Thresholds, CreateMarket(m, d, r, set, t)
      PROVE  ReportInv'
  <2>1. SUFFICES ASSUME NEW x \in created'
                 PROVE  Reported(report'[x], terms'[x].oracle_set, terms'[x].oracle_threshold)
    BY DEF ReportInv
  <2>2. CASE x = m
    <3>1. report'[x] = EmptyReport
      BY <1>2, <2>2 DEF CreateMarket, TypeOK
    <3> QED
      BY <3>1 DEF Reported, EmptyReport
  <2>3. CASE x # m
    <3>1. x \in created /\ report'[x] = report[x] /\ terms'[x] = terms[x]
      BY <1>2, <2>3 DEF CreateMarket, TypeOK
    <3> QED
      BY <3>1 DEF ReportInv
  <2> QED
    BY <2>2, <2>3
<1>3. ASSUME NEW m \in Markets, NEW s \in Signers, NEW score \in BucketArgs,
             SubmitScore(m, s, score)
      PROVE  ReportInv'
  <2>1. m \in created /\ terms[m] \in Terms /\ created' = created /\ terms' = terms
    BY <1>3 DEF SubmitScore, ScoreAllowed, TypeOK, flags, marketVars
  <2>2. SUFFICES ASSUME NEW x \in created
                 PROVE  Reported(report'[x], terms[x].oracle_set, terms[x].oracle_threshold)
    BY <2>1 DEF ReportInv
  <2>3. CASE x = m
    <3>1. report[m] \in Report /\ report'[m] \in Report
      BY <1>3, SubmitType DEF TypeOK
    <3>2. terms[m].oracle_threshold \in 2..3
      BY <2>1 DEF Terms
    <3>3. /\ ~report[m].finalized /\ ~report[m].disputed
          /\ score \in Scores
          /\ \E k \in 1..3 : terms[m].oracle_set[k] = s
          /\ ~HasAlreadySubmitted(report[m].submissions, s)
      BY <1>3 DEF SubmitScore, ScoreAllowed, ReportOpen, IsValidOracle
    <3>4. /\ report'[m].submissions
               = Append(report[m].submissions, [ signer |-> s, score |-> score ])
          /\ report'[m].finalized = EvaluateReport(report'[m].submissions,
                                                   terms[m].oracle_threshold).finalized
          /\ report'[m].disputed = EvaluateReport(report'[m].submissions,
                                                  terms[m].oracle_threshold).disputed
          /\ report'[m].finalized =>
                report'[m].agreed_score = report'[m].submissions[1].score
      BY <1>3 DEF SubmitScore, TypeOK
    <3>5. Reported(report[m], terms[m].oracle_set, terms[m].oracle_threshold)
      BY <2>1 DEF ReportInv
    <3> QED
      BY <2>3, <3>1, <3>2, <3>3, <3>4, <3>5, SubmissionKeepsReport
  <2>4. CASE x # m
    BY <1>3, <2>4 DEF SubmitScore, TypeOK, ReportInv
  <2> QED
    BY <2>3, <2>4
<1> QED
  <2>1. CASE Tick \/ InitializeTreasury \/ UNCHANGED vars
    BY <1>1, <2>1 DEF Tick, InitializeTreasury, vars, flags, marketVars
  <2>2. ASSUME NEW m \in Markets, NEW u \in Users,
               \/ \E b \in BucketArgs, amount \in Amounts : PlaceBet(m, u, b, amount)
               \/ \E b \in Buckets : ClaimReward(m, u, b)
        PROVE  ReportInv'
    BY <1>1, <2>2 DEF PlaceBet, ClaimReward, flags, marketVars
  <2>3. ASSUME NEW m \in Markets, CloseMarket(m) \/ ResolveMarket(m) \/ ReclaimPool(m)
        PROVE  ReportInv'
    BY <1>1, <2>3 DEF CloseMarket, ResolveMarket, ReclaimPool, marketVars
  <2> QED
    BY <1>2, <1>3, <2>1, <2>2, <2>3 DEF Next
\* As many different keys as submissions.
LEMMA SubmittersCounted ==
    ASSUME TypeOK, ReportInv, NEW m \in created
    PROVE  Cardinality(Submitters(m)) = Len(report[m].submissions)
<1> DEFINE q == report[m].submissions
           f == [ i \in 1..Len(q) |-> q[i].signer ]
<1>1. Len(q) \in Nat /\ DOMAIN q = 1..Len(q)
  BY DEF TypeOK, Report
<1>2. Submitters(m) = { f[i] : i \in 1..Len(q) }
  BY <1>1 DEF Submitters
<1>3. \A i, j \in 1..Len(q) : f[i] = f[j] => i = j
  BY DEF ReportInv, Reported
<1> HIDE DEF q
<1>4. f \in Bijection(1..Len(q), Submitters(m))
  BY <1>2, <1>3 DEF Bijection, Injection, Surjection, IsInjective
<1>5. IsFiniteSet(1..Len(q)) /\ Cardinality(1..Len(q)) = Len(q)
  <2> DEFINE n == Len(q)
  <2>1. n \in Int /\ n >= 0 /\ 1 \in Int
    BY <1>1
  <2> HIDE DEF n
  <2>2. IsFiniteSet(1..n) /\ Cardinality(1..n) = IF 1 > n THEN 0 ELSE n - 1 + 1
    BY <2>1, FS_Interval
  <2> QED
    BY <2>1, <2>2 DEF n
<1>6. Cardinality(Submitters(m)) = Cardinality(1..Len(q))
  BY <1>4, <1>5, FS_Bijection DEF ExistsBijection
<1> QED
  BY <1>5, <1>6 DEF q

LEMMA ReportInvImplies == TypeOK /\ ReportInv => VerdictOfOracles
<1> SUFFICES ASSUME TypeOK, ReportInv, NEW m \in created
             PROVE  LET r == report[m] IN
                    /\ r.finalized =>
                          /\ ~r.disputed
                          /\ Cardinality(Submitters(m)) >= terms[m].oracle_threshold
                          /\ Submitters(m) \subseteq Range(terms[m].oracle_set)
                          /\ \A i \in DOMAIN r.submissions :
                                r.submissions[i].score = r.agreed_score
                    /\ r.disputed =>
                          \E i, j \in DOMAIN r.submissions :
                              r.submissions[i].score # r.submissions[j].score
  BY DEF VerdictOfOracles
<1>1. Reported(report[m], terms[m].oracle_set, terms[m].oracle_threshold)
  BY DEF ReportInv
<1>2. DOMAIN report[m].submissions = 1..Len(report[m].submissions)
  BY DEF TypeOK, Report
<1>3. terms[m].oracle_set \in [1..3 -> Signers]
  BY DEF TypeOK, Terms
<1>4. Submitters(m) \subseteq Range(terms[m].oracle_set)
  BY <1>1, <1>2, <1>3 DEF Submitters, Reported, Range
<1>5. Cardinality(Submitters(m)) = Len(report[m].submissions)
  BY SubmittersCounted
<1> QED
  BY <1>1, <1>2, <1>4, <1>5 DEF Reported

\* Whatever the oracles, the threshold and the order of the submissions, a finalized
\* report has threshold-many different keys of the set behind its score.
THEOREM VerdictCorrect == Spec => []VerdictOfOracles
<1>1. Init => TypeOK /\ ReportInv
  BY InitType, ReportInit
<1>2. TypeOK /\ ReportInv /\ [Next]_vars => (TypeOK /\ ReportInv)'
  BY NextType, ReportNext
<1> QED
  BY <1>1, <1>2, ReportInvImplies, PTL DEF Spec
----------------------------------------------------------------------------
(* Action properties: what no step does to a decided report. *)

LEMMA DecidedStays ==
    ASSUME TypeOK, [Next]_vars, NEW m \in created,
           report[m].finalized \/ report[m].disputed
    PROVE  report'[m] = report[m]
<1>1. ASSUME UNCHANGED report PROVE report'[m] = report[m]
  BY <1>1
<1>2. ASSUME NEW x \in Markets, NEW d \in StartDelays, NEW r \in Radii,
             NEW set \in OracleSets, NEW t \in Thresholds, CreateMarket(x, d, r, set, t)
      PROVE  report'[m] = report[m]
  BY <1>2 DEF CreateMarket, TypeOK
<1>3. ASSUME NEW x \in Markets, NEW s \in Signers, NEW score \in BucketArgs,
             SubmitScore(x, s, score)
      PROVE  report'[m] = report[m]
  BY <1>3 DEF SubmitScore, ScoreAllowed, ReportOpen, TypeOK
<1> QED
  <2>1. CASE Tick \/ InitializeTreasury \/ UNCHANGED vars
    BY <1>1, <2>1 DEF Tick, InitializeTreasury, vars
  <2>2. ASSUME NEW x \in Markets, NEW u \in Users,
               \/ \E b \in BucketArgs, amount \in Amounts : PlaceBet(x, u, b, amount)
               \/ \E b \in Buckets : ClaimReward(x, u, b)
        PROVE  report'[m] = report[m]
    BY <1>1, <2>2 DEF PlaceBet, ClaimReward
  <2>3. ASSUME NEW x \in Markets, CloseMarket(x) \/ ResolveMarket(x) \/ ReclaimPool(x)
        PROVE  report'[m] = report[m]
    BY <1>1, <2>3 DEF CloseMarket, ResolveMarket, ReclaimPool
  <2> QED
    BY <1>2, <1>3, <2>1, <2>2, <2>3 DEF Next

\* A finalized or disputed report is never written again.
THEOREM VerdictFinal == Spec => VerdictStands
<1>1. TypeOK /\ [Next]_vars =>
        [ \A m \in created :
            report[m].finalized \/ report[m].disputed => report'[m] = report[m] ]_vars
  BY DecidedStays
<1> QED
  BY <1>1, TypeCorrect, PTL DEF Spec, VerdictStands
----------------------------------------------------------------------------
(* The life cycle. *)

\* The life cycle as an invariant: a score is submitted, and a market resolved, only
\* after closing; a verdict is one of two; a swept vault is empty, so that a claim
\* after the sweep fails although claim_reward does not look at reclaimed.
LifeAt(m) ==
    /\ m \in created => terms[m].betting_closes_at <= terms[m].settle_at
    /\ (report[m].submissions # << >> \/ report[m].finalized \/ report[m].disputed)
           => m \in closed
    /\ ~(report[m].finalized /\ report[m].disputed)
    /\ total_pool[m] <= MaxU64
    /\ m \in resolved => m \in closed /\ report[m].finalized
    /\ m \in reclaimed => m \in resolved /\ vault[m] = 0

LifeInv == \A m \in Markets : LifeAt(m)

\* The terms of a new market leave no gap between betting and settlement.
LEMMA SettlesAfterBetting ==
    ASSUME now \in Nat, NEW d \in StartDelays, NEW r, NEW set, NEW t
    PROVE  MarketTerms(d, r, set, t).betting_closes_at <= MarketTerms(d, r, set, t).settle_at
<1> DEFINE k == SETTLEMENT_DAY - BETTING_DURATION_DAYS
           closes == now + d + BETTING_DURATION_DAYS * SECONDS_PER_DAY
<1>1. d \in Int /\ k \in Nat /\ SECONDS_PER_DAY \in Nat /\ BETTING_DURATION_DAYS \in Nat
  BY CinefiConstants, WeightConstants
<1>2. closes \in Int
  BY <1>1
<1>3. k * SECONDS_PER_DAY \in Nat
  BY <1>1, MulNat
<1>4. /\ MarketTerms(d, r, set, t).betting_closes_at = closes
      /\ MarketTerms(d, r, set, t).settle_at = closes + k * SECONDS_PER_DAY
  BY DEF MarketTerms
<1> HIDE DEF closes, k
<1> QED
  BY <1>2, <1>3, <1>4

LEMMA LifeInit == Init => LifeInv
  BY WeightConstants DEF Init, LifeInv, LifeAt, EmptyReport

\* A market whose accounts a step leaves alone keeps its part of the invariant.
LEMMA LifeFrame ==
    ASSUME NEW m, LifeAt(m),
           m \in created' <=> m \in created, m \in closed' <=> m \in closed,
           m \in resolved' <=> m \in resolved, m \in reclaimed' <=> m \in reclaimed,
           m \in created => terms'[m] = terms[m],
           report'[m] = report[m], total_pool'[m] = total_pool[m], vault'[m] = vault[m]
    PROVE  LifeAt(m)'
  BY DEF LifeAt

LEMMA LifeNext == TypeOK /\ LifeInv /\ [Next]_vars => LifeInv'
<1> SUFFICES ASSUME TypeOK, LifeInv, [Next]_vars, NEW m \in Markets PROVE LifeAt(m)'
  BY DEF LifeInv
<1>0. LifeAt(m)
  BY DEF LifeInv
<1>1. CASE Tick \/ InitializeTreasury \/ UNCHANGED vars
  BY <1>0, <1>1, LifeFrame
     DEF Tick, InitializeTreasury, vars, lamports, flags, marketVars
<1>2. ASSUME NEW x \in Markets, NEW d \in StartDelays, NEW r \in Radii,
             NEW set \in OracleSets, NEW t \in Thresholds, CreateMarket(x, d, r, set, t)
      PROVE  LifeAt(m)'
  <2>1. CASE x # m
    BY <1>0, <1>2, <2>1, LifeFrame DEF CreateMarket, TypeOK
  <2>2. CASE x = m
    <3>1. m \notin created /\ m \notin closed /\ m \notin resolved /\ m \notin reclaimed
      BY <1>2, <2>2 DEF CreateMarket, TypeOK
    <3>2. /\ terms'[m] = MarketTerms(d, r, set, t) /\ report'[m] = EmptyReport
          /\ UNCHANGED << closed, resolved, reclaimed, total_pool >>
      BY <1>2, <2>2 DEF CreateMarket, TypeOK
    <3>3. terms'[m].betting_closes_at <= terms'[m].settle_at
      BY <3>2, SettlesAfterBetting DEF TypeOK
    <3> QED
      BY <1>0, <3>1, <3>2, <3>3 DEF LifeAt, EmptyReport
  <2> QED
    BY <2>1, <2>2
<1>3. ASSUME NEW x \in Markets, NEW u \in Users, NEW b \in BucketArgs,
             NEW amount \in Amounts, PlaceBet(x, u, b, amount)
      PROVE  LifeAt(m)'
  <2>1. CASE x # m
    BY <1>0, <1>3, <2>1, LifeFrame DEF PlaceBet, flags, TypeOK
  <2>2. CASE x = m
    <3>1. m \notin closed /\ m \notin resolved /\ total_pool[m] + amount <= MaxU64
      BY <1>3, <2>2 DEF PlaceBet, BetAllowed, BettingOpen
    <3>2. /\ UNCHANGED << flags, terms, report >>
          /\ total_pool'[m] = total_pool[m] + amount
      BY <1>3, <2>2 DEF PlaceBet, TypeOK
    <3> QED
      BY <1>0, <3>1, <3>2 DEF LifeAt, flags
  <2> QED
    BY <2>1, <2>2
<1>4. ASSUME NEW x \in Markets, CloseMarket(x) PROVE LifeAt(m)'
  BY <1>0, <1>4 DEF CloseMarket, LifeAt, lamports, marketVars
<1>5. ASSUME NEW x \in Markets, NEW s \in Signers, NEW score \in BucketArgs,
             SubmitScore(x, s, score)
      PROVE  LifeAt(m)'
  <2>1. CASE x # m
    BY <1>0, <1>5, <2>1, LifeFrame DEF SubmitScore, lamports, flags, marketVars, TypeOK
  <2>2. CASE x = m
    <3>1. m \in closed \ resolved /\ UNCHANGED << lamports, flags, marketVars >>
      BY <1>5, <2>2 DEF SubmitScore, ScoreAllowed
    <3>2. ~(report'[m].finalized /\ report'[m].disputed)
      BY <1>5, <2>2 DEF SubmitScore, EvaluateReport, TypeOK
    <3> QED
      BY <1>0, <3>1, <3>2 DEF LifeAt, lamports, flags, marketVars
  <2> QED
    BY <2>1, <2>2
<1>6. ASSUME NEW x \in Markets, ResolveMarket(x) PROVE LifeAt(m)'
  <2>1. CASE x # m
    BY <1>0, <1>6, <2>1, LifeFrame DEF ResolveMarket, TypeOK
  <2>2. CASE x = m
    <3>1. m \in closed \ resolved /\ report[m].finalized
      BY <1>6, <2>2 DEF ResolveMarket, ResolveAllowed, Resolvable
    <3> QED
      BY <1>0, <1>6, <2>2, <3>1 DEF ResolveMarket, LifeAt
  <2> QED
    BY <2>1, <2>2
<1>7. ASSUME NEW x \in Markets, NEW u \in Users, NEW b \in Buckets, ClaimReward(x, u, b)
      PROVE  LifeAt(m)'
  <2>1. CASE x # m
    BY <1>0, <1>7, <2>1, LifeFrame DEF ClaimReward, flags, marketVars, TypeOK
  <2>2. CASE x = m
    <3>1. m \notin reclaimed
      <4>1. vault[m] >= Payout(m, u, b) /\ Payout(m, u, b) > 0
        BY <1>7, <2>2 DEF ClaimReward, ClaimAllowed, VaultPays
      <4>2. vault[m] \in Nat /\ Payout(m, u, b) \in Nat
        BY DuePayoutType DEF TypeOK
      <4> QED
        BY <1>0, <4>1, <4>2 DEF LifeAt
    <3> QED
      BY <1>0, <1>7, <3>1 DEF ClaimReward, flags, marketVars, LifeAt
  <2> QED
    BY <2>1, <2>2
<1>8. ASSUME NEW x \in Markets, ReclaimPool(x) PROVE LifeAt(m)'
  <2>1. CASE x # m
    BY <1>0, <1>8, <2>1, LifeFrame DEF ReclaimPool, marketVars, TypeOK
  <2>2. CASE x = m
    BY <1>0, <1>8, <2>2 DEF ReclaimPool, ReclaimAllowed, Reclaimable, LifeAt, marketVars, TypeOK
  <2> QED
    BY <2>1, <2>2
<1> QED
  BY <1>1, <1>2, <1>3, <1>4, <1>5, <1>6, <1>7, <1>8 DEF Next

LEMMA LifeAlways == Spec => []LifeInv
<1>1. Init => TypeOK /\ LifeInv
  BY InitType, LifeInit
<1>2. TypeOK /\ LifeInv /\ [Next]_vars => (TypeOK /\ LifeInv)'
  BY NextType, LifeNext
<1> QED
  BY <1>1, <1>2, PTL DEF Spec
----------------------------------------------------------------------------
(* Bets and scores. *)

\* Only place_bet writes a created market's total_pool.
LEMMA OnlyBetsStake ==
    ASSUME TypeOK, [Next]_vars, NEW m \in created, total_pool'[m] # total_pool[m]
    PROVE  m \notin closed
<1>1. m \in Markets
  BY DEF TypeOK
<1>2. CASE UNCHANGED total_pool
  BY <1>2
<1>3. ASSUME NEW x \in Markets, NEW u \in Users, NEW b \in BucketArgs,
             NEW amount \in Amounts, PlaceBet(x, u, b, amount)
      PROVE  m \notin closed
  <2>1. CASE x # m
    BY <1>1, <1>3, <2>1 DEF PlaceBet, TypeOK
  <2>2. CASE x = m
    BY <1>3, <2>2 DEF PlaceBet, BetAllowed, BettingOpen
  <2> QED
    BY <2>1, <2>2
<1>4. CASE Tick \/ InitializeTreasury \/ UNCHANGED vars
  BY <1>2, <1>4 DEF Tick, InitializeTreasury, vars, marketVars
<1>5. ASSUME NEW x \in Markets,
             \/ \E d \in StartDelays, r \in Radii, set \in OracleSets, t \in Thresholds :
                    CreateMarket(x, d, r, set, t)
             \/ CloseMarket(x)
             \/ \E s \in Signers, score \in BucketArgs : SubmitScore(x, s, score)
             \/ ResolveMarket(x)
             \/ \E u \in Users, b \in Buckets : ClaimReward(x, u, b)
             \/ ReclaimPool(x)
      PROVE  m \notin closed
  BY <1>2, <1>5 DEF CreateMarket, CloseMarket, SubmitScore, ResolveMarket, ClaimReward,
                    ReclaimPool, marketVars
<1> QED
  BY <1>3, <1>4, <1>5 DEF Next

\* Once a score is submitted no stake is placed any more.
THEOREM NoLateBet == Spec => NoBetOnKnownScore
<1>1. TypeOK /\ LifeInv /\ [Next]_vars =>
        [ \A m \in created :
            report[m].submissions # << >> => total_pool'[m] = total_pool[m] ]_vars
  <2>1. SUFFICES ASSUME TypeOK, LifeInv, [Next]_vars, NEW m \in created,
                        report[m].submissions # << >>
                 PROVE  total_pool'[m] = total_pool[m]
    OBVIOUS
  <2>2. m \in closed
    BY <2>1 DEF LifeInv, LifeAt, TypeOK
  <2> QED
    BY <2>1, <2>2, OnlyBetsStake
<1> QED
  BY <1>1, TypeCorrect, LifeAlways, PTL DEF Spec, NoBetOnKnownScore
=============================================================================
