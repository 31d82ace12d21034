---------------------------- MODULE LedgerProofs ----------------------------
(***************************************************************************)
(* Theorems about the money of Cinefi: the pools are the sums of the       *)
(* positions, a settled outcome never moves, and a resolved market's vault *)
(* covers every payout that is still due.                                  *)
(***************************************************************************)
EXTENDS LifeProofs

\* The ledger: total_pool is always the sum of the buckets and zero before
\* creation; until resolution the buckets are the sums of the positions and
\* the vault holds them.  Unlike StakesAccounted it speaks of the markets that do
\* not exist yet, which is what create_market needs, and of the resolved ones.
LedgerInv ==
    /\ \A m \in Markets : total_pool[m] = SumFunction(pool[m])
    /\ \A m \in Markets \ created : total_pool[m] = 0
    /\ \A m \in Markets \ resolved, b \in Buckets :
           pool[m][b] = AmountOn(m, b) /\ weighted_pool[m][b] = WeightOn(m, b)
    /\ \A m \in created \ resolved : vault[m] = VaultRent + total_pool[m]

\* What settlement left behind.
SettledInv ==
    \A m \in resolved :
        /\ m \in closed
        /\ now >= terms[m].settle_at
        /\ report[m].finalized
        /\ outcome[m] = OutcomeFor(m, report[m].agreed_score)
----------------------------------------------------------------------------
\* A function that changes at one index changes its sum by as much.
LEMMA SumAt ==
    ASSUME NEW S, IsFiniteSet(S), NEW f \in [S -> Nat], NEW e \in [S -> Nat], NEW y \in S,
           \A x \in S \ {y} : e[x] = f[x]
    PROVE  /\ SumFunction(e) = SumFunction(f) - f[y] + e[y]
           /\ SumFunction(f) \in Nat
           /\ SumFunction(e) \in Nat
<1>1. DOMAIN f = S /\ DOMAIN e = S
  OBVIOUS
<1>2. \A x \in S : f[x] \in Nat /\ e[x] \in Nat
  OBVIOUS
<1> QED
  BY <1>1, <1>2, SumUpdate DEF SumFunction

\* Positions and their amounts are naturals.
LEMMA PositionType ==
    ASSUME TypeOK, NEW m \in Markets
    PROVE  \A p \in Positions : /\ position[m][p] \in Position
                                /\ position[m][p].amount \in Nat
                                /\ position[m][p].weighted_amount \in Nat
  BY DEF TypeOK, Position

LEMMA LedgerInit == Init => LedgerInv
<1> SUFFICES ASSUME Init PROVE LedgerInv
  OBVIOUS
<1>1. SumFunction(EmptyArray) = 0
  <2>1. DOMAIN EmptyArray = Buckets /\ \A b \in Buckets : EmptyArray[b] = 0
    BY DEF EmptyArray
  <2> QED
    BY <2>1, BucketsFinite, SumZero DEF SumFunction
<1>2. ASSUME NEW m \in Markets, NEW b \in Buckets
      PROVE  AmountOn(m, b) = 0 /\ WeightOn(m, b) = 0
  <2> DEFINE f == [ u \in Users |-> position[m][<<u, b>>].amount ]
             e == [ u \in Users |-> position[m][<<u, b>>].weighted_amount ]
  <2>1. \A u \in Users : f[u] = 0 /\ e[u] = 0
    BY DEF Init, Positions, NoPosition
  <2>2. DOMAIN f = Users /\ DOMAIN e = Users
    OBVIOUS
  <2> HIDE DEF f, e
  <2>3. SumFunction(f) = 0 /\ SumFunction(e) = 0
    BY <2>1, <2>2, CinefiConstants, SumZero DEF SumFunction
  <2> QED
    BY <2>3 DEF AmountOn, WeightOn, f, e
<1>3. \A m \in Markets : pool[m] = EmptyArray /\ weighted_pool[m] = EmptyArray
                         /\ total_pool[m] = 0
  BY DEF Init
<1>4. \A b \in Buckets : EmptyArray[b] = 0
  BY DEF EmptyArray
<1>5. created = {}
  BY DEF Init
<1> QED
  BY <1>1, <1>2, <1>3, <1>4, <1>5 DEF LedgerInv

\* place_bet adds the stake to the five places that record it.
LEMMA PlaceBetLedger ==
    ASSUME TypeOK, LedgerInv, NEW m \in Markets, NEW u \in Users, NEW b \in BucketArgs,
           NEW amount \in Amounts, PlaceBet(m, u, b, amount)
    PROVE  LedgerInv'
<1> DEFINE w == WeightedAmount(amount, DayIndex(now, terms[m].betting_starts_at))
           old == position[m][<<u, b>>]
           new == Staked(old, amount, w)
<1>1. amount \in Nat /\ b \in Buckets /\ m \in created \ resolved /\ <<u, b>> \in Positions
  BY CinefiConstants, BucketsFinite DEF PlaceBet, BetAllowed, BettingOpen, Positions
<1>2. w \in Nat
  BY <1>1, BetWeightType DEF PlaceBet, BetAllowed
<1>3. /\ vault' = [ vault EXCEPT ![m] = @ + amount ]
      /\ pool' = [ pool EXCEPT ![m][b] = @ + amount ]
      /\ weighted_pool' = [ weighted_pool EXCEPT ![m][b] = @ + w ]
      /\ total_pool' = [ total_pool EXCEPT ![m] = @ + amount ]
      /\ position' = [ position EXCEPT ![m][<<u, b>>] = new ]
      /\ created' = created /\ resolved' = resolved
  BY DEF PlaceBet, flags
<1>4. /\ new.amount = old.amount + amount
      /\ new.weighted_amount = old.weighted_amount + w
  BY DEF Staked
<1>5. TypeOK'
  BY PlaceBetType
<1> HIDE DEF w, new
<1>6. total_pool'[m] = SumFunction(pool'[m])
  <2>1. pool[m] \in [Buckets -> Nat] /\ pool'[m] \in [Buckets -> Nat] /\ total_pool[m] \in Nat
    BY <1>5 DEF TypeOK
  <2>2. /\ \A x \in Buckets \ {b} : pool'[m][x] = pool[m][x]
        /\ pool'[m][b] = pool[m][b] + amount
    BY <1>1, <1>3, <2>1 DEF TypeOK
  <2>3. SumFunction(pool'[m]) = SumFunction(pool[m]) - pool[m][b] + pool'[m][b]
    BY <1>1, <2>1, <2>2, BucketsFinite, SumAt
  <2>4. total_pool[m] = SumFunction(pool[m])
    BY DEF LedgerInv
  <2>5. total_pool'[m] = total_pool[m] + amount
    BY <1>3 DEF TypeOK
  <2>6. pool[m][b] \in Nat
    BY <1>1, <2>1
  <2> QED
    BY <1>1, <2>1, <2>2, <2>3, <2>4, <2>5, <2>6
<1>7. \A p \in Positions \ {<<u, b>>} : position'[m][p] = position[m][p]
  BY <1>3 DEF TypeOK
<1>8. position'[m][<<u, b>>] = new
  BY <1>1, <1>3 DEF TypeOK
<1>9. AmountOn(m, b)' = AmountOn(m, b) + amount /\ WeightOn(m, b)' = WeightOn(m, b) + w
  <2> DEFINE f  == [ x \in Users |-> position[m][<<x, b>>].amount ]
             fp == [ x \in Users |-> position'[m][<<x, b>>].amount ]
             e  == [ x \in Users |-> position[m][<<x, b>>].weighted_amount ]
             ep == [ x \in Users |-> position'[m][<<x, b>>].weighted_amount ]
  <2>1. \A x \in Users : <<x, b>> \in Positions /\ (x # u => <<x, b>> # <<u, b>>)
    BY <1>1 DEF Positions
  <2>2. \A p \in Positions : /\ position[m][p].amount \in Nat
                             /\ position[m][p].weighted_amount \in Nat
                             /\ position'[m][p].amount \in Nat
                             /\ position'[m][p].weighted_amount \in Nat
    BY <1>5, PositionType DEF TypeOK, Position
  <2>3. /\ f \in [Users -> Nat] /\ fp \in [Users -> Nat]
        /\ e \in [Users -> Nat] /\ ep \in [Users -> Nat]
    BY <2>1, <2>2
  <2>4. /\ \A x \in Users \ {u} : fp[x] = f[x] /\ ep[x] = e[x]
        /\ fp[u] = f[u] + amount /\ ep[u] = e[u] + w
    BY <1>4, <1>7, <1>8, <2>1
  <2>5. f[u] \in Nat /\ e[u] \in Nat
    BY <2>3
  <2>6. /\ AmountOn(m, b) = SumFunction(f) /\ AmountOn(m, b)' = SumFunction(fp)
        /\ WeightOn(m, b) = SumFunction(e) /\ WeightOn(m, b)' = SumFunction(ep)
    BY DEF AmountOn, WeightOn
  <2> HIDE DEF f, fp, e, ep
  <2>7. /\ SumFunction(fp) = SumFunction(f) - f[u] + fp[u]
        /\ SumFunction(f) \in Nat
    BY <2>3, <2>4, CinefiConstants, SumAt
  <2>8. /\ SumFunction(ep) = SumFunction(e) - e[u] + ep[u]
        /\ SumFunction(e) \in Nat
    BY <2>3, <2>4, CinefiConstants, SumAt
  <2> QED
    BY <1>1, <1>2, <2>4, <2>5, <2>6, <2>7, <2>8
<1>10. ASSUME NEW x \in Buckets, x # b
       PROVE  AmountOn(m, x)' = AmountOn(m, x) /\ WeightOn(m, x)' = WeightOn(m, x)
  <2>1. \A z \in Users : position'[m][<<z, x>>] = position[m][<<z, x>>]
    BY <1>7, <1>10 DEF Positions
  <2> QED
    BY <2>1 DEF AmountOn, WeightOn
<1>11. ASSUME NEW x \in Buckets
       PROVE  pool'[m][x] = AmountOn(m, x)' /\ weighted_pool'[m][x] = WeightOn(m, x)'
  <2>1. pool[m][x] = AmountOn(m, x) /\ weighted_pool[m][x] = WeightOn(m, x)
    BY <1>1 DEF LedgerInv
  <2>2. CASE x = b
    BY <1>1, <1>3, <1>9, <2>1, <2>2 DEF TypeOK
  <2>3. CASE x # b
    BY <1>3, <1>10, <2>1, <2>3 DEF TypeOK
  <2> QED
    BY <2>2, <2>3
<1>12. vault'[m] = VaultRent + total_pool'[m]
  <2>1. vault[m] = VaultRent + total_pool[m]
    BY <1>1 DEF LedgerInv
  <2>2. total_pool[m] \in Nat /\ VaultRent \in Nat
    BY CinefiConstants DEF TypeOK
  <2> QED
    BY <1>1, <1>3, <2>1, <2>2 DEF TypeOK
<1>13. ASSUME NEW x \in Markets, x # m
       PROVE  /\ pool'[x] = pool[x] /\ weighted_pool'[x] = weighted_pool[x]
              /\ total_pool'[x] = total_pool[x] /\ vault'[x] = vault[x]
              /\ \A y \in Buckets : AmountOn(x, y)' = AmountOn(x, y)
                                    /\ WeightOn(x, y)' = WeightOn(x, y)
  <2>1. /\ pool'[x] = pool[x] /\ weighted_pool'[x] = weighted_pool[x]
        /\ total_pool'[x] = total_pool[x] /\ vault'[x] = vault[x]
        /\ position'[x] = position[x]
    BY <1>3, <1>13 DEF TypeOK
  <2> QED
    BY <2>1 DEF AmountOn, WeightOn
<1>14. ASSUME NEW x \in Markets
       PROVE  /\ total_pool'[x] = SumFunction(pool'[x])
              /\ x \notin created => total_pool'[x] = 0
              /\ x \notin resolved => \A y \in Buckets : /\ pool'[x][y] = AmountOn(x, y)'
                                                         /\ weighted_pool'[x][y] = WeightOn(x, y)'
              /\ x \in created \ resolved => vault'[x] = VaultRent + total_pool'[x]
  <2>1. CASE x = m
    BY <1>1, <1>6, <1>11, <1>12, <2>1
  <2>2. CASE x # m
    BY <1>13, <2>2 DEF LedgerInv
  <2> QED
    BY <2>1, <2>2
<1>15. created \subseteq Markets
  BY DEF TypeOK
<1> QED
  BY <1>3, <1>14, <1>15 DEF LedgerInv

\* Steps that leave the pools alone keep the ledger, whatever they do to the vaults
\* and the positions of resolved markets.
LEMMA LedgerFrame ==
    ASSUME TypeOK, LedgerInv, UNCHANGED << pool, weighted_pool, total_pool >>,
           created \subseteq created', created' \subseteq Markets, resolved \subseteq resolved',
           \A x \in Markets \ resolved' : position'[x] = position[x],
           \A x \in created \ resolved' : vault'[x] = vault[x],
           \A x \in created' \ created : vault'[x] = VaultRent
    PROVE  LedgerInv'
<1>1. ASSUME NEW x \in Markets \ resolved', NEW b \in Buckets
      PROVE  pool'[x][b] = AmountOn(x, b)' /\ weighted_pool'[x][b] = WeightOn(x, b)'
  <2>1. pool[x][b] = AmountOn(x, b) /\ weighted_pool[x][b] = WeightOn(x, b)
    BY DEF LedgerInv
  <2>2. AmountOn(x, b)' = AmountOn(x, b) /\ WeightOn(x, b)' = WeightOn(x, b)
    BY DEF AmountOn, WeightOn
  <2> QED
    BY <2>1, <2>2
<1>2. ASSUME NEW x \in created' \ resolved' PROVE vault'[x] = VaultRent + total_pool'[x]
  <2>1. CASE x \in created
    BY <1>2, <2>1 DEF LedgerInv
  <2>2. CASE x \notin created
    <3>1. total_pool'[x] = 0 /\ vault'[x] = VaultRent
      BY <1>2, <2>2 DEF LedgerInv
    <3> QED
      BY <3>1, CinefiConstants
  <2> QED
    BY <2>1, <2>2
<1> QED
  BY <1>1, <1>2 DEF LedgerInv

LEMMA LedgerNext == TypeOK /\ LedgerInv /\ [Next]_vars => LedgerInv'
<1> SUFFICES ASSUME TypeOK, LedgerInv, [Next]_vars PROVE LedgerInv'
  OBVIOUS
<1>1. created \subseteq Markets /\ resolved \subseteq created
  BY DEF TypeOK
<1>2. CASE Tick \/ InitializeTreasury \/ UNCHANGED vars
  BY <1>1, <1>2, LedgerFrame DEF Tick, InitializeTreasury, vars, lamports, flags, marketVars
<1>3. ASSUME NEW m \in Markets, NEW d \in StartDelays, NEW r \in Radii,
             NEW set \in OracleSets, NEW t \in Thresholds, CreateMarket(m, d, r, set, t)
      PROVE  LedgerInv'
  <2>1. /\ UNCHANGED << pool, weighted_pool, total_pool, resolved, position >>
        /\ m \notin created /\ created' = created \cup {m}
        /\ vault' = [ vault EXCEPT ![m] = VaultRent ]
    BY <1>3 DEF CreateMarket
  <2>2. vault'[m] = VaultRent /\ \A x \in created : vault'[x] = vault[x]
    BY <1>1, <2>1 DEF TypeOK
  <2> QED
    BY <1>1, <2>1, <2>2, LedgerFrame
<1>4. ASSUME NEW m \in Markets, NEW u \in Users, NEW b \in BucketArgs,
             NEW amount \in Amounts, PlaceBet(m, u, b, amount)
      PROVE  LedgerInv'
  BY <1>4, PlaceBetLedger
<1>5. ASSUME NEW m \in Markets, CloseMarket(m) \/ \E s \in Signers, score \in BucketArgs :
                                                       SubmitScore(m, s, score)
      PROVE  LedgerInv'
  BY <1>1, <1>5, LedgerFrame DEF CloseMarket, SubmitScore, lamports, flags, marketVars
<1>6. ASSUME NEW m \in Markets, ResolveMarket(m) PROVE LedgerInv'
  <2>1. /\ UNCHANGED << pool, weighted_pool, total_pool, created, position >>
        /\ resolved' = resolved \cup {m}
        /\ \A x \in Markets \ {m} : vault'[x] = vault[x]
    BY <1>6 DEF ResolveMarket, TypeOK
  <2> QED
    BY <1>1, <2>1, LedgerFrame
<1>7. ASSUME NEW m \in Markets, ReclaimPool(m) PROVE LedgerInv'
  <2>1. /\ UNCHANGED << pool, weighted_pool, total_pool, created, resolved, position >>
        /\ m \in resolved
        /\ \A x \in Markets \ {m} : vault'[x] = vault[x]
    BY <1>7 DEF ReclaimPool, ReclaimAllowed, Reclaimable, marketVars, TypeOK
  <2> QED
    BY <1>1, <2>1, LedgerFrame
<1>8. ASSUME NEW m \in Markets, NEW u \in Users, NEW b \in Buckets, ClaimReward(m, u, b)
      PROVE  LedgerInv'
  <2>1. /\ UNCHANGED << pool, weighted_pool, total_pool, created, resolved >>
        /\ m \in resolved
        /\ \A x \in Markets \ {m} : vault'[x] = vault[x] /\ position'[x] = position[x]
    BY <1>8 DEF ClaimReward, ClaimAllowed, flags, marketVars, TypeOK
  <2> QED
    BY <1>1, <2>1, LedgerFrame
<1> QED
  BY <1>2, <1>3, <1>4, <1>5, <1>6, <1>7, <1>8 DEF Next

LEMMA LedgerImplies == TypeOK /\ LedgerInv => StakesAccounted
  BY DEF TypeOK, LedgerInv, StakesAccounted

\* For every sequence of bets by any users on any buckets, the three pools of an
\* unresolved market and its vault agree with the positions.
THEOREM StakesCorrect == Spec => []StakesAccounted
<1>1. Init => TypeOK /\ LedgerInv
  BY InitType, LedgerInit
<1>2. TypeOK /\ LedgerInv /\ [Next]_vars => (TypeOK /\ LedgerInv)'
  BY NextType, LedgerNext
<1> QED
  BY <1>1, <1>2, LedgerImplies, PTL DEF Spec
----------------------------------------------------------------------------
(* Settlement. *)

\* No step writes a resolved market's terms, pools, outcome or report, and none
\* reopens it.
LEMMA ResolvedFrozen ==
    ASSUME TypeOK, [Next]_vars, NEW m \in resolved
    PROVE  /\ m \in resolved' /\ closed \subseteq closed' /\ now' >= now
           /\ terms'[m] = terms[m] /\ outcome'[m] = outcome[m] /\ report'[m] = report[m]
           /\ pool'[m] = pool[m] /\ weighted_pool'[m] = weighted_pool[m]
           /\ total_pool'[m] = total_pool[m]
<1> DEFINE Goal == /\ m \in resolved' /\ closed \subseteq closed' /\ now' >= now
                   /\ terms'[m] = terms[m] /\ outcome'[m] = outcome[m]
                   /\ report'[m] = report[m]
                   /\ pool'[m] = pool[m] /\ weighted_pool'[m] = weighted_pool[m]
                   /\ total_pool'[m] = total_pool[m]
<1>0. now \in Nat /\ m \in created
  BY DEF TypeOK
<1>1. CASE Tick \/ InitializeTreasury \/ UNCHANGED vars
  BY <1>0, <1>1 DEF Tick, InitializeTreasury, vars, lamports, flags, marketVars
<1>2. ASSUME NEW x \in Markets, NEW d \in StartDelays, NEW r \in Radii,
             NEW set \in OracleSets, NEW t \in Thresholds, CreateMarket(x, d, r, set, t)
      PROVE  Goal
  BY <1>0, <1>2 DEF CreateMarket, TypeOK
<1>3. ASSUME NEW x \in Markets, NEW u \in Users, NEW b \in BucketArgs,
             NEW amount \in Amounts, PlaceBet(x, u, b, amount)
      PROVE  Goal
  <2>1. x # m
    BY <1>3 DEF PlaceBet, BetAllowed, BettingOpen
  <2> QED
    BY <1>0, <1>3, <2>1 DEF PlaceBet, flags, TypeOK
<1>4. ASSUME NEW x \in Markets, NEW s \in Signers, NEW score \in BucketArgs,
             SubmitScore(x, s, score)
      PROVE  Goal
  <2>1. x # m
    BY <1>4 DEF SubmitScore, ScoreAllowed
  <2> QED
    BY <1>0, <1>4, <2>1 DEF SubmitScore, flags, marketVars, TypeOK
<1>5. ASSUME NEW x \in Markets, CloseMarket(x) \/ ReclaimPool(x) PROVE Goal
  BY <1>0, <1>5 DEF CloseMarket, ReclaimPool, marketVars
<1>6. ASSUME NEW x \in Markets, ResolveMarket(x) PROVE Goal
  <2>1. x # m
    BY <1>6 DEF ResolveMarket, ResolveAllowed, Resolvable
  <2> QED
    BY <1>0, <1>6, <2>1 DEF ResolveMarket, TypeOK
<1>7. ASSUME NEW x \in Markets, NEW u \in Users, NEW b \in Buckets, ClaimReward(x, u, b)
      PROVE  Goal
  BY <1>0, <1>7 DEF ClaimReward, flags, marketVars
<1> QED
  BY <1>1, <1>2, <1>3, <1>4, <1>5, <1>6, <1>7 DEF Next

\* Only resolve_market settles a market.
LEMMA OnlyResolveSettles ==
    ASSUME TypeOK, [Next]_vars, NEW m \in resolved' \ resolved
    PROVE  m \in Markets /\ ResolveMarket(m)
<1>1. CASE UNCHANGED resolved
  BY <1>1
<1>2. ASSUME NEW x \in Markets, ResolveMarket(x) PROVE m \in Markets /\ ResolveMarket(m)
  BY <1>2 DEF ResolveMarket
<1>3. CASE Tick \/ InitializeTreasury \/ UNCHANGED vars
  BY <1>1, <1>3 DEF Tick, InitializeTreasury, vars, flags
<1>4. ASSUME NEW x \in Markets,
             \/ \E d \in StartDelays, r \in Radii, set \in OracleSets, t \in Thresholds :
                    CreateMarket(x, d, r, set, t)
             \/ \E u \in Users, b \in BucketArgs, amount \in Amounts : PlaceBet(x, u, b, amount)
             \/ CloseMarket(x)
             \/ \E s \in Signers, score \in BucketArgs : SubmitScore(x, s, score)
             \/ \E u \in Users, b \in Buckets : ClaimReward(x, u, b)
             \/ ReclaimPool(x)
      PROVE  m \in Markets /\ ResolveMarket(m)
  BY <1>1, <1>4 DEF CreateMarket, PlaceBet, CloseMarket, SubmitScore, ClaimReward,
                    ReclaimPool, flags
<1> QED
  BY <1>2, <1>3, <1>4 DEF Next

LEMMA SettledNext == TypeOK /\ SettledInv /\ [Next]_vars => SettledInv'
<1> SUFFICES ASSUME TypeOK, SettledInv, [Next]_vars, NEW m \in resolved'
             PROVE  /\ m \in closed'
                    /\ now' >= terms'[m].settle_at
                    /\ report'[m].finalized
                    /\ outcome'[m] = OutcomeFor(m, report[m].agreed_score)'
  BY DEF SettledInv
<1>1. CASE m \in resolved
  <2>1. /\ closed \subseteq closed' /\ now' >= now
        /\ terms'[m] = terms[m] /\ outcome'[m] = outcome[m] /\ report'[m] = report[m]
        /\ weighted_pool'[m] = weighted_pool[m] /\ total_pool'[m] = total_pool[m]
    BY <1>1, ResolvedFrozen
  <2>2. /\ m \in closed /\ now >= terms[m].settle_at /\ report[m].finalized
        /\ outcome[m] = OutcomeFor(m, report[m].agreed_score)
    BY <1>1 DEF SettledInv
  <2>3. OutcomeFor(m, report[m].agreed_score)' = OutcomeFor(m, report[m].agreed_score)
    BY <2>1 DEF OutcomeFor
  <2>4. now \in Int /\ now' \in Int /\ terms[m].settle_at \in Int
    <3>1. TypeOK'
      BY NextType
    <3>2. terms[m] \in Terms
      BY <1>1 DEF TypeOK
    <3> QED
      BY <3>1, <3>2 DEF TypeOK, Terms
  <2> QED
    BY <2>1, <2>2, <2>3, <2>4
<1>2. CASE m \notin resolved
  <2>1. m \in Markets /\ ResolveMarket(m)
    BY <1>2, OnlyResolveSettles
  <2>2. /\ m \in closed /\ report[m].finalized /\ now >= terms[m].settle_at
        /\ outcome'[m] = OutcomeFor(m, report[m].agreed_score)
        /\ UNCHANGED << now, closed, terms, weighted_pool, total_pool, report >>
    BY <2>1 DEF ResolveMarket, ResolveAllowed, Resolvable, TypeOK
  <2>3. OutcomeFor(m, report[m].agreed_score)' = OutcomeFor(m, report[m].agreed_score)
    BY <2>2 DEF OutcomeFor
  <2> QED
    BY <2>2, <2>3
<1> QED
  BY <1>1, <1>2

\* A resolved market's outcome is, for ever, the one its report and its pools give.
THEOREM SettlementCorrect == Spec => []SettlementStands
<1>1. Init => TypeOK /\ SettledInv
  BY InitType DEF Init, SettledInv
<1>2. TypeOK /\ SettledInv /\ [Next]_vars => (TypeOK /\ SettledInv)'
  BY NextType, SettledNext
<1>3. SettledInv => SettlementStands
  BY DEF SettledInv, SettlementStands
<1> QED
  BY <1>1, <1>2, <1>3, PTL DEF Spec
----------------------------------------------------------------------------
(* Solvency. *)

\* What is due on a position is a natural, and never more than its share of the
\* bucket's prize.
LEMMA DueType ==
    ASSUME TypeOK, NEW m \in Markets, NEW u \in Users, NEW b \in Buckets
    PROVE  /\ Due(m, <<u, b>>) \in Nat
           /\ Due(m, <<u, b>>) <= Payout(m, u, b)
<1>1. Payout(m, u, b) \in Nat
  BY DuePayoutType
<1> QED
  BY <1>1 DEF Due

\* All that is due on a market.
LEMMA DuesType ==
    ASSUME TypeOK, NEW m \in Markets
    PROVE  /\ [ p \in Positions |-> Due(m, p) ] \in [Positions -> Nat]
           /\ SumFunction([ p \in Positions |-> Due(m, p) ]) \in Nat
           /\ IsFiniteSet(Positions)
<1>1. IsFiniteSet(Positions)
  BY CinefiConstants, BucketsFinite, FS_Product DEF Positions
<1>2. \A p \in Positions : Due(m, p) \in Nat
  BY DueType DEF Positions
<1> DEFINE f == [ p \in Positions |-> Due(m, p) ]
<1>3. f \in [Positions -> Nat] /\ DOMAIN f = Positions /\ \A p \in Positions : f[p] \in Nat
  BY <1>2
<1> HIDE DEF f
<1>4. SumFunction(f) \in Nat
  BY <1>1, <1>3, SumNat DEF SumFunction
<1> QED
  BY <1>1, <1>3, <1>4 DEF f

\* When the outcome of a market is the one its pools give and the pools are the
\* sums of the positions, everything due fits in the prize pool: positions share
\* a bucket's prize, buckets share the prize pool, and both shares round down.
LEMMA DuesWithinPrizePool ==
    ASSUME TypeOK, NEW m \in Markets, NEW score \in Buckets,
           \A b \in Buckets : weighted_pool[m][b] = WeightOn(m, b),
           outcome[m] = OutcomeFor(m, score)
    PROVE  SumFunction([ p \in Positions |-> Due(m, p) ]) <= total_pool[m] - Fee(total_pool[m])
<1> DEFINE total == total_pool[m] - Fee(total_pool[m])
           arr   == weighted_pool[m]
           prize == outcome[m].bucket_prize
           w(b)  == [ u \in Users |-> position[m][<<u, b>>].weighted_amount ]
           due   == [ p \in Positions |-> Due(m, p) ]
           pay   == [ p \in Positions |-> Payout(m, p[1], p[2]) ]
           col   == [ b \in Buckets |->
                        SumFunctionOnSet([ u \in Users |-> pay[<<u, b>>] ], Users) ]
<1>1. total \in Nat /\ score \in Nat
  <2>1. total_pool[m] \in Nat
    BY DEF TypeOK
  <2>2. Fee(total_pool[m]) \in Nat /\ Fee(total_pool[m]) <= total_pool[m]
    BY <2>1, FeeType
  <2>3. score \in Nat
    BY WeightConstants DEF Buckets
  <2> QED
    BY <2>1, <2>2, <2>3
<1>2. arr \in [Buckets -> Nat] /\ prize \in [Buckets -> Nat]
  BY DEF TypeOK, Outcome
<1>3. prize = ComputeBucketPrizes(arr, score, terms[m].radius, total)
  BY DEF OutcomeFor
<1>4. IsFiniteSet(Users) /\ IsFiniteSet(Buckets) /\ IsFiniteSet(Positions)
  BY CinefiConstants, BucketsFinite, FS_Product DEF Positions
<1>5. \A p \in Positions : due[p] \in Nat /\ pay[p] \in Nat /\ due[p] <= pay[p]
  BY DueType, DuePayoutType DEF Positions
<1>6. \A u \in Users, b \in Buckets :
          pay[<<u, b>>] = CalcUserPayout(w(b)[u], b, prize, arr)
  BY DEF Positions, Payout
<1>7. ASSUME NEW b \in Buckets PROVE col[b] \in Nat /\ col[b] <= prize[b]
  <2> DEFINE row   == [ u \in Users |-> pay[<<u, b>>] ]
             share == [ u \in Users |-> CalcUserPayout(w(b)[u], b, prize, arr) ]
  <2>1. row = share
    BY <1>6
  <2>2. \A u \in Users : w(b)[u] \in Nat
    BY PositionType DEF Positions
  <2>3. SumFunctionOnSet(w(b), Users) = arr[b]
    BY DEF WeightOn, SumFunction
  <2>4. \A u \in Users : row[u] \in Nat
    BY <1>5 DEF Positions
  <2> HIDE DEF arr, prize, w, pay
  <2>5. SumFunctionOnSet(share, Users) <= prize[b]
    BY <1>2, <1>4, <2>2, <2>3, PayoutsWithinPrize
  <2>6. SumFunctionOnSet(row, Users) \in Nat
    BY <1>4, <2>4, SumNat
  <2> QED
    BY <2>1, <2>5, <2>6
<1>8. SumFunctionOnSet(prize, Buckets) <= total
  <2> HIDE DEF total, arr, prize
  <2> QED
    BY <1>1, <1>2, <1>3, PrizesWithinTotal
<1>9. SumFunctionOnSet(pay, Positions) = SumFunctionOnSet(col, Buckets)
  <2>1. \A p \in Users \X Buckets : pay[p] \in Nat
    BY <1>5 DEF Positions
  <2> HIDE DEF pay
  <2> QED
    BY <1>4, <2>1, SumPairs DEF Positions
<1> HIDE DEF total, arr, prize, due, pay, col
<1>10. SumFunctionOnSet(due, Positions) * 1 <= SumFunctionOnSet(pay, Positions) * 1
  <2>1. \A p \in Positions : pay[p] \in Nat /\ due[p] \in Nat /\ due[p] * 1 <= pay[p] * 1
    BY <1>5
  <2> QED
    BY <1>4, <2>1, SumScale
<1>11. SumFunctionOnSet(col, Buckets) * 1 <= SumFunctionOnSet(prize, Buckets) * 1
  <2>1. \A b \in Buckets : prize[b] \in Nat /\ col[b] \in Nat /\ col[b] * 1 <= prize[b] * 1
    BY <1>2, <1>7
  <2> QED
    BY <1>4, <2>1, SumScale
<1>12. /\ SumFunctionOnSet(due, Positions) \in Nat /\ SumFunctionOnSet(pay, Positions) \in Nat
       /\ SumFunctionOnSet(prize, Buckets) \in Nat
  BY <1>2, <1>4, <1>5, SumNat
<1>13. SumFunctionOnSet(due, Positions) <= total
  BY <1>1, <1>8, <1>9, <1>10, <1>11, <1>12
<1> QED
  BY <1>13 DEF SumFunction, due, total

\* DuesWithinPrizePool, to be read before or after a step.
DuesFit ==
    \A m \in Markets, score \in Buckets :
        (/\ \A b \in Buckets : weighted_pool[m][b] = WeightOn(m, b)
         /\ outcome[m] = OutcomeFor(m, score)) =>
            SumFunction([ p \in Positions |-> Due(m, p) ])
                <= total_pool[m] - Fee(total_pool[m])

LEMMA DuesFitAfter == TypeOK' => DuesFit'
<1>1. TypeOK => DuesFit
  BY DuesWithinPrizePool DEF DuesFit
<1> QED
  BY <1>1, PTL

\* DuesType, to be read before or after a step.
DuesNat == \A m \in Markets : SumFunction([ p \in Positions |-> Due(m, p) ]) \in Nat

LEMMA DuesNatAfter == TypeOK' => DuesNat'
<1>1. TypeOK => DuesNat
  BY DuesType DEF DuesNat
<1> QED
  BY <1>1, PTL

\* What is due on a position depends on the position and on the settled market.
LEMMA DueFrame ==
    ASSUME NEW m, NEW p \in Positions, position'[m][p] = position[m][p],
           terms'[m] = terms[m], outcome'[m] = outcome[m], pool'[m] = pool[m],
           weighted_pool'[m] = weighted_pool[m]
    PROVE  Due(m, p)' = Due(m, p)
<1>1. p = <<p[1], p[2]>>
  BY DEF Positions
<1>2. Payout(m, p[1], p[2])' = Payout(m, p[1], p[2])
  BY <1>1 DEF Payout
<1>3. Wins(m, p[2])' = Wins(m, p[2])
  BY DEF Wins
<1> QED
  BY <1>2, <1>3 DEF Due

\* A resolved market's vault and positions move only when it pays a winner or when
\* it is swept.
LEMMA OnlyClaimPays ==
    ASSUME TypeOK, [Next]_vars, NEW m \in resolved, ~ReclaimPool(m),
           ~UNCHANGED << vault[m], position[m] >>
    PROVE  \E u \in Users, b \in Buckets : ClaimReward(m, u, b)
<1>1. m \in created /\ m \in Markets
  BY DEF TypeOK
<1>2. CASE Tick \/ InitializeTreasury \/ UNCHANGED vars
  BY <1>2 DEF Tick, InitializeTreasury, vars, lamports
<1>3. ASSUME NEW x \in Markets, NEW d \in StartDelays, NEW r \in Radii,
             NEW set \in OracleSets, NEW t \in Thresholds, CreateMarket(x, d, r, set, t)
      PROVE  FALSE
  BY <1>1, <1>3 DEF CreateMarket, TypeOK
<1>4. ASSUME NEW x \in Markets, NEW u \in Users, NEW b \in BucketArgs,
             NEW amount \in Amounts, PlaceBet(x, u, b, amount)
      PROVE  FALSE
  <2>1. x # m
    BY <1>4 DEF PlaceBet, BetAllowed, BettingOpen
  <2> QED
    BY <1>1, <1>4, <2>1 DEF PlaceBet, TypeOK
<1>5. ASSUME NEW x \in Markets, CloseMarket(x) \/ \E s \in Signers, score \in BucketArgs :
                                                       SubmitScore(x, s, score)
      PROVE  FALSE
  BY <1>5 DEF CloseMarket, SubmitScore, lamports
<1>6. ASSUME NEW x \in Markets, ResolveMarket(x) PROVE FALSE
  <2>1. x # m
    BY <1>6 DEF ResolveMarket, ResolveAllowed, Resolvable
  <2> QED
    BY <1>1, <1>6, <2>1 DEF ResolveMarket, TypeOK
<1>7. ASSUME NEW x \in Markets, ReclaimPool(x) PROVE FALSE
  <2>1. x # m
    BY <1>7
  <2> QED
    BY <1>1, <1>7, <2>1 DEF ReclaimPool, TypeOK
<1>8. ASSUME NEW x \in Markets, NEW u \in Users, NEW b \in Buckets, ClaimReward(x, u, b)
      PROVE  \E v \in Users, c \in Buckets : ClaimReward(m, v, c)
  <2>1. CASE x # m
    BY <1>1, <1>8, <2>1 DEF ClaimReward, TypeOK
  <2> QED
    BY <1>8, <2>1
<1> QED
  BY <1>2, <1>3, <1>4, <1>5, <1>6, <1>7, <1>8 DEF Next

\* claim_reward takes from the vault what it takes from the dues.
LEMMA ClaimKeepsSolvent ==
    ASSUME TypeOK, Solvent, NEW m \in Markets, NEW u \in Users, NEW b \in Buckets,
           ClaimReward(m, u, b), m \notin reclaimed
    PROVE  vault'[m] >= VaultRent + SumFunction([ p \in Positions |-> Due(m, p) ])'
<1> DEFINE f    == [ p \in Positions |-> Due(m, p) ]
           e    == [ p \in Positions |-> Due(m, p)' ]
           paid == Payout(m, u, b)
           y    == <<u, b>>
<1>1. /\ m \in resolved /\ position[m][y].amount > 0 /\ Wins(m, b)
      /\ vault' = [ vault EXCEPT ![m] = @ - paid ]
      /\ position' = [ position EXCEPT ![m][y] = NoPosition ]
      /\ UNCHANGED << terms, outcome, pool, weighted_pool >>
  BY DEF ClaimReward, ClaimAllowed, marketVars
<1>2. TypeOK'
  BY ClaimType
<1>3. y \in Positions /\ y[1] = u /\ y[2] = b
  BY DEF Positions
<1>4. f[y] = paid
  BY <1>1, <1>3 DEF Due
<1>5. e[y] = 0
  <2>1. position'[m][y].amount = 0
    BY <1>1, <1>3 DEF TypeOK, NoPosition
  <2> QED
    BY <1>3, <2>1 DEF Due
<1>6. \A p \in Positions \ {y} : e[p] = f[p]
  <2>1. SUFFICES ASSUME NEW p \in Positions, p # y PROVE Due(m, p)' = Due(m, p)
    OBVIOUS
  <2>2. position'[m][p] = position[m][p]
    BY <1>1, <2>1 DEF TypeOK
  <2> QED
    BY <1>1, <2>2, DueFrame
<1>7. f \in [Positions -> Nat] /\ IsFiniteSet(Positions)
  BY DuesType
<1>8. e \in [Positions -> Nat]
  <2>1. \A p \in Positions : f[p] \in Nat
    BY <1>7
  <2> HIDE DEF f, y
  <2>2. \A p \in Positions : e[p] \in Nat
    BY <1>5, <1>6, <2>1
  <2> QED
    BY <2>2
<1>9. SumFunction([ p \in Positions |-> Due(m, p) ])' = SumFunction(e)
  OBVIOUS
<1>10. vault'[m] = vault[m] - paid /\ vault[m] \in Nat /\ VaultRent \in Nat
  BY <1>1, CinefiConstants DEF TypeOK
<1>11. vault[m] >= VaultRent + SumFunction(f)
  BY <1>1 DEF Solvent
<1> HIDE DEF e, f, paid, y
<1>12. SumFunction(e) = SumFunction(f) - f[y] + e[y] /\ SumFunction(f) \in Nat
  BY <1>3, <1>6, <1>7, <1>8, SumAt
<1>13. f[y] \in Nat
  BY <1>3, <1>7
<1>14. vault'[m] >= VaultRent + SumFunction(e)
  BY <1>4, <1>5, <1>10, <1>11, <1>12, <1>13
<1> QED
  BY <1>9, <1>14

\* resolve_market leaves the prize pool in the vault, and the dues fit in it.
LEMMA ResolveMakesSolvent ==
    ASSUME TypeOK, LedgerInv, NEW m \in Markets, ResolveMarket(m)
    PROVE  vault'[m] >= VaultRent + SumFunction([ p \in Positions |-> Due(m, p) ])'
<1> DEFINE total == total_pool[m]
           score == report[m].agreed_score
           dues  == SumFunction([ p \in Positions |-> Due(m, p) ])'
<1>1. /\ vault' = [ vault EXCEPT ![m] = @ - Fee(total) ]
      /\ outcome' = [ outcome EXCEPT ![m] = OutcomeFor(m, score) ]
      /\ m \in created \ resolved /\ m \in Markets
      /\ UNCHANGED << terms, total_pool, weighted_pool, position, report >>
  BY DEF ResolveMarket, ResolveAllowed, Resolvable, TypeOK
<1>2. TypeOK'
  BY ResolveType
<1>3. score \in Buckets
  BY DEF TypeOK, Report
<1>4. \A b \in Buckets : weighted_pool'[m][b] = WeightOn(m, b)'
  <2>1. \A b \in Buckets : weighted_pool[m][b] = WeightOn(m, b)
    BY <1>1 DEF LedgerInv
  <2>2. \A b \in Buckets : WeightOn(m, b)' = WeightOn(m, b)
    BY <1>1 DEF WeightOn
  <2> QED
    BY <1>1, <2>1, <2>2
<1>5. outcome'[m] = OutcomeFor(m, score)'
  <2>1. OutcomeFor(m, score)' = OutcomeFor(m, score)
    BY <1>1 DEF OutcomeFor
  <2> QED
    BY <1>1, <2>1 DEF TypeOK
<1>6. dues <= total - Fee(total)
  <2>1. DuesFit'
    BY <1>2, DuesFitAfter
  <2>2. report'[m].agreed_score = score /\ total_pool'[m] = total
    BY <1>1
  <2>3. dues <= total_pool'[m] - Fee(total_pool[m])'
    BY <1>3, <1>4, <1>5, <2>1, <2>2 DEF DuesFit
  <2>4. Fee(total_pool[m])' = Fee(total)
    BY <1>1
  <2> QED
    BY <2>2, <2>3, <2>4
<1>7. vault[m] = VaultRent + total /\ vault'[m] = vault[m] - Fee(total)
  BY <1>1 DEF LedgerInv, TypeOK
<1>8. total \in Nat /\ Fee(total) \in Nat /\ VaultRent \in Nat /\ dues \in Nat
  <2>1. total \in Nat /\ VaultRent \in Nat
    BY CinefiConstants DEF TypeOK
  <2>2. Fee(total) \in Nat
    BY <2>1, FeeType
  <2>3. dues \in Nat
    BY <1>2, DuesNatAfter DEF DuesNat
  <2> QED
    BY <2>1, <2>2, <2>3
<1> HIDE DEF total, dues
<1>9. vault'[m] >= VaultRent + dues
  BY <1>6, <1>7, <1>8
<1> QED
  BY <1>9 DEF dues

LEMMA SolventNext == TypeOK /\ LedgerInv /\ Solvent /\ [Next]_vars => Solvent'
<1> SUFFICES ASSUME TypeOK, LedgerInv, Solvent, [Next]_vars, NEW m \in (resolved \ reclaimed)'
             PROVE  vault'[m] >= VaultRent + SumFunction([ p \in Positions |-> Due(m, p) ])'
  BY DEF Solvent
<1>1. reclaimed \subseteq reclaimed'
  <2>1. CASE Tick \/ InitializeTreasury \/ UNCHANGED vars
    BY <2>1 DEF Tick, InitializeTreasury, flags, vars
  <2>2. ASSUME NEW x \in Markets,
               \/ \E d \in StartDelays, r \in Radii, set \in OracleSets, t \in Thresholds :
                      CreateMarket(x, d, r, set, t)
               \/ \E u \in Users, b \in BucketArgs, amount \in Amounts : PlaceBet(x, u, b, amount)
               \/ CloseMarket(x)
               \/ \E s \in Signers, score \in BucketArgs : SubmitScore(x, s, score)
               \/ ResolveMarket(x)
               \/ \E u \in Users, b \in Buckets : ClaimReward(x, u, b)
        PROVE  reclaimed \subseteq reclaimed'
    BY <2>2 DEF CreateMarket, PlaceBet, CloseMarket, SubmitScore, ResolveMarket,
                ClaimReward, flags
  <2>3. ASSUME NEW x \in Markets, ReclaimPool(x) PROVE reclaimed \subseteq reclaimed'
    BY <2>3 DEF ReclaimPool
  <2> QED
    BY <2>1, <2>2, <2>3 DEF Next
<1>2. CASE m \notin resolved
  BY <1>2, OnlyResolveSettles, ResolveMakesSolvent
<1>3. CASE m \in resolved /\ UNCHANGED << vault[m], position[m] >>
  <2>1. /\ terms'[m] = terms[m] /\ outcome'[m] = outcome[m]
        /\ pool'[m] = pool[m] /\ weighted_pool'[m] = weighted_pool[m]
    BY <1>3, ResolvedFrozen
  <2>2. \A p \in Positions : Due(m, p)' = Due(m, p)
    BY <1>3, <2>1, DueFrame
  <2>3. SumFunction([ p \in Positions |-> Due(m, p) ])'
          = SumFunction([ p \in Positions |-> Due(m, p) ])
    BY <2>2
  <2>4. vault[m] >= VaultRent + SumFunction([ p \in Positions |-> Due(m, p) ])
    BY <1>1, <1>3 DEF Solvent
  <2> QED
    BY <1>3, <2>3, <2>4
<1>4. CASE m \in resolved /\ ~UNCHANGED << vault[m], position[m] >>
  <2>1. PICK u \in Users, b \in Buckets : ClaimReward(m, u, b)
    BY <1>4, OnlyClaimPays DEF ReclaimPool
  <2>2. m \in Markets /\ m \notin reclaimed
    BY <1>1, <1>4 DEF TypeOK
  <2> QED
    BY <2>1, <2>2, ClaimKeepsSolvent
<1> QED
  BY <1>2, <1>3, <1>4

\* For any users, bets, outcome and constants, and in whatever order the winners
\* claim, the vault of a resolved market covers every payout that is still due.
THEOREM SolventAlways == Spec => []Solvent
<1>1. Init => TypeOK /\ LedgerInv /\ Solvent
  BY InitType, LedgerInit DEF Init, Solvent
<1>2. TypeOK /\ LedgerInv /\ Solvent /\ [Next]_vars => (TypeOK /\ LedgerInv /\ Solvent)'
  BY NextType, LedgerNext, SolventNext
<1> QED
  BY <1>1, <1>2, PTL DEF Spec
----------------------------------------------------------------------------
(* Who is paid. *)

\* A claim pays the owner of the position what is due on it, and ends the position.
LEMMA ClaimPaysOwner ==
    ASSUME TypeOK, NEW m \in Markets, NEW u \in Users, NEW b \in Buckets, ClaimReward(m, u, b)
    PROVE  \E p \in Positions :
               /\ Due(m, p) = vault[m] - vault'[m]
               /\ wallet'[p[1]] = wallet[p[1]] + Due(m, p)
               /\ position'[m][p] = NoPosition
               /\ treasury' = treasury
<1> DEFINE y == <<u, b>>
           paid == Payout(m, u, b)
<1>1. y \in Positions /\ y[1] = u /\ y[2] = b
  BY DEF Positions
<1>2. Due(m, y) = paid
  BY <1>1 DEF ClaimReward, ClaimAllowed, Due
<1>3. vault[m] \in Nat /\ paid \in Nat
  BY DuePayoutType DEF TypeOK
<1>4. vault'[m] = vault[m] - paid /\ wallet'[u] = wallet[u] + paid
  BY DEF ClaimReward, TypeOK
<1>5. position'[m][y] = NoPosition /\ treasury' = treasury
  BY <1>1 DEF ClaimReward, TypeOK
<1> HIDE DEF y, paid
<1>6. Due(m, y) = vault[m] - vault'[m]
  BY <1>2, <1>3, <1>4
<1> QED
  BY <1>1, <1>2, <1>4, <1>5, <1>6

\* Before the deadline the vault of a resolved market pays nobody but winners.
THEOREM OnlyWinnersPaid == Spec => VaultPaysOnlyWinners
<1>1. TypeOK /\ [Next]_vars =>
        [ \A m \in resolved :
            (vault'[m] # vault[m] /\ now < terms[m].claim_deadline) =>
                \E p \in Positions :
                    /\ Due(m, p) = vault[m] - vault'[m]
                    /\ wallet'[p[1]] = wallet[p[1]] + Due(m, p)
                    /\ position'[m][p] = NoPosition
                    /\ treasury' = treasury ]_vars
  <2>1. SUFFICES ASSUME TypeOK, [Next]_vars, NEW m \in resolved,
                        vault'[m] # vault[m], now < terms[m].claim_deadline
                 PROVE  \E p \in Positions :
                            /\ Due(m, p) = vault[m] - vault'[m]
                            /\ wallet'[p[1]] = wallet[p[1]] + Due(m, p)
                            /\ position'[m][p] = NoPosition
                            /\ treasury' = treasury
    OBVIOUS
  <2>2. m \in Markets /\ now \in Int /\ terms[m].claim_deadline \in Int
    BY <2>1 DEF TypeOK, Terms
  <2>3. ~ReclaimPool(m)
    BY <2>1, <2>2 DEF ReclaimPool, ReclaimAllowed, Reclaimable
  <2>4. PICK u \in Users, b \in Buckets : ClaimReward(m, u, b)
    BY <2>1, <2>3, OnlyClaimPays
  <2> QED
    BY <2>1, <2>2, <2>4, ClaimPaysOwner
<1> QED
  BY <1>1, TypeCorrect, PTL DEF Spec, VaultPaysOnlyWinners
----------------------------------------------------------------------------
(* The two searches for the winners agree: compute_bucket_prizes looks at
   weighted_pool, is_winner at pool. *)

\* A bucket has weight only if somebody staked on it; the converse is false, since
\* weights are rounded down.
WeightIsStaked ==
    \A m \in Markets : \A b \in Buckets : weighted_pool[m][b] > 0 => pool[m][b] > 0

LEMMA StakedInit == Init => WeightIsStaked
  BY DEF Init, WeightIsStaked, EmptyArray

\* Only a bet adds weight, and it adds a positive stake to the same bucket.
LEMMA StakedNext == TypeOK /\ WeightIsStaked /\ [Next]_vars => WeightIsStaked'
<1> SUFFICES ASSUME TypeOK, WeightIsStaked, [Next]_vars PROVE WeightIsStaked'
  OBVIOUS
<1>1. CASE UNCHANGED << pool, weighted_pool >>
  BY <1>1 DEF WeightIsStaked
<1>2. ASSUME NEW x \in Markets, NEW u \in Users, NEW y \in BucketArgs,
             NEW amount \in Amounts, PlaceBet(x, u, y, amount)
      PROVE  WeightIsStaked'
  <2> SUFFICES ASSUME NEW m \in Markets, NEW b \in Buckets, weighted_pool'[m][b] > 0
               PROVE  pool'[m][b] > 0
    BY DEF WeightIsStaked
  <2>1. amount \in Nat /\ amount > 0 /\ y \in Buckets /\ pool[m][b] \in Nat
    BY <1>2, CinefiConstants, BucketsFinite DEF PlaceBet, BetAllowed, TypeOK
  <2>2. /\ pool' = [ pool EXCEPT ![x][y] = @ + amount ]
        /\ \E w : weighted_pool' = [ weighted_pool EXCEPT ![x][y] = @ + w ]
    BY <1>2 DEF PlaceBet
  <2>3. CASE m = x /\ b = y
    BY <2>1, <2>2, <2>3 DEF TypeOK
  <2>4. CASE ~(m = x /\ b = y)
    <3>1. pool'[m][b] = pool[m][b] /\ weighted_pool'[m][b] = weighted_pool[m][b]
      BY <2>2, <2>4 DEF TypeOK
    <3> QED
      BY <3>1 DEF WeightIsStaked
  <2> QED
    BY <2>3, <2>4
<1>3. CASE Tick \/ InitializeTreasury \/ UNCHANGED vars
  BY <1>1, <1>3 DEF Tick, InitializeTreasury, vars, marketVars
<1>4. ASSUME NEW x \in Markets,
             \/ \E d \in StartDelays, r \in Radii, set \in OracleSets, t \in Thresholds :
                    CreateMarket(x, d, r, set, t)
             \/ CloseMarket(x)
             \/ \E s \in Signers, score \in BucketArgs : SubmitScore(x, s, score)
             \/ ResolveMarket(x)
             \/ \E u \in Users, b \in Buckets : ClaimReward(x, u, b)
             \/ ReclaimPool(x)
      PROVE  WeightIsStaked'
  BY <1>1, <1>4 DEF CreateMarket, CloseMarket, SubmitScore, ResolveMarket, ClaimReward,
                    ReclaimPool, marketVars
<1> QED
  BY <1>2, <1>3, <1>4 DEF Next

\* Arrays with the same non-empty buckets have the same nearest buckets.
LEMMA SameNearest ==
    ASSUME NEW p, NEW w, NEW o, \A b \in Playable : p[b] > 0 <=> w[b] > 0
    PROVE  Nearest(p, o) = Nearest(w, o)
  BY DEF Nearest

\* A bucket that gets a prize is one of those that win.
LEMMA PrizeIsWon ==
    ASSUME NEW w, NEW o, NEW r, NEW total, NEW b \in Buckets,
           ComputeBucketPrizes(w, o, r, total)[b] > 0
    PROVE  b \in WinningBuckets(w, o, r)
<1>1. CASE b \notin WinningBuckets(w, o, r)
  <2>1. ComputeBucketPrizes(w, o, r, total)[b] = 0
    BY <1>1 DEF ComputeBucketPrizes
  <2> QED
    BY <2>1
<1> QED
  BY <1>1

LEMMA SearchesAgree ==
    ASSUME NEW m, NEW score, outcome[m] = OutcomeFor(m, score), NEW b \in Playable,
           \A x \in Playable : pool[m][x] > 0 <=> weighted_pool[m][x] > 0
    PROVE  /\ outcome[m].bucket_prize[b] > 0 => Wins(m, b)
           /\ pool[m][b] > 0 =>
                 (Wins(m, b) <=>
                     b \in WinningBuckets(weighted_pool[m], outcome[m].final_outcome,
                                          terms[m].radius))
<1> DEFINE w == weighted_pool[m]
           r == terms[m].radius
<1>1. /\ outcome[m].final_outcome = score
      /\ outcome[m].fallback_used = FallbackUsed(w, score, r)
      /\ \E total : outcome[m].bucket_prize = ComputeBucketPrizes(w, score, r, total)
  BY DEF OutcomeFor
<1>2. outcome[m].bucket_prize[b] > 0 => b \in WinningBuckets(w, score, r)
  BY <1>1, PrizeIsWon, BucketsFinite
<1>3. CASE FallbackUsed(w, score, r)
  <2>1. Wins(m, b) <=> b \in Nearest(pool[m], score)
    BY <1>1, <1>3 DEF Wins, IsWinner
  <2>2. Nearest(pool[m], score) = WinningBuckets(w, score, r)
    BY <1>3, SameNearest DEF WinningBuckets
  <2> QED
    BY <1>1, <1>2, <2>1, <2>2
<1>4. CASE ~FallbackUsed(w, score, r)
  <2>1. Wins(m, b) <=> Distance(b, score) <= r
    BY <1>1, <1>4 DEF Wins, IsWinner
  <2>2. b \in WinningBuckets(w, score, r) <=> Distance(b, score) <= r /\ w[b] > 0
    BY <1>4 DEF WinningBuckets, WithinRadius
  <2> QED
    BY <1>1, <1>2, <2>1, <2>2
<1> QED
  BY <1>3, <1>4

\* Where every staked bucket has weight, the bettors of a bucket with a prize are
\* taken for winners, and those of a staked bucket exactly if it won.
THEOREM WinnersAgree == Spec => []PrizesReachWinners
<1>1. Init => TypeOK /\ WeightIsStaked
  BY InitType, StakedInit
<1>2. TypeOK /\ WeightIsStaked /\ [Next]_vars => (TypeOK /\ WeightIsStaked)'
  BY NextType, StakedNext
<1>3. TypeOK /\ WeightIsStaked /\ SettlementStands => PrizesReachWinners
  <2> SUFFICES ASSUME TypeOK, WeightIsStaked, SettlementStands, NEW m \in resolved,
                      \A b \in Buckets : pool[m][b] > 0 => weighted_pool[m][b] > 0,
                      NEW b \in Playable
               PROVE  /\ outcome[m].bucket_prize[b] > 0 => Wins(m, b)
                      /\ pool[m][b] > 0 =>
                            (Wins(m, b) <=>
                                b \in WinningBuckets(weighted_pool[m],
                                          outcome[m].final_outcome, terms[m].radius))
    BY DEF PrizesReachWinners
  <2>1. m \in Markets
    BY DEF TypeOK
  <2>2. \A x \in Playable : pool[m][x] > 0 <=> weighted_pool[m][x] > 0
    BY <2>1, BucketsFinite DEF WeightIsStaked
  <2>3. outcome[m] = OutcomeFor(m, report[m].agreed_score)
    BY DEF SettlementStands
  <2> QED
    BY <2>2, <2>3, SearchesAgree
<1> QED
  BY <1>1, <1>2, <1>3, SettlementCorrect, PTL DEF Spec
----------------------------------------------------------------------------
(* What the program never takes back. *)

\* Markets stay, pools grow, and a position is emptied only by its claim, for good.
ProgramKeeps ==
    /\ created \subseteq created' /\ resolved \subseteq resolved'
    /\ \A x \in Markets : \A b \in Buckets :
          pool'[x][b] >= pool[x][b] /\ weighted_pool'[x][b] >= weighted_pool[x][b]
    /\ \A x \in Markets : \A q \in Positions :
          /\ position[x][q].amount > 0 => position'[x][q].amount > 0 \/ x \in resolved
          /\ (x \in resolved /\ position[x][q].amount = 0) => position'[x][q].amount = 0

\* What place_bet does to the pools and the positions.
LEMMA BetEffect ==
    ASSUME TypeOK, NEW m \in Markets, NEW u \in Users, NEW y \in BucketArgs,
           NEW amount \in Amounts, PlaceBet(m, u, y, amount)
    PROVE  /\ y \in Buckets /\ <<u, y>> \in Positions /\ amount \in Nat \ {0}
           /\ m \notin resolved /\ created' = created /\ resolved' = resolved
           /\ \E w \in Nat : /\ pool' = [ pool EXCEPT ![m][y] = @ + amount ]
                             /\ weighted_pool' = [ weighted_pool EXCEPT ![m][y] = @ + w ]
                             /\ position' = [ position EXCEPT ![m][<<u, y>>] =
                                    [ amount |-> @.amount + amount,
                                      weighted_amount |-> @.weighted_amount + w ] ]
<1>1. amount \in Nat \ {0} /\ y \in Buckets
  BY CinefiConstants, BucketsFinite DEF PlaceBet, BetAllowed
<1>2. BettingOpen(m) /\ m \notin resolved /\ created' = created /\ resolved' = resolved
  BY DEF PlaceBet, BetAllowed, BettingOpen, flags
<1> DEFINE w == WeightedAmount(amount, DayIndex(now, terms[m].betting_starts_at))
<1>3. w \in Nat
  BY <1>1, <1>2, BetWeightType
<1>4. /\ pool' = [ pool EXCEPT ![m][y] = @ + amount ]
      /\ weighted_pool' = [ weighted_pool EXCEPT ![m][y] = @ + w ]
      /\ position' = [ position EXCEPT ![m][<<u, y>>] =
                           [ amount |-> @.amount + amount,
                             weighted_amount |-> @.weighted_amount + w ] ]
  BY DEF PlaceBet, Staked
<1> HIDE DEF w
<1> QED
  BY <1>1, <1>2, <1>3, <1>4 DEF Positions

\* The steps that are neither a bet nor a claim leave pools and positions alone.
LEMMA OtherSteps ==
    ASSUME TypeOK, [Next]_vars
    PROVE  \/ \E m \in Markets, u \in Users, y \in BucketArgs, amount \in Amounts :
                  PlaceBet(m, u, y, amount)
           \/ \E m \in Markets, u \in Users, y \in Buckets : ClaimReward(m, u, y)
           \/ /\ UNCHANGED << pool, weighted_pool, position >>
              /\ created \subseteq created' /\ resolved \subseteq resolved'
<1>1. CASE Tick \/ InitializeTreasury \/ UNCHANGED vars
  BY <1>1 DEF Tick, InitializeTreasury, vars, flags, marketVars
<1>2. ASSUME NEW m \in Markets,
             \/ \E d \in StartDelays, r \in Radii, set \in OracleSets, t \in Thresholds :
                    CreateMarket(m, d, r, set, t)
             \/ CloseMarket(m)
             \/ \E s \in Signers, score \in BucketArgs : SubmitScore(m, s, score)
             \/ ResolveMarket(m)
             \/ ReclaimPool(m)
      PROVE  /\ UNCHANGED << pool, weighted_pool, position >>
             /\ created \subseteq created' /\ resolved \subseteq resolved'
  BY <1>2 DEF CreateMarket, CloseMarket, SubmitScore, ResolveMarket, ReclaimPool,
              flags, marketVars
<1> QED
  BY <1>1, <1>2 DEF Next

LEMMA ProgramKept == TypeOK /\ [Next]_vars => ProgramKeeps
<1> SUFFICES ASSUME TypeOK, [Next]_vars PROVE ProgramKeeps
  OBVIOUS
<1>0. /\ \A x \in Markets : \A b \in Buckets :
            pool[x][b] \in Nat /\ weighted_pool[x][b] \in Nat
      /\ pool \in [Markets -> [Buckets -> Nat]]
      /\ weighted_pool \in [Markets -> [Buckets -> Nat]]
      /\ position \in [Markets -> [Positions -> Position]]
      /\ \A x \in Markets : \A q \in Positions : position[x][q].amount \in Nat
  BY DEF TypeOK, Position
<1>1. CASE /\ UNCHANGED << pool, weighted_pool, position >>
           /\ created \subseteq created' /\ resolved \subseteq resolved'
  BY <1>0, <1>1 DEF ProgramKeeps
<1>2. ASSUME NEW m \in Markets, NEW u \in Users, NEW y \in BucketArgs,
             NEW amount \in Amounts, PlaceBet(m, u, y, amount)
      PROVE  ProgramKeeps
  <2>1. PICK w \in Nat : /\ pool' = [ pool EXCEPT ![m][y] = @ + amount ]
                         /\ weighted_pool' = [ weighted_pool EXCEPT ![m][y] = @ + w ]
                         /\ position' = [ position EXCEPT ![m][<<u, y>>] =
                                    [ amount |-> @.amount + amount,
                                      weighted_amount |-> @.weighted_amount + w ] ]
    BY <1>2, BetEffect
  <2>2. /\ y \in Buckets /\ <<u, y>> \in Positions /\ amount \in Nat \ {0}
        /\ m \notin resolved /\ created' = created /\ resolved' = resolved
    BY <1>2, BetEffect
  <2>3. \A x \in Markets : \A b \in Buckets :
            pool'[x][b] >= pool[x][b] /\ weighted_pool'[x][b] >= weighted_pool[x][b]
    BY <1>0, <2>1, <2>2
  <2>4. ASSUME NEW x \in Markets, NEW q \in Positions
        PROVE  \/ position'[x][q] = position[x][q]
               \/ x = m /\ position'[x][q].amount > 0
    <3>1. CASE x = m /\ q = <<u, y>>
      <4>1. position'[x][q].amount = position[x][q].amount + amount
        BY <1>0, <2>1, <3>1
      <4> QED
        BY <1>0, <2>2, <3>1, <4>1
    <3>2. CASE ~(x = m /\ q = <<u, y>>)
      BY <1>0, <2>1, <3>2
    <3> QED
      BY <3>1, <3>2
  <2> QED
    BY <2>2, <2>3, <2>4 DEF ProgramKeeps
<1>3. ASSUME NEW m \in Markets, NEW u \in Users, NEW y \in Buckets, ClaimReward(m, u, y)
      PROVE  ProgramKeeps
  <2>1. /\ position' = [ position EXCEPT ![m][<<u, y>>] = NoPosition ]
        /\ m \in resolved /\ UNCHANGED << created, resolved, pool, weighted_pool >>
    BY <1>3 DEF ClaimReward, ClaimAllowed, flags, marketVars
  <2>2. ASSUME NEW x \in Markets, NEW q \in Positions
        PROVE  \/ position'[x][q] = position[x][q]
               \/ x = m /\ position'[x][q].amount = 0
    BY <1>0, <2>1 DEF NoPosition
  <2> QED
    BY <1>0, <2>1, <2>2 DEF ProgramKeeps
<1> QED
  BY <1>1, <1>2, <1>3, OtherSteps
----------------------------------------------------------------------------
(* Nothing stands in the way of a payout or of a resolution.

   The rent rules are what could: a transfer must leave the vault rent-exempt and
   make the treasury so.  UnhinderedInv is what Solvent and the ledger do not say:
   an initialized treasury stays above its rent, and no sweep comes before the
   deadline. *)

UnhinderedInv ==
    /\ treasury_open => treasury >= TreasuryRent
    /\ \A m \in reclaimed : now >= terms[m].claim_deadline

LEMMA UnhinderedNext == TypeOK /\ LifeInv /\ UnhinderedInv /\ [Next]_vars => UnhinderedInv'
<1> SUFFICES ASSUME TypeOK, LifeInv, UnhinderedInv, [Next]_vars PROVE UnhinderedInv'
  OBVIOUS
<1>0. /\ now \in Nat /\ treasury \in Nat /\ TreasuryRent \in Nat
      /\ reclaimed \subseteq created /\ created \subseteq Markets
      /\ \A m \in created : terms[m].claim_deadline \in Int /\ vault[m] \in Nat
      /\ \A m \in Markets : Fee(total_pool[m]) \in Nat
  <2>1. \A m \in Markets : Fee(total_pool[m]) \in Nat
    BY FeeType DEF TypeOK
  <2> QED
    BY <2>1, CinefiConstants DEF TypeOK, Terms
<1>1. CASE Tick
  BY <1>0, <1>1 DEF Tick, UnhinderedInv, lamports, flags, marketVars
<1>2. CASE InitializeTreasury
  BY <1>0, <1>2 DEF InitializeTreasury, UnhinderedInv, flags, marketVars
<1>3. ASSUME NEW m \in Markets, NEW d \in StartDelays, NEW r \in Radii, NEW set \in OracleSets,
             NEW t \in Thresholds, CreateMarket(m, d, r, set, t)
      PROVE  UnhinderedInv'
  <2>1. /\ m \notin created /\ created' = created \cup {m}
        /\ UNCHANGED << now, treasury_open, treasury, reclaimed >>
    BY <1>3 DEF CreateMarket
  <2>2. \A x \in reclaimed : terms'[x] = terms[x]
    BY <1>0, <1>3, <2>1 DEF CreateMarket
  <2> QED
    BY <2>1, <2>2 DEF UnhinderedInv
<1>4. ASSUME NEW m \in Markets,
             \/ \E u \in Users, b \in BucketArgs, amount \in Amounts : PlaceBet(m, u, b, amount)
             \/ CloseMarket(m)
             \/ \E s \in Signers, score \in BucketArgs : SubmitScore(m, s, score)
             \/ \E u \in Users, b \in Buckets : ClaimReward(m, u, b)
      PROVE  UnhinderedInv'
  <2>1. UNCHANGED << now, treasury_open, treasury, reclaimed, terms >>
    BY <1>4 DEF PlaceBet, CloseMarket, SubmitScore, ClaimReward, flags, marketVars, lamports
  <2> QED
    BY <2>1 DEF UnhinderedInv
<1>5. ASSUME NEW m \in Markets, ResolveMarket(m) PROVE UnhinderedInv'
  <2>1. /\ treasury' = treasury + Fee(total_pool[m])
        /\ UNCHANGED << now, treasury_open, reclaimed, terms >>
    BY <1>5 DEF ResolveMarket
  <2> QED
    BY <1>0, <2>1 DEF UnhinderedInv
<1>6. ASSUME NEW m \in Markets, ReclaimPool(m) PROVE UnhinderedInv'
  <2>1. /\ treasury' = treasury + vault[m] /\ reclaimed' = reclaimed \cup {m}
        /\ now >= terms[m].claim_deadline /\ m \in created
        /\ UNCHANGED << now, treasury_open, terms >>
    BY <1>6 DEF ReclaimPool, ReclaimAllowed, Reclaimable, marketVars, TypeOK
  <2> QED
    BY <1>0, <2>1 DEF UnhinderedInv
<1>7. CASE UNCHANGED vars
  BY <1>7 DEF vars, UnhinderedInv
<1> QED
  BY <1>1, <1>2, <1>3, <1>4, <1>5, <1>6, <1>7 DEF Next

LEMMA UnhinderedAlways == Spec => []UnhinderedInv
<1>1. Init => UnhinderedInv
  BY DEF Init, UnhinderedInv
<1> QED
  BY <1>1, UnhinderedNext, TypeCorrect, LifeAlways, PTL DEF Spec

\* An unswept vault pays what is due on any position, if transfers can debit it.
LEMMA UnsweptPays ==
    ASSUME TypeOK, Solvent, NEW m \in resolved \ reclaimed,
           NEW u \in Users, NEW b \in Buckets, Due(m, <<u, b>>) > 0
    PROVE  VaultPays(m, Payout(m, u, b)) <=> VaultDebitable
<1> DEFINE y == <<u, b>>
           f == [ p \in Positions |-> Due(m, p) ]
           paid == Payout(m, u, b)
<1>1. y \in Positions /\ y[1] = u /\ y[2] = b /\ m \in Markets
  BY DEF Positions, TypeOK
<1>2. Due(m, y) = paid
  BY <1>1 DEF Due
<1>3. f \in [Positions -> Nat] /\ IsFiniteSet(Positions) /\ f[y] = Due(m, y)
  BY <1>1, DuesType
<1>4. vault[m] >= VaultRent + SumFunction(f) /\ vault[m] \in Nat /\ VaultRent \in Nat
  <2>1. vault[m] \in Nat /\ VaultRent \in Nat
    BY <1>1, CinefiConstants DEF TypeOK
  <2>2. vault[m] >= VaultRent + SumFunction(f)
    BY DEF Solvent
  <2> QED
    BY <2>1, <2>2
<1> HIDE DEF f, y, paid
<1>5. /\ SumFunction(f) = f[y] + SumFunctionOnSet(f, Positions \ {y})
      /\ SumFunctionOnSet(f, Positions \ {y}) \in Nat
  <2>1. DOMAIN f = Positions /\ \A p \in Positions : f[p] \in Nat
    BY <1>3
  <2> QED
    BY <1>1, <1>3, <2>1, SumTake DEF SumFunction
<1>6. paid \in Nat /\ vault[m] - paid >= VaultRent /\ vault[m] >= paid
  BY <1>1, <1>2, <1>3, <1>4, <1>5
<1>7. VaultPays(m, paid) <=> VaultDebitable
  BY <1>6 DEF VaultPays, RentExempt
<1> QED
  BY <1>7 DEF paid

\* A positive due is that of a winner's position, and a natural number.
LEMMA DueIsWon ==
    ASSUME TypeOK, NEW m \in resolved, NEW u \in Users, NEW b \in Buckets, Due(m, <<u, b>>) > 0
    PROVE  /\ position[m][<<u, b>>].amount > 0 /\ Wins(m, b) /\ Payout(m, u, b) > 0
           /\ Payout(m, u, b) \in Nat
<1>1. <<u, b>> \in Positions /\ <<u, b>>[1] = u /\ <<u, b>>[2] = b /\ m \in Markets
  BY DEF Positions, TypeOK
<1>2. Due(m, <<u, b>>) \in Nat
  BY <1>1, DueType
<1> QED
  BY <1>1, <1>2 DEF Due

\* Through the deadline every winner can claim, whatever others claimed before, from a
\* vault that transfers can debit at all, but in the last second after a sweep.
THEOREM ClaimsNeedVault == Spec => []OnlyVaultStopsClaim
<1>1. TypeOK /\ LifeInv /\ Solvent /\ UnhinderedInv => OnlyVaultStopsClaim
  <2> SUFFICES ASSUME TypeOK, LifeInv, Solvent, UnhinderedInv,
                      NEW m \in resolved, NEW u \in Users, NEW b \in Buckets,
                      ClaimWindowOpen(m), Due(m, <<u, b>>) > 0
               PROVE  /\ ClaimAllowed(m, u, b) <=> VaultDebitable /\ m \notin reclaimed
                      /\ m \in reclaimed => now = terms[m].claim_deadline
    BY DEF OnlyVaultStopsClaim
  <2>1. /\ now \in Int /\ terms[m].claim_deadline \in Int /\ m \in Markets
    BY DEF TypeOK, Terms
  <2>2. /\ position[m][<<u, b>>].amount > 0 /\ Wins(m, b) /\ Payout(m, u, b) > 0
        /\ Payout(m, u, b) \in Nat
    BY DueIsWon
  <2>3. ClaimAllowed(m, u, b) <=> VaultPays(m, Payout(m, u, b))
    BY <2>2 DEF ClaimAllowed
  <2>4. CASE m \in reclaimed
    <3>1. vault[m] = 0 /\ now >= terms[m].claim_deadline
      BY <2>1, <2>4 DEF LifeInv, LifeAt, UnhinderedInv
    <3>2. ~VaultPays(m, Payout(m, u, b))
      BY <2>2, <3>1 DEF VaultPays
    <3>3. now = terms[m].claim_deadline
      BY <2>1, <3>1 DEF ClaimWindowOpen
    <3> QED
      BY <2>3, <2>4, <3>2, <3>3
  <2>5. CASE m \notin reclaimed
    BY <2>3, <2>5, UnsweptPays
  <2> QED
    BY <2>4, <2>5
<1> QED
  BY <1>1, TypeCorrect, LifeAlways, SolventAlways, UnhinderedAlways, PTL

\* What the vault and the treasury leave of a resolution that is due.
LEMMA FeeNeedsVault ==
    ASSUME TypeOK, LifeInv, LedgerInv, UnhinderedInv, NEW m \in closed \ resolved,
           report[m].finalized, now >= terms[m].settle_at
    PROVE  ResolveAllowed(m) <=>
               \/ Fee(total_pool[m]) = 0
               \/ /\ VaultDebitable
                  /\ treasury_open \/ treasury + Fee(total_pool[m]) >= TreasuryRent
<1> DEFINE total == total_pool[m]
           fee   == Fee(total)
<1>1. m \in created /\ m \in Markets /\ total \in Nat /\ treasury \in Nat
  BY DEF TypeOK
<1>2. fee \in Nat /\ fee <= total
  BY <1>1, FeeType
<1>3. vault[m] = VaultRent + total /\ VaultRent \in Nat /\ TreasuryRent \in Nat
  BY <1>1, CinefiConstants DEF LedgerInv
<1>4. treasury_open => treasury >= TreasuryRent
  BY DEF UnhinderedInv
<1>5. Resolvable(m)
  BY <1>1 DEF Resolvable, LifeInv, LifeAt
<1>6. ResolveAllowed(m) <=> (fee > 0 => VaultPays(m, fee) /\ TreasuryTakes(fee))
  BY <1>5 DEF ResolveAllowed
<1> HIDE DEF fee, total
<1>7. VaultPays(m, fee) <=> VaultDebitable
  BY <1>1, <1>2, <1>3 DEF VaultPays, RentExempt
<1>8. fee > 0 => (TreasuryTakes(fee) <=> treasury_open \/ treasury + fee >= TreasuryRent)
  BY <1>1, <1>2, <1>3, <1>4 DEF TreasuryTakes, RentExempt
<1>9. fee > 0 \/ fee = 0
  BY <1>2
<1>10. ResolveAllowed(m) <=>
          \/ fee = 0
          \/ VaultDebitable /\ (treasury_open \/ treasury + fee >= TreasuryRent)
  <2>1. fee = 0 => ~(fee > 0)
    OBVIOUS
  <2> QED
    BY <1>6, <1>7, <1>8, <1>9, <2>1
<1> QED
  BY <1>10 DEF fee, total

\* The ledger holds always.
LEMMA LedgerAlways == Spec => []LedgerInv
<1>1. Init => TypeOK /\ LedgerInv
  BY InitType, LedgerInit
<1>2. TypeOK /\ LedgerInv /\ [Next]_vars => (TypeOK /\ LedgerInv)'
  BY NextType, LedgerNext
<1> QED
  BY <1>1, <1>2, PTL DEF Spec

\* With an agreed score, from the settlement time on, only a vault that cannot be debited
\* or a missing treasury keeps a closed market from being resolved, and only for a fee.
THEOREM ResolutionNeedsVault == Spec => []OnlyVaultStopsResolution
<1>1. TypeOK /\ LifeInv /\ LedgerInv /\ UnhinderedInv => OnlyVaultStopsResolution
  BY FeeNeedsVault DEF OnlyVaultStopsResolution
<1> QED
  BY <1>1, LedgerAlways, TypeCorrect, LifeAlways, UnhinderedAlways, PTL
----------------------------------------------------------------------------
(* What the vault of create_market does to the money in it.

   UndebitableVaultKeepsAll is inductive once the ledger speaks of the unresolved
   markets: a bet touches none of the others, a resolution moves no fee, and a claim or
   a sweep would have to debit a vault that still has its rent. *)

LEMMA NothingLeaves ==
    ASSUME VaultRent > 0, ~VaultDebitable, TypeOK, UndebitableVaultKeepsAll
    PROVE  /\ \A m \in Markets, u \in Users, b \in Buckets : ~ClaimReward(m, u, b)
           /\ \A m \in Markets : ~ReclaimPool(m)
           /\ \A m \in Markets : ResolveMarket(m) => Fee(total_pool[m]) = 0
<1>1. \A m \in Markets : \A amount : ~VaultPays(m, amount)
  BY DEF VaultPays
<1>2. ASSUME NEW m \in Markets, NEW u \in Users, NEW b \in Buckets PROVE ~ClaimReward(m, u, b)
  BY <1>1 DEF ClaimReward, ClaimAllowed
<1>3. ASSUME NEW m \in Markets, ReclaimPool(m) PROVE FALSE
  <2>1. m \in created /\ (vault[m] > 0 => VaultPays(m, vault[m]))
    BY <1>3 DEF ReclaimPool, ReclaimAllowed, Reclaimable, TypeOK
  <2>2. vault[m] = VaultRent + total_pool[m] /\ total_pool[m] \in Nat /\ VaultRent \in Nat
    BY <2>1, CinefiConstants DEF UndebitableVaultKeepsAll, TypeOK
  <2> QED
    BY <1>1, <2>1, <2>2
<1>4. ASSUME NEW m \in Markets, ResolveMarket(m) PROVE Fee(total_pool[m]) = 0
  <2>1. ~(Fee(total_pool[m]) > 0)
    BY <1>1, <1>4 DEF ResolveMarket, ResolveAllowed
  <2>2. Fee(total_pool[m]) \in Nat
    BY FeeType DEF TypeOK
  <2> QED
    BY <2>1, <2>2
<1> QED
  BY <1>2, <1>3, <1>4

\* So no step moves the vault or a position of a resolved market.
LEMMA ResolvedKeeps ==
    ASSUME VaultRent > 0, ~VaultDebitable, TypeOK, UndebitableVaultKeepsAll, [Next]_vars,
           NEW m \in resolved
    PROVE  vault'[m] = vault[m] /\ position'[m] = position[m]
<1>1. ~ReclaimPool(m) /\ \A u \in Users, b \in Buckets : ~ClaimReward(m, u, b)
  BY NothingLeaves DEF TypeOK
<1> QED
  BY <1>1, OnlyClaimPays

LEMMA NothingLeavesNext ==
    ASSUME VaultRent > 0, ~VaultDebitable, TypeOK, LedgerInv, LedgerInv', TypeOK',
           UndebitableVaultKeepsAll, [Next]_vars
    PROVE  UndebitableVaultKeepsAll'
<1>1. reclaimed' = {}
  <2>1. reclaimed = {} /\ \A m \in Markets : ~ReclaimPool(m)
    BY NothingLeaves DEF UndebitableVaultKeepsAll
  <2>2. CASE Tick \/ InitializeTreasury \/ UNCHANGED vars
    BY <2>1, <2>2 DEF Tick, InitializeTreasury, vars, flags
  <2>3. ASSUME NEW x \in Markets,
               \/ \E d \in StartDelays, r \in Radii, set \in OracleSets, t \in Thresholds :
                      CreateMarket(x, d, r, set, t)
               \/ \E u \in Users, b \in BucketArgs, amount \in Amounts :
                      PlaceBet(x, u, b, amount)
               \/ CloseMarket(x)
               \/ \E s \in Signers, score \in BucketArgs : SubmitScore(x, s, score)
               \/ ResolveMarket(x)
               \/ \E u \in Users, b \in Buckets : ClaimReward(x, u, b)
        PROVE  reclaimed' = {}
    BY <2>1, <2>3 DEF CreateMarket, PlaceBet, CloseMarket, SubmitScore, ResolveMarket,
                      ClaimReward, flags
  <2> QED
    BY <2>1, <2>2, <2>3 DEF Next
<1>2. ASSUME NEW m \in resolved
      PROVE  /\ Fee(total_pool'[m]) = 0
             /\ vault'[m] = VaultRent + total_pool'[m]
             /\ \A b \in Buckets : pool'[m][b] = AmountOn(m, b)'
  <2>1. /\ total_pool'[m] = total_pool[m] /\ pool'[m] = pool[m]
        /\ vault'[m] = vault[m] /\ position'[m] = position[m]
    BY ResolvedFrozen, ResolvedKeeps
  <2>2. \A b \in Buckets : AmountOn(m, b)' = AmountOn(m, b)
    BY <2>1 DEF AmountOn
  <2>3. m \in created
    BY DEF TypeOK
  <2> QED
    BY <2>1, <2>2, <2>3 DEF UndebitableVaultKeepsAll
<1>3. ASSUME NEW m \in resolved' \ resolved
      PROVE  /\ Fee(total_pool'[m]) = 0
             /\ vault'[m] = VaultRent + total_pool'[m]
             /\ \A b \in Buckets : pool'[m][b] = AmountOn(m, b)'
  <2>1. m \in Markets /\ ResolveMarket(m)
    BY OnlyResolveSettles
  <2>2. Fee(total_pool[m]) = 0
    BY <2>1, NothingLeaves
  <2>3. /\ UNCHANGED << total_pool, pool, position >> /\ m \in created
        /\ vault' = [ vault EXCEPT ![m] = @ - Fee(total_pool[m]) ]
    BY <2>1 DEF ResolveMarket, ResolveAllowed, Resolvable, TypeOK
  <2>4. vault'[m] = vault[m]
    BY <2>1, <2>2, <2>3 DEF TypeOK
  <2>5. \A b \in Buckets : AmountOn(m, b)' = AmountOn(m, b)
    BY <2>3 DEF AmountOn
  <2> QED
    BY <2>2, <2>3, <2>4, <2>5 DEF UndebitableVaultKeepsAll
<1>4. ASSUME NEW m \in created' \ resolved'
      PROVE  /\ vault'[m] = VaultRent + total_pool'[m]
             /\ \A b \in Buckets : pool'[m][b] = AmountOn(m, b)'
  BY DEF LedgerInv, TypeOK
<1> QED
  BY <1>1, <1>2, <1>3, <1>4 DEF UndebitableVaultKeepsAll

\* What bettors pay into a vault that transfers cannot debit, as that of create_market,
\* never leaves it: no claim and no sweep succeeds and no fee is collected.
THEOREM StakesStay == VaultRent > 0 => (Spec => []UndebitableVaultKeepsAll)
<1> SUFFICES ASSUME VaultRent > 0 PROVE Spec => []UndebitableVaultKeepsAll
  OBVIOUS
<1>1. Init /\ TypeOK /\ LedgerInv => UndebitableVaultKeepsAll
  BY DEF Init, UndebitableVaultKeepsAll
<1>2. /\ TypeOK /\ LedgerInv /\ UndebitableVaultKeepsAll /\ [Next]_vars /\ TypeOK' /\ LedgerInv'
      => UndebitableVaultKeepsAll'
  <2>1. CASE VaultDebitable
    BY <2>1 DEF UndebitableVaultKeepsAll
  <2>2. CASE ~VaultDebitable
    BY <2>2, NothingLeavesNext
  <2> QED
    BY <2>1, <2>2
<1> QED
  BY <1>1, <1>2, TypeCorrect, LedgerAlways, PTL DEF Spec
----------------------------------------------------------------------------
(* Money is not made.

   What bettors have and what vaults hold for them never adds up to more than the
   wallets held at first: a bet and a claim move it, a fee and a sweep take it away. *)

\* The stakes a vault holds, without its rent.
Held(m) == IF m \in created \ reclaimed THEN vault[m] - VaultRent ELSE 0

Holdings == [ m \in Markets |-> Held(m) ]

MoneyInv == SumFunctionOnSet(wallet, Users) + SumFunctionOnSet(Holdings, Markets) <= Wealth

\* The invariants under which a vault holds no less than its rent until it is swept.
VaultInv == TypeOK /\ LedgerInv /\ Solvent /\ LifeInv

HeldNat == \A m \in Markets : Held(m) \in Nat

LEMMA HeldType == VaultInv => HeldNat
<1> SUFFICES ASSUME VaultInv, NEW m \in created \ reclaimed, m \in Markets
             PROVE  vault[m] - VaultRent \in Nat
  BY DEF HeldNat, Held
<1>1. vault[m] \in Nat /\ VaultRent \in Nat /\ total_pool[m] \in Nat
  BY CinefiConstants DEF VaultInv, TypeOK
<1>2. CASE m \notin resolved
  BY <1>1, <1>2 DEF VaultInv, LedgerInv
<1>3. CASE m \in resolved
  <2> DEFINE dues == SumFunction([ p \in Positions |-> Due(m, p) ])
  <2>1. dues \in Nat
    BY DuesType DEF VaultInv
  <2>2. vault[m] >= VaultRent + dues
    BY <1>3 DEF VaultInv, Solvent
  <2> HIDE DEF dues
  <2> QED
    BY <1>1, <2>1, <2>2
<1> QED
  BY <1>2, <1>3

LEMMA HeldTypeAfter == VaultInv' => HeldNat'
<1> QED
  BY HeldType, PTL

LEMMA VaultsAlways == Spec => []VaultInv
<1>1. Init => VaultInv
  BY InitType, LedgerInit, LifeInit DEF VaultInv, Init, Solvent
<1>2. VaultInv /\ [Next]_vars => VaultInv'
  BY NextType, LedgerNext, SolventNext, LifeNext DEF VaultInv
<1> QED
  BY <1>1, <1>2, PTL DEF Spec

\* When one vault moves, the sum of all moves by as much.
LEMMA OneVaultMoves ==
    ASSUME HeldNat, HeldNat', NEW m \in Markets, \A x \in Markets \ {m} : Held(x)' = Held(x)
    PROVE  /\ SumFunctionOnSet(Holdings', Markets)
                = SumFunctionOnSet(Holdings, Markets) - Held(m) + Held(m)'
           /\ SumFunctionOnSet(Holdings, Markets) \in Nat
<1> DEFINE f == Holdings
           e == [ x \in Markets |-> Held(x)' ]
<1>1. \A x \in Markets : f[x] \in Nat /\ e[x] \in Nat
  BY DEF HeldNat, Holdings
<1>2. \A x \in Markets \ {m} : e[x] = f[x]
  BY DEF Holdings
<1>3. f[m] = Held(m) /\ e[m] = Held(m)' /\ e = Holdings'
  BY DEF Holdings
<1>4. IsFiniteSet(Markets)
  BY CinefiConstants
<1> HIDE DEF f, e
<1>5. /\ SumFunctionOnSet(e, Markets) = SumFunctionOnSet(f, Markets) - f[m] + e[m]
      /\ SumFunctionOnSet(f, Markets) \in Nat
  BY <1>1, <1>2, <1>4, SumUpdate
<1> QED
  BY <1>3, <1>5 DEF f

\* A step that leaves the wallets alone and takes from one vault, or from none.
LEMMA MoneyLeaves ==
    ASSUME TypeOK, HeldNat, HeldNat', MoneyInv, NEW m \in Markets, wallet' = wallet,
           \A x \in Markets \ {m} : Held(x)' = Held(x), Held(m)' <= Held(m)
    PROVE  MoneyInv'
<1> DEFINE h == SumFunctionOnSet(Holdings, Markets)
           k == SumFunctionOnSet(Holdings', Markets)
           w == SumFunctionOnSet(wallet, Users)
<1>1. k = h - Held(m) + Held(m)' /\ h \in Nat /\ Held(m) \in Nat /\ Held(m)' \in Nat
  BY OneVaultMoves DEF HeldNat
<1>2. w \in Nat /\ Wealth \in Nat
  BY CinefiConstants, SumNat, FS_CardinalityType, MulNat DEF TypeOK, Wealth
<1>3. w + h <= Wealth
  BY DEF MoneyInv
<1> HIDE DEF h, k, w
<1>4. w + k <= Wealth
  BY <1>1, <1>2, <1>3
<1> QED
  BY <1>4 DEF MoneyInv, w, k, Wealth

\* A step that moves money between one wallet and one vault.
LEMMA MoneyMoves ==
    ASSUME TypeOK, TypeOK', HeldNat, HeldNat', MoneyInv, NEW m \in Markets, NEW u \in Users,
           \A x \in Markets \ {m} : Held(x)' = Held(x),
           \A v \in Users \ {u} : wallet'[v] = wallet[v],
           wallet'[u] + Held(m)' = wallet[u] + Held(m)
    PROVE  MoneyInv'
<1> DEFINE h == SumFunctionOnSet(Holdings, Markets)
           k == SumFunctionOnSet(Holdings', Markets)
           w == SumFunctionOnSet(wallet, Users)
           v == SumFunctionOnSet(wallet', Users)
<1>1. k = h - Held(m) + Held(m)' /\ h \in Nat /\ Held(m) \in Nat /\ Held(m)' \in Nat
  BY OneVaultMoves DEF HeldNat
<1>2. \A x \in Users : wallet[x] \in Nat /\ wallet'[x] \in Nat
  BY DEF TypeOK
<1>3. v = w - wallet[u] + wallet'[u] /\ w \in Nat
  BY <1>2, CinefiConstants, SumUpdate
<1>4. Wealth \in Nat /\ w + h <= Wealth
  BY CinefiConstants, FS_CardinalityType, MulNat DEF MoneyInv, Wealth
<1> HIDE DEF h, k, w, v
<1>5. v + k <= Wealth
  BY <1>1, <1>2, <1>3, <1>4
<1> QED
  BY <1>5 DEF MoneyInv, v, k, Wealth

LEMMA MoneyNext == VaultInv /\ MoneyInv /\ [Next]_vars => MoneyInv'
<1> SUFFICES ASSUME VaultInv, MoneyInv, [Next]_vars PROVE MoneyInv'
  OBVIOUS
<1>0. TypeOK /\ HeldNat /\ TypeOK' /\ HeldNat' /\ LedgerInv
  <2>1. VaultInv'
    BY NextType, LedgerNext, SolventNext, LifeNext DEF VaultInv
  <2>2. TypeOK'
    BY <2>1 DEF VaultInv
  <2> QED
    BY <2>1, <2>2, HeldType, HeldTypeAfter DEF VaultInv
<1>1. CASE UNCHANGED << wallet, vault, created, reclaimed >>
  BY <1>1 DEF MoneyInv, Holdings, Held
<1>2. CASE Tick
  BY <1>1, <1>2 DEF Tick, lamports, flags
<1>3. CASE InitializeTreasury
  BY <1>1, <1>3 DEF InitializeTreasury, flags
<1>4. ASSUME NEW m \in Markets, NEW d \in StartDelays, NEW r \in Radii, NEW set \in OracleSets,
             NEW t \in Thresholds, CreateMarket(m, d, r, set, t)
      PROVE  MoneyInv'
  <2>1. /\ m \notin created /\ created' = created \cup {m}
        /\ vault' = [ vault EXCEPT ![m] = VaultRent ]
        /\ UNCHANGED << wallet, reclaimed >>
    BY <1>4 DEF CreateMarket
  <2>2. vault \in [Markets -> Nat] /\ VaultRent \in Nat /\ reclaimed \subseteq created
    BY <1>0, CinefiConstants DEF TypeOK
  <2>3. \A x \in Markets \ {m} : Held(x)' = Held(x)
    BY <2>1, <2>2 DEF Held
  <2>4. Held(m)' <= Held(m)
    BY <2>1, <2>2 DEF Held
  <2> QED
    BY <1>0, <2>1, <2>3, <2>4, MoneyLeaves
<1>5. ASSUME NEW m \in Markets, NEW u \in Users, NEW b \in BucketArgs, NEW amount \in Amounts,
             PlaceBet(m, u, b, amount)
      PROVE  MoneyInv'
  <2>1. /\ m \in created /\ m \notin resolved /\ wallet[u] >= amount /\ amount \in Nat
        /\ wallet' = [ wallet EXCEPT ![u] = @ - amount ]
        /\ vault' = [ vault EXCEPT ![m] = @ + amount ]
        /\ UNCHANGED << created, reclaimed >>
    BY <1>5, CinefiConstants DEF PlaceBet, BetAllowed, BettingOpen, flags
  <2>2. /\ vault \in [Markets -> Nat] /\ wallet \in [Users -> Nat] /\ VaultRent \in Nat
        /\ m \notin reclaimed
    BY <1>0, <2>1, CinefiConstants DEF TypeOK, VaultInv, LifeInv, LifeAt
  <2>3. \A x \in Markets \ {m} : Held(x)' = Held(x)
    BY <2>1, <2>2 DEF Held
  <2>4. \A v \in Users \ {u} : wallet'[v] = wallet[v]
    BY <2>1, <2>2
  <2>5. wallet'[u] + Held(m)' = wallet[u] + Held(m)
    BY <2>1, <2>2 DEF Held
  <2> QED
    BY <1>0, <2>3, <2>4, <2>5, MoneyMoves
<1>6. ASSUME NEW m \in Markets,
             \/ CloseMarket(m)
             \/ \E s \in Signers, score \in BucketArgs : SubmitScore(m, s, score)
      PROVE  MoneyInv'
  BY <1>1, <1>6 DEF CloseMarket, SubmitScore, lamports, flags
<1>7. ASSUME NEW m \in Markets, ResolveMarket(m) PROVE MoneyInv'
  <2>1. /\ vault' = [ vault EXCEPT ![m] = @ - Fee(total_pool[m]) ]
        /\ UNCHANGED << wallet, created, reclaimed >>
    BY <1>7 DEF ResolveMarket
  <2>2. vault \in [Markets -> Nat] /\ VaultRent \in Nat /\ Fee(total_pool[m]) \in Nat
    BY <1>0, CinefiConstants, FeeType DEF TypeOK
  <2>3. \A x \in Markets \ {m} : Held(x)' = Held(x)
    BY <2>1, <2>2 DEF Held
  <2>4. Held(m)' <= Held(m)
    BY <2>1, <2>2 DEF Held
  <2> QED
    BY <1>0, <2>1, <2>3, <2>4, MoneyLeaves
<1>8. ASSUME NEW m \in Markets, NEW u \in Users, NEW b \in Buckets, ClaimReward(m, u, b)
      PROVE  MoneyInv'
  <2> DEFINE paid == Payout(m, u, b)
  <2>1. /\ m \in resolved /\ paid > 0 /\ vault[m] >= paid
        /\ wallet' = [ wallet EXCEPT ![u] = @ + paid ]
        /\ vault' = [ vault EXCEPT ![m] = @ - paid ]
        /\ UNCHANGED << created, reclaimed >>
    BY <1>8 DEF ClaimReward, ClaimAllowed, VaultPays, flags
  <2>2. paid \in Nat
    BY <1>0, DuePayoutType
  <2> HIDE DEF paid
  <2>3. /\ vault \in [Markets -> Nat] /\ wallet \in [Users -> Nat] /\ VaultRent \in Nat
        /\ m \in created
    BY <1>0, <2>1, CinefiConstants DEF TypeOK
  <2>4. m \notin reclaimed
    BY <2>1, <2>2 DEF VaultInv, LifeInv, LifeAt
  <2>5. \A x \in Markets \ {m} : Held(x)' = Held(x)
    BY <2>1, <2>3 DEF Held
  <2>6. \A v \in Users \ {u} : wallet'[v] = wallet[v]
    BY <2>1, <2>3
  <2>7. wallet'[u] + Held(m)' = wallet[u] + Held(m)
    BY <2>1, <2>2, <2>3, <2>4 DEF Held
  <2> QED
    BY <1>0, <2>5, <2>6, <2>7, MoneyMoves
<1>9. ASSUME NEW m \in Markets, ReclaimPool(m) PROVE MoneyInv'
  <2>1. /\ vault' = [ vault EXCEPT ![m] = 0 ] /\ reclaimed' = reclaimed \cup {m}
        /\ UNCHANGED << wallet, created >>
    BY <1>9 DEF ReclaimPool
  <2>2. vault \in [Markets -> Nat] /\ Held(m) \in Nat
    BY <1>0 DEF TypeOK, HeldNat
  <2>3. \A x \in Markets \ {m} : Held(x)' = Held(x)
    BY <2>1, <2>2 DEF Held
  <2>4. Held(m)' <= Held(m)
    <3>1. Held(m)' = 0
      BY <2>1 DEF Held
    <3> QED
      BY <2>2, <3>1
  <2> QED
    BY <1>0, <2>1, <2>3, <2>4, MoneyLeaves
<1>10. CASE UNCHANGED vars
  BY <1>1, <1>10 DEF vars
<1> QED
  BY <1>2, <1>3, <1>4, <1>5, <1>6, <1>7, <1>8, <1>9, <1>10 DEF Next

LEMMA MoneyAlways == Spec => []MoneyInv
<1>1. Init => MoneyInv
  <2> SUFFICES ASSUME Init PROVE MoneyInv
    OBVIOUS
  <2>1. \A u \in Users : wallet[u] \in Nat /\ wallet[u] <= InitialWallet
    BY CinefiConstants DEF Init
  <2>2. SumFunctionOnSet(wallet, Users) <= Wealth
    <3>1. IsFiniteSet(Users) /\ InitialWallet \in Nat
      BY CinefiConstants
    <3>2. SumFunctionOnSet(wallet, Users) <= Cardinality(Users) * InitialWallet
      BY <2>1, <3>1, SumAtMost
    <3> QED
      BY <3>2 DEF Wealth
  <2>3. \A m \in Markets : Holdings[m] = 0
    BY DEF Init, Holdings, Held
  <2>4. SumFunctionOnSet(Holdings, Markets) = 0
    BY <2>3, CinefiConstants, SumZero
  <2>5. SumFunctionOnSet(wallet, Users) \in Nat
    BY <2>1, CinefiConstants, SumNat
  <2>6. Wealth \in Nat
    BY CinefiConstants, FS_CardinalityType, MulNat DEF Wealth
  <2> QED
    BY <2>2, <2>4, <2>5, <2>6 DEF MoneyInv
<1> QED
  BY <1>1, MoneyNext, VaultsAlways, PTL DEF Spec

\* What a user has and what was staked on a market not yet resolved.
LEMMA WithinWealth ==
    ASSUME VaultInv, MoneyInv, NEW m \in created \ resolved, NEW u \in Users
    PROVE  wallet[u] + total_pool[m] <= Wealth
<1> DEFINE w == SumFunctionOnSet(wallet, Users)
           h == SumFunctionOnSet(Holdings, Markets)
           v == SumFunctionOnSet(wallet, Users \ {u})
           k == SumFunctionOnSet(Holdings, Markets \ {m})
<1>1. /\ m \in Markets /\ IsFiniteSet(Markets) /\ IsFiniteSet(Users)
      /\ \A x \in Users : wallet[x] \in Nat
      /\ \A x \in Markets : total_pool[x] \in Nat /\ vault[x] \in Nat
      /\ VaultRent \in Nat
  BY CinefiConstants DEF VaultInv, TypeOK
<1>2. \A x \in Markets : Holdings[x] \in Nat
  BY HeldType DEF Holdings, HeldNat
<1>3. Holdings[m] = total_pool[m]
  <2>1. m \notin reclaimed
    BY <1>1 DEF VaultInv, LifeInv, LifeAt
  <2>2. vault[m] = VaultRent + total_pool[m]
    BY DEF VaultInv, LedgerInv
  <2> QED
    BY <1>1, <2>1, <2>2 DEF Holdings, Held
<1>4. w = wallet[u] + v /\ v \in Nat
  BY <1>1, SumTake
<1>5. h = Holdings[m] + k /\ k \in Nat
  BY <1>1, <1>2, SumTake
<1>6. w + h <= Wealth
  BY DEF MoneyInv
<1>7. Wealth \in Nat
  BY CinefiConstants, FS_CardinalityType, MulNat DEF Wealth
<1> HIDE DEF w, h, v, k
<1> QED
  BY <1>1, <1>3, <1>4, <1>5, <1>6, <1>7
=============================================================================
