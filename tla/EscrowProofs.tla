---------------------------- MODULE EscrowProofs ----------------------------
(***************************************************************************)
(* The cinefi program implements Escrow, for every value of the constants. *)
(*                                                                         *)
(* Each instruction touches one market, so each lemma below maps one       *)
(* action: the escrow of its market makes an abstract step or stutters,    *)
(* all others stand still.  Only the clock touches many: Lapse.            *)
(***************************************************************************)
EXTENDS LedgerProofs, CinefiEscrow

\* What the mapping needs of a reachable state.
EscrowInv == TypeOK /\ LedgerInv /\ Solvent /\ LifeInv

\* The escrow of market m does not move.
Still(m) ==
    StageOf(m)' = StageOf(m) /\ PotOf(m)' = PotOf(m) /\ SharesOf(m)' = SharesOf(m)

\* A market whose accounts a step leaves alone stands still.
LEMMA EscrowFrame ==
    ASSUME TypeOK, NEW m \in Markets,
           now' = now,
           m \in created' <=> m \in created, m \in closed' <=> m \in closed,
           m \in resolved' <=> m \in resolved, m \in reclaimed' <=> m \in reclaimed,
           m \in created => terms'[m] = terms[m],
           report'[m] = report[m], vault'[m] = vault[m], outcome'[m] = outcome[m],
           pool'[m] = pool[m], weighted_pool'[m] = weighted_pool[m],
           position'[m] = position[m]
    PROVE  Still(m)
<1>1. m \in created => Stuck(m)' = Stuck(m)
  BY DEF Stuck, OracleWindowMissed
<1>2. StageOf(m)' = StageOf(m)
  BY <1>1 DEF StageOf
<1>3. PotOf(m)' = PotOf(m)
  BY DEF PotOf
<1>4. SharesOf(m)' = SharesOf(m)
  <2>1. ASSUME m \in resolved, NEW p \in Positions PROVE Due(m, p)' = Due(m, p)
    <3>1. m \in created
      BY <2>1 DEF TypeOK
    <3> QED
      BY <3>1, DueFrame
  <2> QED
    BY <2>1 DEF SharesOf
<1> QED
  BY <1>2, <1>3, <1>4 DEF Still

\* A step that moves one escrow, as an update of the three functions.
LEMMA OneMoves ==
    ASSUME NEW m \in Markets, \A x \in Markets \ {m} : Still(x)
    PROVE  /\ stageBar' = [ stageBar EXCEPT ![m] = StageOf(m)' ]
           /\ potBar' = [ potBar EXCEPT ![m] = PotOf(m)' ]
           /\ shareBar' = [ shareBar EXCEPT ![m] = SharesOf(m)' ]
           /\ stageBar[m] = StageOf(m) /\ potBar[m] = PotOf(m) /\ shareBar[m] = SharesOf(m)
           /\ shareBar'[m] = SharesOf(m)' /\ potBar'[m] = PotOf(m)'
           /\ StageOf(m)' = StageOf(m) => stageBar' = stageBar
           /\ PotOf(m)' = PotOf(m) => potBar' = potBar
           /\ SharesOf(m)' = SharesOf(m) => shareBar' = shareBar
  BY DEF Still, stageBar, potBar, shareBar

\* Before it is resolved a market has no shares.
LEMMA NoSharesYet ==
    ASSUME NEW m \in Markets, m \notin resolved PROVE SharesOf(m) = E!NoShares
  BY DEF SharesOf, E!NoShares

NoSharesAfterwards == \A m \in Markets : m \notin resolved => SharesOf(m) = E!NoShares

LEMMA NoSharesAfter == NoSharesAfterwards'
<1>1. NoSharesAfterwards
  BY NoSharesYet DEF NoSharesAfterwards
<1> QED
  BY <1>1, PTL

\* While a report is open and its window not over, its market is not stuck.
LEMMA NotStuck ==
    ASSUME TypeOK, NEW m \in created, ReportOpen(m),
           now <= terms[m].settle_at + ORACLE_WINDOWS_CLOSE_SECONDS
    PROVE  ~Stuck(m)
<1>1. now \in Int /\ terms[m].settle_at \in Int /\ ORACLE_WINDOWS_CLOSE_SECONDS \in Int
  BY CinefiConstants DEF TypeOK, Terms
<1> QED
  BY <1>1 DEF ReportOpen, Stuck, OracleWindowMissed
----------------------------------------------------------------------------
(* One lemma per action. *)

LEMMA CreateOpens ==
    ASSUME TypeOK, NEW m \in Markets, NEW d \in StartDelays, NEW r \in Radii,
           NEW set \in OracleSets, NEW t \in Thresholds, CreateMarket(m, d, r, set, t),
           \A x \in Markets \ {m} : Still(x)
    PROVE  E!Open(m)
<1>1. /\ m \notin created /\ m \notin resolved /\ m \notin reclaimed /\ m \notin closed
      /\ m \in created' /\ m \notin resolved' /\ m \notin reclaimed' /\ m \notin closed'
      /\ report'[m] = EmptyReport /\ vault'[m] = VaultRent
      /\ UNCHANGED << wallet, treasury >>
  BY DEF CreateMarket, TypeOK
<1>2. StageOf(m) = "none" /\ StageOf(m)' \in {"open", "stuck"}
  BY <1>1 DEF StageOf, EmptyReport
<1>3. PotOf(m) = 0 /\ PotOf(m)' = 0
  BY <1>1, CinefiConstants DEF PotOf
<1>4. SharesOf(m)' = SharesOf(m)
  BY <1>1, NoSharesYet, NoSharesAfter DEF NoSharesAfterwards, E!NoShares
<1>5. potBar' = potBar /\ shareBar' = shareBar
  BY <1>3, <1>4, OneMoves
<1>6. stageBar[m] = "none" /\ stageBar' = [ stageBar EXCEPT ![m] = StageOf(m)' ]
  BY <1>2, OneMoves
<1> QED
  BY <1>1, <1>2, <1>5, <1>6 DEF E!Open

LEMMA BetStakes ==
    ASSUME EscrowInv, NEW m \in Markets, NEW u \in Users, NEW b \in BucketArgs,
           NEW amount \in Amounts, PlaceBet(m, u, b, amount),
           \A x \in Markets \ {m} : Still(x)
    PROVE  E!Stake(m, u, amount) /\ amount \in 1..wallet[u]
<1>1. /\ m \in created /\ m \notin closed /\ m \notin resolved /\ m \notin reclaimed
      /\ LifeAt(m) /\ TypeOK
  BY DEF EscrowInv, PlaceBet, BetAllowed, BettingOpen, LifeInv, LifeAt
<1>2. ReportOpen(m)
  BY <1>1 DEF LifeAt, ReportOpen
<1>3. now <= terms[m].settle_at + ORACLE_WINDOWS_CLOSE_SECONDS
  <2>1. now <= terms[m].betting_closes_at /\ terms[m].betting_closes_at <= terms[m].settle_at
    BY <1>1 DEF PlaceBet, BetAllowed, BettingOpen, LifeAt
  <2>2. now \in Int /\ terms[m].settle_at \in Int /\ terms[m].betting_closes_at \in Int
    BY <1>1 DEF TypeOK, Terms
  <2>3. ORACLE_WINDOWS_CLOSE_SECONDS \in Nat
    BY CinefiConstants
  <2> QED
    BY <2>1, <2>2, <2>3
<1>4. StageOf(m) = "open" /\ StageOf(m)' = "open"
  <2>1. ~Stuck(m)
    BY <1>1, <1>2, <1>3, NotStuck
  <2>2. StageOf(m) = "open"
    BY <1>1, <1>2, <2>1 DEF StageOf, ReportOpen
  <2>3. StageOf(m)' = StageOf(m)
    BY DEF PlaceBet, StageOf, Stuck, OracleWindowMissed, flags
  <2> QED
    BY <2>2, <2>3
<1>5. PotOf(m)' = PotOf(m) + amount
  <2>1. /\ vault'[m] = vault[m] + amount /\ PotOf(m) = vault[m] - VaultRent
        /\ PotOf(m)' = vault'[m] - VaultRent
    BY <1>1 DEF PlaceBet, PotOf, flags, TypeOK
  <2>2. vault[m] \in Int /\ VaultRent \in Int /\ amount \in Int
    BY <1>1, CinefiConstants DEF TypeOK
  <2> QED
    BY <2>1, <2>2
<1>6. SharesOf(m)' = SharesOf(m)
  <2>1. m \notin resolved'
    BY <1>1 DEF PlaceBet, flags
  <2> QED
    BY <1>1, <2>1, NoSharesYet, NoSharesAfter DEF NoSharesAfterwards, E!NoShares
<1>7. /\ wallet' = [ wallet EXCEPT ![u] = @ - amount ]
      /\ treasury' = treasury /\ amount > 0 /\ wallet[u] >= amount
  BY DEF PlaceBet, BetAllowed
<1>8. amount \in 1..wallet[u]
  <2>1. wallet[u] \in Nat /\ amount \in Nat
    BY <1>1, CinefiConstants DEF TypeOK
  <2> QED
    BY <1>7, <2>1
<1>9. /\ stageBar' = stageBar /\ shareBar' = shareBar /\ stageBar[m] = "open"
      /\ potBar' = [ potBar EXCEPT ![m] = potBar[m] + amount ]
  BY <1>4, <1>5, <1>6, OneMoves
<1> QED
  BY <1>7, <1>8, <1>9 DEF E!Stake

LEMMA CloseCloses ==
    ASSUME EscrowInv, NEW m \in Markets, CloseMarket(m),
           \A x \in Markets \ {m} : Still(x)
    PROVE  E!Close(m) \/ UNCHANGED E!escrow
<1>1. /\ m \in created /\ m \notin closed /\ m \notin resolved /\ m \notin reclaimed
      /\ LifeAt(m) /\ closed' = closed \cup {m}
      /\ UNCHANGED << now, created, resolved, reclaimed, terms, report, vault,
                      wallet, treasury >>
  BY DEF EscrowInv, CloseMarket, CloseAllowed, LifeInv, LifeAt, lamports, marketVars
<1>2. PotOf(m)' = PotOf(m) /\ SharesOf(m)' = SharesOf(m)
  BY <1>1, NoSharesYet, NoSharesAfter DEF NoSharesAfterwards, E!NoShares, PotOf
<1>3. Stuck(m)' = Stuck(m)
  BY <1>1 DEF Stuck, OracleWindowMissed
<1>4. ~report[m].finalized
  BY <1>1 DEF LifeAt
<1>5. CASE Stuck(m)
  <2>1. StageOf(m)' = StageOf(m)
    BY <1>1, <1>3, <1>5 DEF StageOf
  <2> QED
    BY <1>1, <1>2, <2>1, OneMoves DEF E!escrow
<1>6. CASE ~Stuck(m)
  <2>1. StageOf(m) = "open" /\ StageOf(m)' = "closed"
    BY <1>1, <1>3, <1>4, <1>6 DEF StageOf
  <2>2. /\ stageBar[m] = "open" /\ stageBar' = [ stageBar EXCEPT ![m] = "closed" ]
        /\ potBar' = potBar /\ shareBar' = shareBar
    BY <1>2, <2>1, OneMoves
  <2> QED
    BY <1>1, <2>2 DEF E!Close
<1> QED
  BY <1>5, <1>6

LEMMA ScoreDecides ==
    ASSUME EscrowInv, LifeInv', NEW m \in Markets, NEW s \in Signers, NEW score \in BucketArgs,
           SubmitScore(m, s, score), \A x \in Markets \ {m} : Still(x)
    PROVE  E!Decide(m) \/ UNCHANGED E!escrow
<1>1. /\ TypeOK /\ m \in created /\ m \in closed /\ m \notin resolved /\ m \notin reclaimed
      /\ ReportOpen(m) /\ OracleWindowOpen(m)
      /\ UNCHANGED << now, created, closed, resolved, reclaimed, terms, vault,
                      wallet, treasury >>
  BY DEF EscrowInv, SubmitScore, ScoreAllowed, LifeInv, LifeAt, lamports, flags, marketVars, TypeOK
<1>2. PotOf(m)' = PotOf(m) /\ SharesOf(m)' = SharesOf(m)
  BY <1>1, NoSharesYet, NoSharesAfter DEF NoSharesAfterwards, E!NoShares, PotOf
<1>3. ~OracleWindowMissed(m) /\ ~OracleWindowMissed(m)'
  <2>1. now \in Int /\ terms[m].settle_at \in Int /\ ORACLE_WINDOWS_CLOSE_SECONDS \in Int
    BY <1>1, CinefiConstants DEF TypeOK, Terms
  <2>2. ~OracleWindowMissed(m)
    BY <1>1, <2>1 DEF OracleWindowOpen, OracleWindowMissed
  <2> QED
    BY <1>1, <2>2 DEF OracleWindowMissed
<1>4. StageOf(m) = "closed"
  BY <1>1, <1>3 DEF StageOf, Stuck, ReportOpen
<1>5. StageOf(m)' = IF report'[m].disputed THEN "stuck"
                    ELSE IF report'[m].finalized THEN "agreed" ELSE "closed"
  BY <1>1, <1>3 DEF StageOf, Stuck
<1>6. CASE StageOf(m)' = "closed"
  BY <1>1, <1>2, <1>4, <1>6, OneMoves DEF E!escrow
<1>7. CASE StageOf(m)' \in {"agreed", "stuck"}
  <2>1. /\ stageBar[m] = "closed" /\ stageBar' = [ stageBar EXCEPT ![m] = StageOf(m)' ]
        /\ potBar' = potBar /\ shareBar' = shareBar
    BY <1>2, <1>4, OneMoves
  <2> QED
    BY <1>1, <1>7, <2>1 DEF E!Decide
<1> QED
  BY <1>5, <1>6, <1>7

\* The cast of the fee to u64 loses nothing: pools stay within the width.
LEMMA FeeFits ==
    ASSUME NEW total \in Nat, total <= MaxU64
    PROVE  Fee(total) = E!FeeOn(total)
<1> DEFINE p == total * DEFAULT_PROTOCOL_FEE_BPS
           q == p \div 10000
<1>1. DEFAULT_PROTOCOL_FEE_BPS \in 0..10000 /\ MaxU64 \in Nat
  BY CinefiConstants, WeightConstants
<1>2. p \in Nat /\ p <= total * 10000
  BY <1>1
<1>3. E!FeeOn(total) = q /\ Fee(total) = AsU64(q)
  BY DEF E!FeeOn, Fee
<1> HIDE DEF p
<1>4. q \in Nat /\ q <= total
  BY <1>2
<1> HIDE DEF q
<1>5. q % (MaxU64 + 1) = q
  BY <1>1, <1>4
<1> QED
  BY <1>3, <1>5 DEF AsU64

\* What is due is a natural, also after a step.
SharesNat == \A m \in Markets : SharesOf(m) \in [ Positions -> Nat ]

LEMMA SharesType == TypeOK => SharesNat
<1> SUFFICES ASSUME TypeOK, NEW m \in Markets, NEW p \in Positions
             PROVE  (IF m \in resolved \ reclaimed THEN Due(m, p) ELSE 0) \in Nat
  BY DEF SharesNat, SharesOf
<1>1. p = <<p[1], p[2]>> /\ p[1] \in Users /\ p[2] \in Buckets
  BY DEF Positions
<1>2. Due(m, p) \in Nat
  BY <1>1, DueType
<1> QED
  BY <1>2

LEMMA SharesTypeAfter == TypeOK' => SharesNat'
  BY SharesType, PTL

\* The abstract specification sums with the same operator.
LEMMA SameSum == \A f : E!SumFunction(f) = SumFunction(f)
BY DEF E!SumFunction, E!SumFunctionOnSet, E!FoldFunctionOnSet, E!MapThenFoldSet,
       SumFunction, SumFunctionOnSet, FoldFunctionOnSet, MapThenFoldSet

LEMMA ResolveSettles ==
    ASSUME EscrowInv, TypeOK', NEW m \in Markets, ResolveMarket(m),
           \A x \in Markets \ {m} : Still(x)
    PROVE  E!Settle(m)
<1> DEFINE total == total_pool[m]
<1>1. /\ TypeOK /\ LedgerInv /\ LifeAt(m)
      /\ m \in created /\ m \in closed /\ m \notin resolved /\ m \notin reclaimed
      /\ report[m].finalized /\ ~report[m].disputed
      /\ resolved' = resolved \cup {m}
      /\ vault' = [ vault EXCEPT ![m] = @ - Fee(total) ]
      /\ treasury' = treasury + Fee(total)
      /\ UNCHANGED << created, reclaimed, wallet >>
  BY DEF EscrowInv, ResolveMarket, ResolveAllowed, Resolvable, LifeInv, LifeAt, TypeOK
<1>2. StageOf(m) = "agreed" /\ StageOf(m)' = "settled"
  BY <1>1 DEF StageOf, Stuck
<1>3. total \in Nat /\ total <= MaxU64 /\ VaultRent \in Nat /\ Fee(total) \in Nat
  BY <1>1, FeeType, CinefiConstants DEF LifeAt, TypeOK
<1>4. PotOf(m) = total
  <2>1. vault[m] = VaultRent + total /\ PotOf(m) = vault[m] - VaultRent
    BY <1>1 DEF LedgerInv, PotOf
  <2> HIDE DEF total
  <2> QED
    BY <1>3, <2>1
<1>5. Fee(total) = E!FeeOn(PotOf(m))
  BY <1>3, <1>4, FeeFits
<1>6. vault'[m] \in Nat /\ PotOf(m)' = vault'[m] - VaultRent
  BY <1>1 DEF PotOf, TypeOK
<1>7. PotOf(m)' = PotOf(m) - E!FeeOn(PotOf(m))
  <2>1. vault[m] \in Nat /\ vault'[m] = vault[m] - Fee(total) /\ PotOf(m) = vault[m] - VaultRent
    BY <1>1 DEF TypeOK, PotOf
  <2> HIDE DEF total
  <2> QED
    BY <1>3, <1>5, <1>6, <2>1
<1>8. SharesOf(m)' \in [ Positions -> Nat ]
  BY SharesTypeAfter DEF SharesNat
<1>9. SumFunction(SharesOf(m)') <= PotOf(m)'
  <2>1. SharesOf(m)' = [ p \in Positions |-> Due(m, p) ]'
    BY <1>1 DEF SharesOf
  <2>2. SumFunction([ p \in Positions |-> Due(m, p) ])' \in Nat
    BY DuesNatAfter DEF DuesNat
  <2>3. vault'[m] >= VaultRent + SumFunction([ p \in Positions |-> Due(m, p) ])'
    BY <1>1, ResolveMakesSolvent
  <2>4. vault'[m] >= VaultRent + SumFunction(SharesOf(m)') /\ SumFunction(SharesOf(m)') \in Nat
    BY <2>1, <2>2, <2>3
  <2> QED
    BY <1>3, <1>6, <2>4
<1> HIDE DEF total
<1>10. /\ stageBar[m] = "agreed" /\ stageBar' = [ stageBar EXCEPT ![m] = "settled" ]
       /\ potBar[m] = PotOf(m) /\ potBar'[m] = PotOf(m)' /\ shareBar'[m] = SharesOf(m)'
       /\ potBar' = [ potBar EXCEPT ![m] = potBar[m] - E!FeeOn(potBar[m]) ]
       /\ shareBar' = [ shareBar EXCEPT ![m] = shareBar'[m] ]
  BY <1>2, <1>7, OneMoves
<1>11. treasury' = treasury + E!FeeOn(potBar[m]) /\ UNCHANGED wallet
  BY <1>1, <1>5, <1>10
<1>12. shareBar'[m] \in [ Positions -> Nat ]
  BY <1>8, <1>10
<1>13. E!SumFunction(shareBar'[m]) <= potBar'[m]
  <2>1. E!SumFunction(SharesOf(m)') = SumFunction(SharesOf(m)')
    BY SameSum
  <2> QED
    BY <1>9, <1>10, <2>1
<1> QED
  BY <1>10, <1>11, <1>12, <1>13 DEF E!Settle

LEMMA ClaimPays ==
    ASSUME EscrowInv, TypeOK', NEW m \in Markets, NEW u \in Users, NEW b \in Buckets,
           ClaimReward(m, u, b), \A x \in Markets \ {m} : Still(x)
    PROVE  E!Pay(m, <<u, b>>)
<1> DEFINE y == <<u, b>>
           paid == Payout(m, u, b)
<1>1. /\ TypeOK /\ LifeAt(m) /\ m \in created /\ m \in resolved
      /\ paid > 0 /\ vault[m] >= paid
      /\ vault' = [ vault EXCEPT ![m] = @ - paid ]
      /\ wallet' = [ wallet EXCEPT ![u] = @ + paid ]
      /\ position' = [ position EXCEPT ![m][y] = NoPosition ]
      /\ UNCHANGED << created, resolved, reclaimed, terms, outcome, pool, weighted_pool,
                      treasury >>
  BY DEF EscrowInv, LifeInv, ClaimReward, ClaimAllowed, VaultPays, flags, marketVars, TypeOK
<1>2. paid \in Nat /\ vault[m] \in Nat /\ VaultRent \in Nat
  BY <1>1, DuePayoutType, CinefiConstants DEF TypeOK
<1>3. m \notin reclaimed
  BY <1>1, <1>2 DEF LifeAt
<1>4. StageOf(m) = "settled" /\ StageOf(m)' = "settled"
  BY <1>1, <1>3 DEF StageOf
<1>5. y \in Positions /\ y[1] = u /\ y[2] = b
  BY DEF Positions
<1>6. SharesOf(m)[y] = paid
  <2>1. Due(m, y) = paid
    BY <1>5 DEF ClaimReward, ClaimAllowed, Due
  <2> QED
    BY <1>1, <1>3, <1>5, <2>1 DEF SharesOf
<1>7. PotOf(m)' = PotOf(m) - paid
  <2>1. /\ PotOf(m) = vault[m] - VaultRent /\ PotOf(m)' = vault'[m] - VaultRent
        /\ vault'[m] = vault[m] - paid
    BY <1>1, <1>3 DEF PotOf, TypeOK
  <2> HIDE DEF paid
  <2> QED
    BY <1>2, <2>1
<1>8. SharesOf(m)' = [ SharesOf(m) EXCEPT ![y] = 0 ]
  <2>1. Due(m, y)' = 0
    <3>1. position'[m][y].amount = 0
      BY <1>1, <1>5 DEF TypeOK, NoPosition
    <3> QED
      BY <1>5, <3>1 DEF Due
  <2>2. \A p \in Positions \ {y} : Due(m, p)' = Due(m, p)
    <3>1. SUFFICES ASSUME NEW p \in Positions, p # y PROVE Due(m, p)' = Due(m, p)
      OBVIOUS
    <3>2. position'[m][p] = position[m][p]
      BY <1>1, <3>1 DEF TypeOK
    <3> QED
      BY <1>1, <3>2, DueFrame
  <2> HIDE DEF y
  <2> QED
    BY <1>1, <1>3, <1>5, <2>1, <2>2 DEF SharesOf
<1> HIDE DEF paid, y
<1>9. /\ stageBar[m] = "settled" /\ stageBar' = stageBar
      /\ shareBar[m][y] = paid
      /\ potBar' = [ potBar EXCEPT ![m] = potBar[m] - paid ]
      /\ shareBar' = [ shareBar EXCEPT ![m] = [ shareBar[m] EXCEPT ![y] = 0 ] ]
  BY <1>4, <1>6, <1>7, <1>8, OneMoves
<1>10. E!Pay(m, y)
  BY <1>1, <1>5, <1>9 DEF E!Pay
<1> QED
  BY <1>10 DEF y

LEMMA ReclaimSweeps ==
    ASSUME EscrowInv, NEW m \in Markets, ReclaimPool(m), \A x \in Markets \ {m} : Still(x)
    PROVE  E!Sweep(m)
<1>1. /\ TypeOK /\ m \in created /\ m \in resolved /\ m \notin reclaimed
      /\ m \in reclaimed' /\ UNCHANGED << created, resolved, wallet >>
      /\ treasury' = treasury + vault[m]
  BY DEF EscrowInv, ReclaimPool, ReclaimAllowed, Reclaimable, TypeOK
<1>2. StageOf(m) = "settled" /\ StageOf(m)' = "swept"
  BY <1>1 DEF StageOf
<1>3. PotOf(m)' = 0 /\ vault[m] = PotOf(m) + VaultRent /\ PotOf(m) \in Int
  <2>1. PotOf(m)' = 0 /\ PotOf(m) = vault[m] - VaultRent
    BY <1>1 DEF PotOf
  <2>2. vault[m] \in Nat /\ VaultRent \in Nat
    BY <1>1, CinefiConstants DEF TypeOK
  <2> QED
    BY <2>1, <2>2
<1>4. SharesOf(m)' = E!NoShares
  BY <1>1 DEF SharesOf, E!NoShares
<1>5. /\ stageBar[m] = "settled" /\ stageBar' = [ stageBar EXCEPT ![m] = "swept" ]
      /\ potBar[m] = PotOf(m) /\ potBar' = [ potBar EXCEPT ![m] = 0 ]
      /\ shareBar' = [ shareBar EXCEPT ![m] = E!NoShares ]
  BY <1>2, <1>3, <1>4, OneMoves
<1>6. treasury' = treasury + potBar[m] + VaultRent
  <2>1. treasury \in Int /\ VaultRent \in Int
    BY <1>1, CinefiConstants DEF TypeOK
  <2> QED
    BY <1>1, <1>3, <1>5, <2>1
<1> QED
  BY <1>1, <1>5, <1>6 DEF E!Sweep

LEMMA TickLapses ==
    ASSUME EscrowInv, Tick PROVE E!Lapse
<1> DEFINE S == { m \in Markets : StageOf(m)' # StageOf(m) }
<1>1. /\ TypeOK /\ LifeInv /\ now' = now + 1
      /\ UNCHANGED << lamports, flags, marketVars, report, position >>
  BY DEF EscrowInv, Tick
<1>2. ASSUME NEW m \in S
      PROVE  StageOf(m) \in {"open", "closed"} /\ StageOf(m)' = "stuck"
  <2>1. m \in created /\ m \notin resolved /\ m \notin reclaimed
    BY <1>1, <1>2 DEF StageOf, flags, LifeInv, LifeAt
  <2>2. Stuck(m) => Stuck(m)'
    <3>1. now \in Int /\ terms[m].settle_at \in Int /\ ORACLE_WINDOWS_CLOSE_SECONDS \in Int
      BY <1>1, <2>1, CinefiConstants DEF TypeOK, Terms
    <3> QED
      BY <1>1, <3>1 DEF Stuck, OracleWindowMissed, marketVars
  <2>3. ~Stuck(m) /\ Stuck(m)'
    BY <1>1, <1>2, <2>1, <2>2 DEF StageOf, flags
  <2>4. ~report[m].finalized
    BY <1>1, <2>3 DEF Stuck
  <2> QED
    BY <1>1, <2>1, <2>3, <2>4 DEF StageOf, flags
<1>3. S \in SUBSET { m \in Markets : stageBar[m] \in {"open", "closed"} }
  BY <1>2 DEF stageBar
<1>4. stageBar' = [ m \in Markets |-> IF m \in S THEN "stuck" ELSE stageBar[m] ]
  BY <1>2 DEF stageBar
<1>5. potBar' = potBar
  BY <1>1 DEF potBar, PotOf, flags, lamports
<1>6. shareBar' = shareBar
  BY <1>1 DEF shareBar, SharesOf, Due, Wins, Payout, flags, marketVars
<1> QED
  BY <1>1, <1>3, <1>4, <1>5, <1>6 DEF E!Lapse, lamports

LEMMA TreasuryEndowed ==
    ASSUME TypeOK, InitializeTreasury PROVE E!Endow
<1>1. \A m \in Markets : Still(m)
  BY EscrowFrame DEF InitializeTreasury, flags, marketVars
<1>2. stageBar' = stageBar /\ potBar' = potBar /\ shareBar' = shareBar
  BY <1>1 DEF Still, stageBar, potBar, shareBar
<1>3. treasury' >= treasury /\ wallet' = wallet
  BY CinefiConstants DEF InitializeTreasury, TypeOK
<1> QED
  BY <1>2, <1>3 DEF E!Endow
----------------------------------------------------------------------------
(* The refinement. *)

\* An instruction moves the escrow of its own market only.
LEMMA OthersStill ==
    ASSUME TypeOK, NEW m \in Markets, NEW x \in Markets \ {m},
           \/ \E d \in StartDelays, r \in Radii, set \in OracleSets, t \in Thresholds :
                  CreateMarket(m, d, r, set, t)
           \/ \E u \in Users, b \in BucketArgs, amount \in Amounts : PlaceBet(m, u, b, amount)
           \/ CloseMarket(m)
           \/ \E s \in Signers, score \in BucketArgs : SubmitScore(m, s, score)
           \/ ResolveMarket(m)
           \/ \E u \in Users, b \in Buckets : ClaimReward(m, u, b)
           \/ ReclaimPool(m)
    PROVE  Still(x)
<1>1. ASSUME NEW d \in StartDelays, NEW r \in Radii, NEW set \in OracleSets,
             NEW t \in Thresholds, CreateMarket(m, d, r, set, t)
      PROVE  Still(x)
  BY <1>1, EscrowFrame DEF CreateMarket, TypeOK
<1>2. ASSUME NEW u \in Users, NEW b \in BucketArgs, NEW amount \in Amounts,
             PlaceBet(m, u, b, amount)
      PROVE  Still(x)
  BY <1>2, EscrowFrame DEF PlaceBet, flags, TypeOK
<1>3. ASSUME CloseMarket(m) PROVE Still(x)
  BY <1>3, EscrowFrame DEF CloseMarket, lamports, marketVars, TypeOK
<1>4. ASSUME NEW s \in Signers, NEW score \in BucketArgs, SubmitScore(m, s, score)
      PROVE  Still(x)
  BY <1>4, EscrowFrame DEF SubmitScore, lamports, flags, marketVars, TypeOK
<1>5. ASSUME ResolveMarket(m) PROVE Still(x)
  BY <1>5, EscrowFrame DEF ResolveMarket, TypeOK
<1>6. ASSUME NEW u \in Users, NEW b \in Buckets, ClaimReward(m, u, b) PROVE Still(x)
  BY <1>6, EscrowFrame DEF ClaimReward, flags, marketVars, TypeOK
<1>7. ASSUME ReclaimPool(m) PROVE Still(x)
  BY <1>7, EscrowFrame DEF ReclaimPool, marketVars, TypeOK
<1> QED
  BY <1>1, <1>2, <1>3, <1>4, <1>5, <1>6, <1>7

LEMMA EscrowInit == Init => E!Init
<1> SUFFICES ASSUME Init PROVE E!Init
  OBVIOUS
<1>1. \A m \in Markets : StageOf(m) = "none" /\ PotOf(m) = 0 /\ SharesOf(m) = E!NoShares
  BY NoSharesYet DEF Init, StageOf, PotOf
<1>2. wallet \in [ Users -> Nat ] /\ treasury = 0
  BY CinefiConstants DEF Init
<1> QED
  BY <1>1, <1>2 DEF E!Init, stageBar, potBar, shareBar

LEMMA EscrowStep ==
    EscrowInv /\ EscrowInv' /\ [Next]_vars => [E!Next]_(E!escrow)
<1> SUFFICES ASSUME EscrowInv, EscrowInv', [Next]_vars PROVE E!Next \/ UNCHANGED E!escrow
  OBVIOUS
<1>0. TypeOK /\ TypeOK' /\ LifeInv'
  BY DEF EscrowInv
<1>1. CASE Tick
  BY <1>1, TickLapses DEF E!Next
<1>2. CASE InitializeTreasury
  BY <1>0, <1>2, TreasuryEndowed DEF E!Next
<1>3. CASE UNCHANGED vars
  <2>1. \A m \in Markets : Still(m)
    BY <1>0, <1>3, EscrowFrame DEF vars, flags, marketVars, lamports
  <2> QED
    BY <1>3, <2>1 DEF Still, stageBar, potBar, shareBar, E!escrow, vars, lamports
<1>4. ASSUME NEW m \in Markets, NEW d \in StartDelays, NEW r \in Radii,
             NEW set \in OracleSets, NEW t \in Thresholds, CreateMarket(m, d, r, set, t)
      PROVE  E!Next
  BY <1>0, <1>4, OthersStill, CreateOpens DEF E!Next
<1>5. ASSUME NEW m \in Markets, NEW u \in Users, NEW b \in BucketArgs,
             NEW amount \in Amounts, PlaceBet(m, u, b, amount)
      PROVE  E!Next
  BY <1>0, <1>5, OthersStill, BetStakes DEF E!Next
<1>6. ASSUME NEW m \in Markets, CloseMarket(m) PROVE E!Next \/ UNCHANGED E!escrow
  BY <1>0, <1>6, OthersStill, CloseCloses DEF E!Next
<1>7. ASSUME NEW m \in Markets, NEW s \in Signers, NEW score \in BucketArgs,
             SubmitScore(m, s, score)
      PROVE  E!Next \/ UNCHANGED E!escrow
  BY <1>0, <1>7, OthersStill, ScoreDecides DEF E!Next
<1>8. ASSUME NEW m \in Markets, ResolveMarket(m) PROVE E!Next
  BY <1>0, <1>8, OthersStill, ResolveSettles DEF E!Next
<1>9. ASSUME NEW m \in Markets, NEW u \in Users, NEW b \in Buckets, ClaimReward(m, u, b)
      PROVE  E!Next
  <2>1. E!Pay(m, <<u, b>>) /\ <<u, b>> \in Positions
    BY <1>0, <1>9, OthersStill, ClaimPays DEF Positions
  <2> QED
    BY <2>1 DEF E!Next
<1>10. ASSUME NEW m \in Markets, ReclaimPool(m) PROVE E!Next
  BY <1>0, <1>10, OthersStill, ReclaimSweeps DEF E!Next
<1> QED
  BY <1>1, <1>2, <1>3, <1>4, <1>5, <1>6, <1>7, <1>8, <1>9, <1>10 DEF Next

\* For every value of the constants: the program moves money as an escrow does.
THEOREM EscrowRefined == Spec => EscrowKept
<1>1. Init => EscrowInv
  BY InitType, LedgerInit, LifeInit DEF Init, EscrowInv, Solvent
<1>2. EscrowInv /\ [Next]_vars => EscrowInv'
  BY NextType, LedgerNext, SolventNext, LifeNext DEF EscrowInv
<1> QED
  BY <1>1, <1>2, EscrowInit, EscrowStep, PTL DEF Spec, EscrowKept, E!Spec
============================================================================
