---------------------------- MODULE IndexerProofs ----------------------------
(***************************************************************************)
(* What may be relied on of the events, whatever the order of deliveries,  *)
(* reads and posts, and however many requests work at a time.              *)
(*                                                                         *)
(* Every step of the composition is a step of the program or leaves the    *)
(* program alone, so the theorems about Cinefi hold in it.  What it adds   *)
(* is one inductive invariant: IndexerTyped and the named parts below it.  *)
(***************************************************************************)
EXTENDS IndexerProperties, LedgerProofs

\* The transaction's handler reads account a.
Names(tx, a) == a[1] \in UNION Range(Stages(tx)) /\ a = Account(a[1], tx)

Handling(r) == queue[r] # << >>

\* IndexerTypeOK, and that the functions of the indexer are functions.
IndexerTyped ==
    /\ IndexerTypeOK
    /\ got = [ r \in Requests |-> got[r] ]

\* Only what succeeded is worked on.
QueuesSucceeded ==
    \A r \in Requests : \A i \in Range(queue[r]) : ~landed[i].failed

\* What a transaction that succeeded has left for good.
Happened(tx) ==
    /\ tx.name # "initialize_treasury" => tx.market \in created
    /\ tx.name = "place_bet" =>
          position[tx.market][tx.position].amount > 0 \/ tx.market \in resolved
    /\ tx.name \in {"claim_reward", "resolve_market"} => tx.market \in resolved

LandedHappened ==
    \A i \in 1..Len(landed) : ~landed[i].failed => Happened(landed[i])

\* Each transaction failed, is still to be worked off, or its handling ended in some way.
EachEnds ==
    \A i \in 1..Len(landed) :
        landed[i].failed \/ i \in Backlog \/ \E f \in Fates : i \in fate[f]

\* The only accounts that a handler found gone are positions that were paid out.
GoneArePaid ==
    \A i \in fate["gone"] :
        /\ landed[i].name \in {"place_bet", "claim_reward"}
        /\ landed[i].market \in resolved
        /\ position[landed[i].market][landed[i].position].amount = 0

\* As long as nothing fails, nothing is lost to a failure.
FaultsCost == faults = 0 => \A f \in Fates \ {"posted", "gone"} : fate[f] = {}

\* The last transaction that changed an account succeeded, and its handler reads it.
ChangeNamed ==
    \A a \in Accounts : changed[a] > 0 =>
        ~landed[changed[a]].failed /\ Names(landed[changed[a]], a)

\* What was read for the last transaction that changed an account is the account.
ReadsCurrent ==
    \A r \in Requests : Handling(r) => \A a \in Accounts :
        (a[1] \in DOMAIN got[r] /\ a = Account(a[1], Current(r))
            /\ Head(queue[r]) >= changed[a]) => got[r][a[1]] = Content(a)

\* No position is larger than the pool of its bucket.
BucketCovers ==
    \A m \in Markets : \A p \in Positions :
        /\ position[m][p].amount <= pool[m][p[2]]
        /\ position[m][p].weighted_amount <= weighted_pool[m][p[2]]

\* What the two reads of a bet tell, and how they stand to the pool itself.
PositionRead(answers, m, b) ==
    /\ answers["position"].amount \in Nat /\ answers["position"].weighted_amount \in Nat
    /\ answers["position"].amount <= pool[m][b]
    /\ answers["position"].weighted_amount <= weighted_pool[m][b]

PoolCovers(answers) ==
    /\ "position" \in DOMAIN answers
    /\ answers["bucket_pool"].amount >= answers["position"].amount
    /\ answers["bucket_pool"].weighted_amount >= answers["position"].weighted_amount

\* The position was read first, so the pool that was read covers it; a pool never
\* falls, so that the one still to be read will.
BetReads ==
    \A r \in Requests : (Handling(r) /\ Current(r).name = "place_bet") =>
        LET m == Current(r).market
            b == Current(r).position[2] IN
        /\ "position" \in DOMAIN got[r] => PositionRead(got[r], m, b)
        /\ "bucket_pool" \in DOMAIN got[r] => PoolCovers(got[r])

\* What the market read of a resolution tells.
MarketRead(answers, m) ==
    /\ answers["market"].resolved
    /\ answers["market"].final_outcome = {outcome[m].final_outcome}
    /\ answers["market"].total_prize_pool = outcome[m].total_prize_pool

\* The reads of resolve_market show what is settled for good.
ResolveReads ==
    \A r \in Requests : (Handling(r) /\ Current(r).name = "resolve_market") =>
        LET m == Current(r).market IN
        /\ m \in resolved
        /\ "market" \in DOMAIN got[r] => MarketRead(got[r], m)
        /\ "report" \in DOMAIN got[r] => got[r]["report"] = OracleReportData(m)
        /\ "bucket_prizes" \in DOMAIN got[r] => got[r]["bucket_prizes"] = BucketPrizeData(m)
----------------------------------------------------------------------------
(* Stages and reads. *)

LEMMA RangeOne == ASSUME NEW x PROVE Range(<< x >>) = {x}
  BY DEF Range

\* The elements of a sequence after Append, and of the rest of one.
LEMMA RangeAppend ==
    ASSUME NEW S, NEW q \in Seq(S), NEW e \in S
    PROVE  Range(Append(q, e)) = Range(q) \cup {e}
<1> DEFINE h == Append(q, e)
<1>1. /\ DOMAIN h = 1..Len(q) + 1 /\ DOMAIN q = 1..Len(q) /\ Len(q) \in Nat
      /\ h[Len(q) + 1] = e /\ \A k \in 1..Len(q) : h[k] = q[k]
  OBVIOUS
<1> HIDE DEF h
<1>2. Range(h) \subseteq Range(q) \cup {e}
  BY <1>1 DEF Range
<1>3. Range(q) \subseteq Range(h) /\ e \in Range(h)
  BY <1>1 DEF Range
<1> QED
  BY <1>2, <1>3 DEF h

LEMMA RangeTail ==
    ASSUME NEW S, NEW q \in Seq(S), q # << >>
    PROVE  /\ Head(q) \in Range(q) /\ Head(q) \in S
           /\ Tail(q) \in Seq(S)
           /\ Range(q) = Range(Tail(q)) \cup {Head(q)}
           /\ Range(q) \subseteq S
<1> DEFINE h == Tail(q)
<1>1. /\ DOMAIN q = 1..Len(q) /\ Len(q) \in Nat \ {0} /\ DOMAIN h = 1..Len(q) - 1
      /\ Head(q) = q[1] /\ \A k \in 1..Len(q) - 1 : h[k] = q[k + 1]
      /\ h \in Seq(S) /\ \A k \in 1..Len(q) : q[k] \in S
  OBVIOUS
<1> HIDE DEF h
<1>2. Range(h) \cup {Head(q)} \subseteq Range(q)
  BY <1>1 DEF Range
<1>3. Range(q) \subseteq Range(h) \cup {Head(q)}
  <2>1. SUFFICES ASSUME NEW k \in 1..Len(q) PROVE q[k] \in Range(h) \cup {Head(q)}
    BY <1>1 DEF Range
  <2>2. CASE k = 1
    BY <1>1, <2>2
  <2>3. CASE k # 1
    <3>1. k-1 \in 1..Len(q) - 1 /\ h[k-1] = q[k]
      BY <1>1, <2>3
    <3> QED
      BY <1>1, <3>1 DEF Range
  <2> QED
    BY <2>2, <2>3
<1> QED
  BY <1>1, <1>2, <1>3 DEF Range, h

AllReads == {"market", "position", "report", "bucket_pool", "bucket_prizes"}

\* What a handler reads in all, instruction by instruction.
LEMMA StagesOf ==
    ASSUME NEW tx, tx.name \in Instructions
    PROVE  /\ Stages(tx) \in Seq(SUBSET AllReads)
           /\ UNION Range(Stages(tx)) =
                CASE tx.name = "create_market"  -> {"market", "report"}
                  [] tx.name = "place_bet"      -> {"market", "position", "bucket_pool"}
                  [] tx.name = "close_market"   -> {"market"}
                  [] tx.name = "submit_score"   -> {"report"}
                  [] tx.name = "resolve_market" -> {"market", "report", "bucket_prizes"}
                  [] tx.name = "claim_reward"   -> {"position"}
                  [] tx.name = "reclaim_pool"   -> {"market"}
                  [] tx.name = "initialize_treasury" -> {}
<1>1. CASE tx.name = "place_bet"
  <2>1. Stages(tx) = << {"market", "position"}, {"bucket_pool"} >>
    BY <1>1 DEF Stages, PlaceBetReads
  <2>2. Range(Stages(tx)) = { {"market", "position"}, {"bucket_pool"} }
    BY <2>1 DEF Range
  <2> QED
    BY <1>1, <2>1, <2>2 DEF AllReads
<1>2. CASE tx.name = "initialize_treasury"
  <2>1. Stages(tx) = << >>
    BY <1>2 DEF Stages, InitializeTreasuryReads
  <2> QED
    BY <1>2, <2>1 DEF Range
<1>3. CASE tx.name \notin {"place_bet", "initialize_treasury"}
  <2>1. PICK R \in SUBSET AllReads : Stages(tx) = << R >> /\ R =
               CASE tx.name = "create_market"  -> {"market", "report"}
                 [] tx.name = "close_market"   -> {"market"}
                 [] tx.name = "submit_score"   -> {"report"}
                 [] tx.name = "resolve_market" -> {"market", "report", "bucket_prizes"}
                 [] tx.name = "claim_reward"   -> {"position"}
                 [] tx.name = "reclaim_pool"   -> {"market"}
    BY <1>3 DEF Stages, Instructions, CreateMarketReads, CloseMarketReads, SubmitScoreReads,
                ResolveMarketReads, ClaimRewardReads, ReclaimPoolReads, AllReads
  <2>2. Range(Stages(tx)) = { R }
    BY <2>1, RangeOne
  <2> QED
    BY <1>3, <2>1, <2>2 DEF Instructions
<1> QED
  BY <1>1, <1>2, <1>3

\* A read in flight is one of the handler's, and unanswered.
LEMMA InFlightReads ==
    ASSUME NEW tx, tx.name \in Instructions, NEW answers, NEW read \in InFlight(tx, answers)
    PROVE  read \in UNION Range(Stages(tx)) /\ read \notin DOMAIN answers
<1> DEFINE missing(k) == Stages(tx)[k] \ DOMAIN answers
<1>1. PICK n \in Nat : Len(Stages(tx)) = n /\ DOMAIN Stages(tx) = 1..n
  BY StagesOf
<1>2. PICK k \in 1..n : missing(k) # {} /\ \A j \in 1..k-1 : missing(j) = {}
  <2>1. PICK k0 \in 1..n : missing(k0) # {}
    BY <1>1 DEF InFlight
  <2> DEFINE T == { j \in 1..n : missing(j) # {} }
  <2>2. PICK k \in T : \A j \in T : k <= j
    <3>1. T \subseteq Nat /\ T # {}
      BY <2>1
    <3> HIDE DEF T
    <3> QED
      BY <3>1, LeastNatural
  <2> QED
    BY <2>2
<1>3. \E k0 \in 1..n : read \in missing(k0)
  BY <1>1, <1>2 DEF InFlight
<1> QED
  BY <1>1, <1>3 DEF Range

\* Nothing is in flight only when everything is answered.
LEMMA InFlightNone ==
    ASSUME NEW tx, tx.name \in Instructions, NEW answers, InFlight(tx, answers) = {}
    PROVE  UNION Range(Stages(tx)) \subseteq DOMAIN answers
<1> DEFINE missing(k) == Stages(tx)[k] \ DOMAIN answers
<1>1. PICK n \in Nat : Len(Stages(tx)) = n /\ DOMAIN Stages(tx) = 1..n
  BY StagesOf
<1>2. \A k \in 1..n : missing(k) = {}
  <2>1. SUFFICES ASSUME NEW k0 \in 1..n, missing(k0) # {} PROVE FALSE
    OBVIOUS
  <2> DEFINE T == { j \in 1..n : missing(j) # {} }
  <2>2. PICK k \in T : \A j \in T : k <= j
    <3>1. T \subseteq Nat /\ T # {}
      BY <2>1
    <3> HIDE DEF T
    <3> QED
      BY <3>1, LeastNatural
  <2>3. \E j \in 1..n : missing(j) # {} /\ \A i \in 1..j-1 : missing(i) = {}
    BY <2>2
  <2> QED
    BY <1>1, <2>1, <2>3 DEF InFlight
<1> QED
  BY <1>1, <1>2 DEF Range

\* The loop of handleWebhook, over the first n transactions of a batch.
IsKept(g, batch, n) ==
    g = [ k \in 0..n |-> IF k = 0 THEN << >>
                         ELSE IF landed[batch[k]].failed THEN g[k-1]
                         ELSE Append(g[k-1], batch[k]) ]

\* It is well defined.
LEMMA LoopDefined ==
    ASSUME NEW batch, NEW n \in Nat
    PROVE  \E g : IsKept(g, batch, n)
<1> DEFINE OK(k) == \E g : IsKept(g, batch, k)
           Bad   == { k \in Nat : ~OK(k) }
<1>1. SUFFICES ASSUME Bad # {} PROVE FALSE
  OBVIOUS
<1>2. PICK k \in Bad : \A j \in Bad : k <= j
  <2>1. Bad \subseteq Nat
    OBVIOUS
  <2> HIDE DEF Bad
  <2> QED
    BY <1>1, <2>1, LeastNatural
<1>3. OK(0)
  <2>1. IsKept([ j \in 0..0 |-> << >> ], batch, 0)
    BY DEF IsKept
  <2> QED
    BY <2>1
<1>4. k \in Nat \ {0} /\ OK(k-1)
  BY <1>2, <1>3
<1>5. PICK g : IsKept(g, batch, k-1)
  BY <1>4
<1> DEFINE last == IF landed[batch[k]].failed THEN g[k-1] ELSE Append(g[k-1], batch[k])
           h    == [ j \in 0..k |-> IF j = k THEN last ELSE g[j] ]
<1>6. \A j \in 0..k-1 : g[j] = IF j = 0 THEN << >>
                               ELSE IF landed[batch[j]].failed THEN g[j-1]
                               ELSE Append(g[j-1], batch[j])
  BY <1>5 DEF IsKept
<1>7. IsKept(h, batch, k)
  BY <1>4, <1>6 DEF IsKept
<1> QED
  BY <1>2, <1>7

\* It keeps what succeeded, and nothing else.
LEMMA LoopKeeps ==
    ASSUME NEW S, NEW batch \in Seq(S), NEW g, IsKept(g, batch, Len(batch)),
           NEW n \in 0..Len(batch)
    PROVE  /\ g[n] \in Seq(S)
           /\ \A i : i \in Range(g[n]) <=> \E j \in 1..n : i = batch[j] /\ ~landed[i].failed
<1> DEFINE OK(k) == /\ g[k] \in Seq(S)
                    /\ \A i : i \in Range(g[k]) <=>
                          \E j \in 1..k : i = batch[j] /\ ~landed[i].failed
           Bad   == { k \in 0..Len(batch) : ~OK(k) }
<1>1. SUFFICES ASSUME Bad # {} PROVE FALSE
  OBVIOUS
<1>2. PICK k \in Bad : \A j \in Bad : k <= j
  <2>1. Bad \subseteq Nat
    OBVIOUS
  <2> HIDE DEF Bad
  <2> QED
    BY <1>1, <2>1, LeastNatural
<1>3. \A j \in 0..Len(batch) : g[j] = IF j = 0 THEN << >>
                                      ELSE IF landed[batch[j]].failed THEN g[j-1]
                                      ELSE Append(g[j-1], batch[j])
  BY DEF IsKept
<1>4. OK(0)
  <2>1. g[0] = << >> /\ Range(<< >>) = {}
    BY <1>3 DEF Range
  <2> QED
    BY <2>1
<1>5. k \in 1..Len(batch) /\ OK(k-1)
  BY <1>2, <1>4
<1>6. Range(Append(g[k-1], batch[k])) = Range(g[k-1]) \cup {batch[k]}
  BY <1>5, RangeAppend
<1>7. \A i : (\E j \in 1..k : i = batch[j] /\ ~landed[i].failed) <=>
                 \/ \E j \in 1..k-1 : i = batch[j] /\ ~landed[i].failed
                 \/ i = batch[k] /\ ~landed[i].failed
  BY <1>5
<1>8. CASE landed[batch[k]].failed
  <2>1. g[k] = g[k-1]
    BY <1>3, <1>5, <1>8
  <2>2. OK(k)
    BY <1>5, <1>7, <1>8, <2>1
  <2> QED
    BY <1>2, <2>2
<1>9. CASE ~landed[batch[k]].failed
  <2>1. g[k] = Append(g[k-1], batch[k])
    <3>1. k \in 0..Len(batch) /\ k # 0
      BY <1>5
    <3> QED
      BY <1>3, <1>9, <3>1, Zenon
  <2>2. g[k] \in Seq(S)
    BY <1>5, <2>1
  <2>3. OK(k)
    BY <1>5, <1>6, <1>7, <1>9, <2>1, <2>2
  <2> QED
    BY <1>2, <2>3
<1> QED
  BY <1>8, <1>9

\* What is left of a batch: a sequence of its transactions, those that succeeded.
LEMMA SuccessfulType ==
    ASSUME NEW S, NEW batch \in Seq(S)
    PROVE  /\ Successful(batch) \in Seq(S)
           /\ Range(Successful(batch)) = { i \in Range(batch) : ~landed[i].failed }
<1> DEFINE n == Len(batch)
           f == CHOOSE g : IsKept(g, batch, n)
<1>1. IsKept(f, batch, n) /\ n \in 0..n
  BY LoopDefined
<1>2. Successful(batch) = f[n]
  BY DEF Successful, IsKept
<1> HIDE DEF f
<1>3. /\ f[n] \in Seq(S)
      /\ \A i : i \in Range(f[n]) <=> \E j \in 1..n : i = batch[j] /\ ~landed[i].failed
  BY <1>1, LoopKeeps
<1>4. \A i : i \in Range(batch) <=> \E j \in 1..n : i = batch[j]
  BY DEF Range
<1> QED
  BY <1>2, <1>3, <1>4
----------------------------------------------------------------------------
(* The steps of the composition, sorted. *)

\* The instruction of a transaction that succeeded.
Instruction(name, m, p) ==
    \/ name = "initialize_treasury" /\ InitializeTreasury
    \/ /\ name = "create_market"
       /\ \E d \in StartDelays, r \in Radii, set \in OracleSets, t \in Thresholds :
              CreateMarket(m, d, r, set, t)
    \/ name = "place_bet" /\ p[2] \in Playable
          /\ \E amount \in Amounts : PlaceBet(m, p[1], p[2], amount)
    \/ name = "close_market" /\ CloseMarket(m)
    \/ name = "submit_score" /\ \E s \in Signers, score \in Scores : SubmitScore(m, s, score)
    \/ name = "resolve_market" /\ ResolveMarket(m)
    \/ name = "claim_reward" /\ p[2] \in Playable /\ ClaimReward(m, p[1], p[2])
    \/ name = "reclaim_pool" /\ ReclaimPool(m)

\* A transaction lands, with or without success.
Landing(name, m, p, failed) ==
    /\ name \in Instructions /\ m \in Markets /\ p \in Positions /\ failed \in BOOLEAN
    /\ Land(name, m, p, failed)
    /\ failed => UNCHANGED vars
    /\ ~failed => Instruction(name, m, p)
    /\ faults' \in {faults, faults + 1} /\ faults' <= MaxFaults

Accepting(r, batch) ==
    /\ r \in Requests /\ batch \in Seq(inbox)
    /\ Accept(r, batch)
    /\ inbox \ Range(batch) \subseteq inbox' /\ inbox' \subseteq inbox
    /\ faults' \in {faults, faults + 1} /\ faults' <= MaxFaults

Answering(r, read) ==
    LET answer == Answer(read, Current(r)) IN
    /\ r \in Requests /\ Handling(r)
    /\ read \in InFlight(Current(r), got[r])
    /\ answer.exists
    /\ got' = [ got EXCEPT ![r] = WithAnswer(@, read, answer) ]
    /\ UNCHANGED << vars, landed, inbox, queue, fate, changed, faults >>

\* A request is done with its transaction.
Ending(r, f) ==
    /\ r \in Requests /\ Handling(r)
    /\ queue' = [ queue EXCEPT ![r] = Tail(@) ]
    /\ got' = [ got EXCEPT ![r] = << >> ]
    /\ Ends(f, {Head(queue[r])})
    /\ UNCHANGED << vars, landed, inbox, changed >>
    /\ \/ f = "posted" /\ UNCHANGED faults
       \/ /\ f = "gone" /\ UNCHANGED faults
          /\ \E read \in InFlight(Current(r), got[r]) : ~Answer(read, Current(r)).exists
       \/ f = "broken" /\ OneMoreFault

Resting == (Tick \/ UNCHANGED vars) /\ UNCHANGED indexerVars

LEMMA PositionsTyped ==
    /\ AnyMarket \in Markets /\ AnyPosition \in Positions
    /\ \A u \in Users, b \in Playable : <<u, b>> \in Positions
<1>1. AnyMarket \in Markets
  BY IndexerConstants DEF AnyMarket
<1>2. PICK u \in Users : TRUE
  BY IndexerConstants
<1>3. 0 \in Buckets /\ Playable \subseteq Buckets
  BY WeightConstants DEF Buckets, Playable
<1>4. <<u, 0>> \in Positions
  BY <1>2, <1>3 DEF Positions
<1>5. AnyPosition \in Positions
  BY <1>4 DEF AnyPosition
<1> QED
  BY <1>1, <1>3, <1>5 DEF Positions

LEMMA ChainSteps ==
    ASSUME faults \in 0..MaxFaults, ChainStep \/ FailedTransaction
    PROVE  \/ Resting
           \/ \E name, m, p, failed : Landing(name, m, p, failed)
<1>1. ASSUME NEW name \in Instructions, NEW m \in Markets, NEW p \in Positions,
             Lands(name, m, p), Instruction(name, m, p)
      PROVE  Landing(name, m, p, FALSE)
  <2>1. Land(name, m, p, FALSE) /\ faults' = faults
    BY <1>1, Zenon DEF Lands
  <2>2. faults' \in {faults, faults + 1} /\ faults' <= MaxFaults
    BY <2>1
  <2> QED
    BY <1>1, <2>1, <2>2, Zenon DEF Landing
<1>2. CASE Tick /\ UNCHANGED indexerVars
  BY <1>2 DEF Resting
<1>3. CASE InitializeTreasury /\ Lands("initialize_treasury", AnyMarket, AnyPosition)
  BY <1>1, <1>3, PositionsTyped DEF Instruction, Instructions
<1>4. ASSUME NEW m \in Markets, NEW d \in StartDelays, NEW r \in Radii,
             NEW set \in OracleSets, NEW t \in Thresholds, CreateMarket(m, d, r, set, t),
             Lands("create_market", m, AnyPosition)
      PROVE  Landing("create_market", m, AnyPosition, FALSE)
  BY <1>1, <1>4, PositionsTyped DEF Instruction, Instructions
<1>5. ASSUME NEW m \in Markets, NEW u \in Users, NEW b \in Playable, NEW amount \in Amounts,
             PlaceBet(m, u, b, amount), Lands("place_bet", m, <<u, b>>)
      PROVE  Landing("place_bet", m, <<u, b>>, FALSE)
  BY <1>1, <1>5, PositionsTyped DEF Instruction, Instructions
<1>6. ASSUME NEW m \in Markets, NEW s \in Signers, NEW score \in Scores,
             SubmitScore(m, s, score), Lands("submit_score", m, AnyPosition)
      PROVE  Landing("submit_score", m, AnyPosition, FALSE)
  BY <1>1, <1>6, PositionsTyped DEF Instruction, Instructions
<1>7. ASSUME NEW m \in Markets, NEW u \in Users, NEW b \in Playable,
             ClaimReward(m, u, b), Lands("claim_reward", m, <<u, b>>)
      PROVE  Landing("claim_reward", m, <<u, b>>, FALSE)
  BY <1>1, <1>7, PositionsTyped DEF Instruction, Instructions
<1>8. ASSUME NEW m \in Markets,
             \/ CloseMarket(m) /\ Lands("close_market", m, AnyPosition)
             \/ ResolveMarket(m) /\ Lands("resolve_market", m, AnyPosition)
             \/ ReclaimPool(m) /\ Lands("reclaim_pool", m, AnyPosition)
      PROVE  \E name : Landing(name, m, AnyPosition, FALSE)
  BY <1>1, <1>8, PositionsTyped DEF Instruction, Instructions
<1>9. CASE FailedTransaction
  <2>1. PICK name \in Failing, m \in Markets, p \in Positions :
               UNCHANGED vars /\ Land(name, m, p, TRUE)
    BY <1>9 DEF FailedTransaction
  <2>2. name \in Instructions
    BY IndexerConstants DEF Instructions
  <2>3. faults' = faults + 1 /\ faults' <= MaxFaults
    BY <1>9, IndexerConstants DEF FailedTransaction, OneMoreFault
  <2>4. Landing(name, m, p, TRUE)
    BY <2>1, <2>2, <2>3, Zenon DEF Landing
  <2> QED
    BY <2>4
<1> QED
  <2>1. CASE ChainStep
    BY <1>2, <1>3, <1>4, <1>5, <1>6, <1>7, <1>8, <2>1 DEF ChainStep
  <2> QED
    BY <1>9, <2>1

\* A batch of the webhook.
LEMMA BatchType ==
    ASSUME NEW batch \in Batches
    PROVE  batch \in Seq(inbox)
<1>1. ASSUME NEW i \in inbox PROVE << i >> \in Seq(inbox)
  BY <1>1
<1>2. ASSUME NEW n \in 2..MaxBatch, NEW s \in [1..n -> inbox] PROVE s \in Seq(inbox)
  BY <1>2, IndexerConstants
<1> QED
  BY <1>1, <1>2 DEF Batches

LEMMA StepKinds ==
    ASSUME faults \in 0..MaxFaults, [IndexerNext]_allVars
    PROVE  \/ Resting
           \/ \E name, m, p, failed : Landing(name, m, p, failed)
           \/ \E r, batch : Accepting(r, batch)
           \/ \E r, read : Answering(r, read)
           \/ \E r, f : Ending(r, f)
           \/ DeliverMalformed
           \/ Crash
<1>1. CASE UNCHANGED allVars
  BY <1>1 DEF allVars, Resting
<1>2. ASSUME NEW r \in Requests, Deliver(r) PROVE \E batch : Accepting(r, batch)
  <2>1. PICK batch \in Batches : /\ Accept(r, batch) /\ inbox' = inbox \ Range(batch)
                                 /\ UNCHANGED faults
    BY <1>2 DEF Deliver
  <2> QED
    BY <2>1, BatchType DEF Accepting
<1>3. ASSUME NEW r \in Requests, DeliverTwice(r) PROVE \E batch : Accepting(r, batch)
  <2>1. PICK batch \in Batches : Accept(r, batch) /\ UNCHANGED inbox /\ OneMoreFault
    BY <1>3 DEF DeliverTwice
  <2> QED
    BY <2>1, BatchType, IndexerConstants DEF Accepting, OneMoreFault
<1>4. ASSUME NEW r \in Requests, Read(r)
      PROVE  Ending(r, "gone") \/ \E read : Answering(r, read)
  <2>1. PICK read \in InFlight(Current(r), got[r]) :
            \/ ~Answer(read, Current(r)).exists /\ GiveUp(r, "gone") /\ UNCHANGED faults
            \/ /\ Answer(read, Current(r)).exists
               /\ got' = [ got EXCEPT ![r] = WithAnswer(@, read, Answer(read, Current(r))) ]
               /\ UNCHANGED << vars, landed, inbox, queue, fate, changed, faults >>
    BY <1>4, Zenon DEF Read
  <2>2. Handling(r)
    BY <1>4, Zenon DEF Read, Handling
  <2>3. CASE Answer(read, Current(r)).exists
    BY <2>1, <2>2, <2>3, Zenon DEF Answering
  <2>4. CASE ~Answer(read, Current(r)).exists
    <3>1. GiveUp(r, "gone") /\ faults' = faults
      BY <2>1, <2>4
    <3> QED
      BY <2>2, <2>4, <3>1, Zenon DEF Ending, GiveUp, AfterError
  <2> QED
    BY <2>3, <2>4
<1>5. ASSUME NEW r \in Requests, ReadFails(r) \/ PostFails(r) PROVE Ending(r, "broken")
  <2>1. Handling(r) /\ GiveUp(r, "broken") /\ OneMoreFault
    BY <1>5, Zenon DEF ReadFails, PostFails, Posting, Handling
  <2> QED
    BY <2>1, Zenon DEF Ending, GiveUp, AfterError
<1>6. ASSUME NEW r \in Requests, Post(r) PROVE Ending(r, "posted")
  <2>1. /\ Handling(r)
        /\ queue' = [ queue EXCEPT ![r] = Tail(@) ]
        /\ got' = [ got EXCEPT ![r] = << >> ]
        /\ Ends("posted", {Head(queue[r])})
        /\ UNCHANGED << vars, landed, inbox, changed >> /\ faults' = faults
    BY <1>6 DEF Post, Posting, Handling
  <2> QED
    BY <2>1, Zenon DEF Ending
<1> QED
  BY <1>1, <1>2, <1>3, <1>4, <1>5, <1>6, ChainSteps DEF IndexerNext

\* The program takes one of its own steps or none.
LEMMA ChainMoves == [IndexerNext]_allVars => [Next]_vars
<1> SUFFICES ASSUME [IndexerNext]_allVars PROVE [Next]_vars
  OBVIOUS
<1>1. Playable \subseteq BucketArgs /\ Playable \subseteq Buckets /\ Scores = Playable
  BY WeightConstants DEF Playable, Buckets, BucketArgs, Scores
<1>2. CASE ChainStep
  BY <1>1, <1>2 DEF ChainStep, Next
<1>3. CASE UNCHANGED vars
  BY <1>3
<1>4. CASE FailedTransaction \/ Crash \/ DeliverMalformed \/ UNCHANGED allVars
  BY <1>3, <1>4 DEF FailedTransaction, Crash, DeliverMalformed, allVars
<1>5. ASSUME NEW r \in Requests, Deliver(r) \/ DeliverTwice(r) \/ Post(r)
      PROVE  UNCHANGED vars
  BY <1>5 DEF Deliver, DeliverTwice, Accept, Post
<1>6. ASSUME NEW r \in Requests, Read(r) \/ ReadFails(r) \/ PostFails(r)
      PROVE  UNCHANGED vars
  BY <1>6 DEF Read, ReadFails, PostFails, GiveUp
<1> QED
  BY <1>2, <1>3, <1>4, <1>5, <1>6 DEF IndexerNext

\* What holds of the program holds of it in the composition.
THEOREM ProgramRuns == IndexerSpec => Spec
<1>1. IndexerInit => Init
  BY DEF IndexerInit
<1> QED
  BY <1>1, ChainMoves, PTL DEF IndexerSpec, Spec
----------------------------------------------------------------------------
(* Type correctness. *)

\* What a request is at work on.
LEMMA WorkType ==
    ASSUME IndexerTyped, NEW r \in Requests, Handling(r)
    PROVE  /\ Head(queue[r]) \in 1..Len(landed) /\ Head(queue[r]) \in Range(queue[r])
           /\ Current(r) = landed[Head(queue[r])]
           /\ Current(r) \in Transaction /\ Current(r).name \in Instructions
           /\ Current(r).market \in Markets /\ Current(r).position \in Positions
           /\ Tail(queue[r]) \in Seq(1..Len(landed))
           /\ Range(queue[r]) = Range(Tail(queue[r])) \cup {Head(queue[r])}
           /\ DOMAIN got[r] \subseteq UNION Range(Stages(Current(r)))
<1>1. queue[r] \in Seq(1..Len(landed)) /\ queue[r] # << >>
  BY DEF IndexerTyped, IndexerTypeOK, Handling
<1>2. /\ Head(queue[r]) \in 1..Len(landed) /\ Head(queue[r]) \in Range(queue[r])
      /\ Tail(queue[r]) \in Seq(1..Len(landed))
      /\ Range(queue[r]) = Range(Tail(queue[r])) \cup {Head(queue[r])}
  BY <1>1, RangeTail
<1>3. Current(r) \in Transaction
  BY <1>2 DEF IndexerTyped, IndexerTypeOK, Current
<1>4. DOMAIN got[r] \subseteq UNION Range(Stages(Current(r)))
  BY <1>1, Zenon DEF IndexerTyped, IndexerTypeOK, Current
<1> QED
  BY <1>2, <1>3, <1>4 DEF Transaction, Current

LEMMA SeqSubset == ASSUME NEW S, NEW T, S \subseteq T, NEW q \in Seq(S) PROVE q \in Seq(T)
<1>1. \A k \in 1..Len(q) : q[k] \in T
  OBVIOUS
<1> QED
  BY <1>1

\* A queue of the first n transactions is one of the first k, if k is not less.
LEMMA QueueGrows ==
    ASSUME NEW n \in Nat, NEW k \in Nat, n <= k, NEW q \in Seq(1..n)
    PROVE  q \in Seq(1..k)
<1>1. \A i \in 1..n : i \in 1..k
  OBVIOUS
<1> QED
  BY <1>1

\* The transactions that landed before stay where they are.
LEMMA LandKeeps ==
    ASSUME IndexerTyped, NEW name, NEW m, NEW p, NEW failed, Landing(name, m, p, failed)
    PROVE  LET n  == Len(landed)
               tx == [ name |-> name, market |-> m, position |-> p, failed |-> failed ] IN
           /\ n \in Nat /\ tx \in Transaction
           /\ landed' \in Seq(Transaction)
           /\ Len(landed') = n + 1 /\ landed'[n + 1] = tx
           /\ \A i \in 1..n : landed'[i] = landed[i]
           /\ inbox' = inbox \cup {n + 1}
           /\ UNCHANGED << queue, got, fate >>
           /\ \A r \in Requests : Handling(r) => Current(r)' = Current(r)
<1> DEFINE tx == [ name |-> name, market |-> m, position |-> p, failed |-> failed ]
<1>1. tx \in Transaction
  BY DEF Landing, Transaction
<1>2. landed' = Append(landed, tx) /\ landed \in Seq(Transaction)
  BY DEF Landing, Land, IndexerTyped, IndexerTypeOK
<1> HIDE DEF tx
<1>3. /\ Len(landed) \in Nat /\ landed' \in Seq(Transaction)
      /\ Len(landed') = Len(landed) + 1 /\ landed'[Len(landed) + 1] = tx
      /\ \A i \in 1..Len(landed) : landed'[i] = landed[i]
  BY <1>1, <1>2
<1>4. inbox' = inbox \cup {Len(landed) + 1} /\ UNCHANGED << queue, got, fate >>
  BY <1>3 DEF Landing, Land
<1>5. ASSUME NEW r \in Requests, Handling(r) PROVE Current(r)' = Current(r)
  <2>1. Head(queue[r]) \in 1..Len(landed)
    BY <1>5, WorkType
  <2> QED
    BY <1>3, <1>4, <2>1 DEF Current
<1> QED
  BY <1>1, <1>3, <1>4, <1>5 DEF tx

LEMMA LandType ==
    ASSUME IndexerTyped, NEW name, NEW m, NEW p, NEW failed, Landing(name, m, p, failed)
    PROVE  IndexerTyped'
<1> DEFINE n == Len(landed)
<1>1. /\ n \in Nat /\ landed' \in Seq(Transaction) /\ Len(landed') = n + 1
      /\ inbox' = inbox \cup {n + 1}
      /\ UNCHANGED << queue, got, fate >>
      /\ \A r \in Requests : Handling(r) => Current(r)' = Current(r)
  BY LandKeeps
<1>2. /\ inbox \subseteq 1..n /\ queue \in [Requests -> Seq(1..n)]
      /\ fate \in [Fates -> SUBSET (1..n)]
      /\ changed \in [Accounts -> 0..n]
      /\ faults \in 0..MaxFaults
  BY DEF IndexerTyped, IndexerTypeOK
<1>3. changed' = [ a \in Accounts |->
                      IF Content(a)' = Content(a) THEN changed[a] ELSE Len(landed') ]
  BY DEF Landing, Land
<1>4. faults' \in 0..MaxFaults
  BY <1>2 DEF Landing
<1> HIDE DEF n
<1>5. queue' \in [Requests -> Seq(1..n + 1)]
  <2>1. \A r \in Requests : queue[r] \in Seq(1..n + 1)
    BY <1>1, <1>2, QueueGrows
  <2> QED
    BY <1>1, <1>2, <2>1
<1>6. changed' \in [Accounts -> 0..n + 1]
  BY <1>1, <1>2, <1>3
<1>7. inbox' \subseteq 1..n + 1 /\ fate' \in [Fates -> SUBSET (1..n + 1)]
  <2>1. 1..n \subseteq 1..n + 1 /\ n + 1 \in 1..n + 1
    BY <1>1
  <2> QED
    BY <1>1, <1>2, <2>1
<1>8. \A r \in Requests : DOMAIN got'[r] \subseteq
           (IF queue'[r] = << >> THEN {} ELSE UNION Range(Stages(landed'[Head(queue'[r])])))
  <2>1. SUFFICES ASSUME NEW r \in Requests
                 PROVE  DOMAIN got[r] \subseteq
           (IF queue[r] = << >> THEN {} ELSE UNION Range(Stages(landed'[Head(queue[r])])))
    BY <1>1
  <2>2. CASE Handling(r)
    <3>1. Current(r)' = landed[Head(queue[r])]
      BY <1>1, <2>2 DEF Current
    <3>2. landed'[Head(queue[r])] = landed[Head(queue[r])]
      BY <1>1, <3>1 DEF Current
    <3> QED
      BY <3>2 DEF IndexerTyped, IndexerTypeOK
  <2>3. CASE ~Handling(r)
    BY <2>3 DEF IndexerTyped, IndexerTypeOK, Handling
  <2> QED
    BY <2>2, <2>3
<1>9. got' = [ r \in Requests |-> got'[r] ]
  BY <1>1 DEF IndexerTyped, IndexerTypeOK
<1> QED
  BY <1>1, <1>4, <1>5, <1>6, <1>7, <1>8, <1>9 DEF IndexerTyped, IndexerTypeOK

\* The steps that leave the transactions alone: what they must keep.
LEMMA WorkKeepsType ==
    ASSUME IndexerTyped, UNCHANGED << landed, changed >>, inbox' \subseteq inbox,
           queue' \in [Requests -> Seq(1..Len(landed))],
           fate' \in [Fates -> SUBSET (1..Len(landed))], faults' \in 0..MaxFaults,
           got' = [ r \in Requests |-> got'[r] ],
           \A r \in Requests :
              \/ DOMAIN got'[r] = {}
              \/ UNCHANGED << got[r], queue[r] >>
              \/ /\ queue[r] # << >> /\ queue'[r] = queue[r]
                 /\ DOMAIN got'[r] \subseteq UNION Range(Stages(Current(r)))
    PROVE  IndexerTyped'
<1>1. \A r \in Requests : DOMAIN got'[r] \subseteq
           (IF queue'[r] = << >> THEN {} ELSE UNION Range(Stages(landed[Head(queue'[r])])))
  <2>1. SUFFICES ASSUME NEW r \in Requests
                 PROVE  DOMAIN got'[r] \subseteq
           (IF queue'[r] = << >> THEN {} ELSE UNION Range(Stages(landed[Head(queue'[r])])))
    OBVIOUS
  <2>2. DOMAIN got[r] \subseteq
           (IF queue[r] = << >> THEN {} ELSE UNION Range(Stages(landed[Head(queue[r])])))
    BY DEF IndexerTyped, IndexerTypeOK
  <2> QED
    BY <2>2 DEF Current
<1>2. \A r \in Requests : DOMAIN got'[r] \subseteq
           (IF queue'[r] = << >> THEN {} ELSE UNION Range(Stages(landed'[Head(queue'[r])])))
  BY <1>1
<1> QED
  BY <1>2 DEF IndexerTyped, IndexerTypeOK

\* What each kind of step leaves in the queues.
LEMMA AcceptEffect ==
    ASSUME IndexerTyped, NEW r, NEW batch, Accepting(r, batch)
    PROVE  /\ r \in Requests /\ queue[r] = << >>
           /\ Successful(batch) \in Seq(1..Len(landed))
           /\ Range(Successful(batch)) = { i \in Range(batch) : ~landed[i].failed }
           /\ queue' = [ queue EXCEPT ![r] = Successful(batch) ]
           /\ inbox' \subseteq inbox /\ inbox \ Range(batch) \subseteq inbox'
           /\ UNCHANGED << vars, landed, got, fate, changed >>
<1>1. batch \in Seq(inbox) /\ inbox \subseteq 1..Len(landed)
  BY DEF Accepting, IndexerTyped, IndexerTypeOK
<1>2. batch \in Seq(1..Len(landed))
  BY <1>1, SeqSubset
<1>3. /\ Successful(batch) \in Seq(1..Len(landed))
      /\ Range(Successful(batch)) = { i \in Range(batch) : ~landed[i].failed }
  BY <1>2, SuccessfulType
<1>4. Accept(r, batch)
  BY DEF Accepting
<1> QED
  BY <1>3, <1>4 DEF Accepting, Accept

\* A batch that is dropped.
LEMMA DropEffect ==
    ASSUME IndexerTyped, DeliverMalformed
    PROVE  \E R \in SUBSET inbox :
              /\ inbox' = inbox \ R /\ Ends("unparsed", R) /\ R \subseteq 1..Len(landed)
              /\ OneMoreFault
              /\ UNCHANGED << vars, landed, queue, got, changed >>
<1>1. PICK batch \in Batches : inbox' = inbox \ Range(batch) /\ Ends("unparsed", Range(batch))
  BY DEF DeliverMalformed
<1>2. Range(batch) \subseteq inbox
  BY BatchType DEF Range
<1>3. inbox \subseteq 1..Len(landed)
  BY DEF IndexerTyped, IndexerTypeOK
<1> QED
  BY <1>1, <1>2, <1>3 DEF DeliverMalformed

\* What a request leaves when it is done with a transaction.
LEMMA EndEffect ==
    ASSUME IndexerTyped, NEW r, NEW f, Ending(r, f)
    PROVE  /\ f \in Fates /\ queue'[r] = Tail(queue[r]) /\ got'[r] = << >>
           /\ \A x \in Requests \ {r} : queue'[x] = queue[x] /\ got'[x] = got[x]
<1>1. f \in Fates
  BY DEF Ending, Fates
<1>2. queue \in [Requests -> Seq(1..Len(landed))] /\ got = [ x \in Requests |-> got[x] ]
  BY DEF IndexerTyped, IndexerTypeOK
<1>3. /\ r \in Requests /\ queue' = [ queue EXCEPT ![r] = Tail(@) ]
      /\ got' = [ got EXCEPT ![r] = << >> ]
  BY DEF Ending
<1> QED
  BY <1>1, <1>2, <1>3

LEMMA EndsType ==
    ASSUME IndexerTyped, NEW f \in Fates, NEW R \in SUBSET (1..Len(landed)), Ends(f, R)
    PROVE  fate' \in [Fates -> SUBSET (1..Len(landed))]
  BY DEF Ends, IndexerTyped, IndexerTypeOK

LEMMA WorkTypes ==
    ASSUME IndexerTyped,
           \/ \E r, batch : Accepting(r, batch)
           \/ \E r, read : Answering(r, read)
           \/ \E r, f : Ending(r, f)
           \/ DeliverMalformed
           \/ Crash
    PROVE  IndexerTyped'
<1> DEFINE n == Len(landed)
<1>0. /\ n \in Nat /\ landed \in Seq(Transaction) /\ inbox \subseteq 1..n
      /\ queue \in [Requests -> Seq(1..n)] /\ fate \in [Fates -> SUBSET (1..n)]
      /\ faults \in 0..MaxFaults /\ MaxFaults \in Nat
      /\ got = [ r \in Requests |-> got[r] ]
  BY IndexerConstants DEF IndexerTyped, IndexerTypeOK
<1>1. ASSUME NEW r, NEW batch, Accepting(r, batch) PROVE IndexerTyped'
  <2>1. faults' \in 0..MaxFaults
    BY <1>0, <1>1 DEF Accepting
  <2>2. queue' \in [Requests -> Seq(1..n)]
    BY <1>0, <1>1, AcceptEffect
  <2>3. \A x \in Requests : DOMAIN got'[x] = {} \/ UNCHANGED << got[x], queue[x] >>
    <3>1. DOMAIN got[r] = {}
      BY <1>1, AcceptEffect DEF IndexerTyped, IndexerTypeOK
    <3> QED
      BY <1>0, <1>1, <3>1, AcceptEffect
  <2> QED
    BY <1>0, <1>1, <2>1, <2>2, <2>3, AcceptEffect, WorkKeepsType
<1>2. ASSUME NEW r, NEW read, Answering(r, read) PROVE IndexerTyped'
  <2> DEFINE answer == Answer(read, Current(r))
  <2>1. /\ r \in Requests /\ Handling(r) /\ read \in InFlight(Current(r), got[r])
        /\ got' = [ got EXCEPT ![r] = WithAnswer(@, read, answer) ]
        /\ UNCHANGED << landed, inbox, queue, fate, changed, faults >>
    BY <1>2 DEF Answering
  <2> HIDE DEF answer
  <2>2. read \in UNION Range(Stages(Current(r)))
    BY <2>1, WorkType, InFlightReads
  <2>3. DOMAIN got'[r] \subseteq UNION Range(Stages(Current(r)))
    <3>1. DOMAIN got[r] \subseteq UNION Range(Stages(Current(r)))
      BY <2>1, WorkType
    <3>2. got'[r] = WithAnswer(got[r], read, answer)
      BY <1>0, <2>1
    <3>3. DOMAIN got'[r] = DOMAIN got[r] \cup {read}
      BY <3>2 DEF WithAnswer
    <3> QED
      BY <2>2, <3>1, <3>3
  <2>4. \A x \in Requests \ {r} : UNCHANGED << got[x], queue[x] >>
    BY <1>0, <2>1
  <2>5. got' = [ x \in Requests |-> got'[x] ]
    BY <1>0, <2>1
  <2> QED
    BY <1>0, <2>1, <2>3, <2>4, <2>5, WorkKeepsType DEF Handling
<1>3. ASSUME NEW r, NEW f, Ending(r, f) PROVE IndexerTyped'
  <2>1. r \in Requests /\ Handling(r) /\ Ends(f, {Head(queue[r])})
    BY <1>3 DEF Ending
  <2>2. Tail(queue[r]) \in Seq(1..n) /\ Head(queue[r]) \in 1..n
    BY <2>1, WorkType
  <2>3. queue' \in [Requests -> Seq(1..n)]
    BY <1>0, <1>3, <2>2 DEF Ending
  <2>4. fate' \in [Fates -> SUBSET (1..n)]
    BY <1>3, <2>1, <2>2, EndEffect, EndsType
  <2>5. faults' \in 0..MaxFaults
    BY <1>0, <1>3 DEF Ending, OneMoreFault
  <2>6. got' = [ x \in Requests |-> got'[x] ]
    BY <1>0, <1>3 DEF Ending
  <2>7. \A x \in Requests : DOMAIN got'[x] = {} \/ UNCHANGED << got[x], queue[x] >>
    BY <1>3, EndEffect
  <2>8. UNCHANGED << landed, changed >> /\ inbox' = inbox
    BY <1>3 DEF Ending
  <2> QED
    BY <2>3, <2>4, <2>5, <2>6, <2>7, <2>8, WorkKeepsType
<1>4. ASSUME DeliverMalformed PROVE IndexerTyped'
  <2>1. PICK R \in SUBSET inbox :
              /\ inbox' = inbox \ R /\ Ends("unparsed", R) /\ R \subseteq 1..n
              /\ OneMoreFault
              /\ UNCHANGED << landed, queue, got, changed >>
    BY <1>4, DropEffect
  <2>2. faults' \in 0..MaxFaults
    BY <1>0, <2>1 DEF OneMoreFault
  <2>3. fate' \in [Fates -> SUBSET (1..n)]
    BY <2>1, EndsType DEF Fates
  <2> QED
    BY <1>0, <2>1, <2>2, <2>3, WorkKeepsType
<1>5. ASSUME Crash PROVE IndexerTyped'
  <2>1. \A r \in Requests : Range(queue[r]) \subseteq 1..n
    BY <1>0 DEF Range
  <2>2. fate' \in [Fates -> SUBSET (1..n)]
    BY <1>5, <2>1, EndsType DEF Crash, Fates
  <2>3. faults' \in 0..MaxFaults
    BY <1>0, <1>5 DEF Crash, OneMoreFault
  <2> QED
    BY <1>0, <1>5, <2>2, <2>3, WorkKeepsType DEF Crash
<1> QED
  BY <1>1, <1>2, <1>3, <1>4, <1>5

LEMMA IndexerTypedNext == IndexerTyped /\ [IndexerNext]_allVars => IndexerTyped'
<1> SUFFICES ASSUME IndexerTyped, [IndexerNext]_allVars PROVE IndexerTyped'
  OBVIOUS
<1>1. faults \in 0..MaxFaults
  BY DEF IndexerTyped, IndexerTypeOK
<1>2. CASE Resting
  BY <1>2 DEF Resting, indexerVars, IndexerTyped, IndexerTypeOK
<1> QED
  BY <1>1, <1>2, StepKinds, LandType, WorkTypes

LEMMA IndexerTypedInit == IndexerInit => IndexerTyped
  BY IndexerConstants DEF IndexerInit, IndexerTyped, IndexerTypeOK

\* Every queue, history and count of the indexer holds a value of its type, and a request
\* holds only answers to the reads of the transaction it is handling.
THEOREM IndexerTypeCorrect == IndexerSpec => []IndexerTypeOK
<1>1. IndexerTyped => IndexerTypeOK
  BY DEF IndexerTyped
<1> QED
  BY <1>1, IndexerTypedInit, IndexerTypedNext, PTL DEF IndexerSpec
----------------------------------------------------------------------------
(* Which accounts an instruction changes. *)

LEMMA MarketFrame ==
    ASSUME NEW x,
           x \in created' <=> x \in created, x \in closed' <=> x \in closed,
           x \in resolved' <=> x \in resolved, x \in reclaimed' <=> x \in reclaimed,
           total_pool'[x] = total_pool[x], outcome'[x] = outcome[x]
    PROVE  MarketData(x)' = MarketData(x)
<1>1. CASE x \notin created
  BY <1>1 DEF MarketData
<1>2. CASE x \in created
  <2>1. /\ (x \in closed') = (x \in closed) /\ (x \in resolved') = (x \in resolved)
        /\ (x \in reclaimed') = (x \in reclaimed)
    OBVIOUS
  <2>2. (IF x \in resolved' THEN {outcome'[x].final_outcome} ELSE {})
           = (IF x \in resolved THEN {outcome[x].final_outcome} ELSE {})
    OBVIOUS
  <2> QED
    BY <1>2, <2>1, <2>2, Zenon DEF MarketData
<1> QED
  BY <1>1, <1>2

LEMMA ReportFrame ==
    ASSUME NEW x, x \in created' <=> x \in created, report'[x] = report[x]
    PROVE  OracleReportData(x)' = OracleReportData(x)
  BY DEF OracleReportData

LEMMA MarketChanges ==
    ASSUME TypeOK, NEW name, NEW m \in Markets, NEW p \in Positions, Instruction(name, m, p),
           NEW x \in Markets, MarketData(x)' # MarketData(x)
    PROVE  x = m /\ name \in {"create_market", "place_bet", "close_market",
                              "resolve_market", "reclaim_pool"}
<1>1. CASE name = "initialize_treasury" /\ InitializeTreasury
  BY <1>1, MarketFrame DEF InitializeTreasury, flags, marketVars
<1>2. ASSUME NEW d \in StartDelays, NEW r \in Radii, NEW set \in OracleSets, NEW t \in Thresholds,
             name = "create_market", CreateMarket(m, d, r, set, t)
      PROVE  x = m
  BY <1>2, MarketFrame DEF CreateMarket
<1>3. ASSUME NEW amount \in Amounts, name = "place_bet", PlaceBet(m, p[1], p[2], amount)
      PROVE  x = m
  <2>1. total_pool' = [ total_pool EXCEPT ![m] = @ + amount ]
        /\ UNCHANGED << created, closed, resolved, reclaimed, outcome >>
    BY <1>3 DEF PlaceBet, flags
  <2> QED
    BY <2>1, MarketFrame DEF TypeOK
<1>4. CASE name = "close_market" /\ CloseMarket(m)
  <2>1. closed' = closed \cup {m}
        /\ UNCHANGED << created, resolved, reclaimed, total_pool, outcome >>
    BY <1>4 DEF CloseMarket, marketVars
  <2> QED
    BY <1>4, <2>1, MarketFrame
<1>5. ASSUME NEW s \in Signers, NEW score \in Scores,
             name = "submit_score", SubmitScore(m, s, score)
      PROVE  FALSE
  BY <1>5, MarketFrame DEF SubmitScore, flags, marketVars
<1>6. CASE name = "resolve_market" /\ ResolveMarket(m)
  <2>1. resolved' = resolved \cup {m} /\ \A y \in Markets \ {m} : outcome'[y] = outcome[y]
        /\ UNCHANGED << created, closed, reclaimed, total_pool >>
    BY <1>6 DEF ResolveMarket, TypeOK
  <2> QED
    BY <1>6, <2>1, MarketFrame
<1>7. CASE name = "claim_reward" /\ ClaimReward(m, p[1], p[2])
  BY <1>7, MarketFrame DEF ClaimReward, flags, marketVars
<1>8. CASE name = "reclaim_pool" /\ ReclaimPool(m)
  <2>1. reclaimed' = reclaimed \cup {m}
        /\ UNCHANGED << created, closed, resolved, total_pool, outcome >>
    BY <1>8 DEF ReclaimPool, marketVars
  <2> QED
    BY <1>8, <2>1, MarketFrame
<1> QED
  BY <1>1, <1>2, <1>3, <1>4, <1>5, <1>6, <1>7, <1>8 DEF Instruction

LEMMA ReportChanges ==
    ASSUME TypeOK, NEW name, NEW m \in Markets, NEW p \in Positions, Instruction(name, m, p),
           NEW x \in Markets, OracleReportData(x)' # OracleReportData(x)
    PROVE  x = m /\ name \in {"create_market", "submit_score"}
<1>1. ASSUME UNCHANGED << created, report >> PROVE FALSE
  BY <1>1, ReportFrame
<1>2. CASE name = "initialize_treasury" /\ InitializeTreasury
  BY <1>1, <1>2 DEF InitializeTreasury, flags
<1>3. ASSUME NEW d \in StartDelays, NEW r \in Radii, NEW set \in OracleSets, NEW t \in Thresholds,
             name = "create_market", CreateMarket(m, d, r, set, t)
      PROVE  x = m
  <2>1. created' = created \cup {m} /\ report' = [ report EXCEPT ![m] = EmptyReport ]
    BY <1>3 DEF CreateMarket
  <2> QED
    BY <2>1, ReportFrame DEF TypeOK
<1>4. ASSUME NEW s \in Signers, NEW score \in Scores,
             name = "submit_score", SubmitScore(m, s, score)
      PROVE  x = m
  <2>1. \A y \in Markets \ {m} : report'[y] = report[y]
    BY <1>4 DEF SubmitScore, TypeOK
  <2>2. UNCHANGED created
    BY <1>4 DEF SubmitScore, flags
  <2> QED
    BY <2>1, <2>2, ReportFrame
<1>5. ASSUME NEW amount \in Amounts, PlaceBet(m, p[1], p[2], amount) PROVE FALSE
  BY <1>1, <1>5 DEF PlaceBet, flags
<1>6. CASE CloseMarket(m) \/ ResolveMarket(m) \/ ClaimReward(m, p[1], p[2]) \/ ReclaimPool(m)
  BY <1>1, <1>6 DEF CloseMarket, ResolveMarket, ClaimReward, ReclaimPool, flags
<1> QED
  BY <1>2, <1>3, <1>4, <1>5, <1>6 DEF Instruction

LEMMA PositionChanges ==
    ASSUME TypeOK, NEW name, NEW m \in Markets, NEW p \in Positions, Instruction(name, m, p),
           NEW x \in Markets, NEW q \in Positions, position'[x][q] # position[x][q]
    PROVE  x = m /\ q = p /\ name \in {"place_bet", "claim_reward"}
<1>1. ASSUME UNCHANGED position PROVE FALSE
  BY <1>1
<1>2. /\ p[1] \in Users /\ p[2] \in Buckets /\ p = << p[1], p[2] >>
      /\ position \in [Markets -> [Positions -> Position]]
  <2>1. \E u \in Users, b \in Buckets : p = << u, b >>
    BY DEF Positions
  <2> QED
    BY <2>1 DEF TypeOK
<1>3. ASSUME NEW amount \in Amounts, PlaceBet(m, p[1], p[2], amount)
      PROVE  x = m /\ q = p
  <2>1. \E new : position' = [ position EXCEPT ![m][p] = new ]
    BY <1>2, <1>3 DEF PlaceBet
  <2> QED
    BY <1>2, <2>1
<1>4. CASE ClaimReward(m, p[1], p[2])
  <2>1. position' = [ position EXCEPT ![m][p] = NoPosition ]
    BY <1>2, <1>4 DEF ClaimReward
  <2>2. x = m /\ q = p
    BY <1>2, <2>1
  <2> QED
    BY <1>1, <1>4, <2>2 DEF Instruction, InitializeTreasury, CreateMarket, CloseMarket,
                            SubmitScore, ResolveMarket, ReclaimPool, marketVars
<1>5. CASE ~ClaimReward(m, p[1], p[2])
  <2>1. CASE name = "place_bet"
    BY <1>3, <2>1 DEF Instruction
  <2>2. CASE name # "place_bet"
    BY <1>1, <1>5, <2>2 DEF Instruction, InitializeTreasury, CreateMarket, CloseMarket,
                            SubmitScore, ResolveMarket, ReclaimPool
  <2> QED
    BY <2>1, <2>2
<1> QED
  BY <1>4, <1>5

LEMMA AccountKinds ==
    ASSUME NEW a \in Accounts
    PROVE  \/ \E x \in Markets : a = << "market", x, << >> >>
           \/ \E x \in Markets : a = << "report", x, << >> >>
           \/ \E x \in Markets, q \in Positions : a = << "position", x, q >>
  BY DEF Accounts

LEMMA ContentKinds ==
    ASSUME NEW a, NEW x, NEW q
    PROVE  /\ a = << "market", x, << >> >> =>
                 Content(a) = MarketData(x) /\ Content(a)' = MarketData(x)'
           /\ a = << "report", x, << >> >> =>
                 Content(a) = OracleReportData(x) /\ Content(a)' = OracleReportData(x)'
           /\ a = << "position", x, q >> =>
                 Content(a) = UserPositionData(x, q) /\ Content(a)' = UserPositionData(x, q)'
  BY DEF Content

LEMMA PositionFrame ==
    ASSUME NEW x, NEW q, position'[x][q] = position[x][q]
    PROVE  UserPositionData(x, q)' = UserPositionData(x, q)
  BY DEF UserPositionData

\* A step that leaves the program alone changes no account.
LEMMA RestingContent ==
    ASSUME UNCHANGED vars, NEW a \in Accounts
    PROVE  Content(a)' = Content(a)
<1>1. ASSUME NEW x
      PROVE  MarketData(x)' = MarketData(x) /\ OracleReportData(x)' = OracleReportData(x)
  BY MarketFrame, ReportFrame DEF vars
<1>2. ASSUME NEW x, NEW q PROVE UserPositionData(x, q)' = UserPositionData(x, q)
  BY PositionFrame DEF vars
<1> QED
  BY <1>1, <1>2, AccountKinds, ContentKinds

\* Every account that a transaction changes is one its handler reads.
LEMMA LandTells ==
    ASSUME TypeOK, NEW name, NEW m, NEW p, NEW failed, Landing(name, m, p, failed),
           NEW a \in Accounts, Content(a)' # Content(a), NEW tx,
           tx = [ name |-> name, market |-> m, position |-> p, failed |-> failed ]
    PROVE  ~failed /\ Names(tx, a)
<1>1. ~failed
  BY RestingContent DEF Landing
<1>2. Instruction(name, m, p) /\ name \in Instructions /\ m \in Markets /\ p \in Positions
  BY <1>1 DEF Landing
<1>3. tx.name = name /\ tx.market = m /\ tx.position = p
  OBVIOUS
<1>4. ASSUME NEW x \in Markets, a = << "market", x, << >> >> PROVE Names(tx, a)
  <2>1. x = m /\ name \in {"create_market", "place_bet", "close_market",
                           "resolve_market", "reclaim_pool"}
    BY <1>2, <1>4, ContentKinds, MarketChanges
  <2>2. "market" \in UNION Range(Stages(tx))
    BY <1>2, <1>3, <2>1, StagesOf
  <2> QED
    BY <1>3, <1>4, <2>1, <2>2 DEF Names, Account
<1>5. ASSUME NEW x \in Markets, a = << "report", x, << >> >> PROVE Names(tx, a)
  <2>1. x = m /\ name \in {"create_market", "submit_score"}
    BY <1>2, <1>5, ContentKinds, ReportChanges
  <2>2. "report" \in UNION Range(Stages(tx))
    BY <1>2, <1>3, <2>1, StagesOf
  <2> QED
    BY <1>3, <1>5, <2>1, <2>2 DEF Names, Account
<1>6. ASSUME NEW x \in Markets, NEW q \in Positions, a = << "position", x, q >>
      PROVE  Names(tx, a)
  <2>1. x = m /\ q = p /\ name \in {"place_bet", "claim_reward"}
    <3>1. UserPositionData(x, q)' # UserPositionData(x, q)
      BY <1>6, ContentKinds
    <3>2. position'[x][q] # position[x][q]
      BY <3>1, PositionFrame
    <3> QED
      BY <1>2, <3>2, PositionChanges
  <2>2. "position" \in UNION Range(Stages(tx))
    BY <1>2, <1>3, <2>1, StagesOf
  <2> QED
    BY <1>3, <1>6, <2>1, <2>2 DEF Names, Account
<1> QED
  BY <1>1, <1>4, <1>5, <1>6, AccountKinds
----------------------------------------------------------------------------
(* The backlog. *)

\* What the requests work on is typed.
LEMMA RangeType ==
    ASSUME IndexerTyped, NEW r \in Requests
    PROVE  Range(queue[r]) \subseteq 1..Len(landed)
<1>1. queue[r] \in Seq(1..Len(landed))
  BY DEF IndexerTyped, IndexerTypeOK
<1> QED
  BY <1>1 DEF Range

LEMMA SucceededNext ==
    IndexerTyped /\ QueuesSucceeded /\ [IndexerNext]_allVars => QueuesSucceeded'
<1> SUFFICES ASSUME IndexerTyped, QueuesSucceeded, [IndexerNext]_allVars
             PROVE  QueuesSucceeded'
  OBVIOUS
<1>1. CASE Resting
  BY <1>1 DEF Resting, indexerVars, QueuesSucceeded
<1>2. ASSUME NEW name, NEW m, NEW p, NEW failed, Landing(name, m, p, failed)
      PROVE  QueuesSucceeded'
  BY <1>2, LandKeeps, RangeType DEF QueuesSucceeded
<1>3. ASSUME NEW r, NEW batch, Accepting(r, batch) PROVE QueuesSucceeded'
  <2>1. SUFFICES ASSUME NEW x \in Requests, NEW i \in Range(queue'[x])
                 PROVE  ~landed[i].failed
    BY <1>3, AcceptEffect DEF QueuesSucceeded
  <2>2. CASE x = r
    <3>1. queue'[x] = Successful(batch)
      BY <1>3, <2>2, AcceptEffect DEF IndexerTyped, IndexerTypeOK
    <3> QED
      BY <1>3, <3>1, AcceptEffect
  <2>3. CASE x # r
    <3>1. queue'[x] = queue[x]
      BY <1>3, <2>3, AcceptEffect DEF IndexerTyped, IndexerTypeOK
    <3> QED
      BY <3>1 DEF QueuesSucceeded
  <2> QED
    BY <2>2, <2>3
<1>4. ASSUME NEW r, NEW read, Answering(r, read) PROVE QueuesSucceeded'
  BY <1>4 DEF Answering, QueuesSucceeded
<1>5. ASSUME NEW r, NEW f, Ending(r, f) PROVE QueuesSucceeded'
  <2>1. r \in Requests /\ Handling(r) /\ landed' = landed
    BY <1>5 DEF Ending
  <2>2. SUFFICES ASSUME NEW x \in Requests, NEW i \in Range(queue'[x])
                 PROVE  ~landed[i].failed
    BY <2>1 DEF QueuesSucceeded
  <2>3. queue'[x] = queue[x] \/ (x = r /\ queue'[x] = Tail(queue[r]))
    BY <1>5, EndEffect
  <2>4. i \in Range(queue[x])
    BY <2>1, <2>2, <2>3, WorkType
  <2> QED
    BY <2>4 DEF QueuesSucceeded
<1>6. CASE Crash
  <2>1. Range(<< >>) = {}
    BY DEF Range
  <2> QED
    BY <1>6, <2>1 DEF Crash, QueuesSucceeded
<1>7. CASE DeliverMalformed
  BY <1>7 DEF DeliverMalformed, QueuesSucceeded
<1> QED
  BY <1>1, <1>2, <1>3, <1>4, <1>5, <1>6, <1>7, StepKinds DEF IndexerTyped, IndexerTypeOK

\* The history only grows.
LEMMA FatesGrow ==
    ASSUME IndexerTyped, [IndexerNext]_allVars, NEW e \in Fates
    PROVE  fate[e] \subseteq fate'[e]
<1>0. faults \in 0..MaxFaults /\ fate \in [Fates -> SUBSET (1..Len(landed))]
  BY DEF IndexerTyped, IndexerTypeOK
<1>1. ASSUME NEW f \in Fates, NEW R, Ends(f, R) PROVE fate[e] \subseteq fate'[e]
  BY <1>0, <1>1 DEF Ends
<1>2. CASE Resting
  BY <1>2 DEF Resting, indexerVars
<1>3. ASSUME NEW name, NEW m, NEW p, NEW failed, Landing(name, m, p, failed)
      PROVE  UNCHANGED fate
  BY <1>3, LandKeeps
<1>4. ASSUME NEW r, NEW batch, Accepting(r, batch) PROVE UNCHANGED fate
  BY <1>4, AcceptEffect
<1>5. ASSUME NEW r, NEW read, Answering(r, read) PROVE UNCHANGED fate
  BY <1>5 DEF Answering
<1>6. ASSUME NEW r, NEW f, Ending(r, f) PROVE fate[e] \subseteq fate'[e]
  BY <1>1, <1>6, EndEffect DEF Ending
<1>7. CASE DeliverMalformed
  BY <1>1, <1>7, DropEffect DEF Fates
<1>8. CASE Crash
  BY <1>1, <1>8 DEF Crash, Fates
<1> QED
  BY <1>0, <1>2, <1>3, <1>4, <1>5, <1>6, <1>7, <1>8, StepKinds

\* A transaction that succeeded is worked off only by an end of its handling.
LEMMA WorkedOff ==
    ASSUME IndexerTyped, [IndexerNext]_allVars, NEW i \in Backlog, ~landed[i].failed
    PROVE  i \in Backlog' \/ \E e \in Fates : i \in fate'[e]
<1>0. /\ faults \in 0..MaxFaults
      /\ queue \in [Requests -> Seq(1..Len(landed))]
      /\ fate \in [Fates -> SUBSET (1..Len(landed))]
      /\ i \in inbox \/ \E r \in Requests : i \in Range(queue[r])
  BY DEF Backlog, IndexerTyped, IndexerTypeOK
<1>1. ASSUME NEW f \in Fates, NEW R, Ends(f, R), i \in R PROVE \E e \in Fates : i \in fate'[e]
  <2>1. i \in fate'[f]
    BY <1>0, <1>1 DEF Ends
  <2> QED
    BY <2>1
<1>2. ASSUME UNCHANGED queue, inbox \subseteq inbox' PROVE i \in Backlog'
  BY <1>0, <1>2 DEF Backlog
<1>3. ASSUME NEW r, NEW batch, Accepting(r, batch) PROVE i \in Backlog'
  <2>1. CASE i \in inbox /\ i \in Range(batch)
    <3>1. queue'[r] = Successful(batch) /\ i \in Range(Successful(batch)) /\ r \in Requests
      BY <1>0, <1>3, <2>1, AcceptEffect
    <3> QED
      BY <3>1 DEF Backlog
  <2>2. CASE i \in inbox /\ i \notin Range(batch)
    BY <1>3, <2>2, AcceptEffect DEF Backlog
  <2>3. ASSUME NEW x \in Requests, i \in Range(queue[x]) PROVE i \in Backlog'
    <3>1. Range(<< >>) = {}
      BY DEF Range
    <3>2. queue'[x] = queue[x]
      BY <1>0, <1>3, <2>3, <3>1, AcceptEffect
    <3> QED
      BY <2>3, <3>2 DEF Backlog
  <2> QED
    BY <1>0, <2>1, <2>2, <2>3
<1>4. ASSUME NEW r, NEW f, Ending(r, f)
      PROVE  i \in Backlog' \/ \E e \in Fates : i \in fate'[e]
  <2>1. r \in Requests /\ Handling(r) /\ Ends(f, {Head(queue[r])}) /\ inbox' = inbox
    BY <1>4 DEF Ending
  <2>2. CASE i \in inbox
    BY <2>1, <2>2 DEF Backlog
  <2>3. CASE i = Head(queue[r])
    BY <1>1, <1>4, <2>1, <2>3, EndEffect
  <2>4. ASSUME NEW x \in Requests, i \in Range(queue[x]), i # Head(queue[r])
        PROVE  i \in Backlog'
    <3>1. i \in Range(queue'[x])
      BY <1>4, <2>1, <2>4, WorkType, EndEffect
    <3> QED
      BY <3>1 DEF Backlog
  <2> QED
    BY <1>0, <2>2, <2>3, <2>4
<1>5. CASE DeliverMalformed
  <2>1. PICK R \in SUBSET inbox :
            inbox' = inbox \ R /\ Ends("unparsed", R) /\ UNCHANGED queue
    BY <1>5, DropEffect
  <2>2. CASE i \in R
    BY <1>1, <2>1, <2>2 DEF Fates
  <2>3. CASE i \notin R
    BY <1>0, <2>1, <2>3 DEF Backlog
  <2> QED
    BY <2>2, <2>3
<1>6. CASE Crash
  <2>1. /\ Ends("crashed", UNION { Range(queue[r]) : r \in Requests }) /\ inbox' = inbox
        /\ "crashed" \in Fates
    BY <1>6 DEF Crash, Fates
  <2>2. CASE i \in inbox
    BY <2>1, <2>2 DEF Backlog
  <2>3. CASE i \in UNION { Range(queue[r]) : r \in Requests }
    BY <1>1, <2>1, <2>3
  <2> QED
    BY <1>0, <2>2, <2>3
<1>7. ASSUME NEW name, NEW m, NEW p, NEW failed, Landing(name, m, p, failed)
      PROVE  i \in Backlog'
  <2>1. UNCHANGED queue /\ \E k : inbox' = inbox \cup {k}
    BY <1>7, LandKeeps
  <2> QED
    BY <1>2, <2>1
<1>8. CASE Resting
  BY <1>2, <1>8 DEF Resting, indexerVars
<1>9. ASSUME NEW r, NEW read, Answering(r, read) PROVE i \in Backlog'
  BY <1>2, <1>9 DEF Answering
<1> QED
  BY <1>0, <1>3, <1>4, <1>5, <1>6, <1>7, <1>8, <1>9, StepKinds
----------------------------------------------------------------------------
(* What the events show. *)

\* The history of one account over a transaction.
LEMMA LandChanges ==
    ASSUME IndexerTyped, NEW name, NEW m, NEW p, NEW failed, Landing(name, m, p, failed),
           NEW a \in Accounts
    PROVE  /\ changed[a] \in 0..Len(landed) /\ Len(landed) \in Nat
           /\ \/ Content(a)' = Content(a) /\ changed'[a] = changed[a]
              \/ Content(a)' # Content(a) /\ changed'[a] = Len(landed) + 1
<1>1. changed[a] \in 0..Len(landed) /\ Len(landed) \in Nat
  BY DEF IndexerTyped, IndexerTypeOK
<1>2. Len(landed') = Len(landed) + 1
  BY LandKeeps
<1>3. changed' = [ x \in Accounts |->
                      IF Content(x)' = Content(x) THEN changed[x] ELSE Len(landed') ]
  BY DEF Landing, Land
<1>4. changed'[a] = IF Content(a)' = Content(a) THEN changed[a] ELSE Len(landed')
  BY <1>3
<1> QED
  BY <1>1, <1>2, <1>4

\* No other step changes an account or the history.
LEMMA WorkSteps ==
    ASSUME IndexerTyped, [IndexerNext]_allVars
    PROVE  \/ \E name, m, p, failed : Landing(name, m, p, failed)
           \/ /\ UNCHANGED << landed, changed >>
              /\ \A a \in Accounts : Content(a)' = Content(a)
<1>1. faults \in 0..MaxFaults
  BY DEF IndexerTyped, IndexerTypeOK
<1>2. ASSUME UNCHANGED vars, NEW a \in Accounts PROVE Content(a)' = Content(a)
  BY <1>2, RestingContent
<1>3. CASE Resting
  <2>1. UNCHANGED << landed, changed >>
    BY <1>3 DEF Resting, indexerVars
  <2>2. ASSUME Tick, NEW a \in Accounts PROVE Content(a)' = Content(a)
    <3>1. ASSUME NEW x
          PROVE  MarketData(x)' = MarketData(x) /\ OracleReportData(x)' = OracleReportData(x)
      BY <2>2, MarketFrame, ReportFrame DEF Tick, flags, marketVars
    <3>2. ASSUME NEW x, NEW q PROVE UserPositionData(x, q)' = UserPositionData(x, q)
      BY <2>2, PositionFrame DEF Tick
    <3> QED
      BY <3>1, <3>2, AccountKinds, ContentKinds
  <2> QED
    BY <1>2, <1>3, <2>1, <2>2 DEF Resting
<1>4. ASSUME NEW r, NEW read, Answering(r, read)
      PROVE  UNCHANGED vars /\ UNCHANGED << landed, changed >>
  BY <1>4 DEF Answering
<1>5. CASE Crash
  <2>1. UNCHANGED vars /\ UNCHANGED << landed, changed >>
    BY <1>5 DEF Crash
  <2> QED
    BY <1>2, <2>1
<1>6. CASE \/ \E r, batch : Accepting(r, batch)
           \/ \E r, f : Ending(r, f)
           \/ DeliverMalformed
  <2>1. UNCHANGED vars /\ UNCHANGED << landed, changed >>
    BY <1>6, AcceptEffect, DropEffect DEF Ending
  <2> QED
    BY <1>2, <2>1
<1> QED
  BY <1>1, <1>2, <1>3, <1>4, <1>5, <1>6, StepKinds

LEMMA ChangeNamedNext ==
    TypeOK /\ IndexerTyped /\ ChangeNamed /\ [IndexerNext]_allVars => ChangeNamed'
<1> SUFFICES ASSUME TypeOK, IndexerTyped, ChangeNamed, [IndexerNext]_allVars,
                    NEW a \in Accounts, changed'[a] > 0
             PROVE  ~landed'[changed'[a]].failed /\ Names(landed'[changed'[a]], a)
  BY DEF ChangeNamed, Names
<1>1. CASE UNCHANGED << landed, changed >>
  BY <1>1 DEF ChangeNamed
<1>2. ASSUME NEW name, NEW m, NEW p, NEW failed, Landing(name, m, p, failed)
      PROVE  ~landed'[changed'[a]].failed /\ Names(landed'[changed'[a]], a)
  <2> DEFINE tx == [ name |-> name, market |-> m, position |-> p, failed |-> failed ]
  <2>1. /\ Len(landed) \in Nat
        /\ landed'[Len(landed) + 1] = tx
        /\ \A i \in 1..Len(landed) : landed'[i] = landed[i]
    BY <1>2, LandKeeps
  <2>2. CASE Content(a)' = Content(a) /\ changed'[a] = changed[a]
    <3>1. changed[a] \in 1..Len(landed) /\ landed'[changed[a]] = landed[changed[a]]
      BY <1>2, <2>1, <2>2, LandChanges
    <3> QED
      BY <2>2, <3>1 DEF ChangeNamed
  <2>3. CASE Content(a)' # Content(a) /\ changed'[a] = Len(landed) + 1
    <3>1. ~tx.failed /\ Names(tx, a)
      BY <1>2, <2>3, LandTells
    <3> QED
      BY <2>1, <2>3, <3>1
  <2> QED
    BY <1>2, <2>2, <2>3, LandChanges
<1> QED
  BY <1>1, <1>2, WorkSteps

\* A read on behalf of a transaction answers the account it names.
LEMMA AnswerIsContent ==
    ASSUME NEW tx, NEW a \in Accounts, a = Account(a[1], tx)
    PROVE  Answer(a[1], tx) = Content(a)
<1>1. CASE a[1] = "position"
  BY <1>1 DEF Account, Answer, Content
<1>2. CASE a[1] # "position"
  BY <1>2, AccountKinds DEF Account, Answer, Content
<1> QED
  BY <1>1, <1>2

\* What one step may do to the work of one request.
LEMMA RequestSteps ==
    ASSUME IndexerTyped, [IndexerNext]_allVars, NEW x \in Requests, Handling(x)'
    PROVE  \/ DOMAIN got'[x] = {}
           \/ /\ UNCHANGED << got[x], queue[x] >> /\ Handling(x) /\ Current(x)' = Current(x)
           \/ /\ UNCHANGED << vars, queue[x] >> /\ Handling(x) /\ Current(x)' = Current(x)
              /\ \E read \in InFlight(Current(x), got[x]) :
                    /\ Answer(read, Current(x)).exists
                    /\ got'[x] = WithAnswer(got[x], read, Answer(read, Current(x)))
<1>0. /\ faults \in 0..MaxFaults
      /\ got = [ r \in Requests |-> got[r] ] /\ queue \in [Requests -> Seq(1..Len(landed))]
  BY DEF IndexerTyped, IndexerTypeOK
<1>1. ASSUME UNCHANGED << landed, got[x], queue[x] >>
      PROVE  UNCHANGED << got[x], queue[x] >> /\ Handling(x) /\ Current(x)' = Current(x)
  BY <1>1 DEF Handling, Current
<1>2. CASE Resting
  BY <1>1, <1>2 DEF Resting, indexerVars
<1>3. ASSUME NEW name, NEW m, NEW p, NEW failed, Landing(name, m, p, failed)
      PROVE  UNCHANGED << got[x], queue[x] >> /\ Handling(x) /\ Current(x)' = Current(x)
  <2>1. UNCHANGED << got, queue >>
    BY <1>3, LandKeeps
  <2>2. Handling(x)
    BY <2>1 DEF Handling
  <2> QED
    BY <1>3, <2>1, <2>2, LandKeeps
<1>4. ASSUME NEW r, NEW batch, Accepting(r, batch)
      PROVE  DOMAIN got'[x] = {} \/ UNCHANGED << landed, got[x], queue[x] >>
  <2>1. CASE x = r
    <3>1. queue[x] = << >> /\ got'[x] = got[x]
      BY <1>4, <2>1, AcceptEffect
    <3> QED
      BY <3>1 DEF IndexerTyped, IndexerTypeOK
  <2>2. CASE x # r
    BY <1>0, <1>4, <2>2, AcceptEffect
  <2> QED
    BY <2>1, <2>2
<1>5. ASSUME NEW r, NEW read, Answering(r, read), x = r
      PROVE  /\ UNCHANGED << vars, queue[x] >> /\ Handling(x) /\ Current(x)' = Current(x)
             /\ \E z \in InFlight(Current(x), got[x]) :
                    /\ Answer(z, Current(x)).exists
                    /\ got'[x] = WithAnswer(got[x], z, Answer(z, Current(x)))
  <2>1. /\ UNCHANGED vars /\ UNCHANGED << landed, queue >> /\ Handling(x)
        /\ read \in InFlight(Current(x), got[x]) /\ Answer(read, Current(x)).exists
        /\ got' = [ got EXCEPT ![x] = WithAnswer(@, read, Answer(read, Current(x))) ]
    BY <1>5 DEF Answering
  <2>2. got'[x] = WithAnswer(got[x], read, Answer(read, Current(x)))
    BY <1>0, <2>1
  <2>3. Current(x)' = Current(x)
    BY <2>1 DEF Current
  <2> QED
    BY <2>1, <2>2, <2>3
<1>6. ASSUME NEW r, NEW read, Answering(r, read), x # r
      PROVE  UNCHANGED << landed, got[x], queue[x] >>
  BY <1>0, <1>6 DEF Answering
<1>7. ASSUME NEW r, NEW f, Ending(r, f)
      PROVE  DOMAIN got'[x] = {} \/ UNCHANGED << landed, got[x], queue[x] >>
  <2>1. landed' = landed
    BY <1>7, Zenon DEF Ending
  <2>2. got'[x] = << >> \/ (queue'[x] = queue[x] /\ got'[x] = got[x])
    BY <1>7, EndEffect
  <2> QED
    BY <2>1, <2>2
<1>8. CASE Crash
  BY <1>8 DEF Crash, Handling
<1>9. CASE DeliverMalformed
  <2>1. UNCHANGED << landed, queue, got >>
    BY <1>9, DropEffect
  <2> QED
    BY <1>1, <2>1
<1> QED
  BY <1>0, <1>1, <1>2, <1>3, <1>4, <1>5, <1>6, <1>7, <1>8, <1>9, StepKinds

LEMMA ReadsCurrentNext ==
    TypeOK /\ IndexerTyped /\ ReadsCurrent /\ [IndexerNext]_allVars => ReadsCurrent'
<1> SUFFICES ASSUME TypeOK, IndexerTyped, ReadsCurrent, [IndexerNext]_allVars,
                    NEW r \in Requests, Handling(r)', NEW a \in Accounts,
                    a[1] \in DOMAIN got'[r], a = Account(a[1], Current(r)'),
                    Head(queue'[r]) >= changed'[a]
             PROVE  got'[r][a[1]] = Content(a)'
  BY DEF ReadsCurrent, Account
<1>1. /\ queue'[r] = queue[r] /\ Handling(r) /\ Current(r)' = Current(r)
      /\ \/ got'[r] = got[r]
         \/ /\ UNCHANGED vars
            /\ \E read \in InFlight(Current(r), got[r]) :
                    got'[r] = WithAnswer(got[r], read, Answer(read, Current(r)))
  BY RequestSteps
<1>2. Head(queue[r]) \in 1..Len(landed)
  BY <1>1, WorkType
<1>3. Content(a)' = Content(a) /\ changed'[a] = changed[a]
  <2>1. ASSUME NEW name, NEW m, NEW p, NEW failed, Landing(name, m, p, failed)
        PROVE  Content(a)' = Content(a) /\ changed'[a] = changed[a]
    BY <1>1, <1>2, <2>1, LandChanges
  <2> QED
    BY <2>1, WorkSteps
<1>4. a[1] \in DOMAIN got[r] => got[r][a[1]] = Content(a)
  BY <1>1, <1>3 DEF ReadsCurrent
<1>5. CASE got'[r] = got[r]
  BY <1>3, <1>4, <1>5
<1>6. ASSUME NEW read, got'[r] = WithAnswer(got[r], read, Answer(read, Current(r)))
      PROVE  got'[r][a[1]] = Content(a)'
  <2>1. CASE a[1] = read
    <3>1. got'[r][a[1]] = Answer(a[1], Current(r))
      BY <1>6, <2>1 DEF WithAnswer
    <3> QED
      BY <1>1, <1>3, <3>1, AnswerIsContent
  <2>2. CASE a[1] # read
    <3>1. a[1] \in DOMAIN got[r] /\ got'[r][a[1]] = got[r][a[1]]
      BY <1>6, <2>2 DEF WithAnswer
    <3> QED
      BY <1>3, <1>4, <3>1
  <2> QED
    BY <2>1, <2>2
<1> QED
  BY <1>1, <1>5, <1>6

\* In whatever order the webhook hears of the transactions, reads and posts, and whatever
\* fails: the event for the last transaction that changed an account shows the account.
THEOREM EventsFollow == IndexerSpec => []EventsCurrent
<1>1. TypeOK /\ IndexerTyped /\ (ChangeNamed /\ ReadsCurrent) /\ [IndexerNext]_allVars
        => (ChangeNamed /\ ReadsCurrent)'
  BY ChangeNamedNext, ReadsCurrentNext
<1>2. IndexerInit => ChangeNamed /\ ReadsCurrent
  <2>1. IndexerInit => \A a \in Accounts : changed[a] = 0
    BY DEF IndexerInit
  <2> QED
    BY <2>1 DEF IndexerInit, ChangeNamed, ReadsCurrent, Handling
<1>3. IndexerTyped /\ (ChangeNamed /\ ReadsCurrent) => EventsCurrent
  <2> SUFFICES ASSUME IndexerTyped, ChangeNamed, ReadsCurrent, NEW r \in Requests,
                      NEW a \in Accounts, Posting(r), changed[a] = Head(queue[r])
               PROVE  \E read \in DOMAIN got[r] :
                          a = Account(read, Current(r)) /\ got[r][read] = Content(a)
    BY DEF EventsCurrent, Event
  <2>1. Handling(r) /\ InFlight(Current(r), got[r]) = {}
    BY DEF Posting, Handling
  <2>2. /\ Head(queue[r]) \in Nat \ {0} /\ Current(r) = landed[Head(queue[r])]
        /\ Current(r).name \in Instructions
    BY <2>1, WorkType
  <2>3. Names(Current(r), a)
    BY <2>2 DEF ChangeNamed
  <2>4. a[1] \in DOMAIN got[r] /\ a = Account(a[1], Current(r))
    BY <2>1, <2>2, <2>3, InFlightNone DEF Names
  <2>5. got[r][a[1]] = Content(a)
    BY <2>1, <2>2, <2>4 DEF ReadsCurrent
  <2> QED
    BY <2>4, <2>5
<1> QED
  BY <1>1, <1>2, <1>3, IndexerTypedInit, IndexerTypedNext, ProgramRuns, TypeCorrect,
     PTL DEF IndexerSpec
----------------------------------------------------------------------------
(* The pools of the buckets. *)

LEMMA CoversNext == TypeOK /\ BucketCovers /\ [Next]_vars => BucketCovers'
<1> SUFFICES ASSUME TypeOK, BucketCovers, [Next]_vars,
                    NEW x \in Markets, NEW q \in Positions
             PROVE  /\ position'[x][q].amount <= pool'[x][q[2]]
                    /\ position'[x][q].weighted_amount <= weighted_pool'[x][q[2]]
  BY DEF BucketCovers
<1>0. /\ q[2] \in Buckets
      /\ pool \in [Markets -> [Buckets -> Nat]]
      /\ weighted_pool \in [Markets -> [Buckets -> Nat]]
      /\ position \in [Markets -> [Positions -> Position]]
      /\ position[x][q].amount \in Nat /\ position[x][q].weighted_amount \in Nat
      /\ position[x][q].amount <= pool[x][q[2]]
      /\ position[x][q].weighted_amount <= weighted_pool[x][q[2]]
  <2>1. q[2] \in Buckets
    BY DEF Positions
  <2> QED
    BY <2>1 DEF TypeOK, Position, BucketCovers
<1>1. CASE UNCHANGED << pool, weighted_pool, position >>
  BY <1>0, <1>1
<1>2. ASSUME NEW m \in Markets, NEW u \in Users, NEW y \in BucketArgs,
             NEW amount \in Amounts, PlaceBet(m, u, y, amount)
      PROVE  /\ position'[x][q].amount <= pool'[x][q[2]]
             /\ position'[x][q].weighted_amount <= weighted_pool'[x][q[2]]
  <2>1. PICK w \in Nat : /\ pool' = [ pool EXCEPT ![m][y] = @ + amount ]
                         /\ weighted_pool' = [ weighted_pool EXCEPT ![m][y] = @ + w ]
                         /\ position' = [ position EXCEPT ![m][<<u, y>>] =
                                    [ amount |-> @.amount + amount,
                                      weighted_amount |-> @.weighted_amount + w ] ]
    BY <1>2, BetEffect
  <2>2. y \in Buckets /\ amount \in Nat
    BY <1>2, BetEffect
  <2>3. CASE x = m /\ q = <<u, y>>
    <3>1. /\ position'[x][q].amount = position[x][q].amount + amount
          /\ position'[x][q].weighted_amount = position[x][q].weighted_amount + w
      BY <1>0, <2>1, <2>3
    <3>2. /\ pool'[x][q[2]] = pool[x][q[2]] + amount
          /\ weighted_pool'[x][q[2]] = weighted_pool[x][q[2]] + w
      BY <1>0, <2>1, <2>2, <2>3
    <3>3. pool[x][q[2]] \in Nat /\ weighted_pool[x][q[2]] \in Nat
      BY <1>0
    <3> QED
      BY <1>0, <2>2, <3>1, <3>2, <3>3
  <2>4. CASE ~(x = m /\ q = <<u, y>>)
    <3>1. position'[x][q] = position[x][q]
      BY <1>0, <2>1, <2>4
    <3>2. pool'[x][q[2]] >= pool[x][q[2]] /\ weighted_pool'[x][q[2]] >= weighted_pool[x][q[2]]
          /\ pool'[x][q[2]] \in Nat /\ weighted_pool'[x][q[2]] \in Nat
      BY <1>0, <2>1, <2>2
    <3> QED
      BY <1>0, <3>1, <3>2
  <2> QED
    BY <2>3, <2>4
<1>3. ASSUME NEW m \in Markets, NEW u \in Users, NEW y \in Buckets, ClaimReward(m, u, y)
      PROVE  /\ position'[x][q].amount <= pool'[x][q[2]]
             /\ position'[x][q].weighted_amount <= weighted_pool'[x][q[2]]
  <2>1. /\ position' = [ position EXCEPT ![m][<<u, y>>] = NoPosition ]
        /\ UNCHANGED << pool, weighted_pool >>
    BY <1>3 DEF ClaimReward, marketVars
  <2>2. position'[x][q] = position[x][q] \/ position'[x][q] = NoPosition
    BY <1>0, <2>1
  <2>3. pool[x][q[2]] \in Nat /\ weighted_pool[x][q[2]] \in Nat
    BY <1>0
  <2> QED
    BY <1>0, <2>1, <2>2, <2>3 DEF NoPosition
<1> QED
  BY <1>1, <1>2, <1>3, OtherSteps
----------------------------------------------------------------------------
(* Giving up. *)

LEMMA HappenedStays ==
    ASSUME ProgramKeeps, NEW tx \in Transaction, Happened(tx)
    PROVE  Happened(tx)'
<1>1. tx.market \in Markets /\ tx.position \in Positions
  BY DEF Transaction
<1> QED
  BY <1>1 DEF Happened, ProgramKeeps

\* An instruction leaves what its transaction stands for.
LEMMA InstructionHappened ==
    ASSUME TypeOK, NEW name, NEW m \in Markets, NEW p \in Positions, Instruction(name, m, p),
           NEW tx, tx.name = name, tx.market = m, tx.position = p
    PROVE  Happened(tx)'
<1>1. p[2] \in Buckets /\ p[1] \in Users /\ p = << p[1], p[2] >>
  <2>1. \E u \in Users, b \in Buckets : p = << u, b >>
    BY DEF Positions
  <2> QED
    BY <2>1
<1>2. closed \subseteq created /\ resolved \subseteq created
  BY DEF TypeOK
<1>3. name = "create_market" => m \in created'
  BY DEF Instruction, CreateMarket
<1>4. ASSUME NEW amount \in Amounts, PlaceBet(m, p[1], p[2], amount), p[2] \in Playable
      PROVE  m \in created' /\ position'[m][p].amount > 0
  <2>1. Playable \subseteq BucketArgs
    BY WeightConstants DEF Playable, BucketArgs
  <2>2. /\ amount \in Nat \ {0} /\ created' = created
        /\ \E w \in Nat : position' = [ position EXCEPT ![m][<< p[1], p[2] >>] =
                                [ amount |-> @.amount + amount,
                                  weighted_amount |-> @.weighted_amount + w ] ]
    BY <1>1, <1>4, <2>1, BetEffect
  <2>3. position \in [Markets -> [Positions -> Position]] /\ position[m][p].amount \in Nat
    BY DEF TypeOK, Position
  <2>4. position'[m][p].amount = position[m][p].amount + amount
    BY <1>1, <2>2, <2>3
  <2>5. m \in created
    BY <1>4 DEF PlaceBet, BetAllowed, BettingOpen
  <2>6. position[m][p].amount + amount > 0
    BY <2>2, <2>3
  <2> QED
    BY <2>2, <2>4, <2>5, <2>6
<1>5. CloseMarket(m) => m \in created'
  BY DEF CloseMarket, CloseAllowed
<1>7. ASSUME NEW s \in Signers, NEW score \in Scores, SubmitScore(m, s, score)
      PROVE  m \in created'
  BY <1>2, <1>7 DEF SubmitScore, ScoreAllowed, flags
<1>8. ResolveMarket(m) => m \in created' /\ m \in resolved'
  BY <1>2 DEF ResolveMarket, ResolveAllowed, Resolvable
<1>9. ClaimReward(m, p[1], p[2]) => m \in created' /\ m \in resolved'
  BY <1>2 DEF ClaimReward, ClaimAllowed, flags
<1>10. ReclaimPool(m) => m \in created'
  BY <1>2 DEF ReclaimPool, ReclaimAllowed, Reclaimable
<1> QED
  BY <1>3, <1>4, <1>5, <1>7, <1>8, <1>9, <1>10 DEF Instruction, Happened

LEMMA HappenedNext ==
    TypeOK /\ IndexerTyped /\ LandedHappened /\ [IndexerNext]_allVars => LandedHappened'
<1> SUFFICES ASSUME TypeOK, IndexerTyped, LandedHappened, [IndexerNext]_allVars,
                    NEW i \in 1..Len(landed'), NEW tx, tx = landed'[i], ~tx.failed
             PROVE  Happened(tx)'
  BY DEF LandedHappened, Happened
<1>1. ProgramKeeps
  BY ChainMoves, ProgramKept
<1>2. landed \in Seq(Transaction)
  BY DEF IndexerTyped, IndexerTypeOK
<1>3. ASSUME i \in 1..Len(landed), landed[i] = tx PROVE Happened(tx)'
  BY <1>1, <1>2, <1>3, HappenedStays DEF LandedHappened
<1>4. ASSUME NEW name, NEW m, NEW p, NEW failed, Landing(name, m, p, failed)
      PROVE  Happened(tx)'
  <2>1. /\ Len(landed) \in Nat /\ Len(landed') = Len(landed) + 1
        /\ landed'[Len(landed) + 1] = [ name |-> name, market |-> m, position |-> p,
                                       failed |-> failed ]
        /\ \A k \in 1..Len(landed) : landed'[k] = landed[k]
    BY <1>4, LandKeeps
  <2>2. CASE i = Len(landed) + 1
    <3>1. tx.name = name /\ tx.market = m /\ tx.position = p /\ ~failed
      BY <2>1, <2>2
    <3>2. Instruction(name, m, p) /\ m \in Markets /\ p \in Positions
      BY <1>4, <3>1 DEF Landing
    <3> QED
      BY <3>1, <3>2, InstructionHappened
  <2>3. CASE i # Len(landed) + 1
    BY <1>3, <2>1, <2>3
  <2> QED
    BY <2>2, <2>3
<1> QED
  BY <1>3, <1>4, WorkSteps

\* The transactions a request works on have happened.
LEMMA WorkHappened ==
    ASSUME IndexerTyped, QueuesSucceeded, LandedHappened, NEW r \in Requests, Handling(r)
    PROVE  Happened(Current(r))
<1>1. Head(queue[r]) \in 1..Len(landed) /\ Head(queue[r]) \in Range(queue[r])
      /\ Current(r) = landed[Head(queue[r])]
  BY WorkType
<1>2. ~landed[Head(queue[r])].failed
  BY <1>1 DEF QueuesSucceeded
<1> QED
  BY <1>1, <1>2 DEF LandedHappened

\* The markets and reports that are read exist, and so does a position not paid out.
LEMMA OnlyPositionsGone ==
    ASSUME IndexerTyped, QueuesSucceeded, LandedHappened, NEW r \in Requests, Handling(r),
           TypeOK, NEW read \in InFlight(Current(r), got[r]), ~Answer(read, Current(r)).exists
    PROVE  LET tx == Current(r) IN
           /\ tx.name \in {"place_bet", "claim_reward"} /\ tx.market \in resolved
           /\ position[tx.market][tx.position].amount = 0
<1> DEFINE tx == Current(r)
<1>1. /\ tx.name \in Instructions /\ tx.market \in Markets /\ tx.position \in Positions
      /\ Happened(tx)
  BY WorkType, WorkHappened
<1>2. read \in UNION Range(Stages(tx))
  BY <1>1, InFlightReads
<1> HIDE DEF tx
<1>3. read \in AllReads /\ tx.name # "initialize_treasury"
      /\ (read = "position" => tx.name \in {"place_bet", "claim_reward"})
  <2>1. \/ tx.name = "place_bet" /\ read \in {"market", "position", "bucket_pool"}
        \/ tx.name = "claim_reward" /\ read = "position"
        \/ /\ tx.name \notin {"place_bet", "claim_reward", "initialize_treasury"}
           /\ read \in {"market", "report", "bucket_prizes"}
    <3>1. CASE tx.name = "place_bet"
      BY <1>1, <1>2, <3>1, StagesOf
    <3>2. CASE tx.name = "claim_reward"
      BY <1>1, <1>2, <3>2, StagesOf
    <3>3. CASE tx.name = "initialize_treasury"
      BY <1>1, <1>2, <3>3, StagesOf
    <3>4. CASE tx.name \in {"create_market", "close_market", "submit_score",
                            "resolve_market", "reclaim_pool"}
      BY <1>1, <1>2, <3>4, StagesOf
    <3> QED
      BY <1>1, <3>1, <3>2, <3>3, <3>4 DEF Instructions
  <2> QED
    BY <2>1 DEF AllReads
<1>4. tx.market \in created
  BY <1>1, <1>3 DEF Happened
<1>5. ~Answer(read, tx).exists
  BY DEF tx
<1>6. read = "position"
  BY <1>3, <1>4, <1>5 DEF AllReads, Answer, MarketData, OracleReportData, BucketPoolData,
                          BucketPrizeData
<1>7. position[tx.market][tx.position].amount = 0
  BY <1>5, <1>6 DEF Answer, UserPositionData
<1>8. tx.market \in resolved
  BY <1>1, <1>3, <1>6, <1>7 DEF Happened
<1> QED
  BY <1>3, <1>6, <1>7, <1>8 DEF tx

\* The history of one end over a step: what it gains, and why.
LEMMA FateSteps ==
    ASSUME IndexerTyped, [IndexerNext]_allVars, NEW e \in Fates
    PROVE  \/ fate'[e] = fate[e] /\ faults' \in {faults, faults + 1}
           \/ e \notin {"posted", "gone"} /\ faults' = faults + 1
           \/ e = "posted" /\ faults' = faults
           \/ /\ e = "gone" /\ faults' = faults
              /\ \E r \in Requests :
                    /\ Handling(r) /\ UNCHANGED vars /\ landed' = landed
                    /\ fate'[e] = fate[e] \cup {Head(queue[r])}
                    /\ \E read \in InFlight(Current(r), got[r]) :
                          ~Answer(read, Current(r)).exists
<1>0. faults \in 0..MaxFaults /\ fate \in [Fates -> SUBSET (1..Len(landed))]
  BY DEF IndexerTyped, IndexerTypeOK
<1>1. ASSUME NEW f \in Fates, NEW R, Ends(f, R)
      PROVE  fate'[e] = IF e = f THEN fate[e] \cup R ELSE fate[e]
  BY <1>0, <1>1 DEF Ends
<1>2. CASE Resting
  BY <1>2 DEF Resting, indexerVars
<1>3. ASSUME NEW name, NEW m, NEW p, NEW failed, Landing(name, m, p, failed)
      PROVE  fate'[e] = fate[e] /\ faults' \in {faults, faults + 1}
  BY <1>3, LandKeeps DEF Landing
<1>4. ASSUME NEW r, NEW batch, Accepting(r, batch)
      PROVE  fate'[e] = fate[e] /\ faults' \in {faults, faults + 1}
  BY <1>4, AcceptEffect DEF Accepting
<1>5. ASSUME NEW r, NEW read, Answering(r, read)
      PROVE  fate'[e] = fate[e] /\ faults' \in {faults, faults + 1}
  BY <1>5 DEF Answering
<1>6. ASSUME NEW r, Ending(r, "posted")
      PROVE  IF e = "posted" THEN faults' = faults
             ELSE fate'[e] = fate[e] /\ faults' \in {faults, faults + 1}
  <2>1. Ends("posted", {Head(queue[r])}) /\ faults' = faults /\ "posted" \in Fates
    BY <1>6 DEF Ending, Fates
  <2> QED
    BY <1>1, <2>1
<1>7. ASSUME NEW r, Ending(r, "broken")
      PROVE  \/ e = "broken" /\ faults' = faults + 1
             \/ fate'[e] = fate[e] /\ faults' \in {faults, faults + 1}
  <2>1. Ends("broken", {Head(queue[r])}) /\ faults' = faults + 1 /\ "broken" \in Fates
    BY <1>7 DEF Ending, OneMoreFault, Fates
  <2> QED
    BY <1>1, <2>1
<1>8. ASSUME NEW r, Ending(r, "gone")
      PROVE  IF e # "gone" THEN fate'[e] = fate[e] /\ faults' = faults
             ELSE /\ faults' = faults /\ r \in Requests /\ Handling(r) /\ UNCHANGED vars
                  /\ landed' = landed /\ fate'[e] = fate[e] \cup {Head(queue[r])}
                  /\ \E read \in InFlight(Current(r), got[r]) :
                        ~Answer(read, Current(r)).exists
  <2>1. /\ Ends("gone", {Head(queue[r])}) /\ "gone" \in Fates
        /\ r \in Requests /\ Handling(r) /\ UNCHANGED vars /\ landed' = landed
    BY <1>8 DEF Ending, Fates
  <2>2. /\ faults' = faults
        /\ \E read \in InFlight(Current(r), got[r]) : ~Answer(read, Current(r)).exists
    BY <1>8, Zenon DEF Ending
  <2> QED
    BY <1>1, <2>1, <2>2
<1>9. CASE DeliverMalformed \/ Crash
  <2>1. /\ faults' = faults + 1
        /\ \E R : Ends("unparsed", R) \/ Ends("crashed", R)
    BY <1>9 DEF DeliverMalformed, Crash, OneMoreFault
  <2> QED
    BY <1>1, <2>1 DEF Fates
<1>10. ASSUME NEW r, NEW f, Ending(r, f) PROVE f \in {"posted", "gone", "broken"}
  BY <1>10 DEF Ending
<1> QED
  BY <1>0, <1>2, <1>3, <1>4, <1>5, <1>6, <1>7, <1>8, <1>9, <1>10, StepKinds

LEMMA EachEndsNext == IndexerTyped /\ EachEnds /\ [IndexerNext]_allVars => EachEnds'
<1> SUFFICES ASSUME IndexerTyped, EachEnds, [IndexerNext]_allVars,
                    NEW i \in 1..Len(landed'), ~landed'[i].failed, i \notin Backlog'
             PROVE  \E f \in Fates : i \in fate'[f]
  BY DEF EachEnds
<1>1. ASSUME i \in 1..Len(landed), landed'[i] = landed[i]
      PROVE  \E f \in Fates : i \in fate'[f]
  BY <1>1, WorkedOff, FatesGrow DEF EachEnds
<1>2. ASSUME NEW name, NEW m, NEW p, NEW failed, Landing(name, m, p, failed)
      PROVE  i \in 1..Len(landed) /\ landed'[i] = landed[i]
  <2>1. /\ Len(landed) \in Nat /\ Len(landed') = Len(landed) + 1
        /\ Len(landed) + 1 \in inbox'
        /\ \A k \in 1..Len(landed) : landed'[k] = landed[k]
    BY <1>2, LandKeeps
  <2>2. i # Len(landed) + 1
    BY <2>1 DEF Backlog
  <2> QED
    BY <2>1, <2>2
<1> QED
  BY <1>1, <1>2, WorkSteps

LEMMA GoneNext ==
    TypeOK /\ IndexerTyped /\ QueuesSucceeded /\ LandedHappened /\ GoneArePaid
        /\ [IndexerNext]_allVars => GoneArePaid'
<1> DEFINE Paid(tx) == /\ tx.name \in {"place_bet", "claim_reward"}
                       /\ tx.market \in resolved
                       /\ position[tx.market][tx.position].amount = 0
<1> SUFFICES ASSUME TypeOK, IndexerTyped, QueuesSucceeded, LandedHappened, GoneArePaid,
                    [IndexerNext]_allVars, NEW i \in fate'["gone"], NEW tx, tx = landed'[i]
             PROVE  Paid(tx)'
  BY DEF GoneArePaid
<1>1. ProgramKeeps
  BY ChainMoves, ProgramKept
<1>2. /\ landed \in Seq(Transaction) /\ fate["gone"] \subseteq 1..Len(landed)
      /\ "gone" \in Fates
  BY DEF IndexerTyped, IndexerTypeOK, Fates
<1>3. \/ i \in fate["gone"]
      \/ \E r \in Requests :
            /\ Handling(r) /\ i = Head(queue[r])
            /\ \E read \in InFlight(Current(r), got[r]) : ~Answer(read, Current(r)).exists
  <2>1. \/ fate'["gone"] = fate["gone"]
        \/ \E r \in Requests :
              /\ Handling(r)
              /\ fate'["gone"] = fate["gone"] \cup {Head(queue[r])}
              /\ \E read \in InFlight(Current(r), got[r]) : ~Answer(read, Current(r)).exists
    BY <1>2, FateSteps
  <2> QED
    BY <2>1
<1>4. i \in 1..Len(landed) /\ landed'[i] = landed[i]
  <2>1. i \in 1..Len(landed)
    BY <1>2, <1>3, WorkType
  <2> QED
    BY <2>1, WorkSteps, LandKeeps
<1>5. Paid(tx)
  <2>1. CASE i \in fate["gone"]
    BY <1>4, <2>1 DEF GoneArePaid
  <2>2. ASSUME NEW r \in Requests, Handling(r), i = Head(queue[r]),
               NEW read \in InFlight(Current(r), got[r]), ~Answer(read, Current(r)).exists
        PROVE  Paid(tx)
    <3>1. tx = Current(r)
      BY <1>4, <2>2, WorkType
    <3> QED
      BY <2>2, <3>1, OnlyPositionsGone
  <2> QED
    BY <1>3, <2>1, <2>2
<1>6. tx.market \in Markets /\ tx.position \in Positions
  <2>1. landed[i] \in Transaction
    BY <1>2, <1>4
  <2> QED
    BY <1>4, <2>1 DEF Transaction
<1> QED
  BY <1>1, <1>5, <1>6 DEF ProgramKeeps

LEMMA FaultsCostNext == IndexerTyped /\ FaultsCost /\ [IndexerNext]_allVars => FaultsCost'
<1> SUFFICES ASSUME IndexerTyped, FaultsCost, [IndexerNext]_allVars, faults' = 0,
                    NEW f \in Fates \ {"posted", "gone"}
             PROVE  fate'[f] = {}
  BY DEF FaultsCost
<1>1. faults \in 0..MaxFaults /\ MaxFaults \in Nat
  BY IndexerConstants DEF IndexerTyped, IndexerTypeOK
<1>2. fate'[f] = fate[f] /\ faults = 0
  BY <1>1, FateSteps
<1> QED
  BY <1>2 DEF FaultsCost

WorkInv == QueuesSucceeded /\ LandedHappened /\ EachEnds /\ GoneArePaid /\ FaultsCost

LEMMA WorkInit == IndexerInit => WorkInv
<1> SUFFICES ASSUME IndexerInit PROVE WorkInv
  OBVIOUS
<1>1. QueuesSucceeded
  BY DEF IndexerInit, QueuesSucceeded, Range
<1>2. LandedHappened /\ EachEnds
  BY DEF IndexerInit, LandedHappened, EachEnds
<1>3. GoneArePaid /\ FaultsCost
  BY DEF IndexerInit, GoneArePaid, FaultsCost, Fates
<1> QED
  BY <1>1, <1>2, <1>3 DEF WorkInv

LEMMA WorkNext == TypeOK /\ IndexerTyped /\ WorkInv /\ [IndexerNext]_allVars => WorkInv'
  BY SucceededNext, HappenedNext, EachEndsNext, GoneNext, FaultsCostNext DEF WorkInv

\* Whatever fails, each transaction that was worked off has been posted or was lost to a
\* cause of its own; and as long as nothing fails, only to a position that is paid out.
THEOREM OnlyCausesLose == IndexerSpec => []OthersSurvive
<1>1. IndexerTyped /\ WorkInv => OthersSurvive
  <2> SUFFICES ASSUME IndexerTyped, WorkInv PROVE OthersSurvive
    OBVIOUS
  <2>1. \A i \in 1..Len(landed) \ Backlog :
            landed[i].failed \/ \E f \in Fates : i \in fate[f]
    BY DEF WorkInv, EachEnds
  <2>2. ASSUME NEW i \in fate["gone"]
        PROVE  /\ landed[i].name \in {"place_bet", "claim_reward"}
               /\ ~UserPositionData(landed[i].market, landed[i].position).exists
    BY <2>2 DEF WorkInv, GoneArePaid, UserPositionData, Absent
  <2> QED
    BY <2>1, <2>2 DEF OthersSurvive, WorkInv, FaultsCost
<1> QED
  BY <1>1, WorkInit, WorkNext, IndexerTypedInit, IndexerTypedNext, ProgramRuns, TypeCorrect,
     PTL DEF IndexerSpec
----------------------------------------------------------------------------
(* Bets. *)

\* The pool is only read once the position is there.
LEMMA PoolReadLast ==
    ASSUME NEW tx, tx.name = "place_bet", NEW answers, "bucket_pool" \in InFlight(tx, answers)
    PROVE  "position" \in DOMAIN answers
<1> DEFINE missing(k) == Stages(tx)[k] \ DOMAIN answers
           first == CHOOSE k \in 1..2 : missing(k) # {} /\ \A j \in 1..k-1 : missing(j) = {}
<1>1. /\ Stages(tx) = << {"market", "position"}, {"bucket_pool"} >>
      /\ Len(Stages(tx)) = 2 /\ Stages(tx)[1] = {"market", "position"}
  BY DEF Stages, PlaceBetReads
<1> SUFFICES ASSUME missing(1) # {} PROVE FALSE
  BY <1>1
<1>2. \A k \in 1..2 :
         (missing(k) # {} /\ \A j \in 1..k-1 : missing(j) = {}) <=> k = 1
  OBVIOUS
<1>3. first = 1
  BY <1>2
<1>4. InFlight(tx, answers) = missing(first)
  BY <1>1 DEF InFlight
<1> QED
  BY <1>1, <1>3, <1>4

LEMMA BetReadsNext ==
    TypeOK /\ IndexerTyped /\ BucketCovers /\ BetReads /\ [IndexerNext]_allVars => BetReads'
<1> SUFFICES ASSUME TypeOK, IndexerTyped, BucketCovers, BetReads, [IndexerNext]_allVars,
                    NEW r \in Requests, Handling(r)', NEW tx, tx = Current(r)',
                    tx.name = "place_bet", NEW m, m = tx.market, NEW b, b = tx.position[2]
             PROVE  /\ "position" \in DOMAIN got'[r] => PositionRead(got[r], m, b)'
                    /\ "bucket_pool" \in DOMAIN got'[r] => PoolCovers(got[r])'
  BY DEF BetReads, PositionRead, PoolCovers
<1>1. CASE DOMAIN got'[r] = {}
  BY <1>1
<1>2. ASSUME Handling(r), Current(r) = tx
      PROVE  /\ m \in Markets /\ tx.position \in Positions /\ b \in Buckets
             /\ pool[m][b] \in Nat /\ weighted_pool[m][b] \in Nat
             /\ "position" \in DOMAIN got[r] => PositionRead(got[r], m, b)
             /\ "bucket_pool" \in DOMAIN got[r] => PoolCovers(got[r])
  <2>1. m \in Markets /\ tx.position \in Positions
    BY <1>2, WorkType
  <2>2. b \in Buckets
    BY <2>1 DEF Positions
  <2> QED
    BY <1>2, <2>1, <2>2 DEF TypeOK, BetReads, PositionRead, PoolCovers
<1>3. CASE UNCHANGED << got[r], queue[r] >> /\ Handling(r) /\ Current(r)' = Current(r)
  <2>1. /\ pool'[m][b] >= pool[m][b] /\ weighted_pool'[m][b] >= weighted_pool[m][b]
        /\ pool'[m][b] \in Nat /\ weighted_pool'[m][b] \in Nat
    <3>1. ProgramKeeps /\ TypeOK'
      BY ChainMoves, ProgramKept, NextType
    <3> QED
      BY <1>2, <1>3, <3>1 DEF ProgramKeeps, TypeOK
  <2> QED
    BY <1>2, <1>3, <2>1 DEF PositionRead, PoolCovers
<1>4. ASSUME UNCHANGED vars, Handling(r), Current(r)' = Current(r),
             NEW read \in InFlight(Current(r), got[r]), Answer(read, Current(r)).exists,
             got'[r] = WithAnswer(got[r], read, Answer(read, Current(r)))
      PROVE  /\ "position" \in DOMAIN got'[r] => PositionRead(got[r], m, b)'
             /\ "bucket_pool" \in DOMAIN got'[r] => PoolCovers(got[r])'
  <2>1. /\ UNCHANGED << pool, weighted_pool >> /\ Current(r) = tx
        /\ read \notin DOMAIN got[r]
    BY <1>4, WorkType, InFlightReads DEF vars
  <2>2. /\ DOMAIN got'[r] = DOMAIN got[r] \cup {read}
        /\ got'[r][read] = Answer(read, tx)
        /\ \A x \in DOMAIN got[r] \ {read} : got'[r][x] = got[r][x]
    BY <1>4, <2>1 DEF WithAnswer
  <2>3. CASE read = "position"
    <3>1. Answer(read, tx) = UserPositionData(m, tx.position)
      BY <2>3 DEF Answer
    <3>2. /\ got'[r]["position"].amount = position[m][tx.position].amount
          /\ got'[r]["position"].weighted_amount = position[m][tx.position].weighted_amount
      BY <1>4, <2>1, <2>2, <2>3, <3>1 DEF UserPositionData, Absent
    <3>3. /\ position[m][tx.position].amount \in Nat
          /\ position[m][tx.position].weighted_amount \in Nat
          /\ position[m][tx.position].amount <= pool[m][b]
          /\ position[m][tx.position].weighted_amount <= weighted_pool[m][b]
      BY <1>2, <1>4, <2>1, PositionType DEF BucketCovers
    <3>4. "bucket_pool" \notin DOMAIN got[r]
      BY <1>2, <1>4, <2>1, <2>3 DEF PoolCovers
    <3> QED
      BY <2>1, <2>2, <2>3, <3>2, <3>3, <3>4 DEF PositionRead
  <2>4. CASE read = "bucket_pool"
    <3>1. "position" \in DOMAIN got[r]
      BY <1>4, <2>1, <2>4, PoolReadLast
    <3>2. Answer(read, tx) = BucketPoolData(m, b)
      BY <2>4 DEF Answer
    <3>3. /\ got'[r]["bucket_pool"].amount = pool[m][b]
          /\ got'[r]["bucket_pool"].weighted_amount = weighted_pool[m][b]
      BY <1>4, <2>1, <2>2, <2>4, <3>2 DEF BucketPoolData, Absent
    <3>4. PositionRead(got[r], m, b)
      BY <1>2, <1>4, <2>1, <3>1
    <3>5. got'[r]["position"] = got[r]["position"]
      BY <2>2, <2>4, <3>1
    <3> QED
      BY <1>2, <1>4, <2>1, <2>2, <3>1, <3>3, <3>4, <3>5 DEF PositionRead, PoolCovers
  <2>5. CASE read \notin {"position", "bucket_pool"}
    BY <1>2, <1>4, <2>1, <2>2, <2>5 DEF PositionRead, PoolCovers
  <2> QED
    BY <2>3, <2>4, <2>5
<1> QED
  BY <1>1, <1>3, <1>4, RequestSteps

LEMMA BetsInit == IndexerInit => BucketCovers /\ BetReads
<1> SUFFICES ASSUME IndexerInit PROVE BucketCovers /\ BetReads
  OBVIOUS
<1>1. \A m \in Markets : \A p \in Positions : p[2] \in Buckets /\ position[m][p] = NoPosition
  BY DEF IndexerInit, Init, Positions
<1>2. BucketCovers
  BY <1>1 DEF IndexerInit, Init, BucketCovers, NoPosition, EmptyArray
<1>3. BetReads
  BY DEF IndexerInit, BetReads, Handling
<1> QED
  BY <1>2, <1>3

\* However the account moves on between the two reads, a place_bet event never shows
\* more on a position than in the pool of its bucket.
THEOREM BetsAreCovered == IndexerSpec => []BetCovered
<1>1. TypeOK /\ IndexerTyped /\ (BucketCovers /\ BetReads) /\ [IndexerNext]_allVars
        => (BucketCovers /\ BetReads)'
  BY ChainMoves, CoversNext, BetReadsNext
<1>2. IndexerTyped /\ (BucketCovers /\ BetReads) => BetCovered
  <2> SUFFICES ASSUME IndexerTyped, BetReads, NEW r \in Requests, EventOf(r, "place_bet")
               PROVE  /\ got[r]["bucket_pool"].amount >= got[r]["position"].amount
                      /\ got[r]["bucket_pool"].weighted_amount >=
                             got[r]["position"].weighted_amount
    BY DEF BetCovered, Event
  <2>1. Handling(r) /\ InFlight(Current(r), got[r]) = {} /\ Current(r).name = "place_bet"
    BY DEF EventOf, Posting, Handling
  <2>2. UNION Range(Stages(Current(r))) \subseteq DOMAIN got[r]
    BY <2>1, WorkType, InFlightNone
  <2>3. "bucket_pool" \in DOMAIN got[r]
    BY <2>1, <2>2, WorkType, StagesOf
  <2> QED
    BY <2>1, <2>3 DEF BetReads, PoolCovers
<1> QED
  BY <1>1, <1>2, BetsInit, IndexerTypedInit, IndexerTypedNext, ProgramRuns, TypeCorrect,
     PTL DEF IndexerSpec
----------------------------------------------------------------------------
(* Resolution. *)

\* What is settled for good: a resolved market's report and prizes read the same ever after.
LEMMA SettledStays ==
    ASSUME TypeOK, [Next]_vars, NEW m \in resolved
    PROVE  /\ m \in resolved' /\ outcome'[m] = outcome[m]
           /\ OracleReportData(m)' = OracleReportData(m)
           /\ BucketPrizeData(m)' = BucketPrizeData(m)
<1>1. /\ m \in resolved' /\ outcome'[m] = outcome[m] /\ report'[m] = report[m]
  BY ResolvedFrozen
<1>2. m \in created /\ m \in created'
  BY NextType, <1>1 DEF TypeOK
<1>3. OracleReportData(m)' = OracleReportData(m)
  BY <1>1, <1>2, ReportFrame
<1>4. BucketPrizeData(m)' = BucketPrizeData(m)
  BY <1>1, <1>2 DEF BucketPrizeData
<1> QED
  BY <1>1, <1>3, <1>4

\* WorkHappened, to be read before or after a step.
WorkDone == \A r \in Requests : Handling(r) => Happened(Current(r))

LEMMA WorkDoneAfter == IndexerTyped' /\ QueuesSucceeded' /\ LandedHappened' => WorkDone'
<1>1. IndexerTyped /\ QueuesSucceeded /\ LandedHappened => WorkDone
  BY WorkHappened DEF WorkDone
<1> QED
  BY <1>1, PTL

LEMMA ResolveReadsNext ==
    TypeOK /\ IndexerTyped /\ QueuesSucceeded /\ LandedHappened /\ ResolveReads
        /\ QueuesSucceeded' /\ LandedHappened' /\ IndexerTyped'
        /\ [IndexerNext]_allVars => ResolveReads'
<1> SUFFICES ASSUME TypeOK, IndexerTyped, QueuesSucceeded, LandedHappened, ResolveReads,
                    QueuesSucceeded', LandedHappened', IndexerTyped', [IndexerNext]_allVars,
                    NEW r \in Requests, Handling(r)', NEW tx, tx = Current(r)',
                    tx.name = "resolve_market", NEW m, m = tx.market
             PROVE  /\ m \in resolved'
                    /\ "market" \in DOMAIN got'[r] => MarketRead(got[r], m)'
                    /\ "report" \in DOMAIN got'[r] => got'[r]["report"] = OracleReportData(m)'
                    /\ "bucket_prizes" \in DOMAIN got'[r] =>
                          got'[r]["bucket_prizes"] = BucketPrizeData(m)'
  BY DEF ResolveReads, MarketRead
<1>1. m \in resolved'
  <2>1. Happened(Current(r))'
    BY WorkDoneAfter DEF WorkDone
  <2> QED
    BY <2>1 DEF Happened
<1>2. CASE DOMAIN got'[r] = {}
  BY <1>1, <1>2
<1>3. ASSUME Handling(r), Current(r) = tx
      PROVE  /\ m \in resolved /\ m \in created
             /\ "market" \in DOMAIN got[r] => MarketRead(got[r], m)
             /\ "report" \in DOMAIN got[r] => got[r]["report"] = OracleReportData(m)
             /\ "bucket_prizes" \in DOMAIN got[r] => got[r]["bucket_prizes"] = BucketPrizeData(m)
  BY <1>3 DEF ResolveReads, MarketRead, TypeOK
<1>4. CASE UNCHANGED << got[r], queue[r] >> /\ Handling(r) /\ Current(r)' = Current(r)
  <2>1. /\ outcome'[m] = outcome[m] /\ OracleReportData(m)' = OracleReportData(m)
        /\ BucketPrizeData(m)' = BucketPrizeData(m)
    BY <1>3, <1>4, ChainMoves, SettledStays
  <2>2. /\ "market" \in DOMAIN got'[r] => MarketRead(got[r], m)'
    BY <1>3, <1>4, <2>1 DEF MarketRead
  <2> QED
    BY <1>1, <1>3, <1>4, <2>1, <2>2
<1>5. ASSUME UNCHANGED vars, Handling(r), Current(r)' = Current(r),
             NEW read \in InFlight(Current(r), got[r]), Answer(read, Current(r)).exists,
             got'[r] = WithAnswer(got[r], read, Answer(read, Current(r)))
      PROVE  /\ "market" \in DOMAIN got'[r] => MarketRead(got[r], m)'
             /\ "report" \in DOMAIN got'[r] => got'[r]["report"] = OracleReportData(m)'
             /\ "bucket_prizes" \in DOMAIN got'[r] =>
                   got'[r]["bucket_prizes"] = BucketPrizeData(m)'
  <2>1. /\ outcome'[m] = outcome[m] /\ OracleReportData(m)' = OracleReportData(m)
        /\ BucketPrizeData(m)' = BucketPrizeData(m) /\ Current(r) = tx
    BY <1>3, <1>5, SettledStays
  <2>2. /\ DOMAIN got'[r] = DOMAIN got[r] \cup {read}
        /\ got'[r][read] = Answer(read, tx)
        /\ \A x \in DOMAIN got[r] \ {read} : got'[r][x] = got[r][x]
    BY <1>5, <2>1 DEF WithAnswer
  <2>3. "market" \in DOMAIN got'[r] => MarketRead(got[r], m)'
    <3>1. CASE read = "market"
      <4>1. got'[r]["market"] = MarketData(m)
        BY <2>2, <3>1 DEF Answer
      <4>2. /\ MarketData(m).resolved
            /\ MarketData(m).final_outcome = {outcome[m].final_outcome}
            /\ MarketData(m).total_prize_pool = outcome[m].total_prize_pool
        BY <1>3, <1>5, <2>1 DEF MarketData
      <4> QED
        BY <2>1, <4>1, <4>2 DEF MarketRead
    <3>2. CASE read # "market"
      BY <1>3, <1>5, <2>1, <2>2, <3>2 DEF MarketRead
    <3> QED
      BY <3>1, <3>2
  <2>4. "report" \in DOMAIN got'[r] => got'[r]["report"] = OracleReportData(m)'
    <3>1. CASE read = "report"
      BY <2>1, <2>2, <3>1 DEF Answer
    <3>2. CASE read # "report"
      BY <1>3, <1>5, <2>1, <2>2, <3>2
    <3> QED
      BY <3>1, <3>2
  <2>5. "bucket_prizes" \in DOMAIN got'[r] => got'[r]["bucket_prizes"] = BucketPrizeData(m)'
    <3>1. CASE read = "bucket_prizes"
      BY <2>1, <2>2, <3>1 DEF Answer
    <3>2. CASE read # "bucket_prizes"
      BY <1>3, <1>5, <2>1, <2>2, <3>2
    <3> QED
      BY <3>1, <3>2
  <2> QED
    BY <2>3, <2>4, <2>5
<1> QED
  BY <1>1, <1>2, <1>4, <1>5, RequestSteps

\* The prizes the event shows, those of the buckets that have one, fit in the prize pool.
LEMMA PrizesShown ==
    ASSUME TypeOK, SettlementStands, NEW m \in resolved
    PROVE  LET prizes == BucketPrizeData(m).prizes IN
           SumFunctionOnSet(prizes, DOMAIN prizes) <= outcome[m].total_prize_pool
<1> DEFINE all    == outcome[m].bucket_prize
           shown  == { b \in Buckets : all[b] # 0 }
           prizes == BucketPrizeData(m).prizes
           score  == report[m].agreed_score
           total  == total_pool[m] - Fee(total_pool[m])
<1>1. m \in created /\ m \in Markets /\ outcome[m] = OutcomeFor(m, score)
  BY DEF TypeOK, SettlementStands
<1>2. prizes = Restrict(all, shown)
  BY <1>1 DEF BucketPrizeData
<1>3. all \in [Buckets -> Nat] /\ weighted_pool[m] \in [Buckets -> Nat] /\ score \in Nat
      /\ total_pool[m] \in Nat
  BY <1>1 DEF TypeOK, Outcome, Report, Buckets
<1>4. total \in Nat
  BY <1>3, FeeType
<1>5. /\ outcome[m].total_prize_pool = total
      /\ all = ComputeBucketPrizes(weighted_pool[m], score, terms[m].radius, total)
  BY <1>1 DEF OutcomeFor
<1>6. SumFunctionOnSet(all, Buckets) <= total
  BY <1>3, <1>4, <1>5, PrizesWithinTotal
<1> HIDE DEF all
<1>7. SumFunctionOnSet(all, Buckets) = SumFunctionOnSet(all, shown)
  BY <1>3, BucketsFinite, SumSupport
<1>8. DOMAIN prizes = shown /\ \A b \in shown : prizes[b] = all[b]
  BY <1>2 DEF Restrict
<1>9. IsFiniteSet(shown)
  BY BucketsFinite, FS_Subset
<1> HIDE DEF shown, prizes, total
<1>10. SumFunctionOnSet(prizes, shown) = SumFunctionOnSet(all, shown)
  BY <1>8, <1>9, SumSame
<1> QED
  BY <1>5, <1>6, <1>7, <1>8, <1>10 DEF prizes

ResolutionInv == QueuesSucceeded /\ LandedHappened /\ ResolveReads

\* However the chain moves on between the three reads, a resolve_market event shows one
\* picture, the final one, and its prizes fit in its prize pool.
THEOREM ResolutionsWhole == IndexerSpec => []ResolutionWhole
<1>1. IndexerInit => ResolutionInv
  <2>1. IndexerInit => ResolveReads
    BY DEF IndexerInit, ResolveReads, Handling
  <2> QED
    BY <2>1, WorkInit DEF WorkInv, ResolutionInv
<1>2. TypeOK /\ IndexerTyped /\ ResolutionInv /\ [IndexerNext]_allVars => ResolutionInv'
  BY SucceededNext, HappenedNext, IndexerTypedNext, ResolveReadsNext DEF ResolutionInv
<1>3. TypeOK /\ SettlementStands /\ IndexerTyped /\ ResolutionInv => ResolutionWhole
  <2> SUFFICES ASSUME TypeOK, SettlementStands, IndexerTyped, ResolveReads,
                      NEW r \in Requests, EventOf(r, "resolve_market")
               PROVE  LET market == got[r]["market"]
                          prizes == got[r]["bucket_prizes"].prizes
                      IN  /\ market.resolved
                          /\ got[r]["report"].finalized
                          /\ got[r]["report"].agreed_score = market.final_outcome
                          /\ SumFunctionOnSet(prizes, DOMAIN prizes) <= market.total_prize_pool
                          /\ got[r]["bucket_prizes"] = BucketPrizeData(Current(r).market)
    BY DEF ResolutionWhole, Event, ResolutionInv
  <2> DEFINE m == Current(r).market
  <2>1. Handling(r) /\ InFlight(Current(r), got[r]) = {} /\ Current(r).name = "resolve_market"
    BY DEF EventOf, Posting, Handling
  <2>2. {"market", "report", "bucket_prizes"} \subseteq DOMAIN got[r]
    BY <2>1, WorkType, InFlightNone, StagesOf
  <2>3. /\ m \in resolved /\ MarketRead(got[r], m)
        /\ got[r]["report"] = OracleReportData(m)
        /\ got[r]["bucket_prizes"] = BucketPrizeData(m)
    BY <2>1, <2>2 DEF ResolveReads, MarketRead
  <2> HIDE DEF m
  <2>4. report[m].finalized /\ outcome[m].final_outcome = report[m].agreed_score
        /\ m \in created
    <3>1. report[m].finalized /\ outcome[m] = OutcomeFor(m, report[m].agreed_score)
      BY <2>3, Zenon DEF SettlementStands
    <3>2. m \in created
      BY <2>3 DEF TypeOK
    <3> QED
      BY <3>1, <3>2 DEF OutcomeFor
  <2>5. got[r]["report"].finalized /\ got[r]["report"].agreed_score = {outcome[m].final_outcome}
    BY <2>3, <2>4 DEF OracleReportData
  <2> QED
    BY <2>3, <2>5, PrizesShown DEF MarketRead, m
<1> QED
  BY <1>1, <1>2, <1>3, IndexerTypedInit, IndexerTypedNext, ProgramRuns, TypeCorrect,
     SettlementCorrect, PTL DEF IndexerSpec
=============================================================================
