------------------------------ MODULE Indexer ------------------------------
(***************************************************************************)
(* The indexer: a webhook learns of the transactions that landed, reads    *)
(* the accounts they touched and posts what it read to the backend.        *)
(*                                                                         *)
(* Composed with Cinefi, whose actions are the transactions.  The webhook  *)
(* answers 200 before it works, so what goes wrong later is not delivered  *)
(* again.  A request works through its transactions one by one; requests   *)
(* interleave at every await, with each other and with the chain.          *)
(*                                                                         *)
(* External: Helius delivers each transaction at some time and in any      *)
(* order; the RPC node answers with the accounts as they are then.  What   *)
(* the backend makes of an event is not modelled.                          *)
(***************************************************************************)
EXTENDS Cinefi, SequencesExt

CONSTANTS
    Requests,           \* webhook requests the server works on at a time
    MaxLanded,          \* bound on the transactions
    MaxBacklog,         \* bound on the transactions not worked off yet
    MaxBatch,           \* bound on the transactions of one delivery
    MaxFaults,          \* bound on failures of any kind
    Failing             \* instructions whose execution may fail

ASSUME IndexerConstants ==
    /\ IsFiniteSet(Requests) /\ Requests # {}
    /\ Markets # {} /\ Users # {}       \* a transaction that names none carries any
    /\ MaxLanded \in Nat /\ MaxBacklog \in Nat /\ MaxBatch \in Nat /\ MaxFaults \in Nat
    /\ Failing \subseteq { "initialize_treasury", "create_market", "place_bet", "close_market",
                      "submit_score", "resolve_market", "claim_reward", "reclaim_pool" }

VARIABLES
    landed,             \* the transactions in the order they were executed
    inbox,              \* those still to be delivered to the webhook
    queue,              \* per request: the transactions it has still to handle
    got,                \* per request: the reads of the first one that were answered
    fate,               \* history: how the handling of each transaction ended
    changed,            \* history: the last transaction that changed each account
    faults

indexerVars == << landed, inbox, queue, got, fate, changed, faults >>
allVars     == << vars, indexerVars >>
----------------------------------------------------------------------------
(* Transactions, accounts and reads. *)

Instructions == { "initialize_treasury", "create_market", "place_bet", "close_market",
                  "submit_score", "resolve_market", "claim_reward", "reclaim_pool" }

\* A delivered transaction: its instruction and the accounts that names.
Transaction == [ name : Instructions, market : Markets, position : Positions,
                 failed : BOOLEAN ]

\* A read may answer this instead of data: the account does not exist.
Absent == [ exists |-> FALSE ]

MarketData(m) ==
    IF m \notin created THEN Absent ELSE
    [ exists |-> TRUE, closed |-> m \in closed, resolved |-> m \in resolved,
      reclaimed |-> m \in reclaimed, total_pool |-> total_pool[m],
      total_prize_pool |-> outcome[m].total_prize_pool,
      final_outcome |-> IF m \in resolved THEN {outcome[m].final_outcome} ELSE {},
      fallback_used |-> outcome[m].fallback_used ]

UserPositionData(m, p) ==
    IF position[m][p].amount = 0 THEN Absent ELSE
    [ exists |-> TRUE, amount |-> position[m][p].amount,
      weighted_amount |-> position[m][p].weighted_amount ]

\* agreed_score: {} for null.
OracleReportData(m) ==
    IF m \notin created THEN Absent ELSE
    [ exists |-> TRUE, submissions |-> report[m].submissions,
      agreed_score |-> IF report[m].finalized THEN {report[m].agreed_score} ELSE {},
      finalized |-> report[m].finalized, disputed |-> report[m].disputed ]

BucketPoolData(m, b) ==
    IF m \notin created THEN Absent ELSE
    [ exists |-> TRUE, amount |-> pool[m][b], weighted_amount |-> weighted_pool[m][b] ]

\* The buckets with a prize.
BucketPrizeData(m) ==
    IF m \notin created THEN Absent ELSE
    [ exists |-> TRUE, prizes |-> Restrict(outcome[m].bucket_prize,
                                           { b \in Buckets : outcome[m].bucket_prize[b] # 0 }) ]

\* What the RPC node answers to a read on behalf of tx.
Answer(read, tx) ==
    CASE read = "market"       -> MarketData(tx.market)
      [] read = "position"     -> UserPositionData(tx.market, tx.position)
      [] read = "report"       -> OracleReportData(tx.market)
      [] read = "bucket_pool"  -> BucketPoolData(tx.market, tx.position[2])
      [] read = "bucket_prizes" -> BucketPrizeData(tx.market)

\* The accounts that the events show whole.
Accounts == ({"market", "report"} \X Markets \X {<< >>}) \cup ({"position"} \X Markets \X Positions)

Account(read, tx) == << read, tx.market, IF read = "position" THEN tx.position ELSE << >> >>

Content(a) == CASE a[1] = "market"   -> MarketData(a[2])
                [] a[1] = "report"   -> OracleReportData(a[2])
                [] a[1] = "position" -> UserPositionData(a[2], a[3])
----------------------------------------------------------------------------
(* The reads of each handler: stages, whose reads run in parallel. *)

CreateMarketReads == << {"market", "report"} >>

\* Faulty: all three reads in one Promise.all.
PlaceBetReads_AtOnce == << {"market", "position", "bucket_pool"} >>

\* Faulty: the market is not read again.
PlaceBetReads_NoMarket == << {"position"}, {"bucket_pool"} >>

PlaceBetReads     == << {"market", "position"}, {"bucket_pool"} >>
CloseMarketReads  == << {"market"} >>
SubmitScoreReads  == << {"report"} >>
ResolveMarketReads == << {"market", "report", "bucket_prizes"} >>
ClaimRewardReads  == << {"position"} >>
ReclaimPoolReads  == << {"market"} >>
InitializeTreasuryReads == << >>

Stages(tx) ==
    CASE tx.name = "create_market"  -> CreateMarketReads
      [] tx.name = "place_bet"      -> PlaceBetReads
      [] tx.name = "close_market"   -> CloseMarketReads
      [] tx.name = "submit_score"   -> SubmitScoreReads
      [] tx.name = "resolve_market" -> ResolveMarketReads
      [] tx.name = "claim_reward"   -> ClaimRewardReads
      [] tx.name = "reclaim_pool"   -> ReclaimPoolReads
      [] tx.name = "initialize_treasury" -> InitializeTreasuryReads

\* The reads in flight: what is missing of the first incomplete stage.
InFlight(tx, answers) ==
    LET missing(k) == Stages(tx)[k] \ DOMAIN answers
    IN  IF \A k \in 1..Len(Stages(tx)) : missing(k) = {} THEN {}
        ELSE missing(CHOOSE k \in 1..Len(Stages(tx)) :
                         missing(k) # {} /\ \A j \in 1..k-1 : missing(j) = {})
----------------------------------------------------------------------------
\* A transaction is posted; the position it names is gone; a read or its post fails; its
\* batch is not parsed; or the process dies while it waits.
Fates == { "posted", "gone", "broken", "unparsed", "crashed" }

IndexerTypeOK ==
    /\ landed \in Seq(Transaction)
    /\ inbox \subseteq 1..Len(landed)
    /\ queue \in [Requests -> Seq(1..Len(landed))]
    /\ \A r \in Requests : DOMAIN got[r] \subseteq
           (IF queue[r] = << >> THEN {} ELSE UNION Range(Stages(landed[Head(queue[r])])))
    /\ fate \in [Fates -> SUBSET (1..Len(landed))]
    /\ changed \in [Accounts -> 0..Len(landed)]
    /\ faults \in 0..MaxFaults

Backlog == inbox \cup UNION { Range(queue[r]) : r \in Requests }

IndexerInit ==
    /\ Init
    /\ landed = << >>
    /\ inbox = {}
    /\ queue = [ r \in Requests |-> << >> ]
    /\ got = [ r \in Requests |-> << >> ]
    /\ fate = [ f \in Fates |-> {} ]
    /\ changed = [ a \in Accounts |-> 0 ]
    /\ faults = 0

Ends(f, txs) == fate' = [ fate EXCEPT ![f] = @ \cup txs ]

OneMoreFault == faults < MaxFaults /\ faults' = faults + 1
----------------------------------------------------------------------------
(* The chain. *)

\* A transaction lands; Helius will report it.
Land(name, m, p, failed) ==
    /\ Len(landed) < MaxLanded
    /\ Cardinality(Backlog) < MaxBacklog
    /\ landed' = Append(landed, [ name |-> name, market |-> m, position |-> p,
                                  failed |-> failed ])
    /\ inbox' = inbox \cup {Len(landed')}
    /\ changed' = [ a \in Accounts |->
                      IF Content(a)' = Content(a) THEN changed[a] ELSE Len(landed') ]
    /\ UNCHANGED << queue, got, fate >>

AnyPosition == CHOOSE p \in Positions : TRUE
AnyMarket   == CHOOSE m \in Markets : TRUE

Lands(name, m, p) == Land(name, m, p, FALSE) /\ UNCHANGED faults

ChainStep ==
    \/ Tick /\ UNCHANGED indexerVars
    \/ InitializeTreasury /\ Lands("initialize_treasury", AnyMarket, AnyPosition)
    \/ \E m \in Markets :
        \/ \E d \in StartDelays, r \in Radii, set \in OracleSets, t \in Thresholds :
               CreateMarket(m, d, r, set, t) /\ Lands("create_market", m, AnyPosition)
        \/ \E u \in Users, b \in Playable, amount \in Amounts :
               PlaceBet(m, u, b, amount) /\ Lands("place_bet", m, <<u, b>>)
        \/ CloseMarket(m) /\ Lands("close_market", m, AnyPosition)
        \/ \E s \in Signers, score \in Scores :
               SubmitScore(m, s, score) /\ Lands("submit_score", m, AnyPosition)
        \/ ResolveMarket(m) /\ Lands("resolve_market", m, AnyPosition)
        \/ \E u \in Users, b \in Playable :
               ClaimReward(m, u, b) /\ Lands("claim_reward", m, <<u, b>>)
        \/ ReclaimPool(m) /\ Lands("reclaim_pool", m, AnyPosition)

\* A transaction may land although its execution failed: it changes nothing, and
\* Helius reports it with its error.
FailedTransaction ==
    /\ OneMoreFault
    /\ \E name \in Failing, m \in Markets, p \in Positions :
           UNCHANGED vars /\ Land(name, m, p, TRUE)
----------------------------------------------------------------------------
(* The webhook. *)

Batches == { << i >> : i \in inbox } \cup
           UNION { { s \in [1..n -> inbox] : IsInjective(s) } : n \in 2..MaxBatch }

\* Faulty: transactionError is not looked at.
Successful_All(batch) == batch

\* The loop over the batch, which passes over what failed.
Successful(batch) ==
    LET kept[n \in 0..Len(batch)] ==
            IF n = 0 THEN << >>
            ELSE IF landed[batch[n]].failed THEN kept[n-1]
            ELSE Append(kept[n-1], batch[n])
    IN  kept[Len(batch)]

\* handleWebhook up to its first await, of a batch that parses.
Accept(r, batch) ==
    /\ queue[r] = << >>
    /\ queue' = [ queue EXCEPT ![r] = Successful(batch) ]
    /\ UNCHANGED << vars, landed, got, fate, changed >>

Deliver(r) ==
    \E batch \in Batches :
        Accept(r, batch) /\ inbox' = inbox \ Range(batch) /\ UNCHANGED faults

\* Helius delivers a batch that it will deliver again.
DeliverTwice(r) ==
    \E batch \in Batches : Accept(r, batch) /\ UNCHANGED inbox /\ OneMoreFault

\* One transaction of the batch has a shape that the schema does not know: the whole
\* batch is dropped, after the 200.
DeliverMalformed ==
    /\ \E batch \in Batches : inbox' = inbox \ Range(batch) /\ Ends("unparsed", Range(batch))
    /\ OneMoreFault
    /\ UNCHANGED << vars, landed, queue, got, changed >>
----------------------------------------------------------------------------
(* Handlers, between awaits.  Current(r) is the transaction being handled. *)

Current(r) == landed[Head(queue[r])]

\* Faulty: an error ends the whole request.
AfterError_StopsBatch(q) == << >>

\* Faulty: the same transaction is handled again.
AfterError_Retries(q) == q

\* The catch clause is inside the loop.
AfterError(q) == Tail(q)

\* Faulty: what was read for one transaction is still there for the next.
GiveUp_KeepsAnswers(r, f) ==
    /\ queue' = [ queue EXCEPT ![r] = AfterError(@) ]
    /\ Ends(f, {Head(queue[r])})
    /\ UNCHANGED << vars, landed, inbox, got, changed >>

GiveUp(r, f) ==
    /\ queue' = [ queue EXCEPT ![r] = AfterError(@) ]
    /\ got' = [ got EXCEPT ![r] = << >> ]
    /\ Ends(f, {Head(queue[r])})
    /\ UNCHANGED << vars, landed, inbox, changed >>

WithAnswer(answers, read, answer) ==
    [ x \in DOMAIN answers \cup {read} |-> IF x = read THEN answer ELSE answers[x] ]

\* One of the reads in flight is answered; the first that finds no account
\* rejects the handler's promise.
Read(r) ==
    /\ queue[r] # << >>
    /\ \E read \in InFlight(Current(r), got[r]) :
        LET answer == Answer(read, Current(r))
        IN  \/ /\ ~answer.exists
               /\ GiveUp(r, "gone") /\ UNCHANGED faults
            \/ /\ answer.exists
               /\ got' = [ got EXCEPT ![r] = WithAnswer(@, read, answer) ]
               /\ UNCHANGED << vars, landed, inbox, queue, fate, changed, faults >>

\* The RPC node refuses or breaks off a read.
ReadFails(r) ==
    /\ queue[r] # << >>
    /\ InFlight(Current(r), got[r]) # {}
    /\ GiveUp(r, "broken") /\ OneMoreFault

\* The event is complete and on its way to the backend.
Posting(r) == queue[r] # << >> /\ InFlight(Current(r), got[r]) = {}

Post(r) ==
    /\ Posting(r)
    /\ queue' = [ queue EXCEPT ![r] = Tail(@) ]
    /\ got' = [ got EXCEPT ![r] = << >> ]
    /\ Ends("posted", {Head(queue[r])})
    /\ UNCHANGED << vars, landed, inbox, changed, faults >>

\* An error status, no answer within ten seconds, no connection: the backend may
\* have taken the event all the same.
PostFails(r) == Posting(r) /\ GiveUp(r, "broken") /\ OneMoreFault

\* The process dies with all it was working on, and is started again.
Crash ==
    /\ \E r \in Requests : queue[r] # << >>
    /\ queue' = [ r \in Requests |-> << >> ]
    /\ got' = [ r \in Requests |-> << >> ]
    /\ Ends("crashed", UNION { Range(queue[r]) : r \in Requests })
    /\ OneMoreFault
    /\ UNCHANGED << vars, landed, inbox, changed >>
----------------------------------------------------------------------------
IndexerNext ==
    \/ ChainStep
    \/ FailedTransaction
    \/ Crash
    \/ DeliverMalformed
    \/ \E r \in Requests : \/ Deliver(r) \/ DeliverTwice(r)
                           \/ Read(r) \/ ReadFails(r)
                           \/ Post(r) \/ PostFails(r)

IndexerSpec == IndexerInit /\ [][IndexerNext]_allVars

\* Helius delivers, and a request that was accepted goes on: reads are answered,
\* posts end, if only by their timeout.  Nothing is assumed of the chain.
IndexerFairSpec ==
    /\ IndexerSpec
    /\ \A r \in Requests : WF_allVars(Read(r)) /\ WF_allVars(Post(r))
    /\ WF_allVars(\E r \in Requests : Deliver(r))
============================================================================
