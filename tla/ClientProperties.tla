---------------------------- MODULE ClientProperties ----------------------------
(* What a client may rely on that acts on what it read some time ago. *)
EXTENDS Client

TooEarly  == { "BettingNotStarted", "BettingStillOpen", "MarketNotClosed", "MarketNotResolved",
               "ClaimDeadlineNotPassed" }
Malformed == { "ConstraintSeeds", "InvalidAmount", "Unauthorized" }

\* A call that the predicates offered on a market read earlier comes too late or meets
\* something they do not look at, but it is never too early and never names the wrong
\* accounts: the program never takes back a stage it has reached (utils/index.ts:63).
\* resolve_market can be early, since canResolveMarket looks at no date.
NeverTooEarly ==
    client.phase = "refused" /\ client.name # "resolveMarket" =>
        client.refused \notin TooEarly \cup Malformed

\* Whatever refuses a call, the client names the check of the program that did, and
\* nothing for errors that are not the program's, however the error reaches it
\* (errors/index.ts:82): two tables in two languages number the errors alike.
RefusalNamed ==
    client.phase = "refused" => \A error \in ErrorsOf(client.refused) :
        ParseCinefiError(error) =
            IF client.refused \in Range(ErrorCode) THEN client.refused ELSE NoError

\* A client that got no answer may repeat any call but a bet: one that took effect is
\* refused from then on, whatever happens next (instructions/claim-reward.ts:55).
RepeatIsRefused ==
    client.phase = "done" /\ client.ix.name # "placeBet" => Refusal(client.ix) # Accepted

\* The positions a user is shown, read one by one while others act: one read after
\* betting closed is shown in full for as long as it can still be claimed, unless its own
\* read failed, and until claims begin none is shown with more than is held
\* (accounts/index.ts:76).
OnlyFailedReadsHide ==
    client.phase = "listed" =>
        LET held == FetchUserPosition(client.user, client.of, client.bucket, FALSE)
        IN  /\ client.after_close /\ held.exists => client.entry = held \/ client.failed
            /\ client.entry.exists /\ client.of \notin resolved =>
                   held.exists /\ client.entry.amount <= held.amount

(* The accounts that the handlers of the indexer fetch for an instruction, by their
   places among its accounts, here counted from 1. *)

CreateMarketFetches(accounts) == { accounts[2], accounts[4] }
\* Faulty: the vault is taken for the position.
PlaceBetFetches_Vault(accounts) == { accounts[2], accounts[4] }

PlaceBetFetches(accounts) == { accounts[2], accounts[3] }
CloseMarketFetches(accounts) == { accounts[2] }
SubmitScoreFetches(accounts) == { accounts[3] }
ResolveMarketFetches(accounts) == { accounts[2], accounts[3] }
ClaimRewardFetches(accounts) == { accounts[3] }
ReclaimPoolFetches(accounts) == { accounts[2] }

Fetched(ix) ==
    CASE ix.name = "initializeTreasury" -> {}
      [] ix.name = "createMarket"       -> CreateMarketFetches(ix.accounts)
      [] ix.name = "placeBet"           -> PlaceBetFetches(ix.accounts)
      [] ix.name = "closeMarket"        -> CloseMarketFetches(ix.accounts)
      [] ix.name = "submitScore"        -> SubmitScoreFetches(ix.accounts)
      [] ix.name = "resolveMarket"      -> ResolveMarketFetches(ix.accounts)
      [] ix.name = "claimReward"        -> ClaimRewardFetches(ix.accounts)
      [] ix.name = "reclaimPool"        -> ReclaimPoolFetches(ix.accounts)

(* The addresses of the accounts that a step changes, among those that are indexed. *)

MarketAccount(m) ==
    IF m \notin created THEN Null ELSE
    [ exists |-> TRUE, flags |-> << m \in closed, m \in resolved, m \in reclaimed >>,
      terms |-> terms[m], outcome |-> outcome[m],
      pools |-> << pool[m], weighted_pool[m], total_pool[m] >> ]

ReportAccount(m) == IF m \notin created THEN Null ELSE [ exists |-> TRUE, report |-> report[m] ]

ChangedAccounts ==
    { DeriveMarketPDA(m) : m \in { x \in Markets : MarketAccount(x)' # MarketAccount(x) } }
    \cup { DeriveOracleReportPDA(DeriveMarketPDA(m)) :
               m \in { x \in Markets : ReportAccount(x)' # ReportAccount(x) } }
    \cup { DeriveUserPositionPDA(a[2][1], DeriveMarketPDA(a[1]), a[2][2]) :
               a \in { x \in Markets \X Positions :
                           position[x[1]][x[2]]' # position[x[1]][x[2]] } }

\* Every account an instruction changes is one that its handler in the indexer fetches,
\* by its place among the accounts of the instruction as the client encodes them
\* (handlers/place-bet.ts:12): the order of the generated interface, the seeds of the
\* client and the places in the handlers agree.
HandlersFetchChanges ==
    [][ At({"sent"}) /\ client'.phase = "done" =>
            ChangedAccounts \subseteq Fetched(client.ix) ]_clientVars
============================================================================
