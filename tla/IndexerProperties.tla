-------------------------- MODULE IndexerProperties --------------------------
(* What the events the indexer posts may be relied on for. *)
EXTENDS Indexer

Event(r)         == got[r]
EventOf(r, name) == Posting(r) /\ Current(r).name = name

\* A place_bet event never shows a position larger than the pool of its bucket, even
\* when the account moves on between the reads: the pool is read after the position
\* (handlers/place-bet.ts:15).
BetCovered ==
    \A r \in Requests : EventOf(r, "place_bet") =>
        /\ Event(r)["bucket_pool"].amount >= Event(r)["position"].amount
        /\ Event(r)["bucket_pool"].weighted_amount >= Event(r)["position"].weighted_amount

\* The three parallel reads of resolve_market form one picture, the final one: a
\* resolved market, the finalized report with its outcome, and prizes that fit in
\* its prize pool (handlers/resolve-market.ts:15).
ResolutionWhole ==
    \A r \in Requests : EventOf(r, "resolve_market") =>
        LET market == Event(r)["market"]
            prizes == Event(r)["bucket_prizes"].prizes
        IN  /\ market.resolved
            /\ Event(r)["report"].finalized
            /\ Event(r)["report"].agreed_score = market.final_outcome
            /\ SumFunctionOnSet(prizes, DOMAIN prizes) <= market.total_prize_pool
            /\ Event(r)["bucket_prizes"] = BucketPrizeData(Current(r).market)

\* Whatever the order of deliveries, reads and posts, and whatever fails: the event for
\* the last transaction that changed an account shows the account as it is now.  For that
\* every handler must read every account its instruction changes, after the transaction
\* (server.ts:71).
EventsCurrent ==
    \A r \in Requests, a \in Accounts :
        Posting(r) /\ changed[a] = Head(queue[r]) =>
            \E read \in DOMAIN Event(r) :
                a = Account(read, Current(r)) /\ Event(r)[read] = Content(a)

\* No transaction is lost without a cause of its own: each that was delivered and
\* succeeded was posted, or it names a position that is gone, or its own read or post
\* failed, or it was in a batch with a malformed transaction, or in the process when that
\* died.  An error in a handler costs no other event (server.ts:91).
OthersSurvive ==
    /\ \A i \in 1..Len(landed) \ Backlog : landed[i].failed \/ \E f \in Fates : i \in fate[f]
    /\ \A i \in fate["gone"] :
          /\ landed[i].name \in {"place_bet", "claim_reward"}
          /\ ~UserPositionData(landed[i].market, landed[i].position).exists
    /\ faults = 0 => \A f \in Fates \ {"posted", "gone"} : fate[f] = {}

\* Every transaction that landed is delivered and worked off, whatever came of it
\* (server.ts:71).
EverythingHandled == \A i \in 1..MaxLanded : i \in Backlog ~> i \notin Backlog

\* app/indexer/example.txt:123 documents a claim_reward event with the claimed
\* position.  Violated without any fault: claim_reward closes the position account
\* (claim_reward.rs:69), and the handler then reads it (handlers/claim-reward.ts:13).
ClaimsAreForwarded ==
    \A i \in fate["gone"] : landed[i].name # "claim_reward"
============================================================================
