----------------------------- MODULE CinefiDocs -----------------------------
(***************************************************************************)
(* Sentences of the repository's documentation that the program does not   *)
(* keep, stated as properties.  Each has a run that shows a counterexample.*)
(***************************************************************************)
EXTENDS CinefiSafety

\* README, submit_score: a report is disputed only if all three oracles submitted
\* and no score has threshold-many votes.
DisputedAfterAllSubmit ==
    \A m \in created :
        report[m].disputed =>
            /\ Len(report[m].submissions) = 3
            /\ \A score \in Scores :
                  Cardinality({ i \in 1..3 : report[m].submissions[i].score = score })
                      < terms[m].oracle_threshold

\* README, resolve_market: anyone can resolve once settle_at has passed and the
\* report is finalized.
AnyoneCanResolve ==
    \A m \in closed \ resolved :
        (treasury_open /\ report[m].finalized /\ now >= terms[m].settle_at) =>
            ResolveAllowed(m)

\* README, market lifecycle: the claim window lasts CLAIM_WINDOW_DAYS after the
\* resolution.
FullClaimWindow ==
    [][ \A m \in resolved' \ resolved :
            terms[m].claim_deadline - now >= CLAIM_WINDOW_DAYS * SECONDS_PER_DAY ]_vars

\* README, fallback mechanism: the prize pool is always distributed rather than
\* locked, so whoever bet in a fallback bucket with a prize is a winner.
FallbackPrizeClaimable ==
    \A m \in resolved :
        outcome[m].fallback_used =>
            \A b \in Playable : outcome[m].bucket_prize[b] > 0 => Wins(m, b)

============================================================================
