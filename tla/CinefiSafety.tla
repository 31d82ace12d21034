---------------------------- MODULE CinefiSafety ----------------------------
(***************************************************************************)
(* What the cinefi program promises: to the users whose stakes it holds,   *)
(* to the oracles whose score it records, and to the winners it pays.      *)
(***************************************************************************)
EXTENDS Cinefi

AmountOn(m, b) ==
    SumFunction([ u \in Users |-> position[m][<<u, b>>].amount ])

WeightOn(m, b) ==
    SumFunction([ u \in Users |-> position[m][<<u, b>>].weighted_amount ])

\* What claim_reward would pay for a position, zero if it would refuse.
Due(m, p) ==
    IF position[m][p].amount > 0 /\ Wins(m, p[2]) THEN Payout(m, p[1], p[2]) ELSE 0

Submitters(m) ==
    { report[m].submissions[i].signer : i \in DOMAIN report[m].submissions }

\* All the money that bettors ever have.
Wealth == Cardinality(Users) * InitialWallet

\* No sum and no weight of theirs leaves the width of the program's integers.
WealthFits ==
    /\ Wealth <= MaxU64
    /\ \A day \in 0 .. BETTING_DURATION_DAYS - 1 : Wealth * TimeMultiplier(day) <= MaxU64
----------------------------------------------------------------------------
(* Invariants. *)

\* Until a market is resolved its three views of the stakes agree: every bucket
\* of pool and of weighted_pool is the sum of the positions in it, total_pool is
\* the sum of the buckets, and the vault holds exactly that on top of its rent
\* (place_bet updates the five places one after the other).
StakesAccounted ==
    \A m \in created \ resolved :
        /\ \A b \in Buckets : pool[m][b] = AmountOn(m, b)
        /\ \A b \in Buckets : weighted_pool[m][b] = WeightOn(m, b)
        /\ total_pool[m] = SumFunction(pool[m])
        /\ vault[m] = VaultRent + total_pool[m]

\* Until the sweep, the vault of a resolved market covers every payout still due
\* and its own rent, in whatever order the winners claim (resolve_market takes
\* the fee and fixes the prizes, claim_reward rounds each payout down).
Solvent ==
    \A m \in resolved \ reclaimed :
        vault[m] >= VaultRent + SumFunction([ p \in Positions |-> Due(m, p) ])

\* A finalized report rests on at least oracle_threshold different keys of the
\* market's oracle_set, all with the agreed score; a report is never both
\* finalized and disputed, and a disputed one holds two different scores
\* (submit_score and evaluate_report).
VerdictOfOracles ==
    \A m \in created :
        LET r == report[m] IN
        /\ r.finalized =>
              /\ ~r.disputed
              /\ Cardinality(Submitters(m)) >= terms[m].oracle_threshold
              /\ Submitters(m) \subseteq Range(terms[m].oracle_set)
              /\ \A i \in DOMAIN r.submissions : r.submissions[i].score = r.agreed_score
        /\ r.disputed =>
              \E i, j \in DOMAIN r.submissions :
                  r.submissions[i].score # r.submissions[j].score

\* A resolved market was closed and past its settlement time, and its recorded
\* outcome is still the one its report and its pools give: neither moved after
\* resolve_market read them.
SettlementStands ==
    \A m \in resolved :
        /\ m \in closed
        /\ now >= terms[m].settle_at
        /\ report[m].finalized
        /\ outcome[m] = OutcomeFor(m, report[m].agreed_score)

\* As long as every bucket that holds stakes also holds weight, the two searches
\* for the winners agree: a bucket has a prize only if claim_reward takes its
\* bettors for winners, and it takes the bettors of a staked bucket for winners
\* exactly if compute_bucket_prizes counted the bucket as a winning one (the one
\* searches the array pool, the other weighted_pool).
PrizesReachWinners ==
    \A m \in resolved :
        (\A b \in Buckets : pool[m][b] > 0 => weighted_pool[m][b] > 0) =>
            \A b \in Playable :
                /\ outcome[m].bucket_prize[b] > 0 => Wins(m, b)
                /\ pool[m][b] > 0 =>
                      (Wins(m, b) <=>
                          b \in WinningBuckets(weighted_pool[m], outcome[m].final_outcome,
                                               terms[m].radius))

\* Through the deadline itself, a winner whose payout is positive can claim at once,
\* if the vault is one that transfers debit at all; nothing else stands in the way, no
\* other user's claim and no rent rule (claim_reward), but a sweep in that last second,
\* in which the program lets the two overlap (reclaim_pool.rs:12).
OnlyVaultStopsClaim ==
    \A m \in resolved, u \in Users, b \in Buckets :
        ClaimWindowOpen(m) /\ Due(m, <<u, b>>) > 0 =>
            /\ ClaimAllowed(m, u, b) <=> VaultDebitable /\ m \notin reclaimed
            /\ m \in reclaimed => now = terms[m].claim_deadline

\* What resolves a market with an agreed score: at its settlement time and ever after it
\* takes no more than a vault that can be debited and a treasury that exists or that
\* the fee founds, and not even these if the fee is zero.  The rent of the vault never
\* stands in the way (resolve_market).
OnlyVaultStopsResolution ==
    \A m \in closed \ resolved :
        LET fee == Fee(total_pool[m]) IN
        report[m].finalized /\ now >= terms[m].settle_at =>
            (ResolveAllowed(m) <=>
                \/ fee = 0
                \/ VaultDebitable /\ (treasury_open \/ treasury + fee >= TreasuryRent))

\* A vault that transfers cannot debit keeps every lamport for ever: no market is swept,
\* only those without a fee are resolved, no winner is paid, and in each the vault, the
\* pools and the positions stay as the bettors left them (create_market.rs:83).
UndebitableVaultKeepsAll ==
    ~VaultDebitable =>
        /\ reclaimed = {}
        /\ \A m \in resolved : Fee(total_pool[m]) = 0
        /\ \A m \in created :
              /\ vault[m] = VaultRent + total_pool[m]
              /\ \A b \in Buckets : pool[m][b] = AmountOn(m, b)

----------------------------------------------------------------------------
(* Action properties. *)

\* Once a report is finalized or disputed it never changes again, although the
\* third oracle may still be submitting.
VerdictStands ==
    [][ \A m \in created :
            report[m].finalized \/ report[m].disputed => report'[m] = report[m] ]_vars

\* No stake is placed on a market once an oracle has shown its score, not even at
\* betting_closes_at itself, when betting and closing are both allowed.
NoBetOnKnownScore ==
    [][ \A m \in created :
            report[m].submissions # << >> => total_pool'[m] = total_pool[m] ]_vars

\* Before the deadline a resolved market's vault only falls by what one of its
\* bettors receives, and that bettor gives up the position paid for.
VaultPaysOnlyWinners ==
    [][ \A m \in resolved :
            (vault'[m] # vault[m] /\ now < terms[m].claim_deadline) =>
                \E p \in Positions :
                    /\ Due(m, p) = vault[m] - vault'[m]
                    /\ wallet'[p[1]] = wallet[p[1]] + Due(m, p)
                    /\ position'[m][p] = NoPosition
                    /\ treasury' = treasury ]_vars
============================================================================
