# cinefi: models, model checks and proofs

This directory holds a TLA+ model of the cinefi program (prediction markets on
film scores, an Anchor program for Solana), the TLC runs that check it on small
instances, and TLAPS proofs of its most important properties for every instance.

Paths below are relative to the repository; `I/` stands for
`programs/cinefi/src/instructions/`, `U/` for `programs/cinefi/src/utils/`.

## 1. The system

### Parts

| part | state it keeps | operations | where |
|---|---|---|---|
| Treasury | lamports of one PDA | `initialize_treasury`; receives fees and sweeps | `I/initialize_treasury.rs` |
| Market | terms, three pools, flags `closed`/`resolved`/`reclaimed`, outcome and prizes | `create_market`, `close_market` | `I/create_market.rs`, `I/close_market.rs` |
| Positions | stake and weight per user and bucket; the account exists between the first bet and the claim | `place_bet` | `I/place_bet.rs` |
| Oracle report | up to three submissions, the verdict | `submit_score` | `I/submit_score.rs`, `U/validations.rs` |
| Settlement | fee, winning buckets, prize per bucket | `resolve_market` | `I/resolve_market.rs`, `U/weights.rs` |
| Custody | lamports of one vault PDA per market | bets in; fee, claims and sweep out | `I/claim_reward.rs`, `I/reclaim_pool.rs` |
| Client | none of its own; what a caller read and sent | reads accounts, predicates, builds and sends instructions, names errors | `app/contract/` |
| Indexer | none between requests | webhook, decode, read accounts, forward an event | `app/indexer/src/` |
| Backend database | a schema only; the service is not in the repository | written by events | `app/indexer/prisma/schema.prisma` |

### Interaction

Everything that matters happens in eight instructions. An instruction is one
Solana transaction: it runs alone on the accounts it names, and a failing guard,
checked operation or transfer undoes all of it. So the concurrency of the program
is the *order* of transactions sent by creators, bettors, oracles and whoever
calls `close_market`, `resolve_market` and `reclaim_pool` (any signer may), and
their order relative to the clock, which four deadlines are compared with:
`betting_starts_at`, `betting_closes_at`, `settle_at` (and the oracle window behind
it) and `claim_deadline`. Accounts are the shared state: the market is read by all,
the vault is written by bets, resolution, claims and the sweep. A client reads
accounts, decides on what it read and sends a call that lands later, or not at all;
its answer may be lost. The indexer only observes: it gets each transaction by
webhook, some time after the fact.

### What is hard, and what makes it correct

* *Boundaries of the deadlines.* Two pairs of instructions overlap for one second:
  bet and close at `betting_closes_at`, claim and sweep at `claim_deadline`.
  Correct means that no bet follows a published score, and that through the deadline
  only a sweep in its last second takes a payout from a winner.
* *Conservation of money under rounding.* A stake is written in five places; the
  prize pool is split twice, first between buckets and then between positions, with
  saturating, truncating and rounding arithmetic. Correct means that the books
  agree with the positions and that the vault always covers what is due.
* *The verdict.* Three oracle keys, possibly repeated, submit in any order within one
  hour. Correct means that a verdict rests on enough different keys and is final.
* *Two searches for one set.* The prizes are computed from `weighted_pool`, the winner
  test of the fallback looks at `pool`.
* *Custody.* The vault is a PDA with an owner, a size and a rent-exempt minimum, and
  the runtime refuses transfers that ignore them. Tests never reached a transfer out
  of a vault (`TEST_FAILURES.md`: the clock of the test validator cannot be moved), and
  with the vault that `create_market` makes none succeeds. Correct means that nothing
  else ever refuses the fee, a claim or the sweep.
* *Progress.* Nobody is obliged to call anything; a missed or disputed report has no
  way out.
* *The indexer* answers the webhook before it processes it, does not retry, and reads
  accounts later than the event it reports, several per event and several events at a
  time. Correct means that an event never contradicts itself, that the event for the last
  change of an account tells the truth, and that an error in a handler costs no other event.
* *The client* repeats the guards of the program with boundaries of its own, and acts on
  what it read some time ago. Correct means that it hides nothing for longer than a
  second, that a call it offered is at worst too late, that a refusal is named for what
  it was, that a retry cannot take effect twice, and that a list of positions, read one
  by one, misses nothing that can be claimed but for reads that fail.
* *Two languages.* The order of accounts, the seeds and the numbers of the errors are
  written down in program, client and indexer separately.

`PROJECT.json` lists these hazards line by line with the properties aimed at them.

## 2. The modules

| module | what it models or proves |
|---|---|
| `Weights` | `U/weights.rs` and `is_winner` of `U/validations.rs` as operators |
| `Cinefi` | the eight instructions as actions, the clock, the runtime's transfer rules |
| `CinefiSafety` | invariants and action properties of `Cinefi` |
| `Escrow` | the abstract custody: what the program promises about money |
| `CinefiEscrow` | the refinement mapping from `Cinefi` to `Escrow` |
| `CinefiLiveness` | keeper fairness and what eventually happens |
| `CinefiDocs` | sentences of the documentation the program does not keep |
| `PrizeShares` | the arithmetic of `Weights` on every pool that bets can build |
| `Indexer` | the indexer, composed with `Cinefi`: deliveries, reads, posts, faults |
| `IndexerProperties` | what its events may be relied on for |
| `ClientState` | the predicates of `app/contract` against the guards of `Cinefi` |
| `ClientCalls` | addresses, accounts of the generated interface, builders of instructions |
| `Replies` | what the program refuses a call for, or the step it takes; the client's names of errors |
| `Client` | a client at work, composed with `Cinefi`: reads, calls in flight, answers, lost answers |
| `ClientProperties` | what it may rely on; the accounts the indexer's handlers fetch |
| `MCCinefi`, `MCPrizeShares`, `MCIndexer`, `MCClient` | constants of the TLC runs |
| `WeightsProofs` | facts on `SumFunctionOnSet` and on division; types and bounds of the operators of `Weights` |
| `CinefiProofs` | type correctness |
| `LifeProofs` | the verdict and its finality, the life cycle of a market, no bet after a score |
| `LedgerProofs` | books, settlement, solvency, who is paid, that nothing stands in the way of claims and resolution, the two searches for winners agree |
| `EscrowProofs` | `Cinefi` implements `Escrow` |
| `ShareProofs` | the properties of `PrizeShares` |
| `IndexerProofs` | what may be relied on of the events |
| `ClientProofs` | what a client may rely on |

The proof modules of `Cinefi` extend each other in the order `WeightsProofs`,
`CinefiProofs`, `LifeProofs`, `LedgerProofs`; `EscrowProofs`, `IndexerProofs` and
`ClientProofs` extend the last, `ShareProofs` the first.

### How `Cinefi` corresponds to the code

* A market is named by its media id, the seed of its PDA. Its three accounts are
  created together, so `m \in created` stands for all of them; `init` fails on an
  existing account, hence the guard `m \notin created`.
* The Boolean fields of the account `Market` are the sets `closed`, `resolved`,
  `reclaimed`; the fields written once by `create_market` are the record `terms[m]`,
  those written once by `resolve_market` the record `outcome[m]`.
* A `user_position` exists exactly while its amount is positive. `claimed` is
  written immediately before the account is closed, so no transaction ever sees it
  true: the model has no such field, and `ClaimReward` resets the position.
* `report[m].submissions` is the used prefix of the array of three; its length is
  `submission_count`.
* Everything an instruction can be refused for is one operator, `BetAllowed`,
  `CloseAllowed`, `ScoreAllowed`, `ResolveAllowed`, `ClaimAllowed` or `ReclaimAllowed`:
  constraints, `require!`s, checked arithmetic and the transfers' own conditions. The
  rest of the action only assigns, so the operator holds exactly when the action is
  possible, and properties that say what cannot be refused are stated with it.
* Guards that occur twice in the code (as account constraint and as `require!`) are
  one conjunct. The account constraints of PDAs (seeds, bumps) select the account;
  they are the argument `m`, `u`, `b` of the action.
* `Next` also offers rejected arguments (bucket 0 and one above the highest), so the
  guards on arguments do work.
* Transfers follow the runtime: a system transfer debits only a system-owned account
  without data (`VaultDebitable`), and leaves an account empty or rent-exempt
  (`RentExempt`). The owner and the size of a new vault are constants.
* `MarketTerms` adds a signed delay, so betting may open in the past.

### How `Indexer` corresponds to the code

* `ChainStep` is a step of `Cinefi` that also appends a transaction to `landed`; its
  index is its place in the order of execution. The slot, which many transactions share,
  is not modelled: the code only passes it on. A transaction holds one cinefi
  instruction; those of other programs are skipped by the code and left out.
  `FailedTransaction` is one that landed with an error.
* `Accept` is `handleWebhook` up to its first `await` for a batch that parses: the answer
  200 and the loop over transactions, whose `continue` on `transactionError` is
  `Successful` (a recursive function that keeps the successful ones in their order). A
  request is then the queue of what the loop has still to handle. `DeliverMalformed` is
  the other outcome of `safeParse` (`server.ts:60-67`): one transaction of a shape that
  the schema does not know, and the whole batch is dropped after the 200.
* Each handler is a sequence of stages of reads (`PlaceBetReads` and its like); the reads
  of a stage run in parallel (`Promise.all`). `Read` answers one of them with the
  account as it is at that moment. If the account does not exist the promise is
  rejected, and the `catch` inside the loop goes on with the next transaction
  (`GiveUp`, `AfterError`).
* `Post` is `sendEvent` and `PostFails` its error path; a timeout may hide that the
  backend took the event. Nothing is retried in the code, so nothing is in the model.
* `Crash` loses the requests at work; Helius has its 200 and does not send them again.
* External, and so assumed: Helius delivers in any order, in batches, possibly twice; the
  RPC node is never behind the transaction it is asked about (both are at commitment
  `confirmed`). Nothing is assumed of the backend: the properties end with what is posted.
* `changed` and `fate` are histories that the properties need: which transaction last
  changed each account, and how the handling of each ended (posted, its position gone, its
  read or post failed, its batch not parsed, the process crashed).

### How the client corresponds to the code

Each predicate of `app/contract/utils/index.ts` is an operator of `ClientState` with the
same name, on a market as `fetchMarket` returned it and on the parameter `currentTime`.
`Client*` properties evaluate it on the account as it is, and compare it with the
`...Allowed` operator of the instruction. `Client` evaluates it on an account read earlier:

* `client.phase` is `idle`, `read` (a market was fetched), `sent` (a transaction is on
  its way), `done` or `refused` (its answer), `listing` and `listed`. `ReadMarket` may
  be repeated at any time, and everybody else acts in between (`Others` is `Next`).
* `Offered` is the use that `getMarketState` is made for: the predicate is asked before
  the builder is called. The actions `Send*` are the functions `...AndSend`. `Landed` is
  the step of `Cinefi` that the instruction names; `Refused` has the first check that
  fails. `Expires` is an answer that never comes: the transaction may still land, which
  is then one of the steps of the others.
* `currentTime` is the time of the chain. The code takes it as a parameter and
  falls back on the clock of the machine, which is not modelled.
* `fetchUserPositionsForMarket` sends 101 reads at once and filters what is missing.
  They do not influence each other, so one of them, chosen freely, is followed;
  `after_close` remembers whether betting had closed when it was sent.
* Any read may fail. `fetchMarket` and `fetchUserPosition` catch every error and answer
  null, as for an account that does not exist, and so do `FetchMarket` and
  `FetchUserPosition` with `failed`; `PositionListed` records it as a history, because
  the list itself does not tell.
* `Replies` lists the checks of each instruction in the order in which Anchor makes
  them: accounts that must exist, accounts to be created, constraints in the order of
  the accounts, then the handler. Among the constraints only those that a builder
  could get wrong are there. A claim on a bucket without weight is refused with
  `InsufficientClaimAmount`, one on a bucket that has weight and no prize with `NotAWinner`,
  and one whose payout rounds to zero with `InsufficientClaimAmount` again, as in
  `U/weights.rs:102-103` and `I/claim_reward.rs:20`. For every call that is sent, `Refusal(ix) = Accepted` holds
  exactly when `Execute(ix)` is possible.
* An error carries a `code`, or logs in which a code is named; `ErrorsOf` has both. The
  runtime's refusals of a transfer (`Codeless`) carry neither.
* `ClientCalls` has the accounts of `cinefi.ts` with what Anchor finds them by. This
  resolver is external, and shows something the types hide: in six builders `market` is
  not given, and its seeds include `market.media_id`, a field of the account that is
  looked for. With `CallerGives = {}` only `initializeTreasury` and `createMarket` yield
  an instruction. The run sets `CallerGives = {"market"}`, as the tests do, which
  name every account (`tests/place_bet.ts:91-96`, `accountsPartial`).

### The escrow

`Escrow` says what the program promises about money and leaves out dates, buckets,
weights and oracles. A market goes from `open` over `closed` and `agreed` to `settled` and
`swept`, or gets `stuck`; each stage permits one kind of movement. `CinefiEscrow` maps the
program to it: the pot is the vault without its rent, the shares are what `claim_reward`
would pay now, and a market is stuck once its report is disputed or the oracles' hour has
passed without a verdict. Time passing is a step of the escrow (`Lapse`), because it can
make several markets stuck at once. That `stuck` has no way out is part of the promise:
the code offers none. `Endow` admits the rent that founds the treasury.

### The two vaults

`create_market` initialises the vault with `space = 8` and no `owner`
(`I/create_market.rs:83`), which makes it an account of the program with 8 bytes of data.
`system_program::transfer` refuses to debit such an account. So, as committed, no fee, claim
or sweep succeeds unless nothing is to be paid: a market is resolved only if its fee rounds
to zero, and its stakes stay in the vault for good. `docResolve` shows it against a sentence
of the documentation, and `UndebitableVaultKeepsAll` says that it is the whole truth about
such a vault.

Owner and size are the constants `VaultOwner` and `VaultSpace`, and each run says which vault
it has:

* `"program"` and 8, the vault of the code: `committed`, and the four `doc...` runs of the
  program. What these find is true of the code as it stands.
* `"system"` and 0, a vault that transfers can debit: `settlement`, `oracles`, `agreement`,
  `webhook`, `handled` and `docClaimEvent`. With the vault of the code
  the claims and sweeps that these runs are about would never be taken, so they check the
  accounting, the deadlines and the observers of the program behind its first failing
  transfer, which is otherwise the code as it is.

No property is true only because of the second kind of vault. What says that money can leave
is stated exactly, with the vault as one of the conditions: `OnlyVaultStopsClaim`,
`OnlyVaultStopsResolution`, `ClientOffersExactly` and `AgreedEnds` are checked with both
vaults, and the theorems leave the two constants arbitrary.

## 3. The runs

Times are scaled: a day is one tick, betting lasts 2 days, settlement is on day 3,
the claim window 2 days, the oracle window 1 tick. Everything that compares a time
with a deadline meets the values before, at and after it, and `MaxTime = 6` is past
the last deadline. Money is scaled too: stakes of 2 and 3 lamports, a fee of 20 %
(of a few lamports 3 % would always be zero), multipliers 1000 and 400 per mille,
so that weights round, including to zero, and shares do not divide evenly.
`MaxU64` and `MaxU128` are smaller than the real widths, and above what the runs
reach; what happens at the widths is covered by the theorems.

| run | question | bounds |
|---|---|---|
| `settlement` | Do the books agree, does the vault cover what is due, is the settlement final, do only vault and treasury stand in the way of claims and resolution, is only a winner paid and only once, does all money move as in the escrow? | 2 users, 2 buckets, 3 oracles of which 2 needed, radius 0 or 1, a debitable vault |
| `committed` | With the vault of the code: is it all that refuses claims and resolution, does it keep every lamport, how does a market end whose oracles agreed, and what does the client offer all the same? | as `settlement`, the vault of the code, one order of the oracles |
| `oracles` | Does a verdict rest on enough different keys, is it final, does no bet follow a score, is a market whose oracles agreed resolved and swept in the end? | a debitable vault, thresholds 0 to 4, a set with a repeated key, a stranger among the signers, betting that opens a tick early, now or late |
| `prizes` | Do the prizes use up the prize pool, do closer buckets earn no less, do two claims on a bucket fit its prize, does waiting never gain weight? | 4 buckets, every outcome |
| `agreement` | Do the prizes and the winner test agree on the edge of and outside the radius? Which calls that the client offers does the program accept? Is a call decided on an earlier read at worst too late, is a refusal named, a retry harmless, does a list of positions miss only what could not be read? Do interface, seeds and handlers name the same accounts? | 3 buckets, radius 1, one bettor, bets of 3 lamports, betting that opens a tick late, days of 2 ticks, one client with one call at a time |
| `webhook` | Are events consistent with themselves, is the one for the last change of an account current, what is lost and with what? | one bettor with two bets, 2 requests, a backlog of 2, batches of 2, one fault |
| `handled` | Is every transaction handled in the end? | one bet, no fault |

The runs of the indexer use a market that lives from tick 0 to tick 1, where every
deadline falls on tick 1 and all stages of the life cycle are possible in turn: what
matters there is the order of transactions, not the dates. `MaxLanded = 8` is a whole
life with one bet, claim and sweep. A backlog of two is enough for a transaction to
land between two reads of another's handler, for two requests to overtake each other,
and for a batch whose first transaction fails. Only `resolve_market` may land with an
error: it is the instruction whose failure would tell a lie.

In `agreement` one client has one call in flight while everybody else may do anything
the program permits, at any time, including the calls the client could make: two clients
that race are one client and the others. It sends every argument of the sets, the
refused ones too, so the program refuses some for arguments and some for
money: the wallet holds two bets, and a third is refused by the runtime.

Symmetry: `settlement` and the `doc...` runs of the program permute users and oracle keys;
there the set of oracle sets holds every order of the keys, which makes the permutation a
symmetry.
`webhook` and `docClaimEvent` permute the requests. `committed`, `oracles`,
`agreement` and `handled` use none. Deadlock is not checked in any run: the clock is bounded,
and a market ends after its sweep.

Five runs end in a violation, one per sentence of the documentation that the program
contradicts; `PROJECT.json` quotes each.

| run | the documentation says | the program does |
|---|---|---|
| `docResolve` | anyone can resolve after `settle_at` with a finalized report | the fee cannot leave the vault |
| `docDispute` | a dispute needs three submissions | two different scores at threshold 2 suffice |
| `docClaimWindow` | 14 days to claim after resolution | counted from `settle_at` |
| `docFallback` | the fallback always distributes the prize pool | a nearest bucket that weighs nothing locks it |
| `docClaimEvent` | a `claim_reward` event shows the claimed position | the event is never sent, the position account is gone |

Other sentences that the code contradicts, seen while modelling and left without a run of
their own: a winning user can claim before the deadline (`README.md:476`; not out of the vault
of the code, which `OnlyVaultStopsClaim` and `UndebitableVaultKeepsAll` state), all positions
of a user are listed (`app/contract/README.md:1024`; those whose read fails are left out
without a sign, as `OnlyFailedReadsHide` states), the sweep comes after the deadline has
passed (`README.md:499`; it is allowed at the deadline), `initialize_treasury` must come
before any resolution (`README.md:340`; it is not looked at), buckets 0 to 100 are valid
(`app/contract/README.md:365`; 0 is refused, which `ClientOffersExactly` states), thresholds 1
to 3 are valid (`app/contract/README.md:766`; 1 is refused), `isWinningBucket` tells whether
to claim (`app/contract/README.md:1454`; not after a fallback, which `ClientOffersExactly`
states too), the codes of the errors (`app/contract/README.md:1449-1455`; among others `6005`
is `BettingNotStarted` and not `BettingClosed`), a second claim returns `AlreadyClaimed` (the
position is gone, so Anchor answers 3012, which the client has no name for), `programId` of
the configuration selects the program (`app/contract/index.ts:36-46`; only the interface's
address does).

### Fairness

The program schedules nothing, so `Spec` has no fairness. `CinefiLiveness` adds weak
fairness of the clock and of the four instructions any signer may send
(`initialize_treasury`, `close_market`, `resolve_market`, `reclaim_pool`): one keeper
that retries them, whoever it is, makes that true, and each stays enabled until it is
executed. Nothing is assumed of bettors, winners and oracles, so `AgreedEnds`
starts from a finalized report. With a vault that transfers can debit it says that the market
is swept in the end, with the vault of the code that it is resolved exactly if its fee is
zero, and never swept. Markets whose deadline lies beyond `MaxTime` are
left out, because the bounded clock would never reach it.

`IndexerFairSpec` assumes that Helius delivers (weak fairness of `Deliver`) and that a
request that was accepted goes on: the event loop runs every continuation whose
promise is settled, a post settles after ten seconds at the latest, and a read is
assumed to be answered. Nothing is assumed of the chain.

## 4. The proofs

The constants are arbitrary values that satisfy the assumptions of the modules:
`WeightConstants` and `CinefiConstants` (finitely many users and markets, natural
amounts, a settlement day not before the end of betting, a fee of at most 100 %),
`IndexerConstants` (finitely many requests, and at least one request, market and user),
`ClientConstants` (the caller names no account but `market`) and `PrizeShareConstants`.
The last are the only ones with substance: multipliers fall from day to day and never
exceed the scale, no bucket is farther from another than `CLOSENESS_SCALE`, and
`CLOSENESS_SCALE` times all stakes times the prize money fits in u128. The code's table
satisfies the first two; the product fits up to about 1.8e16 lamports in one
market (18 million SOL). TLC evaluates each assumption in the runs that use the module.

### The program

| theorem | states | argument |
|---|---|---|
| `TypeCorrect` | `[]TypeOK` | inductive by itself; the interesting part is that subtractions stay natural (`FeeType`, the guards of transfers) and no division is by zero (`BucketPrizesType`, `PayoutType`) |
| `VerdictCorrect` | `[]VerdictOfOracles` | `ReportInv`: the signers of the submissions differ pairwise and belong to the set. The statement counts keys, which is not inductive; the injection of indices into keys turns one into the other |
| `VerdictFinal` | `VerdictStands` | every action but `SubmitScore` leaves the report alone, and `SubmitScore` requires it open |
| `StakesCorrect` | `[]StakesAccounted` | `LedgerInv` adds the markets not created yet (their total is zero, which `create_market` relies on) and the resolved ones; `SumUpdate` carries a bet through the sums |
| `SettlementCorrect` | `[]SettlementStands` | `ResolvedFrozen`: no action writes terms, pools, report or outcome of a resolved market |
| `SolventAlways` | `[]Solvent` | inductive together with `LedgerInv`. At resolution the dues fit in the prize pool: `PayoutsWithinPrize` within a bucket, `PrizesWithinTotal` between buckets, `SumPairs` to sum by bucket. A claim takes the same amount from both sides |
| `NoLateBet` | `NoBetOnKnownScore` | `LifeInv`: a report has submissions only after `closed` is set, and only `place_bet` raises a total, which requires it unset |
| `OnlyWinnersPaid` | `VaultPaysOnlyWinners` | of the steps that touch the vault of a resolved market only `ClaimReward` is possible before the deadline (the sweep waits for it), and it moves what was due |
| `ClaimsNeedVault` | `[]OnlyVaultStopsClaim` | what is due on one position is part of the sum in `Solvent`, so after paying it the vault still has its rent (`UnsweptPays`) and only its owner and size are left to refuse the transfer. `UnhinderedInv` adds that no sweep came before the deadline |
| `ResolutionNeedsVault` | `[]OnlyVaultStopsResolution` | `LedgerInv` gives the vault the fee and its rent; `UnhinderedInv` keeps an initialized treasury above its own, which no other invariant says |
| `StakesStay` | `[]UndebitableVaultKeepsAll`, if the vault has rent | no lamport leaves, so the vault of a created market is never empty and a sweep would have to debit it; a resolution that succeeds has no fee. The books of `LedgerInv` do the rest |
| `WinnersAgree` | `[]PrizesReachWinners` | `WeightIsStaked`: weight lies only where a stake does. With the assumption of the property both arrays then have the same non-empty buckets, so both searches return the same |
| `EscrowRefined` | `EscrowKept` | the invariants of the other modules together, then one lemma per action: which market it touches, to which stage, and that pot and shares of the others stay |

`EscrowRefined` is the proof of this group that rests on most: the resolution is `Settle`
only because all shares fit in the pot (`ResolveMakesSolvent`), a bet is `Stake` and a score
`Decide` only because a market that is open or undecided has no verdict and no shares
(`LifeInv`), and a tick is `Lapse` because it moves no stage but to `stuck`.

`PrizesWithinTotal` holds also where the u128 products saturate or the u64 cast
truncates: both only make shares smaller.

### The prizes

`ShareInv` is what the history of bets contributes: a bucket weighs no more than was
staked on it and all stakes together respect `StakeBound`, so that no product saturates;
cell 0 stays empty; the followed position is part of its bucket and weighs at most what
its whole amount would have weighed at its first bet. The last part is
`WaitingNeverGains` itself and inductive only with the time of the first bet in it.

| theorem | states | argument |
|---|---|---|
| `WaitingPaysNothing` | `[]WaitingNeverGains` | a later time is no earlier day and its multiplier no larger; rounding each bet down gives no more than rounding their sum down |
| `ClosenessPays` | `[]CloserPaysNoLess` | both prizes are quotients by the same total weight; cross-multiplied, what is left is that `ClosenessWeight` falls with the distance |
| `TwoClaimsSharePrize` | `[]SharesWithinPrize` | the floors of two fractions of one denominator add up to their sum's, or to one less |
| `PrizesExhaust` | `[]PrizesExhaustPool` | prizes plus one, times the total weight, exceed the dividends bucket by bucket (`SumScale`, `SumSuccessors`); an array with any weight has a nearest bucket, by least distance |

### The indexer

`ProgramRuns` says that the composition takes only steps of the program, so everything
above holds in it. `IndexerTypeCorrect` proves its type invariant. Each other
theorem has its own inductive invariant, since each property speaks of the end of a chain
of reads that began in an earlier state:

| theorem | states | inductive invariant and why it is needed |
|---|---|---|
| `EventsFollow` | `[]EventsCurrent` | the handler of the transaction that last changed an account reads that account (`ChangeNamed`), and what it has read of it so far is the account as it is (`ReadsCurrent`): a later change would make another transaction the last |
| `OnlyCausesLose` | `[]OthersSurvive` | `WorkInv`: failed transactions are never queued (`QueuesSucceeded`), a queued one has left its accounts behind (`LandedHappened`), each is in the backlog or has ended (`EachEnds`), a read finds nothing only where a claim closed the position (`GoneArePaid`), and all other causes cost a fault (`FaultsCost`) |
| `BetsAreCovered` | `[]BetCovered` | `BetReads` with `BucketCovers`: the position is read first and a pool never falls, so the pool that is read later covers it |
| `ResolutionsWhole` | `[]ResolutionWhole` | `ResolveReads`: a resolve_market that is handled succeeded, so its market is resolved and all three reads show what never changes again; that the prizes fit is `PrizesWithinTotal` |

They hold for any number of requests, deliveries, repetitions, malformed batches and faults.

### The client

`ClientRuns` says that the client's steps on the program are the program's. `ClientInv`
states, phase by phase, which part of the client's knowledge the program cannot take
back: of a market that was read, the stages reached (`ReadStands`); of a call that was sent,
the stage it was offered in and that its accounts are those of its arguments
(`SentStands`); of one that took effect, what it settled for good (`DoneStands`); of a
refusal, its reason (`RefusedStands`); of a position that was read, how it relates to the
one there now (`ListStands`).

| theorem | states | argument |
|---|---|---|
| `NeverEarly` | `[]NeverTooEarly` | every check that would be too early is one of a stage already reached (`RefusalReason`); the others cannot name wrong accounts, because a builder derives them from the arguments |
| `RefusalsNamed` | `[]RefusalNamed` | two tables are compared, and every form of an error with the parser that reads it (`ErrorParsed`); codes of Anchor and of the system program lie outside the table, and a refusal without a code is named nothing |
| `RepeatsRefused` | `[]RepeatIsRefused` | `Settled`: what each instruction leaves is what one of its checks forbids |
| `PositionsShown` | `[]OnlyFailedReadsHide` | after closing a position only disappears, so a read that succeeded saw all that is there later; before the resolution it only grows |
| `StagesNeverOverlap` | `[]ClientStagesDisjoint` | the predicates, written out (`OffersNow`), exclude each other pairwise once resolved implies closed |
| `LittleMissed` | `[]ClientMissesOneSecond` | the same, against the guards of the program |
| `OffersAccepted` | `[]ClientOffersExactly`, if vaults need rent and no less than the treasury, and the bettors' money fits | for either kind of vault: resolution by `ResolutionNeedsVault`, claims by `UnsweptPays`, the sweep by `Solvent`. For bets `MoneyInv` is needed: wallets and vaults together never hold more than the wallets did at first (`MoneyNext`), so a bet within the wallet overflows nothing |
| `DaysAgree` | `[]ClientDayAgrees` | rounding the remainder up and the elapsed time down add up to the duration (`DaysAddUp`), which `BettingLasts` fixes |
| `HandlersFetch` | `HandlersFetchChanges` | instruction by instruction: the accounts it changes (`TouchesOnly`) are among those of the call at the places the handler takes |

The last hypothesis of `OffersAccepted`, `WealthFits`, is a limit of the code: a stake of
more than 1.8e16 lamports (18 million SOL) times the multiplier 1000 leaves u64, and
`place_bet` refuses it although every check of the client is passed. `MCClient` assumes the
hypotheses, so TLC confirms that the run `agreement` is within them; `committed` has the same
rents and less money.

### Techniques and limits

The sums are `SumFunctionOnSet` of the community module `Functions`, a fold with a
`CHOOSE`n order. `WeightsProofs` proves once that the order does not matter
(`FoldsAgree`, `FoldTake`); its inductions are by least counterexample.

Every invariant and every safety property of an action that a run checks is the statement
of a theorem. Only model-checked are `AgreedEnds` and `EverythingHandled`: liveness
under fairness is beyond the proof system. The five `doc...` runs end in a violation and
have nothing to prove.

## 5. What is not modelled

* The rent of position accounts, transaction fees, and lamports that strangers send
  to a vault or the treasury: `wallet` is what users have for bets.
* An i64 overflow of `now + betting_starts_after`: the build checks overflows, the
  transaction fails and changes nothing.
* Messages of errors and logs, bumps, discriminators and the encoding of arguments and
  accounts. So the signed encoding of media ids (`app/contract/pdas/index.ts:14`), which
  throws at 2^63, is a hazard without a property.
* The client's conversions of units, a clock of the client that differs from the chain's, more
  than one call of a client in flight, an RPC node that lags behind, the slots of events, the
  indexer's second network and its configuration.
* The backend (not in the repository) and what it makes of events that arrive out of order,
  generated interfaces, tests and deployment
  scripts.

## 6. Plan

1. Two markets in one run, to see them share a treasury and nothing else.
2. A clock of the client that is some ticks off, and what of `NeverTooEarly` survives.
3. `MoneyInv` with fees and sweeps counted in: the money of the system as an equation, the
   treasury included, as a property of a run and a theorem.
4. The steps under `AgreedEnds`: that each keeper action, once possible, stays
   possible until taken, as theorems without fairness.
