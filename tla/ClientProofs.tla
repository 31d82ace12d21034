----------------------------- MODULE ClientProofs -----------------------------
(***************************************************************************)
(* What a client may rely on that acts on what it read some time ago,      *)
(* while everybody else goes on: for any number of markets, users and      *)
(* buckets, and whatever lands in between.                                 *)
(*                                                                         *)
(* The inductive invariant says, phase by phase, what of the client's      *)
(* knowledge the program can no longer take back.                          *)
(***************************************************************************)
EXTENDS ClientProperties, LedgerProofs

\* A call about market m, as its builder makes it.
Calls(ix, m) ==
    /\ ix.accounts[2] = DeriveMarketPDA(m)
    /\ \/ /\ ix.name = "createMarket"
          /\ ix.accounts[4] = DeriveOracleReportPDA(DeriveMarketPDA(m))
          /\ \E d \in StartDelays, r \in Radii, set \in OracleSets, t \in Thresholds :
                 ix.args = << d, m, r, set, t >>
       \/ /\ ix.name = "placeBet"
          /\ \E u \in Users, b \in BucketArgs, amount \in Amounts :
                 /\ amount > 0 /\ ix.args = << b, amount >> /\ ix.accounts[1] = u
                 /\ ix.accounts[3] = DeriveUserPositionPDA(u, DeriveMarketPDA(m), b)
       \/ /\ ix.name = "submitScore"
          /\ ix.accounts[3] = DeriveOracleReportPDA(DeriveMarketPDA(m))
          /\ \E s \in Signers, score \in BucketArgs :
                 ix.args = << score >> /\ ix.accounts[1] = s
       \/ /\ ix.name = "resolveMarket"
          /\ ix.accounts[3] = DeriveOracleReportPDA(DeriveMarketPDA(m))
       \/ /\ ix.name = "claimReward"
          /\ \E u \in Users, b \in Buckets :
                 /\ ix.accounts[1] = u
                 /\ ix.accounts[3] = DeriveUserPositionPDA(u, DeriveMarketPDA(m), b)
       \/ ix.name \in {"closeMarket", "reclaimPool"}

\* The stage the market was in when the call was offered, which it never leaves.
Reached(name, m) ==
    /\ name = "placeBet"    => m \in created /\ now >= terms[m].betting_starts_at
    /\ name = "closeMarket" => m \in created /\ now >= terms[m].betting_closes_at
    /\ name \in {"submitScore", "resolveMarket"} => m \in closed
    /\ name = "claimReward" => m \in resolved
    /\ name = "reclaimPool" => m \in resolved /\ now >= terms[m].claim_deadline

Called(ix) ==
    \/ ix.name = "initializeTreasury"
    \/ \E m \in Markets : Calls(ix, m) /\ Reached(ix.name, m)

\* What a call that took effect leaves for good.
Settled(ix) ==
    LET m == MarketOf(ix) IN
    /\ ix.name = "initializeTreasury" => treasury_open
    /\ ix.name = "createMarket"  => m \in created
    /\ ix.name = "closeMarket"   => m \in closed
    /\ ix.name = "submitScore"   =>
          m \in closed /\ HasAlreadySubmitted(report[m].submissions, SignerOf(ix))
    /\ ix.name = "resolveMarket" => m \in resolved
    /\ ix.name = "claimReward"   =>
          m \in resolved /\ position[m][<< SignerOf(ix), ClaimedBucket(ix) >>].amount = 0
    /\ ix.name = "reclaimPool"   => m \in reclaimed

\* Refusals that are not the program's.
Foreign == { "AccountInUse", "InsufficientFunds", "ConstraintSeeds", "AccountNotInitialized" }
           \cup Codeless

Refusals == Range(ErrorCode) \cup Foreign

\* What was read of a market stands, except that its flags may be set by now.
ReadStands ==
    At({"read"}) =>
        /\ client.of \in Markets
        /\ client.market.exists =>
              /\ client.of \in created /\ client.market.terms = terms[client.of]
              /\ client.market.closed   => client.of \in closed
              /\ client.market.resolved => client.of \in resolved

SentStands == At({"sent"}) => Called(client.ix)

DoneStands == At({"done"}) => Called(client.ix) /\ Settled(client.ix)

RefusedStands ==
    At({"refused"}) =>
        /\ client.refused \in Refusals
        /\ client.name # "resolveMarket" => client.refused \notin TooEarly \cup Malformed

\* A position that was read is at most the one there is, or it was claimed, or its read
\* failed and nothing is shown.
ListStands ==
    At({"listing", "listed"}) =>
        /\ client.of \in Markets /\ client.user \in Users /\ client.bucket \in Buckets
        /\ client.after_close => client.of \in closed
        /\ At({"listed"}) =>
              LET held  == position[client.of][<< client.user, client.bucket >>].amount
                  shown == client.entry
              IN  /\ client.after_close =>
                        held = 0 \/ (shown.exists /\ shown.amount = held) \/ client.failed
                  /\ shown.exists =>
                        /\ shown.amount \in Nat \ {0}
                        /\ shown = [ exists |-> TRUE, amount |-> shown.amount ]
                        /\ client.of \in resolved \/ held >= shown.amount

ClientInv == ReadStands /\ SentStands /\ DoneStands /\ RefusedStands /\ ListStands
----------------------------------------------------------------------------
(* Calls, as their builders make them. *)

\* An instruction takes, place by place, the accounts the caller names and those that
\* follow from the market.
LEMMA BuiltAccounts ==
    ASSUME NEW name, NEW accounts, NEW m, NEW named, NEW args, NEW ix,
           ix = Instruction(name, accounts, m, named, args), ix.exists,
           "market" \notin DOMAIN named
    PROVE  /\ ix.name = name /\ ix.args = args
           /\ \A i \in 1..Len(accounts) :
                 ix.accounts[i] = IF accounts[i][1] \in DOMAIN named
                                  THEN named[accounts[i][1]] ELSE AddressOf(accounts[i][1], m)
<1> DEFINE given == Given(m, named)
<1>1. Resolves(accounts, given)
  BY DEF Instruction, Null
<1>2. /\ ix.name = name /\ ix.args = args
      /\ ix.accounts = [ i \in 1..Len(accounts) |->
              IF accounts[i][1] \in DOMAIN given THEN given[accounts[i][1]]
              ELSE AddressOf(accounts[i][1], m) ]
  BY <1>1 DEF Instruction
<1>3. ASSUME NEW x
      PROVE  (IF x \in DOMAIN given THEN given[x] ELSE AddressOf(x, m))
                = IF x \in DOMAIN named THEN named[x] ELSE AddressOf(x, m)
  <2>1. DOMAIN given = CallerGives \cup DOMAIN named
    BY DEF Given
  <2>2. x \in DOMAIN given =>
            given[x] = IF x \in CallerGives THEN DeriveMarketPDA(m) ELSE named[x]
    BY DEF Given
  <2>3. x \in CallerGives =>
            x = "market" /\ x \notin DOMAIN named /\ AddressOf(x, m) = DeriveMarketPDA(m)
    BY ClientConstants DEF AddressOf
  <2> HIDE DEF given
  <2> QED
    BY <2>1, <2>2, <2>3
<1> QED
  BY <1>2, <1>3

LEMMA MarketFound ==
    ASSUME NEW ix, NEW m \in Markets, ix.accounts[2] = DeriveMarketPDA(m)
    PROVE  MarketOf(ix) = m
<1>1. \A x \in Markets : ix.accounts[2] = DeriveMarketPDA(x) <=> x = m
  BY DEF DeriveMarketPDA
<1> QED
  BY <1>1 DEF MarketOf

LEMMA BucketFound ==
    ASSUME NEW ix, NEW u, NEW m, NEW b \in Buckets, ix.accounts[1] = u,
           ix.accounts[2] = DeriveMarketPDA(m),
           ix.accounts[3] = DeriveUserPositionPDA(u, DeriveMarketPDA(m), b)
    PROVE  SignerOf(ix) = u /\ ClaimedBucket(ix) = b
<1>1. SignerOf(ix) = u
  BY DEF SignerOf
<1>2. \A y \in Buckets :
         ix.accounts[3] = PositionSeeds(SignerOf(ix), ix.accounts[2], y) <=> y = b
  BY <1>1 DEF PositionSeeds, DeriveUserPositionPDA
<1> QED
  BY <1>1, <1>2 DEF ClaimedBucket

\* What the builders make.
LEMMA CloseMarketCalls ==
    ASSUME NEW m, CloseMarketIx(AnyUser, m).exists
    PROVE  CloseMarketIx(AnyUser, m).name = "closeMarket" /\ Calls(CloseMarketIx(AnyUser, m), m)
<1> DEFINE ix == CloseMarketIx(AnyUser, m)
           named == [ caller |-> AnyUser ]
<1>1. /\ ix = Instruction("closeMarket", CloseMarketAccounts, m, named, << >>)
      /\ "market" \notin DOMAIN named
  BY DEF CloseMarketIx
<1>2. /\ ix.name = "closeMarket"
      /\ \A i \in 1..Len(CloseMarketAccounts) :
            ix.accounts[i] = IF CloseMarketAccounts[i][1] \in DOMAIN named
                             THEN named[CloseMarketAccounts[i][1]]
                             ELSE AddressOf(CloseMarketAccounts[i][1], m)
  BY <1>1, BuiltAccounts
<1>3. Len(CloseMarketAccounts) = 2 /\ CloseMarketAccounts[2][1] = "market"
  BY DEF CloseMarketAccounts
<1>4. ix.accounts[2] = DeriveMarketPDA(m)
  BY <1>2, <1>3 DEF AddressOf
<1> HIDE DEF ix
<1> QED
  BY <1>2, <1>4 DEF Calls, ix

LEMMA InitializeTreasuryCalls ==
    ASSUME InitializeTreasuryIx(AnyUser).exists
    PROVE  InitializeTreasuryIx(AnyUser).name = "initializeTreasury"
  BY Zenon DEF InitializeTreasuryIx, Instruction, Null

LEMMA ReclaimPoolCalls ==
    ASSUME NEW m, ReclaimPoolIx(AnyUser, m).exists
    PROVE  ReclaimPoolIx(AnyUser, m).name = "reclaimPool" /\ Calls(ReclaimPoolIx(AnyUser, m), m)
<1> DEFINE ix == ReclaimPoolIx(AnyUser, m)
           named == [ caller |-> AnyUser ]
<1>1. /\ ix = Instruction("reclaimPool", ReclaimPoolAccounts, m, named, << >>)
      /\ "market" \notin DOMAIN named
  BY DEF ReclaimPoolIx
<1>2. /\ ix.name = "reclaimPool"
      /\ \A i \in 1..Len(ReclaimPoolAccounts) :
            ix.accounts[i] = IF ReclaimPoolAccounts[i][1] \in DOMAIN named
                             THEN named[ReclaimPoolAccounts[i][1]]
                             ELSE AddressOf(ReclaimPoolAccounts[i][1], m)
  BY <1>1, BuiltAccounts
<1>3. Len(ReclaimPoolAccounts) = 5 /\ ReclaimPoolAccounts[2][1] = "market"
  BY DEF ReclaimPoolAccounts
<1>4. ix.accounts[2] = DeriveMarketPDA(m)
  BY <1>2, <1>3 DEF AddressOf
<1> HIDE DEF ix
<1> QED
  BY <1>2, <1>4 DEF Calls, ix

LEMMA ResolveMarketCalls ==
    ASSUME NEW m, ResolveMarketIx(AnyUser, m).exists
    PROVE  /\ ResolveMarketIx(AnyUser, m).name = "resolveMarket"
           /\ Calls(ResolveMarketIx(AnyUser, m), m)
<1> DEFINE ix == ResolveMarketIx(AnyUser, m)
           named == [ caller |-> AnyUser ]
<1>1. /\ ix = Instruction("resolveMarket", ResolveMarketAccounts, m, named, << >>)
      /\ "market" \notin DOMAIN named
  BY DEF ResolveMarketIx
<1>2. /\ ix.name = "resolveMarket"
      /\ \A i \in 1..Len(ResolveMarketAccounts) :
            ix.accounts[i] = IF ResolveMarketAccounts[i][1] \in DOMAIN named
                             THEN named[ResolveMarketAccounts[i][1]]
                             ELSE AddressOf(ResolveMarketAccounts[i][1], m)
  BY <1>1, BuiltAccounts
<1>3. /\ Len(ResolveMarketAccounts) = 6 /\ ResolveMarketAccounts[2][1] = "market"
      /\ ResolveMarketAccounts[3][1] = "oracleReport"
  BY DEF ResolveMarketAccounts
<1>4. /\ ix.accounts[2] = DeriveMarketPDA(m)
      /\ ix.accounts[3] = DeriveOracleReportPDA(DeriveMarketPDA(m))
  BY <1>2, <1>3 DEF AddressOf
<1> HIDE DEF ix
<1> QED
  BY <1>2, <1>4 DEF Calls, ix

LEMMA CreateMarketCalls ==
    ASSUME NEW m, NEW d \in StartDelays, NEW r \in Radii, NEW set \in OracleSets,
           NEW t \in Thresholds, CreateMarketIx(AnyUser, m, d, r, set, t).exists
    PROVE  /\ CreateMarketIx(AnyUser, m, d, r, set, t).name = "createMarket"
           /\ Calls(CreateMarketIx(AnyUser, m, d, r, set, t), m)
<1> DEFINE ix == CreateMarketIx(AnyUser, m, d, r, set, t)
           named == [ creator |-> AnyUser ]
<1>1. /\ ix = Instruction("createMarket", CreateMarketAccounts, m, named, << d, m, r, set, t >>)
      /\ "market" \notin DOMAIN named
  BY DEF CreateMarketIx, Null
<1>2. /\ ix.name = "createMarket" /\ ix.args = << d, m, r, set, t >>
      /\ \A i \in 1..Len(CreateMarketAccounts) :
            ix.accounts[i] = IF CreateMarketAccounts[i][1] \in DOMAIN named
                             THEN named[CreateMarketAccounts[i][1]]
                             ELSE AddressOf(CreateMarketAccounts[i][1], m)
  BY <1>1, BuiltAccounts
<1>3. /\ Len(CreateMarketAccounts) = 5 /\ CreateMarketAccounts[2][1] = "market"
      /\ CreateMarketAccounts[4][1] = "oracleReport"
  BY DEF CreateMarketAccounts
<1>4. /\ ix.accounts[2] = DeriveMarketPDA(m)
      /\ ix.accounts[4] = DeriveOracleReportPDA(DeriveMarketPDA(m))
  BY <1>2, <1>3 DEF AddressOf
<1> HIDE DEF ix
<1> QED
  BY <1>2, <1>4 DEF Calls, ix

LEMMA PlaceBetCalls ==
    ASSUME NEW m, NEW u \in Users, NEW b \in BucketArgs, NEW amount \in Amounts,
           PlaceBetIx(u, m, b, amount).exists
    PROVE  PlaceBetIx(u, m, b, amount).name = "placeBet" /\ Calls(PlaceBetIx(u, m, b, amount), m)
<1> DEFINE ix == PlaceBetIx(u, m, b, amount)
           own == DeriveUserPositionPDA(u, DeriveMarketPDA(m), b)
           named == [ user |-> u, userPosition |-> own ]
<1>1. /\ ix = Instruction("placeBet", PlaceBetAccounts, m, named, << b, amount >>)
      /\ amount > 0 /\ "market" \notin DOMAIN named
  BY DEF PlaceBetIx, Null, ValidateAmount
<1>2. /\ ix.name = "placeBet" /\ ix.args = << b, amount >>
      /\ \A i \in 1..Len(PlaceBetAccounts) :
            ix.accounts[i] = IF PlaceBetAccounts[i][1] \in DOMAIN named
                             THEN named[PlaceBetAccounts[i][1]]
                             ELSE AddressOf(PlaceBetAccounts[i][1], m)
  BY <1>1, BuiltAccounts
<1>3. /\ Len(PlaceBetAccounts) = 5 /\ PlaceBetAccounts[1][1] = "user"
      /\ PlaceBetAccounts[2][1] = "market" /\ PlaceBetAccounts[3][1] = "userPosition"
  BY DEF PlaceBetAccounts
<1> HIDE DEF own
<1>4. /\ ix.accounts[1] = u /\ ix.accounts[2] = DeriveMarketPDA(m) /\ ix.accounts[3] = own
  BY <1>2, <1>3 DEF AddressOf
<1> HIDE DEF ix
<1> QED
  BY <1>1, <1>2, <1>4 DEF Calls, ix, own

LEMMA ClaimRewardCalls ==
    ASSUME NEW m, NEW u \in Users, NEW b \in Buckets, ClaimRewardIx(u, m, b).exists
    PROVE  ClaimRewardIx(u, m, b).name = "claimReward" /\ Calls(ClaimRewardIx(u, m, b), m)
<1> DEFINE ix == ClaimRewardIx(u, m, b)
           own == DeriveUserPositionPDA(u, DeriveMarketPDA(m), b)
           named == [ user |-> u, userPosition |-> own ]
<1>1. /\ ix = Instruction("claimReward", ClaimRewardAccounts, m, named, << >>)
      /\ "market" \notin DOMAIN named
  BY DEF ClaimRewardIx
<1>2. /\ ix.name = "claimReward"
      /\ \A i \in 1..Len(ClaimRewardAccounts) :
            ix.accounts[i] = IF ClaimRewardAccounts[i][1] \in DOMAIN named
                             THEN named[ClaimRewardAccounts[i][1]]
                             ELSE AddressOf(ClaimRewardAccounts[i][1], m)
  BY <1>1, BuiltAccounts
<1>3. /\ Len(ClaimRewardAccounts) = 5 /\ ClaimRewardAccounts[1][1] = "user"
      /\ ClaimRewardAccounts[2][1] = "market" /\ ClaimRewardAccounts[3][1] = "userPosition"
  BY DEF ClaimRewardAccounts
<1> HIDE DEF own
<1>4. /\ ix.accounts[1] = u /\ ix.accounts[2] = DeriveMarketPDA(m) /\ ix.accounts[3] = own
  BY <1>2, <1>3 DEF AddressOf
<1> HIDE DEF ix
<1> QED
  BY <1>2, <1>4 DEF Calls, ix, own

LEMMA SubmitScoreCalls ==
    ASSUME NEW m, NEW s \in Signers, NEW score \in BucketArgs, SubmitScoreIx(s, m, score).exists
    PROVE  SubmitScoreIx(s, m, score).name = "submitScore" /\ Calls(SubmitScoreIx(s, m, score), m)
<1> DEFINE ix == SubmitScoreIx(s, m, score)
           named == [ oracleSigner |-> s ]
<1>1. /\ ix = Instruction("submitScore", SubmitScoreAccounts, m, named, << score >>)
      /\ "market" \notin DOMAIN named
  BY DEF SubmitScoreIx, Null
<1>2. /\ ix.name = "submitScore" /\ ix.args = << score >>
      /\ \A i \in 1..Len(SubmitScoreAccounts) :
            ix.accounts[i] = IF SubmitScoreAccounts[i][1] \in DOMAIN named
                             THEN named[SubmitScoreAccounts[i][1]]
                             ELSE AddressOf(SubmitScoreAccounts[i][1], m)
  BY <1>1, BuiltAccounts
<1>3. /\ Len(SubmitScoreAccounts) = 4 /\ SubmitScoreAccounts[1][1] = "oracleSigner"
      /\ SubmitScoreAccounts[2][1] = "market" /\ SubmitScoreAccounts[3][1] = "oracleReport"
  BY DEF SubmitScoreAccounts
<1>4. /\ ix.accounts[1] = s /\ ix.accounts[2] = DeriveMarketPDA(m)
      /\ ix.accounts[3] = DeriveOracleReportPDA(DeriveMarketPDA(m))
  BY <1>2, <1>3 DEF AddressOf
<1> HIDE DEF ix
<1> QED
  BY <1>2, <1>4 DEF Calls, ix
----------------------------------------------------------------------------
(* The stages, which the program never takes back. *)

StagesKeep ==
    /\ now' >= now
    /\ treasury_open => treasury_open'
    /\ created \subseteq created' /\ closed \subseteq closed'
    /\ resolved \subseteq resolved' /\ reclaimed \subseteq reclaimed'
    /\ \A m \in created :
          /\ terms'[m] = terms[m]
          /\ \A s \in Signers : HasAlreadySubmitted(report[m].submissions, s)
                                 => HasAlreadySubmitted(report'[m].submissions, s)

\* Whoever has submitted stays in the report when somebody else does.
LEMMA SubmittedStays ==
    ASSUME NEW q \in Seq(Submission), NEW x \in Submission, NEW s, HasAlreadySubmitted(q, s)
    PROVE  HasAlreadySubmitted(Append(q, x), s)
<1>1. PICK i \in 1..Len(q) : q[i].signer = s
  BY DEF HasAlreadySubmitted
<1>2. Len(Append(q, x)) = Len(q) + 1 /\ Append(q, x)[i] = q[i] /\ Len(q) \in Nat
  OBVIOUS
<1>3. i \in 1..Len(Append(q, x)) /\ Append(q, x)[i].signer = s
  BY <1>1, <1>2
<1> QED
  BY <1>3 DEF HasAlreadySubmitted

LEMMA StagesKept == TypeOK /\ [Next]_vars => StagesKeep
<1> SUFFICES ASSUME TypeOK, [Next]_vars PROVE StagesKeep
  OBVIOUS
<1>0. now \in Nat /\ created \subseteq Markets /\ report \in [Markets -> Report]
  BY DEF TypeOK
<1>1. CASE Tick
  BY <1>0, <1>1 DEF Tick, StagesKeep, flags, marketVars
<1>2. CASE InitializeTreasury \/ UNCHANGED vars
  BY <1>0, <1>2 DEF InitializeTreasury, vars, StagesKeep, flags, marketVars
<1>3. ASSUME NEW m \in Markets, NEW d \in StartDelays, NEW r \in Radii,
             NEW set \in OracleSets, NEW t \in Thresholds, CreateMarket(m, d, r, set, t)
      PROVE  StagesKeep
  BY <1>0, <1>3 DEF CreateMarket, StagesKeep
<1>4. ASSUME NEW m \in Markets, NEW s \in Signers, NEW score \in BucketArgs,
             SubmitScore(m, s, score)
      PROVE  StagesKeep
  <2>1. /\ UNCHANGED << now, treasury_open, created, closed, resolved, reclaimed, terms >>
        /\ score \in Scores
    BY <1>4 DEF SubmitScore, ScoreAllowed, flags, marketVars
  <2>2. \A x \in Markets \ {m} : report'[x] = report[x]
    BY <1>0, <1>4 DEF SubmitScore
  <2>3. report'[m].submissions
            = Append(report[m].submissions, [ signer |-> s, score |-> score ])
    BY <1>0, <1>4 DEF SubmitScore
  <2>4. /\ report[m].submissions \in Seq(Submission)
        /\ [ signer |-> s, score |-> score ] \in Submission
    BY <1>0, <2>1 DEF Report, Submission
  <2>5. \A y : HasAlreadySubmitted(report[m].submissions, y)
                => HasAlreadySubmitted(report'[m].submissions, y)
    BY <2>3, <2>4, SubmittedStays
  <2>6. \A x \in created : \A y \in Signers :
            HasAlreadySubmitted(report[x].submissions, y)
                => HasAlreadySubmitted(report'[x].submissions, y)
    BY <1>0, <2>2, <2>5
  <2> QED
    BY <1>0, <2>1, <2>6 DEF StagesKeep
<1>5. ASSUME NEW m \in Markets,
             \/ \E u \in Users, b \in BucketArgs, amount \in Amounts : PlaceBet(m, u, b, amount)
             \/ CloseMarket(m)
             \/ ResolveMarket(m)
             \/ \E u \in Users, b \in Buckets : ClaimReward(m, u, b)
             \/ ReclaimPool(m)
      PROVE  StagesKeep
  <2>1. /\ UNCHANGED << now, treasury_open, created, terms, report >>
        /\ closed \subseteq closed' /\ resolved \subseteq resolved'
        /\ reclaimed \subseteq reclaimed'
    BY <1>5 DEF PlaceBet, CloseMarket, ResolveMarket, ClaimReward, ReclaimPool,
                flags, marketVars
  <2> QED
    BY <1>0, <2>1 DEF StagesKeep
<1> QED
  BY <1>1, <1>2, <1>3, <1>4, <1>5 DEF Next

LEMMA OnlyCreates ==
    ASSUME TypeOK, [Next]_vars, NEW m \in created', m \notin created
    PROVE  \E d \in StartDelays, r \in Radii, set \in OracleSets, t \in Thresholds :
               CreateMarket(m, d, r, set, t)
<1>1. ASSUME created' = created PROVE FALSE
  BY <1>1
<1>2. ASSUME NEW x \in Markets,
             \/ \E u \in Users, b \in BucketArgs, amount \in Amounts : PlaceBet(x, u, b, amount)
             \/ CloseMarket(x)
             \/ \E s \in Signers, score \in BucketArgs : SubmitScore(x, s, score)
             \/ ResolveMarket(x)
             \/ \E u \in Users, b \in Buckets : ClaimReward(x, u, b)
             \/ ReclaimPool(x)
      PROVE  created' = created
  BY <1>2 DEF PlaceBet, CloseMarket, SubmitScore, ResolveMarket, ClaimReward, ReclaimPool, flags
<1>3. CASE Tick \/ InitializeTreasury \/ UNCHANGED vars
  BY <1>1, <1>3 DEF Tick, InitializeTreasury, vars, flags
<1>4. ASSUME NEW x \in Markets, NEW d \in StartDelays, NEW r \in Radii, NEW set \in OracleSets,
             NEW t \in Thresholds, CreateMarket(x, d, r, set, t)
      PROVE  CreateMarket(m, d, r, set, t)
  BY <1>4 DEF CreateMarket
<1> QED
  BY <1>1, <1>2, <1>3, <1>4 DEF Next

\* A stage that was reached stays reached.
LEMMA ReachedStays ==
    ASSUME TypeOK, TypeOK', StagesKeep, NEW name, NEW m, Reached(name, m)
    PROVE  Reached(name, m)'
<1>1. now \in Nat /\ now' \in Nat /\ closed \subseteq created /\ resolved \subseteq created
  BY DEF TypeOK
<1>2. m \in created => /\ terms[m] \in Terms /\ terms'[m] = terms[m]
                       /\ terms[m].betting_starts_at \in Int
                       /\ terms[m].betting_closes_at \in Int
                       /\ terms[m].claim_deadline \in Int
  BY DEF TypeOK, StagesKeep, Terms
<1> QED
  BY <1>1, <1>2 DEF Reached, StagesKeep

LEMMA CalledStays ==
    ASSUME TypeOK, TypeOK', StagesKeep, NEW ix, Called(ix)
    PROVE  Called(ix)'
<1>1. ASSUME NEW m \in Markets, Calls(ix, m), Reached(ix.name, m)
      PROVE  Calls(ix, m)' /\ Reached(ix.name, m)'
  BY <1>1, ReachedStays DEF Calls
<1> QED
  BY <1>1 DEF Called

----------------------------------------------------------------------------
(* Calls that take effect. *)

\* The parameters of a call, found again from its accounts.
LEMMA CallParameters ==
    ASSUME NEW ix, NEW m \in Markets, Calls(ix, m)
    PROVE  /\ MarketOf(ix) = m
           /\ ix.name = "createMarket" =>
                 \E d \in StartDelays, r \in Radii, set \in OracleSets, t \in Thresholds :
                     ix.args = << d, m, r, set, t >>
           /\ ix.name = "placeBet" =>
                 \E u \in Users, b \in BucketArgs, amount \in Amounts :
                     /\ SignerOf(ix) = u /\ ix.args = << b, amount >> /\ amount > 0
                     /\ ix.accounts[3] = DeriveUserPositionPDA(u, DeriveMarketPDA(m), b)
           /\ ix.name = "submitScore" =>
                 \E s \in Signers, score \in BucketArgs :
                     SignerOf(ix) = s /\ ix.args = << score >>
           /\ ix.name = "claimReward" =>
                 \E u \in Users, b \in Buckets :
                     /\ SignerOf(ix) = u /\ ClaimedBucket(ix) = b
                     /\ ix.accounts[3] = DeriveUserPositionPDA(u, DeriveMarketPDA(m), b)
<1>1. MarketOf(ix) = m
  BY MarketFound DEF Calls
<1>2. ix.name = "createMarket" =>
          \E d \in StartDelays, r \in Radii, set \in OracleSets, t \in Thresholds :
              ix.args = << d, m, r, set, t >>
  BY DEF Calls
<1>3. ix.name = "placeBet" =>
          \E u \in Users, b \in BucketArgs, amount \in Amounts :
              /\ SignerOf(ix) = u /\ ix.args = << b, amount >> /\ amount > 0
              /\ ix.accounts[3] = DeriveUserPositionPDA(u, DeriveMarketPDA(m), b)
  BY DEF Calls, SignerOf
<1>4. ix.name = "submitScore" =>
          \E s \in Signers, score \in BucketArgs : SignerOf(ix) = s /\ ix.args = << score >>
  BY DEF Calls, SignerOf
<1>5. ASSUME ix.name = "claimReward"
      PROVE  \E u \in Users, b \in Buckets :
                 /\ SignerOf(ix) = u /\ ClaimedBucket(ix) = b
                 /\ ix.accounts[3] = DeriveUserPositionPDA(u, DeriveMarketPDA(m), b)
  <2>1. PICK u \in Users, b \in Buckets :
            /\ ix.accounts[1] = u
            /\ ix.accounts[3] = DeriveUserPositionPDA(u, DeriveMarketPDA(m), b)
    BY <1>5 DEF Calls
  <2>2. ix.accounts[2] = DeriveMarketPDA(m)
    BY DEF Calls
  <2> QED
    BY <2>1, <2>2, BucketFound
<1> QED
  BY <1>1, <1>2, <1>3, <1>4, <1>5

\* The step an accepted call takes.
LEMMA ExecuteSteps ==
    ASSUME NEW ix, Execute(ix)
    PROVE  /\ ix.name = "initializeTreasury" => InitializeTreasury
           /\ ix.name = "createMarket" => CreateMarket(MarketOf(ix), ix.args[1], ix.args[3],
                                                       ix.args[4], ix.args[5])
           /\ ix.name = "placeBet" =>
                 PlaceBet(MarketOf(ix), SignerOf(ix), ix.args[1], ix.args[2])
           /\ ix.name = "closeMarket" => CloseMarket(MarketOf(ix))
           /\ ix.name = "submitScore" => SubmitScore(MarketOf(ix), SignerOf(ix), ix.args[1])
           /\ ix.name = "resolveMarket" => ResolveMarket(MarketOf(ix))
           /\ ix.name = "claimReward" =>
                 ClaimReward(MarketOf(ix), SignerOf(ix), ClaimedBucket(ix))
           /\ ix.name = "reclaimPool" => ReclaimPool(MarketOf(ix))
  BY DEF Execute

LEMMA NamedCalls ==
    ASSUME NEW ix, NEW m, Calls(ix, m)
    PROVE  ix.name \in { "createMarket", "placeBet", "closeMarket", "submitScore",
                         "resolveMarket", "claimReward", "reclaimPool" }
  BY DEF Calls

\* It is a step of the program, and leaves what Settled says.
LEMMA ExecuteRuns ==
    ASSUME TypeOK, NEW ix, Called(ix), Execute(ix)
    PROVE  Next /\ Settled(ix)'
<1>1. CASE ix.name = "initializeTreasury"
  <2>1. InitializeTreasury
    BY <1>1, ExecuteSteps
  <2> QED
    BY <1>1, <2>1 DEF Next, Settled, InitializeTreasury
<1>2. ASSUME NEW m \in Markets, Calls(ix, m), ix.name # "initializeTreasury"
      PROVE  Next /\ Settled(ix)'
  <2>0. MarketOf(ix) = m
    BY <1>2, CallParameters
  <2>1. CASE ix.name = "createMarket"
    <3>1. PICK d \in StartDelays, r \in Radii, set \in OracleSets, t \in Thresholds :
              ix.args = << d, m, r, set, t >>
      BY <1>2, <2>1, CallParameters
    <3>2. CreateMarket(MarketOf(ix), ix.args[1], ix.args[3], ix.args[4], ix.args[5])
      BY <2>1, ExecuteSteps
    <3>3. CreateMarket(m, d, r, set, t)
      BY <2>0, <3>1, <3>2
    <3>4. m \in created'
      BY <3>3 DEF CreateMarket
    <3> QED
      BY <2>0, <2>1, <3>3, <3>4 DEF Next, Settled
  <2>2. CASE ix.name = "placeBet"
    <3>1. PICK u \in Users, b \in BucketArgs, amount \in Amounts :
              SignerOf(ix) = u /\ ix.args = << b, amount >>
      BY <1>2, <2>2, CallParameters
    <3>2. PlaceBet(MarketOf(ix), SignerOf(ix), ix.args[1], ix.args[2])
      BY <2>2, ExecuteSteps
    <3>3. PlaceBet(m, u, b, amount)
      BY <2>0, <3>1, <3>2
    <3> QED
      BY <2>2, <3>3 DEF Next, Settled
  <2>3. CASE ix.name = "closeMarket"
    <3>1. CloseMarket(m)
      BY <2>0, <2>3, ExecuteSteps
    <3>2. m \in closed'
      BY <3>1 DEF CloseMarket
    <3> QED
      BY <2>0, <2>3, <3>1, <3>2 DEF Next, Settled
  <2>4. CASE ix.name = "submitScore"
    <3>1. PICK s \in Signers, score \in BucketArgs : SignerOf(ix) = s /\ ix.args = << score >>
      BY <1>2, <2>4, CallParameters
    <3>2. SubmitScore(MarketOf(ix), SignerOf(ix), ix.args[1])
      BY <2>4, ExecuteSteps
    <3>3. SubmitScore(m, s, score)
      BY <2>0, <3>1, <3>2
    <3> DEFINE q == report[m].submissions
               x == [ signer |-> s, score |-> score ]
    <3>4. m \in closed' /\ report'[m].submissions = Append(q, x)
      BY <3>3 DEF SubmitScore, ScoreAllowed, flags, TypeOK
    <3>5. q \in Seq(Submission)
      BY DEF TypeOK, Report
    <3> HIDE DEF q
    <3>6. /\ Len(Append(q, x)) \in Nat \ {0}
          /\ Append(q, x)[Len(Append(q, x))].signer = s
      BY <3>5
    <3>7. HasAlreadySubmitted(Append(q, x), s)
      BY <3>6 DEF HasAlreadySubmitted
    <3> HIDE DEF x
    <3>8. HasAlreadySubmitted(report'[m].submissions, s)
      BY <3>4, <3>7
    <3>9. Settled(ix)'
      BY <2>0, <2>4, <3>1, <3>4, <3>8 DEF Settled
    <3> QED
      BY <3>3, <3>9 DEF Next
  <2>5. CASE ix.name = "resolveMarket"
    <3>1. ResolveMarket(m)
      BY <2>0, <2>5, ExecuteSteps
    <3>2. m \in resolved'
      BY <3>1 DEF ResolveMarket
    <3> QED
      BY <2>0, <2>5, <3>1, <3>2 DEF Next, Settled
  <2>6. CASE ix.name = "claimReward"
    <3>1. PICK u \in Users, b \in Buckets : SignerOf(ix) = u /\ ClaimedBucket(ix) = b
      BY <1>2, <2>6, CallParameters
    <3>2. ClaimReward(m, u, b)
      BY <2>0, <2>6, <3>1, ExecuteSteps
    <3>3. m \in resolved' /\ position'[m][<<u, b>>] = NoPosition
      BY <3>1, <3>2 DEF ClaimReward, ClaimAllowed, flags, TypeOK, Positions
    <3> QED
      BY <2>0, <2>6, <3>1, <3>2, <3>3 DEF Next, Settled, NoPosition
  <2>7. CASE ix.name = "reclaimPool"
    <3>1. ReclaimPool(m)
      BY <2>0, <2>7, ExecuteSteps
    <3>2. m \in reclaimed'
      BY <3>1 DEF ReclaimPool
    <3> QED
      BY <2>0, <2>7, <3>1, <3>2 DEF Next, Settled
  <2> QED
    BY <1>2, <2>1, <2>2, <2>3, <2>4, <2>5, <2>6, <2>7, NamedCalls
<1> QED
  BY <1>1, <1>2 DEF Called

\* Nothing undoes it.
LEMMA SettledStays ==
    ASSUME TypeOK, TypeOK', StagesKeep, ProgramKeeps, NEW ix, Called(ix), Settled(ix)
    PROVE  Settled(ix)'
<1>1. CASE ix.name = "initializeTreasury"
  BY <1>1 DEF Settled, StagesKeep
<1>2. ASSUME NEW m \in Markets, Calls(ix, m), ix.name # "initializeTreasury"
      PROVE  Settled(ix)'
  <2>0. MarketOf(ix) = m /\ closed \subseteq created
    BY <1>2, CallParameters DEF TypeOK
  <2>1. CASE ix.name = "submitScore"
    <3>1. PICK s \in Signers : SignerOf(ix) = s
      BY <1>2, <2>1, CallParameters
    <3>2. m \in closed /\ HasAlreadySubmitted(report[m].submissions, s)
      BY <2>0, <2>1, <3>1 DEF Settled
    <3>3. m \in closed' /\ HasAlreadySubmitted(report'[m].submissions, s)
      BY <2>0, <3>2 DEF StagesKeep
    <3> QED
      BY <2>0, <2>1, <3>1, <3>3 DEF Settled
  <2>2. CASE ix.name = "claimReward"
    <3>1. PICK u \in Users, b \in Buckets : SignerOf(ix) = u /\ ClaimedBucket(ix) = b
      BY <1>2, <2>2, CallParameters
    <3>2. m \in resolved /\ position[m][<<u, b>>].amount = 0 /\ <<u, b>> \in Positions
      BY <2>0, <2>2, <3>1 DEF Settled, Positions
    <3>3. m \in resolved' /\ position'[m][<<u, b>>].amount = 0
      BY <3>2 DEF ProgramKeeps
    <3> QED
      BY <2>0, <2>2, <3>1, <3>3 DEF Settled
  <2>3. CASE ix.name \notin { "submitScore", "claimReward" }
    BY <1>2, <2>0, <2>3 DEF Settled, StagesKeep
  <2> QED
    BY <2>1, <2>2, <2>3
<1> QED
  BY <1>1, <1>2 DEF Called

----------------------------------------------------------------------------
(* Refusals. *)

\* A call is refused for a check that fails, and whenever one does.
LEMMA RefusedForCheck ==
    ASSUME NEW ix, NEW n \in Nat, DOMAIN Checks(ix) = 1..n
    PROVE  /\ (\A i \in 1..n : Checks(ix)[i][1]) => Refusal(ix) = Accepted
           /\ (\E i \in 1..n : ~Checks(ix)[i][1]) =>
                 \E i \in 1..n : ~Checks(ix)[i][1] /\ Refusal(ix) = Checks(ix)[i][2]
<1> DEFINE c == Checks(ix)
           failing == { i \in DOMAIN c : ~c[i][1] }
<1>1. Refusal(ix) = IF failing = {} THEN Accepted
                    ELSE c[CHOOSE i \in failing : \A j \in failing : i <= j][2]
  BY DEF Refusal
<1>2. failing \subseteq Nat /\ failing \subseteq 1..n
  OBVIOUS
<1>3. \A i \in 1..n : i \in failing <=> ~c[i][1]
  OBVIOUS
<1> HIDE DEF failing
<1>4. ASSUME failing # {}
      PROVE  \E i \in failing : \A j \in failing : i <= j
  BY <1>2, <1>4, LeastNatural
<1> QED
  BY <1>1, <1>2, <1>3, <1>4

\* The checks of each call.
LEMMA ChecksOf ==
    ASSUME NEW ix
    PROVE  /\ ix.name = "initializeTreasury" => Checks(ix) = InitializeTreasuryChecks(ix)
           /\ ix.name = "createMarket"  => Checks(ix) = CreateMarketChecks(ix)
           /\ ix.name = "placeBet"      => Checks(ix) = PlaceBetChecks(ix)
           /\ ix.name = "closeMarket"   => Checks(ix) = CloseMarketChecks(ix)
           /\ ix.name = "submitScore"   => Checks(ix) = SubmitScoreChecks(ix)
           /\ ix.name = "resolveMarket" => Checks(ix) = ResolveMarketChecks(ix)
           /\ ix.name = "claimReward"   => Checks(ix) = ClaimRewardChecks(ix)
           /\ ix.name = "reclaimPool"   => Checks(ix) = ReclaimPoolChecks(ix)
  BY DEF Checks

\* What may refuse a call that was not sent too early.
MayRefuse(name) ==
    CASE name = "initializeTreasury" -> { "AccountInUse" }
      [] name = "createMarket"  -> { "AccountInUse", "InvalidOracleThreshold" }
      [] name = "placeBet"      -> { "MarketAlreadyResolved", "MarketAlreadyClosed",
                                     "BettingClosed", "InvalidBucket", "MathOverflow",
                                     "InsufficientFunds" }
      [] name = "closeMarket"   -> { "MarketAlreadyClosed", "MarketAlreadyResolved" }
      [] name = "submitScore"   -> { "MarketAlreadyResolved", "UnauthorizedOracle",
                                     "OracleAlreadyFinalized", "OracleDisputed",
                                     "OracleWindowClosed", "InvalidBucket",
                                     "OracleAlreadySubmitted" }
      [] name = "resolveMarket" -> { "MarketNotClosed", "MarketAlreadyResolved",
                                     "SettlementNotReady", "OracleNotFinalized",
                                     "OracleDisputed", "InvalidArgument",
                                     "InsufficientFunds", "InsufficientFundsForRent" }
      [] name = "claimReward"   -> { "AccountNotInitialized", "ClaimDeadlinePassed",
                                     "NotAWinner", "InsufficientClaimAmount",
                                     "InvalidArgument", "InsufficientFunds",
                                     "InsufficientFundsForRent" }
      [] name = "reclaimPool"   -> { "MarketAlreadyClaimed", "InvalidArgument",
                                     "InsufficientFundsForRent" }

LEMMA MayRefuseOf ==
    /\ MayRefuse("initializeTreasury") = { "AccountInUse" }
    /\ MayRefuse("createMarket") = { "AccountInUse", "InvalidOracleThreshold" }
    /\ MayRefuse("placeBet") = { "MarketAlreadyResolved", "MarketAlreadyClosed",
                                 "BettingClosed", "InvalidBucket", "MathOverflow",
                                 "InsufficientFunds" }
    /\ MayRefuse("closeMarket") = { "MarketAlreadyClosed", "MarketAlreadyResolved" }
    /\ MayRefuse("submitScore") = { "MarketAlreadyResolved", "UnauthorizedOracle",
                                    "OracleAlreadyFinalized", "OracleDisputed",
                                    "OracleWindowClosed", "InvalidBucket",
                                    "OracleAlreadySubmitted" }
    /\ MayRefuse("resolveMarket") = { "MarketNotClosed", "MarketAlreadyResolved",
                                      "SettlementNotReady", "OracleNotFinalized",
                                      "OracleDisputed", "InvalidArgument",
                                      "InsufficientFunds", "InsufficientFundsForRent" }
    /\ MayRefuse("claimReward") = { "AccountNotInitialized", "ClaimDeadlinePassed",
                                    "NotAWinner", "InsufficientClaimAmount",
                                    "InvalidArgument", "InsufficientFunds",
                                    "InsufficientFundsForRent" }
    /\ MayRefuse("reclaimPool") = { "MarketAlreadyClaimed", "InvalidArgument",
                                    "InsufficientFundsForRent" }
  BY DEF MayRefuse

\* The checks that fail are among those.
LEMMA FailingChecks ==
    ASSUME TypeOK, NEW ix, NEW m \in Markets, Calls(ix, m), Reached(ix.name, m)
    PROVE  \E n \in Nat \ {0} :
              /\ DOMAIN Checks(ix) = 1..n
              /\ \A i \in 1..n : ~Checks(ix)[i][1] => Checks(ix)[i][2] \in MayRefuse(ix.name)
<1>0. MarketOf(ix) = m
  BY CallParameters
<1>1. CASE ix.name = "closeMarket"
  <2> DEFINE c == CloseMarketChecks(ix)
  <2>1. now >= terms[m].betting_closes_at
    BY <1>1 DEF Reached
  <2>2. DOMAIN c = 1..3
    BY DEF CloseMarketChecks
  <2>3. c[1][2] = "MarketAlreadyClosed" /\ c[3][2] = "MarketAlreadyResolved"
    BY DEF CloseMarketChecks
  <2>4. c[2][1]
    BY <1>0, <2>1 DEF CloseMarketChecks
  <2>5. Checks(ix) = c /\ ix.name = "closeMarket"
    BY <1>1, ChecksOf
  <2> HIDE DEF c
  <2>6. \A i \in 1..3 : ~c[i][1] => c[i][2] \in MayRefuse(ix.name)
    BY <2>3, <2>4, <2>5, MayRefuseOf
  <2>7. 3 \in Nat \ {0}
    OBVIOUS
  <2> QED
    BY <2>2, <2>5, <2>6, <2>7, Zenon
<1>2. CASE ix.name = "reclaimPool"
  <2> DEFINE c == ReclaimPoolChecks(ix)
  <2>1. m \in resolved /\ now >= terms[m].claim_deadline
    BY <1>2 DEF Reached
  <2>2. DOMAIN c = 1..5
    BY DEF ReclaimPoolChecks
  <2>3. /\ c[2][2] = "MarketAlreadyClaimed" /\ c[4][2] = "InvalidArgument"
        /\ c[5][2] = "InsufficientFundsForRent"
    BY DEF ReclaimPoolChecks
  <2>4. c[1][1] /\ c[3][1]
    BY <1>0, <2>1 DEF ReclaimPoolChecks
  <2>5. Checks(ix) = c /\ ix.name = "reclaimPool"
    BY <1>2, ChecksOf
  <2> HIDE DEF c
  <2>6. \A i \in 1..5 : ~c[i][1] => c[i][2] \in MayRefuse(ix.name)
    BY <2>3, <2>4, <2>5, MayRefuseOf
  <2>7. 5 \in Nat \ {0}
    OBVIOUS
  <2> QED
    BY <2>2, <2>5, <2>6, <2>7, Zenon
<1>3. CASE ix.name = "createMarket"
  <2> DEFINE c == CreateMarketChecks(ix)
  <2>2. DOMAIN c = 1..2
    BY DEF CreateMarketChecks
  <2>3. /\ c[1][2] = "AccountInUse" /\ c[2][2] = "InvalidOracleThreshold"
    BY DEF CreateMarketChecks
  <2>5. Checks(ix) = c /\ ix.name = "createMarket"
    BY <1>3, ChecksOf
  <2> HIDE DEF c
  <2>6. \A i \in 1..2 : ~c[i][1] => c[i][2] \in MayRefuse(ix.name)
    BY <2>3, <2>5, MayRefuseOf
  <2>7. 2 \in Nat \ {0}
    OBVIOUS
  <2> QED
    BY <2>2, <2>5, <2>6, <2>7, Zenon
<1>4. CASE ix.name = "resolveMarket"
  <2> DEFINE c == ResolveMarketChecks(ix)
  <2>2. DOMAIN c = 1..8
    BY DEF ResolveMarketChecks
  <2>3. /\ c[1][2] = "MarketNotClosed" /\ c[2][2] = "MarketAlreadyResolved"
        /\ c[3][2] = "SettlementNotReady" /\ c[4][2] = "OracleNotFinalized"
        /\ c[5][2] = "OracleDisputed" /\ c[6][2] = "InvalidArgument"
        /\ c[7][2] = "InsufficientFunds" /\ c[8][2] = "InsufficientFundsForRent"
    BY DEF ResolveMarketChecks
  <2>5. Checks(ix) = c /\ ix.name = "resolveMarket"
    BY <1>4, ChecksOf
  <2> HIDE DEF c
  <2>6. \A i \in 1..8 : ~c[i][1] => c[i][2] \in MayRefuse(ix.name)
    BY <2>3, <2>5, MayRefuseOf
  <2>7. 8 \in Nat \ {0}
    OBVIOUS
  <2> QED
    BY <2>2, <2>5, <2>6, <2>7, Zenon
<1>5. CASE ix.name = "submitScore"
  <2> DEFINE c == SubmitScoreChecks(ix)
  <2>1. m \in closed
    BY <1>5 DEF Reached
  <2>2. DOMAIN c = 1..8
    BY DEF SubmitScoreChecks
  <2>3. /\ c[2][2] = "MarketAlreadyResolved" /\ c[3][2] = "UnauthorizedOracle"
        /\ c[4][2] = "OracleAlreadyFinalized" /\ c[5][2] = "OracleDisputed"
        /\ c[6][2] = "OracleWindowClosed" /\ c[7][2] = "InvalidBucket"
        /\ c[8][2] = "OracleAlreadySubmitted"
    BY DEF SubmitScoreChecks
  <2>4. c[1][1]
    BY <1>0, <2>1 DEF SubmitScoreChecks
  <2>5. Checks(ix) = c /\ ix.name = "submitScore"
    BY <1>5, ChecksOf
  <2> HIDE DEF c
  <2>6. \A i \in 1..8 : ~c[i][1] => c[i][2] \in MayRefuse(ix.name)
    BY <2>3, <2>4, <2>5, MayRefuseOf
  <2>7. 8 \in Nat \ {0}
    OBVIOUS
  <2> QED
    BY <2>2, <2>5, <2>6, <2>7, Zenon
<1>6. CASE ix.name = "claimReward"
  <2> DEFINE c == ClaimRewardChecks(ix)
  <2>1. m \in resolved
    BY <1>6 DEF Reached
  <2>2. DOMAIN c = 1..10
    BY DEF ClaimRewardChecks
  <2>3. /\ c[1][2] = "AccountNotInitialized" /\ c[3][2] = "ClaimDeadlinePassed"
        /\ c[4][2] = "NotAWinner" /\ c[5][2] = "InsufficientClaimAmount"
        /\ c[6][2] = "NotAWinner" /\ c[7][2] = "InsufficientClaimAmount"
        /\ c[8][2] = "InvalidArgument" /\ c[9][2] = "InsufficientFunds"
        /\ c[10][2] = "InsufficientFundsForRent"
    BY DEF ClaimRewardChecks
  <2>4. c[2][1]
    BY <1>0, <2>1 DEF ClaimRewardChecks
  <2>5. Checks(ix) = c /\ ix.name = "claimReward"
    BY <1>6, ChecksOf
  <2> HIDE DEF c
  <2>6. \A i \in 1..10 : ~c[i][1] => c[i][2] \in MayRefuse(ix.name)
    BY <2>3, <2>4, <2>5, MayRefuseOf
  <2>7. 10 \in Nat \ {0}
    OBVIOUS
  <2> QED
    BY <2>2, <2>5, <2>6, <2>7, Zenon
<1>7. CASE ix.name = "placeBet"
  <2> DEFINE c == PlaceBetChecks(ix)
  <2>1. now >= terms[m].betting_starts_at
    BY <1>7 DEF Reached
  <2>2. PICK u \in Users, b \in BucketArgs, amount \in Amounts :
            /\ SignerOf(ix) = u /\ ix.args = << b, amount >> /\ amount > 0
            /\ ix.accounts[3] = DeriveUserPositionPDA(u, DeriveMarketPDA(m), b)
    BY <1>7, CallParameters
  <2>3. /\ ix.accounts[3] = PositionSeeds(SignerOf(ix), ix.accounts[2], ix.args[1])
        /\ ix.args[2] > 0
    BY <2>2 DEF Calls, PositionSeeds, DeriveUserPositionPDA
  <2>4. DOMAIN c = 1..10
    BY DEF PlaceBetChecks
  <2>5. /\ c[2][2] = "MarketAlreadyResolved" /\ c[3][2] = "MarketAlreadyClosed"
        /\ c[5][2] = "BettingClosed" /\ c[7][2] = "InvalidBucket"
        /\ c[8][2] = "MathOverflow" /\ c[9][2] = "InsufficientFunds"
        /\ c[10][2] = "MathOverflow"
    BY DEF PlaceBetChecks
  <2>6. c[1][1] /\ c[4][1] /\ c[6][1]
    BY <1>0, <2>1, <2>3 DEF PlaceBetChecks
  <2>7. Checks(ix) = c /\ ix.name = "placeBet"
    BY <1>7, ChecksOf
  <2> HIDE DEF c
  <2>8. \A i \in 1..10 : ~c[i][1] => c[i][2] \in MayRefuse(ix.name)
    BY <2>5, <2>6, <2>7, MayRefuseOf
  <2>9. 10 \in Nat \ {0}
    OBVIOUS
  <2> QED
    BY <2>4, <2>7, <2>8, <2>9, Zenon
<1> QED
  BY <1>1, <1>2, <1>3, <1>4, <1>5, <1>6, <1>7, NamedCalls

LEMMA FailingCall ==
    ASSUME TypeOK, NEW ix, Called(ix)
    PROVE  \E n \in Nat \ {0} :
              /\ DOMAIN Checks(ix) = 1..n
              /\ \A i \in 1..n : ~Checks(ix)[i][1] => Checks(ix)[i][2] \in MayRefuse(ix.name)
<1>1. CASE ix.name = "initializeTreasury"
  <2> DEFINE c == InitializeTreasuryChecks(ix)
  <2>1. DOMAIN c = 1..1 /\ c[1][2] = "AccountInUse"
    BY DEF InitializeTreasuryChecks
  <2>2. Checks(ix) = c /\ ix.name = "initializeTreasury"
    BY <1>1, ChecksOf
  <2> HIDE DEF c
  <2>3. \A i \in 1..1 : ~c[i][1] => c[i][2] \in MayRefuse(ix.name)
    BY <2>1, <2>2, MayRefuseOf
  <2>4. 1 \in Nat \ {0}
    OBVIOUS
  <2> QED
    BY <2>1, <2>2, <2>3, <2>4, Zenon
<1> QED
  BY <1>1, FailingChecks DEF Called

LEMMA CalledNames ==
    ASSUME NEW ix, Called(ix)
    PROVE  ix.name \in { "initializeTreasury", "createMarket", "placeBet", "closeMarket",
                         "submitScore", "resolveMarket", "claimReward", "reclaimPool" }
  BY NamedCalls DEF Called

\* None of those comes of a call that is too early or malformed, but for resolve_market.
LEMMA RefusalsLate ==
    ASSUME NEW ix, Called(ix)
    PROVE  /\ MayRefuse(ix.name) \subseteq Refusals
           /\ Accepted \notin MayRefuse(ix.name)
           /\ ix.name # "resolveMarket" =>
                 MayRefuse(ix.name) \cap (TooEarly \cup Malformed) = {}
<1> DEFINE n == ix.name
           own == { "AccountInUse", "InvalidOracleThreshold", "MarketAlreadyResolved",
                    "MarketAlreadyClosed", "BettingClosed", "InvalidBucket", "MathOverflow",
                    "InsufficientFunds", "UnauthorizedOracle", "OracleAlreadyFinalized",
                    "OracleDisputed", "OracleWindowClosed", "OracleAlreadySubmitted",
                    "AccountNotInitialized", "ClaimDeadlinePassed", "NotAWinner",
                    "InsufficientClaimAmount", "MarketAlreadyClaimed", "InvalidArgument",
                    "InsufficientFundsForRent" }
           early == { "MarketNotClosed", "SettlementNotReady", "OracleNotFinalized" }
<1>0. n \in { "initializeTreasury", "createMarket", "placeBet", "closeMarket",
              "submitScore", "resolveMarket", "claimReward", "reclaimPool" }
  BY CalledNames
<1> HIDE DEF n
<1>1. own \cup early \subseteq Refusals
  <2>1. \A i \in DOMAIN ErrorCode : ErrorCode[i] \in Refusals
    BY DEF Refusals, Range
  <2>2. DOMAIN ErrorCode = 1..27
    BY DEF ErrorCode
  <2>3. /\ ErrorCode[1] = "MarketAlreadyClosed"     /\ ErrorCode[2] = "MarketNotClosed"
        /\ ErrorCode[3] = "MarketAlreadyResolved"   /\ ErrorCode[5] = "MarketAlreadyClaimed"
        /\ ErrorCode[7] = "BettingClosed"           /\ ErrorCode[9] = "SettlementNotReady"
        /\ ErrorCode[11] = "ClaimDeadlinePassed"    /\ ErrorCode[13] = "OracleWindowClosed"
        /\ ErrorCode[14] = "UnauthorizedOracle"     /\ ErrorCode[15] = "InvalidOracleThreshold"
        /\ ErrorCode[16] = "OracleAlreadyFinalized" /\ ErrorCode[17] = "OracleNotFinalized"
        /\ ErrorCode[18] = "OracleAlreadySubmitted" /\ ErrorCode[19] = "OracleDisputed"
        /\ ErrorCode[20] = "InvalidBucket"          /\ ErrorCode[23] = "InsufficientClaimAmount"
        /\ ErrorCode[24] = "NotAWinner"             /\ ErrorCode[26] = "MathOverflow"
    BY DEF ErrorCode
  <2>4. { "AccountInUse", "InsufficientFunds", "AccountNotInitialized", "InvalidArgument",
          "InsufficientFundsForRent" } \subseteq Refusals
    BY DEF Refusals, Foreign, Codeless
  <2> QED
    BY <2>1, <2>2, <2>3, <2>4
<1>2. n # "resolveMarket" => MayRefuse(n) \subseteq own
  BY <1>0, MayRefuseOf
<1>3. n = "resolveMarket" => MayRefuse(n) \subseteq own \cup early
  BY MayRefuseOf
<1>4. Accepted \notin own \cup early
  BY DEF Accepted
<1>5. own \cap (TooEarly \cup Malformed) = {}
  BY DEF TooEarly, Malformed
<1> HIDE DEF own, early
<1> QED
  BY <1>1, <1>2, <1>3, <1>4, <1>5 DEF n

LEMMA RefusalReason ==
    ASSUME TypeOK, NEW ix, Called(ix), Refusal(ix) # Accepted
    PROVE  /\ Refusal(ix) \in Refusals
           /\ ix.name # "resolveMarket" => Refusal(ix) \notin TooEarly \cup Malformed
<1>1. PICK n \in Nat \ {0} :
          /\ DOMAIN Checks(ix) = 1..n
          /\ \A i \in 1..n : ~Checks(ix)[i][1] => Checks(ix)[i][2] \in MayRefuse(ix.name)
  BY FailingCall
<1>2. PICK i \in 1..n : ~Checks(ix)[i][1] /\ Refusal(ix) = Checks(ix)[i][2]
  BY <1>1, RefusedForCheck
<1>3. Refusal(ix) \in MayRefuse(ix.name)
  BY <1>1, <1>2
<1> QED
  BY <1>3, RefusalsLate

\* What took effect is refused from then on.
LEMMA SettledIsRefused ==
    ASSUME TypeOK, NEW ix, Called(ix), Settled(ix), ix.name # "placeBet"
    PROVE  Refusal(ix) # Accepted
<1>1. PICK n \in Nat \ {0} :
          /\ DOMAIN Checks(ix) = 1..n
          /\ \A i \in 1..n : ~Checks(ix)[i][1] => Checks(ix)[i][2] \in MayRefuse(ix.name)
  BY FailingCall
<1>2. \E i \in 1..n : ~Checks(ix)[i][1]
  <2>1. CASE ix.name = "initializeTreasury"
    <3>1. ~InitializeTreasuryChecks(ix)[1][1]
      BY <2>1 DEF Settled, InitializeTreasuryChecks
    <3> QED
      BY <1>1, <2>1, <3>1, ChecksOf
  <2>2. CASE ix.name = "createMarket"
    <3>1. ~CreateMarketChecks(ix)[1][1]
      BY <2>2 DEF Settled, CreateMarketChecks
    <3> QED
      BY <1>1, <2>2, <3>1, ChecksOf
  <2>3. CASE ix.name = "closeMarket"
    <3>1. ~CloseMarketChecks(ix)[1][1]
      BY <2>3 DEF Settled, CloseMarketChecks
    <3> QED
      BY <1>1, <2>3, <3>1, ChecksOf
  <2>4. CASE ix.name = "submitScore"
    <3>1. ~SubmitScoreChecks(ix)[8][1]
      BY <2>4 DEF Settled, SubmitScoreChecks
    <3>2. DOMAIN SubmitScoreChecks(ix) = 1..8
      BY DEF SubmitScoreChecks
    <3>3. 8 \in 1..8
      OBVIOUS
    <3> QED
      BY <1>1, <2>4, <3>1, <3>2, <3>3, ChecksOf, Zenon
  <2>5. CASE ix.name = "resolveMarket"
    <3>1. ~ResolveMarketChecks(ix)[2][1]
      BY <2>5 DEF Settled, ResolveMarketChecks
    <3>2. DOMAIN ResolveMarketChecks(ix) = 1..8
      BY DEF ResolveMarketChecks
    <3>3. 2 \in 1..8
      OBVIOUS
    <3> QED
      BY <1>1, <2>5, <3>1, <3>2, <3>3, ChecksOf, Zenon
  <2>6. CASE ix.name = "claimReward"
    <3> DEFINE held == position[MarketOf(ix)][<< SignerOf(ix), ClaimedBucket(ix) >>].amount
    <3>1. held = 0
      BY <2>6 DEF Settled
    <3>2. ClaimRewardChecks(ix)[1] = << held > 0, "AccountNotInitialized" >>
      BY DEF ClaimRewardChecks
    <3>3. ~(held > 0)
      BY <3>1
    <3> DEFINE positive == held > 0
    <3> HIDE DEF held, positive
    <3>4. ClaimRewardChecks(ix)[1] = << positive, "AccountNotInitialized" >> /\ ~positive
      BY <3>2, <3>3 DEF positive
    <3>5. ~ClaimRewardChecks(ix)[1][1]
      BY <3>4
    <3> QED
      BY <1>1, <2>6, <3>5, ChecksOf
  <2>7. CASE ix.name = "reclaimPool"
    <3>1. ~ReclaimPoolChecks(ix)[2][1]
      BY <2>7 DEF Settled, ReclaimPoolChecks
    <3>2. DOMAIN ReclaimPoolChecks(ix) = 1..5
      BY DEF ReclaimPoolChecks
    <3>3. 2 \in 1..5
      OBVIOUS
    <3> QED
      BY <1>1, <2>7, <3>1, <3>2, <3>3, ChecksOf, Zenon
  <2> QED
    BY <2>1, <2>2, <2>3, <2>4, <2>5, <2>6, <2>7, CalledNames
<1>3. PICK i \in 1..n : ~Checks(ix)[i][1] /\ Refusal(ix) = Checks(ix)[i][2]
  BY <1>1, <1>2, RefusedForCheck
<1> QED
  BY <1>1, <1>3, RefusalsLate
----------------------------------------------------------------------------
(* Error codes. *)

\* The two tables say the same, and none of the foreign errors is in them.
LEMMA TablesAgree ==
    /\ DOMAIN ErrorCode = 1..27
    /\ CinefiErrorCode = ErrorCode
    /\ Foreign \cap Range(ErrorCode) = {}
<1>1. DOMAIN ErrorCode = 1..27
  BY DEF ErrorCode
<1>2. CinefiErrorCode = ErrorCode
  BY Zenon DEF CinefiErrorCode, ErrorCode
<1>3. \A i \in 1..27 : ErrorCode[i] \notin Foreign
  BY DEF ErrorCode, Foreign, Codeless
<1> QED
  BY <1>1, <1>2, <1>3 DEF Range

\* The client reads the code of a refusal as its name.
LEMMA CodeNamed ==
    ASSUME NEW r \in Refusals \ Codeless
    PROVE  FromCode(CodeOf(r)) = IF r \in Range(ErrorCode) THEN r ELSE NoError
<1>1. CASE r \in Range(ErrorCode)
  <2> DEFINE i == CHOOSE i \in DOMAIN ErrorCode : ErrorCode[i] = r
  <2>1. \E x \in DOMAIN ErrorCode : ErrorCode[x] = r
    BY <1>1 DEF Range
  <2>2. i \in DOMAIN ErrorCode /\ ErrorCode[i] = r
    BY <2>1
  <2>3. r \notin Foreign
    BY <1>1, TablesAgree
  <2>4. CodeOf(r) = 5999 + i
    BY <1>1, <2>3 DEF CodeOf, Foreign
  <2> HIDE DEF i
  <2>5. i \in 1..27
    BY <2>2, TablesAgree
  <2>6. CodeOf(r) \in 6000..6026 /\ CodeOf(r) - 5999 = i
    BY <2>4, <2>5
  <2>7. FromCode(CodeOf(r)) = CinefiErrorCode[i]
    BY <2>6 DEF FromCode
  <2> QED
    BY <1>1, <2>2, <2>7, TablesAgree
<1>2. CASE r \notin Range(ErrorCode)
  <2>1. r \in { "AccountInUse", "InsufficientFunds", "ConstraintSeeds", "AccountNotInitialized" }
    BY <1>2 DEF Refusals, Foreign
  <2>2. CodeOf(r) \in { 0, 1, 2006, 3012 }
    BY <1>2, <2>1 DEF CodeOf
  <2>3. FromCode(CodeOf(r)) = NoError
    BY <2>2 DEF FromCode
  <2> QED
    BY <1>2, <2>3
<1> QED
  BY <1>1, <1>2

\* Whether the error carries the code or its logs name it.
LEMMA ErrorParsed ==
    ASSUME NEW r \in Refusals, NEW error \in ErrorsOf(r)
    PROVE  ParseCinefiError(error) = IF r \in Range(ErrorCode) THEN r ELSE NoError
<1> DEFINE code == CodeOf(r)
           named == { i \in DOMAIN error.logs : FromCode(error.logs[i]) # NoError }
<1>0. CASE r \in Codeless
  <2>1. error = [ code |-> {}, logs |-> << >> ]
    BY <1>0 DEF ErrorsOf
  <2>2. error.code = {} /\ DOMAIN error.logs = {}
    BY <2>1
  <2>3. named = {}
    BY <2>2
  <2> HIDE DEF named
  <2>4. ParseCinefiError(error) = NoError
    BY <2>2, <2>3 DEF ParseCinefiError, named
  <2>5. r \notin Range(ErrorCode)
    BY <1>0, TablesAgree DEF Foreign
  <2> QED
    BY <2>4, <2>5
<1> SUFFICES ASSUME r \notin Codeless
             PROVE  ParseCinefiError(error) = IF r \in Range(ErrorCode) THEN r ELSE NoError
  BY <1>0
<1>1. FromCode(code) = IF r \in Range(ErrorCode) THEN r ELSE NoError
  BY CodeNamed
<1>2. error \in { [ code |-> {code}, logs |-> << >> ], [ code |-> {}, logs |-> << code >> ] }
  BY DEF ErrorsOf
<1>3. ParseCinefiError(error) =
          IF error.code # {} THEN FromCode(CHOOSE c \in error.code : TRUE)
          ELSE IF named # {}
               THEN FromCode(error.logs[CHOOSE i \in named : \A j \in named : i <= j])
          ELSE NoError
  BY DEF ParseCinefiError
<1> HIDE DEF code
<1>4. CASE error = [ code |-> {code}, logs |-> << >> ]
  <2>1. error.code = {code}
    BY <1>4
  <2>2. (CHOOSE c \in {code} : TRUE) = code
    OBVIOUS
  <2> HIDE DEF named
  <2> QED
    BY <1>1, <1>3, <2>1, <2>2
<1>5. CASE error = [ code |-> {}, logs |-> << code >> ]
  <2>1. error.code = {} /\ error.logs = << code >>
    BY <1>5
  <2>2. DOMAIN error.logs = {1} /\ error.logs[1] = code
    BY <2>1
  <2>3. named = IF FromCode(code) = NoError THEN {} ELSE {1}
    BY <2>2
  <2>4. (CHOOSE i \in {1} : \A j \in {1} : i <= j) = 1
    OBVIOUS
  <2> HIDE DEF named
  <2> QED
    BY <1>1, <1>3, <2>1, <2>2, <2>3, <2>4
<1> QED
  BY <1>2, <1>4, <1>5
----------------------------------------------------------------------------
(* The client. *)

\* Whatever the client sends is a call whose stage has been reached.
LEMMA SendsCalled ==
    ASSUME TypeOK, ReadStands,
           \/ SendInitializeTreasury \/ SendCreateMarket \/ SendPlaceBet \/ SendCloseMarket
           \/ SendSubmitScore \/ SendResolveMarket \/ SendClaimReward \/ SendReclaimPool
    PROVE  /\ UNCHANGED vars
           /\ \E ix : Called(ix) /\ client' = [ phase |-> "sent", ix |-> ix ]
<1> DEFINE m == client.of
<1>1. ASSUME NEW ix, Send(ix), Called(ix)
      PROVE  /\ UNCHANGED vars
             /\ \E y : Called(y) /\ client' = [ phase |-> "sent", ix |-> y ]
  BY <1>1 DEF Send
<1>2. ASSUME At({"read"}), client.market.exists
      PROVE  /\ m \in Markets /\ m \in created /\ client.market.terms = terms[m]
             /\ client.market.closed => m \in closed
             /\ client.market.resolved => m \in resolved
             /\ now \in Int /\ terms[m].betting_starts_at \in Int
             /\ terms[m].betting_closes_at \in Int /\ terms[m].claim_deadline \in Int
  <2>1. /\ m \in Markets /\ m \in created /\ client.market.terms = terms[m]
        /\ client.market.closed => m \in closed
        /\ client.market.resolved => m \in resolved
    BY <1>2 DEF ReadStands
  <2>2. terms[m] \in Terms /\ now \in Int
    BY <2>1 DEF TypeOK
  <2> QED
    BY <2>1, <2>2 DEF Terms
<1>3. CASE SendInitializeTreasury
  <2>1. Send(InitializeTreasuryIx(AnyUser))
    BY <1>3 DEF SendInitializeTreasury
  <2>2. InitializeTreasuryIx(AnyUser).name = "initializeTreasury"
    BY <2>1, InitializeTreasuryCalls DEF Send
  <2> QED
    BY <1>1, <2>1, <2>2 DEF Called
<1>4. CASE SendCreateMarket
  <2>1. PICK x \in Markets, d \in StartDelays, r \in Radii, set \in OracleSets, t \in Thresholds :
            Send(CreateMarketIx(AnyUser, x, d, r, set, t))
    BY <1>4 DEF SendCreateMarket
  <2> DEFINE ix == CreateMarketIx(AnyUser, x, d, r, set, t)
  <2>2. ix.name = "createMarket" /\ Calls(ix, x)
    BY <2>1, CreateMarketCalls DEF Send
  <2> HIDE DEF ix
  <2> QED
    BY <1>1, <2>1, <2>2 DEF Called, Reached, ix
<1>5. CASE SendPlaceBet
  <2>1. PICK u \in Users, b \in BucketArgs, amount \in Amounts : Send(PlaceBetIx(u, m, b, amount))
    BY <1>5 DEF SendPlaceBet
  <2>2. m \in Markets /\ m \in created /\ now >= terms[m].betting_starts_at
    BY <1>2, <1>5 DEF SendPlaceBet, Offered, IsBettingOpen
  <2> DEFINE ix == PlaceBetIx(u, m, b, amount)
  <2>3. ix.name = "placeBet" /\ Calls(ix, m)
    BY <2>1, PlaceBetCalls DEF Send
  <2> HIDE DEF ix
  <2> QED
    BY <1>1, <2>1, <2>2, <2>3 DEF Called, Reached, ix
<1>6. CASE SendCloseMarket
  <2> DEFINE ix == CloseMarketIx(AnyUser, m)
  <2>1. Send(ix)
    BY <1>6 DEF SendCloseMarket
  <2>2. m \in Markets /\ m \in created /\ now >= terms[m].betting_closes_at
    BY <1>2, <1>6 DEF SendCloseMarket, Offered, CanCloseMarket
  <2>3. ix.name = "closeMarket" /\ Calls(ix, m)
    BY <2>1, CloseMarketCalls DEF Send
  <2> HIDE DEF ix
  <2> QED
    BY <1>1, <2>1, <2>2, <2>3 DEF Called, Reached
<1>7. CASE SendSubmitScore
  <2>1. PICK s \in Signers, score \in BucketArgs : Send(SubmitScoreIx(s, m, score))
    BY <1>7 DEF SendSubmitScore
  <2>2. m \in Markets /\ m \in closed
    BY <1>2, <1>7 DEF SendSubmitScore, Offered, CanSubmitScore
  <2> DEFINE ix == SubmitScoreIx(s, m, score)
  <2>3. ix.name = "submitScore" /\ Calls(ix, m)
    BY <2>1, SubmitScoreCalls DEF Send
  <2> HIDE DEF ix
  <2> QED
    BY <1>1, <2>1, <2>2, <2>3 DEF Called, Reached, ix
<1>8. CASE SendResolveMarket
  <2> DEFINE ix == ResolveMarketIx(AnyUser, m)
  <2>1. Send(ix)
    BY <1>8 DEF SendResolveMarket
  <2>2. m \in Markets /\ m \in closed
    BY <1>2, <1>8 DEF SendResolveMarket, Offered, CanResolveMarket
  <2>3. ix.name = "resolveMarket" /\ Calls(ix, m)
    BY <2>1, ResolveMarketCalls DEF Send
  <2> HIDE DEF ix
  <2> QED
    BY <1>1, <2>1, <2>2, <2>3 DEF Called, Reached
<1>9. CASE SendClaimReward
  <2>1. PICK u \in Users, b \in Buckets : Send(ClaimRewardIx(u, m, b))
    BY <1>9 DEF SendClaimReward
  <2>2. m \in Markets /\ m \in resolved
    BY <1>2, <1>9 DEF SendClaimReward, Offered, CanClaimReward
  <2> DEFINE ix == ClaimRewardIx(u, m, b)
  <2>3. ix.name = "claimReward" /\ Calls(ix, m)
    BY <2>1, ClaimRewardCalls DEF Send
  <2> HIDE DEF ix
  <2> QED
    BY <1>1, <2>1, <2>2, <2>3 DEF Called, Reached, ix
<1>10. CASE SendReclaimPool
  <2> DEFINE ix == ReclaimPoolIx(AnyUser, m)
  <2>1. Send(ix)
    BY <1>10 DEF SendReclaimPool
  <2>2. m \in Markets /\ m \in resolved /\ now >= terms[m].claim_deadline
    BY <1>2, <1>10 DEF SendReclaimPool, Offered, CanReclaimPool
  <2>3. ix.name = "reclaimPool" /\ Calls(ix, m)
    BY <2>1, ReclaimPoolCalls DEF Send
  <2> HIDE DEF ix
  <2> QED
    BY <1>1, <2>1, <2>2, <2>3 DEF Called, Reached
<1> QED
  BY <1>3, <1>4, <1>5, <1>6, <1>7, <1>8, <1>9, <1>10

\* A stake grows while betting is open, or is claimed.
LEMMA PositionMoves ==
    ASSUME TypeOK, [Next]_vars, NEW x \in Markets, NEW q \in Positions
    PROVE  \/ position'[x][q] = position[x][q]
           \/ /\ position'[x][q].amount > position[x][q].amount
              /\ x \notin closed /\ x \notin resolved
           \/ position'[x][q].amount = 0 /\ x \in resolved
<1>0. /\ position \in [Markets -> [Positions -> Position]]
      /\ \A m \in Markets : \A p \in Positions : position[m][p].amount \in Nat
  BY DEF TypeOK, Position
<1>1. ASSUME NEW m \in Markets, NEW u \in Users, NEW y \in BucketArgs,
             NEW amount \in Amounts, PlaceBet(m, u, y, amount)
      PROVE  \/ position'[x][q] = position[x][q]
             \/ /\ position'[x][q].amount > position[x][q].amount
                /\ x \notin closed /\ x \notin resolved
  <2>1. PICK w \in Nat : position' = [ position EXCEPT ![m][<<u, y>>] =
                                         [ amount |-> @.amount + amount,
                                           weighted_amount |-> @.weighted_amount + w ] ]
    BY <1>1, BetEffect
  <2>2. <<u, y>> \in Positions /\ amount \in Nat \ {0}
    BY <1>1, BetEffect
  <2>3. m \notin closed /\ m \notin resolved
    BY <1>1 DEF PlaceBet, BetAllowed, BettingOpen
  <2>4. CASE x = m /\ q = <<u, y>>
    <3>1. position'[x][q].amount = position[x][q].amount + amount
      BY <1>0, <2>1, <2>2, <2>4
    <3> QED
      BY <1>0, <2>2, <2>3, <2>4, <3>1
  <2>5. CASE ~(x = m /\ q = <<u, y>>)
    BY <1>0, <2>1, <2>5
  <2> QED
    BY <2>4, <2>5
<1>2. ASSUME NEW m \in Markets, NEW u \in Users, NEW y \in Buckets, ClaimReward(m, u, y)
      PROVE  \/ position'[x][q] = position[x][q]
             \/ position'[x][q].amount = 0 /\ x \in resolved
  <2>1. position' = [ position EXCEPT ![m][<<u, y>>] = NoPosition ] /\ m \in resolved
    BY <1>2 DEF ClaimReward, ClaimAllowed
  <2> QED
    BY <1>0, <2>1 DEF NoPosition
<1> QED
  BY <1>1, <1>2, OtherSteps

\* What the client knows stays true while it waits.
LEMMA ReadStays ==
    ASSUME TypeOK, StagesKeep, ReadStands, client' = client
    PROVE  ReadStands'
  BY DEF ReadStands, StagesKeep, At

LEMMA SentStays ==
    ASSUME TypeOK, TypeOK', StagesKeep, SentStands, client' = client
    PROVE  SentStands'
<1> SUFFICES ASSUME At({"sent"})', NEW ix, ix = client'.ix PROVE Called(ix)'
  BY DEF SentStands, Called, Reached
<1>1. Called(ix)
  BY DEF SentStands, At
<1> QED
  BY <1>1, CalledStays

LEMMA DoneStays ==
    ASSUME TypeOK, TypeOK', StagesKeep, ProgramKeeps, DoneStands, client' = client
    PROVE  DoneStands'
<1> SUFFICES ASSUME At({"done"})', NEW ix, ix = client'.ix PROVE Called(ix)' /\ Settled(ix)'
  BY DEF DoneStands, Called, Reached, Settled
<1>1. Called(ix) /\ Settled(ix)
  BY DEF DoneStands, At
<1> QED
  BY <1>1, CalledStays, SettledStays

LEMMA ListStays ==
    ASSUME TypeOK, TypeOK', [Next]_vars, StagesKeep, ListStands, client' = client
    PROVE  ListStands'
<1> SUFFICES ASSUME At({"listing", "listed"}) PROVE ListStands'
  BY DEF ListStands, At
<1> DEFINE m == client.of
           q == << client.user, client.bucket >>
           shown == client.entry
<1>1. /\ m \in Markets /\ client.user \in Users /\ client.bucket \in Buckets
      /\ client.after_close => m \in closed
  BY DEF ListStands
<1>2. q \in Positions
  BY <1>1 DEF Positions
<1>3. /\ position[m][q].amount \in Nat /\ position'[m][q].amount \in Nat
      /\ closed \subseteq closed' /\ resolved \subseteq resolved'
  BY <1>1, <1>2 DEF TypeOK, Position, StagesKeep
<1>4. \/ position'[m][q] = position[m][q]
      \/ /\ position'[m][q].amount > position[m][q].amount
         /\ m \notin closed /\ m \notin resolved
      \/ position'[m][q].amount = 0 /\ m \in resolved
  BY <1>1, <1>2, PositionMoves
<1>5. ASSUME At({"listed"})
      PROVE  /\ client.after_close =>
                   \/ position'[m][q].amount = 0
                   \/ shown.exists /\ shown.amount = position'[m][q].amount
                   \/ client.failed
             /\ shown.exists =>
                   /\ shown.amount \in Nat \ {0}
                   /\ shown = [ exists |-> TRUE, amount |-> shown.amount ]
                   /\ m \in resolved' \/ position'[m][q].amount >= shown.amount
  <2>1. /\ client.after_close =>
              \/ position[m][q].amount = 0
              \/ shown.exists /\ shown.amount = position[m][q].amount
              \/ client.failed
        /\ shown.exists =>
              /\ shown.amount \in Nat \ {0}
              /\ shown = [ exists |-> TRUE, amount |-> shown.amount ]
              /\ m \in resolved \/ position[m][q].amount >= shown.amount
    BY <1>5 DEF ListStands
  <2> HIDE DEF m, q, shown
  <2> QED
    BY <1>1, <1>3, <1>4, <2>1
<1> QED
  BY <1>1, <1>3, <1>5 DEF ListStands, At

LEMMA ClientInitInv == ClientInit => ClientInv
  BY DEF ClientInit, ClientInv, ReadStands, SentStands, DoneStands, RefusedStands, ListStands, At

\* A step of the client is a step of the program or none.
LEMMA ClientStepRuns ==
    ASSUME TypeOK, SentStands, [ClientNext]_clientVars
    PROVE  [Next]_vars
<1>1. CASE Landed
  <2>1. Called(client.ix) /\ Execute(client.ix)
    BY <1>1 DEF Landed, SentStands
  <2> QED
    BY <2>1, ExecuteRuns
<1>2. CASE Others \/ UNCHANGED clientVars
  BY <1>2 DEF Others, clientVars
<1>3. CASE \/ SendInitializeTreasury \/ SendCreateMarket \/ SendPlaceBet \/ SendCloseMarket
           \/ SendSubmitScore \/ SendResolveMarket \/ SendClaimReward \/ SendReclaimPool
  BY <1>3 DEF SendInitializeTreasury, SendCreateMarket, SendPlaceBet, SendCloseMarket,
              SendSubmitScore, SendResolveMarket, SendClaimReward, SendReclaimPool, Offered, Send
<1>4. CASE \/ \E m \in Markets : ReadMarket(m)
           \/ \E u \in Users, m \in Markets, b \in Buckets : ListPositions(u, m, b)
           \/ PositionListed \/ Refused \/ Expires
  BY <1>4 DEF ReadMarket, ListPositions, PositionListed, Refused, Expires
<1> QED
  BY <1>1, <1>2, <1>3, <1>4 DEF ClientNext

LEMMA ClientNextInv == TypeOK /\ ClientInv /\ [ClientNext]_clientVars => ClientInv'
<1> SUFFICES ASSUME TypeOK, ClientInv, [ClientNext]_clientVars PROVE ClientInv'
  OBVIOUS
<1> USE DEF At
<1>0. [Next]_vars /\ TypeOK' /\ StagesKeep /\ ProgramKeeps
  BY ClientStepRuns, NextType, StagesKept, ProgramKept DEF ClientInv
<1>1. CASE client' = client
  <2>1. RefusedStands'
    BY <1>1 DEF ClientInv, RefusedStands
  <2> QED
    BY <1>0, <1>1, <2>1, ReadStays, SentStays, DoneStays, ListStays DEF ClientInv
<1>2. ASSUME NEW m \in Markets, ReadMarket(m) PROVE ClientInv'
  <2>1. /\ \E failed \in BOOLEAN :
               client' = [ phase |-> "read", of |-> m, market |-> FetchMarket(m, failed) ]
        /\ UNCHANGED vars
    BY <1>2 DEF ReadMarket
  <2>2. ReadStands'
    BY <1>2, <2>1 DEF ReadStands, FetchMarket, Null, vars
  <2>3. client'.phase = "read"
    BY <2>1
  <2> QED
    BY <2>2, <2>3 DEF ClientInv, SentStands, DoneStands, RefusedStands, ListStands
<1>3. ASSUME NEW u \in Users, NEW m \in Markets, NEW b \in Buckets, ListPositions(u, m, b)
      PROVE  ClientInv'
  <2>1. /\ client' = [ phase |-> "listing", of |-> m, user |-> u, bucket |-> b,
                       after_close |-> m \in closed ]
        /\ UNCHANGED vars
    BY <1>3 DEF ListPositions
  <2>2. ListStands'
    BY <1>3, <2>1 DEF ListStands, vars
  <2>3. client'.phase = "listing"
    BY <2>1
  <2> QED
    BY <2>2, <2>3 DEF ClientInv, SentStands, DoneStands, RefusedStands, ReadStands
<1>4. CASE PositionListed
  <2>1. /\ client.of \in Markets /\ client.user \in Users /\ client.bucket \in Buckets
        /\ client.after_close => client.of \in closed
    BY <1>4 DEF PositionListed, ClientInv, ListStands
  <2>2. client.bucket \in ListedBuckets
    BY <2>1 DEF ListedBuckets, Buckets
  <2>3. PICK failed \in BOOLEAN :
            client' = [ phase |-> "listed", of |-> client.of, user |-> client.user,
                        bucket |-> client.bucket, after_close |-> client.after_close,
                        failed |-> failed,
                        entry |-> FetchUserPosition(client.user, client.of, client.bucket,
                                                    failed) ]
    BY <1>4, <2>2 DEF PositionListed
  <2> DEFINE m == client.of
             q == << client.user, client.bucket >>
             entry == FetchUserPosition(client.user, m, client.bucket, failed)
             held == position[m][q].amount
  <2>4. held \in Nat /\ UNCHANGED << closed, resolved, position >>
    BY <1>4, <2>1 DEF TypeOK, Position, Positions, PositionListed, vars
  <2>5. /\ held = 0 => ~entry.exists
        /\ failed => ~entry.exists
        /\ held # 0 /\ ~failed => entry = [ exists |-> TRUE, amount |-> held ]
    BY DEF FetchUserPosition, Null
  <2> HIDE DEF entry, held
  <2>6. /\ held = 0 \/ (entry.exists /\ entry.amount = held) \/ failed
        /\ entry.exists => /\ entry.amount \in Nat \ {0}
                           /\ entry = [ exists |-> TRUE, amount |-> entry.amount ]
                           /\ held >= entry.amount
    BY <2>4, <2>5
  <2>7. /\ client'.of = m /\ client'.user = client.user /\ client'.bucket = client.bucket
        /\ client'.after_close = client.after_close /\ client'.entry = entry
        /\ client'.phase = "listed" /\ client'.failed = failed
        /\ position'[m][q].amount = held
    BY <2>3, <2>4 DEF held, entry
  <2>8. ListStands'
    BY <2>1, <2>4, <2>6, <2>7 DEF ListStands
  <2> QED
    BY <2>7, <2>8 DEF ClientInv, SentStands, DoneStands, RefusedStands, ReadStands
<1>5. CASE \/ SendInitializeTreasury \/ SendCreateMarket \/ SendPlaceBet \/ SendCloseMarket
           \/ SendSubmitScore \/ SendResolveMarket \/ SendClaimReward \/ SendReclaimPool
  <2>1. PICK ix : Called(ix) /\ client' = [ phase |-> "sent", ix |-> ix ]
    BY <1>5, SendsCalled DEF ClientInv
  <2>2. client'.phase = "sent" /\ client'.ix = ix
    BY <2>1
  <2>3. Called(ix)'
    BY <1>0, <2>1, CalledStays
  <2>4. SentStands'
    BY <2>2, <2>3 DEF SentStands, Called, Reached
  <2> QED
    BY <2>2, <2>4 DEF ClientInv, DoneStands, RefusedStands, ReadStands, ListStands
<1>6. CASE Landed
  <2>1. PICK ix : ix = client.ix
    OBVIOUS
  <2>2. Called(ix) /\ Execute(ix)
    BY <1>6, <2>1 DEF Landed, ClientInv, SentStands
  <2>3. client'.phase = "done" /\ client'.ix = ix
    BY <1>6, <2>1 DEF Landed
  <2>4. Called(ix)' /\ Settled(ix)'
    BY <1>0, <2>2, CalledStays, ExecuteRuns
  <2>5. DoneStands'
    BY <2>3, <2>4 DEF DoneStands, Called, Reached, Settled
  <2> QED
    BY <2>3, <2>5 DEF ClientInv, SentStands, RefusedStands, ReadStands, ListStands
<1>7. CASE Refused
  <2>1. /\ Called(client.ix) /\ Refusal(client.ix) # Accepted
        /\ client' = [ phase |-> "refused", name |-> client.ix.name,
                       refused |-> Refusal(client.ix) ]
    BY <1>7 DEF Refused, ClientInv, SentStands
  <2>2. /\ client'.phase = "refused" /\ client'.name = client.ix.name
        /\ client'.refused = Refusal(client.ix)
    BY <2>1
  <2>3. RefusedStands'
    BY <2>1, <2>2, RefusalReason DEF RefusedStands
  <2> QED
    BY <2>2, <2>3 DEF ClientInv, SentStands, DoneStands, ReadStands, ListStands
<1>8. CASE Expires
  BY <1>8 DEF Expires, ClientInv, SentStands, DoneStands, RefusedStands, ReadStands, ListStands
<1> QED
  BY <1>1, <1>2, <1>3, <1>4, <1>5, <1>6, <1>7, <1>8 DEF ClientNext, Others, clientVars

\* Whatever the client does, the program runs as it does without it: an accepted call is
\* one of its steps, and nothing else touches its accounts.
THEOREM ClientRuns == ClientSpec => Spec
<1>1. ClientInit => Init /\ TypeOK /\ ClientInv
  BY InitType, ClientInitInv DEF ClientInit
<1>2. TypeOK /\ ClientInv /\ [ClientNext]_clientVars => [Next]_vars /\ TypeOK' /\ ClientInv'
  BY ClientStepRuns, NextType, ClientNextInv DEF ClientInv
<1> QED
  BY <1>1, <1>2, PTL DEF ClientSpec, Spec

LEMMA ClientAlways == ClientSpec => [](TypeOK /\ ClientInv)
<1>1. ClientInit => TypeOK /\ ClientInv
  BY InitType, ClientInitInv DEF ClientInit
<1>2. TypeOK /\ ClientInv /\ [ClientNext]_clientVars => (TypeOK /\ ClientInv)'
  BY ClientStepRuns, NextType, ClientNextInv DEF ClientInv
<1> QED
  BY <1>1, <1>2, PTL DEF ClientSpec
----------------------------------------------------------------------------
(* What a client may rely on. *)

\* A call offered on an old reading may come too late but never too early, and never
\* names accounts the program rejects.
THEOREM NeverEarly == ClientSpec => []NeverTooEarly
<1>1. ClientInv => NeverTooEarly
  BY DEF ClientInv, RefusedStands, NeverTooEarly, At
<1> QED
  BY <1>1, ClientAlways, PTL

\* The client names every refusal as the program does, and names no other error so.
THEOREM RefusalsNamed == ClientSpec => []RefusalNamed
<1>1. ClientInv => RefusalNamed
  <2>1. SUFFICES ASSUME ClientInv, client.phase = "refused",
                        NEW error \in ErrorsOf(client.refused)
                 PROVE  ParseCinefiError(error) =
                            IF client.refused \in Range(ErrorCode) THEN client.refused ELSE NoError
    BY DEF RefusalNamed
  <2>2. client.refused \in Refusals
    BY <2>1 DEF ClientInv, RefusedStands, At
  <2> QED
    BY <2>1, <2>2, ErrorParsed
<1> QED
  BY <1>1, ClientAlways, PTL

\* A client that repeats a call that took effect, for want of an answer, does not make
\* it take effect again, however much later it does.
THEOREM RepeatsRefused == ClientSpec => []RepeatIsRefused
<1>1. TypeOK /\ ClientInv => RepeatIsRefused
  BY SettledIsRefused DEF ClientInv, DoneStands, RepeatIsRefused, At
<1> QED
  BY <1>1, ClientAlways, PTL

\* The list of positions, read one by one, omits nothing that can still be claimed, but
\* for the reads that failed.
THEOREM PositionsShown == ClientSpec => []OnlyFailedReadsHide
<1>1. TypeOK /\ ClientInv => OnlyFailedReadsHide
  <2> DEFINE m == client.of
             q == << client.user, client.bucket >>
             amount == position[m][q].amount
             shown == client.entry
             held == FetchUserPosition(client.user, m, client.bucket, FALSE)
  <2>1. SUFFICES ASSUME TypeOK, ClientInv, client.phase = "listed"
                 PROVE  /\ client.after_close /\ held.exists => shown = held \/ client.failed
                        /\ shown.exists /\ m \notin resolved =>
                               held.exists /\ shown.amount <= held.amount
    BY DEF OnlyFailedReadsHide
  <2>2. /\ m \in Markets /\ q \in Positions
        /\ client.after_close =>
              amount = 0 \/ (shown.exists /\ shown.amount = amount) \/ client.failed
        /\ shown.exists => /\ shown.amount \in Nat \ {0}
                           /\ shown = [ exists |-> TRUE, amount |-> shown.amount ]
                           /\ m \in resolved \/ amount >= shown.amount
    BY <2>1 DEF ClientInv, ListStands, At, Positions
  <2>3. amount \in Nat
    <3>1. position[m][q] \in Position
      BY <2>1, <2>2 DEF TypeOK
    <3> QED
      BY <3>1 DEF Position
  <2>4. /\ amount = 0 => ~held.exists
        /\ amount # 0 => /\ held = [ exists |-> TRUE, amount |-> amount ]
                         /\ held.exists /\ held.amount = amount
    BY DEF FetchUserPosition, Null
  <2> HIDE DEF held, shown, amount, m, q
  <2>5. ASSUME client.after_close, held.exists, ~client.failed PROVE shown = held
    <3>1. amount # 0
      BY <2>4, <2>5
    <3>2. /\ shown = [ exists |-> TRUE, amount |-> shown.amount ] /\ shown.amount = amount
          /\ held = [ exists |-> TRUE, amount |-> amount ]
      BY <2>2, <2>4, <2>5, <3>1
    <3> QED
      BY <3>2
  <2>6. ASSUME shown.exists, m \notin resolved
        PROVE  held.exists /\ shown.amount <= held.amount
    <3>1. shown.amount \in Nat \ {0} /\ amount >= shown.amount
      BY <2>2, <2>6
    <3> QED
      BY <2>3, <2>4, <3>1
  <2> QED
    BY <2>5, <2>6
<1> QED
  BY <1>1, ClientAlways, PTL
----------------------------------------------------------------------------
(* The stages that the client offers. *)

\* What each predicate of the client says of an account that was just read.
LEMMA OffersNow ==
    ASSUME NEW m \in created
    PROVE  LET market == FetchMarket(m, FALSE)
               t == terms[m]
           IN  /\ IsBettingOpen(market, now) <=>
                      /\ t.betting_starts_at <= now /\ now < t.betting_closes_at
                      /\ m \notin closed
               /\ CanCloseMarket(market, now) <=>
                      now >= t.betting_closes_at /\ m \notin closed
               /\ CanSubmitScore(market, now) <=>
                      /\ t.settle_at <= now
                      /\ now < t.settle_at + ORACLE_WINDOWS_CLOSE_SECONDS
                      /\ m \in closed /\ m \notin resolved
               /\ CanResolveMarket(market) <=> m \in closed /\ m \notin resolved
               /\ CanClaimReward(market, now) <=>
                      m \in resolved /\ m \notin reclaimed /\ now <= t.claim_deadline
               /\ CanReclaimPool(market, now) <=>
                      m \in resolved /\ m \notin reclaimed /\ now > t.claim_deadline
<1> DEFINE market == FetchMarket(m, FALSE)
<1>1. market = [ exists |-> TRUE, terms |-> terms[m], closed |-> m \in closed,
                 resolved |-> m \in resolved, reclaimed |-> m \in reclaimed ]
  BY DEF FetchMarket
<1> HIDE DEF market
<1>2. /\ market.terms = terms[m]
      /\ market.closed = (m \in closed)
      /\ market.resolved = (m \in resolved)
      /\ market.reclaimed = (m \in reclaimed)
  BY <1>1
<1>3. /\ IsBettingOpen(market, now) <=>
             /\ terms[m].betting_starts_at <= now /\ now < terms[m].betting_closes_at
             /\ m \notin closed
      /\ CanCloseMarket(market, now) <=> now >= terms[m].betting_closes_at /\ m \notin closed
      /\ CanResolveMarket(market) <=> m \in closed /\ m \notin resolved
  BY <1>2, Zenon DEF IsBettingOpen, CanCloseMarket, CanResolveMarket
<1>4. CanSubmitScore(market, now) <=>
          /\ terms[m].settle_at <= now
          /\ now < terms[m].settle_at + ORACLE_WINDOWS_CLOSE_SECONDS
          /\ m \in closed /\ m \notin resolved
  BY <1>2, Zenon DEF CanSubmitScore
<1>5. /\ CanClaimReward(market, now) <=>
             m \in resolved /\ m \notin reclaimed /\ now <= terms[m].claim_deadline
      /\ CanReclaimPool(market, now) <=>
             m \in resolved /\ m \notin reclaimed /\ now > terms[m].claim_deadline
  BY <1>2, Zenon DEF CanClaimReward, CanReclaimPool
<1> QED
  BY <1>3, <1>4, <1>5 DEF market

\* Settlement follows betting and the deadline follows settlement, so that no two of
\* the client's stages share a second.
THEOREM StagesNeverOverlap == Spec => []ClientStagesDisjoint
<1>1. TypeOK /\ LifeInv /\ SettlementStands => ClientStagesDisjoint
  <2> SUFFICES ASSUME TypeOK, LifeInv, SettlementStands, NEW m \in created
               PROVE  LET market == FetchMarket(m, FALSE)
                          stages == << IsBettingOpen(market, now), CanCloseMarket(market, now),
                                       CanSubmitScore(market, now) \/ CanResolveMarket(market),
                                       CanClaimReward(market, now), CanReclaimPool(market, now) >>
                      IN  \A i, j \in 1..5 : stages[i] /\ stages[j] => i = j
    BY DEF ClientStagesDisjoint
  <2> DEFINE market == FetchMarket(m, FALSE)
             s1 == IsBettingOpen(market, now)
             s2 == CanCloseMarket(market, now)
             s3 == CanSubmitScore(market, now) \/ CanResolveMarket(market)
             s4 == CanClaimReward(market, now)
             s5 == CanReclaimPool(market, now)
  <2>1. /\ now \in Int /\ terms[m].betting_closes_at \in Int /\ terms[m].claim_deadline \in Int
        /\ m \in resolved => m \in closed
    BY DEF TypeOK, Terms, SettlementStands
  <2>2. /\ s1 => now < terms[m].betting_closes_at /\ m \notin closed
        /\ s2 => now >= terms[m].betting_closes_at /\ m \notin closed
        /\ s3 => m \in closed /\ m \notin resolved
        /\ s4 => m \in resolved /\ now <= terms[m].claim_deadline
        /\ s5 => m \in resolved /\ now > terms[m].claim_deadline
    BY OffersNow
  <2> HIDE DEF s1, s2, s3, s4, s5
  <2>3. /\ ~(s1 /\ s2) /\ ~(s1 /\ s3) /\ ~(s1 /\ s4) /\ ~(s1 /\ s5) /\ ~(s2 /\ s3)
        /\ ~(s2 /\ s4) /\ ~(s2 /\ s5) /\ ~(s3 /\ s4) /\ ~(s3 /\ s5) /\ ~(s4 /\ s5)
    BY <2>1, <2>2
  <2>4. \A i, j \in 1..5 : << s1, s2, s3, s4, s5 >>[i] /\ << s1, s2, s3, s4, s5 >>[j] => i = j
    BY <2>3
  <2> QED
    BY <2>4 DEF market, s1, s2, s3, s4, s5
<1> QED
  BY <1>1, TypeCorrect, LifeAlways, SettlementCorrect, PTL

\* The program offers nothing that the client does not, but for one second per stage.
THEOREM LittleMissed == Spec => []ClientMissesOneSecond
<1>1. TypeOK /\ LifeInv => ClientMissesOneSecond
  <2> SUFFICES ASSUME TypeOK, LifeInv, NEW m \in created
               PROVE  LET market == FetchMarket(m, FALSE) IN
                      /\ CloseAllowed(m) => CanCloseMarket(market, now)
                      /\ m \in resolved \ reclaimed /\ ClaimWindowOpen(m)
                            => CanClaimReward(market, now)
                      /\ BettingOpen(m) =>
                            IsBettingOpen(market, now) \/ now = terms[m].betting_closes_at
                      /\ Reclaimable(m) =>
                            CanReclaimPool(market, now) \/ now = terms[m].claim_deadline
                      /\ OracleWindowOpen(m) /\ m \in closed \ resolved =>
                            \/ CanSubmitScore(market, now)
                            \/ now = terms[m].settle_at + ORACLE_WINDOWS_CLOSE_SECONDS
                      /\ ResolveAllowed(m) => CanResolveMarket(market)
    BY DEF ClientMissesOneSecond
  <2> DEFINE market == FetchMarket(m, FALSE)
  <2>1. /\ now \in Int /\ terms[m].betting_closes_at \in Int /\ terms[m].claim_deadline \in Int
        /\ terms[m].settle_at \in Int /\ ORACLE_WINDOWS_CLOSE_SECONDS \in Int
    BY CinefiConstants DEF TypeOK, Terms
  <2>2. /\ IsBettingOpen(market, now) <=>
               /\ terms[m].betting_starts_at <= now /\ now < terms[m].betting_closes_at
               /\ m \notin closed
        /\ CanCloseMarket(market, now) <=> now >= terms[m].betting_closes_at /\ m \notin closed
        /\ CanSubmitScore(market, now) <=>
               /\ terms[m].settle_at <= now
               /\ now < terms[m].settle_at + ORACLE_WINDOWS_CLOSE_SECONDS
               /\ m \in closed /\ m \notin resolved
        /\ CanResolveMarket(market) <=> m \in closed /\ m \notin resolved
        /\ CanClaimReward(market, now) <=>
               m \in resolved /\ m \notin reclaimed /\ now <= terms[m].claim_deadline
        /\ CanReclaimPool(market, now) <=>
               m \in resolved /\ m \notin reclaimed /\ now > terms[m].claim_deadline
    BY OffersNow
  <2> HIDE DEF market
  <2>3. /\ CloseAllowed(m) => CanCloseMarket(market, now)
        /\ m \in resolved \ reclaimed /\ ClaimWindowOpen(m) => CanClaimReward(market, now)
        /\ ResolveAllowed(m) => CanResolveMarket(market)
    BY <2>2 DEF CloseAllowed, ClaimWindowOpen, ResolveAllowed, Resolvable
  <2>4. BettingOpen(m) => IsBettingOpen(market, now) \/ now = terms[m].betting_closes_at
    BY <2>1, <2>2 DEF BettingOpen
  <2>5. Reclaimable(m) => CanReclaimPool(market, now) \/ now = terms[m].claim_deadline
    BY <2>1, <2>2 DEF Reclaimable
  <2>6. OracleWindowOpen(m) /\ m \in closed \ resolved =>
            \/ CanSubmitScore(market, now)
            \/ now = terms[m].settle_at + ORACLE_WINDOWS_CLOSE_SECONDS
    <3> DEFINE closing == terms[m].settle_at + ORACLE_WINDOWS_CLOSE_SECONDS
    <3>1. CanSubmitScore(market, now) <=>
              terms[m].settle_at <= now /\ now < closing /\ m \in closed /\ m \notin resolved
      BY <2>2
    <3>2. OracleWindowOpen(m) <=> terms[m].settle_at <= now /\ now <= closing
      BY DEF OracleWindowOpen
    <3>3. closing \in Int /\ now \in Int
      BY <2>1
    <3> HIDE DEF closing
    <3>4. now <= closing => now < closing \/ now = closing
      BY <3>3
    <3>5. OracleWindowOpen(m) /\ m \in closed \ resolved =>
              CanSubmitScore(market, now) \/ now = closing
      BY <3>1, <3>2, <3>4
    <3> QED
      BY <3>5 DEF closing
  <2> QED
    BY <2>3, <2>4, <2>5, <2>6 DEF market
<1> QED
  BY <1>1, TypeCorrect, LifeAlways, PTL
----------------------------------------------------------------------------
(* What the client offers, against what the program accepts.

   The client looks neither at lamports nor at widths.  That these refuse nothing but
   what ClientOffersExactly names takes a vault with some rent, a treasury that needs no
   more of it, and bettors whose money the program can count. *)

\* A bet within the wallet is within every width.
LEMMA BetFits ==
    ASSUME WealthFits, VaultInv, MoneyInv, NEW m \in created \ resolved, NEW u \in Users,
           NEW amount \in Nat, wallet[u] >= amount, now >= terms[m].betting_starts_at
    PROVE  /\ WeightFits(amount, DayIndex(now, terms[m].betting_starts_at))
           /\ total_pool[m] + amount <= MaxU64
<1> DEFINE day == DayIndex(now, terms[m].betting_starts_at)
           factor == TimeMultiplier(day)
<1>1. /\ now \in Int /\ terms[m].betting_starts_at \in Int /\ wallet[u] \in Nat
      /\ total_pool[m] \in Nat /\ MaxU64 \in Nat
  BY WeightConstants DEF VaultInv, TypeOK, Terms
<1>2. wallet[u] + total_pool[m] <= Wealth /\ Wealth \in Nat
  BY WithinWealth, CinefiConstants, FS_CardinalityType, MulNat DEF Wealth
<1>3. day \in 0 .. BETTING_DURATION_DAYS - 1
  BY <1>1, DayIndexType
<1> HIDE DEF day
<1>4. factor \in Nat
  BY <1>3, WeightConstants DEF TimeMultiplier
<1>5. Wealth <= MaxU64 /\ Wealth * factor <= MaxU64
  BY <1>3 DEF WealthFits
<1> HIDE DEF factor
<1>6. amount * factor <= Wealth * factor /\ amount * factor \in Nat /\ Wealth * factor \in Nat
  BY <1>1, <1>2, <1>4
<1>7. amount * factor <= MaxU64
  BY <1>1, <1>5, <1>6
<1>8. total_pool[m] + amount <= MaxU64
  BY <1>1, <1>2, <1>5
<1> QED
  BY <1>7, <1>8 DEF WeightFits, day, factor

\* Payouts lie inside the radius exactly if the fallback was not used.
LEMMA PaidInsideRadius ==
    ASSUME SettlementStands, NEW m \in resolved, NEW u \in Users, NEW b \in Playable,
           Payout(m, u, b) > 0
    PROVE  IsWinningBucket(b, outcome[m].final_outcome, terms[m].radius)
               <=> ~outcome[m].fallback_used
<1> DEFINE w == weighted_pool[m]
           r == terms[m].radius
           score == report[m].agreed_score
<1>1. /\ outcome[m].final_outcome = score
      /\ outcome[m].fallback_used = FallbackUsed(w, score, r)
      /\ \E total : outcome[m].bucket_prize = ComputeBucketPrizes(w, score, r, total)
  <2>1. outcome[m] = OutcomeFor(m, score)
    BY DEF SettlementStands
  <2> QED
    BY <2>1 DEF OutcomeFor
<1>2. outcome[m].bucket_prize[b] > 0 /\ w[b] > 0
  BY DEF Payout, CalcUserPayout
<1>3. b \in WinningBuckets(w, score, r)
  BY <1>1, <1>2, PrizeIsWon, BucketsFinite
<1>4. CASE FallbackUsed(w, score, r)
  <2>1. b \notin WithinRadius(w, score, r)
    BY <1>4 DEF FallbackUsed
  <2>2. ~(Distance(b, score) <= r)
    BY <1>2, <2>1 DEF WithinRadius
  <2> QED
    BY <1>1, <1>4, <2>2 DEF IsWinningBucket
<1>5. CASE ~FallbackUsed(w, score, r)
  <2>1. Distance(b, score) <= r
    BY <1>3, <1>5 DEF WinningBuckets, WithinRadius
  <2> QED
    BY <1>1, <1>5, <2>1 DEF IsWinningBucket
<1> QED
  BY <1>4, <1>5

\* What the checks of the client allow is refused only for bucket 0, a missing verdict,
\* a treasury yet to be founded, the vault, or a bucket the program does not call a winner.
THEOREM OffersAccepted ==
    VaultRent > 0 /\ TreasuryRent <= VaultRent /\ WealthFits => (Spec => []ClientOffersExactly)
<1> SUFFICES ASSUME VaultRent > 0, TreasuryRent <= VaultRent, WealthFits
             PROVE  Spec => []ClientOffersExactly
  OBVIOUS
<1>1. VaultInv /\ MoneyInv /\ UnhinderedInv /\ SettlementStands => ClientOffersExactly
  <2> SUFFICES ASSUME VaultInv, MoneyInv, UnhinderedInv, SettlementStands, NEW m \in created
               PROVE  LET market == FetchMarket(m, FALSE) IN
        /\ IsBettingOpen(market, now) =>
               \A u \in Users, b \in BucketArgs, amount \in Amounts :
                   ValidateBucket(b) /\ ValidateAmount(amount) /\ wallet[u] >= amount
                       => (BetAllowed(m, u, b, amount) <=> b # MIN_BUCKET)
        /\ CanCloseMarket(market, now) => CloseAllowed(m)
        /\ CanSubmitScore(market, now) /\ ReportOpen(m) =>
               \A s \in Signers, score \in BucketArgs :
                   /\ IsValidOracle(m, s) /\ ~HasAlreadySubmitted(report[m].submissions, s)
                   /\ ValidateBucket(score)
                   => (ScoreAllowed(m, s, score) <=> score # MIN_BUCKET)
        /\ CanResolveMarket(market) =>
               LET fee == Fee(total_pool[m]) IN
               (ResolveAllowed(m) <=>
                   /\ report[m].finalized /\ now >= terms[m].settle_at
                   /\ \/ fee = 0
                      \/ VaultDebitable /\ (treasury_open \/ treasury + fee >= TreasuryRent))
        /\ CanClaimReward(market, now) => \A u \in Users, b \in Playable :
               position[m][<<u, b>>].amount > 0 /\ Payout(m, u, b) > 0 =>
                   /\ ClaimAllowed(m, u, b) <=> Wins(m, b) /\ VaultDebitable
                   /\ IsWinningBucket(b, outcome[m].final_outcome, terms[m].radius)
                          <=> ~outcome[m].fallback_used
        /\ CanReclaimPool(market, now) => (ReclaimAllowed(m) <=> VaultDebitable)
    BY DEF ClientOffersExactly
  <2> DEFINE market == FetchMarket(m, FALSE)
  <2>1. /\ IsBettingOpen(market, now) <=>
               /\ terms[m].betting_starts_at <= now /\ now < terms[m].betting_closes_at
               /\ m \notin closed
        /\ CanCloseMarket(market, now) <=> now >= terms[m].betting_closes_at /\ m \notin closed
        /\ CanSubmitScore(market, now) <=>
               /\ terms[m].settle_at <= now
               /\ now < terms[m].settle_at + ORACLE_WINDOWS_CLOSE_SECONDS
               /\ m \in closed /\ m \notin resolved
        /\ CanResolveMarket(market) <=> m \in closed /\ m \notin resolved
        /\ CanClaimReward(market, now) <=>
               m \in resolved /\ m \notin reclaimed /\ now <= terms[m].claim_deadline
        /\ CanReclaimPool(market, now) <=>
               m \in resolved /\ m \notin reclaimed /\ now > terms[m].claim_deadline
    BY OffersNow
  <2> HIDE DEF market
  <2>2. TypeOK /\ LifeInv /\ LedgerInv /\ Solvent /\ m \in Markets
    BY DEF VaultInv, TypeOK
  <2>3. /\ now \in Int /\ terms[m].betting_closes_at \in Int /\ terms[m].claim_deadline \in Int
        /\ terms[m].settle_at \in Int /\ ORACLE_WINDOWS_CLOSE_SECONDS \in Int
        /\ MaxBucket \in Nat \ {0}
        /\ m \in resolved => m \in closed
    BY <2>2, CinefiConstants, WeightConstants DEF TypeOK, Terms, LifeInv, LifeAt
  <2>4. ASSUME IsBettingOpen(market, now), NEW u \in Users, NEW b \in BucketArgs,
               NEW amount \in Amounts,
               ValidateBucket(b), ValidateAmount(amount), wallet[u] >= amount
        PROVE  BetAllowed(m, u, b, amount) <=> b # MIN_BUCKET
    <3>1. BettingOpen(m)
      BY <2>1, <2>3, <2>4 DEF BettingOpen
    <3>2. (b \in Playable <=> b # MIN_BUCKET) /\ amount > 0 /\ amount \in Nat
      BY <2>3, <2>4, CinefiConstants
         DEF BucketArgs, ValidateBucket, ValidateAmount, MIN_BUCKET, Playable
    <3>3. m \in created \ resolved /\ now >= terms[m].betting_starts_at
      BY <3>1 DEF BettingOpen
    <3> QED
      BY <2>4, <3>1, <3>2, <3>3, BetFits DEF BetAllowed
  <2>5. CanCloseMarket(market, now) => CloseAllowed(m)
    BY <2>1, <2>3 DEF CloseAllowed
  <2>6. ASSUME CanSubmitScore(market, now), ReportOpen(m), NEW s \in Signers,
               NEW score \in BucketArgs, ValidateBucket(score),
               IsValidOracle(m, s), ~HasAlreadySubmitted(report[m].submissions, s)
        PROVE  ScoreAllowed(m, s, score) <=> score # MIN_BUCKET
    <3>1. OracleWindowOpen(m) /\ m \in closed \ resolved
      <4>1. /\ terms[m].settle_at <= now
            /\ now < terms[m].settle_at + ORACLE_WINDOWS_CLOSE_SECONDS
            /\ m \in closed \ resolved
        BY <2>1, <2>6
      <4> QED
        BY <2>3, <4>1 DEF OracleWindowOpen
    <3>2. score \in Scores <=> score # MIN_BUCKET
      BY <2>3, <2>6 DEF BucketArgs, ValidateBucket, MIN_BUCKET, Scores, Playable
    <3> QED
      BY <2>6, <3>1, <3>2 DEF ScoreAllowed
  <2>7. ASSUME CanResolveMarket(market)
        PROVE  ResolveAllowed(m) <=>
                   /\ report[m].finalized /\ now >= terms[m].settle_at
                   /\ \/ Fee(total_pool[m]) = 0
                      \/ /\ VaultDebitable
                         /\ treasury_open \/ treasury + Fee(total_pool[m]) >= TreasuryRent
    <3>1. m \in closed \ resolved
      BY <2>1, <2>7
    <3>2. CASE report[m].finalized /\ now >= terms[m].settle_at
      BY <2>2, <3>1, <3>2, FeeNeedsVault
    <3>3. CASE ~(report[m].finalized /\ now >= terms[m].settle_at)
      BY <3>3 DEF ResolveAllowed, Resolvable
    <3> QED
      BY <3>2, <3>3
  <2>8. ASSUME CanClaimReward(market, now), NEW u \in Users, NEW b \in Playable,
               position[m][<<u, b>>].amount > 0, Payout(m, u, b) > 0
        PROVE  /\ ClaimAllowed(m, u, b) <=> Wins(m, b) /\ VaultDebitable
               /\ IsWinningBucket(b, outcome[m].final_outcome, terms[m].radius)
                      <=> ~outcome[m].fallback_used
    <3>1. m \in resolved \ reclaimed /\ ClaimWindowOpen(m)
      BY <2>1, <2>8 DEF ClaimWindowOpen
    <3>2. ClaimAllowed(m, u, b) <=> Wins(m, b) /\ VaultPays(m, Payout(m, u, b))
      BY <2>8, <3>1 DEF ClaimAllowed
    <3>3. b \in Buckets
      BY BucketsFinite
    <3>4. Wins(m, b) => (VaultPays(m, Payout(m, u, b)) <=> VaultDebitable)
      <4>1. Wins(m, b) => Due(m, <<u, b>>) > 0
        BY <2>8 DEF Due
      <4> QED
        BY <2>2, <3>1, <3>3, <4>1, UnsweptPays
    <3>5. IsWinningBucket(b, outcome[m].final_outcome, terms[m].radius)
              <=> ~outcome[m].fallback_used
      BY <2>8, <3>1, PaidInsideRadius
    <3> QED
      BY <3>2, <3>4, <3>5
  <2>9. ASSUME CanReclaimPool(market, now) PROVE ReclaimAllowed(m) <=> VaultDebitable
    <3>1. Reclaimable(m)
      BY <2>1, <2>3, <2>9 DEF Reclaimable
    <3>2. vault[m] - VaultRent \in Nat
      <4>1. m \in resolved \ reclaimed
        BY <3>1 DEF Reclaimable
      <4>2. Held(m) = vault[m] - VaultRent
        BY <4>1 DEF Held
      <4> QED
        BY <2>2, <4>2, HeldType DEF HeldNat
    <3>3. vault[m] \in Nat /\ treasury \in Nat /\ VaultRent \in Nat /\ TreasuryRent \in Nat
      BY <2>2, CinefiConstants DEF TypeOK
    <3>4. VaultPays(m, vault[m]) <=> VaultDebitable
      BY <3>3 DEF VaultPays, RentExempt
    <3>5. TreasuryTakes(vault[m]) /\ vault[m] > 0
      BY <3>2, <3>3 DEF TreasuryTakes, RentExempt
    <3> QED
      BY <3>1, <3>4, <3>5 DEF ReclaimAllowed
  <2> QED
    BY <2>4, <2>5, <2>6, <2>7, <2>8, <2>9 DEF market
<1> QED
  BY <1>1, VaultsAlways, MoneyAlways, UnhinderedAlways, SettlementCorrect, PTL
----------------------------------------------------------------------------
(* The day of betting. *)

\* The days that remain, rounded up, and those that have passed, rounded down, add up.
LEMMA DaysAddUp ==
    ASSUME NEW e \in Nat, NEW n \in Nat, e <= SECONDS_PER_DAY * n
    PROVE  DaysLeft(SECONDS_PER_DAY * n - e) = n - e \div SECONDS_PER_DAY
<1> DEFINE s == SECONDS_PER_DAY
           k == e \div s
           a == s * n - e + s - 1
<1>1. s \in Nat \ {0}
  BY WeightConstants
<1>2. k \in Int /\ s * k <= e /\ e < s * k + s
  BY <1>1, Division
<1>3. s * n \in Int /\ s * (n - k) = s * n - s * k /\ s * k \in Int
  BY <1>1, <1>2
<1> HIDE DEF s, k
<1>4. a \in Int /\ s * (n - k) <= a /\ a < s * (n - k) + s /\ n - k \in Int
  BY <1>1, <1>2, <1>3
<1>5. a \div s = n - k
  BY <1>1, <1>4, QuotientUnique
<1> QED
  BY <1>5 DEF DaysLeft, s, k

\* Betting lasts as long as create_market says, for ever.
BettingLasts ==
    \A m \in created : terms[m].betting_closes_at
        = terms[m].betting_starts_at + BETTING_DURATION_DAYS * SECONDS_PER_DAY

LEMMA BettingLastsNext == TypeOK /\ BettingLasts /\ [Next]_vars => BettingLasts'
<1> SUFFICES ASSUME TypeOK, BettingLasts, [Next]_vars, NEW m \in created'
             PROVE  terms'[m].betting_closes_at
                      = terms'[m].betting_starts_at + BETTING_DURATION_DAYS * SECONDS_PER_DAY
  BY DEF BettingLasts
<1>1. CASE m \in created
  BY <1>1, StagesKept DEF StagesKeep, BettingLasts
<1>2. CASE m \notin created
  <2>1. PICK d \in StartDelays, r \in Radii, set \in OracleSets, t \in Thresholds :
            CreateMarket(m, d, r, set, t)
    BY <1>2, OnlyCreates
  <2>2. terms'[m] = MarketTerms(d, r, set, t)
    BY <2>1 DEF CreateMarket
  <2> QED
    BY <2>2 DEF MarketTerms
<1> QED
  BY <1>1, <1>2

\* The client and the program weigh a bet by the same day.
LEMMA SameDay ==
    ASSUME TypeOK, BettingLasts, NEW m \in created, BettingOpen(m)
    PROVE  GetTimeMultiplier(BETTING_DURATION_DAYS + 1 - CalculateDaysRemaining(m))
               = TimeMultiplier(DayIndex(now, terms[m].betting_starts_at))
<1> DEFINE n == BETTING_DURATION_DAYS
           s == SECONDS_PER_DAY
           start == terms[m].betting_starts_at
           e == now - start
           k == e \div s
           left == DaysLeft(s * n - e)
<1>0. n \in Nat \ {0} /\ s \in Nat \ {0}
  BY WeightConstants
<1>1. start \in Int /\ now \in Int /\ terms[m].betting_closes_at \in Int
  BY DEF TypeOK, Terms
<1>2. /\ terms[m].betting_closes_at = start + n * s /\ n * s = s * n /\ s * n \in Int
      /\ now >= start /\ now <= terms[m].betting_closes_at
  BY <1>0 DEF BettingLasts, BettingOpen
<1>3. e \in Nat /\ e <= s * n
  BY <1>1, <1>2
<1>4. left = n - k
  BY <1>0, <1>3, DaysAddUp
<1>5. k \in Int /\ s * k <= e /\ e < s * k + s
  <2> HIDE DEF n, s, e
  <2>1. e \in Int
    BY <1>3
  <2> QED
    BY <1>0, <2>1, Division
<1>6. CalculateDaysRemaining(m) = AtLeast(1, AtMost(left, n))
  <2>1. terms[m].betting_closes_at - start = s * n
    BY <1>1, <1>2
  <2>2. AtLeast(0, s * n - e) = s * n - e
    BY <1>2, <1>3 DEF AtLeast
  <2> QED
    BY <2>1, <2>2 DEF CalculateDaysRemaining
<1>7. DayIndex(now, start) = IF k < n THEN k ELSE n - 1
  BY DEF DayIndex
<1> HIDE DEF n, s, start, e, k, left
<1>8. k >= 0 /\ k <= n
  <2>1. k >= 0
    <3>1. SUFFICES ASSUME k <= -1 PROVE FALSE
      BY <1>5
    <3>2. s * k <= s * (-1)
      BY <1>0, <1>5, <3>1
    <3> QED
      BY <1>0, <1>3, <1>5, <3>2
  <2>2. k <= n
    <3>1. SUFFICES ASSUME k >= n + 1 PROVE FALSE
      BY <1>0, <1>5
    <3>2. s * k >= s * (n + 1)
      BY <1>0, <1>5, <3>1
    <3>3. s * (n + 1) = s * n + s
      BY <1>0
    <3> QED
      BY <1>0, <1>2, <1>3, <1>5, <3>2, <3>3
  <2> QED
    BY <2>1, <2>2
<1>9. AtLeast(1, AtMost(left, n)) = IF k < n THEN n - k ELSE 1
  BY <1>0, <1>4, <1>5, <1>8 DEF AtLeast, AtMost
<1>10. n + 1 - CalculateDaysRemaining(m) = DayIndex(now, start) + 1
  BY <1>0, <1>5, <1>6, <1>7, <1>8, <1>9
<1> QED
  BY <1>10 DEF GetTimeMultiplier, TimeMultiplier, n, start

\* At every second of betting the multiplier that the client shows is the one that the
\* program applies, whatever the number and the length of the days.
THEOREM DaysAgree == Spec => []ClientDayAgrees
<1>1. Init => BettingLasts
  BY DEF Init, BettingLasts
<1>2. TypeOK /\ BettingLasts => ClientDayAgrees
  BY SameDay DEF ClientDayAgrees
<1> QED
  BY <1>1, <1>2, BettingLastsNext, TypeCorrect, PTL DEF Spec
----------------------------------------------------------------------------
(* What the indexer fetches. *)

\* What is indexed of a market is what a step leaves alone if it leaves its fields alone.
LEMMA MarketAccountFrame ==
    ASSUME NEW x, x \in created' <=> x \in created, x \in closed' <=> x \in closed,
           x \in resolved' <=> x \in resolved, x \in reclaimed' <=> x \in reclaimed,
           x \in created => terms'[x] = terms[x], outcome'[x] = outcome[x],
           pool'[x] = pool[x], weighted_pool'[x] = weighted_pool[x],
           total_pool'[x] = total_pool[x]
    PROVE  MarketAccount(x)' = MarketAccount(x)
<1>1. /\ (x \in closed') = (x \in closed) /\ (x \in resolved') = (x \in resolved)
      /\ (x \in reclaimed') = (x \in reclaimed)
  OBVIOUS
<1> QED
  BY <1>1, Zenon DEF MarketAccount

LEMMA ReportAccountFrame ==
    ASSUME NEW x, x \in created' <=> x \in created, report'[x] = report[x]
    PROVE  ReportAccount(x)' = ReportAccount(x)
  BY DEF ReportAccount

\* The handlers fetch these, by the places of the accounts.
LEMMA FetchedOf ==
    ASSUME NEW ix
    PROVE  /\ ix.name = "createMarket"  => Fetched(ix) = { ix.accounts[2], ix.accounts[4] }
           /\ ix.name = "placeBet"      => Fetched(ix) = { ix.accounts[2], ix.accounts[3] }
           /\ ix.name = "closeMarket"   => Fetched(ix) = { ix.accounts[2] }
           /\ ix.name = "submitScore"   => Fetched(ix) = { ix.accounts[3] }
           /\ ix.name = "resolveMarket" => Fetched(ix) = { ix.accounts[2], ix.accounts[3] }
           /\ ix.name = "claimReward"   => Fetched(ix) = { ix.accounts[3] }
           /\ ix.name = "reclaimPool"   => Fetched(ix) = { ix.accounts[2] }
  BY DEF Fetched, CreateMarketFetches, PlaceBetFetches, CloseMarketFetches,
         SubmitScoreFetches, ResolveMarketFetches, ClaimRewardFetches, ReclaimPoolFetches

\* What an accepted call changes.
LEMMA TouchesOnly ==
    ASSUME TypeOK, NEW ix, NEW m \in Markets, Calls(ix, m), Execute(ix)
    PROVE  /\ \A x \in Markets : MarketAccount(x)' # MarketAccount(x)
                                 => DeriveMarketPDA(x) \in Fetched(ix)
           /\ \A x \in Markets : ReportAccount(x)' # ReportAccount(x)
                                 => DeriveOracleReportPDA(DeriveMarketPDA(x)) \in Fetched(ix)
           /\ \A x \in Markets : \A u \in Users : \A b \in Buckets :
                 position'[x][<<u, b>>] # position[x][<<u, b>>]
                    => DeriveUserPositionPDA(u, DeriveMarketPDA(x), b) \in Fetched(ix)
<1>0. /\ MarketOf(ix) = m /\ ix.accounts[2] = DeriveMarketPDA(m)
      /\ position \in [Markets -> [Positions -> Position]]
      /\ report \in [Markets -> Report]
      /\ \A u \in Users : \A b \in Buckets : <<u, b>> \in Positions
  BY CallParameters DEF Calls, TypeOK, Positions
<1>1. CASE ix.name = "createMarket"
  <2>1. Fetched(ix) = { DeriveMarketPDA(m), DeriveOracleReportPDA(DeriveMarketPDA(m)) }
    BY <1>0, <1>1, FetchedOf DEF Calls
  <2>2. PICK d, r, set, t : CreateMarket(m, d, r, set, t)
    BY <1>0, <1>1, ExecuteSteps
  <2>3. /\ \A x \in Markets \ {m} : x \in created' <=> x \in created
        /\ \A x \in created \ {m} : terms'[x] = terms[x]
        /\ \A x \in Markets \ {m} : report'[x] = report[x]
        /\ UNCHANGED << closed, resolved, reclaimed, pool, weighted_pool, total_pool, outcome,
                        position >>
    BY <2>2 DEF CreateMarket, TypeOK
  <2>4. \A x \in Markets \ {m} : MarketAccount(x)' = MarketAccount(x)
    BY <2>3, MarketAccountFrame
  <2>5. \A x \in Markets \ {m} : ReportAccount(x)' = ReportAccount(x)
    BY <2>3, ReportAccountFrame
  <2> QED
    BY <2>1, <2>3, <2>4, <2>5
<1>2. CASE ix.name = "placeBet"
  <2>1. PICK u \in Users, b \in BucketArgs, amount \in Amounts :
            /\ SignerOf(ix) = u /\ ix.args = << b, amount >>
            /\ ix.accounts[3] = DeriveUserPositionPDA(u, DeriveMarketPDA(m), b)
    BY <1>2, CallParameters
  <2>2. Fetched(ix) = { DeriveMarketPDA(m), DeriveUserPositionPDA(u, DeriveMarketPDA(m), b) }
    BY <1>0, <1>2, <2>1, FetchedOf
  <2>3. PlaceBet(m, u, b, amount)
    <3>1. PlaceBet(MarketOf(ix), SignerOf(ix), ix.args[1], ix.args[2])
      BY <1>2, ExecuteSteps
    <3> QED
      BY <1>0, <2>1, <3>1
  <2>4. /\ UNCHANGED << created, closed, resolved, reclaimed, terms, outcome, report >>
        /\ \A x \in Markets \ {m} : /\ pool'[x] = pool[x] /\ total_pool'[x] = total_pool[x]
                                     /\ weighted_pool'[x] = weighted_pool[x]
    BY <2>3 DEF PlaceBet, flags, TypeOK
  <2>5. \A x \in Markets : \A v \in Users : \A y \in Buckets :
            position'[x][<<v, y>>] # position[x][<<v, y>>] => x = m /\ v = u /\ y = b
    <3>1. \E w : position' = [ position EXCEPT ![m][<<u, b>>] = w ]
      BY <2>3 DEF PlaceBet
    <3> QED
      BY <1>0, <3>1
  <2>6. \A x \in Markets \ {m} : MarketAccount(x)' = MarketAccount(x)
    BY <2>4, MarketAccountFrame
  <2>7. \A x \in Markets : ReportAccount(x)' = ReportAccount(x)
    BY <2>4, ReportAccountFrame
  <2> QED
    BY <2>2, <2>5, <2>6, <2>7
<1>3. CASE ix.name \in { "closeMarket", "resolveMarket", "reclaimPool" }
  <2>1. DeriveMarketPDA(m) \in Fetched(ix)
    BY <1>0, <1>3, FetchedOf
  <2>2. CloseMarket(m) \/ ResolveMarket(m) \/ ReclaimPool(m)
    BY <1>0, <1>3, ExecuteSteps
  <2>3. UNCHANGED << created, terms, pool, weighted_pool, total_pool, report, position >>
    BY <2>2 DEF CloseMarket, ResolveMarket, ReclaimPool, marketVars
  <2>4. \A x \in Markets \ {m} : /\ x \in closed' <=> x \in closed
                                 /\ x \in resolved' <=> x \in resolved
                                 /\ x \in reclaimed' <=> x \in reclaimed
                                 /\ outcome'[x] = outcome[x]
    BY <2>2 DEF CloseMarket, ResolveMarket, ReclaimPool, marketVars, TypeOK
  <2>5. \A x \in Markets \ {m} : MarketAccount(x)' = MarketAccount(x)
    BY <2>3, <2>4, MarketAccountFrame
  <2>6. \A x \in Markets : ReportAccount(x)' = ReportAccount(x)
    BY <2>3, ReportAccountFrame
  <2> QED
    BY <2>1, <2>3, <2>5, <2>6
<1>4. CASE ix.name = "submitScore"
  <2>1. Fetched(ix) = { DeriveOracleReportPDA(DeriveMarketPDA(m)) }
    BY <1>4, FetchedOf DEF Calls
  <2>2. PICK s, score : SubmitScore(m, s, score)
    BY <1>0, <1>4, ExecuteSteps
  <2>3. /\ UNCHANGED << created, closed, resolved, reclaimed, terms, pool, weighted_pool,
                        total_pool, outcome, position >>
        /\ \A x \in Markets \ {m} : report'[x] = report[x]
    BY <2>2 DEF SubmitScore, flags, marketVars, TypeOK
  <2>4. \A x \in Markets : MarketAccount(x)' = MarketAccount(x)
    BY <2>3, MarketAccountFrame
  <2>5. \A x \in Markets \ {m} : ReportAccount(x)' = ReportAccount(x)
    BY <2>3, ReportAccountFrame
  <2> QED
    BY <2>1, <2>3, <2>4, <2>5
<1>5. CASE ix.name = "claimReward"
  <2>1. PICK u \in Users, b \in Buckets :
            /\ SignerOf(ix) = u /\ ClaimedBucket(ix) = b
            /\ ix.accounts[3] = DeriveUserPositionPDA(u, DeriveMarketPDA(m), b)
    BY <1>5, CallParameters
  <2>2. Fetched(ix) = { DeriveUserPositionPDA(u, DeriveMarketPDA(m), b) }
    BY <1>5, <2>1, FetchedOf
  <2>3. ClaimReward(m, u, b)
    BY <1>0, <1>5, <2>1, ExecuteSteps
  <2>4. /\ UNCHANGED << created, closed, resolved, reclaimed, terms, pool, weighted_pool,
                        total_pool, outcome, report >>
        /\ position' = [ position EXCEPT ![m][<<u, b>>] = NoPosition ]
    BY <2>3 DEF ClaimReward, flags, marketVars
  <2>5. \A x \in Markets : \A v \in Users : \A y \in Buckets :
            position'[x][<<v, y>>] # position[x][<<v, y>>] => x = m /\ v = u /\ y = b
    BY <1>0, <2>4
  <2>6. \A x \in Markets : MarketAccount(x)' = MarketAccount(x)
    BY <2>4, MarketAccountFrame
  <2>7. \A x \in Markets : ReportAccount(x)' = ReportAccount(x)
    BY <2>4, ReportAccountFrame
  <2> QED
    BY <2>2, <2>5, <2>6, <2>7
<1> QED
  BY <1>1, <1>2, <1>3, <1>4, <1>5, NamedCalls

LEMMA TreasuryTouchesNothing ==
    ASSUME InitializeTreasury
    PROVE  ChangedAccounts = {}
<1>1. UNCHANGED << created, closed, resolved, reclaimed, terms, pool, weighted_pool, total_pool,
                   outcome, report, position >>
  BY DEF InitializeTreasury, flags, marketVars
<1>2. \A x \in Markets : /\ MarketAccount(x)' = MarketAccount(x)
                         /\ ReportAccount(x)' = ReportAccount(x)
  BY <1>1, MarketAccountFrame, ReportAccountFrame
<1> QED
  BY <1>1, <1>2 DEF ChangedAccounts

\* Whatever instruction lands, the handler that the indexer has for it fetches every
\* account that the instruction changed.
THEOREM HandlersFetch == ClientSpec => HandlersFetchChanges
<1>1. TypeOK /\ ClientInv /\ [ClientNext]_clientVars =>
          [ At({"sent"}) /\ client'.phase = "done" =>
                ChangedAccounts \subseteq Fetched(client.ix) ]_clientVars
  <2>1. SUFFICES ASSUME TypeOK, ClientInv, [ClientNext]_clientVars, At({"sent"}),
                        client'.phase = "done"
                 PROVE  ChangedAccounts \subseteq Fetched(client.ix)
    OBVIOUS
  <2>2. Landed
    BY <2>1 DEF ClientNext, At, Others, clientVars, ReadMarket, ListPositions, PositionListed,
                SendInitializeTreasury, SendCreateMarket, SendPlaceBet, SendCloseMarket,
                SendSubmitScore, SendResolveMarket, SendClaimReward, SendReclaimPool,
                Send, Refused, Expires
  <2>3. PICK ix : ix = client.ix
    OBVIOUS
  <2>4. Called(ix) /\ Execute(ix)
    BY <2>1, <2>2, <2>3 DEF Landed, ClientInv, SentStands
  <2>5. CASE ix.name = "initializeTreasury"
    BY <2>4, <2>5, ExecuteSteps, TreasuryTouchesNothing
  <2>6. ASSUME NEW m \in Markets, Calls(ix, m) PROVE ChangedAccounts \subseteq Fetched(client.ix)
    <3>1. SUFFICES ASSUME NEW a \in ChangedAccounts PROVE a \in Fetched(ix)
      BY <2>3
    <3>2. CASE \E x \in Markets : MarketAccount(x)' # MarketAccount(x) /\ a = DeriveMarketPDA(x)
      BY <2>1, <2>4, <2>6, <3>2, TouchesOnly
    <3>3. CASE \E x \in Markets : /\ ReportAccount(x)' # ReportAccount(x)
                                  /\ a = DeriveOracleReportPDA(DeriveMarketPDA(x))
      BY <2>1, <2>4, <2>6, <3>3, TouchesOnly
    <3>4. CASE \E y \in Markets \X Positions :
                  /\ position[y[1]][y[2]]' # position[y[1]][y[2]]
                  /\ a = DeriveUserPositionPDA(y[2][1], DeriveMarketPDA(y[1]), y[2][2])
      <4>1. PICK x \in Markets, q \in Positions :
                /\ position'[x][q] # position[x][q]
                /\ a = DeriveUserPositionPDA(q[1], DeriveMarketPDA(x), q[2])
        BY <3>4
      <4>2. PICK u \in Users, b \in Buckets : q = << u, b >>
        BY DEF Positions
      <4> QED
        BY <2>1, <2>4, <2>6, <4>1, <4>2, TouchesOnly
    <3> QED
      BY <3>1, <3>2, <3>3, <3>4 DEF ChangedAccounts
  <2> QED
    BY <2>3, <2>4, <2>5, <2>6 DEF Called
<1> QED
  BY <1>1, ClientAlways, PTL DEF ClientSpec, HandlersFetchChanges
=============================================================================
