----------------------------- MODULE ClientCalls -----------------------------
(***************************************************************************)
(* The calls of the client (app/contract): the addresses it derives, the   *)
(* accounts each instruction takes and the builders.                       *)
(***************************************************************************)
EXTENDS ClientState

CONSTANT CallerGives    \* accounts the caller names himself, as the tests do

ASSUME ClientConstants == CallerGives \subseteq {"market"}
----------------------------------------------------------------------------
(* Addresses (pdas/index.ts): a hash of seeds is the tuple of the seeds. *)

DeriveMarketPDA(mediaId) == << "market_seed", mediaId >>
DeriveVaultPDA(marketKey) == << "vault_seed", marketKey >>
DeriveTreasuryPDA == << "treasury_seed" >>
DeriveOracleReportPDA(marketKey) == << "oracle_report_seed", marketKey >>

DeriveUserPositionPDA(userKey, marketKey, bucket) ==
    << "position_seed", userKey, marketKey, bucket >>
----------------------------------------------------------------------------
(* The accounts of each instruction in their order on the wire, each with what its
   address follows from (cinefi.ts): nothing, so that the caller has to name it; an
   argument or constants alone; or the account market, itself one of them. *)

ClaimRewardAccounts ==
    << <<"user", "caller">>, <<"market", "market">>, <<"userPosition", "caller">>,
       <<"vault", "market">>, <<"systemProgram", "alone">> >>

CloseMarketAccounts == << <<"caller", "caller">>, <<"market", "market">> >>

CreateMarketAccounts ==
    << <<"creator", "caller">>, <<"market", "alone">>, <<"vault", "market">>,
       <<"oracleReport", "market">>, <<"systemProgram", "alone">> >>

InitializeTreasuryAccounts ==
    << <<"authority", "caller">>, <<"treasury", "alone">>, <<"systemProgram", "alone">> >>

PlaceBetAccounts ==
    << <<"user", "caller">>, <<"market", "market">>, <<"userPosition", "caller">>,
       <<"vault", "market">>, <<"systemProgram", "alone">> >>

ReclaimPoolAccounts ==
    << <<"caller", "caller">>, <<"market", "market">>, <<"vault", "market">>,
       <<"treasury", "alone">>, <<"systemProgram", "alone">> >>

ResolveMarketAccounts ==
    << <<"caller", "caller">>, <<"market", "market">>, <<"oracleReport", "market">>,
       <<"vault", "market">>, <<"treasury", "alone">>, <<"systemProgram", "alone">> >>

SubmitScoreAccounts ==
    << <<"oracleSigner", "caller">>, <<"market", "market">>, <<"oracleReport", "market">>,
       <<"systemProgram", "alone">> >>

(* External: Anchor finds the accounts that are not named.  The seeds of market
   include a field of market, so that only create_market, which takes the media
   id as an argument, finds it by itself. *)

Given(mediaId, named) ==
    [ n \in CallerGives \cup DOMAIN named |->
        IF n \in CallerGives THEN DeriveMarketPDA(mediaId) ELSE named[n] ]

Found(accounts, given) ==
    LET alone == DOMAIN given \cup { a[1] : a \in { x \in Range(accounts) : x[2] = "alone" } }
    IN  alone \cup { a[1] : a \in { x \in Range(accounts) : x[2] \in alone } }

Resolves(accounts, given) == \A a \in Range(accounts) : a[1] \in Found(accounts, given)

AddressOf(name, mediaId) ==
    LET market == DeriveMarketPDA(mediaId)
    IN  CASE name = "market"        -> market
          [] name = "vault"         -> DeriveVaultPDA(market)
          [] name = "oracleReport"  -> DeriveOracleReportPDA(market)
          [] name = "treasury"      -> DeriveTreasuryPDA
          [] name = "systemProgram" -> "system_program"

\* The instruction with its accounts, or no instruction at all.
Instruction(name, accounts, mediaId, named, args) ==
    LET given == Given(mediaId, named)
    IN  IF ~Resolves(accounts, given) THEN Null ELSE
        [ exists |-> TRUE, name |-> name, args |-> args,
          accounts |-> [ i \in 1..Len(accounts) |->
              IF accounts[i][1] \in DOMAIN given THEN given[accounts[i][1]]
              ELSE AddressOf(accounts[i][1], mediaId) ] ]
----------------------------------------------------------------------------
(* The builders (instructions/): checks of arguments, addresses, accounts. *)

ValidateOracleThreshold(threshold, oracleCount) == 1 <= threshold /\ threshold <= oracleCount

ClaimRewardIx(user, mediaId, bucket) ==
    Instruction("claimReward", ClaimRewardAccounts, mediaId,
                [ user |-> user,
                  userPosition |-> DeriveUserPositionPDA(user, DeriveMarketPDA(mediaId), bucket) ],
                << >>)

CloseMarketIx(caller, mediaId) ==
    Instruction("closeMarket", CloseMarketAccounts, mediaId, [ caller |-> caller ], << >>)

\* A delay of 0 is sent as None, which means the same.
CreateMarketIx(creator, mediaId, bettingStartsAfter, radius, oracleSet, oracleThreshold) ==
    IF ~ValidateOracleThreshold(oracleThreshold, 3) THEN Null ELSE
    Instruction("createMarket", CreateMarketAccounts, mediaId, [ creator |-> creator ],
                << bettingStartsAfter, mediaId, radius, oracleSet, oracleThreshold >>)

InitializeTreasuryIx(authority) ==
    Instruction("initializeTreasury", InitializeTreasuryAccounts, "", [ authority |-> authority ],
                << >>)

PlaceBetIx(user, mediaId, bucket, amount) ==
    IF ~(ValidateBucket(bucket) /\ ValidateAmount(amount)) THEN Null ELSE
    Instruction("placeBet", PlaceBetAccounts, mediaId,
                [ user |-> user,
                  userPosition |-> DeriveUserPositionPDA(user, DeriveMarketPDA(mediaId), bucket) ],
                << bucket, amount >>)

ReclaimPoolIx(reclaimer, mediaId) ==
    Instruction("reclaimPool", ReclaimPoolAccounts, mediaId, [ caller |-> reclaimer ], << >>)

ResolveMarketIx(resolver, mediaId) ==
    Instruction("resolveMarket", ResolveMarketAccounts, mediaId, [ caller |-> resolver ], << >>)

SubmitScoreIx(oracleSigner, mediaId, score) ==
    IF ~ValidateBucket(score) THEN Null ELSE
    Instruction("submitScore", SubmitScoreAccounts, mediaId, [ oracleSigner |-> oracleSigner ],
                << score >>)
============================================================================
