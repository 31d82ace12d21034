------------------------------- MODULE Client -------------------------------
(***************************************************************************)
(* A client at work, composed with the program and with everybody else who *)
(* uses it: it reads a market, is told by the predicates what it may do,   *)
(* builds the call and sends it; the call lands later, when the market may *)
(* have moved on, or is given up, and may then still land as one of the    *)
(* steps of the others.                                                    *)
(***************************************************************************)
EXTENDS Replies

VARIABLE client         \* what the client is at

clientVars == << vars, client >>

AnyUser == CHOOSE u \in Users : TRUE

At(phases) == client.phase \in phases

ClientInit == Init /\ client = [ phase |-> "idle" ]
----------------------------------------------------------------------------
(* Reads. *)

Ready == { "idle", "read", "done", "refused", "listed" }

\* Any read may fail: the node refuses it, or no answer comes.
ReadMarket(m) ==
    /\ At(Ready)
    /\ \E failed \in BOOLEAN :
           client' = [ phase |-> "read", of |-> m, market |-> FetchMarket(m, failed) ]
    /\ UNCHANGED vars

FetchUserPosition(user, m, bucket, failed) ==
    IF failed \/ position[m][<< user, bucket >>].amount = 0 THEN Null
    ELSE [ exists |-> TRUE, amount |-> position[m][<< user, bucket >>].amount ]

\* Faulty: a hundred reads, from 0.
ListedBuckets_Hundred == 0 .. MaxBucket - 1

ListedBuckets == 0 .. MaxBucket

\* fetchUserPositionsForMarket sends one read per bucket at once and waits for all;
\* they are answered at different times.  Any one of them is followed.
ListPositions(user, m, bucket) ==
    /\ At({"idle"})
    /\ client' = [ phase |-> "listing", of |-> m, user |-> user, bucket |-> bucket,
                   after_close |-> m \in closed ]
    /\ UNCHANGED vars

\* The field failed is history: the list does not tell a failed read from no position.
PositionListed ==
    /\ At({"listing"})
    /\ \E failed \in BOOLEAN :
           client' = [ phase |-> "listed", of |-> client.of, user |-> client.user,
                       bucket |-> client.bucket, after_close |-> client.after_close,
                       failed |-> failed,
                       entry |-> IF client.bucket \in ListedBuckets
                                 THEN FetchUserPosition(client.user, client.of, client.bucket,
                                                        failed)
                                 ELSE Null ]
    /\ UNCHANGED vars
----------------------------------------------------------------------------
(* Calls. *)

Send(ix) ==
    /\ ix.exists
    /\ client' = [ phase |-> "sent", ix |-> ix ]
    /\ UNCHANGED vars

\* The market as it was read is asked for what it permits at the client's time.
Offered(permits) == At({"read"}) /\ client.market.exists /\ permits

SendInitializeTreasury == At({"idle"}) /\ Send(InitializeTreasuryIx(AnyUser))

SendCreateMarket ==
    /\ At({"idle"})
    /\ \E m \in Markets, d \in StartDelays, r \in Radii, set \in OracleSets, t \in Thresholds :
           Send(CreateMarketIx(AnyUser, m, d, r, set, t))

SendPlaceBet ==
    /\ Offered(IsBettingOpen(client.market, now))
    /\ \E u \in Users, b \in BucketArgs, amount \in Amounts :
           Send(PlaceBetIx(u, client.of, b, amount))

SendCloseMarket ==
    Offered(CanCloseMarket(client.market, now)) /\ Send(CloseMarketIx(AnyUser, client.of))

SendSubmitScore ==
    /\ Offered(CanSubmitScore(client.market, now))
    /\ \E s \in Signers, score \in BucketArgs : Send(SubmitScoreIx(s, client.of, score))

SendResolveMarket ==
    Offered(CanResolveMarket(client.market)) /\ Send(ResolveMarketIx(AnyUser, client.of))

SendClaimReward ==
    /\ Offered(CanClaimReward(client.market, now))
    /\ \E u \in Users, b \in Buckets : Send(ClaimRewardIx(u, client.of, b))

SendReclaimPool ==
    Offered(CanReclaimPool(client.market, now)) /\ Send(ReclaimPoolIx(AnyUser, client.of))

Landed ==
    /\ At({"sent"})
    /\ Refusal(client.ix) = Accepted
    /\ Execute(client.ix)
    /\ client' = [ phase |-> "done", ix |-> client.ix ]

Refused ==
    /\ At({"sent"})
    /\ Refusal(client.ix) # Accepted
    /\ client' = [ phase |-> "refused", name |-> client.ix.name,
                   refused |-> Refusal(client.ix) ]
    /\ UNCHANGED vars

\* No answer came in time.
Expires == At({"sent"}) /\ client' = [ phase |-> "idle" ] /\ UNCHANGED vars

Others == Next /\ UNCHANGED client

ClientNext ==
    \/ Others
    \/ \E m \in Markets : ReadMarket(m)
    \/ \E u \in Users, m \in Markets, b \in Buckets : ListPositions(u, m, b)
    \/ PositionListed
    \/ SendInitializeTreasury \/ SendCreateMarket \/ SendPlaceBet \/ SendCloseMarket
    \/ SendSubmitScore \/ SendResolveMarket \/ SendClaimReward \/ SendReclaimPool
    \/ Landed \/ Refused \/ Expires

ClientSpec == ClientInit /\ [][ClientNext]_clientVars
============================================================================
