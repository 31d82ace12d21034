------------------------------- MODULE Escrow -------------------------------
(***************************************************************************)
(* What the cinefi program promises about the money it holds, without      *)
(* dates, buckets, weights and oracles: a market is an escrow.  Stakes go   *)
(* in while it is open.  Once a score is agreed the escrow is settled: one *)
(* fee leaves it, and what is left is divided into shares.  A share is     *)
(* paid once, in full and to its owner, in any order; what nobody fetched  *)
(* goes to the house.  An escrow that is stuck keeps its pot for ever.     *)
(***************************************************************************)
EXTENDS Integers, Functions

CONSTANTS
    Markets, Users,
    Slots,          \* pairs whose first component is the owner of a share
    FeeBps,         \* fee in basis points
    Rent            \* what the house gets on top of the pot it sweeps

VARIABLES
    stage,          \* per market: where it is in its life
    pot,            \* per market: lamports staked and still held
    share,          \* per market and slot: what is to be paid
    purse,          \* per user: lamports not staked
    house           \* lamports of the house

escrow == << stage, pot, share, purse, house >>

Stages == { "none", "open", "closed", "agreed", "stuck", "settled", "swept" }

NoShares == [ p \in Slots |-> 0 ]

Init ==
    /\ stage = [ m \in Markets |-> "none" ]
    /\ pot = [ m \in Markets |-> 0 ]
    /\ share = [ m \in Markets |-> NoShares ]
    /\ purse \in [ Users -> Nat ]
    /\ house = 0

\* A market may be created too late ever to be decided.
Open(m) ==
    /\ stage[m] = "none"
    /\ stage' \in { [ stage EXCEPT ![m] = s ] : s \in {"open", "stuck"} }
    /\ UNCHANGED << pot, share, purse, house >>

Stake(m, u, amount) ==
    /\ stage[m] = "open"
    /\ pot' = [ pot EXCEPT ![m] = @ + amount ]
    /\ purse' = [ purse EXCEPT ![u] = @ - amount ]
    /\ UNCHANGED << stage, share, house >>

Close(m) ==
    /\ stage[m] = "open"
    /\ stage' = [ stage EXCEPT ![m] = "closed" ]
    /\ UNCHANGED << pot, share, purse, house >>

\* The oracles' verdict: a score, or a dispute.
Decide(m) ==
    /\ stage[m] = "closed"
    /\ stage' \in { [ stage EXCEPT ![m] = s ] : s \in {"agreed", "stuck"} }
    /\ UNCHANGED << pot, share, purse, house >>

\* Time runs out for some markets that are not decided.
Lapse ==
    /\ \E S \in SUBSET { m \in Markets : stage[m] \in {"open", "closed"} } :
           stage' = [ m \in Markets |-> IF m \in S THEN "stuck" ELSE stage[m] ]
    /\ UNCHANGED << pot, share, purse, house >>

FeeOn(amount) == (amount * FeeBps) \div 10000

Settle(m) ==
    /\ stage[m] = "agreed"
    /\ stage' = [ stage EXCEPT ![m] = "settled" ]
    /\ pot' = [ pot EXCEPT ![m] = @ - FeeOn(pot[m]) ]
    /\ house' = house + FeeOn(pot[m])
    /\ share' = [ share EXCEPT ![m] = share'[m] ]
    /\ share'[m] \in [ Slots -> Nat ]
    /\ SumFunction(share'[m]) <= pot'[m]
    /\ UNCHANGED purse

Pay(m, p) ==
    /\ stage[m] = "settled"
    /\ share[m][p] > 0
    /\ pot' = [ pot EXCEPT ![m] = @ - share[m][p] ]
    /\ purse' = [ purse EXCEPT ![p[1]] = @ + share[m][p] ]
    /\ share' = [ share EXCEPT ![m][p] = 0 ]
    /\ UNCHANGED << stage, house >>

Sweep(m) ==
    /\ stage[m] = "settled"
    /\ stage' = [ stage EXCEPT ![m] = "swept" ]
    /\ pot' = [ pot EXCEPT ![m] = 0 ]
    /\ share' = [ share EXCEPT ![m] = NoShares ]
    /\ house' = house + pot[m] + Rent
    /\ UNCHANGED purse

\* The house is paid in from outside.
Endow ==
    /\ house' >= house
    /\ UNCHANGED << stage, pot, share, purse >>

Next ==
    \/ Lapse
    \/ Endow
    \/ \E m \in Markets :
        \/ Open(m) \/ Close(m) \/ Decide(m) \/ Settle(m) \/ Sweep(m)
        \/ \E u \in Users : \E amount \in 1..purse[u] : Stake(m, u, amount)
        \/ \E p \in Slots : Pay(m, p)

Spec == Init /\ [][Next]_escrow
============================================================================
