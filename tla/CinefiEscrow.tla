---------------------------- MODULE CinefiEscrow ----------------------------
(***************************************************************************)
(* The cinefi program implements Escrow: the refinement mapping.  A vault  *)
(* holds the pot on top of its rent, the shares are what claim_reward would*)
(* pay, and a market is stuck when its oracles dissented or missed their   *)
(* window: submit_score refuses every further score, resolve_market the    *)
(* resolution, and no other instruction returns the stakes.                *)
(***************************************************************************)
EXTENDS CinefiSafety

OracleWindowMissed(m) == now > terms[m].settle_at + ORACLE_WINDOWS_CLOSE_SECONDS

Stuck(m) == report[m].disputed \/ (~report[m].finalized /\ OracleWindowMissed(m))

StageOf(m) ==
    IF m \notin created       THEN "none"
    ELSE IF m \in reclaimed   THEN "swept"
    ELSE IF m \in resolved    THEN "settled"
    ELSE IF Stuck(m)          THEN "stuck"
    ELSE IF report[m].finalized THEN "agreed"
    ELSE IF m \in closed      THEN "closed"
    ELSE "open"

PotOf(m)   == IF m \in created \ reclaimed THEN vault[m] - VaultRent ELSE 0
SharesOf(m) ==
    [ p \in Positions |-> IF m \in resolved \ reclaimed THEN Due(m, p) ELSE 0 ]

stageBar == [ m \in Markets |-> StageOf(m) ]
potBar   == [ m \in Markets |-> PotOf(m) ]
shareBar == [ m \in Markets |-> SharesOf(m) ]

E == INSTANCE Escrow WITH
        stage <- stageBar, pot <- potBar, share <- shareBar,
        purse <- wallet, house <- treasury,
        Slots <- Positions, FeeBps <- DEFAULT_PROTOCOL_FEE_BPS, Rent <- VaultRent

\* Whatever creators, bettors, oracles and keepers do, the money moves as in an
\* escrow: stakes come in only while no score is known, one fee leaves, shares are
\* fixed at the settlement and paid once each, and a stuck market (dissent, or the
\* hour of submit_score.rs:15 missed) keeps its pot for ever.
EscrowKept == E!Spec
============================================================================
