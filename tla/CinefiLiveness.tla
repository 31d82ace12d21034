--------------------------- MODULE CinefiLiveness ---------------------------
(***************************************************************************)
(* Cinefi under the assumption that somebody keeps calling the instructions*)
(* anyone may call.  The program schedules nothing itself: each of these   *)
(* instructions takes any signer, so a single keeper that retries them     *)
(* makes the fairness below true.  Nothing is assumed of users or oracles. *)
(***************************************************************************)
EXTENDS CinefiSafety

Keepers ==
    /\ WF_vars(Tick)
    /\ WF_vars(InitializeTreasury)
    /\ \A m \in Markets :
        /\ WF_vars(CloseMarket(m))
        /\ WF_vars(ResolveMarket(m))
        /\ WF_vars(ReclaimPool(m))

KeeperSpec == Spec /\ Keepers

\* How a market ends whose oracles agreed, however late it is resolved.  With a vault
\* that transfers debit it is swept empty after its deadline, whether its winners claim
\* or not.  With one that they do not, which is what create_market makes, it is resolved
\* if its fee is zero and never if it is not, and keeps its lamports either way.  Markets
\* whose deadline lies beyond the bound on the clock are left out.
AgreedEnds ==
    \A m \in Markets :
        ( /\ m \in created
          /\ report[m].finalized
          /\ terms[m].claim_deadline <= MaxTime )
        ~> [](IF VaultDebitable THEN m \in reclaimed /\ vault[m] = 0
              ELSE /\ m \in resolved <=> Fee(total_pool[m]) = 0
                   /\ vault[m] = VaultRent + total_pool[m])
============================================================================
