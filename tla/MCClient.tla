------------------------------ MODULE MCClient ------------------------------
(* Constants of the run that composes the client with the program. *)
EXTENDS ClientProperties, CinefiSafety

CONSTANTS o1, o2

MCOracleSets  == { << o1, o2, o2 >> }
MCMultipliers == << 1000, 400 >>
MCDelays      == { 1 }

\* What ClientProofs!OffersAccepted supposes holds here.
ASSUME OffersSuppose == VaultRent > 0 /\ TreasuryRent <= VaultRent /\ WealthFits
============================================================================
