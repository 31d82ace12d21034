---------------------------- MODULE MCPrizeShares ----------------------------
(* Constants of the model-checking run of PrizeShares. *)
EXTENDS PrizeShares

MCMultipliers == << 1000, 400 >>
============================================================================
