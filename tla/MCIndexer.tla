------------------------------ MODULE MCIndexer ------------------------------
(* Constants of the model-checking runs of Indexer. *)
EXTENDS IndexerProperties

CONSTANTS o1, o2

MCOracleSets  == { << o1, o2, o2 >> }
MCMultipliers == << 1000 >>
MCDelays      == { 0 }
MCRequests    == Permutations(Requests)
============================================================================
