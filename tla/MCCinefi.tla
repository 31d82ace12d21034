------------------------------ MODULE MCCinefi ------------------------------
(* Constants of the model-checking runs of Cinefi. *)
EXTENDS CinefiLiveness, CinefiDocs, CinefiEscrow, ClientState, TLC

CONSTANTS u1, u2, o1, o2, o3, o4

\* Every order of three distinct keys, so that permuting them is a symmetry.
MCDistinct      == { s \in [1..3 -> {o1, o2, o3}] : \A i, j \in 1..3 : s[i] = s[j] => i = j }
MCInOrder       == { << o1, o2, o3 >> }
MCOracleSets    == { << o1, o2, o3 >>, << o1, o1, o2 >> }

MCMultipliers   == << 1000, 400 >>

MCDelays        == { 0 }
MCShiftedDelays == { -1, 0, 1 }

MCSymmetry      == Permutations(Users) \cup Permutations({o1, o2, o3})
============================================================================
