------------------------------ MODULE MCDebtStore ------------------------------
(* Two commands at a time, on two clusters.  A reason and an owner may each *)
(* be blank or not.                                                         *)
EXTENDS DebtStore, TLC

CONSTANTS p1, p2, k1, k2

MCProcesses == {p1, p2}
MCHashes == {k1, k2}
MCPhrases == {"", "words"}
MCSymmetry == Permutations(MCProcesses) \cup Permutations(MCHashes)
=============================================================================
