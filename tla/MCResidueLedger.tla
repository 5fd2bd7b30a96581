---------------------------- MODULE MCResidueLedger ----------------------------
(* One cluster is enough: rows of different clusters share nothing.  Two    *)
(* requests overlap; their bodies may blank a justification, not an owner. *)
EXTENDS ResidueLedger, TLC

CONSTANTS c1, c2, o1

MCClusters == {"cluster"}
MCHash == [i \in MCClusters |-> "hash"]
MCClients == {c1, c2}
MCTexts == {"reason"}
MCOccurrences == {o1}
MCBodies ==
    {p \in Patch : p.owner # "blank" /\ (p.owner # None => p.justification # None)}
MCTargets == {"t1"}
MCSymmetry == Permutations(MCClients)
=============================================================================
