----------------------------- MODULE MCAuditChain -----------------------------
(* Two or three writers; a repeated triage is the handler that may find     *)
(* nothing to flush, a scan start always has its row.                       *)
EXTENDS AuditChain, TLC

CONSTANTS w1, w2, w3

MCWriters == {w1, w2, w3}
MCActions == {"scan.start", "finding.triage"}
MCMayChangeNothing == {"finding.triage"}

Symmetry == Permutations(MCWriters)
=============================================================================
