--------------------------- MODULE MCScanPipeline ---------------------------
(* ScanPipeline on a small instance: scan ids that compete for one target.  *)
EXTENDS ScanPipeline, TLC

CONSTANTS s1, s2, t1, f1, f2

MCScans == {s1, s2}
MCTargets == {t1}
MCFindings == {f1, f2}
MCOneFinding == {f1}
MCCritical == {f1}
=============================================================================
