---------------------------- MODULE MCFindingStore ----------------------------
(* A new RSA key in an internal service, whose urgency is clamped at five   *)
(* years, and a classically broken hash.                                    *)
EXTENDS FindingStore

CONSTANT p1

MCFindings == {"key", "sha1"}
MCWeight == [key |-> 75, sha1 |-> 50]
MCYears == [key |-> 14, sha1 |-> 12]
MCBroken == {"sha1"}
MCPrivateKeys == {"key"}
MCHorizons == {0, 5, 10}
MCDefault == 10
MCStatuses == {"open", "remediated"}
MCOneProber == {p1}
=============================================================================
