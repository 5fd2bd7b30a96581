-------------------------- MODULE MCTargetScheduler --------------------------
(* One target and three requests that may overlap on it.  A schedule is    *)
(* five cron fields, five fields that no cron accepts, or a compact        *)
(* interval such as "10m", which matches no branch of _parse_trigger and   *)
(* falls through to its hourly default.                                    *)
EXTENDS TargetScheduler, TLC

CONSTANTS t1, h1, h2, h3

MCTargets == {t1}
MCThree == {h1, h2, h3}

MCParsed == [cron |-> "cron", badcron |-> None, compact |-> "hourly"]
MCSchedules == DOMAIN MCParsed

Symmetry == Permutations(MCThree)
=============================================================================
