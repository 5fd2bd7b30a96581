---------------------------- MODULE ScanRegistry ----------------------------
(***************************************************************************)
(* What GET /api/v1/scans/{id} promises about one scan id, whatever        *)
(* pipeline (REST scan, upload, target scan) produced it: the entry is     *)
(* registered once, concluded at most once as done or failed, and a        *)
(* concluded entry never changes.  The one blemish the implementation      *)
(* forces into the promise is "replacing": the registered row is taken     *)
(* away before the concluded one is written, and an interruption there     *)
(* loses the entry for good.                                               *)
(***************************************************************************)
CONSTANT Scans      \* scan ids

(* entry[s]: none, scanning, replacing, lost, done or failed. *)
VARIABLE entry      \* entry[s]: what a client that polls scan s can learn

Concluded == {"done", "failed"}

RegistryInit == entry = [s \in Scans |-> "none"]

Become(s, from, to) ==
    /\ entry[s] = from
    /\ entry' = [entry EXCEPT ![s] = to]

Register(s) == Become(s, "none", "scanning")

Withdraw(s) == Become(s, "scanning", "replacing")

Conclude(s) == \E c \in Concluded : Become(s, "replacing", c)

Forfeit(s) == Become(s, "replacing", "lost")

(* The process dies: every entry that was being replaced is lost at once. *)
Interrupt ==
    entry' = [s \in Scans |-> IF entry[s] = "replacing" THEN "lost" ELSE entry[s]]

(* The next process concludes every entry its predecessor left scanning. *)
Reconcile ==
    /\ \A s \in Scans : entry[s] # "replacing"
    /\ entry' = [s \in Scans |-> IF entry[s] = "scanning" THEN "failed" ELSE entry[s]]

RegistryNext ==
    \/ \E s \in Scans : Register(s) \/ Withdraw(s) \/ Conclude(s) \/ Forfeit(s)
    \/ Interrupt
    \/ Reconcile

RegistrySpec == RegistryInit /\ [][RegistryNext]_entry
=============================================================================
