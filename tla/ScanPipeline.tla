---------------------------- MODULE ScanPipeline ----------------------------
(***************************************************************************)
(* The scan pipelines of the ECDAT API process and the SQLite tables they  *)
(* write, at the grain of one committed transaction per action.            *)
(*                                                                         *)
(* A scan id is drawn once (uuid4) by the pipeline that uses it, so the    *)
(* pipeline run and its scan share the index s.  Four kinds of pipeline    *)
(* call the same store functions:                                          *)
(*   "api"     POST /scans             on the event loop                   *)
(*   "upload"  POST /scans/upload      on the event loop, with awaits      *)
(*   "now"     POST /targets/{}/scan-now   in a pool thread                *)
(*   "cron"    the APScheduler job     in a scheduler thread               *)
(* The process may die between any two transactions; its successor runs    *)
(* recover_interrupted_scans before it serves anything.                    *)
(***************************************************************************)
EXTENDS Naturals, FiniteSets

CONSTANTS Scans,       \* scan ids
          Targets,     \* registered target ids
          Findings,    \* the findings one engine run may report
          Critical,    \* those scored critical
          None,        \* "no target", "no scan"
          MaxCrashes,  \* bound: process deaths
          MaxErrors    \* bound: database or ingest exceptions

ASSUME NoneFresh == None \notin Targets /\ None \notin Scans
ASSUME FindingsAssumption == IsFiniteSet(Findings) /\ Critical \subseteq Findings
ASSUME BoundsAssumption == MaxCrashes \in Nat /\ MaxErrors \in Nat

VARIABLES
    (* tables *)
    scans,       \* scans[s]: status column of the row of s, or "absent"
    findings,    \* findings[s]: finding rows of s
    events,      \* events[s]: type of the last event stored for s, or "none"
    certs,       \* scans with a coverage certificate
    targets,     \* existing target rows
    lastScan,    \* lastScan[t]: last_scan_id of t, or None
    lastScanAt,  \* lastScanAt[t]: last_scan_at of t, 0 for NULL
    snapshots,   \* scan_snapshots rows
    alerts,      \* alert rows of type new_critical
    audit,       \* <<action, entity>> pairs of the audit log
    (* memory of the process *)
    up,          \* the process serves requests
    recovered,   \* its startup recovery succeeded
    pc,          \* pc[s]: the next step of the pipeline of s
    kind,        \* kind[s]: which entry point started it
    target,      \* target[s]: the target it scans, None for api and upload
    startedAt,   \* startedAt[s]: `now` of execute_target_scan
    outcome,     \* outcome[s]: scan_status to be stored
    result,      \* result[s]: the findings held in memory
    (* environment *)
    clock, crashes, errors

tables == <<scans, findings, events, certs, targets, lastScan, lastScanAt,
            snapshots, alerts, audit>>
memory == <<pc, kind, target, startedAt, outcome, result>>
life == <<up, recovered, crashes, errors>>
vars == <<tables, memory, life, clock>>

OnLoopKinds == {"api", "upload"}
Kinds == OnLoopKinds \cup {"now", "cron"}

RowStatus == {"absent", "scanning", "done", "failed"}
Terminal == {"done", "failed"}

(* Where a pipeline can be: before its run, in it, or after it. *)
Running == {"fetched", "scan", "remove", "insert", "certify", "touch", "read",
            "snapshot", "alert"}
Stopped == {"ended", "aborted", "dead"}
PC == {"idle"} \cup Running \cup Stopped

Snapshot == [target : Targets, scan : Scans, total : 0..Cardinality(Findings),
             certified : BOOLEAN]
Alert == [target : Targets, scan : Scans, finding : Findings]
AuditAction == {"scan.start", "scan.create", "scan.recovery", "coverage.record",
                "snapshot.create", "alert.create", "target.delete"}

TypeOK ==
    /\ scans \in [Scans -> RowStatus]
    /\ findings \in [Scans -> SUBSET Findings]
    /\ events \in [Scans -> {"none", "done", "error"}]
    /\ certs \subseteq Scans
    /\ targets \subseteq Targets
    /\ lastScan \in [Targets -> Scans \cup {None}]
    /\ lastScanAt \in [Targets -> Nat]
    /\ snapshots \subseteq Snapshot
    /\ alerts \subseteq Alert
    /\ audit \subseteq AuditAction \X (Scans \cup Targets)
    /\ up \in BOOLEAN /\ recovered \in BOOLEAN
    /\ pc \in [Scans -> PC]
    /\ kind \in [Scans -> Kinds]
    /\ target \in [Scans -> Targets \cup {None}]
    /\ startedAt \in [Scans -> Nat]
    /\ outcome \in [Scans -> Terminal]
    /\ result \in [Scans -> SUBSET Findings]
    /\ clock \in Nat /\ crashes \in 0..MaxCrashes /\ errors \in 0..MaxErrors

Init ==
    /\ scans = [s \in Scans |-> "absent"]
    /\ findings = [s \in Scans |-> {}]
    /\ events = [s \in Scans |-> "none"]
    /\ certs = {}
    /\ targets = Targets
    /\ lastScan = [t \in Targets |-> None]
    /\ lastScanAt = [t \in Targets |-> 0]
    /\ snapshots = {} /\ alerts = {} /\ audit = {}
    /\ up = TRUE /\ recovered = TRUE
    /\ pc = [s \in Scans |-> "idle"]
    /\ kind = [s \in Scans |-> "api"]
    /\ target = [s \in Scans |-> None]
    /\ startedAt = [s \in Scans |-> 0]
    /\ outcome = [s \in Scans |-> "failed"]
    /\ result = [s \in Scans |-> {}]
    /\ clock = 0 /\ crashes = 0 /\ errors = 0
-----------------------------------------------------------------------------
(* Control *)

Live(s) == pc[s] \in Running

(* A handler of the event loop holds it from its first statement to its    *)
(* last, except while an upload awaits the chunks of its archive.          *)
HoldsLoop(s) ==
    /\ Live(s)
    /\ \/ kind[s] = "api"
       \/ kind[s] = "upload" /\ pc[s] # "scan"

LoopFreeFor(s) == \A r \in Scans \ {s} : ~HoldsLoop(r)

At(s, here) == up /\ pc[s] = here

Goto(s, there) == pc' = [pc EXCEPT ![s] = there]

(* Defect: the target is touched before the certificate is written. *)
StepAfterTouchEarly == [fetched |-> "scan", scan |-> "remove", remove |-> "insert",
    insert |-> "touch", touch |-> "certify", certify |-> "read", read |-> "snapshot",
    snapshot |-> "alert", alert |-> "ended"]

(* The order of the transactions of a target scan.  A REST pipeline stops  *)
(* after "certify".                                                        *)
StepAfter == [fetched |-> "scan", scan |-> "remove", remove |-> "insert",
    insert |-> "certify", certify |-> "touch", touch |-> "read", read |-> "snapshot",
    snapshot |-> "alert", alert |-> "ended"]

Step(s) == Goto(s, StepAfter[pc[s]])

Log(action, entity) == audit' = audit \cup {<<action, entity>>}
-----------------------------------------------------------------------------
(* Starting a pipeline *)

(* Defect: the job may run twice at once. *)
JobSlotUnchecked(t) == t \in targets

(* APScheduler's max_instances = 1: one job per target at a time. *)
JobSlotFree(t) == \A r \in Scans : ~(Live(r) /\ kind[r] = "cron" /\ target[r] = t)

(* execute_target_scan up to `now`: a missing target raises before any     *)
(* scan exists.                                                            *)
FetchTarget(s, t, k) ==
    /\ At(s, "idle")
    /\ t \in targets
    /\ k = "cron" => JobSlotFree(t)
    /\ kind' = [kind EXCEPT ![s] = k]
    /\ target' = [target EXCEPT ![s] = t]
    /\ clock' = clock + 1
    /\ startedAt' = [startedAt EXCEPT ![s] = clock + 1]
    /\ Goto(s, "fetched")
    /\ UNCHANGED <<tables, life, outcome, result>>

CreateInitialScan(s) ==
    /\ scans' = [scans EXCEPT ![s] = "scanning"]
    /\ Log("scan.start", s)
    /\ UNCHANGED <<findings, events, certs, targets, lastScan, lastScanAt, snapshots,
                   alerts>>

StartTargetScan(s) ==
    /\ At(s, "fetched")
    /\ CreateInitialScan(s)
    /\ Step(s)
    /\ UNCHANGED <<life, clock, kind, target, startedAt, outcome, result>>

StartApiScan(s, k) ==
    /\ At(s, "idle")
    /\ LoopFreeFor(s)
    /\ CreateInitialScan(s)
    /\ kind' = [kind EXCEPT ![s] = k]
    /\ Goto(s, "scan")
    /\ UNCHANGED <<life, clock, target, startedAt, outcome, result>>

(* The engine run: done with what it found, or failed with an empty        *)
(* result (an exception of the engine, or an IngestError of an upload).    *)
RunEngine(s) ==
    /\ At(s, "scan")
    /\ kind[s] \in OnLoopKinds => LoopFreeFor(s)
    /\ \E o \in Terminal, f \in SUBSET Findings :
         /\ o = "failed" => f = {}
         /\ outcome' = [outcome EXCEPT ![s] = o]
         /\ result' = [result EXCEPT ![s] = f]
    /\ Step(s)
    /\ UNCHANGED <<tables, life, clock, kind, target, startedAt>>
-----------------------------------------------------------------------------
(* create_scan_from_result: three transactions *)

(* Delete the existing row with its findings, and commit. *)
RemoveExisting(s) ==
    /\ At(s, "remove")
    /\ IF scans[s] # "absent"
       THEN /\ findings' = [findings EXCEPT ![s] = {}]
            /\ scans' = [scans EXCEPT ![s] = "absent"]
       ELSE UNCHANGED <<findings, scans>>
    /\ Step(s)
    /\ UNCHANGED <<events, certs, targets, lastScan, lastScanAt, snapshots, alerts,
                   audit, life, clock, kind, target, startedAt, outcome, result>>

(* Defect: the closing event is always "done". *)
FinalEventDone(o) == "done"

FinalEvent(o) == IF o = "failed" THEN "error" ELSE "done"

(* Insert the concluded row, its findings and its event log, and commit. *)
InsertConcluded(s) ==
    /\ At(s, "insert")
    /\ scans' = [scans EXCEPT ![s] = outcome[s]]
    /\ findings' = [findings EXCEPT ![s] = @ \cup result[s]]
    /\ events' = [events EXCEPT ![s] = FinalEvent(outcome[s])]
    /\ Log("scan.create", s)
    /\ Step(s)
    /\ UNCHANGED <<certs, targets, lastScan, lastScanAt, snapshots, alerts, life, clock,
                   kind, target, startedAt, outcome, result>>

(* save_coverage.  REST pipelines return after it. *)
SaveCoverage(s) ==
    /\ At(s, "certify")
    /\ certs' = certs \cup {s}
    /\ Log("coverage.record", s)
    /\ Goto(s, IF kind[s] \in OnLoopKinds THEN "ended" ELSE StepAfter["certify"])
    /\ UNCHANGED <<scans, findings, events, targets, lastScan, lastScanAt, snapshots,
                   alerts, life, clock, kind, target, startedAt, outcome, result>>
-----------------------------------------------------------------------------
(* The tail of execute_target_scan *)

(* Defect: a target deleted meanwhile raises, and the pipeline stops here. *)
UpdateTargetLastScanOrRaise(s) ==
    /\ At(s, "touch")
    /\ target[s] \in targets
    /\ lastScan' = [lastScan EXCEPT ![target[s]] = s]
    /\ lastScanAt' = [lastScanAt EXCEPT ![target[s]] = startedAt[s]]
    /\ Step(s)
    /\ UNCHANGED <<scans, findings, events, certs, targets, snapshots, alerts, audit,
                   life, clock, kind, target, startedAt, outcome, result>>

(* A target deleted meanwhile is skipped silently. *)
UpdateTargetLastScan(s) ==
    /\ At(s, "touch")
    /\ IF target[s] \in targets
       THEN /\ lastScan' = [lastScan EXCEPT ![target[s]] = s]
            /\ lastScanAt' = [lastScanAt EXCEPT ![target[s]] = startedAt[s]]
       ELSE UNCHANGED <<lastScan, lastScanAt>>
    /\ Step(s)
    /\ UNCHANGED <<scans, findings, events, certs, targets, snapshots, alerts, audit,
                   life, clock, kind, target, startedAt, outcome, result>>

ListFindings(s) ==
    /\ At(s, "read")
    /\ result' = [result EXCEPT ![s] = findings[s]]
    /\ Step(s)
    /\ UNCHANGED <<tables, life, clock, kind, target, startedAt, outcome>>

CreateSnapshot(s) ==
    /\ At(s, "snapshot")
    /\ snapshots' = snapshots \cup
         {[target |-> target[s], scan |-> s, total |-> Cardinality(result[s]),
           certified |-> s \in certs]}
    /\ Log("snapshot.create", s)
    /\ Step(s)
    /\ UNCHANGED <<scans, findings, events, certs, targets, lastScan, lastScanAt, alerts,
                   life, clock, kind, target, startedAt, outcome, result>>

(* The critical findings of s that have no alert of s yet. *)
Unalerted(s) == {f \in result[s] \cap Critical :
                   [target |-> target[s], scan |-> s, finding |-> f] \notin alerts}

RaiseAlert(s) ==
    /\ At(s, "alert")
    /\ \E f \in Unalerted(s) :
         alerts' = alerts \cup {[target |-> target[s], scan |-> s, finding |-> f]}
    /\ Log("alert.create", s)
    /\ UNCHANGED <<scans, findings, events, certs, targets, lastScan, lastScanAt,
                   snapshots, memory, life, clock>>

EndTargetScan(s) ==
    /\ At(s, "alert")
    /\ Unalerted(s) = {}
    /\ Step(s)
    /\ UNCHANGED <<tables, life, clock, kind, target, startedAt, outcome, result>>
-----------------------------------------------------------------------------
(* Failures *)

(* An exception no handler of the pipeline catches: a store call that      *)
(* fails rolls its transaction back and ends the pipeline; so does an      *)
(* upload whose archive raises anything but IngestError.  In the alert     *)
(* step the exception is swallowed and the scan returns normally.          *)
Abort(s) ==
    /\ up /\ Live(s)
    /\ pc[s] = "scan" => kind[s] = "upload" /\ LoopFreeFor(s)
    /\ errors < MaxErrors
    /\ errors' = errors + 1
    /\ Goto(s, IF pc[s] = "alert" THEN "ended" ELSE "aborted")
    /\ UNCHANGED <<tables, up, recovered, crashes, clock, kind, target, startedAt,
                   outcome, result>>

Crash ==
    /\ up
    /\ crashes < MaxCrashes
    /\ crashes' = crashes + 1
    /\ up' = FALSE
    /\ pc' = [s \in Scans |-> IF pc[s] \in {"idle", "ended"} THEN pc[s] ELSE "dead"]
    /\ UNCHANGED <<tables, recovered, errors, clock, kind, target, startedAt, outcome,
                   result>>

(* Defects: recovery leaves the row alone; fails whatever it finds. *)
RecoveredStatusKept(status) == status
RecoveredStatusAny(status) == IF status = "absent" THEN "absent" ELSE "failed"

RecoveredStatus(status) == IF status = "scanning" THEN "failed" ELSE status

(* lifespan: recover_interrupted_scans in one transaction, then serve. *)
Restart ==
    /\ ~up
    /\ scans' = [s \in Scans |-> RecoveredStatus(scans[s])]
    /\ audit' = audit \cup
         {<<"scan.recovery", s>> : s \in {r \in Scans : scans[r] = "scanning"}}
    /\ up' = TRUE
    /\ recovered' = TRUE
    /\ UNCHANGED <<findings, events, certs, targets, lastScan, lastScanAt, snapshots,
                   alerts, memory, crashes, errors, clock>>

(* lifespan logs an exception of the recovery and serves all the same. *)
RestartUnrecovered ==
    /\ ~up
    /\ errors < MaxErrors
    /\ errors' = errors + 1
    /\ up' = TRUE
    /\ recovered' = FALSE
    /\ UNCHANGED <<tables, memory, crashes, clock>>

(* DELETE /targets/{id} leaves snapshots, alerts and scans in place. *)
DeleteTarget(t) ==
    /\ up
    /\ t \in targets
    /\ targets' = targets \ {t}
    /\ Log("target.delete", t)
    /\ UNCHANGED <<scans, findings, events, certs, lastScan, lastScanAt, snapshots,
                   alerts, memory, life, clock>>
-----------------------------------------------------------------------------
Advance(s) ==
    \/ StartTargetScan(s)
    \/ RunEngine(s)
    \/ RemoveExisting(s)
    \/ InsertConcluded(s)
    \/ SaveCoverage(s)
    \/ UpdateTargetLastScan(s)
    \/ ListFindings(s)
    \/ CreateSnapshot(s)
    \/ RaiseAlert(s)
    \/ EndTargetScan(s)

Next ==
    \/ \E s \in Scans, t \in Targets, k \in {"now", "cron"} : FetchTarget(s, t, k)
    \/ \E s \in Scans, k \in OnLoopKinds : StartApiScan(s, k)
    \/ \E s \in Scans : Advance(s)
    \/ \E s \in Scans : Abort(s)
    \/ \E t \in Targets : DeleteTarget(t)
    \/ Crash
    \/ Restart
    \/ RestartUnrecovered

Spec == Init /\ [][Next]_vars

(* Threads and the event loop run; the container is restarted              *)
(* (docker-compose.yml: restart: unless-stopped).                          *)
Fairness ==
    /\ \A s \in Scans : WF_vars(Advance(s))
    /\ WF_vars(Restart)

FairSpec == Spec /\ Fairness
-----------------------------------------------------------------------------
(* Properties *)

(* After a startup whose recovery succeeded, a row still in SCANNING       *)
(* belongs to a pipeline of this very process: one that is running, or one *)
(* that an exception ended before it could store an outcome                *)
(* (recover_interrupted_scans).                                            *)
NoStrandedScan ==
    up /\ recovered =>
      \A s \in Scans : scans[s] = "scanning" => pc[s] \in {"scan", "remove", "aborted"}

(* What the tables say together about s at a commit. *)
RowAgrees(s) ==
    /\ scans[s] = "done" =>
         events[s] = "done" /\ <<"scan.recovery", s>> \notin audit
    /\ scans[s] = "failed" =>
         /\ findings[s] = {}
         /\ events[s] = "error" <=> <<"scan.recovery", s>> \notin audit
    /\ scans[s] \notin Terminal =>
         findings[s] = {} /\ events[s] = "none" /\ s \notin certs

(* The three tables of create_scan_from_result agree at every commit: a    *)
(* done scan has a log that ends in "done"; a failed one has no findings   *)
(* and either a log that ends in "error" or a recovery entry, never both;  *)
(* a scan that is not concluded owns no findings, events or certificate.   *)
RowsAgree == \A s \in Scans : RowAgrees(s)

(* A snapshot is only ever taken of a concluded, certified scan of that    *)
(* target, and counts exactly the findings drift will later read.          *)
SnapshotsGrounded ==
    \A x \in snapshots :
      /\ scans[x.scan] \in Terminal
      /\ x.certified /\ x.scan \in certs
      /\ x.total = Cardinality(findings[x.scan])
      /\ x.target = target[x.scan]

(* last_scan_id names a concluded scan with a certificate, so the estate   *)
(* view never falls back to its 100% default for a target that has one,    *)
(* and last_scan_at is the start of that same scan.                        *)
LastScanGrounded ==
    \A t \in Targets : lastScan[t] # None =>
      /\ scans[lastScan[t]] \in Terminal
      /\ lastScan[t] \in certs
      /\ target[lastScan[t]] = t
      /\ lastScanAt[t] = startedAt[lastScan[t]]

(* An alert of a target scan points at a stored critical finding of a scan *)
(* that has its snapshot, whatever was interrupted in between.             *)
AlertsGrounded ==
    \A a \in alerts :
      /\ a.finding \in findings[a.scan] \cap Critical
      /\ \E x \in snapshots : x.scan = a.scan /\ x.target = a.target

(* The reports of a scan agree with it wherever the pipeline was cut off.  *)
ReportsGrounded == SnapshotsGrounded /\ LastScanGrounded /\ AlertsGrounded

(* The cron job alone never moves a target's last scan back in time: when  *)
(* last_scan_at decreases, one of the two scans was a scan-now, which no   *)
(* max_instances limit holds apart from the job.                           *)
OnlyScanNowRegresses ==
    [][\A t \in Targets : lastScanAt'[t] < lastScanAt[t] =>
         "now" \in {kind[lastScan[t]], kind[lastScan'[t]]}]_vars

(* What polling GET /scans/{id} shows of s. *)
Entry(s) ==
    IF scans[s] # "absent" THEN scans[s]
    ELSE IF <<"scan.start", s>> \notin audit THEN "none"
    ELSE IF pc[s] = "insert" THEN "replacing" ELSE "lost"

entryMap == [s \in Scans |-> Entry(s)]

Registry == INSTANCE ScanRegistry WITH entry <- entryMap

(* The pipelines, crashes and recovery implement the abstract registry: no *)
(* interleaving concludes a scan twice, takes a conclusion back, or        *)
(* brings a lost entry back.                                               *)
RefinesRegistry == Registry!RegistrySpec

(* Every registered scan is eventually concluded, by its pipeline or by the *)
(* recovery of the next process, or was lost in the replacement of its row, *)
(* unless an exception ended its own pipeline or the recovery.              *)
EveryScanSettles ==
    \A s \in Scans : scans[s] = "scanning" ~>
      \/ Entry(s) \in Terminal \cup {"lost"}
      \/ pc[s] = "aborted"
      \/ ~recovered

(* A certified target scan gets its snapshot unless the process dies or an  *)
(* exception ends the pipeline, even when the target is deleted under it.   *)
CertifiedScanIsReported ==
    \A s \in Scans : pc[s] = "touch" ~>
      pc[s] \in {"dead", "aborted"} \/ \E x \in snapshots : x.scan = s

(* README.md:147 -- an interrupted scan is reconciled at startup: it is    *)
(* found in the scans table, marked failed.                                *)
InterruptedScansAreRecovered ==
    up /\ recovered =>
      \A s \in Scans :
        pc[s] = "dead" /\ <<"scan.start", s>> \in audit => scans[s] \in Terminal

-----------------------------------------------------------------------------
(* The inductive strengthening that ScanPipelineProofs uses. *)

(* Where a pipeline of each kind may be, and what it holds in memory. *)
ControlInv ==
    /\ \A s \in Scans : ~up => pc[s] \in {"idle", "ended", "dead"}
    /\ \A s \in Scans :
         /\ kind[s] \notin OnLoopKinds => target[s] \in Targets
         /\ pc[s] \in {"fetched", "touch", "read", "snapshot", "alert"} =>
              kind[s] \notin OnLoopKinds
         /\ outcome[s] = "failed" => result[s] = {}

(* What the pipeline's position says about the row, the log and the        *)
(* certificate of its scan.                                                *)
RowFollows(s) ==
    /\ scans[s] # "absent" => <<"scan.start", s>> \in audit
    /\ pc[s] \in {"idle", "fetched"} =>
         scans[s] = "absent" /\ <<"scan.start", s>> \notin audit
    /\ pc[s] \in {"scan", "remove"} => scans[s] = "scanning"
    /\ pc[s] = "insert" => scans[s] = "absent" /\ <<"scan.start", s>> \in audit
    /\ pc[s] \in {"certify", "touch", "read", "snapshot", "alert"} =>
         scans[s] = outcome[s]
    /\ pc[s] \in {"touch", "read", "snapshot", "alert", "ended"} => s \in certs
    /\ <<"scan.recovery", s>> \in audit => pc[s] = "dead" /\ scans[s] = "failed"

RowInv == \A s \in Scans : RowAgrees(s) /\ RowFollows(s)

(* Which pipelines may have touched their target, taken a snapshot or      *)
(* raised an alert.                                                        *)
ReportInv ==
    /\ LastScanGrounded /\ SnapshotsGrounded /\ AlertsGrounded
    /\ \A t \in Targets : lastScan[t] # None =>
         pc[lastScan[t]] \in {"read", "snapshot", "alert"} \cup Stopped
    /\ \A x \in snapshots : pc[x.scan] \in {"alert", "ended", "dead"}
    /\ \A s \in Scans :
         /\ pc[s] \in {"snapshot", "alert"} => result[s] = findings[s]
         /\ pc[s] = "alert" => \E x \in snapshots : x.scan = s /\ x.target = target[s]
    /\ \A a \in alerts : a.target = target[a.scan]

IInv == TypeOK /\ ControlInv /\ RowInv /\ ReportInv /\ NoStrandedScan
=============================================================================
