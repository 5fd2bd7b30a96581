------------------------- MODULE ScanPipelineProofs -------------------------
(***************************************************************************)
(* Proofs about ScanPipeline for every set of scans and targets, every     *)
(* finite set of findings, and any number of crashes and errors.           *)
(***************************************************************************)
EXTENDS ScanPipeline, FiniteSetTheorems, TLAPS

USE DEF tables, memory, life, vars

(* A count of findings is within the range the snapshot column has. *)
LEMMA CountInRange ==
  ASSUME NEW F \in SUBSET Findings
  PROVE  Cardinality(F) \in 0..Cardinality(Findings)
<1>1. IsFiniteSet(Findings)
  BY FindingsAssumption
<1>2. IsFiniteSet(F) /\ Cardinality(F) <= Cardinality(Findings)
  BY <1>1, FS_Subset
<1>3. Cardinality(F) \in Nat /\ Cardinality(Findings) \in Nat
  BY <1>1, <1>2, FS_CardinalityType
<1> QED
  BY <1>2, <1>3

(* The initial state satisfies every part of the inductive invariant. *)
LEMMA InitIInv == Init => IInv
BY BoundsAssumption, NoneFresh
DEF Init, IInv, TypeOK, ControlInv, RowInv, ReportInv, RowsAgree, RowAgrees, RowFollows,
    LastScanGrounded, SnapshotsGrounded, AlertsGrounded, NoStrandedScan, RowStatus, PC, Running, Stopped,
    Kinds, OnLoopKinds, Terminal, Live

(* Every variable keeps its type.  The control invariant is needed where a *)
(* snapshot or an alert stores the target of its pipeline.                 *)
LEMMA TypeStep == TypeOK /\ ControlInv /\ [Next]_vars => TypeOK'
<1> SUFFICES ASSUME TypeOK, ControlInv, [Next]_vars
             PROVE  TypeOK'
  OBVIOUS
<1> USE BoundsAssumption DEF TypeOK, RowStatus, PC, Running, Stopped, Kinds, OnLoopKinds,
            Terminal, AuditAction, At, Goto, Step, Log, StepAfter
<1>1. ASSUME NEW s \in Scans, NEW t \in Targets, NEW k \in {"now", "cron"},
             FetchTarget(s, t, k)
      PROVE  TypeOK'
  BY <1>1 DEF FetchTarget
<1>2. ASSUME NEW s \in Scans, NEW k \in OnLoopKinds, StartApiScan(s, k)
      PROVE  TypeOK'
  BY <1>2 DEF StartApiScan, CreateInitialScan
<1>3. ASSUME NEW s \in Scans, StartTargetScan(s)
      PROVE  TypeOK'
  BY <1>3 DEF StartTargetScan, CreateInitialScan
<1>4. ASSUME NEW s \in Scans, RunEngine(s)
      PROVE  TypeOK'
  BY <1>4 DEF RunEngine
<1>5. ASSUME NEW s \in Scans, RemoveExisting(s)
      PROVE  TypeOK'
  BY <1>5 DEF RemoveExisting
<1>6. ASSUME NEW s \in Scans, InsertConcluded(s)
      PROVE  TypeOK'
  BY <1>6 DEF InsertConcluded, FinalEvent
<1>7. ASSUME NEW s \in Scans, SaveCoverage(s)
      PROVE  TypeOK'
  BY <1>7 DEF SaveCoverage
<1>8. ASSUME NEW s \in Scans, UpdateTargetLastScan(s)
      PROVE  TypeOK'
  BY <1>8 DEF UpdateTargetLastScan
<1>9. ASSUME NEW s \in Scans, ListFindings(s)
      PROVE  TypeOK'
  BY <1>9 DEF ListFindings
<1>10. ASSUME NEW s \in Scans, CreateSnapshot(s)
       PROVE  TypeOK'
  <2>1. target[s] \in Targets
    BY <1>10 DEF CreateSnapshot, ControlInv
  <2>2. Cardinality(result[s]) \in 0..Cardinality(Findings)
    BY CountInRange
  <2> DEFINE x == [target |-> target[s], scan |-> s, total |-> Cardinality(result[s]),
                   certified |-> s \in certs]
  <2>a. (s \in certs) \in BOOLEAN
    OBVIOUS
  <2>b. x \in Snapshot
    BY <2>1, <2>2, <2>a, Zenon DEF Snapshot
  <2>3. snapshots' \subseteq Snapshot
    BY <1>10, <2>b DEF CreateSnapshot
  <2> QED
    BY <1>10, <2>3 DEF CreateSnapshot
<1>11. ASSUME NEW s \in Scans, RaiseAlert(s)
       PROVE  TypeOK'
  <2>1. target[s] \in Targets
    BY <1>11 DEF RaiseAlert, ControlInv
  <2>2. alerts' \subseteq Alert
    BY <1>11, <2>1 DEF RaiseAlert, Unalerted, Alert
  <2> QED
    BY <1>11, <2>2 DEF RaiseAlert
<1>12. ASSUME NEW s \in Scans, EndTargetScan(s)
       PROVE  TypeOK'
  BY <1>12 DEF EndTargetScan
<1>13. ASSUME NEW s \in Scans, Abort(s)
       PROVE  TypeOK'
  BY <1>13 DEF Abort, Live
<1>14. ASSUME NEW t \in Targets, DeleteTarget(t)
       PROVE  TypeOK'
  BY <1>14 DEF DeleteTarget
<1>15. CASE Crash
  <2>1. pc' \in [Scans -> PC]
    BY <1>15 DEF Crash
  <2>2. crashes' \in 0..MaxCrashes
    BY <1>15 DEF Crash
  <2> QED
    BY <1>15, <2>1, <2>2 DEF Crash
<1>16. CASE Restart
  BY <1>16 DEF Restart, RecoveredStatus
<1>17. CASE RestartUnrecovered
  <2>1. errors' \in 0..MaxErrors
    BY <1>17 DEF RestartUnrecovered
  <2> QED
    BY <1>17, <2>1 DEF RestartUnrecovered
<1>18. CASE UNCHANGED vars
  BY <1>18
<1> HIDE DEF IInv, TypeOK, ControlInv, RowInv, ReportInv, NoStrandedScan
<1> QED
  BY <1>1, <1>2, <1>3, <1>4, <1>5, <1>6, <1>7, <1>8, <1>9, <1>10,
      <1>11, <1>12, <1>13, <1>14, <1>15, <1>16, <1>17, <1>18 DEF Next, Advance

(* The control invariant is kept. *)
LEMMA ControlStep == IInv /\ [Next]_vars => ControlInv'
<1> SUFFICES ASSUME IInv, [Next]_vars
             PROVE  ControlInv'
  OBVIOUS
<1> USE DEF IInv, TypeOK, ControlInv, RowStatus, PC, Running, Stopped, Kinds, OnLoopKinds,
            Terminal, Live, At, Goto, Step, StepAfter
<1>1. ASSUME NEW s \in Scans, NEW t \in Targets, NEW k \in {"now", "cron"},
             FetchTarget(s, t, k)
      PROVE  ControlInv'
  BY <1>1 DEF FetchTarget
<1>2. ASSUME NEW s \in Scans, NEW k \in OnLoopKinds, StartApiScan(s, k)
      PROVE  ControlInv'
  BY <1>2 DEF StartApiScan, CreateInitialScan
<1>3. ASSUME NEW s \in Scans, StartTargetScan(s)
      PROVE  ControlInv'
  BY <1>3 DEF StartTargetScan, CreateInitialScan
<1>4. ASSUME NEW s \in Scans, RunEngine(s)
      PROVE  ControlInv'
  BY <1>4 DEF RunEngine
<1>5. ASSUME NEW s \in Scans, RemoveExisting(s)
      PROVE  ControlInv'
  BY <1>5 DEF RemoveExisting
<1>6. ASSUME NEW s \in Scans, InsertConcluded(s)
      PROVE  ControlInv'
  BY <1>6 DEF InsertConcluded, FinalEvent
<1>7. ASSUME NEW s \in Scans, SaveCoverage(s)
      PROVE  ControlInv'
  BY <1>7 DEF SaveCoverage
<1>8. ASSUME NEW s \in Scans, UpdateTargetLastScan(s)
      PROVE  ControlInv'
  BY <1>8 DEF UpdateTargetLastScan
<1>9. ASSUME NEW s \in Scans, ListFindings(s)
      PROVE  ControlInv'
  <2>1. outcome[s] = "failed" => findings[s] = {}
    BY <1>9 DEF ListFindings, RowInv, RowAgrees, RowFollows
  <2> QED
    BY <1>9, <2>1 DEF ListFindings
<1>10. ASSUME NEW s \in Scans, CreateSnapshot(s)
       PROVE  ControlInv'
  BY <1>10 DEF CreateSnapshot
<1>11. ASSUME NEW s \in Scans, RaiseAlert(s)
       PROVE  ControlInv'
  BY <1>11 DEF RaiseAlert, Unalerted
<1>12. ASSUME NEW s \in Scans, EndTargetScan(s)
       PROVE  ControlInv'
  BY <1>12 DEF EndTargetScan
<1>13. ASSUME NEW s \in Scans, Abort(s)
       PROVE  ControlInv'
  BY <1>13 DEF Abort
<1>14. ASSUME NEW t \in Targets, DeleteTarget(t)
       PROVE  ControlInv'
  BY <1>14 DEF DeleteTarget
<1>15. CASE Crash
  BY <1>15 DEF Crash
<1>16. CASE Restart
  BY <1>16 DEF Restart, RecoveredStatus
<1>17. CASE RestartUnrecovered
  BY <1>17 DEF RestartUnrecovered
<1>18. CASE UNCHANGED vars
  BY <1>18
<1> HIDE DEF IInv, TypeOK, ControlInv, RowInv, ReportInv, NoStrandedScan
<1> QED
  BY <1>1, <1>2, <1>3, <1>4, <1>5, <1>6, <1>7, <1>8, <1>9, <1>10,
      <1>11, <1>12, <1>13, <1>14, <1>15, <1>16, <1>17, <1>18 DEF Next, Advance

(* Logging one entry adds that entry and no other. *)
LEMMA LoggedPair ==
  ASSUME NEW A, NEW B, NEW act, NEW y, B = A \cup {<<act, y>>}
  PROVE  \A a, z : <<a, z>> \in B <=> <<a, z>> \in A \/ (a = act /\ z = y)
OBVIOUS
(* The rows, the event log, the certificates and the audit entries of a    *)
(* scan stay in step with its pipeline.                                    *)
LEMMA RowStep == IInv /\ [Next]_vars => RowInv'
<1> SUFFICES ASSUME IInv, [Next]_vars
             PROVE  RowInv'
  OBVIOUS
<1> USE DEF IInv, TypeOK, ControlInv, RowInv, RowAgrees, RowFollows, RowStatus, PC, Running,
            Stopped, Kinds, OnLoopKinds, Terminal, Live, At, Goto, Step, StepAfter
<1>1. ASSUME NEW s \in Scans, NEW t \in Targets, NEW k \in {"now", "cron"},
             FetchTarget(s, t, k)
      PROVE  RowInv'
  <2>1. audit' = audit
    BY <1>1 DEF FetchTarget
  <2>2. RowAgrees(s)'
    BY <1>1, <2>1 DEF FetchTarget
  <2>3. RowFollows(s)'
    BY <1>1, <2>1 DEF FetchTarget
  <2>4. ASSUME NEW r \in Scans \ {s}
        PROVE  RowAgrees(r)' /\ RowFollows(r)'
    BY <1>1, <2>1 DEF FetchTarget
  <2> HIDE DEF IInv, TypeOK, ControlInv, RowAgrees, RowFollows
  <2> QED
    BY <2>2, <2>3, <2>4
<1>2. ASSUME NEW s \in Scans, NEW k \in OnLoopKinds, StartApiScan(s, k)
      PROVE  RowInv'
  <2>1. \A a, z : <<a, z>> \in audit' <=>
                  <<a, z>> \in audit \/ (a = "scan.start" /\ z = s)
    BY <1>2, LoggedPair DEF StartApiScan, CreateInitialScan, Log
  <2>2. RowAgrees(s)'
    BY <1>2, <2>1 DEF StartApiScan, CreateInitialScan
  <2>3. RowFollows(s)'
    BY <1>2, <2>1 DEF StartApiScan, CreateInitialScan
  <2>4. ASSUME NEW r \in Scans \ {s}
        PROVE  RowAgrees(r)' /\ RowFollows(r)'
    BY <1>2, <2>1 DEF StartApiScan, CreateInitialScan
  <2> HIDE DEF IInv, TypeOK, ControlInv, RowAgrees, RowFollows
  <2> QED
    BY <2>2, <2>3, <2>4
<1>3. ASSUME NEW s \in Scans, StartTargetScan(s)
      PROVE  RowInv'
  <2>1. \A a, z : <<a, z>> \in audit' <=>
                  <<a, z>> \in audit \/ (a = "scan.start" /\ z = s)
    BY <1>3, LoggedPair DEF StartTargetScan, CreateInitialScan, Log
  <2>2. RowAgrees(s)'
    BY <1>3, <2>1 DEF StartTargetScan, CreateInitialScan
  <2>3. RowFollows(s)'
    BY <1>3, <2>1 DEF StartTargetScan, CreateInitialScan
  <2>4. ASSUME NEW r \in Scans \ {s}
        PROVE  RowAgrees(r)' /\ RowFollows(r)'
    BY <1>3, <2>1 DEF StartTargetScan, CreateInitialScan
  <2> HIDE DEF IInv, TypeOK, ControlInv, RowAgrees, RowFollows
  <2> QED
    BY <2>2, <2>3, <2>4
<1>4. ASSUME NEW s \in Scans, RunEngine(s)
      PROVE  RowInv'
  <2>1. audit' = audit
    BY <1>4 DEF RunEngine
  <2>2. RowAgrees(s)'
    BY <1>4, <2>1 DEF RunEngine
  <2>3. RowFollows(s)'
    BY <1>4, <2>1 DEF RunEngine
  <2>4. ASSUME NEW r \in Scans \ {s}
        PROVE  RowAgrees(r)' /\ RowFollows(r)'
    BY <1>4, <2>1 DEF RunEngine
  <2> HIDE DEF IInv, TypeOK, ControlInv, RowAgrees, RowFollows
  <2> QED
    BY <2>2, <2>3, <2>4
<1>5. ASSUME NEW s \in Scans, RemoveExisting(s)
      PROVE  RowInv'
  <2>1. audit' = audit
    BY <1>5 DEF RemoveExisting
  <2>2. RowAgrees(s)'
    <3>1. pc[s] = "remove"
      BY <1>5 DEF RemoveExisting
    <3>2. scans[s] = "scanning"
      BY <3>1
    <3>3. findings[s] = {} /\ events[s] = "none" /\ s \notin certs
      BY <3>2
    <3>4. scans'[s] = "absent" /\ findings'[s] = {} /\ events' = events /\ certs' = certs
      BY <1>5, <3>2 DEF RemoveExisting
    <3> QED
      BY <3>3, <3>4
  <2>3. RowFollows(s)'
    <3>1. pc[s] = "remove" /\ pc'[s] = "insert" /\ outcome' = outcome /\ certs' = certs
      BY <1>5 DEF RemoveExisting
    <3>2. scans[s] = "scanning" /\ <<"scan.start", s>> \in audit
      BY <3>1
    <3>3. scans'[s] = "absent" /\ <<"scan.recovery", s>> \notin audit
      BY <1>5, <3>1, <3>2 DEF RemoveExisting
    <3> QED
      BY <2>1, <3>1, <3>2, <3>3
  <2>4. ASSUME NEW r \in Scans \ {s}
        PROVE  RowAgrees(r)' /\ RowFollows(r)'
    BY <1>5, <2>1 DEF RemoveExisting
  <2> HIDE DEF IInv, TypeOK, ControlInv, RowAgrees, RowFollows
  <2> QED
    BY <2>2, <2>3, <2>4
<1>6. ASSUME NEW s \in Scans, InsertConcluded(s)
      PROVE  RowInv'
  <2>1. \A a, z : <<a, z>> \in audit' <=>
                  <<a, z>> \in audit \/ (a = "scan.create" /\ z = s)
    BY <1>6, LoggedPair DEF InsertConcluded, FinalEvent, Log
  <2>a. scans[s] = "absent" /\ <<"scan.recovery", s>> \notin audit
    BY <1>6 DEF InsertConcluded
  <2>b. s \in Scans /\ scans'[s] = outcome[s] /\ findings'[s] = findings[s] \cup result[s]
        /\ events'[s] = FinalEvent(outcome[s])
    BY <1>6 DEF InsertConcluded
  <2>c. findings[s] = {} /\ (outcome[s] = "failed" => result[s] = {})
    BY <2>a
  <2>2. RowAgrees(s)'
    BY <2>1, <2>a, <2>b, <2>c DEF FinalEvent
  <2>3. RowFollows(s)'
    BY <1>6, <2>1 DEF InsertConcluded, FinalEvent
  <2>4. ASSUME NEW r \in Scans \ {s}
        PROVE  RowAgrees(r)' /\ RowFollows(r)'
    BY <1>6, <2>1 DEF InsertConcluded, FinalEvent
  <2> HIDE DEF IInv, TypeOK, ControlInv, RowAgrees, RowFollows
  <2> QED
    BY <2>2, <2>3, <2>4
<1>7. ASSUME NEW s \in Scans, SaveCoverage(s)
      PROVE  RowInv'
  <2>1. \A a, z : <<a, z>> \in audit' <=>
                  <<a, z>> \in audit \/ (a = "coverage.record" /\ z = s)
    BY <1>7, LoggedPair DEF SaveCoverage, Log
  <2>2. RowAgrees(s)'
    BY <1>7, <2>1 DEF SaveCoverage
  <2>3. RowFollows(s)'
    BY <1>7, <2>1 DEF SaveCoverage
  <2>4. ASSUME NEW r \in Scans \ {s}
        PROVE  RowAgrees(r)' /\ RowFollows(r)'
    BY <1>7, <2>1 DEF SaveCoverage
  <2> HIDE DEF IInv, TypeOK, ControlInv, RowAgrees, RowFollows
  <2> QED
    BY <2>2, <2>3, <2>4
<1>8. ASSUME NEW s \in Scans, UpdateTargetLastScan(s)
      PROVE  RowInv'
  <2>1. audit' = audit
    BY <1>8 DEF UpdateTargetLastScan
  <2>2. RowAgrees(s)'
    BY <1>8, <2>1 DEF UpdateTargetLastScan
  <2>3. RowFollows(s)'
    BY <1>8, <2>1 DEF UpdateTargetLastScan
  <2>4. ASSUME NEW r \in Scans \ {s}
        PROVE  RowAgrees(r)' /\ RowFollows(r)'
    BY <1>8, <2>1 DEF UpdateTargetLastScan
  <2> HIDE DEF IInv, TypeOK, ControlInv, RowAgrees, RowFollows
  <2> QED
    BY <2>2, <2>3, <2>4
<1>9. ASSUME NEW s \in Scans, ListFindings(s)
      PROVE  RowInv'
  <2>1. audit' = audit
    BY <1>9 DEF ListFindings
  <2>2. RowAgrees(s)'
    BY <1>9, <2>1 DEF ListFindings
  <2>3. RowFollows(s)'
    BY <1>9, <2>1 DEF ListFindings
  <2>4. ASSUME NEW r \in Scans \ {s}
        PROVE  RowAgrees(r)' /\ RowFollows(r)'
    BY <1>9, <2>1 DEF ListFindings
  <2> HIDE DEF IInv, TypeOK, ControlInv, RowAgrees, RowFollows
  <2> QED
    BY <2>2, <2>3, <2>4
<1>10. ASSUME NEW s \in Scans, CreateSnapshot(s)
       PROVE  RowInv'
  <2>1. \A a, z : <<a, z>> \in audit' <=>
                  <<a, z>> \in audit \/ (a = "snapshot.create" /\ z = s)
    BY <1>10, LoggedPair DEF CreateSnapshot, Log
  <2>2. RowAgrees(s)'
    BY <1>10, <2>1 DEF CreateSnapshot
  <2>3. RowFollows(s)'
    BY <1>10, <2>1 DEF CreateSnapshot
  <2>4. ASSUME NEW r \in Scans \ {s}
        PROVE  RowAgrees(r)' /\ RowFollows(r)'
    BY <1>10, <2>1 DEF CreateSnapshot
  <2> HIDE DEF IInv, TypeOK, ControlInv, RowAgrees, RowFollows
  <2> QED
    BY <2>2, <2>3, <2>4
<1>11. ASSUME NEW s \in Scans, RaiseAlert(s)
       PROVE  RowInv'
  <2>1. \A a, z : <<a, z>> \in audit' <=>
                  <<a, z>> \in audit \/ (a = "alert.create" /\ z = s)
    BY <1>11, LoggedPair DEF RaiseAlert, Unalerted, Log
  <2>2. RowAgrees(s)'
    BY <1>11, <2>1 DEF RaiseAlert, Unalerted
  <2>3. RowFollows(s)'
    BY <1>11, <2>1 DEF RaiseAlert, Unalerted
  <2>4. ASSUME NEW r \in Scans \ {s}
        PROVE  RowAgrees(r)' /\ RowFollows(r)'
    BY <1>11, <2>1 DEF RaiseAlert, Unalerted
  <2> HIDE DEF IInv, TypeOK, ControlInv, RowAgrees, RowFollows
  <2> QED
    BY <2>2, <2>3, <2>4
<1>12. ASSUME NEW s \in Scans, EndTargetScan(s)
       PROVE  RowInv'
  <2>1. audit' = audit
    BY <1>12 DEF EndTargetScan
  <2>2. RowAgrees(s)'
    BY <1>12, <2>1 DEF EndTargetScan
  <2>3. RowFollows(s)'
    BY <1>12, <2>1 DEF EndTargetScan
  <2>4. ASSUME NEW r \in Scans \ {s}
        PROVE  RowAgrees(r)' /\ RowFollows(r)'
    BY <1>12, <2>1 DEF EndTargetScan
  <2> HIDE DEF IInv, TypeOK, ControlInv, RowAgrees, RowFollows
  <2> QED
    BY <2>2, <2>3, <2>4
<1>13. ASSUME NEW s \in Scans, Abort(s)
       PROVE  RowInv'
  <2>1. audit' = audit
    BY <1>13 DEF Abort
  <2>2. RowAgrees(s)'
    BY <1>13, <2>1 DEF Abort
  <2>3. RowFollows(s)'
    BY <1>13, <2>1 DEF Abort
  <2>4. ASSUME NEW r \in Scans \ {s}
        PROVE  RowAgrees(r)' /\ RowFollows(r)'
    BY <1>13, <2>1 DEF Abort
  <2> HIDE DEF IInv, TypeOK, ControlInv, RowAgrees, RowFollows
  <2> QED
    BY <2>2, <2>3, <2>4
<1>14. ASSUME NEW t \in Targets, DeleteTarget(t)
       PROVE  RowInv'
  <2>1. \A a, z : <<a, z>> \in audit' <=>
                  <<a, z>> \in audit \/ (a = "target.delete" /\ z = t)
    BY <1>14, LoggedPair DEF DeleteTarget, Log
  <2>2. ASSUME NEW r \in Scans
        PROVE  RowAgrees(r)' /\ RowFollows(r)'
    BY <1>14, <2>1 DEF DeleteTarget
  <2> QED
    BY <2>2
<1>15. CASE Crash
  BY <1>15 DEF Crash
<1>16. CASE Restart
  <2>1. \A r \in Scans : <<"scan.start", r>> \in audit' <=> <<"scan.start", r>> \in audit
    BY <1>16 DEF Restart
  <2>2. \A r \in Scans : <<"scan.recovery", r>> \in audit' <=>
                        <<"scan.recovery", r>> \in audit \/ scans[r] = "scanning"
    <3> DEFINE entries == {<<"scan.recovery", s>> : s \in {r \in Scans : scans[r] = "scanning"}}
    <3>1. audit' = audit \cup entries
      BY <1>16 DEF Restart
    <3>2. \A r \in Scans : <<"scan.recovery", r>> \in entries <=> scans[r] = "scanning"
      OBVIOUS
    <3> HIDE DEF entries
    <3> QED
      BY <3>1, <3>2
  <2>3. ASSUME NEW r \in Scans
        PROVE  RowAgrees(r)' /\ RowFollows(r)'
    <3>1. CASE scans[r] = "scanning"
      <4>1. pc[r] = "dead"
        BY <3>1, <1>16 DEF Restart
      <4> QED
        BY <1>16, <2>1, <2>2, <3>1, <4>1 DEF Restart, RecoveredStatus
    <3>2. CASE scans[r] # "scanning"
      BY <1>16, <2>1, <2>2, <3>2 DEF Restart, RecoveredStatus
    <3> QED
      BY <3>1, <3>2
  <2> QED
    BY <2>3
<1>17. CASE RestartUnrecovered
  BY <1>17 DEF RestartUnrecovered
<1>18. CASE UNCHANGED vars
  BY <1>18
<1> HIDE DEF IInv, TypeOK, ControlInv, RowInv, ReportInv, NoStrandedScan
<1> QED
  BY <1>1, <1>2, <1>3, <1>4, <1>5, <1>6, <1>7, <1>8, <1>9, <1>10,
      <1>11, <1>12, <1>13, <1>14, <1>15, <1>16, <1>17, <1>18 DEF Next, Advance

(* What targets, snapshots and alerts refer to stays grounded. *)
LEMMA ReportStep == IInv /\ [Next]_vars => ReportInv'
<1> SUFFICES ASSUME IInv, [Next]_vars
             PROVE  ReportInv'
  OBVIOUS
<1> USE NoneFresh DEF IInv, TypeOK, ControlInv, RowInv, RowAgrees, RowFollows, ReportInv,
            LastScanGrounded, SnapshotsGrounded, AlertsGrounded, RowStatus, PC, Running,
            Stopped, Kinds, OnLoopKinds, Terminal, Live, At, Goto, Step, StepAfter
<1>1. ASSUME NEW s \in Scans, NEW t \in Targets, NEW k \in {"now", "cron"},
             FetchTarget(s, t, k)
      PROVE  ReportInv'
  BY <1>1 DEF FetchTarget
<1>2. ASSUME NEW s \in Scans, NEW k \in OnLoopKinds, StartApiScan(s, k)
      PROVE  ReportInv'
  BY <1>2 DEF StartApiScan, CreateInitialScan
<1>3. ASSUME NEW s \in Scans, StartTargetScan(s)
      PROVE  ReportInv'
  BY <1>3 DEF StartTargetScan, CreateInitialScan
<1>4. ASSUME NEW s \in Scans, RunEngine(s)
      PROVE  ReportInv'
  BY <1>4 DEF RunEngine
<1>5. ASSUME NEW s \in Scans, RemoveExisting(s)
      PROVE  ReportInv'
  BY <1>5 DEF RemoveExisting
<1>6. ASSUME NEW s \in Scans, InsertConcluded(s)
      PROVE  ReportInv'
  BY <1>6 DEF InsertConcluded, FinalEvent
<1>7. ASSUME NEW s \in Scans, SaveCoverage(s)
      PROVE  ReportInv'
  BY <1>7 DEF SaveCoverage
<1>8. ASSUME NEW s \in Scans, UpdateTargetLastScan(s)
      PROVE  ReportInv'
  <2>1. kind[s] \notin OnLoopKinds /\ target[s] \in Targets
    BY <1>8 DEF UpdateTargetLastScan
  <2>2. scans[s] \in Terminal /\ s \in certs
    BY <1>8 DEF UpdateTargetLastScan
  <2>3. ASSUME NEW t \in Targets, lastScan'[t] # None
        PROVE  /\ scans'[lastScan'[t]] \in Terminal
               /\ lastScan'[t] \in certs'
               /\ target'[lastScan'[t]] = t
               /\ lastScanAt'[t] = startedAt'[lastScan'[t]]
               /\ pc'[lastScan'[t]] \in {"read", "snapshot", "alert"} \cup Stopped
    <3>1. CASE target[s] = t /\ t \in targets
      BY <1>8, <2>1, <2>2, <3>1 DEF UpdateTargetLastScan
    <3>2. CASE ~(target[s] = t /\ t \in targets)
      <4>1. lastScan'[t] = lastScan[t] /\ lastScanAt'[t] = lastScanAt[t]
        BY <1>8, <2>1, <3>2 DEF UpdateTargetLastScan
      <4> QED
        BY <1>8, <2>3, <4>1 DEF UpdateTargetLastScan
    <3> QED
      BY <3>1, <3>2
  <2>4. SnapshotsGrounded' /\ AlertsGrounded'
    BY <1>8 DEF UpdateTargetLastScan
  <2>5. \A x \in snapshots' : pc'[x.scan] \in {"alert", "ended", "dead"}
    BY <1>8 DEF UpdateTargetLastScan, Snapshot
  <2>6. \A r \in Scans :
         /\ pc'[r] \in {"snapshot", "alert"} => result'[r] = findings'[r]
         /\ pc'[r] = "alert" =>
              \E x \in snapshots' : x.scan = r /\ x.target = target'[r]
    BY <1>8 DEF UpdateTargetLastScan
  <2>7. \A a \in alerts' : a.target = target'[a.scan]
    BY <1>8 DEF UpdateTargetLastScan
  <2> QED
    BY <2>3, <2>4, <2>5, <2>6, <2>7
<1>9. ASSUME NEW s \in Scans, ListFindings(s)
      PROVE  ReportInv'
  BY <1>9 DEF ListFindings
<1>10. ASSUME NEW s \in Scans, CreateSnapshot(s)
       PROVE  ReportInv'
  <2> DEFINE new == [target |-> target[s], scan |-> s,
                     total |-> Cardinality(result[s]), certified |-> s \in certs]
  <2>1. snapshots' = snapshots \cup {new}
    BY <1>10 DEF CreateSnapshot
  <2>2. new.target = target[s] /\ new.scan = s /\ new.total = Cardinality(result[s])
    OBVIOUS
  <2>3. new.certified <=> s \in certs
    OBVIOUS
  <2>4. scans[s] \in Terminal /\ s \in certs /\ result[s] = findings[s]
    BY <1>10 DEF CreateSnapshot
  <2> HIDE DEF new
  <2>5. LastScanGrounded' /\ \A t \in Targets : lastScan'[t] # None =>
         pc'[lastScan'[t]] \in {"read", "snapshot", "alert"} \cup Stopped
    BY <1>10 DEF CreateSnapshot
  <2>6. SnapshotsGrounded'
    BY <1>10, <2>1, <2>2, <2>3, <2>4 DEF CreateSnapshot
  <2>7. AlertsGrounded' /\ \A a \in alerts' : a.target = target'[a.scan]
    BY <1>10, <2>1 DEF CreateSnapshot
  <2>8. \A x \in snapshots' : pc'[x.scan] \in {"alert", "ended", "dead"}
    BY <1>10, <2>1, <2>2 DEF CreateSnapshot, Snapshot
  <2>9. \A r \in Scans :
         /\ pc'[r] \in {"snapshot", "alert"} => result'[r] = findings'[r]
         /\ pc'[r] = "alert" =>
              \E x \in snapshots' : x.scan = r /\ x.target = target'[r]
    BY <1>10, <2>1, <2>2 DEF CreateSnapshot
  <2> QED
    BY <2>5, <2>6, <2>7, <2>8, <2>9
<1>11. ASSUME NEW s \in Scans, RaiseAlert(s)
       PROVE  ReportInv'
  BY <1>11 DEF RaiseAlert, Unalerted
<1>12. ASSUME NEW s \in Scans, EndTargetScan(s)
       PROVE  ReportInv'
  BY <1>12 DEF EndTargetScan
<1>13. ASSUME NEW s \in Scans, Abort(s)
       PROVE  ReportInv'
  BY <1>13 DEF Abort
<1>14. ASSUME NEW t \in Targets, DeleteTarget(t)
       PROVE  ReportInv'
  BY <1>14 DEF DeleteTarget
<1>15. CASE Crash
  BY <1>15 DEF Crash
<1>16. CASE Restart
  BY <1>16 DEF Restart, RecoveredStatus
<1>17. CASE RestartUnrecovered
  BY <1>17 DEF RestartUnrecovered
<1>18. CASE UNCHANGED vars
  BY <1>18
<1> HIDE DEF IInv, TypeOK, ControlInv, RowInv, ReportInv, NoStrandedScan
<1> QED
  BY <1>1, <1>2, <1>3, <1>4, <1>5, <1>6, <1>7, <1>8, <1>9, <1>10,
      <1>11, <1>12, <1>13, <1>14, <1>15, <1>16, <1>17, <1>18 DEF Next, Advance

(* Only pipelines of this process are left in SCANNING after a recovery. *)
LEMMA StrandedStep == IInv /\ [Next]_vars => NoStrandedScan'
<1> SUFFICES ASSUME IInv, [Next]_vars
             PROVE  NoStrandedScan'
  OBVIOUS
<1> USE DEF IInv, TypeOK, ControlInv, RowInv, RowAgrees, RowFollows, NoStrandedScan, RowStatus,
            PC,
            Running, Stopped, Terminal, Live, At, Goto, Step, StepAfter
<1>1. ASSUME NEW s \in Scans, NEW t \in Targets, NEW k \in {"now", "cron"},
             FetchTarget(s, t, k)
      PROVE  NoStrandedScan'
  BY <1>1 DEF FetchTarget
<1>2. ASSUME NEW s \in Scans, NEW k \in OnLoopKinds, StartApiScan(s, k)
      PROVE  NoStrandedScan'
  BY <1>2 DEF StartApiScan, CreateInitialScan
<1>3. ASSUME NEW s \in Scans, StartTargetScan(s)
      PROVE  NoStrandedScan'
  BY <1>3 DEF StartTargetScan, CreateInitialScan
<1>4. ASSUME NEW s \in Scans, RunEngine(s)
      PROVE  NoStrandedScan'
  BY <1>4 DEF RunEngine
<1>5. ASSUME NEW s \in Scans, RemoveExisting(s)
      PROVE  NoStrandedScan'
  BY <1>5 DEF RemoveExisting
<1>6. ASSUME NEW s \in Scans, InsertConcluded(s)
      PROVE  NoStrandedScan'
  BY <1>6 DEF InsertConcluded, FinalEvent
<1>7. ASSUME NEW s \in Scans, SaveCoverage(s)
      PROVE  NoStrandedScan'
  BY <1>7 DEF SaveCoverage
<1>8. ASSUME NEW s \in Scans, UpdateTargetLastScan(s)
      PROVE  NoStrandedScan'
  BY <1>8 DEF UpdateTargetLastScan
<1>9. ASSUME NEW s \in Scans, ListFindings(s)
      PROVE  NoStrandedScan'
  BY <1>9 DEF ListFindings
<1>10. ASSUME NEW s \in Scans, CreateSnapshot(s)
       PROVE  NoStrandedScan'
  BY <1>10 DEF CreateSnapshot
<1>11. ASSUME NEW s \in Scans, RaiseAlert(s)
       PROVE  NoStrandedScan'
  BY <1>11 DEF RaiseAlert, Unalerted
<1>12. ASSUME NEW s \in Scans, EndTargetScan(s)
       PROVE  NoStrandedScan'
  BY <1>12 DEF EndTargetScan
<1>13. ASSUME NEW s \in Scans, Abort(s)
       PROVE  NoStrandedScan'
  BY <1>13 DEF Abort
<1>14. ASSUME NEW t \in Targets, DeleteTarget(t)
       PROVE  NoStrandedScan'
  BY <1>14 DEF DeleteTarget
<1>15. CASE Crash
  BY <1>15 DEF Crash
<1>16. CASE Restart
  BY <1>16 DEF Restart, RecoveredStatus
<1>17. CASE RestartUnrecovered
  BY <1>17 DEF RestartUnrecovered
<1>18. CASE UNCHANGED vars
  BY <1>18
<1> HIDE DEF IInv, TypeOK, ControlInv, RowInv, ReportInv, NoStrandedScan
<1> QED
  BY <1>1, <1>2, <1>3, <1>4, <1>5, <1>6, <1>7, <1>8, <1>9, <1>10,
      <1>11, <1>12, <1>13, <1>14, <1>15, <1>16, <1>17, <1>18 DEF Next, Advance

(* The inductive invariant holds in every reachable state. *)
THEOREM InductiveInvariant == Spec => []IInv
<1>1. IInv /\ [Next]_vars => IInv'
  BY TypeStep, ControlStep, RowStep, ReportStep, StrandedStep DEF IInv
<1> QED
  BY InitIInv, <1>1, PTL DEF Spec

(* Every variable keeps its type in every behaviour. *)
THEOREM TypeCorrect == Spec => []TypeOK
<1>1. IInv => TypeOK
  BY DEF IInv
<1> QED
  BY InductiveInvariant, <1>1, PTL

(* Recovery leaves no row in SCANNING that no pipeline of this process owns. *)
THEOREM RecoveryComplete == Spec => []NoStrandedScan
<1>1. IInv => NoStrandedScan
  BY DEF IInv
<1> QED
  BY InductiveInvariant, <1>1, PTL

(* The tables of create_scan_from_result agree at every commit. *)
THEOREM RowsStayConsistent == Spec => []RowsAgree
<1>1. IInv => RowsAgree
  BY DEF IInv, RowInv, RowsAgree
<1> QED
  BY InductiveInvariant, <1>1, PTL

(* last_scan_id names, snapshots are of and alerts point into concluded,   *)
(* certified scans, wherever a pipeline was cut off.                       *)
THEOREM ReportsAreGrounded == Spec => []ReportsGrounded
<1>1. IInv => ReportsGrounded
  BY DEF IInv, ReportInv, ReportsGrounded
<1> QED
  BY InductiveInvariant, <1>1, PTL
-----------------------------------------------------------------------------
(* Refinement: the pipelines implement the abstract ScanRegistry, and the  *)
(* cron job alone never moves the last scan of a target back in time.      *)

(* What one step may do to the abstract entry of s: nothing to the others, *)
(* and for s a move of the registry or nothing.                            *)
EntryMoves(s, from, to) ==
    /\ \A r \in Scans \ {s} : Entry(r)' = Entry(r)
    /\ Entry(s) = from /\ Entry(s)' = to

(* A step that moves one entry is the registry's step of that entry. *)
LEMMA MoveIsBecome ==
  ASSUME NEW s \in Scans, NEW from, NEW to, EntryMoves(s, from, to)
  PROVE  Registry!Become(s, from, to)
<1>1. entryMap[s] = from
  BY DEF EntryMoves, entryMap
<1>2. entryMap' = [entryMap EXCEPT ![s] = to]
  BY DEF EntryMoves, entryMap
<1> QED
  BY <1>1, <1>2 DEF Registry!Become, entryMap

(* A step that keeps every entry is a stuttering step of the registry. *)
LEMMA SameIsStutter ==
  ASSUME \A r \in Scans : Entry(r)' = Entry(r)
  PROVE  UNCHANGED entryMap
BY DEF entryMap

(* A step shows nothing of r when it keeps the row of r and its registration, *)
(* and moves its pipeline into or out of "insert" only if there is a row.     *)
LEMMA EntryKept ==
  ASSUME NEW r \in Scans,
         scans'[r] = scans[r],
         <<"scan.start", r>> \in audit' <=> <<"scan.start", r>> \in audit,
         scans[r] = "absent" => (pc'[r] = "insert" <=> pc[r] = "insert")
  PROVE  Entry(r)' = Entry(r)
BY DEF Entry

(* The initial state of the pipelines is an empty registry. *)
LEMMA RegistryInitial == Init => Registry!RegistryInit
BY DEF Init, Entry, entryMap, Registry!RegistryInit

(* Every step of the pipelines is a step of the registry or a stutter. *)
LEMMA RegistryStep ==
  IInv /\ [Next]_vars => [Registry!RegistryNext]_entryMap
<1> DEFINE Goal == [Registry!RegistryNext]_entryMap
<1> SUFFICES ASSUME IInv, [Next]_vars
             PROVE  Goal
  OBVIOUS
<1>a. ASSUME NEW s \in Scans,
             \/ EntryMoves(s, "none", "scanning")
             \/ EntryMoves(s, "scanning", "replacing")
             \/ \E c \in Terminal : EntryMoves(s, "replacing", c)
             \/ EntryMoves(s, "replacing", "lost")
      PROVE  Goal
  BY <1>a, MoveIsBecome
  DEF Registry!RegistryNext, Registry!Register, Registry!Withdraw, Registry!Conclude,
      Registry!Forfeit, Registry!Concluded, Terminal
<1>b. ASSUME \A r \in Scans : Entry(r)' = Entry(r)
      PROVE  Goal
  BY <1>b, SameIsStutter
<1> HIDE DEF Goal
<1> USE DEF IInv, TypeOK, ControlInv, RowInv, RowFollows, RowStatus, PC, Running, Stopped,
            Kinds, OnLoopKinds, Terminal, Live, At, Goto, Step, StepAfter
<1>1. ASSUME NEW s \in Scans, NEW t \in Targets, NEW k \in {"now", "cron"},
             FetchTarget(s, t, k)
      PROVE  Goal
  <2>1. \A r \in Scans : Entry(r)' = Entry(r)
    BY <1>1 DEF FetchTarget, Entry
  <2> QED
    BY <2>1, <1>b
<1>2. ASSUME NEW s \in Scans, NEW k \in OnLoopKinds, StartApiScan(s, k)
      PROVE  Goal
  <2>1. \A a, z : <<a, z>> \in audit' <=>
                  <<a, z>> \in audit \/ (a = "scan.start" /\ z = s)
    BY <1>2, LoggedPair DEF StartApiScan, CreateInitialScan, Log
  <2>2. /\ scans[s] = "absent" /\ scans'[s] = "scanning"
        /\ <<"scan.start", s>> \notin audit
    BY <1>2 DEF StartApiScan, CreateInitialScan
  <2>3. ASSUME NEW r \in Scans \ {s}
        PROVE  Entry(r)' = Entry(r)
    <3>1. scans'[r] = scans[r] /\ pc'[r] = pc[r]
      BY <1>2 DEF StartApiScan, CreateInitialScan
    <3> QED
      BY <2>1, <3>1, EntryKept
  <2>4. EntryMoves(s, "none", "scanning")
    BY <2>2, <2>3 DEF Entry, EntryMoves
  <2> QED
    BY <2>4, <1>a
<1>3. ASSUME NEW s \in Scans, StartTargetScan(s)
      PROVE  Goal
  <2>1. \A a, z : <<a, z>> \in audit' <=>
                  <<a, z>> \in audit \/ (a = "scan.start" /\ z = s)
    BY <1>3, LoggedPair DEF StartTargetScan, CreateInitialScan, Log
  <2>2. /\ scans[s] = "absent" /\ scans'[s] = "scanning"
        /\ <<"scan.start", s>> \notin audit
    BY <1>3 DEF StartTargetScan, CreateInitialScan
  <2>3. ASSUME NEW r \in Scans \ {s}
        PROVE  Entry(r)' = Entry(r)
    <3>1. scans'[r] = scans[r] /\ pc'[r] = pc[r]
      BY <1>3 DEF StartTargetScan, CreateInitialScan
    <3> QED
      BY <2>1, <3>1, EntryKept
  <2>4. EntryMoves(s, "none", "scanning")
    BY <2>2, <2>3 DEF Entry, EntryMoves
  <2> QED
    BY <2>4, <1>a
<1>4. ASSUME NEW s \in Scans, RunEngine(s)
      PROVE  Goal
  <2>1. scans[s] = "scanning" /\ scans' = scans /\ audit' = audit
    BY <1>4 DEF RunEngine
  <2>2. \A r \in Scans \ {s} : pc'[r] = pc[r]
    BY <1>4 DEF RunEngine
  <2>3. \A r \in Scans : Entry(r)' = Entry(r)
    BY <2>1, <2>2, EntryKept
  <2> QED
    BY <2>3, <1>b
<1>5. ASSUME NEW s \in Scans, RemoveExisting(s)
      PROVE  Goal
  <2>1. /\ scans[s] = "scanning" /\ scans'[s] = "absent" /\ audit' = audit
        /\ <<"scan.start", s>> \in audit
    <3>1. pc[s] = "remove" /\ audit' = audit
      BY <1>5 DEF RemoveExisting
    <3>2. scans[s] = "scanning"
      BY <3>1
    <3>3. scans'[s] = "absent"
      BY <1>5, <3>2 DEF RemoveExisting
    <3> QED
      BY <3>1, <3>2, <3>3
  <2>2. pc'[s] = "insert"
    BY <1>5 DEF RemoveExisting
  <2>3. ASSUME NEW r \in Scans \ {s}
        PROVE  Entry(r)' = Entry(r)
    <3>1. scans'[r] = scans[r] /\ pc'[r] = pc[r]
      BY <1>5 DEF RemoveExisting
    <3> QED
      BY <2>1, <3>1, EntryKept
  <2>4. EntryMoves(s, "scanning", "replacing")
    BY <2>1, <2>2, <2>3 DEF Entry, EntryMoves
  <2> QED
    BY <2>4, <1>a
<1>6. ASSUME NEW s \in Scans, InsertConcluded(s)
      PROVE  Goal
  <2>1. \A a, z : <<a, z>> \in audit' <=>
                  <<a, z>> \in audit \/ (a = "scan.create" /\ z = s)
    BY <1>6, LoggedPair DEF InsertConcluded, Log
  <2>2. /\ scans[s] = "absent" /\ scans'[s] = outcome[s] /\ pc[s] = "insert"
        /\ <<"scan.start", s>> \in audit
    <3>1. pc[s] = "insert"
      BY <1>6 DEF InsertConcluded
    <3>2. scans[s] = "absent" /\ <<"scan.start", s>> \in audit
      BY <3>1
    <3>3. scans'[s] = outcome[s]
      BY <1>6, <3>2 DEF InsertConcluded
    <3> QED
      BY <3>1, <3>2, <3>3
  <2>3. outcome[s] \in Terminal
    OBVIOUS
  <2>4. ASSUME NEW r \in Scans \ {s}
        PROVE  Entry(r)' = Entry(r)
    <3>1. scans'[r] = scans[r] /\ pc'[r] = pc[r]
      BY <1>6 DEF InsertConcluded
    <3> QED
      BY <2>1, <3>1, EntryKept
  <2>5. EntryMoves(s, "replacing", outcome[s])
    BY <2>2, <2>3, <2>4 DEF Entry, EntryMoves
  <2> QED
    BY <2>3, <2>5, <1>a
<1>7. ASSUME NEW s \in Scans, SaveCoverage(s)
      PROVE  Goal
  <2>1. \A a, z : <<a, z>> \in audit' <=>
                  <<a, z>> \in audit \/ (a = "coverage.record" /\ z = s)
    BY <1>7, LoggedPair DEF SaveCoverage, Log
  <2>2. scans' = scans /\ \A r \in Scans \ {s} : pc'[r] = pc[r]
    BY <1>7 DEF SaveCoverage
  <2>3. pc[s] # "insert" /\ pc'[s] # "insert"
    BY <1>7 DEF SaveCoverage
  <2>4. ASSUME NEW r \in Scans
        PROVE  Entry(r)' = Entry(r)
    <3>1. <<"scan.start", r>> \in audit' <=> <<"scan.start", r>> \in audit
      BY <2>1
    <3>2. scans'[r] = scans[r] /\ (pc'[r] = "insert" <=> pc[r] = "insert")
      BY <2>2, <2>3
    <3> QED
      BY <3>1, <3>2, EntryKept
  <2> QED
    BY <2>4, <1>b
<1>8. ASSUME NEW s \in Scans, UpdateTargetLastScan(s)
      PROVE  Goal
  <2>1. \A r \in Scans : Entry(r)' = Entry(r)
    <3>1. scans' = scans /\ audit' = audit /\ \A r \in Scans \ {s} : pc'[r] = pc[r]
      BY <1>8 DEF UpdateTargetLastScan
    <3>2. pc[s] # "insert" /\ pc'[s] # "insert"
      BY <1>8 DEF UpdateTargetLastScan
    <3> QED
      BY <3>1, <3>2, EntryKept
  <2> QED
    BY <2>1, <1>b
<1>9. ASSUME NEW s \in Scans, ListFindings(s)
      PROVE  Goal
  <2>1. \A r \in Scans : Entry(r)' = Entry(r)
    <3>1. scans' = scans /\ audit' = audit /\ \A r \in Scans \ {s} : pc'[r] = pc[r]
      BY <1>9 DEF ListFindings
    <3>2. pc[s] # "insert" /\ pc'[s] # "insert"
      BY <1>9 DEF ListFindings
    <3> QED
      BY <3>1, <3>2, EntryKept
  <2> QED
    BY <2>1, <1>b
<1>10. ASSUME NEW s \in Scans, CreateSnapshot(s)
       PROVE  Goal
  <2>1. \A a, z : <<a, z>> \in audit' <=>
                  <<a, z>> \in audit \/ (a = "snapshot.create" /\ z = s)
    BY <1>10, LoggedPair DEF CreateSnapshot, Log
  <2>2. scans' = scans /\ \A r \in Scans \ {s} : pc'[r] = pc[r]
    BY <1>10 DEF CreateSnapshot
  <2>3. pc[s] # "insert" /\ pc'[s] # "insert"
    BY <1>10 DEF CreateSnapshot
  <2>4. ASSUME NEW r \in Scans
        PROVE  Entry(r)' = Entry(r)
    <3>1. <<"scan.start", r>> \in audit' <=> <<"scan.start", r>> \in audit
      BY <2>1
    <3>2. scans'[r] = scans[r] /\ (pc'[r] = "insert" <=> pc[r] = "insert")
      BY <2>2, <2>3
    <3> QED
      BY <3>1, <3>2, EntryKept
  <2> QED
    BY <2>4, <1>b
<1>11. ASSUME NEW s \in Scans, RaiseAlert(s)
       PROVE  Goal
  <2>1. \A a, z : <<a, z>> \in audit' <=>
                  <<a, z>> \in audit \/ (a = "alert.create" /\ z = s)
    BY <1>11, LoggedPair DEF RaiseAlert, Log
  <2>2. \A r \in Scans : Entry(r)' = Entry(r)
    BY <1>11, <2>1 DEF RaiseAlert, Entry
  <2> QED
    BY <2>2, <1>b
<1>12. ASSUME NEW s \in Scans, EndTargetScan(s)
       PROVE  Goal
  <2>1. \A r \in Scans : Entry(r)' = Entry(r)
    <3>1. scans' = scans /\ audit' = audit /\ \A r \in Scans \ {s} : pc'[r] = pc[r]
      BY <1>12 DEF EndTargetScan
    <3>2. pc[s] # "insert" /\ pc'[s] # "insert"
      BY <1>12 DEF EndTargetScan
    <3> QED
      BY <3>1, <3>2, EntryKept
  <2> QED
    BY <2>1, <1>b
<1>13. ASSUME NEW s \in Scans, Abort(s)
       PROVE  Goal
  <2>1. CASE pc[s] = "insert"
    <3>1. scans' = scans /\ audit' = audit /\ \A r \in Scans \ {s} : pc'[r] = pc[r]
      BY <1>13 DEF Abort
    <3>2. scans[s] = "absent" /\ <<"scan.start", s>> \in audit
      BY <2>1
    <3>3. pc'[s] # "insert"
      BY <1>13 DEF Abort
    <3>4. \A r \in Scans \ {s} : Entry(r)' = Entry(r)
      BY <3>1, EntryKept
    <3>5. Entry(s) = "replacing" /\ Entry(s)' = "lost"
      BY <2>1, <3>1, <3>2, <3>3 DEF Entry
    <3>6. EntryMoves(s, "replacing", "lost")
      BY <3>4, <3>5 DEF EntryMoves
    <3> QED
      BY <3>6, <1>a
  <2>2. CASE pc[s] # "insert"
    <3>1. scans' = scans /\ audit' = audit /\ \A r \in Scans \ {s} : pc'[r] = pc[r]
      BY <1>13 DEF Abort
    <3>2. pc'[s] # "insert"
      BY <1>13 DEF Abort
    <3>3. \A r \in Scans : Entry(r)' = Entry(r)
      BY <2>2, <3>1, <3>2, EntryKept
    <3> QED
      BY <3>3, <1>b
  <2> QED
    BY <2>1, <2>2
<1>14. ASSUME NEW t \in Targets, DeleteTarget(t)
       PROVE  Goal
  <2>1. \A a, z : <<a, z>> \in audit' <=>
                  <<a, z>> \in audit \/ (a = "target.delete" /\ z = t)
    BY <1>14, LoggedPair DEF DeleteTarget, Log
  <2>2. scans' = scans /\ pc' = pc
    BY <1>14 DEF DeleteTarget
  <2>3. \A r \in Scans : Entry(r)' = Entry(r)
    BY <2>1, <2>2, EntryKept
  <2> QED
    BY <2>3, <1>b
<1>15. CASE Crash
  <2>1. \A r \in Scans : Entry(r)' = IF Entry(r) = "replacing" THEN "lost" ELSE Entry(r)
    <3>1. scans' = scans /\ audit' = audit
      BY <1>15 DEF Crash
    <3>2. \A r \in Scans : pc'[r] # "insert"
      BY <1>15 DEF Crash
    <3> QED
      BY <3>1, <3>2 DEF Entry
  <2>2. Registry!Interrupt
    BY <2>1 DEF entryMap, Registry!Interrupt
  <2> QED
    BY <2>2 DEF Goal, Registry!RegistryNext
<1>16. CASE Restart
  <2>1. \A r \in Scans : Entry(r) # "replacing"
    BY <1>16 DEF Restart, Entry
  <2>2. \A r \in Scans : <<"scan.start", r>> \in audit' <=> <<"scan.start", r>> \in audit
    BY <1>16 DEF Restart
  <2>3. \A r \in Scans : Entry(r)' = IF Entry(r) = "scanning" THEN "failed" ELSE Entry(r)
    BY <1>16, <2>2 DEF Restart, RecoveredStatus, Entry
  <2>4. Registry!Reconcile
    BY <2>1, <2>3 DEF entryMap, Registry!Reconcile
  <2> QED
    BY <2>4 DEF Goal, Registry!RegistryNext
<1>17. CASE RestartUnrecovered
  <2>1. \A r \in Scans : Entry(r)' = Entry(r)
    BY <1>17 DEF RestartUnrecovered, Entry
  <2> QED
    BY <2>1, <1>b
<1>18. CASE UNCHANGED vars
  <2>1. \A r \in Scans : Entry(r)' = Entry(r)
    BY <1>18 DEF Entry
  <2> QED
    BY <2>1, <1>b
<1> HIDE DEF IInv, TypeOK, ControlInv, RowInv, RowFollows
<1> QED
  BY <1>1, <1>2, <1>3, <1>4, <1>5, <1>6, <1>7, <1>8, <1>9, <1>10,
      <1>11, <1>12, <1>13, <1>14, <1>15, <1>16, <1>17, <1>18 DEF Next, Advance

(* Crashes, errors and interleavings included, polling a scan id never     *)
(* shows more than the registry promises.                                  *)
THEOREM PipelineRefinesRegistry == Spec => RefinesRegistry
<1>1. Init => Registry!RegistryInit
  BY RegistryInitial
<1>2. IInv /\ [Next]_vars => [Registry!RegistryNext]_entryMap
  BY RegistryStep
<1>3. Spec => Registry!RegistrySpec
  BY <1>1, <1>2, InductiveInvariant, PTL DEF Spec, Registry!RegistrySpec
<1> QED
  BY <1>3 DEF RefinesRegistry
-----------------------------------------------------------------------------
(* A live job of a target started after every other job of it that has     *)
(* started, and a target is the business of target scans only.             *)
CronInv ==
    /\ \A t \in Targets : lastScan[t] = None => lastScanAt[t] = 0
    /\ \A s \in Scans : startedAt[s] <= clock
    /\ \A s \in Scans : kind[s] \in OnLoopKinds => target[s] = None
    /\ \A s \in Scans : pc[s] = "idle" => kind[s] = "api"
    /\ \A r, s \in Scans :
         /\ r # s /\ Live(s)
         /\ kind[r] = "cron" /\ kind[s] = "cron" /\ target[r] = target[s]
         => startedAt[r] < startedAt[s]

(* CronInv is kept by every step. *)
LEMMA CronStep == IInv /\ CronInv /\ [Next]_vars => CronInv'
<1> SUFFICES ASSUME IInv, CronInv, [Next]_vars
             PROVE  CronInv'
  OBVIOUS
<1> USE NoneFresh DEF IInv, TypeOK, ControlInv, CronInv, RowStatus, PC, Running, Stopped,
            Kinds, OnLoopKinds, Live, At, Goto, Step, StepAfter
<1>1. ASSUME NEW s \in Scans, NEW t \in Targets, NEW k \in {"now", "cron"},
             FetchTarget(s, t, k)
      PROVE  CronInv'
  BY <1>1 DEF FetchTarget, JobSlotFree
<1>2. ASSUME NEW s \in Scans, NEW k \in OnLoopKinds, StartApiScan(s, k)
      PROVE  CronInv'
  BY <1>2 DEF StartApiScan, CreateInitialScan
<1>3. ASSUME NEW s \in Scans, StartTargetScan(s)
      PROVE  CronInv'
  BY <1>3 DEF StartTargetScan, CreateInitialScan
<1>4. ASSUME NEW s \in Scans, RunEngine(s)
      PROVE  CronInv'
  BY <1>4 DEF RunEngine
<1>5. ASSUME NEW s \in Scans, RemoveExisting(s)
      PROVE  CronInv'
  BY <1>5 DEF RemoveExisting
<1>6. ASSUME NEW s \in Scans, InsertConcluded(s)
      PROVE  CronInv'
  BY <1>6 DEF InsertConcluded, FinalEvent
<1>7. ASSUME NEW s \in Scans, SaveCoverage(s)
      PROVE  CronInv'
  BY <1>7 DEF SaveCoverage
<1>8. ASSUME NEW s \in Scans, UpdateTargetLastScan(s)
      PROVE  CronInv'
  BY <1>8 DEF UpdateTargetLastScan
<1>9. ASSUME NEW s \in Scans, ListFindings(s)
      PROVE  CronInv'
  BY <1>9 DEF ListFindings
<1>10. ASSUME NEW s \in Scans, CreateSnapshot(s)
       PROVE  CronInv'
  BY <1>10 DEF CreateSnapshot
<1>11. ASSUME NEW s \in Scans, RaiseAlert(s)
       PROVE  CronInv'
  BY <1>11 DEF RaiseAlert, Unalerted
<1>12. ASSUME NEW s \in Scans, EndTargetScan(s)
       PROVE  CronInv'
  BY <1>12 DEF EndTargetScan
<1>13. ASSUME NEW s \in Scans, Abort(s)
       PROVE  CronInv'
  BY <1>13 DEF Abort
<1>14. ASSUME NEW t \in Targets, DeleteTarget(t)
       PROVE  CronInv'
  BY <1>14 DEF DeleteTarget
<1>15. CASE Crash
  BY <1>15 DEF Crash
<1>16. CASE Restart
  BY <1>16 DEF Restart, RecoveredStatus
<1>17. CASE RestartUnrecovered
  BY <1>17 DEF RestartUnrecovered
<1>18. CASE UNCHANGED vars
  BY <1>18
<1> HIDE DEF IInv, TypeOK, ControlInv, CronInv
<1> QED
  BY <1>1, <1>2, <1>3, <1>4, <1>5, <1>6, <1>7, <1>8, <1>9, <1>10,
      <1>11, <1>12, <1>13, <1>14, <1>15, <1>16, <1>17, <1>18 DEF Next, Advance

(* Between scheduled scans last_scan_at never decreases. *)
THEOREM CronNeverRegresses == Spec => OnlyScanNowRegresses
<1> DEFINE Forward == \A t \in Targets : lastScanAt'[t] < lastScanAt[t] =>
                        "now" \in {kind[lastScan[t]], kind[lastScan'[t]]}
<1>1. Init => CronInv
  BY DEF Init, CronInv, Live, Running, OnLoopKinds
<1>2. IInv /\ CronInv /\ [Next]_vars => [Forward]_vars
  <2> SUFFICES ASSUME IInv, CronInv, Next, NEW t \in Targets, lastScanAt'[t] < lastScanAt[t]
               PROVE  "now" \in {kind[lastScan[t]], kind[lastScan'[t]]}
    OBVIOUS
  <2>1. PICK s \in Scans : UpdateTargetLastScan(s)
    <3>1. \/ \E s \in Scans : UpdateTargetLastScan(s)
          \/ lastScanAt' = lastScanAt
      BY DEF Next, Advance, FetchTarget, StartApiScan, StartTargetScan, CreateInitialScan,
             RunEngine, RemoveExisting, InsertConcluded, SaveCoverage, ListFindings,
             CreateSnapshot, RaiseAlert, EndTargetScan, Abort, DeleteTarget, Crash,
             Restart, RestartUnrecovered
    <3>2. lastScanAt[t] \in Nat
      BY DEF IInv, TypeOK
    <3> QED
      BY <3>1, <3>2
  <2>2. target[s] = t /\ lastScan'[t] = s /\ lastScanAt'[t] = startedAt[s]
        /\ Live(s) /\ kind[s] \in {"now", "cron"}
    BY <2>1 DEF UpdateTargetLastScan, At, Live, Running, IInv, TypeOK, ControlInv, Kinds,
                OnLoopKinds
  <2>3. startedAt[s] \in Nat /\ lastScanAt[t] \in Nat /\ lastScan[t] \in Scans \cup {None}
    BY DEF IInv, TypeOK
  <2>4. lastScan[t] \in Scans
    BY <2>2, <2>3 DEF CronInv
  <2>5. target[lastScan[t]] = t /\ lastScanAt[t] = startedAt[lastScan[t]]
    BY <2>4, NoneFresh DEF IInv, ReportInv, LastScanGrounded
  <2>6. kind[lastScan[t]] \in {"now", "cron"}
    BY <2>4, <2>5, NoneFresh DEF CronInv, IInv, TypeOK, Kinds, OnLoopKinds
  <2>7. ~(kind[lastScan[t]] = "cron" /\ kind[s] = "cron")
    BY <2>2, <2>3, <2>4, <2>5 DEF CronInv
  <2> QED
    BY <2>2, <2>6, <2>7
<1>3. Spec => []CronInv
  BY <1>1, CronStep, InductiveInvariant, PTL DEF Spec
<1> QED
  BY <1>2, <1>3, InductiveInvariant, PTL DEF Spec, OnlyScanNowRegresses
=============================================================================
