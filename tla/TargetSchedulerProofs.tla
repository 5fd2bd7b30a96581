----------------------- MODULE TargetSchedulerProofs -----------------------
(***************************************************************************)
(* Proofs about TargetScheduler for any targets, threads, schedules and    *)
(* number of restarts.                                                     *)
(***************************************************************************)
EXTENDS TargetScheduler, TLAPS

USE DEF vars, request

(* A row asks for a trigger or for none. *)
LEMMA JobForType ==
  ASSUME NEW row \in Row \cup {None}
  PROVE  JobFor(row) \in Triggers \cup {None}
BY NoneIsFresh DEF JobFor, Row, Triggers

(* A patched row is a row. *)
LEMMA PatchedRow ==
  ASSUME NEW row \in Row, NEW e \in BOOLEAN \cup {None}, NEW x \in Schedules \cup {None}
  PROVE  [enabled |-> Given(e, row.enabled), schedule |-> Given(x, row.schedule)] \in Row
<1>1. Given(e, row.enabled) \in BOOLEAN
  BY NoneIsFresh DEF Given, Row
<1>2. Given(x, row.schedule) \in Schedules
  BY NoneIsFresh DEF Given, Row
<1> QED
  BY <1>1, <1>2 DEF Row

(* The initial state satisfies the invariant. *)
LEMMA SyncInit == Init => SyncInv
<1> SUFFICES ASSUME Init PROVE SyncInv
  OBVIOUS
<1>1. TypeOK
  BY CrashesAssumption DEF Init, TypeOK
<1>2. RequestInv
  BY DEF Init, RequestInv, Busy
<1>3. AloneInv
  BY DEF Init, AloneInv, BusyOn, Busy
<1>4. JobFollowsRow
  BY DEF Init, JobFollowsRow, JobFor
<1> QED
  BY <1>1, <1>2, <1>3, <1>4 DEF SyncInv

(* The variables keep their types. *)
LEMMA TypeStep == TypeOK /\ RequestInv /\ [Next]_vars => TypeOK'
<1> SUFFICES ASSUME TypeOK, RequestInv, [Next]_vars
             PROVE  TypeOK'
  OBVIOUS
<1> USE CrashesAssumption DEF TypeOK, RequestInv, Goto, Busy
<1>1. ASSUME NEW h \in Handlers, NEW t \in Targets, NEW row \in Row, CreateTarget(h, t, row)
      PROVE  TypeOK'
  BY <1>1 DEF CreateTarget, Accept, InProgress
<1>2. ASSUME NEW h \in Handlers, NEW t \in Targets, NEW e \in BOOLEAN \cup {None},
             NEW x \in Schedules \cup {None}, PatchTarget(h, t, e, x)
      PROVE  TypeOK'
  <2>1. [enabled |-> Given(e, rows[t].enabled), schedule |-> Given(x, rows[t].schedule)] \in Row
    BY <1>2, PatchedRow DEF PatchTarget
  <2> QED
    BY <1>2, <2>1 DEF PatchTarget, Accept, InProgress
<1>3. ASSUME NEW h \in Handlers, NEW t \in Targets, DeleteTarget(h, t)
      PROVE  TypeOK'
  BY <1>3 DEF DeleteTarget, Accept, InProgress
<1>4. ASSUME NEW h \in Handlers, RefreshCopy(h)
      PROVE  TypeOK'
  BY <1>4 DEF RefreshCopy
<1>5. ASSUME NEW h \in Handlers, GetJob(h)
      PROVE  TypeOK'
  BY <1>5 DEF GetJob, HasJob
<1>6. ASSUME NEW h \in Handlers, RemoveJob(h)
      PROVE  TypeOK'
  BY <1>6 DEF RemoveJob, HasJob
<1>7. ASSUME NEW h \in Handlers, AddJob(h)
      PROVE  TypeOK'
  <2>1. target[h] \in Targets /\ copy[h] \in Row \cup {None}
    BY <1>7 DEF AddJob
  <2>2. JobFor(copy[h]) \in Triggers \cup {None}
    BY <2>1, JobForType
  <2>3. jobs' \in [Targets -> Triggers \cup {None}]
    BY <1>7, <2>1, <2>2 DEF AddJob
  <2>4. pc' \in [Handlers -> {"idle", "failed"} \cup Busy]
    BY <1>7 DEF AddJob
  <2>5. UNCHANGED <<rows, used, target, copy, up, suspect, crashes>>
    BY <1>7 DEF AddJob
  <2> HIDE DEF Busy, Goto, RequestInv
  <2> QED
    BY <2>3, <2>4, <2>5
<1>8. CASE Crash
  <2>1. crashes' \in 0..MaxCrashes
    <3>1. crashes \in 0..MaxCrashes /\ crashes < MaxCrashes /\ crashes' = crashes + 1
      BY <1>8 DEF Crash
    <3> HIDE DEF TypeOK, Busy, Goto, RequestInv
    <3> QED
      BY <3>1, CrashesAssumption
  <2>2. /\ jobs' \in [Targets -> Triggers \cup {None}]
        /\ pc' \in [Handlers -> {"idle", "failed"} \cup Busy]
    BY <1>8 DEF Crash
  <2> QED
    BY <1>8, <2>1, <2>2 DEF Crash
<1>9. CASE Restart
  BY <1>9, JobForType DEF Restart, SyncedJobs
<1>10. CASE RestartUnsynced
  BY <1>10 DEF RestartUnsynced
<1>11. CASE UNCHANGED vars
  BY <1>11
<1> QED
  BY <1>1, <1>2, <1>3, <1>4, <1>5, <1>6, <1>7, <1>8, <1>9, <1>10, <1>11 DEF Next

(* A request that is under way belongs to a process that is up. *)
LEMMA RequestStep == TypeOK /\ RequestInv /\ [Next]_vars => RequestInv'
<1> SUFFICES ASSUME TypeOK, RequestInv, [Next]_vars
             PROVE  RequestInv'
  OBVIOUS
<1> USE DEF TypeOK, RequestInv, Goto, Busy
<1>1. ASSUME NEW h \in Handlers, NEW t \in Targets, Accept(h, t), up' = up,
             pc' = [pc EXCEPT ![h] = pc'[h]]
      PROVE  RequestInv'
  BY <1>1 DEF Accept
<1>2. ASSUME NEW h \in Handlers, RefreshCopy(h) \/ GetJob(h) \/ RemoveJob(h) \/ AddJob(h)
      PROVE  RequestInv'
  BY <1>2 DEF RefreshCopy, GetJob, RemoveJob, AddJob
<1>3. CASE Crash
  BY <1>3 DEF Crash
<1>4. CASE Restart \/ RestartUnsynced
  BY <1>4 DEF Restart, RestartUnsynced
<1>5. CASE UNCHANGED vars
  BY <1>5
<1>6. ASSUME NEW h \in Handlers, NEW t \in Targets,
             \/ \E row \in Row : CreateTarget(h, t, row)
             \/ \E e \in BOOLEAN \cup {None}, x \in Schedules \cup {None} :
                  PatchTarget(h, t, e, x)
             \/ DeleteTarget(h, t)
      PROVE  Accept(h, t) /\ up' = up /\ pc' = [pc EXCEPT ![h] = pc'[h]]
  BY <1>6 DEF CreateTarget, PatchTarget, DeleteTarget
<1> QED
  BY <1>1, <1>2, <1>3, <1>4, <1>5, <1>6 DEF Next

(* What the invariant says of one target. *)
Agreed(t) ==
    /\ ~suspect[t] => /\ \A g, h \in BusyOn(t) : g = h
                      /\ \A h \in BusyOn(t) : Knows(h, t)
    /\ up /\ ~suspect[t] /\ BusyOn(t) = {} => jobs[t] = JobFor(rows[t])

(* The two invariants are what it says of every target. *)
LEMMA AgreedEverywhere == AloneInv /\ JobFollowsRow <=> \A t \in Targets : Agreed(t)
BY DEF AloneInv, JobFollowsRow, Agreed, InProgress, BusyOn

(* A step of the request in h, about t, is nothing to another target. *)
LEMMA OtherTargets ==
  ASSUME NEW h \in Handlers, NEW t \in Targets, NEW u \in Targets \ {t},
         Agreed(u), up' = up,
         rows'[u] = rows[u], jobs'[u] = jobs[u], suspect'[u] = suspect[u],
         \A g \in Handlers \ {h} : pc'[g] = pc[g] /\ target'[g] = target[g] /\ copy'[g] = copy[g],
         target'[h] = t, pc[h] \in Busy => target[h] = t
  PROVE  Agreed(u)'
<1>1. BusyOn(u)' = BusyOn(u) /\ h \notin BusyOn(u)
  BY DEF BusyOn
<1>2. \A g \in BusyOn(u) : Knows(g, u) => Knows(g, u)'
  BY <1>1 DEF BusyOn, Knows
<1>3. JobFor(rows[u])' = JobFor(rows[u])
  BY DEF JobFor
<1> QED
  BY <1>1, <1>2, <1>3 DEF Agreed

(* A request that is alone on t keeps to what it must know.  When it ends  *)
(* it leaves the job that the row asks for.                                *)
LEMMA OwnTarget ==
  ASSUME NEW h \in Handlers, NEW t \in Targets,
         \A g \in Handlers \ {h} : target'[g] = t => pc'[g] \notin Busy,
         pc'[h] \in Busy => Knows(h, t)',
         pc'[h] \notin Busy => jobs'[t] = JobFor(rows[t])',
         target'[h] = t
  PROVE  Agreed(t)'
<1>1. \A g \in BusyOn(t)' : g = h
  BY DEF BusyOn
<1>2. \A g \in BusyOn(t)' : Knows(g, t)'
  BY <1>1 DEF BusyOn
<1>3. BusyOn(t)' = {} => pc'[h] \notin Busy \/ target'[h] # t
  BY DEF BusyOn
<1> QED
  BY <1>1, <1>2, <1>3 DEF Agreed
(* What a step of the request in h about t leaves alone. *)
Frame(h, t) ==
    /\ up' = up /\ target'[h] = t
    /\ \A g \in Handlers \ {h} : pc'[g] = pc[g] /\ target'[g] = target[g] /\ copy'[g] = copy[g]
    /\ \A u \in Targets \ {t} : rows'[u] = rows[u] /\ jobs'[u] = jobs[u] /\ suspect'[u] = suspect[u]

(* A request that enters its handler alone, and one that is alone in its   *)
(* handler, keeps every target agreed if it keeps to what it must know.    *)
LEMMA AcceptedRequest ==
  ASSUME SyncInv, NEW h \in Handlers, NEW t \in Targets, Accept(h, t), Frame(h, t),
         ~suspect'[t] => pc'[h] \in Busy /\ Knows(h, t)'
  PROVE  \A u \in Targets : Agreed(u)'
<1>1. ASSUME NEW u \in Targets \ {t}
      PROVE  Agreed(u)'
  BY AgreedEverywhere, OtherTargets DEF SyncInv, Frame, Accept
<1>2. ASSUME suspect'[t]
      PROVE  Agreed(t)'
  BY <1>2 DEF Agreed
<1>3. ASSUME ~suspect'[t]
      PROVE  Agreed(t)'
  <2>1. \A g \in Handlers : target[g] = t => pc[g] \notin Busy
    BY <1>3 DEF Accept, InProgress, SyncInv, TypeOK
  <2> QED
    BY <1>3, <2>1, OwnTarget DEF Frame
<1>4. Agreed(t)'
  BY <1>2, <1>3
<1> QED
  BY <1>1, <1>4

LEMMA ContinuedRequest ==
  ASSUME SyncInv, NEW h \in Handlers, NEW t \in Targets, target[h] = t, pc[h] \in Busy,
         Frame(h, t), suspect' = suspect,
         ~suspect[t] /\ Knows(h, t) => /\ pc'[h] \in Busy => Knows(h, t)'
                                       /\ pc'[h] \notin Busy => jobs'[t] = JobFor(rows[t])'
  PROVE  \A u \in Targets : Agreed(u)'
<1>1. ASSUME NEW u \in Targets \ {t}
      PROVE  Agreed(u)'
  BY AgreedEverywhere, OtherTargets DEF SyncInv, Frame
<1>2. ASSUME suspect[t]
      PROVE  Agreed(t)'
  BY <1>2 DEF Agreed
<1>3. ASSUME ~suspect[t]
      PROVE  Agreed(t)'
  <2>1. h \in BusyOn(t)
    BY DEF BusyOn
  <2>2. \A g \in Handlers \ {h} : target[g] = t => pc[g] \notin Busy
    BY <1>3, <2>1 DEF SyncInv, AloneInv, BusyOn
  <2>3. Knows(h, t)
    BY <1>3, <2>1 DEF SyncInv, AloneInv
  <2>4. \A g \in Handlers \ {h} : target'[g] = t => pc'[g] \notin Busy
    BY <2>2 DEF Frame
  <2> QED
    BY <1>3, <2>3, <2>4, OwnTarget DEF Frame
<1>4. Agreed(t)'
  BY <1>2, <1>3
<1> QED
  BY <1>1, <1>4

(* The one request for a target that is not suspect knows the row and the  *)
(* job of the target, and leaves them in agreement when it ends.           *)
LEMMA AloneStep == SyncInv /\ [Next]_vars => AloneInv' /\ JobFollowsRow'
<1> SUFFICES ASSUME SyncInv, [Next]_vars
             PROVE  \A u \in Targets : Agreed(u)'
  BY DEF AloneInv, JobFollowsRow, Agreed, InProgress, BusyOn
<1> DEFINE Goal == \A u \in Targets : Agreed(u)'
<1>t. TypeOK
  BY DEF SyncInv
<1>1. ASSUME NEW h \in Handlers, NEW t \in Targets, NEW row \in Row, CreateTarget(h, t, row)
      PROVE  Goal
  <2>1. Accept(h, t) /\ Frame(h, t)
    BY <1>1, <1>t DEF CreateTarget, Accept, Frame, TypeOK, Goto
  <2>2. pc'[h] = "get" /\ rows'[t] = row /\ copy'[h] = row
    BY <1>1, <1>t DEF CreateTarget, TypeOK, Goto
  <2>3. pc'[h] \in Busy /\ Knows(h, t)'
    BY <2>2, NoneIsFresh DEF Knows, Busy
  <2> QED
    BY <2>1, <2>3, AcceptedRequest
<1>2. ASSUME NEW h \in Handlers, NEW t \in Targets, NEW e \in BOOLEAN \cup {None},
             NEW x \in Schedules \cup {None}, PatchTarget(h, t, e, x)
      PROVE  Goal
  <2>1. Accept(h, t) /\ Frame(h, t)
    BY <1>2, <1>t DEF PatchTarget, Accept, Frame, TypeOK, Goto
  <2>2. pc'[h] = "refresh" /\ rows'[t] \in Row
    BY <1>2, <1>t, PatchedRow DEF PatchTarget, TypeOK, Goto
  <2>3. pc'[h] \in Busy /\ Knows(h, t)'
    BY <2>2, NoneIsFresh DEF Knows, Busy
  <2> QED
    BY <2>1, <2>3, AcceptedRequest
<1>3. ASSUME NEW h \in Handlers, NEW t \in Targets, DeleteTarget(h, t)
      PROVE  Goal
  <2>1. Accept(h, t) /\ Frame(h, t)
    BY <1>3, <1>t DEF DeleteTarget, Accept, Frame, TypeOK, Goto
  <2>2. pc'[h] = "get for delete" /\ rows'[t] = None
    BY <1>3, <1>t DEF DeleteTarget, TypeOK, Goto
  <2>3. pc'[h] \in Busy /\ Knows(h, t)'
    BY <2>2 DEF Knows, Busy
  <2> QED
    BY <2>1, <2>3, AcceptedRequest
<1>4. ASSUME NEW h \in Handlers, RefreshCopy(h)
      PROVE  Goal
  <2>b. pc[h] \in Busy
    BY <1>4 DEF RefreshCopy, Busy
  <2>t. PICK t \in Targets : target[h] = t
    BY <2>b DEF SyncInv, RequestInv
  <2>1. Frame(h, t) /\ suspect' = suspect
    BY <1>4, <1>t, <2>t DEF RefreshCopy, Frame, TypeOK, Goto
  <2>2. Knows(h, t) => pc'[h] = "get" /\ copy'[h] = rows'[t] /\ rows'[t] # None
    BY <1>4, <1>t, <2>t DEF RefreshCopy, Knows, TypeOK, Goto
  <2>3. Knows(h, t) => pc'[h] \in Busy /\ Knows(h, t)'
    BY <2>2 DEF Knows, Busy
  <2> QED
    BY <2>b, <2>t, <2>1, <2>3, ContinuedRequest
<1>5. ASSUME NEW h \in Handlers, GetJob(h)
      PROVE  Goal
  <2>b. pc[h] \in Busy
    BY <1>5 DEF GetJob, Busy
  <2>t. PICK t \in Targets : target[h] = t
    BY <2>b DEF SyncInv, RequestInv
  <2>1. Frame(h, t) /\ suspect' = suspect
    BY <1>5, <1>t, <2>t DEF GetJob, Frame, TypeOK, Goto
  <2>2. UNCHANGED <<rows, jobs, copy>>
    BY <1>5 DEF GetJob
  <2>3. Knows(h, t) => /\ pc'[h] \in Busy => Knows(h, t)'
                       /\ pc'[h] \notin Busy => jobs'[t] = JobFor(rows[t])'
    <3>1. CASE pc[h] = "get"
      BY <1>5, <1>t, <2>t, <2>2, <3>1 DEF GetJob, HasJob, Knows, TypeOK, Goto, Busy
    <3>2. CASE pc[h] = "get for delete"
      BY <1>5, <1>t, <2>t, <2>2, <3>2 DEF GetJob, HasJob, Knows, TypeOK, Goto, Busy, JobFor
    <3> QED
      BY <1>5, <3>1, <3>2 DEF GetJob
  <2> QED
    BY <2>b, <2>t, <2>1, <2>3, ContinuedRequest
<1>6. ASSUME NEW h \in Handlers, RemoveJob(h)
      PROVE  Goal
  <2>b. pc[h] \in Busy
    BY <1>6 DEF RemoveJob, Busy
  <2>t. PICK t \in Targets : target[h] = t
    BY <2>b DEF SyncInv, RequestInv
  <2>1. Frame(h, t) /\ suspect' = suspect
    BY <1>6, <1>t, <2>t DEF RemoveJob, Frame, TypeOK, Goto
  <2>2. UNCHANGED <<rows, copy>>
    BY <1>6 DEF RemoveJob
  <2>3. Knows(h, t) => /\ pc'[h] \in Busy => Knows(h, t)'
                       /\ pc'[h] \notin Busy => jobs'[t] = JobFor(rows[t])'
    <3>1. CASE pc[h] = "remove"
      BY <1>6, <1>t, <2>t, <2>2, <3>1 DEF RemoveJob, HasJob, Knows, TypeOK, Goto, Busy
    <3>2. CASE pc[h] = "remove for delete"
      BY <1>6, <1>t, <2>t, <2>2, <3>2 DEF RemoveJob, HasJob, Knows, TypeOK, Goto, Busy, JobFor
    <3> QED
      BY <1>6, <3>1, <3>2 DEF RemoveJob
  <2> QED
    BY <2>b, <2>t, <2>1, <2>3, ContinuedRequest
<1>7. ASSUME NEW h \in Handlers, AddJob(h)
      PROVE  Goal
  <2>b. pc[h] \in Busy
    BY <1>7 DEF AddJob, Busy
  <2>t. PICK t \in Targets : target[h] = t
    BY <2>b DEF SyncInv, RequestInv
  <2>1. Frame(h, t) /\ suspect' = suspect
    BY <1>7, <1>t, <2>t DEF AddJob, Frame, TypeOK, Goto
  <2>2. pc[h] = "add" /\ pc'[h] = "idle" /\ rows' = rows
    BY <1>7, <1>t DEF AddJob, TypeOK, Goto
  <2>4. Knows(h, t) => jobs[t] = None /\ copy[h] = rows[t]
    BY <2>2 DEF Knows
  <2>5. Knows(h, t) => jobs'[t] = JobFor(rows[t])
    BY <1>7, <1>t, <2>t, <2>4 DEF AddJob, TypeOK
  <2>6. JobFor(rows[t])' = JobFor(rows[t])
    BY <2>2 DEF JobFor
  <2>3. Knows(h, t) => /\ pc'[h] \in Busy => Knows(h, t)'
                       /\ pc'[h] \notin Busy => jobs'[t] = JobFor(rows[t])'
    BY <2>2, <2>5, <2>6 DEF Busy
  <2> QED
    BY <2>b, <2>t, <2>1, <2>3, ContinuedRequest
<1>8. CASE Crash
  BY <1>8, <1>t DEF Crash, Agreed, BusyOn, Busy, TypeOK
<1>9. CASE Restart
  <2>1. \A u \in Targets : BusyOn(u)' = {}
    BY <1>9 DEF Restart, SyncInv, RequestInv, BusyOn
  <2>2. \A u \in Targets : jobs'[u] = JobFor(rows[u])'
    BY <1>9 DEF Restart, SyncedJobs, JobFor
  <2> QED
    BY <2>1, <2>2 DEF Agreed
<1>10. CASE RestartUnsynced
  BY <1>10 DEF RestartUnsynced, Agreed
<1>11. CASE UNCHANGED vars
  <2>1. \A u \in Targets : Agreed(u)
    BY AgreedEverywhere DEF SyncInv
  <2>2. \A u \in Targets : BusyOn(u)' = BusyOn(u)
    BY <1>11 DEF BusyOn
  <2>3. \A u \in Targets, h \in Handlers : Knows(h, u)' = Knows(h, u)
    BY <1>11 DEF Knows
  <2>4. \A u \in Targets : JobFor(rows[u])' = JobFor(rows[u])
    BY <1>11 DEF JobFor
  <2>5. \A u \in Targets : BusyOn(u) \subseteq Handlers
    BY DEF BusyOn
  <2> QED
    BY <1>11, <2>1, <2>2, <2>3, <2>4, <2>5 DEF Agreed
<1> QED
  BY <1>1, <1>2, <1>3, <1>4, <1>5, <1>6, <1>7, <1>8, <1>9, <1>10, <1>11 DEF Next

(* The strengthening holds in every reachable state. *)
THEOREM SyncInvariant == Spec => []SyncInv
<1>1. SyncInv /\ [Next]_vars => SyncInv'
  BY TypeStep, RequestStep, AloneStep DEF SyncInv
<1> QED
  BY SyncInit, <1>1, PTL DEF Spec

(* Requests that do not overlap keep the scheduler in step with the rows.  *)
THEOREM JobsFollowRows == Spec => []JobFollowsRow
<1>1. SyncInv => JobFollowsRow
  BY DEF SyncInv
<1> QED
  BY <1>1, SyncInvariant, PTL

(* A request that is alone on its target is answered without an error.     *)
THEOREM LoneRequestsSucceed == Spec => OnlyOverlapFails
<1> DEFINE Fails == \A h \in Handlers :
                      pc[h] \in Busy /\ pc'[h] = "failed" => suspect[target[h]]
<1>1. SyncInv /\ [Next]_vars => [Fails]_vars
  <2> SUFFICES ASSUME SyncInv, Next, NEW h \in Handlers, pc[h] \in Busy, pc'[h] = "failed"
               PROVE  suspect[target[h]]
    OBVIOUS
  <2> USE DEF SyncInv, TypeOK, Goto, Busy
  <2>1. RefreshCopy(h) \/ RemoveJob(h)
    <3>1. ASSUME NEW g \in Handlers,
                 \/ GetJob(g) \/ AddJob(g)
                 \/ \E t \in Targets : \/ \E row \in Row : CreateTarget(g, t, row)
                                     \/ \E e \in BOOLEAN \cup {None}, x \in Schedules \cup {None} :
                                          PatchTarget(g, t, e, x)
                                     \/ DeleteTarget(g, t)
          PROVE  FALSE
      BY <3>1 DEF CreateTarget, PatchTarget, DeleteTarget, Accept, GetJob, AddJob
    <3>2. ASSUME Crash \/ Restart \/ RestartUnsynced
          PROVE  FALSE
      BY <3>2 DEF Crash, Restart, RestartUnsynced
    <3>3. ASSUME NEW g \in Handlers \ {h}, RefreshCopy(g) \/ RemoveJob(g)
          PROVE  FALSE
      BY <3>3 DEF RefreshCopy, RemoveJob
    <3> QED
      BY <3>1, <3>2, <3>3 DEF Next
  <2>2. target[h] \in Targets
    BY DEF RequestInv
  <2>5. ~suspect[target[h]] => Knows(h, target[h])
    BY <2>2 DEF AloneInv, BusyOn
  <2>3. CASE RefreshCopy(h)
    BY <2>2, <2>3, <2>5 DEF RefreshCopy, Knows
  <2>4. CASE RemoveJob(h)
    BY <2>2, <2>4, <2>5 DEF RemoveJob, HasJob, Knows
  <2> QED
    BY <2>1, <2>3, <2>4
<1> QED
  BY <1>1, SyncInvariant, PTL DEF Spec, OnlyOverlapFails
=============================================================================
