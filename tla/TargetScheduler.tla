--------------------------- MODULE TargetScheduler ---------------------------
(***************************************************************************)
(* The targets table and the jobs of the in-process APScheduler, kept in   *)
(* step by the handlers of POST, PATCH and DELETE /targets and by the      *)
(* startup sync.  The handlers run in pool threads: between the commit of  *)
(* the row and each call of the scheduler another handler may run.         *)
(***************************************************************************)
EXTENDS Naturals

CONSTANTS Targets,     \* target ids
          Handlers,    \* pool threads
          Schedules,   \* schedule expressions
          Parsed,      \* Parsed[x]: the trigger _parse_trigger makes of x,
                       \* None when CronTrigger.from_crontab raises
          None,        \* "no row", "no job", "no trigger", "field not given"
          MaxCrashes   \* bound: restarts of the process

Row == [enabled : BOOLEAN, schedule : Schedules]

ASSUME NoneIsFresh ==
    None \notin Schedules /\ None \notin BOOLEAN /\ None \notin Row /\ None \notin Targets
ASSUME ParsedIsTotal == DOMAIN Parsed = Schedules
ASSUME CrashesAssumption == MaxCrashes \in Nat

VARIABLES rows,     \* rows[t]: enabled and schedule columns, or None
          used,     \* target ids handed out so far
          jobs,     \* jobs[t]: trigger of the job target_scan_t, or None
          pc,       \* pc[h]: the next step of the request in h
          target,   \* target[h]: the id it is about
          copy,     \* copy[h]: the Target it schedules from
          up,       \* the process serves requests
          suspect,  \* suspect[t]: requests for t overlapped since one last
                    \* ran alone, or the startup sync failed (history)
          crashes

request == <<pc, target, copy>>
vars == <<rows, used, jobs, request, up, suspect, crashes>>

Triggers == {Parsed[x] : x \in Schedules}
Busy == {"refresh", "get", "remove", "add", "get for delete", "remove for delete"}

TypeOK ==
    /\ rows \in [Targets -> Row \cup {None}]
    /\ used \subseteq Targets
    /\ jobs \in [Targets -> Triggers \cup {None}]
    /\ pc \in [Handlers -> {"idle", "failed"} \cup Busy]
    /\ target \in [Handlers -> Targets \cup {None}]
    /\ copy \in [Handlers -> Row \cup {None}]
    /\ up \in BOOLEAN
    /\ suspect \in [Targets -> BOOLEAN]
    /\ crashes \in 0..MaxCrashes

Init ==
    /\ rows = [t \in Targets |-> None]
    /\ used = {}
    /\ jobs = [t \in Targets |-> None]
    /\ pc = [h \in Handlers |-> "idle"]
    /\ target = [h \in Handlers |-> None]
    /\ copy = [h \in Handlers |-> None]
    /\ up = TRUE
    /\ suspect = [t \in Targets |-> FALSE]
    /\ crashes = 0
-----------------------------------------------------------------------------
(* A request for t is under way. *)
InProgress(t) == \E h \in Handlers : pc[h] \in Busy /\ target[h] = t

(* The job the scheduler should have for a row. *)
JobFor(row) == IF row # None /\ row.enabled THEN Parsed[row.schedule] ELSE None

Goto(h, there) == pc' = [pc EXCEPT ![h] = there]

(* A request for t enters the handler h. *)
Accept(h, t) ==
    /\ up /\ pc[h] \notin Busy
    /\ target' = [target EXCEPT ![h] = t]
    /\ suspect' = [suspect EXCEPT ![t] = InProgress(t)]

(* POST: the row is committed; the job is made from the object in memory. *)
CreateTarget(h, t, row) ==
    /\ Accept(h, t)
    /\ t \notin used
    /\ used' = used \cup {t}
    /\ rows' = [rows EXCEPT ![t] = row]
    /\ copy' = [copy EXCEPT ![h] = row]
    /\ Goto(h, "get")
    /\ UNCHANGED <<jobs, up, crashes>>

Given(field, old) == IF field = None THEN old ELSE field

(* PATCH: the fields given are committed. *)
PatchTarget(h, t, enabled, schedule) ==
    /\ Accept(h, t)
    /\ rows[t] # None
    /\ rows' = [rows EXCEPT ![t] = [enabled |-> Given(enabled, rows[t].enabled),
                                    schedule |-> Given(schedule, rows[t].schedule)]]
    /\ Goto(h, "refresh")
    /\ UNCHANGED <<used, jobs, copy, up, crashes>>

(* The commit expired the record; reading it back fails if it is gone. *)
RefreshCopy(h) ==
    /\ pc[h] = "refresh"
    /\ IF rows[target[h]] = None
       THEN Goto(h, "failed") /\ UNCHANGED copy
       ELSE Goto(h, "get") /\ copy' = [copy EXCEPT ![h] = rows[target[h]]]
    /\ UNCHANGED <<rows, used, jobs, target, up, suspect, crashes>>

DeleteTarget(h, t) ==
    /\ Accept(h, t)
    /\ rows[t] # None
    /\ rows' = [rows EXCEPT ![t] = None]
    /\ Goto(h, "get for delete")
    /\ UNCHANGED <<used, jobs, copy, up, crashes>>
-----------------------------------------------------------------------------
(* schedule_target_job and remove_target_job: calls of the scheduler *)

HasJob(h) == jobs[target[h]] # None

(* Defect: the job is removed without a look whether there is one. *)
GetJobUnchecked(h) ==
    /\ \/ pc[h] = "get" /\ Goto(h, "remove")
       \/ pc[h] = "get for delete" /\ Goto(h, "remove for delete")
    /\ UNCHANGED <<rows, used, jobs, target, copy, up, suspect, crashes>>

GetJob(h) ==
    /\ \/ pc[h] = "get" /\ Goto(h, IF HasJob(h) THEN "remove" ELSE "add")
       \/ pc[h] = "get for delete"
          /\ Goto(h, IF HasJob(h) THEN "remove for delete" ELSE "idle")
    /\ UNCHANGED <<rows, used, jobs, target, copy, up, suspect, crashes>>

(* JobLookupError when the job has gone since GetJob: the request fails. *)
RemoveJob(h) ==
    /\ pc[h] \in {"remove", "remove for delete"}
    /\ IF HasJob(h)
       THEN /\ jobs' = [jobs EXCEPT ![target[h]] = None]
            /\ Goto(h, IF pc[h] = "remove" THEN "add" ELSE "idle")
       ELSE Goto(h, "failed") /\ UNCHANGED jobs
    /\ UNCHANGED <<rows, used, target, copy, up, suspect, crashes>>

(* Nothing for a disabled target; an exception of the parser is logged and *)
(* swallowed; replace_existing overwrites a job that came in between.      *)
AddJob(h) ==
    /\ pc[h] = "add"
    /\ IF JobFor(copy[h]) # None
       THEN jobs' = [jobs EXCEPT ![target[h]] = JobFor(copy[h])]
       ELSE UNCHANGED jobs
    /\ Goto(h, "idle")
    /\ UNCHANGED <<rows, used, target, copy, up, suspect, crashes>>
-----------------------------------------------------------------------------
(* The job store is in memory: a dead process loses its jobs. *)
Crash ==
    /\ up /\ crashes < MaxCrashes
    /\ crashes' = crashes + 1
    /\ up' = FALSE
    /\ jobs' = [t \in Targets |-> None]
    /\ pc' = [h \in Handlers |-> "idle"]
    /\ UNCHANGED <<rows, used, target, copy, suspect>>

(* Defect: the startup sync schedules every target, disabled ones too. *)
SyncedJobsOfAll == [t \in Targets |-> IF rows[t] # None THEN Parsed[rows[t].schedule] ELSE None]

(* sync_all_target_jobs on the empty scheduler of a new process. *)
SyncedJobs == [t \in Targets |-> JobFor(rows[t])]

Restart ==
    /\ ~up
    /\ up' = TRUE
    /\ jobs' = SyncedJobs
    /\ suspect' = [t \in Targets |-> FALSE]
    /\ UNCHANGED <<rows, used, request, crashes>>

(* lifespan swallows an exception of the sync and serves without jobs. *)
RestartUnsynced ==
    /\ ~up
    /\ up' = TRUE
    /\ suspect' = [t \in Targets |-> TRUE]
    /\ UNCHANGED <<rows, used, jobs, request, crashes>>

Next ==
    \/ \E h \in Handlers, t \in Targets :
         \/ \E row \in Row : CreateTarget(h, t, row)
         \/ \E enabled \in BOOLEAN \cup {None}, schedule \in Schedules \cup {None} :
              PatchTarget(h, t, enabled, schedule)
         \/ DeleteTarget(h, t)
    \/ \E h \in Handlers : RefreshCopy(h) \/ GetJob(h) \/ RemoveJob(h) \/ AddJob(h)
    \/ Crash
    \/ Restart
    \/ RestartUnsynced

Spec == Init /\ [][Next]_vars
-----------------------------------------------------------------------------
(* Properties *)

(* Requests for a target that do not overlap leave its job as its row      *)
(* asks, whatever requests for other targets, deaths and restarts there    *)
(* are in between, and a request that runs alone repairs what an earlier   *)
(* overlap or a failed startup sync has left.                              *)
JobFollowsRow ==
    \A t \in Targets : up /\ ~suspect[t] /\ ~InProgress(t) => jobs[t] = JobFor(rows[t])

(* A PATCH or DELETE that reaches its handler alone never answers 500      *)
(* (JobLookupError, a record gone at its refresh).                         *)
OnlyOverlapFails ==
    [][\A h \in Handlers : pc[h] \in Busy /\ pc'[h] = "failed" => suspect[target[h]]]_vars

-----------------------------------------------------------------------------
(* The inductive strengthening that TargetSchedulerProofs uses: where the  *)
(* one request for a target that is not suspect may be, and what it knows. *)
Knows(h, t) ==
    /\ pc[h] \in {"refresh", "get", "remove", "add"} => rows[t] # None
    /\ pc[h] \in {"get", "remove", "add"} => copy[h] = rows[t]
    /\ pc[h] \in {"get for delete", "remove for delete"} => rows[t] = None
    /\ pc[h] \in {"remove", "remove for delete"} => jobs[t] # None
    /\ pc[h] = "add" => jobs[t] = None

BusyOn(t) == {h \in Handlers : target[h] = t /\ pc[h] \in Busy}

AloneInv ==
    \A t \in Targets : ~suspect[t] =>
      /\ \A g, h \in BusyOn(t) : g = h
      /\ \A h \in BusyOn(t) : Knows(h, t)

RequestInv == \A h \in Handlers : pc[h] \in Busy => up /\ target[h] \in Targets

SyncInv == TypeOK /\ RequestInv /\ AloneInv /\ JobFollowsRow
=============================================================================
