------------------------------ MODULE AuditChain ------------------------------
(***************************************************************************)
(* The hash-chained audit_log table and the handlers that append to it.    *)
(*                                                                         *)
(* log_audit reads the head of the log with a SELECT.  Before a SELECT the *)
(* session flushes what the handler has changed so far, and the INSERT,    *)
(* UPDATE or DELETE it sends opens a transaction that holds the one write  *)
(* lock of SQLite until the commit.  A handler whose rows end up as they   *)
(* were has nothing to flush: its SELECT runs outside any transaction, and *)
(* the lock is taken only when the audit record itself is written.         *)
(***************************************************************************)
EXTENDS Naturals, Sequences, SequencesExt

CONSTANTS Writers,      \* threads that run handlers
          Actions,      \* the handlers, by the action they log
          MayChangeNothing, \* those that a repeated request leaves nothing to flush
          Nobody,         \* nobody holds the write lock
          MaxRecords    \* bound: records of the log

ASSUME NobodyIsNoWriter == Nobody \notin Writers
ASSUME ActionsAssumption == MayChangeNothing \subseteq Actions
ASSUME RecordsAssumption == MaxRecords \in Nat

VARIABLES log,      \* committed rows of audit_log, in the order of their ids
          lock,     \* the session that holds SQLite's write lock, or Nobody
          step,       \* step[w]: how far the handler of w is
          action,   \* action[w]: what it will log
          head      \* head[w]: last_rec.record_hash as log_audit read it

auditVars == <<log, lock, step, action, head>>

(* SHA-256 of a payload that contains the previous hash: distinct chains   *)
(* have distinct digests, so a digest is the chain of payloads behind it.  *)
(* The timestamp and the id are not part of the payload.                   *)
Digest == Seq(Actions)

Genesis == <<>>

compute_audit_record_hash(a, prev) == Append(prev, a)

(* `flushed` is the model's own: the writer held the lock when it read.    *)
Record == [action : Actions, prev : Digest, hash : Digest, flushed : BOOLEAN]

AuditTypeOK ==
    /\ log \in Seq(Record)
    /\ lock \in Writers \cup {Nobody}
    /\ step \in [Writers -> {"idle", "loaded", "clean", "flushed", "read", "readFlushed"}]
    /\ action \in [Writers -> Actions]
    /\ head \in [Writers -> Digest]

AuditInit ==
    /\ log = <<>>
    /\ lock = Nobody
    /\ step = [w \in Writers |-> "idle"]
    /\ action \in [Writers -> Actions]
    /\ head = [w \in Writers |-> Genesis]
-----------------------------------------------------------------------------
HeadOf(records) == IF records = <<>> THEN Genesis ELSE Last(records).hash

Proceed(w, there) == step' = [step EXCEPT ![w] = there]

(* The handler loads its rows and changes them, or finds them as asked. *)
Load(w, a) ==
    /\ step[w] = "idle"
    /\ action' = [action EXCEPT ![w] = a]
    /\ \/ Proceed(w, "loaded")
       \/ a \in MayChangeNothing /\ Proceed(w, "clean")
    /\ UNCHANGED <<log, lock, head>>

(* The flush that log_audit's SELECT brings about. *)
Autoflush(w) ==
    /\ step[w] = "loaded"
    /\ lock = Nobody
    /\ lock' = w
    /\ Proceed(w, "flushed")
    /\ UNCHANGED <<log, action, head>>

(* Defect: the head is read before the flush, whatever there is to flush. *)
ReadHeadUnlocked(w) ==
    /\ step[w] \in {"clean", "loaded"}
    /\ head' = [head EXCEPT ![w] = HeadOf(log)]
    /\ Proceed(w, IF step[w] = "loaded" THEN "readFlushed" ELSE "read")
    /\ UNCHANGED <<log, lock, action>>

ReadHead(w) ==
    /\ step[w] \in {"clean", "flushed"}
    /\ head' = [head EXCEPT ![w] = HeadOf(log)]
    /\ Proceed(w, IF step[w] = "flushed" THEN "readFlushed" ELSE "read")
    /\ UNCHANGED <<log, lock, action>>

(* Defect: the record is chained to the genesis of the log. *)
ChainedRecordFromGenesis(w) ==
    [action |-> action[w], prev |-> head[w],
     hash |-> compute_audit_record_hash(action[w], Genesis),
     flushed |-> step[w] = "readFlushed"]

(* The AuditLogRecord that log_audit adds to the session. *)
ChainedRecord(w) ==
    [action |-> action[w], prev |-> head[w],
     hash |-> compute_audit_record_hash(action[w], head[w]),
     flushed |-> step[w] = "readFlushed"]

(* session.commit: the INSERT takes the lock if the session does not hold  *)
(* it, and the commit gives it back.                                       *)
Commit(w) ==
    /\ step[w] \in {"read", "readFlushed"}
    /\ lock \in {Nobody, w}
    /\ Len(log) < MaxRecords
    /\ log' = Append(log, ChainedRecord(w))
    /\ lock' = Nobody
    /\ Proceed(w, "idle")
    /\ UNCHANGED <<action, head>>

(* An exception, "database is locked" after five seconds among them, leaves*)
(* session_scope, which rolls the transaction back.                        *)
Rollback(w) ==
    /\ step[w] # "idle"
    /\ lock' = IF lock = w THEN Nobody ELSE lock
    /\ Proceed(w, "idle")
    /\ UNCHANGED <<log, action, head>>

AuditNext ==
    \E w \in Writers :
      \/ \E a \in Actions : Load(w, a)
      \/ Autoflush(w)
      \/ ReadHead(w)
      \/ Commit(w)
      \/ Rollback(w)

AuditSpec == AuditInit /\ [][AuditNext]_auditVars
-----------------------------------------------------------------------------
(* verify_audit_log_integrity *)

ExpectedPrev(i) == IF i = 1 THEN Genesis ELSE log[i - 1].hash

BrokenLink(i) == log[i].prev # ExpectedPrev(i)

TamperedRecord(i) == log[i].hash # compute_audit_record_hash(log[i].action, log[i].prev)

(* What GET /audit/verify answers. *)
Valid == \A i \in DOMAIN log : ~BrokenLink(i) /\ ~TamperedRecord(i)
-----------------------------------------------------------------------------
(* Properties *)

(* Only a handler that had nothing to flush can break the chain: a record  *)
(* whose writer changed something is linked to the record before it, also  *)
(* when that one is misplaced, in every interleaving and after rollbacks.  *)
FlushedRecordsLink == \A i \in DOMAIN log : log[i].flushed => ~BrokenLink(i)

(* No record is ever reported as tampered with: whatever happens to the    *)
(* links, its hash is that of its own payload.                             *)
NoFalseTampering == \A i \in DOMAIN log : ~TamperedRecord(i)

(* docs/decisions/backend/016-security-hardening.md:17 -- records are      *)
(* chained sequentially, so that verification finds the chain intact when  *)
(* the application alone wrote it (docs/SECURITY.md:79).                   *)
ChainedSequentially == Valid
-----------------------------------------------------------------------------
(* The inductive strengthening that OversightProofs uses: the holder of   *)
(* the lock is the session between its flush and its commit, and the head  *)
(* it has read is still the head.                                          *)
LockInv ==
    \A w \in Writers :
      /\ step[w] \in {"flushed", "readFlushed"} <=> lock = w
      /\ step[w] = "readFlushed" => head[w] = HeadOf(log)

ChainInv == AuditTypeOK /\ LockInv /\ FlushedRecordsLink /\ NoFalseTampering
=============================================================================
