----------------------------- MODULE RequestGate -----------------------------
(***************************************************************************)
(* What a request passes before its handler runs, in the order in which    *)
(* main.py stacks it: the size limit, the sliding-window rate limit, the   *)
(* reading of the body (FastAPI reads it before it resolves dependencies), *)
(* the bearer token, the actor header.                                     *)
(*                                                                         *)
(* All of it runs on the event loop.  One action is what a request does    *)
(* between two awaits; the actions of different requests interleave.       *)
(***************************************************************************)
EXTENDS Integers, Sequences

CONSTANTS Slots,      \* requests in flight
          Requests,   \* what clients send
          Keys,       \* client, method and path: the buckets of the limiter
          Actors,     \* values of the X-ECDAT-Actor header
          System,     \* the actor of a context in which nobody set one
          Limit,      \* max_requests
          Window,     \* window_seconds, in ticks of the clock
          Second,     \* ticks of a second: Retry-After counts seconds
          MaxBytes,   \* max_json_bytes
          MaxClock,   \* bound: ticks
          MaxAdmitted,\* bound: requests a bucket admits
          None

Request == [key : Keys,         \* bucket
            write : BOOLEAN,    \* POST, PUT, PATCH or DELETE under /api/v1/
            upload : BOOLEAN,   \* one of UPLOAD_PATHS
            open : BOOLEAN,     \* a router without dependencies: health
            declared : Nat \cup {None}, \* Content-Length; None: none, or no number
            body : Nat,         \* bytes the client goes on to send
            token : BOOLEAN,    \* it bears the expected token
            actor : Actors \cup {None}] \* the header, stripped; None: blank

ASSUME RequestsAssumption == Requests \subseteq Request
ASSUME NumbersAssumption ==
    /\ Limit \in Nat \ {0} /\ Second \in Nat \ {0}
    /\ {Window, MaxBytes, MaxClock, MaxAdmitted} \subseteq Nat
ASSUME NoneAssumption == None \notin Actors /\ None \notin Requests /\ None \notin Nat

VARIABLES
    now,        \* time.monotonic()
    queue,      \* queue[k]: the deque of bucket k
    pc,         \* pc[s]: how far the request in slot s is
    req,        \* req[s]: that request
    received,   \* received[s]: bytes of its body so far
    context,    \* context[s]: current_actor_var in its task
    (* history *)
    admitted,   \* admitted[k]: when bucket k admitted requests
    promise     \* promise[k]: when the last refusal told to come back, None
                \* once another request has been admitted

vars == <<now, queue, pc, req, received, context, admitted, promise>>

TypeOK ==
    /\ now \in 0..MaxClock
    /\ queue \in [Keys -> Seq(Nat)]
    /\ pc \in [Slots -> {"idle", "logged", "reading", "read", "cleared"}]
    /\ req \in [Slots -> Requests \cup {None}]
    /\ received \in [Slots -> Nat]
    /\ context \in [Slots -> Actors \cup {System}]
    /\ admitted \in [Keys -> Seq(Nat)]
    /\ promise \in [Keys -> Nat \cup {None}]

Init ==
    /\ now = 0
    /\ queue = [k \in Keys |-> <<>>]
    /\ pc = [s \in Slots |-> "idle"]
    /\ req = [s \in Slots |-> None]
    /\ received = [s \in Slots |-> 0]
    /\ context = [s \in Slots |-> System]
    /\ admitted = [k \in Keys |-> <<>>]
    /\ promise = [k \in Keys |-> None]
-----------------------------------------------------------------------------
Goto(s, there) == pc' = [pc EXCEPT ![s] = there]

limiter == <<queue, admitted, promise>>

Tick ==
    /\ now < MaxClock
    /\ now' = now + 1
    /\ UNCHANGED <<queue, pc, req, received, context, admitted, promise>>

(* StructuredLoggingMiddleware logs the request and hands it to a task of  *)
(* its own, whose context is a copy of the server's.                       *)
Arrive(s, r) ==
    /\ pc[s] = "idle"
    /\ req' = [req EXCEPT ![s] = r]
    /\ Goto(s, "logged")
    /\ UNCHANGED <<now, limiter, received, context>>

(* The request is answered, its task ends and the slot is free. *)
Answer(s) ==
    /\ Goto(s, "idle")
    /\ req' = [req EXCEPT ![s] = None]
    /\ received' = [received EXCEPT ![s] = 0]
    /\ context' = [context EXCEPT ![s] = System]
    /\ UNCHANGED now

(* Uploads have a limit of their own. *)
TooLong(r, n) == ~r.upload /\ n > MaxBytes

DeclaredTooLong(r) == r.declared # None /\ TooLong(r, r.declared)

RejectDeclared(s) ==
    /\ pc[s] = "logged"
    /\ DeclaredTooLong(req[s])
    /\ Answer(s)
    /\ UNCHANGED limiter

(* Only what changes something is limited. *)
PassRead(s) ==
    /\ pc[s] = "logged"
    /\ ~DeclaredTooLong(req[s])
    /\ ~req[s].write
    /\ Goto(s, "reading")
    /\ UNCHANGED <<now, limiter, req, received, context>>
-----------------------------------------------------------------------------
(* SlidingWindowRateLimiter.is_allowed *)

(* Defect: an entry as old as the window has left it. *)
AgedAtWindow(t) == t <= now - Window

Aged(t) == t < now - Window

(* The loop pops n entries: those before the first that is not aged. *)
Prunes(q, n) ==
    /\ n \in 0..Len(q)
    /\ \A i \in 1..n : Aged(q[i])
    /\ n < Len(q) => ~Aged(q[n + 1])

Pruned(q, n) == SubSeq(q, n + 1, Len(q))

Full(q) == Len(q) + 1 > Limit

(* Defect: the fraction of a second is not rounded up. *)
RetryAfterFloor(q) ==
    LET left == ((IF q = <<>> THEN now ELSE q[1]) + Window - now) \div Second
    IN  IF left < 1 THEN 1 ELSE left

(* In seconds. *)
RetryAfter(q) ==
    LET left == ((IF q = <<>> THEN now ELSE q[1]) + Window - now) \div Second + 1
    IN  IF left < 1 THEN 1 ELSE left

Limited(s) == pc[s] = "logged" /\ ~DeclaredTooLong(req[s]) /\ req[s].write

Admit(s) ==
    LET k == req[s].key
    IN  /\ Limited(s)
        /\ Len(admitted[k]) < MaxAdmitted
        /\ \E n \in 0..Len(queue[k]) :
             /\ Prunes(queue[k], n)
             /\ ~Full(Pruned(queue[k], n))
             /\ queue' = [queue EXCEPT ![k] = Append(Pruned(@, n), now)]
        /\ admitted' = [admitted EXCEPT ![k] = Append(@, now)]
        /\ promise' = [promise EXCEPT ![k] = None]
        /\ Goto(s, "reading")
        /\ UNCHANGED <<now, req, received, context>>

Refuse(s) ==
    LET k == req[s].key
    IN  /\ Limited(s)
        /\ \E n \in 0..Len(queue[k]) :
             /\ Prunes(queue[k], n)
             /\ Full(Pruned(queue[k], n))
             /\ queue' = [queue EXCEPT ![k] = Pruned(@, n)]
             /\ promise' = [promise EXCEPT ![k] =
                              now + Second * RetryAfter(Pruned(queue[k], n))]
        /\ Answer(s)
        /\ UNCHANGED <<admitted>>
-----------------------------------------------------------------------------
(* limited_receive, one byte for every chunk *)
Receive(s) ==
    /\ pc[s] = "reading"
    /\ received[s] < req[s].body
    /\ ~TooLong(req[s], received[s] + 1)
    /\ received' = [received EXCEPT ![s] = @ + 1]
    /\ UNCHANGED <<now, limiter, pc, req, context>>

RejectReceived(s) ==
    /\ pc[s] = "reading"
    /\ received[s] < req[s].body
    /\ TooLong(req[s], received[s] + 1)
    /\ Answer(s)
    /\ UNCHANGED limiter

EndOfBody(s) ==
    /\ pc[s] = "reading"
    /\ received[s] = req[s].body
    /\ Goto(s, "read")
    /\ UNCHANGED <<now, limiter, req, received, context>>

(* verify_bearer_token, then require_actor_on_write *)
Authorised(r) == r.open \/ (r.token /\ (r.write => r.actor # None))

(* Defect: one actor for the process. *)
SetActorForAll(s, a) == [t \in Slots |-> a]

(* current_actor_var.set binds the variable in the task's context. *)
SetActor(s, a) == [context EXCEPT ![s] = a]

Clear(s) ==
    /\ pc[s] = "read"
    /\ Authorised(req[s])
    /\ context' = IF req[s].write /\ ~req[s].open /\ req[s].actor # None
                  THEN SetActor(s, req[s].actor) ELSE context
    /\ Goto(s, "cleared")
    /\ UNCHANGED <<now, limiter, req, received>>

Deny(s) ==
    /\ pc[s] = "read"
    /\ ~Authorised(req[s])
    /\ Answer(s)
    /\ UNCHANGED limiter

(* The handler runs, in the task or in a pool thread with a copy of its    *)
(* context; log_audit takes the actor from there.                          *)
Handle(s) ==
    /\ pc[s] = "cleared"
    /\ Answer(s)
    /\ UNCHANGED limiter

Next ==
    \/ Tick
    \/ \E s \in Slots :
         \/ \E r \in Requests : Arrive(s, r)
         \/ RejectDeclared(s)
         \/ PassRead(s)
         \/ Admit(s)
         \/ Refuse(s)
         \/ Receive(s)
         \/ RejectReceived(s)
         \/ EndOfBody(s)
         \/ Clear(s)
         \/ Deny(s)
         \/ Handle(s)

Spec == Init /\ [][Next]_vars
-----------------------------------------------------------------------------
(* Properties *)

(* No window of time, wherever it is laid, holds more than max_requests    *)
(* admissions of one bucket: the one Limit places later comes when the     *)
(* earlier one has left the window.                                        *)
WindowBound ==
    \A k \in Keys : \A i \in 1..(Len(admitted[k]) - Limit) :
      admitted[k][i + Limit] > admitted[k][i] + Window

(* A client that is refused and waits for Retry-After is not refused again *)
(* unless another request took the place: the oldest entry is aged by then *)
(* and the rest fits.                                                      *)
RetryAfterSuffices ==
    \A k \in Keys :
      promise[k] # None /\ now >= promise[k] =>
        /\ queue[k] # <<>> => Aged(queue[k][1])
        /\ Len(queue[k]) <= Limit

(* Whatever else is in flight, a write is done, and audited, on behalf of  *)
(* the actor its own request named; it bore the token; and its body, of    *)
(* declared or undeclared length, kept to the limit unless it is an upload.*)
HandledAsCleared ==
    \A s \in Slots :
      pc[s] = "cleared" /\ ~req[s].open =>
        /\ req[s].token
        /\ req[s].write => req[s].actor # None /\ context[s] = req[s].actor
        /\ received[s] > MaxBytes => req[s].upload
-----------------------------------------------------------------------------
(* The inductive strengthening that the proofs use: the deque of a          *)
(* bucket is the end of its history, and what was popped is aged.          *)
EndOf(q, a) ==
    /\ Len(q) <= Len(a)
    /\ \A i \in 1..Len(q) : q[i] = a[i + (Len(a) - Len(q))]
    /\ \A i \in 1..(Len(a) - Len(q)) : Aged(a[i])

SuffixInv ==
    \A k \in Keys :
      /\ EndOf(queue[k], admitted[k])
      /\ Len(queue[k]) <= Limit
      /\ \A i \in 1..Len(admitted[k]) : admitted[k][i] <= now

PromiseInv ==
    \A k \in Keys :
      promise[k] # None /\ queue[k] # <<>> => promise[k] > queue[k][1] + Window

(* A slot at rest has received nothing, and no body outgrows the limit.    *)
BodyInv ==
    \A s \in Slots :
      /\ IF pc[s] = "idle" THEN received[s] = 0 ELSE req[s] \in Requests
      /\ received[s] > MaxBytes => req[s].upload

GateInv == TypeOK /\ SuffixInv /\ PromiseInv /\ WindowBound /\ BodyInv /\ HandledAsCleared
=============================================================================
