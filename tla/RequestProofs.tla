---------------------------- MODULE RequestProofs ----------------------------
(***************************************************************************)
(* Proofs about what every request passes through: RequestGate, for any    *)
(* requests, slots, buckets, limits and resolution of the clock, and the   *)
(* audit log of AuditChain, for any number of writers and handlers and any *)
(* length of the log.                                                      *)
(***************************************************************************)
EXTENDS RequestGate, AuditChain, SequenceTheorems, TLAPS

USE DEF vars, limiter

-----------------------------------------------------------------------------
(* The gate of requests: RequestGate.                                      *)

(* Popping n entries leaves the others in order.                           *)
LEMMA PrunedQueue ==
  ASSUME NEW q \in Seq(Nat), NEW n \in 0..Len(q)
  PROVE  /\ Pruned(q, n) \in Seq(Nat)
         /\ Len(Pruned(q, n)) = Len(q) - n
         /\ \A i \in 1..(Len(q) - n) : Pruned(q, n)[i] = q[i + n]
<1>1. \A i \in (n + 1)..Len(q) : q[i] \in Nat
  OBVIOUS
<1>2. /\ SubSeq(q, n + 1, Len(q)) \in Seq(Nat)
      /\ Len(SubSeq(q, n + 1, Len(q))) =
           IF n + 1 <= Len(q) THEN Len(q) - (n + 1) + 1 ELSE 0
      /\ \A i \in 1..(Len(q) - (n + 1) + 1) :
           SubSeq(q, n + 1, Len(q))[i] = q[(n + 1) + i - 1]
  <2>1. n + 1 \in Int /\ Len(q) \in Int
    OBVIOUS
  <2> HIDE DEF Pruned
  <2> QED
    BY <1>1, <2>1, SubSeqProperties
<1> QED
  BY <1>2 DEF Pruned

(* Whole seconds, rounded up past the fraction, exceed the time left.      *)
LEMMA RoundedUp ==
  ASSUME NEW x \in Int
  PROVE  /\ x \div Second + 1 \in Int
         /\ Second * (x \div Second + 1) > x
<1>1. Second \in Int /\ Second > 0
  BY NumbersAssumption
<1>2. x \div Second \in Int
  BY <1>1
<1>3. Second * (x \div Second) + Second > x
  BY <1>1, SMTT(30)
<1>4. Second * (x \div Second + 1) = Second * (x \div Second) + Second
  BY <1>1, <1>2
<1> QED
  BY <1>1, <1>2, <1>3, <1>4

(* A client told to wait waits until the oldest entry has left the window. *)
LEMMA WaitIsLongEnough ==
  ASSUME NEW q \in Seq(Nat), q # <<>>, now \in Nat
  PROVE  /\ Second * RetryAfter(q) \in Nat
         /\ now + Second * RetryAfter(q) > q[1] + Window
<1> DEFINE rest == q[1] + Window - now
           left == rest \div Second + 1
<1>1. Second \in Int /\ Second > 0 /\ Window \in Nat
  BY NumbersAssumption
<1>2. rest \in Int /\ q[1] \in Nat
  BY <1>1
<1>3. left \in Int /\ Second * left > rest
  BY <1>2, RoundedUp
<1>4. RetryAfter(q) = IF left < 1 THEN 1 ELSE left
  BY DEF RetryAfter
<1> HIDE DEF left
<1>5. CASE left < 1
  <2>1. Second * left <= 0
    BY <1>1, <1>3, <1>5, SMTT(30)
  <2>2. RetryAfter(q) = 1 /\ Second * 1 = Second
    BY <1>1, <1>4, <1>5
  <2>5. rest < 0
    <3>1. PICK product \in Int : product = Second * left
      BY <1>1, <1>3
    <3> HIDE DEF rest
    <3>2. product > rest /\ product <= 0
      BY <1>3, <2>1, <3>1
    <3> QED
      BY <1>2, <3>2
  <2>3. q[1] + Window - now < Second
    BY <1>1, <1>2, <2>5
  <2>4. now + Second > q[1] + Window /\ Second \in Nat
    BY <1>1, <1>2, <2>3
  <2> QED
    BY <2>2, <2>4
<1>6. CASE ~(left < 1)
  <2>1. RetryAfter(q) = left /\ left \in Nat
    BY <1>3, <1>4, <1>6
  <2>2. Second * left \in Nat
    BY <1>1, <2>1
  <2> QED
    BY <1>1, <1>2, <1>3, <2>1, <2>2
<1> QED
  BY <1>5, <1>6

(* What Admit and Refuse make of a bucket: entries that have left the      *)
(* window are popped, and the rest has room for one more or has not.       *)
LEMMA AdmitStep ==
  ASSUME TypeOK, BodyInv, NEW s \in Slots, Admit(s)
  PROVE  \E k \in Keys, n \in Nat :
           /\ n \in 0..Len(queue[k])
           /\ Prunes(queue[k], n)
           /\ Len(queue[k]) - n + 1 <= Limit
           /\ queue' = [queue EXCEPT ![k] = Append(Pruned(queue[k], n), now)]
           /\ admitted' = [admitted EXCEPT ![k] = Append(admitted[k], now)]
           /\ promise' = [promise EXCEPT ![k] = None]
           /\ now' = now
<1> DEFINE k == req[s].key
<1>1. k \in Keys
  BY RequestsAssumption DEF Admit, Limited, BodyInv, Request
<1>2. PICK n \in 0..Len(queue[k]) :
        /\ Prunes(queue[k], n)
        /\ ~Full(Pruned(queue[k], n))
        /\ queue' = [queue EXCEPT ![k] = Append(Pruned(@, n), now)]
  BY DEF Admit
<1>3. Len(queue[k]) - n + 1 <= Limit
  <2>1. queue[k] \in Seq(Nat) /\ Limit \in Nat
    BY <1>1, NumbersAssumption DEF TypeOK
  <2>2. Len(Pruned(queue[k], n)) = Len(queue[k]) - n
    BY <2>1, PrunedQueue
  <2> HIDE DEF k
  <2> QED
    BY <1>2, <2>1, <2>2 DEF Full
<1>4. n \in Nat
  BY <1>1, <1>2 DEF TypeOK
<1>5. UNCHANGED now
  BY DEF Admit
<1>6. /\ admitted' = [admitted EXCEPT ![k] = Append(admitted[k], now)]
      /\ promise' = [promise EXCEPT ![k] = None]
  BY DEF Admit
<1> HIDE DEF k
<1> QED
  BY <1>1, <1>2, <1>3, <1>4, <1>5, <1>6

LEMMA RefuseStep ==
  ASSUME TypeOK, BodyInv, NEW s \in Slots, Refuse(s)
  PROVE  \E k \in Keys, n \in Nat :
           /\ n \in 0..Len(queue[k])
           /\ Prunes(queue[k], n)
           /\ Pruned(queue[k], n) # <<>>
           /\ queue' = [queue EXCEPT ![k] = Pruned(queue[k], n)]
           /\ promise' = [promise EXCEPT ![k] =
                             now + Second * RetryAfter(Pruned(queue[k], n))]
           /\ admitted' = admitted
           /\ now' = now
<1> DEFINE k == req[s].key
<1>1. k \in Keys
  BY RequestsAssumption DEF Refuse, Limited, BodyInv, Request
<1>2. PICK n \in 0..Len(queue[k]) :
        /\ Prunes(queue[k], n)
        /\ Full(Pruned(queue[k], n))
        /\ queue' = [queue EXCEPT ![k] = Pruned(@, n)]
        /\ promise' = [promise EXCEPT ![k] =
                          now + Second * RetryAfter(Pruned(queue[k], n))]
  BY DEF Refuse
<1>3. Pruned(queue[k], n) # <<>>
  <2>1. queue[k] \in Seq(Nat) /\ Limit \in Nat \ {0}
    BY <1>1, NumbersAssumption DEF TypeOK
  <2>2. Len(Pruned(queue[k], n)) + 1 > Limit
    BY <1>2 DEF Full
  <2>3. ASSUME Pruned(queue[k], n) = <<>> PROVE FALSE
    BY <2>1, <2>2, <2>3
  <2> QED
    BY <2>3
<1>4. n \in Nat
  BY <1>1, <1>2 DEF TypeOK
<1>5. UNCHANGED <<now, admitted>>
  BY DEF Refuse, Answer
<1> HIDE DEF k
<1> QED
  BY <1>1, <1>2, <1>3, <1>4, <1>5

(* Every other step leaves the limiter alone, and all but Tick the clock.  *)
LEMMA OtherSteps ==
  ASSUME [Next]_vars
  PROVE  \/ Tick
         \/ \E s \in Slots : Admit(s) \/ Refuse(s)
         \/ UNCHANGED <<now, queue, admitted, promise>>
BY DEF Next, Arrive, Answer, RejectDeclared, PassRead, Receive, RejectReceived,
       EndOfBody, Clear, Deny, Handle

(* The initial state satisfies the invariant. *)
LEMMA GateInit == Init => GateInv
<1> SUFFICES ASSUME Init PROVE GateInv
  OBVIOUS
<1>1. TypeOK
  BY NumbersAssumption DEF Init, TypeOK
<1>2. SuffixInv
  BY NumbersAssumption DEF Init, SuffixInv, EndOf
<1>3. PromiseInv
  BY DEF Init, PromiseInv
<1>4. WindowBound
  BY NumbersAssumption DEF Init, WindowBound
<1>5. BodyInv
  <2>1. MaxBytes \in Nat
    BY NumbersAssumption
  <2>2. \A s \in Slots : pc[s] = "idle" /\ received[s] = 0
    BY DEF Init
  <2>3. ASSUME NEW s \in Slots
        PROVE  ~(received[s] > MaxBytes)
    BY <2>1, <2>2
  <2> QED
    BY <2>2, <2>3 DEF BodyInv
<1>6. HandledAsCleared
  BY DEF Init, HandledAsCleared
<1> QED
  BY <1>1, <1>2, <1>3, <1>4, <1>5, <1>6 DEF GateInv

(* A bucket's variables keep their types. *)
LEMMA LimiterTypeStep ==
  ASSUME TypeOK, BodyInv, [Next]_vars
  PROVE  /\ now' \in 0..MaxClock
         /\ queue' \in [Keys -> Seq(Nat)]
         /\ admitted' \in [Keys -> Seq(Nat)]
         /\ promise' \in [Keys -> Nat \cup {None}]
<1> USE DEF TypeOK
<1>0. now \in Nat
  BY NumbersAssumption
<1>1. CASE Tick
  BY <1>1, NumbersAssumption DEF Tick
<1>2. ASSUME NEW s \in Slots, Admit(s)
      PROVE  /\ now' \in 0..MaxClock
             /\ queue' \in [Keys -> Seq(Nat)]
             /\ admitted' \in [Keys -> Seq(Nat)]
             /\ promise' \in [Keys -> Nat \cup {None}]
  <2>1. PICK k \in Keys, n \in Nat :
          /\ n \in 0..Len(queue[k])
          /\ queue' = [queue EXCEPT ![k] = Append(Pruned(queue[k], n), now)]
          /\ admitted' = [admitted EXCEPT ![k] = Append(admitted[k], now)]
          /\ promise' = [promise EXCEPT ![k] = None]
          /\ now' = now
    BY <1>2, AdmitStep
  <2>2. Pruned(queue[k], n) \in Seq(Nat)
    BY <2>1, PrunedQueue
  <2>3. Append(Pruned(queue[k], n), now) \in Seq(Nat)
    BY <1>0, <2>2
  <2>4. Append(admitted[k], now) \in Seq(Nat)
    BY <1>0
  <2> QED
    BY <2>1, <2>3, <2>4
<1>3. ASSUME NEW s \in Slots, Refuse(s)
      PROVE  /\ now' \in 0..MaxClock
             /\ queue' \in [Keys -> Seq(Nat)]
             /\ admitted' \in [Keys -> Seq(Nat)]
             /\ promise' \in [Keys -> Nat \cup {None}]
  <2>1. PICK k \in Keys, n \in Nat :
          /\ n \in 0..Len(queue[k])
          /\ Pruned(queue[k], n) # <<>>
          /\ queue' = [queue EXCEPT ![k] = Pruned(queue[k], n)]
          /\ promise' = [promise EXCEPT ![k] =
                            now + Second * RetryAfter(Pruned(queue[k], n))]
          /\ admitted' = admitted
          /\ now' = now
    BY <1>3, RefuseStep
  <2>2. Pruned(queue[k], n) \in Seq(Nat)
    BY <2>1, PrunedQueue
  <2>3. Second * RetryAfter(Pruned(queue[k], n)) \in Nat
    BY <1>0, <2>1, <2>2, WaitIsLongEnough
  <2>4. now + Second * RetryAfter(Pruned(queue[k], n)) \in Nat
    BY <1>0, <2>3
  <2> QED
    BY <2>1, <2>2, <2>4
<1>4. CASE UNCHANGED <<now, queue, admitted, promise>>
  BY <1>4
<1> QED
  BY <1>1, <1>2, <1>3, <1>4, OtherSteps

(* The slots' variables keep their types, and bodies keep to the limit.    *)
LEMMA SlotStep ==
  ASSUME TypeOK, BodyInv, [Next]_vars
  PROVE  /\ pc' \in [Slots -> {"idle", "logged", "reading", "read", "cleared"}]
         /\ req' \in [Slots -> Requests \cup {None}]
         /\ received' \in [Slots -> Nat]
         /\ context' \in [Slots -> Actors \cup {System}]
         /\ BodyInv'
<1> DEFINE Goal == /\ pc' \in [Slots -> {"idle", "logged", "reading", "read", "cleared"}]
                   /\ req' \in [Slots -> Requests \cup {None}]
                   /\ received' \in [Slots -> Nat]
                   /\ context' \in [Slots -> Actors \cup {System}]
                   /\ BodyInv'
<1> USE NumbersAssumption DEF TypeOK, BodyInv, Goto
<1>1. ASSUME NEW s \in Slots, Answer(s)
      PROVE  Goal
  BY <1>1 DEF Answer
<1>2. ASSUME NEW s \in Slots, NEW r \in Requests, Arrive(s, r)
      PROVE  Goal
  BY <1>2 DEF Arrive
<1>3. ASSUME NEW s \in Slots, PassRead(s) \/ Admit(s) \/ EndOfBody(s)
      PROVE  Goal
  <2>1. /\ pc[s] # "idle"
        /\ \E there \in {"reading", "read"} : pc' = [pc EXCEPT ![s] = there]
        /\ UNCHANGED <<req, received, context>>
    BY <1>3 DEF PassRead, Admit, Limited, EndOfBody
  <2> QED
    BY <2>1
<1>4. ASSUME NEW s \in Slots, Receive(s)
      PROVE  Goal
  <2>1. received[s] + 1 > MaxBytes => req[s].upload
    BY <1>4 DEF Receive, TooLong
  <2>2. /\ pc[s] = "reading" /\ received' = [received EXCEPT ![s] = received[s] + 1]
        /\ UNCHANGED <<pc, req, context>>
    BY <1>4 DEF Receive
  <2> QED
    BY <2>1, <2>2
<1>5. ASSUME NEW s \in Slots, Clear(s)
      PROVE  Goal
  <2>1. req[s] \in Request
    BY <1>5, RequestsAssumption DEF Clear
  <2>2. req[s].actor # None => req[s].actor \in Actors
    BY <2>1 DEF Request
  <2>3. context' \in [Slots -> Actors \cup {System}]
    BY <1>5, <2>2 DEF Clear, SetActor
  <2>4. /\ pc[s] = "read" /\ pc' = [pc EXCEPT ![s] = "cleared"]
        /\ UNCHANGED <<req, received>>
    BY <1>5 DEF Clear
  <2> QED
    BY <2>3, <2>4
<1>6. ASSUME UNCHANGED <<pc, req, received, context>>
      PROVE  Goal
  BY <1>6
<1> HIDE DEF Goal
<1> QED
  <2>1. \/ UNCHANGED <<pc, req, received, context>>
        \/ \E s \in Slots : Answer(s)
        \/ \E s \in Slots, r \in Requests : Arrive(s, r)
        \/ \E s \in Slots : PassRead(s) \/ Admit(s) \/ EndOfBody(s)
        \/ \E s \in Slots : Receive(s)
        \/ \E s \in Slots : Clear(s)
    BY DEF Next, Tick, RejectDeclared, Refuse, RejectReceived, Deny, Handle
  <2>2. Goal
    <3> HIDE DEF TypeOK, BodyInv, Goto
    <3> QED
      BY <1>1, <1>2, <1>3, <1>4, <1>5, <1>6, <2>1
  <2> QED
    BY <2>2 DEF Goal

(* What is aged stays so. *)
LEMMA AgesOn ==
  ASSUME now \in Nat, now' \in Nat, now <= now', NEW t \in Nat, Aged(t)
  PROVE  Aged(t)'
BY NumbersAssumption DEF Aged

(* Popping aged entries leaves the end of the history.                     *)
LEMMA PopKeepsEnd ==
  ASSUME NEW q \in Seq(Nat), NEW a \in Seq(Nat), NEW n \in 0..Len(q),
         EndOf(q, a), \A i \in 1..n : Aged(q[i])
  PROVE  EndOf(Pruned(q, n), a)
<1> DEFINE off == Len(a) - Len(q)
           p == Pruned(q, n)
<1>1. /\ Len(q) \in Nat /\ Len(a) \in Nat /\ n \in Nat
      /\ n <= Len(q) /\ off \in Nat /\ Len(a) = Len(q) + off
  BY DEF EndOf
<1>2. /\ Len(p) = Len(q) - n
      /\ \A i \in 1..(Len(q) - n) : p[i] = q[i + n]
  BY PrunedQueue
<1>3. /\ \A i \in 1..Len(q) : q[i] = a[i + off]
      /\ \A i \in 1..off : Aged(a[i])
  BY DEF EndOf
<1>4. Len(a) - Len(p) = off + n
  BY <1>1, <1>2
<1> HIDE DEF off, p
<1>5. ASSUME NEW i \in 1..Len(p)
      PROVE  p[i] = a[i + (off + n)]
  <2>1. i \in Nat /\ i \in 1..(Len(q) - n) /\ i + n \in 1..Len(q)
    <3>1. i \in 1..(Len(q) - n)
      BY <1>2
    <3> QED
      BY ONLY <1>1, <3>1
  <2>2. p[i] = a[(i + n) + off]
    BY <1>2, <1>3, <2>1
  <2>3. (i + n) + off = i + (off + n)
    BY <1>1, <2>1
  <2> QED
    BY <2>2, <2>3
<1>6. ASSUME NEW i \in 1..(off + n)
      PROVE  Aged(a[i])
  <2>1. CASE i <= off
    BY <1>1, <1>3, <2>1
  <2>2. CASE i > off
    <3>1. i - off \in 1..n /\ i - off \in 1..Len(q) /\ (i - off) + off = i
      BY <1>1, <2>2
    <3>2. q[i - off] = a[i]
      <4>1. q[i - off] = a[(i - off) + off]
        BY <1>3, <3>1
      <4> QED
        BY <3>1, <4>1
    <3> QED
      BY <3>1, <3>2
  <2>3. i \in Int /\ off \in Int
    BY <1>1
  <2> QED
    BY <2>1, <2>2, <2>3
<1>7. Len(p) <= Len(a)
  BY <1>1, <1>2
<1> QED
  BY <1>4, <1>5, <1>6, <1>7 DEF EndOf, p

(* A time appended to both leaves the end of the history.                  *)
LEMMA PushKeepsEnd ==
  ASSUME NEW q \in Seq(Nat), NEW a \in Seq(Nat), NEW t \in Nat, EndOf(q, a)
  PROVE  EndOf(Append(q, t), Append(a, t))
<1> DEFINE off == Len(a) - Len(q)
<1>1. /\ Len(q) \in Nat /\ Len(a) \in Nat /\ off \in Nat /\ Len(a) = Len(q) + off
      /\ \A i \in 1..Len(q) : q[i] = a[i + off]
      /\ \A i \in 1..off : Aged(a[i])
  BY DEF EndOf
<1>2. /\ Len(Append(q, t)) = Len(q) + 1 /\ Len(Append(a, t)) = Len(a) + 1
      /\ \A i \in 1..Len(q) : Append(q, t)[i] = q[i]
      /\ \A i \in 1..Len(a) : Append(a, t)[i] = a[i]
      /\ Append(q, t)[Len(q) + 1] = t /\ Append(a, t)[Len(a) + 1] = t
  OBVIOUS
<1>3. Len(Append(a, t)) - Len(Append(q, t)) = off
  BY <1>1, <1>2
<1> HIDE DEF off
<1>4. ASSUME NEW i \in 1..(Len(q) + 1)
      PROVE  Append(q, t)[i] = Append(a, t)[i + off]
  <2>1. CASE i = Len(q) + 1
    <3>1. i + off = Len(a) + 1
      BY <1>1, <2>1
    <3> QED
      BY <1>2, <2>1, <3>1
  <2>2. CASE i # Len(q) + 1
    <3>1. i \in 1..Len(q) /\ i + off \in 1..Len(a)
      BY <1>1, <2>2
    <3> QED
      BY <1>1, <1>2, <3>1
  <2> QED
    BY <2>1, <2>2
<1>5. ASSUME NEW i \in 1..off
      PROVE  Aged(Append(a, t)[i])
  <2>1. i \in 1..Len(a)
    BY <1>1
  <2> QED
    BY <1>1, <1>2, <2>1
<1>6. Len(q) + 1 <= Len(a) + 1
  BY <1>1
<1> QED
  BY <1>2, <1>3, <1>4, <1>5, <1>6 DEF EndOf

(* The deque stays the end of the history, and what it dropped is aged.    *)
LEMMA SuffixStep ==
  ASSUME TypeOK, TypeOK', BodyInv, SuffixInv, [Next]_vars
  PROVE  SuffixInv'
<1> DEFINE Suffix(k) == /\ EndOf(queue[k], admitted[k])
                        /\ Len(queue[k]) <= Limit
                        /\ \A i \in 1..Len(admitted[k]) : admitted[k][i] <= now
<1> SUFFICES ASSUME NEW k \in Keys
             PROVE  Suffix(k)'
  BY DEF SuffixInv
<1>0. /\ now \in Nat /\ now' \in Nat /\ Window \in Nat /\ Limit \in Nat
      /\ queue[k] \in Seq(Nat) /\ admitted[k] \in Seq(Nat)
  BY NumbersAssumption DEF TypeOK
<1>1. /\ EndOf(queue[k], admitted[k])
      /\ Len(queue[k]) <= Limit
      /\ \A i \in 1..Len(admitted[k]) : admitted[k][i] <= now
  BY DEF SuffixInv
<1>2. CASE queue'[k] = queue[k] /\ admitted'[k] = admitted[k] /\ now' \in {now, now + 1}
  <2>1. \A i \in 1..(Len(admitted[k]) - Len(queue[k])) : Aged(admitted[k][i])'
    <3> SUFFICES ASSUME NEW i \in 1..(Len(admitted[k]) - Len(queue[k]))
                 PROVE  Aged(admitted[k][i])'
      OBVIOUS
    <3>1. Aged(admitted[k][i]) /\ admitted[k][i] \in Nat
      BY <1>0, <1>1 DEF EndOf
    <3> QED
      BY <1>0, <1>2, <3>1 DEF Aged
  <2>2. EndOf(queue[k], admitted[k])'
    BY <1>1, <1>2, <2>1 DEF EndOf
  <2>3. \A i \in 1..Len(admitted[k]) : admitted[k][i] <= now'
    BY <1>0, <1>1, <1>2
  <2> QED
    BY <1>1, <1>2, <2>2, <2>3
<1>3. ASSUME NEW n \in 0..Len(queue[k]), Prunes(queue[k], n)
      PROVE  /\ EndOf(Pruned(queue[k], n), admitted[k])
             /\ Pruned(queue[k], n) \in Seq(Nat)
             /\ Len(Pruned(queue[k], n)) = Len(queue[k]) - n
  BY <1>0, <1>1, <1>3, PopKeepsEnd, PrunedQueue DEF Prunes
<1>4. ASSUME NEW s \in Slots, Admit(s)
      PROVE  Suffix(k)'
  <2>1. PICK key \in Keys, n \in Nat :
          /\ n \in 0..Len(queue[key])
          /\ Prunes(queue[key], n)
          /\ Len(queue[key]) - n + 1 <= Limit
          /\ queue' = [queue EXCEPT ![key] = Append(Pruned(queue[key], n), now)]
          /\ admitted' = [admitted EXCEPT ![key] = Append(admitted[key], now)]
          /\ now' = now
    BY <1>4, AdmitStep
  <2>2. CASE key = k
    <3> DEFINE p == Pruned(queue[k], n)
    <3>1. queue'[k] = Append(p, now) /\ admitted'[k] = Append(admitted[k], now)
      BY <2>1, <2>2 DEF TypeOK
    <3>2. EndOf(p, admitted[k]) /\ p \in Seq(Nat) /\ Len(p) = Len(queue[k]) - n
      BY <1>3, <2>1, <2>2
    <3> HIDE DEF p
    <3>3. EndOf(queue'[k], admitted'[k])
      BY <1>0, <3>1, <3>2, PushKeepsEnd
    <3>4. EndOf(queue[k], admitted[k])'
      BY <2>1, <3>3 DEF EndOf, Aged
    <3>5. Len(queue'[k]) <= Limit
      <4>1. Len(Append(p, now)) = Len(p) + 1
        BY <1>0, <3>2
      <4>2. Len(queue[k]) - n + 1 <= Limit
        BY <2>1, <2>2
      <4> QED
        BY <3>1, <3>2, <4>1, <4>2
    <3>6. \A i \in 1..Len(admitted'[k]) : admitted'[k][i] <= now
      BY <1>0, <1>1, <3>1
    <3> QED
      BY <2>1, <3>4, <3>5, <3>6
  <2>3. CASE key # k
    BY <1>2, <2>1, <2>3 DEF TypeOK
  <2> QED
    BY <2>2, <2>3
<1>5. ASSUME NEW s \in Slots, Refuse(s)
      PROVE  Suffix(k)'
  <2>1. PICK key \in Keys, n \in Nat :
          /\ n \in 0..Len(queue[key])
          /\ Prunes(queue[key], n)
          /\ queue' = [queue EXCEPT ![key] = Pruned(queue[key], n)]
          /\ admitted' = admitted
          /\ now' = now
    BY <1>5, RefuseStep
  <2>2. CASE key = k
    <3> DEFINE p == Pruned(queue[k], n)
    <3>1. queue'[k] = p /\ admitted'[k] = admitted[k]
      BY <2>1, <2>2 DEF TypeOK
    <3>2. EndOf(p, admitted[k]) /\ p \in Seq(Nat) /\ Len(p) = Len(queue[k]) - n
      BY <1>3, <2>1, <2>2
    <3> HIDE DEF p
    <3>4. EndOf(queue[k], admitted[k])'
      BY <2>1, <3>1, <3>2 DEF EndOf, Aged
    <3>5. Len(queue'[k]) <= Limit
      BY <1>0, <1>1, <2>1, <2>2, <3>1, <3>2
    <3> QED
      BY <1>1, <2>1, <3>1, <3>4, <3>5
  <2>3. CASE key # k
    BY <1>2, <2>1, <2>3 DEF TypeOK
  <2> QED
    BY <2>2, <2>3
<1>6. CASE Tick
  BY <1>2, <1>6 DEF Tick
<1>7. CASE UNCHANGED <<now, queue, admitted, promise>>
  BY <1>2, <1>7
<1> HIDE DEF Suffix
<1> QED
  BY <1>4, <1>5, <1>6, <1>7, OtherSteps
(* A promise outlasts the oldest entry of its bucket.                      *)
LEMMA PromiseStep ==
  ASSUME TypeOK, BodyInv, PromiseInv, [Next]_vars
  PROVE  PromiseInv'
<1> DEFINE Promised(k) == promise[k] # None /\ queue[k] # <<>>
                        => promise[k] > queue[k][1] + Window
<1> SUFFICES ASSUME NEW k \in Keys
             PROVE  Promised(k)'
  BY DEF PromiseInv
<1>0. now \in Nat
  BY NumbersAssumption DEF TypeOK
<1>1. CASE queue'[k] = queue[k] /\ promise'[k] = promise[k]
  BY <1>1 DEF PromiseInv
<1>2. ASSUME NEW s \in Slots, Admit(s)
      PROVE  Promised(k)'
  <2>1. PICK key \in Keys, n \in Nat :
          /\ queue' = [queue EXCEPT ![key] = Append(Pruned(queue[key], n), now)]
          /\ promise' = [promise EXCEPT ![key] = None]
    BY <1>2, AdmitStep
  <2>2. CASE key = k
    BY <2>1, <2>2 DEF TypeOK
  <2>3. CASE key # k
    BY <1>1, <2>1, <2>3 DEF TypeOK
  <2> QED
    BY <2>2, <2>3
<1>3. ASSUME NEW s \in Slots, Refuse(s)
      PROVE  Promised(k)'
  <2>1. PICK key \in Keys, n \in Nat :
          /\ n \in 0..Len(queue[key])
          /\ Pruned(queue[key], n) # <<>>
          /\ queue' = [queue EXCEPT ![key] = Pruned(queue[key], n)]
          /\ promise' = [promise EXCEPT ![key] =
                            now + Second * RetryAfter(Pruned(queue[key], n))]
    BY <1>3, RefuseStep
  <2>2. CASE key = k
    <3> DEFINE p == Pruned(queue[k], n)
    <3>1. p \in Seq(Nat) /\ p # <<>>
      BY <2>1, <2>2, PrunedQueue DEF TypeOK
    <3>2. queue'[k] = p /\ promise'[k] = now + Second * RetryAfter(p)
      BY <2>1, <2>2 DEF TypeOK
    <3> HIDE DEF p
    <3>3. promise'[k] > queue'[k][1] + Window
      BY <1>0, <3>1, <3>2, WaitIsLongEnough
    <3> QED
      BY <3>3
  <2>3. CASE key # k
    BY <1>1, <2>1, <2>3 DEF TypeOK
  <2> QED
    BY <2>2, <2>3
<1>4. CASE Tick \/ UNCHANGED <<now, queue, admitted, promise>>
  BY <1>1, <1>4 DEF Tick
<1> HIDE DEF Promised
<1> QED
  BY <1>2, <1>3, <1>4, OtherSteps

(* An admission comes when the one Limit places before has left the window.*)
LEMMA WindowStep ==
  ASSUME TypeOK, BodyInv, SuffixInv, WindowBound, [Next]_vars
  PROVE  WindowBound'
<1> DEFINE Bound(k) == \A i \in 1..(Len(admitted[k]) - Limit) :
                         admitted[k][i + Limit] > admitted[k][i] + Window
<1> SUFFICES ASSUME NEW k \in Keys
             PROVE  Bound(k)'
  BY DEF WindowBound
<1>0. /\ now \in Nat /\ Window \in Nat /\ Limit \in Nat \ {0}
      /\ queue[k] \in Seq(Nat) /\ admitted[k] \in Seq(Nat)
  BY NumbersAssumption DEF TypeOK
<1>1. CASE admitted'[k] = admitted[k]
  BY <1>1 DEF WindowBound
<1>2. ASSUME NEW s \in Slots, Admit(s)
      PROVE  Bound(k)'
  <2>1. PICK key \in Keys, n \in Nat :
          /\ n \in 0..Len(queue[key])
          /\ Prunes(queue[key], n)
          /\ Len(queue[key]) - n + 1 <= Limit
          /\ admitted' = [admitted EXCEPT ![key] = Append(admitted[key], now)]
    BY <1>2, AdmitStep
  <2>2. CASE key = k
    <3> DEFINE a == admitted[k]
               p == Pruned(queue[k], n)
    <3>1. /\ EndOf(queue[k], a) /\ p \in Seq(Nat) /\ Len(p) = Len(queue[k]) - n
          /\ \A i \in 1..n : Aged(queue[k][i])
      BY <1>0, <2>1, <2>2, PrunedQueue DEF SuffixInv, Prunes
    <3>2. EndOf(p, a)
      BY <1>0, <2>1, <2>2, <3>1, PopKeepsEnd
    <3>3. \A i \in 1..Len(a) - Limit : a[i + Limit] > a[i] + Window
      BY DEF WindowBound
    <3>4. admitted'[k] = Append(a, now) /\ a \in Seq(Nat)
      BY <1>0, <2>1, <2>2 DEF TypeOK
    <3> HIDE DEF a, p
    <3>5. /\ Len(admitted'[k]) = Len(a) + 1 /\ Len(a) \in Nat /\ Len(p) \in Nat
          /\ admitted'[k][Len(a) + 1] = now
          /\ \A i \in 1..Len(a) : admitted'[k][i] = a[i]
      BY <1>0, <3>1, <3>4
    <3>6. Len(p) + 1 <= Limit
      BY <2>1, <2>2, <3>1
    <3> SUFFICES ASSUME NEW i \in 1..(Len(admitted'[k]) - Limit)
                 PROVE  admitted'[k][i + Limit] > admitted'[k][i] + Window
      OBVIOUS
    <3>10. i \in 1..(Len(a) + 1 - Limit)
      BY <1>0, <3>5
    <3>7. i \in 1..Len(a) /\ i \in 1..(Len(a) - Len(p)) /\ a[i] \in Nat
      <4>1. i \in Nat /\ i \in 1..Len(a) /\ i \in 1..(Len(a) - Len(p))
        BY <1>0, <3>5, <3>6, <3>10
      <4> QED
        BY <3>4, <4>1
    <3>8. CASE i + Limit = Len(a) + 1
      <4>1. Aged(a[i])
        BY <3>2, <3>7 DEF EndOf
      <4>2. now > a[i] + Window
        BY <1>0, <3>7, <4>1 DEF Aged
      <4> QED
        BY <3>5, <3>7, <3>8, <4>2
    <3>9. CASE i + Limit # Len(a) + 1
      <4>1. i \in 1..(Len(a) - Limit) /\ i + Limit \in 1..Len(a)
        BY <1>0, <3>5, <3>9, <3>10
      <4> QED
        BY <3>3, <3>5, <3>7, <4>1
    <3> QED
      BY <3>8, <3>9
  <2>3. CASE key # k
    BY <1>1, <2>1, <2>3 DEF TypeOK
  <2> QED
    BY <2>2, <2>3
<1>3. ASSUME NEW s \in Slots, Refuse(s)
      PROVE  Bound(k)'
  <2>1. admitted' = admitted
    BY <1>3, RefuseStep
  <2> QED
    BY <1>1, <2>1
<1>4. CASE Tick \/ UNCHANGED <<now, queue, admitted, promise>>
  BY <1>1, <1>4 DEF Tick
<1> HIDE DEF Bound
<1> QED
  BY <1>2, <1>3, <1>4, OtherSteps

(* Clear binds the actor of its own request, and no step rebinds it.       *)
LEMMA HandledStep ==
  ASSUME TypeOK, BodyInv, HandledAsCleared, [Next]_vars
  PROVE  HandledAsCleared'
<1> DEFINE Fine(s) ==
      pc[s] = "cleared" /\ ~req[s].open =>
        /\ req[s].token
        /\ req[s].write => req[s].actor # None /\ context[s] = req[s].actor
        /\ received[s] > MaxBytes => req[s].upload
<1> SUFFICES ASSUME NEW s \in Slots
             PROVE  Fine(s)'
  BY DEF HandledAsCleared
<1> USE DEF Goto
<1>1. CASE UNCHANGED <<pc[s], req[s], context[s], received[s]>>
  BY <1>1 DEF HandledAsCleared
<1>2. CASE pc'[s] # "cleared"
  BY <1>2
<1>3. CASE Clear(s)
  <2>1. /\ Authorised(req[s]) /\ req'[s] = req[s] /\ received'[s] = received[s]
        /\ context' = IF req[s].write /\ ~req[s].open /\ req[s].actor # None
                      THEN [context EXCEPT ![s] = req[s].actor] ELSE context
    BY <1>3 DEF Clear, SetActor
  <2>2. received[s] > MaxBytes => req[s].upload
    BY DEF BodyInv
  <2>3. req[s].write /\ ~req[s].open /\ req[s].actor # None => context'[s] = req[s].actor
    BY <2>1 DEF TypeOK
  <2> QED
    BY <2>1, <2>2, <2>3 DEF Authorised
<1>4. ASSUME NEW t \in Slots, t # s, Clear(t)
      PROVE  Fine(s)'
  <2>1. UNCHANGED <<pc[s], req[s], received[s], context[s]>>
    BY <1>4 DEF Clear, SetActor, TypeOK
  <2> QED
    BY <1>1, <2>1
<1>5. ASSUME NEW t \in Slots, Answer(t)
      PROVE  Fine(s)'
  <2>1. CASE t = s
    BY <1>2, <1>5, <2>1 DEF Answer, TypeOK
  <2>2. CASE t # s
    BY <1>1, <1>5, <2>2 DEF Answer, TypeOK
  <2> QED
    BY <2>1, <2>2
<1>6. ASSUME NEW t \in Slots,
             \/ \E r \in Requests : Arrive(t, r)
             \/ PassRead(t) \/ Admit(t) \/ Receive(t) \/ EndOfBody(t)
      PROVE  Fine(s)'
  <2>1. CASE t = s
    BY <1>2, <1>6, <2>1 DEF Arrive, PassRead, Admit, Receive, EndOfBody, TypeOK
  <2>2. CASE t # s
    BY <1>1, <1>6, <2>2 DEF Arrive, PassRead, Admit, Receive, EndOfBody, TypeOK
  <2> QED
    BY <2>1, <2>2
<1>7. CASE UNCHANGED <<pc, req, context, received>>
  BY <1>1, <1>7
<1> HIDE DEF Fine
<1>8. \/ UNCHANGED <<pc, req, context, received>>
      \/ \E t \in Slots : Clear(t)
      \/ \E t \in Slots : Answer(t)
      \/ \E t \in Slots : \/ \E r \in Requests : Arrive(t, r)
                          \/ PassRead(t) \/ Admit(t) \/ Receive(t) \/ EndOfBody(t)
  BY DEF Next, Tick, RejectDeclared, Refuse, RejectReceived, Deny, Handle
<1> QED
  BY <1>3, <1>4, <1>5, <1>6, <1>7, <1>8
-----------------------------------------------------------------------------
(* The parts of the invariant hold in every reachable state. *)
THEOREM GateInvariant == Spec => []GateInv
<1>1. GateInv /\ [Next]_vars => GateInv'
  <2> SUFFICES ASSUME GateInv, [Next]_vars
               PROVE  GateInv'
    OBVIOUS
  <2>1. /\ TypeOK /\ SuffixInv /\ PromiseInv /\ WindowBound /\ BodyInv
        /\ HandledAsCleared
    BY DEF GateInv
  <2>2. TypeOK' /\ BodyInv'
    <3>1. /\ now' \in 0..MaxClock
          /\ queue' \in [Keys -> Seq(Nat)]
          /\ admitted' \in [Keys -> Seq(Nat)]
          /\ promise' \in [Keys -> Nat \cup {None}]
      BY <2>1, LimiterTypeStep
    <3>2. /\ pc' \in [Slots -> {"idle", "logged", "reading", "read", "cleared"}]
          /\ req' \in [Slots -> Requests \cup {None}]
          /\ received' \in [Slots -> Nat]
          /\ context' \in [Slots -> Actors \cup {System}]
          /\ BodyInv'
      BY <2>1, SlotStep
    <3> QED
      BY <3>1, <3>2 DEF TypeOK
  <2>3. SuffixInv'
    BY <2>1, <2>2, SuffixStep
  <2>4. PromiseInv'
    BY <2>1, PromiseStep
  <2>5. WindowBound'
    BY <2>1, WindowStep
  <2>6. HandledAsCleared'
    BY <2>1, HandledStep
  <2> QED
    BY <2>2, <2>3, <2>4, <2>5, <2>6 DEF GateInv
<1> QED
  BY <1>1, GateInit, PTL DEF Spec

(* No window of the clock holds more than max_requests admissions.         *)
THEOREM WindowIsBounded == Spec => []WindowBound
<1>1. GateInv => WindowBound
  BY DEF GateInv
<1> QED
  BY <1>1, GateInvariant, PTL

(* Whoever waits for Retry-After finds room, whatever the clock's          *)
(* resolution, unless another request took it.                             *)
THEOREM RetryAfterIsEnough == Spec => []RetryAfterSuffices
<1>1. GateInv => RetryAfterSuffices
  <2> SUFFICES ASSUME GateInv, NEW k \in Keys, promise[k] # None, now >= promise[k]
               PROVE  /\ queue[k] # <<>> => Aged(queue[k][1])
                      /\ Len(queue[k]) <= Limit
    BY DEF RetryAfterSuffices
  <2>1. /\ now \in Nat /\ Window \in Nat /\ promise[k] \in Nat /\ queue[k] \in Seq(Nat)
    BY NumbersAssumption DEF GateInv, TypeOK
  <2>2. queue[k] # <<>> => promise[k] > queue[k][1] + Window
    BY DEF GateInv, PromiseInv
  <2>3. queue[k] # <<>> => queue[k][1] \in Nat
    BY <2>1
  <2>4. queue[k] # <<>> => Aged(queue[k][1])
    BY <2>1, <2>2, <2>3 DEF Aged
  <2> QED
    BY <2>4 DEF GateInv, SuffixInv
<1> QED
  BY <1>1, GateInvariant, PTL

(* A handler runs for the actor and the token of its own request only.     *)
THEOREM RequestsAreHandledAsCleared == Spec => []HandledAsCleared
<1>1. GateInv => HandledAsCleared
  BY DEF GateInv
<1> QED
  BY <1>1, GateInvariant, PTL
-----------------------------------------------------------------------------
(* The audit log *)

(* What the i-th record is after a commit, and what it is linked to. *)
LEMMA AppendedRecord ==
  ASSUME log \in Seq(Record), NEW r \in Record, log' = Append(log, r),
         NEW CONSTANT n \in Nat, n = Len(log) + 1
  PROVE  /\ DOMAIN log' = DOMAIN log \cup {n}
         /\ \A i \in DOMAIN log : log'[i] = log[i] /\ ExpectedPrev(i)' = ExpectedPrev(i)
         /\ log'[n] = r
         /\ ExpectedPrev(n)' = HeadOf(log)
<1>1. Len(log) \in Nat /\ DOMAIN log = 1..Len(log) /\ DOMAIN log' = 1..n
  OBVIOUS
<1>2. \A i \in 1..Len(log) : log'[i] = log[i]
  OBVIOUS
<1>3. log'[n] = r
  OBVIOUS
<1>4. \A i \in DOMAIN log : ExpectedPrev(i)' = ExpectedPrev(i)
  <2> SUFFICES ASSUME NEW i \in 1..Len(log)
               PROVE  ExpectedPrev(i)' = ExpectedPrev(i)
    BY <1>1
  <2>1. CASE i = 1
    BY <2>1 DEF ExpectedPrev
  <2>2. CASE i # 1
    <3>1. i - 1 \in 1..Len(log)
      BY <1>1, <2>2
    <3> QED
      BY <1>2, <2>2, <3>1 DEF ExpectedPrev
  <2> QED
    BY <2>1, <2>2
<1>5. ExpectedPrev(n)' = HeadOf(log)
  <2>1. CASE log = <<>>
    <3>1. n = 1
      BY <2>1
    <3> QED
      BY <2>1, <3>1 DEF ExpectedPrev, HeadOf
  <2>2. CASE log # <<>>
    <3>1. Len(log) \in 1..Len(log) /\ n # 1 /\ n - 1 = Len(log)
      BY <1>1, <2>2
    <3>2. log'[Len(log)] = log[Len(log)]
      BY <1>2, <3>1
    <3>3. ExpectedPrev(n)' = log'[Len(log)].hash
      BY <3>1 DEF ExpectedPrev
    <3>4. HeadOf(log) = log[Len(log)].hash
      BY <2>2 DEF HeadOf, Last
    <3> QED
      BY <3>2, <3>3, <3>4
  <2> QED
    BY <2>1, <2>2
<1> QED
  BY <1>1, <1>2, <1>3, <1>4, <1>5

(* The head of a log is a digest. *)
LEMMA HeadIsDigest ==
  ASSUME NEW l \in Seq(Record)
  PROVE  HeadOf(l) \in Digest
<1>1. CASE l = <<>>
  <2>1. HeadOf(l) = <<>>
    BY <1>1 DEF HeadOf, Genesis
  <2> QED
    BY <2>1 DEF Digest
<1>2. CASE l # <<>>
  <2>1. Len(l) \in 1..Len(l)
    BY <1>2
  <2>2. l[Len(l)] \in Record
    BY <2>1
  <2> QED
    BY <1>2, <2>2 DEF HeadOf, Last, Record
<1> QED
  BY <1>1, <1>2

(* The new record is well formed. *)
LEMMA ChainedRecordIsRecord ==
  ASSUME AuditTypeOK, NEW w \in Writers
  PROVE  /\ ChainedRecord(w) \in Record
         /\ ChainedRecord(w).prev = head[w]
         /\ ChainedRecord(w).hash =
              compute_audit_record_hash(ChainedRecord(w).action, ChainedRecord(w).prev)
         /\ ChainedRecord(w).flushed <=> step[w] = "readFlushed"
<1>1. action[w] \in Actions /\ head[w] \in Digest
  BY DEF AuditTypeOK
<1>2. compute_audit_record_hash(action[w], head[w]) \in Digest
  BY <1>1 DEF compute_audit_record_hash, Digest
<1>3. (step[w] = "readFlushed") \in BOOLEAN
  OBVIOUS
<1> QED
  BY <1>1, <1>2, <1>3 DEF ChainedRecord, Record

(* The lock protects the head between the read and the commit. *)
LEMMA ChainInit == AuditInit => ChainInv
BY NobodyIsNoWriter
DEF AuditInit, ChainInv, AuditTypeOK, LockInv, FlushedRecordsLink, NoFalseTampering, Record, Digest,
    Genesis

(* The variables keep their types. *)
LEMMA TypeStep == AuditTypeOK /\ [AuditNext]_auditVars => AuditTypeOK'
<1> SUFFICES ASSUME AuditTypeOK, [AuditNext]_auditVars
             PROVE  AuditTypeOK'
  OBVIOUS
<1> USE DEF AuditTypeOK, Proceed
<1>1. ASSUME NEW w \in Writers, NEW a \in Actions, Load(w, a)
      PROVE  AuditTypeOK'
  BY <1>1 DEF Load
<1>2. ASSUME NEW w \in Writers, Autoflush(w)
      PROVE  AuditTypeOK'
  BY <1>2 DEF Autoflush
<1>3. ASSUME NEW w \in Writers, ReadHead(w)
      PROVE  AuditTypeOK'
  BY <1>3, HeadIsDigest DEF ReadHead
<1>4. ASSUME NEW w \in Writers, Commit(w)
      PROVE  AuditTypeOK'
  <2>1. ChainedRecord(w) \in Record
    BY ChainedRecordIsRecord
  <2> QED
    BY <1>4, <2>1 DEF Commit
<1>5. ASSUME NEW w \in Writers, Rollback(w)
      PROVE  AuditTypeOK'
  BY <1>5 DEF Rollback
<1>6. CASE UNCHANGED auditVars
  BY <1>6 DEF auditVars
<1> QED
  BY <1>1, <1>2, <1>3, <1>4, <1>5, <1>6 DEF AuditNext

(* The holder of the lock, and only it, is between its flush and its commit. *)
LEMMA LockStep == AuditTypeOK /\ LockInv /\ [AuditNext]_auditVars => LockInv'
<1> SUFFICES ASSUME AuditTypeOK, LockInv, [AuditNext]_auditVars
             PROVE  LockInv'
  OBVIOUS
<1> USE NobodyIsNoWriter DEF AuditTypeOK, LockInv, Proceed
<1>1. ASSUME NEW w \in Writers, NEW a \in Actions, Load(w, a)
      PROVE  LockInv'
  BY <1>1 DEF Load
<1>2. ASSUME NEW w \in Writers, Autoflush(w)
      PROVE  LockInv'
  BY <1>2 DEF Autoflush
<1>3. ASSUME NEW w \in Writers, ReadHead(w)
      PROVE  LockInv'
  BY <1>3 DEF ReadHead
<1>4. ASSUME NEW w \in Writers, Commit(w)
      PROVE  LockInv'
  <2>1. \A v \in Writers : step'[v] \in {"flushed", "readFlushed"} <=> lock' = v
    BY <1>4 DEF Commit
  <2>2. \A v \in Writers : step'[v] # "readFlushed"
    BY <1>4, <2>1 DEF Commit
  <2> QED
    BY <2>1, <2>2
<1>5. ASSUME NEW w \in Writers, Rollback(w)
      PROVE  LockInv'
  BY <1>5 DEF Rollback
<1>6. CASE UNCHANGED auditVars
  BY <1>6 DEF auditVars
<1> QED
  BY <1>1, <1>2, <1>3, <1>4, <1>5, <1>6 DEF AuditNext

(* Only Commit touches the log, and it appends a record that is well made  *)
(* and, when its writer held the lock, well placed.                        *)
LEMMA LinkStep ==
  ChainInv /\ [AuditNext]_auditVars => FlushedRecordsLink' /\ NoFalseTampering'
<1> SUFFICES ASSUME ChainInv, [AuditNext]_auditVars
             PROVE  FlushedRecordsLink' /\ NoFalseTampering'
  OBVIOUS
<1>1. ASSUME NEW w \in Writers, Commit(w)
      PROVE  FlushedRecordsLink' /\ NoFalseTampering'
  <2> DEFINE r == ChainedRecord(w)
  <2>1. /\ r \in Record
        /\ r.prev = head[w]
        /\ r.hash = compute_audit_record_hash(r.action, r.prev)
        /\ r.flushed <=> step[w] = "readFlushed"
    BY ChainedRecordIsRecord DEF ChainInv
  <2>2. log' = Append(log, r) /\ log \in Seq(Record)
    BY <1>1 DEF Commit, ChainInv, AuditTypeOK
  <2> HIDE DEF r
  <2>n. PICK n \in Nat : n = Len(log) + 1
    BY <2>2
  <2>3. /\ DOMAIN log' = DOMAIN log \cup {n}
        /\ \A i \in DOMAIN log : log'[i] = log[i] /\ ExpectedPrev(i)' = ExpectedPrev(i)
        /\ log'[n] = r
        /\ ExpectedPrev(n)' = HeadOf(log)
    BY <2>1, <2>2, <2>n, AppendedRecord
  <2>4. r.flushed => r.prev = HeadOf(log)
    BY <2>1 DEF ChainInv, LockInv
  <2>5. ASSUME NEW i \in DOMAIN log'
        PROVE  (log'[i].flushed => ~BrokenLink(i)') /\ ~TamperedRecord(i)'
    <3>1. CASE i \in DOMAIN log
      BY <2>3, <3>1
      DEF ChainInv, FlushedRecordsLink, NoFalseTampering, BrokenLink, TamperedRecord
    <3>2. CASE i = n
      <4>1. log'[i] = r /\ ExpectedPrev(i)' = HeadOf(log)
        BY <2>3, <3>2
      <4>2. BrokenLink(i)' <=> r.prev # HeadOf(log)
        BY <4>1 DEF BrokenLink
      <4>3. ~TamperedRecord(i)'
        BY <2>1, <4>1 DEF TamperedRecord
      <4> QED
        BY <2>4, <4>1, <4>2, <4>3
    <3> QED
      BY <2>3, <3>1, <3>2
  <2> QED
    BY <2>5 DEF FlushedRecordsLink, NoFalseTampering
<1>2. CASE UNCHANGED log
  BY <1>2 DEF ChainInv, FlushedRecordsLink, NoFalseTampering, BrokenLink, TamperedRecord,
              ExpectedPrev
<1>3. \/ \E w \in Writers : Commit(w)
      \/ UNCHANGED log
  BY DEF AuditNext, auditVars, Load, Autoflush, ReadHead, Rollback
<1> QED
  BY <1>1, <1>2, <1>3

(* The types, the lock discipline and the links hold together. *)
THEOREM ChainInvariant == AuditSpec => []ChainInv
<1>1. ChainInv /\ [AuditNext]_auditVars => ChainInv'
  BY TypeStep, LockStep, LinkStep DEF ChainInv
<1> QED
  BY ChainInit, <1>1, PTL DEF AuditSpec

(* A handler that flushes before it logs never breaks the chain, however   *)
(* many handlers run beside it.                                            *)
THEOREM FlushedWritersChain == AuditSpec => []FlushedRecordsLink
<1>1. ChainInv => FlushedRecordsLink
  BY DEF ChainInv
<1> QED
  BY <1>1, ChainInvariant, PTL

(* Verification never takes the work of the application for a tampered row.*)
THEOREM NoRecordLooksTampered == AuditSpec => []NoFalseTampering
<1>1. ChainInv => NoFalseTampering
  BY DEF ChainInv
<1> QED
  BY <1>1, ChainInvariant, PTL

(* Were every handler to flush before it logs, the chain would always      *)
(* verify: the whole of the fork comes from MayChangeNothing.              *)
THEOREM FlushingHandlersKeepTheChain ==
  ASSUME MayChangeNothing = {}
  PROVE  AuditSpec => []ChainedSequentially
<1> DEFINE AllFlushed == /\ \A w \in Writers : step[w] \notin {"clean", "read"}
                         /\ \A i \in DOMAIN log : log[i].flushed
<1>1. AuditInit => AllFlushed
  BY DEF AuditInit
<1>2. ChainInv /\ AllFlushed /\ [AuditNext]_auditVars => AllFlushed'
  <2> SUFFICES ASSUME ChainInv, AllFlushed, [AuditNext]_auditVars
               PROVE  AllFlushed'
    OBVIOUS
  <2> USE DEF ChainInv, AuditTypeOK, Proceed
  <2>1. ASSUME NEW w \in Writers, NEW a \in Actions, Load(w, a)
        PROVE  AllFlushed'
    BY <2>1 DEF Load
  <2>2. ASSUME NEW w \in Writers, Autoflush(w)
        PROVE  AllFlushed'
    BY <2>2 DEF Autoflush
  <2>3. ASSUME NEW w \in Writers, ReadHead(w)
        PROVE  AllFlushed'
    BY <2>3 DEF ReadHead
  <2>4. ASSUME NEW w \in Writers, Commit(w)
        PROVE  AllFlushed'
    <3>1. ChainedRecord(w) \in Record /\ ChainedRecord(w).flushed
      BY <2>4, ChainedRecordIsRecord DEF Commit
    <3>2. \A i \in DOMAIN log' : log'[i].flushed
      BY <2>4, <3>1 DEF Commit
    <3>3. \A v \in Writers : step'[v] \notin {"clean", "read"}
      BY <2>4 DEF Commit
    <3> QED
      BY <3>2, <3>3
  <2>5. ASSUME NEW w \in Writers, Rollback(w)
        PROVE  AllFlushed'
    BY <2>5 DEF Rollback
  <2>6. CASE UNCHANGED auditVars
    BY <2>6 DEF auditVars
  <2> QED
    BY <2>1, <2>2, <2>3, <2>4, <2>5, <2>6 DEF AuditNext
<1>3. ChainInv /\ AllFlushed => ChainedSequentially
  BY DEF ChainInv, FlushedRecordsLink, NoFalseTampering, ChainedSequentially, Valid
<1> QED
  BY <1>1, <1>2, <1>3, ChainInvariant, PTL DEF AuditSpec
=============================================================================
