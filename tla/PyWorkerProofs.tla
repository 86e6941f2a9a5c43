---------------------------- MODULE PyWorkerProofs ----------------------------
(***************************************************************************)
(* The Python worker, for any number of threads and requests: the queue    *)
(* waits only for busy threads, no request is worked on twice, and the     *)
(* process does not exit over one.                                         *)
(***************************************************************************)
EXTENDS PyWorker, FiniteSetTheorems, TLAPS

Busy == {"filtering", "putting"}

\* Requests are taken in the order in which they came: the queue is increasing,
\* and whatever a thread works on came before all that is queued.
OrderInv ==
  /\ \A i \in DOMAIN queue :
       /\ queue[i] <= arrived
       /\ \A k \in DOMAIN queue : i < k => queue[i] < queue[k]
  /\ \A t \in Threads :
       /\ request[t] # None <=> thread[t] \in Busy
       /\ request[t] # None =>
            /\ request[t] <= arrived
            /\ \A i \in DOMAIN queue : request[t] < queue[i]
            /\ \A u \in Threads : request[u] = request[t] => u = t

Queued(r) == \E i \in DOMAIN queue : queue[i] = r
Held(r) == \E t \in Threads : request[t] = r

\* Neither a request that has not come nor one that is queued or worked on has a
\* result.
ResultInv ==
  \A r \in Requests : r > arrived \/ Queued(r) \/ Held(r) => results[r] = 0

Half == IF submitting THEN 1 ELSE 0

\* While there is a place for another thread, the tokens of the idle semaphore
\* are the waiting threads that the queue has no request for: every start that
\* failed takes one of them, a submit() between its halves counts already.
Balance == Len(queue) + idle = Cardinality(Waiting) + failures + Half

\* Only then do threads end.
Drained == process # "running" /\ ~submitting /\ queue = <<>>

TokenInv == NewThreads # {} => Balance \/ Drained

IInv == TypeOK /\ OrderInv /\ ResultInv /\ TokenInv

PoolStep(t) ==
  \/ Take(t) \/ Filter(t) \/ PutResult(t) \/ PutFails(t) \/ GiveToken(t)
  \/ EndThread(t)

-----------------------------------------------------------------------------
(* The inductive invariant                                                 *)

LEMMA InitInv == Init => IInv
<1> SUFFICES ASSUME Init PROVE IInv
  OBVIOUS
<1>1. TypeOK
  <2>1. arrived \in 0..NumRequests /\ queue \in Seq(Requests)
    BY PoolAssumption DEF Init
  <2>2. idle \in Nat /\ failures \in Nat /\ results \in [Requests -> Nat]
    BY DEF Init
  <2>3. /\ thread \in [Threads -> ThreadState]
        /\ request \in [Threads -> Requests \cup {None}]
    BY DEF Init, ThreadState
  <2> QED
    BY <2>1, <2>2, <2>3, Zenon DEF Init, TypeOK
<1>2. OrderInv
  BY DEF Init, OrderInv, Busy
<1>3. ResultInv
  BY DEF Init, ResultInv
<1>4. Waiting = {}
  BY DEF Init, Waiting
<1>5. TokenInv
  BY <1>4, FS_EmptySet DEF Init, TokenInv, Balance, Half
<1> QED
  BY <1>1, <1>2, <1>3, <1>5 DEF IInv

LEMMA TypeStep == TypeOK /\ OrderInv /\ Next => TypeOK'
<1> SUFFICES ASSUME TypeOK, OrderInv, Next PROVE TypeOK'
  OBVIOUS
<1> USE PoolAssumption DEF TypeOK, ThreadState
<1>1. CASE OnRequest
  <2>1. arrived + 1 \in Requests
    BY <1>1 DEF OnRequest, Requests
  <2> QED
    BY <1>1, <2>1 DEF OnRequest
<1>2. CASE ReuseThread
  <2>1. idle' \in Nat
    BY <1>2 DEF ReuseThread
  <2> QED
    BY <1>2, <2>1, Zenon DEF ReuseThread
<1>3. CASE StartThread
  BY <1>3 DEF StartThread
<1>4. CASE StartThreadFails
  <2>1. failures' \in Nat
    BY <1>4 DEF StartThreadFails
  <2> QED
    BY <1>4, <2>1, Zenon DEF StartThreadFails
<1>5. ASSUME NEW t \in Threads, PoolStep(t) PROVE TypeOK'
  <2>1. CASE Take(t)
    <3>1. queue \in Seq(Requests) /\ queue # <<>>
      BY <2>1 DEF Take
    <3>2. Head(queue) \in Requests /\ Tail(queue) \in Seq(Requests)
      BY <3>1
    <3> QED
      BY <2>1, <3>2 DEF Take
  <2>2. CASE Filter(t)
    BY <2>2 DEF Filter
  <2>3. CASE PutResult(t)
    <3>1. thread[t] = "putting"
      BY <2>3 DEF PutResult, Done
    <3>2. request[t] \in Requests
      BY <3>1 DEF OrderInv, Busy
    <3>3. results' \in [Requests -> Nat]
      BY <2>3, <3>2 DEF PutResult
    <3> QED
      BY <2>3, <3>3 DEF PutResult, Done
  <2>4. CASE PutFails(t)
    BY <2>4 DEF PutFails, Done
  <2>5. CASE GiveToken(t)
    BY <2>5 DEF GiveToken
  <2>6. CASE EndThread(t)
    BY <2>6 DEF EndThread
  <2> QED
    BY <1>5, <2>1, <2>2, <2>3, <2>4, <2>5, <2>6 DEF PoolStep
<1>6. CASE Interrupt
  BY <1>6 DEF Interrupt
<1>7. CASE Exit
  BY <1>7 DEF Exit
<1>8. CASE Kill
  BY <1>8 DEF Kill
<1> QED
  BY <1>1, <1>2, <1>3, <1>4, <1>5, <1>6, <1>7, <1>8 DEF Next, PoolStep

\* What the steps do to the queue and to the requests in the pool.
LEMMA RequestSteps ==
  ASSUME TypeOK, Next
  PROVE  \/ /\ OnRequest
         \/ /\ UNCHANGED <<arrived, queue, request, results>>
            /\ \A t \in Threads : thread'[t] \in Busy <=> thread[t] \in Busy
         \/ \E t \in Threads : Take(t)
         \/ \E t \in Threads :
              /\ thread[t] = "putting"
              /\ request' = [request EXCEPT ![t] = None]
              /\ thread' = [thread EXCEPT ![t] = "done"]
              /\ UNCHANGED <<arrived, queue>>
              /\ UNCHANGED results \/ PutResult(t)
<1> USE DEF TypeOK, ThreadState, Busy
<1>1. ASSUME NEW t \in Threads, Filter(t) \/ GiveToken(t) \/ EndThread(t)
      PROVE  /\ UNCHANGED <<arrived, queue, request, results>>
             /\ \A u \in Threads : thread'[u] \in Busy <=> thread[u] \in Busy
  BY <1>1 DEF Filter, GiveToken, EndThread
<1>2. ASSUME NEW t \in Threads, PutResult(t) \/ PutFails(t)
      PROVE  /\ thread[t] = "putting"
             /\ request' = [request EXCEPT ![t] = None]
             /\ thread' = [thread EXCEPT ![t] = "done"]
             /\ UNCHANGED <<arrived, queue>>
             /\ UNCHANGED results \/ PutResult(t)
  BY <1>2 DEF PutResult, PutFails, Done
<1>3. ASSUME ReuseThread \/ StartThread \/ StartThreadFails \/ Interrupt \/ Exit \/ Kill
      PROVE  /\ UNCHANGED <<arrived, queue, request, results>>
             /\ \A u \in Threads : thread'[u] \in Busy <=> thread[u] \in Busy
  BY <1>3 DEF ReuseThread, StartThread, StartThreadFails, NewThreads, Interrupt,
              Exit, Kill
<1> QED
  BY <1>1, <1>2, <1>3 DEF Next

LEMMA OrderStep == TypeOK /\ OrderInv /\ Next => OrderInv'
<1> SUFFICES ASSUME TypeOK, OrderInv, Next PROVE OrderInv'
  OBVIOUS
<1>1. CASE OnRequest
  <2>1. /\ arrived' = arrived + 1
        /\ UNCHANGED <<thread, request>>
        /\ queue' = Append(queue, arrived + 1)
    BY <1>1 DEF OnRequest
  <2>2. /\ arrived \in Nat
        /\ queue \in Seq(Requests)
        /\ \A i \in DOMAIN queue : queue[i] \in Nat
        /\ \A t \in Threads : request[t] # None => request[t] \in Nat
    <3>1. \A i \in DOMAIN queue : queue[i] \in Requests
      BY DEF TypeOK
    <3>2. \A t \in Threads : request[t] # None => request[t] \in Requests
      BY DEF TypeOK
    <3>3. arrived \in Nat /\ Requests \subseteq Nat
      BY PoolAssumption DEF TypeOK, Requests
    <3> QED
      BY <3>1, <3>2, <3>3 DEF TypeOK
  <2>3. \A i \in DOMAIN queue' :
          \/ i \in DOMAIN queue /\ queue'[i] = queue[i]
          \/ i = Len(queue) + 1 /\ queue'[i] = arrived + 1
    BY <2>1, <2>2
  <2>4. \A i \in DOMAIN queue : i \in 1..Len(queue)
    BY <2>2
  <2>5. Len(queue) \in Nat
    BY <2>2
  <2>6. ASSUME NEW i \in DOMAIN queue'
        PROVE  /\ queue'[i] <= arrived'
               /\ \A k \in DOMAIN queue' : i < k => queue'[i] < queue'[k]
    BY <2>1, <2>2, <2>3, <2>4, <2>5 DEF OrderInv
  <2>7. ASSUME NEW t \in Threads, request[t] # None
        PROVE  /\ request[t] <= arrived'
               /\ \A i \in DOMAIN queue' : request[t] < queue'[i]
    BY <2>1, <2>2, <2>3, <2>7 DEF OrderInv
  <2> QED
    BY <2>1, <2>6, <2>7 DEF OrderInv
<1>2. CASE /\ UNCHANGED <<arrived, queue, request, results>>
           /\ \A t \in Threads : thread'[t] \in Busy <=> thread[t] \in Busy
  BY <1>2 DEF OrderInv
<1>3. ASSUME NEW t \in Threads, Take(t) PROVE OrderInv'
  <2>1. /\ queue # <<>> /\ queue' = Tail(queue)
        /\ request' = [request EXCEPT ![t] = Head(queue)]
        /\ thread' = [thread EXCEPT ![t] = "filtering"]
        /\ UNCHANGED arrived
    BY <1>3 DEF Take
  <2>2. /\ queue \in Seq(Requests)
        /\ request \in [Threads -> Requests \cup {None}]
        /\ thread \in [Threads -> ThreadState]
    BY DEF TypeOK
  <2>3. /\ 1 \in DOMAIN queue
        /\ Head(queue) = queue[1]
        /\ \A i \in DOMAIN queue' :
             i \in Nat /\ i + 1 \in DOMAIN queue /\ queue'[i] = queue[i + 1] /\ 1 < i + 1
    BY <2>1, <2>2
  <2>4. queue[1] \in Requests /\ queue[1] # None
    BY <2>2, <2>3, PoolAssumption
  <2>5. ASSUME NEW i \in DOMAIN queue'
        PROVE  /\ queue'[i] <= arrived'
               /\ \A k \in DOMAIN queue' : i < k => queue'[i] < queue'[k]
    BY <2>1, <2>3, <2>5 DEF OrderInv
  <2>6. ASSUME NEW u \in Threads
        PROVE  /\ request'[u] # None <=> thread'[u] \in Busy
               /\ request'[u] # None =>
                    /\ request'[u] <= arrived'
                    /\ \A i \in DOMAIN queue' : request'[u] < queue'[i]
    <3>1. CASE u = t
      BY <2>1, <2>2, <2>3, <2>4, <3>1 DEF OrderInv, Busy
    <3>2. CASE u # t
      BY <2>1, <2>2, <2>3, <3>2 DEF OrderInv, Busy
    <3> QED
      BY <3>1, <3>2
  <2>7. ASSUME NEW u \in Threads, request'[u] # None, NEW v \in Threads,
               request'[v] = request'[u]
        PROVE  v = u
    <3>1. \A x \in Threads : request[x] # None => request[x] # queue[1]
      <4> SUFFICES ASSUME NEW x \in Threads, request[x] # None PROVE request[x] # queue[1]
        OBVIOUS
      <4>1. request[x] < queue[1] /\ request[x] \in Nat /\ queue[1] \in Nat
        BY <2>2, <2>3, <2>4 DEF OrderInv, Requests
      <4> QED
        BY <4>1
    <3>2. \A x \in Threads : request'[x] = IF x = t THEN queue[1] ELSE request[x]
      BY <2>1, <2>2, <2>3
    <3> QED
      BY <2>4, <2>7, <3>1, <3>2 DEF OrderInv
  <2> QED
    BY <2>5, <2>6, <2>7 DEF OrderInv
<1>4. ASSUME NEW t \in Threads,
             thread[t] = "putting",
             request' = [request EXCEPT ![t] = None],
             thread' = [thread EXCEPT ![t] = "done"],
             UNCHANGED <<arrived, queue>>
      PROVE  OrderInv'
  BY <1>4 DEF OrderInv, TypeOK, Busy
<1> QED
  BY <1>1, <1>2, <1>3, <1>4, RequestSteps

\* The request that a step takes into the pool or finishes there.
LEMMA TakenRequest ==
  ASSUME TypeOK, OrderInv, NEW t \in Threads, Take(t), NEW q, q = queue[1]
  PROVE  /\ q \in Requests
         /\ 1 \in DOMAIN queue
         /\ Held(q)' /\ Queued(q)
         /\ \A r : Held(r)' => r = q \/ Held(r)
         /\ \A r \in Requests : Held(r) => Held(r)'
         /\ \A r : Queued(r)' => Queued(r)
         /\ \A r : Queued(r) => r = q \/ Queued(r)'
<1>1. /\ queue # <<>> /\ queue' = Tail(queue)
      /\ request' = [request EXCEPT ![t] = Head(queue)]
      /\ thread[t] = "waiting"
  BY DEF Take
<1>2. /\ queue \in Seq(Requests)
      /\ request \in [Threads -> Requests \cup {None}]
  BY DEF TypeOK
<1>3. /\ 1 \in DOMAIN queue
      /\ Head(queue) = queue[1]
      /\ \A i \in DOMAIN queue' : i + 1 \in DOMAIN queue /\ queue'[i] = queue[i + 1]
  BY <1>1, <1>2
<1>4. \A i \in DOMAIN queue : i # 1 => i - 1 \in DOMAIN queue' /\ queue'[i - 1] = queue[i]
  BY <1>1, <1>2
<1>5. request[t] = None
  BY <1>1 DEF OrderInv, Busy
<1>6. \A u \in Threads : request'[u] = IF u = t THEN queue[1] ELSE request[u]
  BY <1>1, <1>2, <1>3
<1>7. q \in Requests
  BY <1>2, <1>3
<1>8. Held(q)' /\ \A r : Held(r)' => r = q \/ Held(r)
  BY <1>6 DEF Held
<1>9. \A r \in Requests : Held(r) => Held(r)'
  BY <1>5, <1>6, PoolAssumption DEF Held
<1>10. \A r : Queued(r)' => Queued(r)
  BY <1>3 DEF Queued
<1>11. \A r : Queued(r) => r = q \/ Queued(r)'
  BY <1>4 DEF Queued
<1>12. Queued(q)
  BY <1>3 DEF Queued
<1> QED
  BY <1>3, <1>7, <1>8, <1>9, <1>10, <1>11, <1>12

LEMMA FinishedRequest ==
  ASSUME TypeOK, OrderInv, NEW t \in Threads, thread[t] = "putting",
         NEW q, q = request[t],
         request' = [request EXCEPT ![t] = None],
         UNCHANGED queue
  PROVE  /\ q \in Requests /\ q <= arrived
         /\ Held(q) /\ ~Held(q)' /\ ~Queued(q)'
         /\ \A r \in Requests : Held(r)' => Held(r)
         /\ \A r : Held(r) => r = q \/ Held(r)'
         /\ \A r : Queued(r)' <=> Queued(r)
<1>1. request[t] # None /\ request[t] \in Requests /\ request[t] <= arrived
  BY DEF OrderInv, Busy, TypeOK
<1>2. \A u \in Threads : request'[u] = IF u = t THEN None ELSE request[u]
  BY DEF TypeOK
<1>3. \A r : Queued(r)' <=> Queued(r)
  BY DEF Queued
<1>4. Held(q) /\ \A r : Held(r) => r = q \/ Held(r)'
  BY <1>2 DEF Held
<1>5. \A r \in Requests : Held(r)' => Held(r)
  BY <1>2, PoolAssumption DEF Held
<1>6. ~Held(q)'
  <2> SUFFICES ASSUME NEW u \in Threads, request'[u] = request[t] PROVE FALSE
    BY DEF Held
  <2> QED
    BY <1>1, <1>2 DEF OrderInv
<1>7. ~Queued(q)
  <2> SUFFICES ASSUME NEW i \in DOMAIN queue, queue[i] = request[t] PROVE FALSE
    BY DEF Queued
  <2>1. request[t] < queue[i] /\ request[t] \in Nat
    BY <1>1 DEF OrderInv, Requests
  <2> QED
    BY <2>1
<1> QED
  BY <1>1, <1>3, <1>4, <1>5, <1>6, <1>7

\* The request that arrives.
LEMMA ArrivedRequest ==
  ASSUME TypeOK, OrderInv, OnRequest
  PROVE  /\ arrived + 1 \in Requests /\ arrived \in Nat
         /\ arrived' = arrived + 1
         /\ UNCHANGED <<process, request, results>>
         /\ \A r : Queued(r)' <=> Queued(r) \/ r = arrived + 1
         /\ \A r : Held(r)' <=> Held(r)
<1>1. /\ arrived' = arrived + 1 /\ arrived < NumRequests
      /\ UNCHANGED <<process, request, results>>
      /\ queue' = Append(queue, arrived + 1)
  BY DEF OnRequest
<1>2. arrived + 1 \in Requests /\ arrived \in Nat
  BY <1>1, PoolAssumption DEF TypeOK, Requests
<1>3. queue \in Seq(Requests)
  BY DEF TypeOK
<1>4. /\ \A i \in DOMAIN queue : i \in DOMAIN queue' /\ queue'[i] = queue[i]
      /\ Len(queue) + 1 \in DOMAIN queue' /\ queue'[Len(queue) + 1] = arrived + 1
      /\ \A i \in DOMAIN queue' : i \in DOMAIN queue \/ i = Len(queue) + 1
  BY <1>1, <1>2, <1>3
<1>5. \A r : Queued(r)' <=> Queued(r) \/ r = arrived + 1
  BY <1>4 DEF Queued
<1> QED
  BY <1>1, <1>2, <1>5 DEF Held

LEMMA ResultStep == TypeOK /\ OrderInv /\ ResultInv /\ Next => ResultInv'
<1> SUFFICES ASSUME TypeOK, OrderInv, ResultInv, Next,
                    NEW r \in Requests, (r > arrived \/ Queued(r) \/ Held(r))'
             PROVE  results'[r] = 0
  BY DEF ResultInv
<1> USE DEF ResultInv
<1>1. r \in Nat /\ arrived \in Nat
  BY PoolAssumption DEF TypeOK, Requests
<1>2. CASE OnRequest
  <2>1. r > arrived \/ Queued(r) \/ Held(r)
    BY <1>1, <1>2, ArrivedRequest
  <2> QED
    BY <1>2, <2>1, ArrivedRequest
<1>3. CASE /\ UNCHANGED <<arrived, queue, request, results>>
           /\ \A t \in Threads : thread'[t] \in Busy <=> thread[t] \in Busy
  BY <1>3 DEF Queued, Held
<1>4. ASSUME NEW t \in Threads, Take(t) PROVE results'[r] = 0
  <2>1. arrived' = arrived /\ results' = results
    BY <1>4 DEF Take
  <2> PICK q : q = queue[1]
    OBVIOUS
  <2>2. r > arrived \/ Queued(r) \/ Held(r)
    BY <1>4, <2>1, TakenRequest
  <2> QED
    BY <2>1, <2>2
<1>5. ASSUME NEW t \in Threads,
             thread[t] = "putting",
             request' = [request EXCEPT ![t] = None],
             UNCHANGED <<arrived, queue>>,
             UNCHANGED results \/ PutResult(t)
      PROVE  results'[r] = 0
  <2> PICK q : q = request[t]
    OBVIOUS
  <2>1. r > arrived \/ Queued(r) \/ Held(r)
    BY <1>5, FinishedRequest
  <2>2. r # q
    <3>1. q <= arrived /\ ~Held(q)' /\ ~Queued(q)'
      BY <1>5, FinishedRequest
    <3>2. arrived' = arrived
      BY <1>5
    <3>3. CASE r > arrived'
      BY <1>1, <3>1, <3>2, <3>3
    <3>4. CASE Queued(r)'
      BY <3>1, <3>4 DEF Queued
    <3>5. CASE Held(r)'
      BY <3>1, <3>5 DEF Held
    <3> QED
      BY <3>3, <3>4, <3>5
  <2> QED
    BY <1>5, <2>1, <2>2 DEF PutResult, TypeOK
<1> QED
  BY <1>2, <1>3, <1>4, <1>5, RequestSteps

\* The number of waiting threads after one thread has moved on.
LEMMA WaitingCount ==
  ASSUME TypeOK, NEW t \in Threads, NEW s \in ThreadState \ {"new"},
         thread' = [thread EXCEPT ![t] = s]
  PROVE  /\ NewThreads' \subseteq NewThreads
         /\ Cardinality(Waiting) \in Nat
         /\ thread[t] = "waiting" /\ s # "waiting" =>
              Cardinality(Waiting') = Cardinality(Waiting) - 1
         /\ thread[t] # "waiting" /\ s = "waiting" =>
              Cardinality(Waiting') = Cardinality(Waiting) + 1
         /\ thread[t] # "waiting" /\ s # "waiting" => Waiting' = Waiting
<1>1. \A u \in Threads : thread'[u] = IF u = t THEN s ELSE thread[u]
  BY DEF TypeOK
<1>2. NewThreads' \subseteq NewThreads
  BY <1>1 DEF NewThreads
<1>3. IsFiniteSet(Waiting)
  <2>1. Waiting \subseteq Threads
    BY DEF Waiting
  <2> QED
    BY <2>1, PoolAssumption, FS_Subset
<1>4. Cardinality(Waiting) \in Nat
  BY <1>3, FS_CardinalityType
<1>5. ASSUME thread[t] = "waiting", s # "waiting"
      PROVE  Cardinality(Waiting') = Cardinality(Waiting) - 1
  <2>1. Waiting' = Waiting \ {t} /\ t \in Waiting
    BY <1>1, <1>5 DEF Waiting
  <2> QED
    BY <1>3, <2>1, FS_RemoveElement
<1>6. ASSUME thread[t] # "waiting", s = "waiting"
      PROVE  Cardinality(Waiting') = Cardinality(Waiting) + 1
  <2>1. Waiting' = Waiting \cup {t} /\ t \notin Waiting
    BY <1>1, <1>6 DEF Waiting
  <2> QED
    BY <1>3, <2>1, FS_AddElement
<1>7. ASSUME thread[t] # "waiting", s # "waiting" PROVE Waiting' = Waiting
  BY <1>1, <1>7 DEF Waiting
<1> QED
  BY <1>2, <1>4, <1>5, <1>6, <1>7

LEMMA TokenStep == TypeOK /\ TokenInv /\ Next => TokenInv'
<1> SUFFICES ASSUME TypeOK, TokenInv, Next, (NewThreads # {})'
             PROVE  (Balance \/ Drained)'
  BY DEF TokenInv
<1>1. /\ queue \in Seq(Requests) /\ Len(queue) \in Nat
      /\ idle \in Nat /\ failures \in Nat
      /\ process \in {"running", "closing", "exited", "killed"}
  BY DEF TypeOK
<1>2. Cardinality(Waiting) \in Nat
  <2>1. Waiting \subseteq Threads
    BY DEF Waiting
  <2> QED
    BY <2>1, PoolAssumption, FS_Subset, FS_CardinalityType
<1>3. ASSUME NewThreads' \subseteq NewThreads PROVE Balance \/ Drained
  BY <1>3 DEF TokenInv
<1>4. ASSUME UNCHANGED thread
      PROVE  /\ NewThreads' = NewThreads /\ Waiting' = Waiting
             /\ Balance \/ Drained
  BY <1>3, <1>4 DEF NewThreads, Waiting
<1>5. ASSUME UNCHANGED <<queue, idle, submitting, failures>>,
             NewThreads' \subseteq NewThreads, Waiting' = Waiting,
             process' = process \/ process' # "running"
      PROVE  (Balance \/ Drained)'
  BY <1>3, <1>5 DEF Balance, Drained, Half
<1>6. CASE OnRequest
  <2>1. /\ process = "running" /\ ~submitting /\ submitting' = TRUE
        /\ UNCHANGED <<idle, thread, failures>>
        /\ Len(queue') = Len(queue) + 1
    BY <1>1, <1>6 DEF OnRequest
  <2>2. Half = 0 /\ Half' = 1
    BY <2>1 DEF Half
  <2>3. Balance /\ Waiting' = Waiting
    BY <1>4, <2>1 DEF Drained
  <2> QED
    BY <1>1, <1>2, <2>1, <2>2, <2>3 DEF Balance
<1>7. ASSUME submitting, ~submitting'
      PROVE  /\ Half = 1 /\ Half' = 0
             /\ NewThreads' \subseteq NewThreads => Balance
  BY <1>3, <1>7 DEF Half, Drained
<1>8. CASE ReuseThread
  <2>1. /\ submitting /\ ~submitting'
        /\ idle > 0 /\ idle' = idle - 1
        /\ UNCHANGED <<queue, thread, failures>>
    BY <1>8 DEF ReuseThread
  <2>2. Balance /\ Waiting' = Waiting
    BY <1>4, <1>7, <2>1
  <2> QED
    BY <1>1, <1>2, <1>7, <2>1, <2>2 DEF Balance
<1>9. CASE StartThread
  <2>1. /\ submitting /\ ~submitting'
        /\ UNCHANGED <<queue, idle, failures>>
    BY <1>9 DEF StartThread
  <2>2. CASE NewThreads = {}
    <3>1. UNCHANGED thread
      BY <1>9, <2>2 DEF StartThread
    <3> QED
      BY <1>4, <2>2, <3>1
  <2>3. ASSUME NEW t \in NewThreads, thread' = [thread EXCEPT ![t] = "waiting"]
        PROVE  Balance'
    <3>1. t \in Threads /\ thread[t] = "new"
      BY DEF NewThreads
    <3>2. /\ NewThreads' \subseteq NewThreads
          /\ Cardinality(Waiting') = Cardinality(Waiting) + 1
      BY <2>3, <3>1, WaitingCount DEF ThreadState
    <3> QED
      BY <1>1, <1>2, <1>7, <2>1, <3>2 DEF Balance
  <2> QED
    BY <1>9, <2>2, <2>3 DEF StartThread
<1>10. CASE StartThreadFails
  <2>1. /\ submitting /\ ~submitting'
        /\ failures' = failures + 1
        /\ UNCHANGED <<queue, thread, idle>>
    BY <1>10 DEF StartThreadFails
  <2>2. Balance /\ Waiting' = Waiting
    BY <1>4, <1>7, <2>1
  <2> QED
    BY <1>1, <1>2, <1>7, <2>1, <2>2 DEF Balance
<1>11. ASSUME NEW t \in Threads, Take(t) PROVE (Balance \/ Drained)'
  <2>1. /\ queue # <<>> /\ queue' = Tail(queue)
        /\ thread[t] = "waiting"
        /\ thread' = [thread EXCEPT ![t] = "filtering"]
        /\ UNCHANGED <<submitting, idle, failures>>
    BY <1>11 DEF Take
  <2>2. /\ NewThreads' \subseteq NewThreads
        /\ Cardinality(Waiting') = Cardinality(Waiting) - 1
    <3>1. "filtering" \in ThreadState \ {"new"} /\ "filtering" # "waiting"
      BY DEF ThreadState
    <3>2. \A s \in ThreadState \ {"new"} :
            s = "filtering" =>
              /\ NewThreads' \subseteq NewThreads
              /\ Cardinality(Waiting') = Cardinality(Waiting) - 1
      BY <2>1, <3>1, WaitingCount
    <3> QED
      BY <3>1, <3>2
  <2>3. Len(queue') = Len(queue) - 1
    BY <1>1, <2>1
  <2>4. Balance
    BY <1>3, <2>1, <2>2 DEF Drained
  <2>5. Half' = Half /\ Half \in {0, 1}
    BY <2>1 DEF Half
  <2> QED
    BY <1>1, <1>2, <2>1, <2>2, <2>3, <2>4, <2>5 DEF Balance
<1>12. ASSUME NEW t \in Threads, Filter(t) \/ PutResult(t) \/ PutFails(t)
       PROVE  (Balance \/ Drained)'
  <2>1. PICK s \in {"putting", "done"} :
          /\ thread[t] # "waiting"
          /\ thread' = [thread EXCEPT ![t] = s]
    BY <1>12 DEF Filter, PutResult, PutFails, Done
  <2>2. NewThreads' \subseteq NewThreads /\ Waiting' = Waiting
    BY <2>1, WaitingCount DEF ThreadState
  <2> QED
    BY <1>5, <1>12, <2>2 DEF Filter, PutResult, PutFails, Done
<1>13. ASSUME NEW t \in Threads, GiveToken(t) PROVE (Balance \/ Drained)'
  <2>1. /\ thread[t] = "done"
        /\ thread' = [thread EXCEPT ![t] = "waiting"]
        /\ idle' = idle + 1
        /\ UNCHANGED <<process, submitting, queue, failures>>
    BY <1>13 DEF GiveToken
  <2>2. /\ NewThreads' \subseteq NewThreads
        /\ Cardinality(Waiting') = Cardinality(Waiting) + 1
    BY <2>1, WaitingCount DEF ThreadState
  <2>3. CASE Balance
    BY <1>1, <1>2, <2>1, <2>2, <2>3 DEF Balance, Half
  <2>4. CASE Drained
    BY <2>1, <2>4 DEF Drained
  <2> QED
    BY <1>3, <2>2, <2>3, <2>4
<1>14. ASSUME NEW t \in Threads, EndThread(t) PROVE Drained'
  BY <1>14 DEF EndThread, Drained
<1>15. CASE Interrupt \/ Exit \/ Kill
  BY <1>4, <1>5, <1>15 DEF Interrupt, Exit, Kill
<1> QED
  BY <1>6, <1>8, <1>9, <1>10, <1>11, <1>12, <1>13, <1>14, <1>15 DEF Next

LEMMA NextInv == IInv /\ [Next]_vars => IInv'
<1>1. ASSUME IInv, Next PROVE IInv'
  BY <1>1, TypeStep, OrderStep, ResultStep, TokenStep DEF IInv
<1>2. ASSUME IInv, UNCHANGED vars PROVE IInv'
  BY <1>2 DEF vars, IInv, TypeOK, OrderInv, ResultInv, Queued, Held, TokenInv,
              Balance, Drained, Half, Waiting, NewThreads
<1> QED
  BY <1>1, <1>2

\* The strengthened invariant holds in every reachable state.
THEOREM Invariance == Spec => []IInv
BY InitInv, NextInv, PTL DEF Spec

\* Every variable of the worker keeps its type.
THEOREM TypeCorrect == Spec => []TypeOK
BY Invariance, PTL DEF IInv

\* Requests wait only for busy threads or for places that failed starts cost,
\* for every number of threads and every interleaving of the pool with the two
\* halves of submit().
THEOREM QueueWaitsForBusyThreads == Spec => []QueueNeedsBusyThreads
<1>1. IInv => QueueNeedsBusyThreads
  <2> SUFFICES ASSUME IInv, ~submitting, NewThreads # {}
               PROVE  Len(queue) <= Cardinality(Waiting) + failures
    BY DEF QueueNeedsBusyThreads
  <2>1. Waiting \subseteq Threads
    BY DEF Waiting
  <2>2. Cardinality(Waiting) \in Nat
    BY <2>1, PoolAssumption, FS_Subset, FS_CardinalityType
  <2>3. Len(queue) \in Nat /\ idle \in Nat /\ failures \in Nat
    BY DEF IInv, TypeOK
  <2>4. Balance \/ Drained
    BY DEF IInv, TokenInv
  <2> QED
    BY <2>2, <2>3, <2>4 DEF Balance, Drained, Half
<1> QED
  BY <1>1, Invariance, PTL

\* A thread ends only once the whole queue is worked through.
EndInv == (\E t \in Threads : thread[t] = "ended") => Drained

\* The process does not exit over a request: nothing is queued, unless no thread
\* was ever started for it, and nothing is being worked on.
ExitLeavesNothing ==
  process = "exited" =>
    /\ queue = <<>> \/ NewThreads = Threads
    /\ \A t \in Threads : request[t] = None

LEMMA EndStep == IInv /\ EndInv /\ ExitLeavesNothing /\ [Next]_vars
                   => EndInv' /\ ExitLeavesNothing'
<1> SUFFICES ASSUME IInv, EndInv, ExitLeavesNothing, [Next]_vars
             PROVE  EndInv' /\ ExitLeavesNothing'
  OBVIOUS
<1> USE DEF EndInv, Drained
<1>1. thread \in [Threads -> ThreadState] /\ request \in [Threads -> Requests \cup {None}]
  BY DEF IInv, TypeOK
<1>2. ASSUME NEW t \in Threads, NEW s \in ThreadState \ {"ended"}, Alive,
             thread' = [thread EXCEPT ![t] = s], UNCHANGED <<process, submitting>>,
             queue' = queue \/ queue # <<>>
      PROVE  EndInv' /\ ExitLeavesNothing'
  BY <1>1, <1>2 DEF Alive, ExitLeavesNothing
<1>3. ASSUME NEW t \in Threads,
             Take(t) \/ Filter(t) \/ PutResult(t) \/ PutFails(t) \/ GiveToken(t)
      PROVE  EndInv' /\ ExitLeavesNothing'
  <2>1. PICK s \in ThreadState \ {"ended"} :
          /\ Alive /\ thread' = [thread EXCEPT ![t] = s]
          /\ UNCHANGED <<process, submitting>>
          /\ queue' = queue \/ queue # <<>>
    BY <1>3 DEF Take, Filter, PutResult, PutFails, Done, GiveToken, ThreadState
  <2> QED
    BY <1>2, <2>1
<1>4. ASSUME NEW t \in Threads, EndThread(t)
      PROVE  EndInv' /\ ExitLeavesNothing'
  BY <1>4 DEF EndThread, ExitLeavesNothing
<1>5. ASSUME OnRequest \/ ReuseThread \/ StartThread \/ StartThreadFails
      PROVE  EndInv' /\ ExitLeavesNothing'
  <2>1. Alive /\ process' = process
    BY <1>5 DEF OnRequest, ReuseThread, StartThread, StartThreadFails, Alive
  <2>2. ExitLeavesNothing'
    BY <2>1 DEF Alive, ExitLeavesNothing
  <2>3. \A t \in Threads : thread[t] # "ended"
    BY <1>5 DEF OnRequest, ReuseThread, StartThread, StartThreadFails
  <2>4. \A t \in Threads : thread'[t] # "ended"
    BY <1>1, <1>5, <2>3 DEF OnRequest, ReuseThread, StartThread, StartThreadFails
  <2> QED
    BY <2>2, <2>4
<1>6. CASE Exit
  <2>1. \A t \in Threads : thread[t] \in {"new", "ended"} /\ request[t] = None
    BY <1>6 DEF Exit, IInv, OrderInv, Busy
  <2>2. queue = <<>> \/ NewThreads = Threads
    BY <2>1 DEF NewThreads
  <2>3. EndInv'
    BY <1>6 DEF Exit
  <2> QED
    BY <1>6, <2>1, <2>2, <2>3 DEF Exit, ExitLeavesNothing, NewThreads
<1>7. CASE Interrupt \/ Kill
  BY <1>7 DEF Interrupt, Kill, ExitLeavesNothing
<1>8. CASE UNCHANGED vars
  BY <1>8 DEF vars, ExitLeavesNothing, NewThreads
<1> QED
  BY <1>3, <1>4, <1>5, <1>6, <1>7, <1>8 DEF Next

\* The interpreter waits for the pool, and the pool for its queue: when the
\* process exits every accepted request was worked through, whatever raised
\* before, but for those of a pool that could start no thread at all.
THEOREM ExitAfterTheQueue == Spec => []ExitLeavesNothing
<1>1. Init => EndInv /\ ExitLeavesNothing
  BY DEF Init, EndInv, ExitLeavesNothing
<1> QED
  BY <1>1, EndStep, Invariance, PTL DEF Spec

-----------------------------------------------------------------------------
(* At most one result                                                      *)

LEMMA OpenIs ==
  /\ Alive => \A r \in Requests : r \in Open <=> Queued(r) \/ Held(r)
  /\ ~Alive => Open = {}
  /\ Open \subseteq Requests
BY DEF Open, Queued, Held

LEMMA OpenIsNext ==
  /\ Alive' => \A r \in Requests : r \in Open' <=> Queued(r)' \/ Held(r)'
  /\ ~Alive' => Open' = {}
  /\ Open' \subseteq Requests
BY DEF Open, Queued, Held

LEMMA WorkInit == Init => M!WorkInit
<1> SUFFICES ASSUME Init PROVE M!WorkInit
  OBVIOUS
<1>1. (arrived + 1)..NumRequests = Requests
  BY DEF Init, Requests
<1>2. Open = {}
  BY PoolAssumption DEF Init, Open
<1> QED
  BY <1>1, <1>2 DEF Init, M!WorkInit

LEMMA WorkStep == IInv /\ [Next]_vars => [M!WorkNext]_M!workVars
<1> SUFFICES ASSUME IInv, [Next]_vars PROVE [M!WorkNext]_M!workVars
  OBVIOUS
<1> USE DEF IInv
<1>1. ASSUME UNCHANGED <<arrived, results>>, Open' = Open
      PROVE  UNCHANGED M!workVars
  BY <1>1 DEF M!workVars
<1>2. ASSUME UNCHANGED <<arrived, queue, request, results>>, Alive, Alive'
      PROVE  UNCHANGED M!workVars
  <2>1. Open' = Open
    BY <1>2 DEF Open
  <2> QED
    BY <1>1, <1>2, <2>1
<1>3. CASE OnRequest
  <2> PICK r \in Requests : r = arrived + 1
    BY <1>3, ArrivedRequest
  <2>1. /\ arrived' = arrived + 1 /\ arrived \in Nat
        /\ UNCHANGED <<process, results>>
        /\ \A q : Queued(q)' \/ Held(q)' <=> Queued(q) \/ Held(q) \/ q = r
    BY <1>3, ArrivedRequest
  <2>2. Alive /\ Alive'
    BY <1>3, <2>1 DEF OnRequest, Alive
  <2>3. Open' = Open \cup {r}
    BY <2>1, <2>2, OpenIs, OpenIsNext
  <2>4. /\ r \in (arrived + 1)..NumRequests
        /\ (arrived' + 1)..NumRequests = ((arrived + 1)..NumRequests) \ {r}
    BY <2>1, PoolAssumption DEF Requests
  <2>5. M!Accept(r)
    BY <2>1, <2>3, <2>4 DEF M!Accept
  <2> QED
    BY <2>5 DEF M!WorkNext
<1>4. CASE ReuseThread \/ StartThread \/ StartThreadFails \/ Interrupt
  BY <1>2, <1>4 DEF ReuseThread, StartThread, StartThreadFails, Interrupt, Alive
<1>5. ASSUME NEW t \in Threads, Filter(t) \/ GiveToken(t) \/ EndThread(t)
      PROVE  UNCHANGED M!workVars
  BY <1>2, <1>5 DEF Filter, GiveToken, EndThread, Alive
<1>6. ASSUME NEW t \in Threads, Take(t)
      PROVE  UNCHANGED M!workVars
  <2> PICK q : q = queue[1]
    OBVIOUS
  <2>1. Alive /\ Alive' /\ UNCHANGED <<arrived, results>>
    BY <1>6 DEF Take, Alive
  <2>2. \A r \in Requests : Queued(r)' \/ Held(r)' <=> Queued(r) \/ Held(r)
    <3> TAKE r \in Requests
    <3>1. CASE r = q
      BY <1>6, <3>1, TakenRequest
    <3>2. CASE r # q
      BY <1>6, <3>2, TakenRequest
    <3> QED
      BY <3>1, <3>2
  <2>3. Open' = Open
    BY <2>1, <2>2, OpenIs, OpenIsNext
  <2> QED
    BY <1>1, <2>1, <2>3
<1>7. ASSUME NEW t \in Threads, PutResult(t) \/ PutFails(t)
      PROVE  M!WorkNext
  <2> PICK r : r = request[t]
    OBVIOUS
  <2>1. /\ thread[t] = "putting" /\ Alive /\ Alive'
        /\ request' = [request EXCEPT ![t] = None]
        /\ UNCHANGED <<arrived, queue>>
        /\ UNCHANGED results \/ results' = [results EXCEPT ![r] = @ + 1]
    BY <1>7 DEF PutResult, PutFails, Done, Alive
  <2>2. /\ r \in Requests /\ Held(r) /\ ~Held(r)' /\ ~Queued(r)'
        /\ \A q \in Requests : q # r => (Queued(q)' \/ Held(q)' <=> Queued(q) \/ Held(q))
    BY <2>1, FinishedRequest
  <2>3. r \in Open /\ Open' = Open \ {r}
    BY <2>1, <2>2, OpenIs, OpenIsNext
  <2>4. CASE UNCHANGED results
    <3> PICK S \in SUBSET Open : S = {r}
      BY <2>3
    <3>1. M!Lose(S)
      BY <2>1, <2>3, <2>4 DEF M!Lose
    <3> QED
      BY <3>1 DEF M!WorkNext
  <2>5. CASE results' = [results EXCEPT ![r] = @ + 1]
    <3>1. results[r] = 0
      BY <2>2 DEF ResultInv
    <3>2. results' = [results EXCEPT ![r] = 1]
      BY <2>5, <3>1
    <3>3. M!Answer(r)
      BY <2>1, <2>3, <3>2 DEF M!Answer
    <3> QED
      BY <2>2, <3>3 DEF M!WorkNext
  <2> QED
    BY <2>1, <2>4, <2>5
<1>8. CASE Exit \/ Kill
  <2>1. ~Alive' /\ UNCHANGED <<arrived, results>>
    BY <1>8 DEF Exit, Kill, Alive
  <2> PICK S \in SUBSET Open : S = Open
    OBVIOUS
  <2>2. Open' = {}
    BY <2>1, OpenIsNext
  <2>3. M!Lose(S)
    BY <2>1, <2>2 DEF M!Lose
  <2> QED
    BY <2>3 DEF M!WorkNext
<1>9. CASE UNCHANGED vars
  <2>1. Open' = Open /\ UNCHANGED <<arrived, results>>
    BY <1>9 DEF vars, Open, Alive
  <2> QED
    BY <1>1, <2>1
<1> QED
  BY <1>3, <1>4, <1>2, <1>5, <1>6, <1>7, <1>8, <1>9 DEF Next

\* A request gets one result or none, for any number of requests: also one whose
\* thread could not be started, one whose put() raised, and one that is worked
\* off while the process shuts down.
THEOREM Refinement == Spec => ImplementsAtMostOnce
<1>1. Init => M!WorkInit
  BY WorkInit
<1>2. IInv /\ [Next]_vars => [M!WorkNext]_M!workVars
  BY WorkStep
<1> QED
  BY <1>1, <1>2, Invariance, PTL DEF Spec, ImplementsAtMostOnce, M!WorkSpec
=============================================================================
