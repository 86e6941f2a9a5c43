-------------------------------- MODULE PyWorker --------------------------------
(***************************************************************************)
(* The Python worker: a subscriber callback that submits each request to a *)
(* ThreadPoolExecutor, and the pool threads that filter, sleep and publish *)
(* one result per request.                                                 *)
(*                                                                         *)
(* The executor is external, modelled as in CPython 3.11.  submit() queues *)
(* the request and then, if it cannot take a token of the idle semaphore,  *)
(* starts another thread while there are fewer than max_workers.  A thread *)
(* gives a token for every request it has finished.  Pool threads go on    *)
(* between the two halves of submit().                                     *)
(*                                                                         *)
(* Requests are numbered as they arrive; the requester is external, too.   *)
(***************************************************************************)
EXTENDS Naturals, FiniteSets, Sequences

CONSTANTS
  Threads,        \* WORKER_MAX_CONCURRENT_REQUESTS places for a pool thread
  StartsMayFail,  \* may Thread.start() raise?
  None,           \* no request
  NumRequests     \* bound: requests that arrive

Requests == 1..NumRequests

ASSUME PoolAssumption ==
  /\ IsFiniteSet(Threads)
  /\ StartsMayFail \in BOOLEAN
  /\ NumRequests \in Nat
  /\ None \notin Requests

VARIABLES
  process,     \* "running": sleeps in main(); "closing": the session is closed,
               \* the interpreter waits for the pool; "exited"; "killed"
  arrived,     \* requests handed to on_request
  submitting,  \* is on_request between the two halves of submit()?
  queue,       \* work queue of the executor
  idle,        \* its idle semaphore
  thread,      \* where a pool thread is
  request,     \* the request it works on
  results,     \* results put per request
  failures     \* history: starts of a pool thread that raised

vars == <<process, arrived, submitting, queue, idle, thread, request, results,
          failures>>

\* "new": does not exist; "waiting": for the queue; "filtering": in
\* process_chore_filter_request; "putting": before put(); "done": before it
\* gives its token; "ended".
ThreadState == {"new", "waiting", "filtering", "putting", "done", "ended"}

TypeOK ==
  /\ process \in {"running", "closing", "exited", "killed"}
  /\ arrived \in 0..NumRequests
  /\ submitting \in BOOLEAN
  /\ queue \in Seq(Requests)
  /\ idle \in Nat
  /\ thread \in [Threads -> ThreadState]
  /\ request \in [Threads -> Requests \cup {None}]
  /\ results \in [Requests -> Nat]
  /\ failures \in Nat

Init ==
  /\ process = "running"
  /\ arrived = 0
  /\ submitting = FALSE
  /\ queue = <<>>
  /\ idle = 0
  /\ thread = [t \in Threads |-> "new"]
  /\ request = [t \in Threads |-> None]
  /\ results = [r \in Requests |-> 0]
  /\ failures = 0

Alive == process \in {"running", "closing"}

-----------------------------------------------------------------------------
(* The subscriber callback                                                 *)

\* on_request: submit() has put the request on the queue.
OnRequest ==
  /\ process = "running"
  /\ ~submitting
  /\ arrived < NumRequests
  /\ arrived' = arrived + 1
  /\ queue' = Append(queue, arrived + 1)
  /\ submitting' = TRUE
  /\ UNCHANGED <<process, idle, thread, request, results, failures>>

ReuseThread ==
  /\ submitting
  /\ Alive
  /\ idle > 0
  /\ idle' = idle - 1
  /\ submitting' = FALSE
  /\ UNCHANGED <<process, arrived, queue, thread, request, results, failures>>

NewThreads == {t \in Threads : thread[t] = "new"}

\* Mutant: one thread fewer than max_workers is started.
StartThreadExceptLast ==
  /\ submitting
  /\ Alive
  /\ idle = 0
  /\ submitting' = FALSE
  /\ IF Cardinality(NewThreads) <= 1
       THEN UNCHANGED thread
       ELSE \E t \in NewThreads : thread' = [thread EXCEPT ![t] = "waiting"]
  /\ UNCHANGED <<process, arrived, queue, idle, request, results, failures>>

StartThread ==
  /\ submitting
  /\ Alive
  /\ idle = 0
  /\ submitting' = FALSE
  /\ IF NewThreads = {}
       THEN UNCHANGED thread
       ELSE \E t \in NewThreads : thread' = [thread EXCEPT ![t] = "waiting"]
  /\ UNCHANGED <<process, arrived, queue, idle, request, results, failures>>

\* The exception leaves submit() and on_request logs that it failed to accept
\* the request, which stays on the queue.
StartThreadFails ==
  /\ StartsMayFail
  /\ submitting
  /\ Alive
  /\ idle = 0
  /\ NewThreads # {}
  /\ submitting' = FALSE
  /\ failures' = failures + 1
  /\ UNCHANGED <<process, arrived, queue, idle, thread, request, results>>

-----------------------------------------------------------------------------
(* A pool thread                                                           *)

\* Mutant: the request stays on the queue while it is worked on.
TakeLeavesRequest(t) ==
  /\ Alive
  /\ thread[t] = "waiting"
  /\ queue # <<>>
  /\ request' = [request EXCEPT ![t] = Head(queue)]
  /\ thread' = [thread EXCEPT ![t] = "filtering"]
  /\ UNCHANGED <<process, arrived, submitting, queue, idle, results, failures>>

Take(t) ==
  /\ Alive
  /\ thread[t] = "waiting"
  /\ queue # <<>>
  /\ queue' = Tail(queue)
  /\ request' = [request EXCEPT ![t] = Head(queue)]
  /\ thread' = [thread EXCEPT ![t] = "filtering"]
  /\ UNCHANGED <<process, arrived, submitting, idle, results, failures>>

\* process_chore_filter_request: the filter and the sleep.
Filter(t) ==
  /\ Alive
  /\ thread[t] = "filtering"
  /\ thread' = [thread EXCEPT ![t] = "putting"]
  /\ UNCHANGED <<process, arrived, submitting, queue, idle, request, results,
                 failures>>

Done(t) ==
  /\ Alive
  /\ thread[t] = "putting"
  /\ thread' = [thread EXCEPT ![t] = "done"]
  /\ request' = [request EXCEPT ![t] = None]
  /\ UNCHANGED <<process, arrived, submitting, queue, idle, failures>>

PutResult(t) ==
  /\ process = "running"
  /\ results' = [results EXCEPT ![request[t]] = @ + 1]
  /\ Done(t)

\* Mutant: after an error the request is worked on once more.
PutFailsStartsOver(t) ==
  /\ Alive
  /\ thread[t] = "putting"
  /\ thread' = [thread EXCEPT ![t] = "filtering"]
  /\ UNCHANGED <<process, arrived, submitting, queue, idle, request, results,
                 failures>>

\* Mutant: put() is called again until it succeeds.
PutFailsRetries(t) ==
  /\ Alive
  /\ thread[t] = "putting"
  /\ UNCHANGED vars

\* put() raises, as it always does once the session is closed; the error is
\* logged and the request forgotten.
PutFails(t) == Done(t) /\ UNCHANGED results

GiveToken(t) ==
  /\ Alive
  /\ thread[t] = "done"
  /\ thread' = [thread EXCEPT ![t] = "waiting"]
  /\ idle' = idle + 1
  /\ UNCHANGED <<process, arrived, submitting, queue, request, results, failures>>

-----------------------------------------------------------------------------
(* The end of the process                                                  *)

\* KeyboardInterrupt in main(): the with statement closes the session.
Interrupt ==
  /\ process = "running"
  /\ process' = "closing"
  /\ UNCHANGED <<arrived, submitting, queue, idle, thread, request, results,
                 failures>>

\* At its exit the interpreter wakes the threads of the pool: each of them ends
\* when it finds nothing more on the queue.
EndThread(t) ==
  /\ process = "closing"
  /\ ~submitting
  /\ thread[t] = "waiting"
  /\ queue = <<>>
  /\ thread' = [thread EXCEPT ![t] = "ended"]
  /\ UNCHANGED <<process, arrived, submitting, queue, idle, request, results,
                 failures>>

Exit ==
  /\ process = "closing"
  /\ ~submitting
  /\ \A t \in Threads : thread[t] \in {"new", "ended"}
  /\ process' = "exited"
  /\ UNCHANGED <<arrived, submitting, queue, idle, thread, request, results,
                 failures>>

Kill ==
  /\ Alive
  /\ process' = "killed"
  /\ UNCHANGED <<arrived, submitting, queue, idle, thread, request, results,
                 failures>>

-----------------------------------------------------------------------------

Next ==
  \/ OnRequest \/ ReuseThread \/ StartThread \/ StartThreadFails
  \/ \E t \in Threads :
       \/ Take(t) \/ Filter(t) \/ PutResult(t) \/ PutFails(t) \/ GiveToken(t)
       \/ EndThread(t)
  \/ Interrupt \/ Exit \/ Kill

Spec == Init /\ [][Next]_vars

\* The callback leaves submit(), pool threads run, and put() returns or raises.
Fairness ==
  /\ WF_vars(ReuseThread \/ StartThread \/ StartThreadFails)
  /\ WF_vars(Exit)
  /\ \A t \in Threads :
       WF_vars(Take(t) \/ Filter(t) \/ PutResult(t) \/ PutFails(t)
                 \/ GiveToken(t) \/ EndThread(t))

FairSpec == Spec /\ Fairness

-----------------------------------------------------------------------------
(* Properties                                                              *)

Open ==
  IF Alive THEN {r \in Requests : \/ \E i \in DOMAIN queue : queue[i] = r
                                 \/ \E t \in Threads : request[t] = r}
           ELSE {}

M == INSTANCE AtMostOnce WITH fresh <- (arrived + 1)..NumRequests,
                              open  <- Open

\* A request gets one result or none, also one that on_request says it failed to
\* accept, and none is taken up again after an error or during the shutdown.
ImplementsAtMostOnce == M!WorkSpec

Waiting == {t \in Threads : thread[t] = "waiting"}

\* Requests wait only when all max_workers threads are busy, although tokens of
\* the idle semaphore, not threads, decide whether another one is started; but
\* every start that has raised costs the pool one place for good.
QueueNeedsBusyThreads ==
  ~submitting /\ NewThreads # {} => Len(queue) <= Cardinality(Waiting) + failures

\* A request on the queue is worked off once there is a thread, whatever errors
\* the others meet.  Under FairSpec.
EveryRequestSettles ==
  \A r \in Requests :
    r \in Open /\ NewThreads # Threads ~> r \notin Open

\* After the interrupt the process comes to its end, with the whole queue worked
\* through although no result can be put any more.  Under FairSpec.
ShutdownEnds == process = "closing" ~> process \in {"exited", "killed"}
=============================================================================
