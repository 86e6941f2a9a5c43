----------------------------- MODULE RabbitWorker -----------------------------
(***************************************************************************)
(* The Rust worker on RabbitMQ.  A worker takes one delivery at a time     *)
(* (basic_qos 1), publishes its result and acknowledges it on the same     *)
(* channel; a delivery it cannot decode is put back.  A worker may stop    *)
(* anywhere.                                                               *)
(*                                                                         *)
(* The broker is external: queues are durable, a channel hands over its    *)
(* frames in the order they were sent, and what a closed channel had not   *)
(* acknowledged is delivered again at its old place in the queue.          *)
(***************************************************************************)
EXTENDS Naturals, FiniteSets, Sequences

CONSTANTS
  Workers,   \* worker processes
  NumJobs,   \* jobs in the queue, by their place in it
  BadJobs,   \* payloads that Job::decode rejects
  None,      \* no delivery
  MaxStops   \* bound: times a worker stops

Jobs == 1..NumJobs

ASSUME WorkerAssumption ==
  /\ NumJobs \in Nat
  /\ BadJobs \subseteq Jobs
  /\ None \notin Jobs
  /\ MaxStops \in Nat

VARIABLES
  ready,    \* queue "jobs": what is not delivered
  unacked,  \* the delivery on a worker's channel that is not acknowledged
  frames,   \* what a worker sent and the broker has not handled
  worker,   \* where main() of a worker is
  results,  \* queue "results": results per job
  stops     \* history: times a worker stopped

vars == <<ready, unacked, frames, worker, results, stops>>

\* "connecting": connect_with_retry; "waiting": consumer.next(); "processing":
\* process_delivery; "published": before the ack; "stopped": main has returned.
WorkerState == {"connecting", "waiting", "processing", "published", "stopped"}

Frame == [kind : {"result", "ack", "nack"}, job : Jobs]

TypeOK ==
  /\ ready \in SUBSET Jobs
  /\ unacked \in [Workers -> Jobs \cup {None}]
  /\ frames \in [Workers -> Seq(Frame)]
  /\ worker \in [Workers -> WorkerState]
  /\ results \in [Jobs -> Nat]
  /\ stops \in Nat

Init ==
  /\ ready = Jobs
  /\ unacked = [w \in Workers |-> None]
  /\ frames = [w \in Workers |-> <<>>]
  /\ worker = [w \in Workers |-> "connecting"]
  /\ results = [j \in Jobs |-> 0]
  /\ stops = 0

-----------------------------------------------------------------------------
(* The worker                                                              *)

Connect(w) ==
  /\ worker[w] = "connecting"
  /\ worker' = [worker EXCEPT ![w] = "waiting"]
  /\ UNCHANGED <<ready, unacked, frames, results, stops>>

\* A worker that goes on to its next state and sends a frame about the job.
Send(w, kind, next) ==
  /\ frames' = [frames EXCEPT ![w] = Append(@, [kind |-> kind, job |-> unacked[w]])]
  /\ worker' = [worker EXCEPT ![w] = next]
  /\ UNCHANGED <<ready, unacked, results, stops>>

\* Mutant: acknowledged first, published afterwards.
PublishLate(w) ==
  /\ worker[w] = "processing"
  /\ unacked[w] \notin BadJobs
  /\ Send(w, "ack", "published")

Publish(w) ==
  /\ worker[w] = "processing"
  /\ unacked[w] \notin BadJobs
  /\ Send(w, "result", "published")

\* Mutant: a published result is followed by a nack.
AckRequeues(w) ==
  /\ worker[w] = "published"
  /\ Send(w, "nack", "waiting")

\* Mutant: nothing is acknowledged.
AckForgotten(w) ==
  /\ worker[w] = "published"
  /\ worker' = [worker EXCEPT ![w] = "waiting"]
  /\ UNCHANGED <<ready, unacked, frames, results, stops>>

Ack(w) ==
  /\ worker[w] = "published"
  /\ Send(w, "ack", "waiting")

\* Mutant: the delivery is gone before it is put back.
NackNothing(w) ==
  /\ worker[w] = "processing"
  /\ unacked[w] \in BadJobs
  /\ frames' = [frames EXCEPT ![w] = Append(@, [kind |-> "nack", job |-> None])]
  /\ worker' = [worker EXCEPT ![w] = "waiting"]
  /\ UNCHANGED <<ready, unacked, results, stops>>

\* requeue: true.  When publish_bytes fails, the channel is not open and the nack
\* fails as well: that is Stop.
Nack(w) ==
  /\ worker[w] = "processing"
  /\ unacked[w] \in BadJobs
  /\ Send(w, "nack", "waiting")

\* The process dies, a publication or an acknowledgement returns an error that
\* leaves main, the consumer stream ends, or no connection comes about.
Stop(w) ==
  /\ stops < MaxStops
  /\ worker[w] # "stopped"
  /\ stops' = stops + 1
  /\ worker' = [worker EXCEPT ![w] = "stopped"]
  /\ UNCHANGED <<ready, unacked, frames, results>>

\* A new process, after the broker has noticed the end of the old one.
Restart(w) ==
  /\ worker[w] = "stopped"
  /\ frames[w] = <<>>
  /\ unacked[w] = None
  /\ worker' = [worker EXCEPT ![w] = "connecting"]
  /\ UNCHANGED <<ready, unacked, frames, results, stops>>

-----------------------------------------------------------------------------
(* The broker                                                              *)

\* The first job of the queue goes to a worker without a delivery.  Deliveries to
\* a worker whose end the broker has not noticed only come back to their place.
Deliver(w) ==
  /\ worker[w] = "waiting"
  /\ unacked[w] = None
  /\ \E j \in ready :
       /\ \A k \in ready : j <= k
       /\ ready' = ready \ {j}
       /\ unacked' = [unacked EXCEPT ![w] = j]
  /\ worker' = [worker EXCEPT ![w] = "processing"]
  /\ UNCHANGED <<frames, results, stops>>

\* Also the frames of a worker that has stopped.
Handle(w) ==
  /\ frames[w] # <<>>
  /\ frames' = [frames EXCEPT ![w] = Tail(@)]
  /\ LET frame == Head(frames[w])
     IN  CASE frame.kind = "result" ->
                /\ results' = [results EXCEPT ![frame.job] = @ + 1]
                /\ UNCHANGED <<ready, unacked>>
           [] frame.kind = "ack" ->
                /\ unacked' = [unacked EXCEPT ![w] = None]
                /\ UNCHANGED <<ready, results>>
           [] frame.kind = "nack" ->
                /\ unacked' = [unacked EXCEPT ![w] = None]
                /\ ready' = ready \cup {frame.job}
                /\ UNCHANGED results
  /\ UNCHANGED <<worker, stops>>

CloseChannel(w) ==
  /\ worker[w] = "stopped"
  /\ frames[w] # <<>> \/ unacked[w] # None
  /\ frames' = [frames EXCEPT ![w] = <<>>]
  /\ unacked' = [unacked EXCEPT ![w] = None]
  /\ ready' = ready \cup ({unacked[w]} \ {None})
  /\ UNCHANGED <<worker, results, stops>>

Next ==
  \E w \in Workers :
    \/ Connect(w)
    \/ Publish(w)
    \/ Ack(w)
    \/ Nack(w)
    \/ Stop(w)
    \/ Restart(w)
    \/ Deliver(w)
    \/ Handle(w)
    \/ CloseChannel(w)

Spec == Init /\ [][Next]_vars

\* A worker that runs goes on, and the broker serves its channels.  Nothing
\* starts a stopped worker again.
Fairness ==
  \A w \in Workers :
    /\ WF_vars(Connect(w))
    /\ WF_vars(Publish(w) \/ Ack(w) \/ Nack(w))
    /\ WF_vars(Deliver(w))
    /\ WF_vars(Handle(w))
    /\ WF_vars(CloseChannel(w))

FairSpec == Spec /\ Fairness

-----------------------------------------------------------------------------
(* Properties                                                              *)

\* No job is lost, wherever workers stop: it is in the queue, on a channel, or
\* its result is in the result queue.  The result and the acknowledgement of a
\* delivery travel on one channel in this order.
NothingLost ==
  \A j \in Jobs :
    \/ j \in ready
    \/ \E w \in Workers : unacked[w] = j
    \/ results[j] > 0

\* The results, numbered per job, that are followed by another one of their job.
Superfluous == UNION {{j} \X (1..(results[j] - 1)) : j \in Jobs}

\* There are no more superfluous results than workers have stopped: a second
\* result is published only for a delivery whose worker stopped before its
\* acknowledgement arrived, and one worker holds one delivery.
DuplicatesNeedStop == Cardinality(Superfluous) <= stops

\* The queue and its workers implement AtLeastOnce: a job leaves the broker only
\* with its result in the result queue, and no frame that is still under way
\* then adds a second one, whoever stopped and whatever was delivered again.
Owed == ready \cup ({unacked[w] : w \in Workers} \ {None})

A == INSTANCE AtLeastOnce WITH owed <- Owed, outcomes <- results

ImplementsAtLeastOnce == A!JobsSpec

\* A job gets its result, under FairSpec and while a worker is left, if it and
\* the jobs before it in the queue can be decoded: a job that is put back comes
\* again before those behind it, and takes their turn for ever.
EveryJobHasResult ==
  \A j \in Jobs : (1..j) \cap BadJobs = {} => <>(results[j] > 0)
=============================================================================
