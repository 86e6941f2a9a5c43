----------------------------- MODULE AssignmentRpc -----------------------------
(***************************************************************************)
(* Publishers that ask the assignment service over Zenoh and wait for the  *)
(* result with a timeout, and the replicas of the Rust service.            *)
(*                                                                         *)
(* Every publisher subscribes to the one result key: it gets the results   *)
(* of all requests, those of others and those that come too late for its   *)
(* own.  They wait in its result_queue, also while it sleeps.  Beside the  *)
(* publishers that are followed here there are others, which never stop    *)
(* asking: of them only the results are seen, without an end.              *)
(*                                                                         *)
(* Zenoh is external: a message reaches any part of the subscribers there  *)
(* are at that moment.  A payload that cannot be decoded, or a request the *)
(* handler rejects, changes nothing and is left out.  A timer counts clock *)
(* ticks down to zero.                                                     *)
(***************************************************************************)
EXTENDS Naturals, Sequences, FiniteSets

CONSTANTS
  Publishers,   \* publisher processes
  Services,     \* replicas of the assignment service
  Timeout,      \* RESULT_TIMEOUT_SECONDS, in clock ticks
  Interval,     \* PUBLISH_INTERVAL_SECONDS, in clock ticks
  None,         \* no request
  Other,        \* a request of a publisher that is not in Publishers
  MaxRequests,  \* bound: requests sent by all of Publishers
  MaxBacklog,   \* bound: results a queue holds when one of Other still comes
  MaxSkips      \* bound: up to so many skipped results the histories count

ASSUME RpcAssumption ==
  /\ IsFiniteSet(Publishers)
  /\ Timeout \in Nat \ {0}
  /\ Interval \in Nat
  /\ MaxRequests \in Nat
  /\ MaxBacklog \in Nat
  /\ MaxSkips \in Nat

\* assignment_id: a fresh uuid, here the publisher and the number of its request.
Requests == Publishers \X (1..MaxRequests)

ASSUME RequestAssumption == None \notin Requests /\ Other \notin Requests

Results == Requests \cup {Other}

VARIABLES
  phase,        \* where main() of a publisher is
  asked,        \* requests a publisher has sent
  timer,        \* ticks until its get() times out, or its sleep() ends
  resultQueue,  \* result_queue: the requests its results belong to
  service,      \* where main() of a replica is
  inbox,        \* flume channel of its subscriber
  current,      \* the request between recv_async() and put()
  waited,       \* history: ticks since a publisher sent its request
  ignored,      \* history: results of other requests it has skipped since;
                \* at MaxSkips both histories stand still
  served,       \* history: requests whose result a replica has put
  answered      \* history: requests whose result its publisher has logged

publisher == <<phase, asked, timer, waited, ignored>>

replica == <<service, inbox, current>>

vars == <<publisher, resultQueue, replica, served, answered>>

\* "asking": before put(); "waiting": in result_queue.get(); "sleeping".
Phase == {"asking", "waiting", "sleeping"}

TypeOK ==
  /\ phase \in [Publishers -> Phase]
  /\ asked \in [Publishers -> 0..MaxRequests]
  /\ timer \in [Publishers -> Nat]
  /\ resultQueue \in [Publishers -> Seq(Results)]
  /\ service \in [Services -> {"down", "running"}]
  /\ inbox \in [Services -> Seq(Requests)]
  /\ current \in [Services -> Requests \cup {None}]
  /\ waited \in [Publishers -> Nat]
  /\ ignored \in [Publishers -> Nat]
  /\ served \in SUBSET Requests
  /\ answered \in SUBSET Requests

\* The publishers have declared their subscribers; the replicas have not.
Init ==
  /\ phase = [p \in Publishers |-> "asking"]
  /\ asked = [p \in Publishers |-> 0]
  /\ timer = [p \in Publishers |-> 0]
  /\ resultQueue = [p \in Publishers |-> <<>>]
  /\ service = [s \in Services |-> "down"]
  /\ inbox = [s \in Services |-> <<>>]
  /\ current = [s \in Services |-> None]
  /\ waited = [p \in Publishers |-> 0]
  /\ ignored = [p \in Publishers |-> 0]
  /\ served = {}
  /\ answered = {}

-----------------------------------------------------------------------------
(* A publisher                                                             *)

RequestOf(p) == <<p, asked[p]>>

\* The requests that have been sent.
Asked == {r \in Requests : r[2] <= asked[r[1]]}

\* build_request, put, and the first get().
Ask(p) ==
  /\ phase[p] = "asking"
  /\ Cardinality(Asked) < MaxRequests
  /\ phase' = [phase EXCEPT ![p] = "waiting"]
  /\ asked' = [asked EXCEPT ![p] = @ + 1]
  /\ timer' = [timer EXCEPT ![p] = Timeout]
  /\ waited' = [waited EXCEPT ![p] = 0]
  /\ ignored' = [ignored EXCEPT ![p] = 0]
  /\ \E reached \in SUBSET {s \in Services : service[s] = "running"} :
       inbox' = [s \in Services |->
                   IF s \in reached THEN Append(inbox[s], <<p, asked[p] + 1>>)
                                    ELSE inbox[s]]
  /\ UNCHANGED <<resultQueue, service, current, served, answered>>

Sleep(p) ==
  /\ phase' = [phase EXCEPT ![p] = "sleeping"]
  /\ timer' = [timer EXCEPT ![p] = Interval]

\* Mutant: any result is taken for the answer.
ReportAny(p) ==
  /\ phase[p] = "waiting"
  /\ resultQueue[p] # <<>>
  /\ resultQueue' = [resultQueue EXCEPT ![p] = Tail(@)]
  /\ answered' = answered \cup {Head(resultQueue[p])}
  /\ Sleep(p)
  /\ UNCHANGED <<asked, waited, ignored, replica, served>>

Report(p) ==
  /\ phase[p] = "waiting"
  /\ resultQueue[p] # <<>>
  /\ Head(resultQueue[p]) = RequestOf(p)
  /\ resultQueue' = [resultQueue EXCEPT ![p] = Tail(@)]
  /\ answered' = answered \cup {RequestOf(p)}
  /\ Sleep(p)
  /\ UNCHANGED <<asked, waited, ignored, replica, served>>

\* The histories of p still count.
Counts(p) == ignored[p] < MaxSkips

\* Mutant: what else is on the queue is thrown away with it.
IgnoreAll(p) ==
  /\ phase[p] = "waiting"
  /\ resultQueue[p] # <<>>
  /\ Head(resultQueue[p]) # RequestOf(p)
  /\ resultQueue' = [resultQueue EXCEPT ![p] = <<>>]
  /\ timer' = [timer EXCEPT ![p] = Timeout]
  /\ ignored' = [ignored EXCEPT ![p] = IF Counts(p) THEN @ + 1 ELSE @]
  /\ UNCHANGED <<phase, asked, waited, replica, served, answered>>

\* The result of another request: get() is called again, with the whole timeout.
Ignore(p) ==
  /\ phase[p] = "waiting"
  /\ resultQueue[p] # <<>>
  /\ Head(resultQueue[p]) # RequestOf(p)
  /\ resultQueue' = [resultQueue EXCEPT ![p] = Tail(@)]
  /\ timer' = [timer EXCEPT ![p] = Timeout]
  /\ ignored' = [ignored EXCEPT ![p] = IF Counts(p) THEN @ + 1 ELSE @]
  /\ UNCHANGED <<phase, asked, waited, replica, served, answered>>

\* Mutant: get() is called again after it has timed out.
GiveUpNever(p) ==
  /\ phase[p] = "waiting"
  /\ resultQueue[p] = <<>>
  /\ timer[p] = 0
  /\ timer' = [timer EXCEPT ![p] = Timeout]
  /\ UNCHANGED <<phase, asked, waited, ignored, resultQueue, replica, served,
                 answered>>

\* Mutant: only the get() after an ignored result has a timeout.
GiveUpAfterOthers(p) ==
  /\ phase[p] = "waiting"
  /\ resultQueue[p] = <<>>
  /\ timer[p] = 0 /\ ignored[p] > 0
  /\ Sleep(p)
  /\ UNCHANGED <<asked, waited, ignored, resultQueue, replica, served, answered>>

\* queue.Empty: get() looks once more when its time is over.
GiveUp(p) ==
  /\ phase[p] = "waiting"
  /\ resultQueue[p] = <<>>
  /\ timer[p] = 0
  /\ Sleep(p)
  /\ UNCHANGED <<asked, waited, ignored, resultQueue, replica, served, answered>>

WakeUp(p) ==
  /\ phase[p] = "sleeping"
  /\ timer[p] = 0
  /\ phase' = [phase EXCEPT ![p] = "asking"]
  /\ UNCHANGED <<asked, timer, waited, ignored, resultQueue, replica, served,
                 answered>>

-----------------------------------------------------------------------------
(* A replica of the service                                                *)

\* The subscriber is declared; what was put before is not delivered.
Start(s) ==
  /\ service[s] = "down"
  /\ service' = [service EXCEPT ![s] = "running"]
  /\ UNCHANGED <<publisher, resultQueue, inbox, current, served, answered>>

Receive(s) ==
  /\ inbox[s] # <<>>
  /\ current[s] = None
  /\ inbox' = [inbox EXCEPT ![s] = Tail(@)]
  /\ current' = [current EXCEPT ![s] = Head(inbox[s])]
  /\ UNCHANGED <<publisher, resultQueue, service, served, answered>>

\* The result is put: on_result of every publisher that gets it queues it.
Reply(s) ==
  /\ current[s] # None
  /\ current' = [current EXCEPT ![s] = None]
  /\ served' = served \cup {current[s]}
  /\ \E reached \in SUBSET Publishers :
       resultQueue' = [p \in Publishers |->
                         IF p \in reached THEN Append(resultQueue[p], current[s])
                                          ELSE resultQueue[p]]
  /\ UNCHANGED <<publisher, service, inbox, answered>>

\* on_result of p queues a result that another publisher has asked for.
Foreign(p) ==
  /\ Len(resultQueue[p]) < MaxBacklog
  /\ resultQueue' = [resultQueue EXCEPT ![p] = Append(@, Other)]
  /\ UNCHANGED <<publisher, replica, served, answered>>

\* The process dies, or an error of recv_async() or put() leaves main.
Stop(s) ==
  /\ service[s] = "running"
  /\ service' = [service EXCEPT ![s] = "down"]
  /\ inbox' = [inbox EXCEPT ![s] = <<>>]
  /\ current' = [current EXCEPT ![s] = None]
  /\ UNCHANGED <<publisher, resultQueue, served, answered>>

-----------------------------------------------------------------------------

\* A publisher that may go on does so within the tick.
Tick ==
  /\ \E p \in Publishers : timer[p] > 0
  /\ \A p \in Publishers :
       phase[p] = "waiting" => timer[p] > 0 /\ resultQueue[p] = <<>>
  /\ timer' = [p \in Publishers |-> IF timer[p] > 0 THEN timer[p] - 1 ELSE 0]
  /\ waited' = [p \in Publishers |->
                   IF phase[p] = "waiting" /\ Counts(p) THEN waited[p] + 1 ELSE waited[p]]
  /\ UNCHANGED <<phase, asked, ignored, resultQueue, replica, served, answered>>

Next ==
  \/ \E p \in Publishers :
       Ask(p) \/ Report(p) \/ Ignore(p) \/ GiveUp(p) \/ WakeUp(p) \/ Foreign(p)
  \/ \E s \in Services :
       Start(s) \/ Receive(s) \/ Reply(s) \/ Stop(s)
  \/ Tick

Spec == Init /\ [][Next]_vars

\* A clock that is looked at goes on: finitely many results come in a tick.
TimePasses ==
  []<>(\E p \in Publishers : timer[p] > 0) => []<><<Tick>>_vars

\* Time passes and a publisher runs.  Nothing is assumed of the service, and
\* nothing of the others: their results may come for ever.
Fairness ==
  /\ TimePasses
  /\ \A p \in Publishers : WF_vars(Report(p) \/ Ignore(p) \/ GiveUp(p))

FairSpec == Spec /\ Fairness

-----------------------------------------------------------------------------
(* Properties                                                              *)

\* Seen as a client of a request and reply service: late results of its earlier
\* requests, results of other publishers and second results of another replica
\* are never reported as the answer to the request outstanding.
R == INSTANCE RequestReply
       WITH Clients     <- Publishers,
            outstanding <- [p \in Publishers |->
                              IF phase[p] = "waiting" THEN RequestOf(p) ELSE None],
            asked       <- Asked

ImplementsRequestReply == R!ReplySpec

\* The timeout is one of get(), not of the request: a publisher waits up to the
\* timeout once more for every result of another request, and no longer, as far
\* as MaxSkips lets the histories count.
WaitExplained ==
  \A p \in Publishers :
    phase[p] = "waiting" => waited[p] <= Timeout * (1 + ignored[p])

\* The result that a publisher waits for has reached its queue.
Delivered(r) ==
  /\ phase[r[1]] = "waiting"
  /\ RequestOf(r[1]) = r
  /\ \E i \in DOMAIN resultQueue[r[1]] : resultQueue[r[1]][i] = r

\* A result that is delivered while its publisher waits is reported, however
\* many others stand in front of it and go on to come, and although the time of
\* get() may be over before they are skipped.  Under FairSpec.
DeliveredIsReported == \A r \in Requests : Delivered(r) ~> r \in answered

\* Only results of others keep a publisher from coming back to its loop, and
\* only if they never stop: each of them starts the timeout again, so a request
\* that nobody answers may be waited for without an end.  Services that stop,
\* or never run, do not have this effect.  Under FairSpec.
SettlesUnlessDisturbed ==
  \A p \in Publishers : []<>(phase[p] # "waiting") \/ []<><<Ignore(p)>>_vars
=============================================================================
