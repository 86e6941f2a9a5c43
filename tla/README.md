# Zenoh-Boss-Worker: verification project

TLA+ models of the programs under `src/`, TLC runs that check them on small
instances and TLAPS proofs that hold for every value of the constants.

## 1. The system

A *boss* (orchestrator) receives `Chores` and `PersonAvailability` messages over
Zenoh, gathers people for a short window, selects some of them, filters the
chores for each of them and publishes a `ChoreFilterSummary`. The orchestrator
exists twice, in Python (threads and a lock) and in Rust (a tokio event loop,
tasks and a rayon pool). Beside it are an assignment service (Python and Rust),
an older job worker (Python over Zenoh, Rust over RabbitMQ), and a demo producer
and consumer.

| Component | State it keeps | Operations | Talks to |
|---|---|---|---|
| Python `BatchCoordinator` (`python/src/bw/services/orchestrator/coordination`) | `latest_chores`, `current_window` with its `threading.Timer`, `active_filter_count`, `person_last_selected`, one lock | `receive_chores`, `receive_person`, `_flush_current_window`, `_on_person_complete`, `expire_stale_if_idle` | called by two Zenoh subscriber callbacks, timer threads, job threads, the main loop; calls the executor while it holds the lock |
| Python executors (`execution/executor.py`) | the running threads | a thread per person, or one per window; `on_person_complete` in a `finally` | batch runner, coordinator |
| Python batch runner and filter (`execution/batch_runner.py`, `processing/processor.py`) | the publisher and its lock | filter the chores of a person, publish a summary | consumer key |
| Rust `BatchCoordinator` (`rust/services/orchestrator/src/coordination`) | as in Python, without a timer | as in Python; the flush is polled by a 100 ms tick | owned by the `tokio::select!` loop of `main.rs` |
| Rust executors, batch runner, filter | tokio tasks, a rayon pool, an unbounded completion channel | task per person or per window | the event loop reads the completions |
| Assignment service (`assignment/`, both languages) and Python publisher | none; the publisher has a result queue | solve, publish; request, wait with timeout | Zenoh request and result keys |
| Python worker, Rust worker with `bw-core/src/rabbitmq.rs` | thread pool; AMQP channel with prefetch 1 | take a job, sleep, publish a result, ack or nack | Zenoh; RabbitMQ |
| Producer, consumer | counters | publish demo messages; log summaries | orchestrator |

What is hard here: the decision to submit a batch reads a counter that other
threads (Python) or a channel still to be read (Rust) are about to change; the
selection history is written by submissions and erased by late failures and by a
pruning that may use a clock value read before the lock; each job publishes from
its own thread; threads may fail to start after the state has been changed; the
Rust pool may be smaller than the batch; a publisher shares its result key with
all others and its timeout starts again for every result that is not its own; a
pool thread may fail to start after the request has been queued; `u32` sums wrap in the release build
(`docker/Dockerfile.rust-app:11`). The full list, each at its line, is `hazards`
in `PROJECT.json`.

What makes each component correct:

* coordinator: the counter is the number of people outstanding; they belong to
  one batch with one chores message; the limit holds; windows are flushed once,
  by their own timer; people take turns; a batch comes to an end;
* executors and runner: every person submitted is completed once; summaries
  come in the order of the batches;
* filter: chores fit into the person's time, only chores that do not fit are
  rejected, and both languages agree;
* assignment: a matching of optimal value, or an error; an answer belongs to its
  request and, once delivered while its publisher waits, is reported; nothing but
  an endless row of foreign results keeps a publisher waiting for ever;
* workers: with RabbitMQ a job leads to a result at least once, in the Python
  worker at most once; no RabbitMQ job is lost by a crash;
* the demo as a whole: cycles reach the consumer in order, an availability
  message is used at most once, and of several messages of a person in one window
  the last one counts, at its own place.

## 2. Modules

| Module | Models | Kind |
|---|---|---|
| `Selection` | sort key, cut of the sorted list, stamping, pruning and forgetting of the history, shared by both coordinators | operators |
| `SelectionTheorems` | | proofs |
| `PyCoordinator` | Python coordinator, executors and job threads | state machine |
| `PyRotation` | `PyCoordinator` with the history variable `overtook` | history variable |
| `PyCoordinatorProofs` | proofs about `PyCoordinator`, `PyDispatch`, `PyRotation` and `Pipeline` | proofs |
| `RsOrchestrator` | Rust event loop, channels, tasks and pool | state machine |
| `RsOrchestratorProofs` | proofs about `RsOrchestrator` and `RsDispatch` | proofs |
| `Dispatch` | what an orchestrator promises | abstract specification |
| `PyDispatch`, `RsDispatch` | `INSTANCE Dispatch WITH ...` | refinement mappings |
| `ChoreFilter` | both `process_chore_filter_request` loops on one request | algorithm |
| `ChoreFilterProofs` | | proofs |
| `AssignmentSolver` | `solve_assignment` of the Rust service on one request | algorithm |
| `AssignmentSolverProofs` | | proofs |
| `AssignmentRpc` | publishers, result queues, replicas of the Rust assignment service | state machine |
| `RequestReply` | what a client of a request and reply service may rely on | abstract specification of `AssignmentRpc` |
| `AssignmentRpcProofs` | | proofs |
| `RabbitWorker` | Rust workers, their AMQP channels and the broker's two queues | state machine |
| `AtLeastOnce` | what a durable job queue promises | abstract specification of `RabbitWorker` |
| `RabbitWorkerProofs` | | proofs |
| `PyWorker` | Python worker and its `ThreadPoolExecutor` | state machine |
| `AtMostOnce` | what a worker without acknowledgements promises | abstract specification of `PyWorker` |
| `PyWorkerProofs` | | proofs |
| `Pipeline` | producer, `PyCoordinator` and consumer, joined by three Zenoh keys | composition |

`Pipeline` EXTENDS `PyCoordinator` and conjoins its actions with the keys;
`AssignmentRpc`, `RabbitWorker` and `PyWorker` each hold the INSTANCE of their
abstract specification beside their properties. The constants of the instances are
in the `.cfg` files; no module is needed only for TLC.

The operators named `...` with a comment `Mutant:` are plausible bugs; `mutants`
in `PROJECT.json` says which definition each replaces and which property then
fails. They are not part of any specification.

### PyCoordinator

Everything a thread does under `BatchCoordinator.lock` is one action, because no
other thread sees the states in between; job threads take three steps, the
publication (or its failure), and the callback, which are separate because the
publisher's lock is another lock and the clock is read outside.

| Code | Action or state |
|---|---|
| `receive_chores` | `ReceiveChores(c)` |
| `receive_person`, no window / window open | `OpenWindow(p, a)` / `JoinWindow(p, a)` |
| `receive_person` when `timer.start()` raises | `OpenWindowTimerFails` |
| `_flush_current_window` with `_choose_people_to_run_locked` and `submit_window` | `TimerFires(t)`, `CanSubmit`, `Submit`, `Started` |
| `_run_person_job`, `_run_window_job`, `run_chore_filter(_window)` | `RunJobSucceeds(t)`, `RunJobFails(t)` |
| `_on_person_complete` | `PersonComplete(t, now)`, `now` read before the lock |
| main loop, `expire_stale_if_idle` | `ExpireStale(now)`, `now` read before the lock |
| `time.monotonic()` | `clock`, advanced by `Tick` |
| a person submitted whose callback has not happened | an element of `tickets` |

A ticket is named by the time `at` of its submission, its `index` in the list
submitted and its person. A window named by its opening time can be reopened in
the same tick only after a flush, which takes `GatherWindow >= 1` ticks, so
`opened` names a window and `at` a batch. A timer fires at any time from its
expiry on. `time.monotonic()` is taken to be positive: the key 0.0 for people
without a history sorts before every stamp.

Decoding errors are logged and change nothing, so there is no action for them.
The contents of a message are members of `Chores` and `Availability`; nothing in
the coordinator looks at them. Logging is left out.

### RsOrchestrator

One iteration of `tokio::select!` is one action: `ReceiveChores`,
`ReceivePerson`, `ExpireStale` (flush if expired, then prune, in this order, at
one clock value) and `PersonComplete`. The subscriptions are bounded channels
(`ChannelCapacity`, 1024 in the code), filled by `ChoresArrive` and
`PersonArrives`. A ticket moves through *queued*, *working* (at most
`NumWorkerThreads` jobs), *ready*, *published* or *failed*, and *sent*; the loop
removes it when it handles the completion, which names only the person. The
submission mode is a constant of the program (`main.rs:34`); here it is the
variable `mode`, chosen at the start and never changed, so that every run covers
both modes.

### Pipeline

| Code | Action |
|---|---|
| producer `main` | `PutChores`, then `PutPerson(p)` for everybody, in any order |
| `on_chores_sample`, `on_person_sample` | `DeliverChores`, `DeliverPerson`: the coordinator's actions, fed from a key |
| `_flush_current_window` | `Flush` |
| `_publish_summary` | `Publish`: a job thread's publication, onto the consumer's key |
| failing jobs, callbacks, pruning, time | `OrchestratorAlone` |
| consumer `on_summary` | `Consume` |

The history variable `heard` holds the messages that joined the open window, in
their order. A chores message and an availability message are named by the cycle
they belong to. A key keeps the order of its messages and may lose any of them (`Put`);
between keys there is no order. The producer's pauses are not tied to the clock of
the coordinator: any number of cycles fits into a window. A timer that cannot be started is
part of `DeliverPerson`; the run sets `StartsMayFail` to FALSE, because after a
failed start nothing is promised about progress, and the theorems about the
pipeline hold with failing starts too.

### AssignmentRpc

| Code | Action or state |
|---|---|
| `build_request`, `request_pub.put`, first `result_queue.get` | `Ask(p)` |
| a result with the id expected / another id | `Report(p)` / `Ignore(p)`, which starts the timeout again |
| `queue.Empty` | `GiveUp(p)`, only with an empty queue, as `get` looks once more |
| `on_result` for a request of somebody not followed | `Foreign(p)`: `Other` joins the queue |
| `time.sleep(PUBLISH_INTERVAL_SECONDS)` | `timer[p]` and `WakeUp(p)` |
| service: `declare_subscriber` | `Start(s)`; requests put before are not delivered |
| `recv_async`, `handle_assignment_bytes`, `put` | `Receive(s)`, `Reply(s)` |
| `?` on `recv_async` or `put`, a crash | `Stop(s)`; what is in its channel is gone |

A message reaches any subset of the subscribers there are, so requests and
results may be lost; `on_result` is part of the delivery. `timer[p]` counts down,
as does the clock of `get`. A tick waits for a publisher that has something to do:
a publisher is faster than a tick, without which `WaitExplained` would not hold.
The flume channel of the service (1024 places) is never full in the model.

All publishers of the system share the result key and ask every few seconds for
ever. Those in `Publishers` are followed, up to `MaxRequests` requests; of all
others only the results are seen, and they come without an end. So a publisher
whose answer was lost may wait for ever: `get` times out only when no foreign
result comes for a whole timeout, and the model has behaviours in which that
never happens. `SettlesUnlessDisturbed` says that there is no other reason.

### PyWorker

| Code | Action or state |
|---|---|
| `on_request`, `executor.submit` | `OnRequest`, then `ReuseThread`, `StartThread` or `StartThreadFails`: the request is on the queue before the executor looks for a thread |
| a pool thread takes a request | `Take(t)` |
| `process_chore_filter_request` with its sleep | `Filter(t)` |
| `result_pub.put` returns / raises and is logged | `PutResult(t)` / `PutFails(t)` |
| the thread goes back to the queue | `GiveToken(t)` |
| Ctrl-C in `main`, end of the `with` block | `Interrupt`; later every `put` raises |
| the interpreter's exit waits for the pool | `EndThread(t)`, `Exit` |

The executor is external: CPython 3.11, the version of
`docker/Dockerfile.python-base`. It counts finished requests in a semaphore and
starts a thread only when it gets no token from it. The filter loop of the
worker is the one of `ChoreFilter`.

### Dispatch

Chores are remembered; people gather; a gathering ends by running some of its
people, at most `MaxActive` and fewer only if everybody runs, with the chores of
that moment, or by dropping everybody, which is allowed only without chores or
while a batch is outstanding; people complete one by one. In both refinements
`gathering` is the domain of the pending people, `batch` the people of the
tickets, `batchChores` their chores.

### ChoreFilter

Both loops step through the same request. `minutes` is a history field: the
exact sum of the chores accepted, which differs from the `u32` counter `used`
after a wrap. The two second sleep and the fields copied through are left out.

### AssignmentSolver

A request is a number of workers, a number of jobs and a score for some of the
pairs. `Solve` pads the matrix (`SolverMatrix`), lets `Lapjv` choose any row
assignment of least cost (the crate is external) and reads it back (`Collect`,
`TotalOf` with its saturating addition). `Impossible` stands for 1e9 and
`MaxTotal` for `u32::MAX`, the larger of the two; both are small in the runs so
that the cases in which they matter happen. Not in the model: floating point (`f64` is exact for sums of
`u32` of any realistic number), worker ids that occur twice in a request.

### RabbitWorker

| Code | Action or state |
|---|---|
| `connect_with_retry`, `declare_queues`, `basic_qos(1)`, `basic_consume` | `Connect(w)`; prefetch 1: one `unacked` job per worker |
| `process_delivery`, `publish_bytes` | `Publish(w)` |
| `delivery.ack`, `delivery.nack` with `requeue` | `Ack(w)`, `Nack(w)` |
| a crash, an error that leaves `main` with `?` | `Stop(w)`, anywhere |
| the broker (external) | `Deliver(w)`, `Handle(w)`, `CloseChannel(w)` |

What a worker sends is a frame on its channel (`frames[w]`). The channel is not
in confirm mode, so `publish_bytes` returns while the frame is under way, and a
worker may stop with frames the broker handles later or never.

## 3. Runs

| Run | Question | Bounds |
|---|---|---|
| `py_dispatch` | Are gate, history and timers consistent under all interleavings, jobs and starts failing? What does a failed start leave behind? Is the Python orchestrator a dispatcher? | one thread per person, 3 people, limit 2, 2 chores messages, clock to 4 |
| `py_turns` | Summary order with one job per window; do people take turns? | 3 people, limit 2, clock to 5 |
| `pipeline` | What does the consumer see? Which of a person's messages counts? Are windows flushed and batches finished? | 2 cycles of 2 people, limit 1, clock to 5 |
| `py_orphan` | Does an open window have a timer? (violated, section 6) | 2 people |
| `rs_dispatch` | Gate, channel, history in both modes, one pool thread for two people. Is the Rust orchestrator a dispatcher? | 3 people, limit 2, 2 chores messages, channel capacity 1, clock to 3 |
| `rs_liveness` | Progress of the event loop in both modes | 2 people, clock to 4 |
| `chore_filter` | Do both filters fill the time, and do they agree while no sum wraps? | 3 chores, 3-bit minutes |
| `assignment` | Is the answer a matching, and a best one? | every request of up to 3 workers and 3 jobs with scores 0, 1, 3 |
| `assignment_cost` | Is a lower cost better? (violated, section 6) | 2 workers, 2 jobs |
| `assignment_rpc` | Is an answer reported for its own request only, and always when it is delivered in time? What can keep a publisher waiting? | one publisher followed among others that never stop asking, 2 replicas, 2 requests, timeout 2 |
| `rabbit` | Are jobs lost or their results duplicated? Does every job in front of a bad one get a result? | 3 workers, 4 jobs, the third one bad, 2 stops |
| `py_worker` | Is a request answered at most once, does it wait for no idle thread, does it come to an end, and the process? | 3 threads, 4 requests |

Why the bounds suffice: three people and a limit of two make windows that are
too full, so that the selection, the order and the people left out matter; two
chores messages let the chores change between two batches; a clock to 4 or 5
with a window of one tick allows two batches and a window dropped between them,
and stamps older than the ttl; the refinement run to clock 3 has time for two
windows; four messages let a person be heard twice in a
full window. `MaxTime`, `MaxSeq` and `ChannelCapacity` are the bounds; they
are guards of the actions named in the modules (and `MaxStops`, `NumJobs`,
`MaxWorkers`, `MaxJobs`, `MaxRequests`, `MaxBacklog`, `MaxSkips`, `NumRequests` and
`MaxCycles` of the others). Two requests with two replicas give late and second
results, and `Other` the foreign ones. `MaxBacklog` is how many results a queue holds
when a foreign one still comes: two, so that an answer stands behind a foreign
result and in front of another. `MaxSkips` bounds only what the histories `waited` and
`ignored` count: after two skipped results they stand still while results go on
to come and to be skipped, so nothing else in the model ends with them. Four requests for three threads fill the pool and
leave one waiting, with up to four starts that fail; two cycles let people of one
cycle meet the chores of the other, and a limit of 1 for two people cuts a window. Scores up to 3 with an
impossible pair of 4 and totals saturating at 7 make requests on both sides of
`SmallScores`, requests whose best answer leaves out a worker that could be
placed, and sums that saturate. Two stops let a job be delivered
three times, and three workers let stops of one worker overlap with the work of
another. A window is opened only if its timer can expire before `MaxTime`, so
that the end of time does not look like a window that is never flushed. Deadlock is not checked in any run: at `MaxTime`
with nothing outstanding the bounded systems have nothing left to do, and the
code's loops never end; the workers end when all jobs are done and no stop is
left, the solver after its answer, publishers when they have sent `MaxRequests`, the
Python worker when its process has ended. No run uses symmetry.

**Fairness** (`Fairness`, `FairSpec`). `WF(Tick)`: time passes. `WF(TimerFires)`: an expired
`threading.Timer` runs and gets the lock; every critical section is short and
none waits for another thread. `WF` of the job steps and of the callback: `put`
returns or raises, and the `finally` clause calls back. In the run `pipeline`
threads can be started; `StartFailureIsPermanent` says what happens otherwise. In Rust,
`WF(FlushExpired)` and `WF(PersonComplete)` hold although other branches may be
ready, because `tokio::select!` without `biased` polls its branches in random
order; tasks and pool threads do not depend on the loop. Nothing is assumed about messages being
sent; in `Pipeline` what is on a key is handed over (`FairPipeline`: the callback
threads run), unless it was lost at its `put`. In Rust the fairness of `FlushExpired` is that of the
tick branch: the interval becomes ready every 100 ms.

Publishers: `WF` of what follows a `get`, and `TimePasses`: while a timer runs a tick
comes in the end, because only finitely many results arrive in a tick. (`WF(Tick)`
would say less: a tick waits for queues to be empty, which foreign results may
prevent for ever.) Nothing is assumed of the service, which may never run, stop for
good, or answer late, and nothing of the other publishers. Python worker:
`submit` returns, pool threads run, the interpreter leaves when its pool has
ended; `Interrupt` and `Kill` are not fair.

Rust workers: `WF` of the steps of a running worker, because each `await` in `main`
returns or ends it, and of the broker's steps, because RabbitMQ serves every
channel. `Restart` and `Stop` are not fair: no compose file restarts a worker.
`MaxStops` is below the number of workers. A job that cannot be decoded returns
to its place in the queue for ever, so `EveryJobHasResult` promises nothing to
the jobs behind it.

## 4. Properties

| Property | Says |
|---|---|
| `ActiveCountsTickets` | the admission counter is the number of people outstanding; the clamp at zero is dead code |
| `OneBatch` | everybody outstanding was selected at one moment, with one chores message, once |
| `AtMostMaxActive` | the limit of people outstanding; proved, and part of what `ImplementsDispatch` says of both orchestrators |
| `StampOfTicket` | a late failure never erases a newer selection of that person; in Python also: the stamp of an outstanding person is kept for the whole ttl, whatever old clock values other threads prune with |
| `TimerOwnsWindow` | an armed timer belongs to the open window |
| `CompletionsMatchTickets` | the person in a completion is unambiguous |
| `SummariesInBatchOrder` | no summary is overtaken by one of an older batch |
| `NoSecondOvertake` | people take turns |
| `StartFailureIsPermanent` | after a start that failed no batch is ever submitted |
| `EveryWindowFlushed`, `EveryBatchCompletes` | progress |
| `ImplementsDispatch` | refinement of `Dispatch` |
| `PyFillsTime`, `SameUnlessOverflow` | the filter: the time is filled and never exceeded; Rust and Python agree unless the `u32` sum wraps |
| `CyclesInOrder` | the consumer never sees an older cycle after a newer one, over three keys and a thread per summary |
| `MessageUsedOnce` | an availability message is worked on at most once |
| `LastMessageCounts` | a person runs with the last message it sent in the window, and of people with the same last selection those run whose last messages came first |
| `ImplementsRequestReply` | refinement of `RequestReply`: late, foreign and second results are never taken for the answer |
| `DeliveredIsReported` | an answer that reaches the queue of its waiting publisher is reported, however many foreign results stand before it or follow, also when the time of `get` is over |
| `WaitExplained` | the wait for a request is at most the timeout, and once more for every foreign result, as long as the histories count |
| `SettlesUnlessDisturbed` | a publisher comes back to its loop, unless foreign results come for ever |
| `EveryRequestSettles` | progress of the Python worker: a queued request is worked off |
| `QueueNeedsBusyThreads` | requests wait only while all threads are busy, but every failed start costs one place for good |
| `ImplementsAtMostOnce`, `ImplementsAtLeastOnce` | refinement of the two kinds of worker |
| `ShutdownEnds` | an interrupted worker comes to its end |
| `IsMatching`, `BestMatching` | no dummy, no impossible pair, no job twice; a worker that could be placed is left out only for scores greater by the cost of an impossible pair; while scores are small that never happens: most workers placed, then the greatest total |
| `NothingLost` | a job is in the queue, on a channel, or its result in the result queue |
| `DuplicatesNeedStop` | no more superfluous results than stops |
| `EveryJobHasResult` | progress of the workers |

`StartFailureIsPermanent` describes what the code does in a situation it does not
handle; it is stated because an operator sees nothing of it in the log. So does
`WrapIsSilent`, about the result of the Rust filter after a wrap, which is proved
(section 5) and belongs to no run.

## 5. Proofs

Proved by TLAPS for every value of the constants that satisfies the named
assumptions of the modules: finite sets of people, publishers and threads; a
limit, a window and a timeout that are positive; `None` outside of the data
(`ConfigAssumption`, `NoneAssumption`, `RpcAssumption`, `RequestAssumption`,
`PoolAssumption`, `WorkerAssumption`, `ModulusAssumption`, `ScoresAssumption`). `CycleAssumption`,
which only names the messages of the pipeline, is used for the pipeline alone.

Every proof has the same shape: an inductive invariant `IInv`, checked with TLC
before it was proved, with a lemma for each action or each group of actions that
touches the same state; then the properties, each from `IInv`. What the
properties lack to be inductive:

**`SelectionTheorems`**: the selection has at most `max` people, is full unless
it takes everybody, and is not empty. The rank is strictly monotone along a
strict total order, hence injective, and a set of naturals below `max` has at
most `max` elements. The module also holds what both orchestrators need to know
of the history (`PruneType`, `ForgetType`, and what stays: `PruneKeeps`, `ForgetKeeps`) and of counting people by their
tickets (`CountPeople`, `SamePeopleSameCount`), and that of a finite set of
tickets one has the least index (`FirstInLine`).

**`PyCoordinatorProofs`**

* `TypeCorrect`, `GateCorrect` (`ActiveCountsTickets` and `AtMostMaxActive`),
  `OneBatchOutstanding`, `CallbackMeetsOwnStamp`, `TimerOwnership`. `IInv` adds
  `WindowInv` (the sequence numbers of the pending people are pairwise different
  and at most the window's, without which the rank of a person would not be its
  index and the cut could take too many).
  In `CallbackMeetsOwnStamp` the clock value a thread prunes with is any one up to the
  clock: an old value makes ages smaller, also negative, so nothing within the ttl
  is pruned (`PruneKeeps`), and the failure of another person erases no stamp of
  this one (`ForgetKeeps`).
* `SummaryOrder`, with `PastInv`: stamps, tickets and the last summary are not in
  the future, and the last summary is not newer than an outstanding batch, which
  is what the next publication needs to keep the order.
* `StartFailureCostsTheService`: a window without a timer is never flushed and stays,
  so no batch is submitted from it or after it; a ticket whose thread was not
  started stays, so the counter never returns to zero. For one thread per window
  `JobInv` is needed: what happened to one ticket of the batch happened to all.
* `StartsKeepTheService`, the other side of it and of the finding of `py_orphan`:
  if no start ever fails, every open window has its timer and no ticket is lost.
* `BatchIsNeverStuck` and `BatchGoesOneWay`, what `EveryBatchCompletes` rests on:
  while people are counted and no thread was lost, some job thread has its next
  step (of the people left in a list the first one may always call back, by
  `FirstInLine`); and as long as people are outstanding nobody is added and no job
  starts again, so a batch of n people is over after at most 2n such steps. `JobInv`
  is needed here as well.
* `Refinement` of `Dispatch`: a step that keeps the window, chores and people
  outstanding is invisible; the flush is `Run` or `Drop`; the callback is
  `Complete`. It rests on `IInv` (people of tickets are distinct and have one
  chores message) and on `ChooseIsFull`.
* `NobodyOvertakesTwice`, with `TurnsInv`: nobody has been selected since the open
  window was opened, and who was run ahead of a person has the later selection.
  Hence an overtaken person sorts first the next time. This needs that a window
  lasts: with `GatherWindow = 0` a selection in the tick of the opening would tie.
* `ConsumerSeesCyclesInOrder`, with `CycleInv`: the cycles on the chores key, of
  the latest chores, of the outstanding batch, of the last summary, on the summary
  key and of the last summary consumed follow each other, whatever was lost.
* `MessagesUsedOnce`, with `MessageInv`: a person's messages are put, delivered
  and selected in the order of the cycles, so a selected one is older than
  all still to come. Both rest on the fact that every step of the pipeline is a
  step of the coordinator or leaves it alone, so that all of `IInv` carries over.

* `LastMessagesCount`, with `HeardInv`: the open window has counted the messages heard
  since the last flush, and the sequence number of a pending person is the
  position of its last message among them. Only a flush submits (`OnlyFlushSubmits`), and the selection
  sorts by last selection and then by sequence number.

**`RsOrchestratorProofs`**: `TypeCorrect`, `GateCorrect`, `OneBatchOutstanding`,
`CompletionsUnambiguous`, `CompletionMeetsOwnStamp`, `SummaryOrder`, `Refinement`,
in both submission modes at once. `CompletionsMatchTickets` says that the channel
holds one completion for each ticket that has sent one; a completion carries
only a name, so `OneBatch` (one ticket for each person) has to hold for the loop
to remove the right one. `BatchInv` is needed in the window mode: one task moves
all tickets of a window together, so that no ticket whose completion is in
the channel goes back to an earlier place. `BatchIsNeverStuck` and
`BatchGoesOneWay` say of the Rust orchestrator what they say of the Python one,
for one pool thread or more: a queued job finds the pool busy only while another
job can be finished, a completion that was sent is in the channel
(`CompletionsMatchTickets`), and every step takes a job one place on (`BatchInv`), at
most five for a person. Both hold whether publications succeed or fail.

**`AssignmentRpcProofs`**

* `WaitIsExplained`: the bound is not inductive at a timeout that starts again;
  `WaitingInv` says that what a publisher has waited *and may still wait* is
  covered by the foreign results it has skipped, while they are counted. It holds
  for every `MaxSkips`, hence for any number of them.
* `Refinement` of `RequestReply`, with `MessagesInv`: whatever is in a channel
  belongs to a request that was sent, and what is in a result queue was put by a
  replica. Publishers know that a request is theirs only by comparing ids.

**`PyWorkerProofs`**

* `QueueWaitsForBusyThreads`, with `TokenInv`: while another thread could be
  started, the queue and the free tokens of the idle semaphore together are the
  waiting threads, the failed starts and a `submit()` between its two halves;
  only when the pool is drained for the exit does this stop holding.
* `Refinement` of `AtMostOnce`, with `OrderInv` (requests are taken in the order
  in which they came, no two threads hold the same) and `ResultInv` (a request
  that is queued or held has no result). `TypeCorrect`.
* `ExitAfterTheQueue`: a process that exits leaves nothing on the queue and
  nothing half done, unless no thread could ever be started. With `EndInv`: a
  thread ends only when the queue is empty and no request can come any more.

**`RabbitWorkerProofs`**

* `NoJobIsLost`. `NothingLost` is not inductive: an acknowledgement could remove
  the last trace of a job. `ChannelInv` adds the shape of a channel: all its
  frames are about the one delivery, an `ack` or `nack` is the last, and an `ack`
  stands behind its result, or the result is already in the queue.
* `WorkersImplementAtLeastOnce` follows from the same `IInv`: the first frame of
  a channel is about an owed job, a handled `ack` finds its result, and every
  other step moves jobs between queue and channels.
* `SuperfluousNeedStops`: a result that turns out superfluous was published
  earlier than the stop that explains it is noticed. `PlaceInv` says that a job is
  in one place and that one frame decides about a delivery, `CountInv` that each
  stop pays for one delivery put back: the stops the broker has not noticed and
  the results in excess (those of a job that may get another one count already)
  are together at most the stops. `TypeCorrect`.

**`ChoreFilterProofs`**: `PythonFillsTime`, `RustEqualsPython` and
`RustWrapsSilently`, for every number of chores and every modulus. The last needs
that the remainder of a sum is that of the sum of the remainders (`WrapOnce`).

**`AssignmentSolverProofs`**, for requests of every size, with nothing used of
`lapjv` but that it returns a row assignment of least cost:

* `AnswerIsMatching`.
* `AnswerIsBest`. A *gain* of a pair is `Impossible` plus its score. The cost of a
  row assignment and the gain of the matching read from it add up to `Impossible`
  times the real pairs it contains, and that number is the same for all of them
  (`CostOfRows`, `RealRowsCount`), so the least cost is the greatest gain. Every
  matching is read from some row assignment (`Completion`), so the gain is the
  greatest of all matchings, which is what `Worth` in `BestMatching` says of scores of
  any size. And while scores are small, one more pair gains
  more than all scores together (`PartGainsLess`), so the greatest gain has the
  most pairs first and the greatest total second.

`AnswerIsBest` needs `Impossible <= MaxTotal` (`ScoresAssumption`; in the code 1e9 and
`u32::MAX`, about 4.3e9): otherwise scores could be small and their saturating sum
still be cut, and the total reported would be too low.

Sums over sets are folds, and what a fold computes takes an induction. The
library's induction rules cannot be used, because they take an operator as a
parameter; instead a proof takes the sets for which a fact is wrong, of which one
is smallest if there is any (`SmallestSet`, from the fact that inclusion of finite sets
is well founded), and shows that it is not wrong for that one. `SumsDefined` shows
in the same way that the recursive function inside the fold exists.

Only model-checked, and why: liveness under fairness, which is out of the
prover's reach: `EveryWindowFlushed` and `EveryBatchCompletes` (both orchestrators),
`DeliveredIsReported`, `SettlesUnlessDisturbed`, `EveryRequestSettles`, `EveryJobHasResult`,
`ShutdownEnds`. An
induction over steps to come needs quantifiers around temporal formulas, and
that a fair step can be taken is an `ENABLED` formula. `BatchIsNeverStuck` speaks of the
guards instead, so for `EveryBatchCompletes` what is left to TLC is that steps with
their guards true are taken. The definitions these theorems add (`BatchCanMove`,
`BatchOnlyMovesOn`, `ExitLeavesNothing`) stand beside their proofs.

## 6. Findings

* A window without a timer (`py_orphan`): `receive_person` stores the window
  before it starts the timer. If the start raises, `on_person_sample` logs the
  exception and the window stays open for ever; the docstring says that the
  first person "opens the window and starts the timer".

* The direction of costs (`assignment_cost`): `solver.rs:49` negates the costs
  before it minimises and so finds the greatest total; `assignment.proto:20` says
  "lower is better", and the Python test is named
  `test_solve_assignment_picks_minimum_total_cost`.

## 7. Not modelled, and the plan

Every program of the repository that can be started is modelled: both
orchestrators with the producer and the consumer, the assignment publisher and
the Rust service with its solver, the Rust worker on RabbitMQ and the Python
worker. Every safety invariant, refinement and action property
of a passing run is proved, and what the completion of a batch rests on below
fairness. What could still be added is the same for the other progress
properties: the shape in which a request, a delivery and a window come closer to
their end with each fair step.

Left out, and why:

* The Python assignment solver, and with it the handler and the service that
  import it: its functions are annotated with names the module does not import
  (`services/assignment/solver.py:5`), so the process ends at its import.
* The coordinator's lock is not a variable: no critical section of the code waits
  for another thread, so a section is one action. An executor that calls back
  synchronously, as the one of
  `tests/orchestrator/test_orchestrator_scenarios.py` does, would wait for
  itself; the executors of the program do not.
* The Rust orchestrator's loop after a subscription channel has been closed: it
  logs an error in every iteration and changes nothing.
* Configuration, session set-up, logging, generated protobuf code, container
  images and compose files have no state of their own. Malformed configuration (a
  window that is not positive, a limit of 0) is outside the assumptions.
* The fields copied from a request to a result, and what is logged about them.
