---------------------------- MODULE RsOrchestrator ----------------------------
(***************************************************************************)
(* The Rust orchestrator: the tokio::select! loop that owns the            *)
(* BatchCoordinator, the two subscription channels and the completion      *)
(* channel it reads, the tokio tasks of the window executor and the rayon  *)
(* pool that runs the filter.                                              *)
(*                                                                         *)
(* One branch of the loop is one action: nothing else touches the          *)
(* coordinator, so its mutex is never contended.  Tasks and pool threads   *)
(* interleave with the loop.                                               *)
(*                                                                         *)
(* A ticket is one person of a submitted batch whose completion the loop   *)
(* has not handled.  It is what activeFilterCount counts.                  *)
(***************************************************************************)
EXTENDS Selection, Sequences

CONSTANTS
  People,            \* person ids
  Chores,            \* chores messages
  Availability,      \* contents of a PersonAvailability message
  MaxPeople,         \* max_people_per_window
  NumWorkerThreads,  \* num_worker_threads
  GatherWindow,      \* person_gather_window_seconds, in clock ticks
  HistoryTTL,        \* person_last_success_ttl_seconds, in clock ticks
  JobsMayFail,       \* may putting a summary return an error?
  ChannelCapacity,   \* flume::bounded: 1024 in the code
  None,              \* Option::None
  MaxTime,           \* bound: the clock stops here
  MaxSeq             \* bound: messages a window receives

PerPerson == "PerPerson"
WindowBatch == "WindowBatch"

ASSUME ConfigAssumption ==
  /\ IsFiniteSet(People)
  /\ MaxPeople \in Nat \ {0}
  /\ NumWorkerThreads \in Nat \ {0}
  /\ GatherWindow \in Nat \ {0}
  /\ HistoryTTL \in Nat
  /\ JobsMayFail \in BOOLEAN
  /\ ChannelCapacity \in Nat \ {0}
  /\ MaxTime \in Nat
  /\ MaxSeq \in Nat

VARIABLES
  mode,                \* the JobSubmissionMode the program is built with
  clock,               \* Instant::now()
  choresSamples,       \* chores_sub
  personSamples,       \* person_sub
  completions,         \* the completion channel
  latestChores,        \* latest_chores
  currentWindow,       \* current_window
  activeFilterCount,   \* active_filter_count
  personLastSelected,  \* person_last_selected
  tickets,             \* people submitted and not completed
  lastSummary          \* the last ChoreFilterSummary put on the summary key

channels == <<choresSamples, personSamples>>

coordinator ==
  <<latestChores, currentWindow, activeFilterCount, personLastSelected>>

vars == <<mode, clock, channels, completions, coordinator, tickets, lastSummary>>

Pending == [seq : Nat, availability : Availability]

PersonWindow ==
  [openedAt : Nat, seq : Nat, pending : UNION {[S -> Pending] : S \in SUBSET People}]

\* Membership of PersonWindow, as TLC can evaluate it.
IsPersonWindow(w) ==
  /\ w = [openedAt |-> w.openedAt, seq |-> w.seq, pending |-> w.pending]
  /\ w.openedAt \in Nat
  /\ w.seq \in Nat
  /\ DOMAIN w.pending \subseteq People
  /\ w.pending \in [DOMAIN w.pending -> Pending]

\* "queued": its job waits for a pool thread; "working": a pool thread runs
\* the filter; "ready": the result is back in the task; "published",
\* "failed": the task knows how it ended; "sent": the completion is in the
\* channel.
TicketStatus == {"queued", "working", "ready", "published", "failed", "sent"}

Ticket ==
  [person : People, availability : Availability, chores : Chores,
   at     : Nat,    \* when the batch was selected: names the batch
   index  : Nat,    \* position in the list of people submitted
   status : TicketStatus]

Completion == [person : People, succeeded : BOOLEAN]

Summary == [at : Nat, chores : Chores, people : SUBSET People]

ASSUME NoneAssumption == None \notin Chores /\ None \notin PersonWindow

TypeOK ==
  /\ mode \in {PerPerson, WindowBatch}
  /\ clock \in Nat \ {0}
  /\ choresSamples \in Seq(Chores)
  /\ personSamples \in Seq([person : People, availability : Availability])
  /\ completions \in Seq(Completion)
  /\ latestChores \in Chores \cup {None}
  /\ currentWindow = None \/ IsPersonWindow(currentWindow)
  /\ activeFilterCount \in Nat
  /\ DOMAIN personLastSelected \subseteq People
  /\ personLastSelected \in [DOMAIN personLastSelected -> Nat]
  /\ tickets \in SUBSET Ticket
  /\ lastSummary \in Summary \cup {None}

Init ==
  /\ mode \in {PerPerson, WindowBatch}
  /\ clock = 1
  /\ choresSamples = <<>>
  /\ personSamples = <<>>
  /\ completions = <<>>
  /\ latestChores = None
  /\ currentWindow = None
  /\ activeFilterCount = 0
  /\ personLastSelected = [p \in {} |-> 0]
  /\ tickets = {}
  /\ lastSummary = None

-----------------------------------------------------------------------------
(* Zenoh: a full channel makes the callback wait                           *)

ChoresArrive(c) ==
  /\ Len(choresSamples) < ChannelCapacity
  /\ choresSamples' = Append(choresSamples, c)
  /\ UNCHANGED <<mode, clock, personSamples, completions, coordinator, tickets,
                 lastSummary>>

PersonArrives(p, a) ==
  /\ Len(personSamples) < ChannelCapacity
  /\ personSamples' = Append(personSamples, [person |-> p, availability |-> a])
  /\ UNCHANGED <<mode, clock, choresSamples, completions, coordinator, tickets,
                 lastSummary>>

-----------------------------------------------------------------------------
(* The event loop: receive_chores and receive_person                       *)

ReceiveChores ==
  /\ choresSamples # <<>>
  /\ choresSamples' = Tail(choresSamples)
  /\ latestChores' = Head(choresSamples)
  /\ UNCHANGED <<mode, clock, personSamples, completions, currentWindow,
                 activeFilterCount, personLastSelected, tickets, lastSummary>>

EmptyWindow(t) == [openedAt |-> t, seq |-> 0, pending |-> [p \in {} |-> None]]

\* The window after person p's message: a repeated person takes a new
\* sequence number and the new message replaces the old one.
Insert(w, p, a) ==
  [openedAt |-> w.openedAt,
   seq      |-> w.seq + 1,
   pending  |-> [q \in DOMAIN w.pending \cup {p} |->
                   IF q = p THEN [seq |-> w.seq + 1, availability |-> a]
                            ELSE w.pending[q]]]

\* Bounds: a window is opened only if a tick can still expire it, and
\* receives at most MaxSeq messages.
ReceivePerson ==
  /\ personSamples # <<>>
  /\ IF currentWindow = None THEN clock + GatherWindow <= MaxTime
                             ELSE currentWindow.seq < MaxSeq
  /\ personSamples' = Tail(personSamples)
  /\ LET sample == Head(personSamples)
         window == IF currentWindow = None THEN EmptyWindow(clock)
                                           ELSE currentWindow
     IN  currentWindow' = Insert(window, sample.person, sample.availability)
  /\ UNCHANGED <<mode, clock, choresSamples, completions, latestChores,
                 activeFilterCount, personLastSelected, tickets, lastSummary>>

-----------------------------------------------------------------------------
(* The event loop: the 100 ms tick, expire_stale_if_idle                   *)

Expired == currentWindow # None /\ clock >= currentWindow.openedAt + GatherWindow

\* Mutant: the outstanding people are not looked at.
CanSubmitOverActive ==
  /\ latestChores # None
  /\ DOMAIN currentWindow.pending # {}

CanSubmit ==
  /\ latestChores # None
  /\ DOMAIN currentWindow.pending # {}
  /\ activeFilterCount = 0

PeopleToRun == ChoosePeople(personLastSelected, currentWindow.pending, MaxPeople)

NewTicket(p) ==
  [person       |-> p,
   availability |-> currentWindow.pending[p].availability,
   chores       |-> latestChores,
   at           |-> clock,
   index        |-> Rank(personLastSelected, currentWindow.pending, p),
   status       |-> "queued"]

\* Mutant: a window counts as one active filter.
FlushCountsWindow ==
  /\ Expired
  /\ currentWindow' = None
  /\ IF CanSubmit
       THEN /\ activeFilterCount' = activeFilterCount + 1
            /\ personLastSelected' =
                 Prune(StampAll(personLastSelected, PeopleToRun, clock),
                       clock, HistoryTTL)
            /\ tickets' = tickets \cup {NewTicket(p) : p \in PeopleToRun}
       ELSE /\ personLastSelected' = Prune(personLastSelected, clock, HistoryTTL)
            /\ UNCHANGED <<activeFilterCount, tickets>>
  /\ UNCHANGED <<mode, clock, channels, completions, latestChores, lastSummary>>

\* Mutant: a window that is not submitted is put back.
FlushKeepsDropped ==
  /\ Expired
  /\ IF CanSubmit
       THEN /\ currentWindow' = None
            /\ activeFilterCount' = activeFilterCount + Cardinality(PeopleToRun)
            /\ personLastSelected' = StampAll(personLastSelected, PeopleToRun, clock)
            /\ tickets' = tickets \cup {NewTicket(p) : p \in PeopleToRun}
       ELSE UNCHANGED <<currentWindow, activeFilterCount, personLastSelected,
                        tickets>>
  /\ UNCHANGED <<mode, clock, channels, completions, latestChores, lastSummary>>

\* A flush is followed by the pruning of the history it has just written.
FlushExpired ==
  /\ Expired
  /\ currentWindow' = None
  /\ IF CanSubmit
       THEN /\ activeFilterCount' = activeFilterCount + Cardinality(PeopleToRun)
            /\ personLastSelected' =
                 Prune(StampAll(personLastSelected, PeopleToRun, clock),
                       clock, HistoryTTL)
            /\ tickets' = tickets \cup {NewTicket(p) : p \in PeopleToRun}
       ELSE /\ personLastSelected' = Prune(personLastSelected, clock, HistoryTTL)
            /\ UNCHANGED <<activeFilterCount, tickets>>
  /\ UNCHANGED <<mode, clock, channels, completions, latestChores, lastSummary>>

PruneOnly ==
  /\ ~Expired
  /\ personLastSelected' = Prune(personLastSelected, clock, HistoryTTL)
  /\ UNCHANGED <<mode, clock, channels, completions, latestChores, currentWindow,
                 activeFilterCount, tickets, lastSummary>>

ExpireStale == FlushExpired \/ PruneOnly

-----------------------------------------------------------------------------
(* The event loop: on_person_complete                                      *)

\* Mutant: a failed completion does not give its place back.
PersonCompleteUnlessFailed ==
  /\ completions # <<>>
  /\ LET completion == Head(completions)
     IN  /\ completions' = Tail(completions)
         /\ activeFilterCount' = IF completion.succeeded
                                   THEN activeFilterCount - 1
                                   ELSE activeFilterCount
         /\ tickets' = {t \in tickets : ~(t.status = "sent" /\ t.person = completion.person)}
  /\ UNCHANGED <<mode, clock, channels, latestChores, currentWindow,
                 personLastSelected, lastSummary>>

\* Mutant: subtracted twice, before the check for zero.
PersonCompleteTwice ==
  /\ completions # <<>>
  /\ completions' = Tail(completions)
  /\ activeFilterCount' = activeFilterCount - 2
  /\ tickets' = {t \in tickets : ~(t.status = "sent" /\ t.person = Head(completions).person)}
  /\ UNCHANGED <<mode, clock, channels, latestChores, currentWindow,
                 personLastSelected, lastSummary>>

PersonComplete ==
  /\ completions # <<>>
  /\ LET completion == Head(completions)
     IN  /\ completions' = Tail(completions)
         /\ activeFilterCount' = IF activeFilterCount = 0
                                   THEN 0 ELSE activeFilterCount - 1
         /\ personLastSelected' = IF completion.succeeded
                                    THEN personLastSelected
                                    ELSE Forget(personLastSelected,
                                                completion.person)
         /\ tickets' = {t \in tickets : ~(t.status = "sent" /\ t.person = completion.person)}
  /\ UNCHANGED <<mode, clock, channels, latestChores, currentWindow, lastSummary>>

-----------------------------------------------------------------------------
(* Tasks and pool threads                                                  *)

\* The tickets one task works on.
JobOf(t) ==
  IF mode = PerPerson THEN {t} ELSE {u \in tickets : u.at = t.at}

Move(t, from, to) ==
  /\ t.status = from
  /\ tickets' = (tickets \ JobOf(t))
                  \cup {[u EXCEPT !.status = to] : u \in JobOf(t)}
  /\ UNCHANGED <<mode, clock, channels, completions, coordinator>>

JobsWorking ==
  LET working == {t \in tickets : t.status = "working"}
  IN  IF mode = PerPerson THEN Cardinality(working)
                          ELSE Cardinality({t.at : t \in working})

\* worker_pool.spawn: a free pool thread takes the job, runs the filter and
\* sends the result to the task.
WorkerStarts(t) ==
  /\ JobsWorking < NumWorkerThreads
  /\ Move(t, "queued", "working")
  /\ UNCHANGED lastSummary

WorkerFinishes(t) ==
  /\ Move(t, "working", "ready")
  /\ UNCHANGED lastSummary

PublishSucceeds(t) ==
  /\ Move(t, "ready", "published")
  /\ lastSummary' = [at     |-> t.at,
                     chores |-> t.chores,
                     people |-> {u.person : u \in JobOf(t)}]

PublishFails(t) ==
  /\ JobsMayFail
  /\ Move(t, "ready", "failed")
  /\ UNCHANGED lastSummary

\* Mutant: the completion is sent and may be sent again.
SendCompletionAgain(t) ==
  /\ t.status \in {"published", "failed"}
  /\ Len(completions) < Cardinality(tickets) + 1
  /\ completions' = Append(completions, [person    |-> t.person,
                                         succeeded |-> t.status = "published"])
  /\ UNCHANGED <<mode, clock, channels, coordinator, tickets, lastSummary>>

\* completion_tx.send: a window task sends one per person, in order.
SendCompletion(t) ==
  /\ t.status \in {"published", "failed"}
  /\ \A u \in JobOf(t) : u.status = "sent" \/ t.index <= u.index
  /\ completions' = Append(completions, [person    |-> t.person,
                                         succeeded |-> t.status = "published"])
  /\ tickets' = (tickets \ {t}) \cup {[t EXCEPT !.status = "sent"]}
  /\ UNCHANGED <<mode, clock, channels, coordinator, lastSummary>>

Tick ==
  /\ clock < MaxTime
  /\ clock' = clock + 1
  /\ UNCHANGED <<mode, channels, completions, coordinator, tickets, lastSummary>>

Next ==
  \/ \E c \in Chores : ChoresArrive(c)
  \/ \E p \in People, a \in Availability : PersonArrives(p, a)
  \/ ReceiveChores
  \/ ReceivePerson
  \/ ExpireStale
  \/ PersonComplete
  \/ \E t \in tickets : WorkerStarts(t)
  \/ \E t \in tickets : WorkerFinishes(t)
  \/ \E t \in tickets : PublishSucceeds(t)
  \/ \E t \in tickets : PublishFails(t)
  \/ \E t \in tickets : SendCompletion(t)
  \/ Tick

Spec == Init /\ [][Next]_vars

\* The loop polls a ready branch in random order, so each ready branch is taken
\* some time; tasks and pool threads are not blocked by the loop.
Fairness ==
  /\ WF_vars(Tick)
  /\ WF_vars(FlushExpired)
  /\ WF_vars(PersonComplete)
  /\ WF_vars(\E t \in tickets : WorkerStarts(t))
  /\ WF_vars(\E t \in tickets : WorkerFinishes(t))
  /\ WF_vars(\E t \in tickets : PublishSucceeds(t) \/ PublishFails(t))
  /\ WF_vars(\E t \in tickets : SendCompletion(t))

FairSpec == Spec /\ Fairness

-----------------------------------------------------------------------------
(* Properties                                                              *)

\* The gate of flush_current_window counts the people whose completion the
\* loop has not handled yet, wherever their job is; it never underflows.
ActiveCountsTickets == activeFilterCount = Cardinality(tickets)

\* A completion names only a person, not a batch.  It is still unambiguous:
\* the channel holds exactly one completion of every person marked sent, and
\* of nobody else.
CompletionsMatchTickets ==
  /\ \A i, j \in DOMAIN completions :
       completions[i].person = completions[j].person => i = j
  /\ {completions[i].person : i \in DOMAIN completions} =
       {t.person : t \in {u \in tickets : u.status = "sent"}}

\* Everybody outstanding belongs to one batch with one chores message.
OneBatch ==
  \A t, u \in tickets :
    /\ t.at = u.at
    /\ t.chores = u.chores
    /\ t.person = u.person => t = u

\* A failed completion, handled late, never erases a newer selection of that
\* person.
StampOfTicket ==
  \A t \in tickets :
    t.person \in DOMAIN personLastSelected =>
      personLastSelected[t.person] = t.at

\* Summaries are put in the order their batches were selected.
SummariesInBatchOrder ==
  [][lastSummary # None => lastSummary'.at >= lastSummary.at]_lastSummary

\* An open window is flushed although nothing but the tick looks at it, and a
\* batch comes to an end with fewer pool threads than people.  Under FairSpec.
EveryWindowFlushed == currentWindow # None ~> currentWindow = None

EveryBatchCompletes == activeFilterCount > 0 ~> activeFilterCount = 0
=============================================================================
