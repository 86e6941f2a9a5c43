---------------------------- MODULE PyCoordinator ----------------------------
(***************************************************************************)
(* The Python orchestrator: BatchCoordinator, the executor it submits      *)
(* windows to and the job threads that call back into it.                  *)
(*                                                                         *)
(* Threads.  The two subscriber callbacks (ReceiveChores, ReceivePerson),  *)
(* one threading.Timer per window (TimerFires), the job threads            *)
(* (RunJobSucceeds, RunJobFails, PersonComplete) and the main loop         *)
(* (ExpireStale) interleave.  Everything a thread does under               *)
(* BatchCoordinator.lock is one action.  A clock value is often read       *)
(* before the lock is taken; where such a stale value is used the action   *)
(* chooses it.                                                             *)
(*                                                                         *)
(* A ticket is one person of a submitted batch whose on_person_complete    *)
(* call has not happened yet.  It is what activeFilterCount counts.        *)
(***************************************************************************)
EXTENDS Selection

CONSTANTS
  People,          \* person ids
  Chores,          \* chores messages
  Availability,    \* contents of a PersonAvailability message
  MaxActive,       \* config.max_active_filters
  GatherWindow,    \* config.person_gather_window_seconds, in clock ticks
  HistoryTTL,      \* config.person_last_success_ttl_seconds, in clock ticks
  Mode,            \* JobSubmissionMode
  JobsMayFail,     \* may publishing a summary raise?
  StartsMayFail,   \* may Thread.start() raise?
  None,            \* Python's None
  MaxTime,         \* bound: the clock stops here
  MaxSeq           \* bound: messages a window receives

PerPerson == "per_person"
WindowBatch == "window_batch"

ASSUME ConfigAssumption ==
  /\ IsFiniteSet(People)
  /\ MaxActive \in Nat \ {0}
  /\ GatherWindow \in Nat \ {0}
  /\ HistoryTTL \in Nat
  /\ Mode \in {PerPerson, WindowBatch}
  /\ JobsMayFail \in BOOLEAN
  /\ StartsMayFail \in BOOLEAN
  /\ MaxTime \in Nat
  /\ MaxSeq \in Nat

VARIABLES
  clock,               \* time.monotonic()
  latestChores,        \* latest_chores
  currentWindow,       \* current_window
  timers,              \* armed timers, each named by the time it was started
  activeFilterCount,   \* active_filter_count
  personLastSelected,  \* person_last_selected
  tickets,             \* people submitted and not completed
  lastSummary          \* the last ChoreFilterSummary put on the consumer key

vars == <<clock, latestChores, currentWindow, timers, activeFilterCount,
          personLastSelected, tickets, lastSummary>>

Pending == [seq : Nat, availability : Availability]

PersonWindow ==
  [opened : Nat, seq : Nat, pending : UNION {[S -> Pending] : S \in SUBSET People}]

\* Membership of PersonWindow, as TLC can evaluate it.
IsPersonWindow(w) ==
  /\ w = [opened |-> w.opened, seq |-> w.seq, pending |-> w.pending]
  /\ w.opened \in Nat
  /\ w.seq \in Nat
  /\ DOMAIN w.pending \subseteq People
  /\ w.pending \in [DOMAIN w.pending -> Pending]

\* "started": its job thread runs; "lost": start() raised before its thread
\* existed; "succeeded", "failed": the job is over, the callback is not.
TicketStatus == {"started", "lost", "succeeded", "failed"}

Ticket ==
  [person : People, availability : Availability, chores : Chores,
   at     : Nat,    \* when the batch was selected: names the batch
   index  : Nat,    \* position in the list of people submitted
   status : TicketStatus]

Summary == [at : Nat, chores : Chores, people : SUBSET People]

ASSUME NoneAssumption ==
  None \notin Chores /\ None \notin PersonWindow /\ None \notin Summary

TypeOK ==
  /\ clock \in Nat \ {0}
  /\ latestChores \in Chores \cup {None}
  /\ currentWindow = None \/ IsPersonWindow(currentWindow)
  /\ timers \in SUBSET Nat
  /\ activeFilterCount \in Nat
  /\ DOMAIN personLastSelected \subseteq People
  /\ personLastSelected \in [DOMAIN personLastSelected -> Nat]
  /\ tickets \in SUBSET Ticket
  /\ lastSummary \in Summary \cup {None}

Init ==
  /\ clock = 1
  /\ latestChores = None
  /\ currentWindow = None
  /\ timers = {}
  /\ activeFilterCount = 0
  /\ personLastSelected = [p \in {} |-> 0]
  /\ tickets = {}
  /\ lastSummary = None

-----------------------------------------------------------------------------
(* Subscriber callbacks                                                    *)

ReceiveChores(c) ==
  /\ latestChores' = c
  /\ UNCHANGED <<clock, currentWindow, timers, activeFilterCount,
                 personLastSelected, tickets, lastSummary>>

EmptyWindow(t) == [opened |-> t, seq |-> 0, pending |-> [p \in {} |-> None]]

\* Mutant: the sequence number is never advanced.
JoinSameSequence(w, p, a) ==
  [opened  |-> w.opened,
   seq     |-> w.seq,
   pending |-> [q \in DOMAIN w.pending \cup {p} |->
                  IF q = p THEN [seq |-> w.seq, availability |-> a]
                           ELSE w.pending[q]]]

\* Mutant: a repeated person keeps its place.
JoinKeepsPlace(w, p, a) ==
  [opened  |-> w.opened,
   seq     |-> w.seq + 1,
   pending |-> [q \in DOMAIN w.pending \cup {p} |->
                  IF q \notin DOMAIN w.pending
                    THEN [seq |-> w.seq + 1, availability |-> a]
                    ELSE [w.pending[q] EXCEPT !.availability = IF q = p THEN a ELSE @]]]

\* The window after person p's message: a repeated person takes a new
\* sequence number and the new message replaces the old one.
Join(w, p, a) ==
  [opened  |-> w.opened,
   seq     |-> w.seq + 1,
   pending |-> [q \in DOMAIN w.pending \cup {p} |->
                  IF q = p THEN [seq |-> w.seq + 1, availability |-> a]
                           ELSE w.pending[q]]]

\* Bound: a window is opened only if its timer can still expire.
MayOpen == currentWindow = None /\ clock + GatherWindow <= MaxTime

OpenWindow(p, a) ==
  /\ MayOpen
  /\ currentWindow' = Join(EmptyWindow(clock), p, a)
  /\ timers' = timers \cup {clock}
  /\ UNCHANGED <<clock, latestChores, activeFilterCount, personLastSelected,
                 tickets, lastSummary>>

\* Mutant: every message starts another timer.
JoinWindowRearms(p, a) ==
  /\ currentWindow # None
  /\ currentWindow.seq < MaxSeq
  /\ currentWindow' = Join(currentWindow, p, a)
  /\ timers' = timers \cup {clock}
  /\ UNCHANGED <<clock, latestChores, activeFilterCount, personLastSelected,
                 tickets, lastSummary>>

JoinWindow(p, a) ==
  /\ currentWindow # None
  /\ currentWindow.seq < MaxSeq
  /\ currentWindow' = Join(currentWindow, p, a)
  /\ UNCHANGED <<clock, latestChores, timers, activeFilterCount,
                 personLastSelected, tickets, lastSummary>>

\* timer.start() raises: the window is already stored, the exception leaves
\* receive_person and on_person_sample logs it.
OpenWindowTimerFails ==
  /\ StartsMayFail
  /\ MayOpen
  /\ currentWindow' = EmptyWindow(clock)
  /\ UNCHANGED <<clock, latestChores, timers, activeFilterCount,
                 personLastSelected, tickets, lastSummary>>

ReceivePerson(p, a) == OpenWindow(p, a) \/ JoinWindow(p, a)

-----------------------------------------------------------------------------
(* The timer thread                                                        *)

\* Mutant: the outstanding people are not looked at.
CanSubmitOverActive ==
  /\ currentWindow # None
  /\ latestChores # None
  /\ DOMAIN currentWindow.pending # {}

CanSubmit ==
  /\ currentWindow # None
  /\ latestChores # None
  /\ DOMAIN currentWindow.pending # {}
  /\ activeFilterCount = 0

\* submit_window.  A thread is started per person, in the order of the list,
\* or one for the whole list; the start that raises is the last one tried.
Started(chosen) ==
  CASE ~StartsMayFail -> {chosen}
    [] StartsMayFail /\ Mode = PerPerson ->
         {ChoosePeople(personLastSelected, currentWindow.pending, k) :
            k \in 0..Cardinality(chosen)}
    [] StartsMayFail /\ Mode = WindowBatch -> {{}, chosen}

NewTicket(p, started) ==
  [person       |-> p,
   availability |-> currentWindow.pending[p].availability,
   chores       |-> latestChores,
   at           |-> clock,
   index        |-> Rank(personLastSelected, currentWindow.pending, p),
   status       |-> IF p \in started THEN "started" ELSE "lost"]

\* Mutant: a window counts as one active filter.
SubmitCountsWindow ==
  LET chosen ==
        ChoosePeople(personLastSelected, currentWindow.pending, MaxActive)
  IN  /\ activeFilterCount' = activeFilterCount + 1
      /\ personLastSelected' = StampAll(personLastSelected, chosen, clock)
      /\ \E started \in Started(chosen) :
           tickets' = tickets \cup {NewTicket(p, started) : p \in chosen}

Submit ==
  LET chosen ==
        ChoosePeople(personLastSelected, currentWindow.pending, MaxActive)
  IN  /\ activeFilterCount' = activeFilterCount + Cardinality(chosen)
      /\ personLastSelected' = StampAll(personLastSelected, chosen, clock)
      /\ \E started \in Started(chosen) :
           tickets' = tickets \cup {NewTicket(p, started) : p \in chosen}

\* Mutant: a window that is not submitted is kept.
TimerFiresKeepsDropped(t) ==
  /\ t \in timers
  /\ clock >= t + GatherWindow
  /\ timers' = timers \ {t}
  /\ IF CanSubmit
       THEN Submit /\ currentWindow' = None
       ELSE UNCHANGED <<currentWindow, activeFilterCount,
                        personLastSelected, tickets>>
  /\ UNCHANGED <<clock, latestChores, lastSummary>>

\* _flush_current_window, called by the timer armed at time t.
TimerFires(t) ==
  /\ t \in timers
  /\ clock >= t + GatherWindow
  /\ timers' = timers \ {t}
  /\ currentWindow' = None
  /\ IF CanSubmit
       THEN Submit
       ELSE UNCHANGED <<activeFilterCount, personLastSelected, tickets>>
  /\ UNCHANGED <<clock, latestChores, lastSummary>>

-----------------------------------------------------------------------------
(* Job threads                                                             *)

\* The tickets one thread works on.
JobOf(t) ==
  IF Mode = PerPerson THEN {t} ELSE {u \in tickets : u.at = t.at}

Finish(t, status) ==
  tickets' = (tickets \ JobOf(t))
               \cup {[u EXCEPT !.status = status] : u \in JobOf(t)}

\* run_chore_filter, run_chore_filter_window: filter, then publish.
RunJobSucceeds(t) ==
  /\ t.status = "started"
  /\ Finish(t, "succeeded")
  /\ lastSummary' = [at     |-> t.at,
                     chores |-> t.chores,
                     people |-> {u.person : u \in JobOf(t)}]
  /\ UNCHANGED <<clock, latestChores, currentWindow, timers,
                 activeFilterCount, personLastSelected>>

RunJobFails(t) ==
  /\ JobsMayFail
  /\ t.status = "started"
  /\ Finish(t, "failed")
  /\ UNCHANGED <<clock, latestChores, currentWindow, timers,
                 activeFilterCount, personLastSelected, lastSummary>>

\* Mutant: the count goes down twice, without the clamp.
PersonCompleteTwice(t, now) ==
  /\ t.status \in {"succeeded", "failed"}
  /\ \A u \in JobOf(t) : t.index <= u.index
  /\ tickets' = tickets \ {t}
  /\ activeFilterCount' = activeFilterCount - 2
  /\ personLastSelected' = Prune(personLastSelected, now, HistoryTTL)
  /\ UNCHANGED <<clock, latestChores, currentWindow, timers, lastSummary>>

\* Mutant: the callback is not in a finally block.
PersonCompleteUnlessFailed(t, now) ==
  /\ t.status \in {"succeeded", "failed"}
  /\ \A u \in JobOf(t) : t.index <= u.index
  /\ tickets' = tickets \ {t}
  /\ activeFilterCount' = IF t.status = "failed" THEN activeFilterCount
                                                 ELSE activeFilterCount - 1
  /\ personLastSelected' = Prune(personLastSelected, now, HistoryTTL)
  /\ UNCHANGED <<clock, latestChores, currentWindow, timers, lastSummary>>

\* _on_person_complete, called by the job thread of ticket t, which read the
\* clock at time now and took the lock later.
PersonComplete(t, now) ==
  /\ t.status \in {"succeeded", "failed"}
  /\ \A u \in JobOf(t) : t.index <= u.index
  /\ tickets' = tickets \ {t}
  /\ activeFilterCount' = IF activeFilterCount = 0
                            THEN 0 ELSE activeFilterCount - 1
  /\ personLastSelected' =
       Prune(IF t.status = "failed"
               THEN Forget(personLastSelected, t.person)
               ELSE personLastSelected,
             now, HistoryTTL)
  /\ UNCHANGED <<clock, latestChores, currentWindow, timers, lastSummary>>

-----------------------------------------------------------------------------
(* The main loop and the clock                                             *)

\* expire_stale_if_idle, with a clock value read before the lock was taken.
ExpireStale(now) ==
  /\ personLastSelected' = Prune(personLastSelected, now, HistoryTTL)
  /\ UNCHANGED <<clock, latestChores, currentWindow, timers,
                 activeFilterCount, tickets, lastSummary>>

Tick ==
  /\ clock < MaxTime
  /\ clock' = clock + 1
  /\ UNCHANGED <<latestChores, currentWindow, timers, activeFilterCount,
                 personLastSelected, tickets, lastSummary>>

Next ==
  \/ \E c \in Chores : ReceiveChores(c)
  \/ \E p \in People, a \in Availability : ReceivePerson(p, a)
  \/ OpenWindowTimerFails
  \/ \E t \in timers : TimerFires(t)
  \/ \E t \in tickets : RunJobSucceeds(t)
  \/ \E t \in tickets : RunJobFails(t)
  \/ \E t \in tickets : \E now \in t.at..clock : PersonComplete(t, now)
  \/ \E now \in 1..clock : ExpireStale(now)
  \/ Tick

Spec == Init /\ [][Next]_vars

\* Time passes, an expired timer gets the lock, and a job thread runs to the
\* end of its callback: put() returns or raises.
Fairness ==
  /\ WF_vars(Tick)
  /\ WF_vars(\E t \in timers : TimerFires(t))
  /\ WF_vars(\E t \in tickets : RunJobSucceeds(t) \/ RunJobFails(t))
  /\ WF_vars(\E t \in tickets :
               \E now \in t.at..clock : PersonComplete(t, now))

-----------------------------------------------------------------------------
(* Properties                                                              *)

\* The admission gate of _flush_current_window is the counter: it counts the
\* people of the batch whose callback is outstanding, under every order of
\* job threads, flushes and failures, so the clamp at zero is never used.
ActiveCountsTickets == activeFilterCount = Cardinality(tickets)

\* What the gate is for: the outstanding people all belong to one batch, with
\* one chores message, each at most once.
OneBatch ==
  \A t, u \in tickets :
    /\ t.at = u.at
    /\ t.chores = u.chores
    /\ t.person = u.person => t = u

\* max_active_filters is never exceeded by the people being worked on.
AtMostMaxActive == Cardinality(tickets) <= MaxActive

\* The late callback of a person's job never erases or meets a newer
\* selection of that person: the history entry, if it is still there, is the
\* one its own batch made.  And it is there for the whole ttl: a thread that
\* prunes with a clock value read before the batch was stamped erases nothing,
\* and neither does the failure of another person.
StampOfTicket ==
  \A t \in tickets :
    /\ t.person \in DOMAIN personLastSelected =>
         personLastSelected[t.person] = t.at
    /\ clock <= t.at + HistoryTTL => t.person \in DOMAIN personLastSelected

\* A timer flushes the window it was started for and no other: there is never
\* a timer left over from a window that was already flushed.
TimerOwnsWindow ==
  timers # {} => currentWindow # None /\ timers = {currentWindow.opened}

\* Summaries reach the consumer key in the order their batches were selected,
\* although each is published by its own thread.
SummariesInBatchOrder ==
  [][lastSummary # None => lastSummary'.at >= lastSummary.at]_lastSummary

\* receive_person: "The first person message opens the window and starts the
\* timer." (coordinator.py:88-90)
OpenWindowHasTimer ==
  currentWindow # None => currentWindow.opened \in timers

\* Both failures to start a thread are permanent: a window whose timer did not
\* start is never flushed, a person whose job thread did not start is counted
\* for ever; either way no batch is submitted any more.
Orphaned == currentWindow # None /\ currentWindow.opened \notin timers

Wedged == Orphaned \/ \E t \in tickets : t.status = "lost"

StartFailureIsPermanent ==
  [][Wedged => /\ Wedged'
               /\ {t.at : t \in tickets'} \subseteq {t.at : t \in tickets}]_vars

\* Every window that opens is flushed, and a batch that was submitted does not
\* stay outstanding: the next window finds the gate open.  Under Fairness, when
\* threads can be started.
EveryWindowFlushed == currentWindow # None ~> currentWindow = None

EveryBatchCompletes == activeFilterCount > 0 ~> activeFilterCount = 0
=============================================================================
