-------------------------- MODULE PyCoordinatorProofs --------------------------
(***************************************************************************)
(* The safety of the Python orchestrator for every set of people and       *)
(* chores and every configuration, threads that fail to start and jobs     *)
(* that fail included; that it implements Dispatch; that people take       *)
(* turns; what the consumer of the Pipeline sees.  Only the last part uses *)
(* CycleAssumption, which restricts nothing for MaxCycles = 0.             *)
(***************************************************************************)
EXTENDS PyDispatch, PyRotation, Pipeline, SelectionTheorems

\* The window: sequence numbers are given out once.
WindowInv ==
  currentWindow # None =>
    /\ currentWindow.opened <= clock
    /\ \A p \in DOMAIN currentWindow.pending :
         currentWindow.pending[p].seq <= currentWindow.seq
    /\ \A p, q \in DOMAIN currentWindow.pending :
         currentWindow.pending[p].seq = currentWindow.pending[q].seq => p = q

\* Nothing is stamped in the future, and no outstanding batch was selected
\* before the last one that published.
PastInv ==
  /\ \A p \in DOMAIN personLastSelected : personLastSelected[p] <= clock
  /\ \A t \in tickets : t.at <= clock
  /\ lastSummary # None =>
       lastSummary.at <= clock /\ \A t \in tickets : lastSummary.at <= t.at

\* The safety invariants are inductive together, with the two facts above.
IInv ==
  /\ TypeOK
  /\ WindowInv
  /\ PastInv
  /\ TimerOwnsWindow
  /\ OneBatch
  /\ IsFiniteSet(tickets)
  /\ ActiveCountsTickets
  /\ AtMostMaxActive
  /\ StampOfTicket

-----------------------------------------------------------------------------
(* The window and the history are what SelectionTheorems is about          *)

LEMMA WindowIsSelection ==
  ASSUME TypeOK, WindowInv, currentWindow # None
  PROVE  IsSelection(personLastSelected, currentWindow.pending)
<1> DEFINE W == currentWindow.pending
<1>1. IsPersonWindow(currentWindow)
  BY DEF TypeOK
<1>2. DOMAIN W \in SUBSET People /\ W \in [DOMAIN W -> Pending]
  BY <1>1 DEF IsPersonWindow
<1>3. IsFiniteSet(DOMAIN W)
  BY <1>2, ConfigAssumption, FS_Subset
<1>4. \A p \in DOMAIN W : W[p].seq \in Nat
  BY <1>2 DEF Pending
<1>5. \A p \in DOMAIN personLastSelected : personLastSelected[p] \in Nat
  BY DEF TypeOK
<1> QED
  BY <1>3, <1>4, <1>5 DEF IsSelection, WindowInv

LEMMA WindowIsNotNone ==
  ASSUME NEW w, IsPersonWindow(w)
  PROVE  w # None
<1>1. w.pending \in UNION {[S -> Pending] : S \in SUBSET People}
  BY DEF IsPersonWindow
<1>2. w \in PersonWindow
  BY <1>1 DEF IsPersonWindow, PersonWindow
<1> QED
  BY <1>2, NoneAssumption

LEMMA JoinType ==
  ASSUME NEW w, IsPersonWindow(w), NEW p \in People, NEW a \in Availability
  PROVE  IsPersonWindow(Join(w, p, a))
<1>1. Join(w, p, a).pending \in [DOMAIN w.pending \cup {p} -> Pending]
  BY DEF IsPersonWindow, Join, Pending
<1> QED
  BY <1>1 DEF IsPersonWindow, Join

LEMMA EmptyWindowType ==
  ASSUME NEW t \in Nat
  PROVE  IsPersonWindow(EmptyWindow(t))
<1>1. [p \in {} |-> None] \in [{} -> Pending]
  OBVIOUS
<1> QED
  BY <1>1 DEF IsPersonWindow, EmptyWindow

-----------------------------------------------------------------------------
(* Preservation, action by action                                          *)

LEMMA InitInv == Init => IInv
<1> SUFFICES ASSUME Init PROVE IInv
  OBVIOUS
<1>1. TypeOK /\ WindowInv /\ PastInv /\ TimerOwnsWindow /\ OneBatch /\ StampOfTicket
  BY DEF Init, TypeOK, WindowInv, PastInv, TimerOwnsWindow, OneBatch,
         StampOfTicket
<1>2. IsFiniteSet(tickets) /\ ActiveCountsTickets /\ AtMostMaxActive
  BY FS_EmptySet, ConfigAssumption DEF Init, ActiveCountsTickets, AtMostMaxActive
<1> QED
  BY <1>1, <1>2 DEF IInv

\* Actions that leave the tickets, the count and the history as they are.
LEMMA ReceiveChoresInv ==
  ASSUME IInv, NEW c \in Chores, ReceiveChores(c)
  PROVE  IInv'
  BY DEF IInv, ReceiveChores, TypeOK, WindowInv, PastInv, TimerOwnsWindow,
         OneBatch, ActiveCountsTickets, AtMostMaxActive, StampOfTicket

LEMMA OpenWindowInv ==
  ASSUME IInv, NEW p \in People, NEW a \in Availability, OpenWindow(p, a)
  PROVE  IInv'
<1> USE DEF IInv, OpenWindow, MayOpen
<1>1. TypeOK'
  <2>1. IsPersonWindow(Join(EmptyWindow(clock), p, a))
    BY JoinType, EmptyWindowType DEF TypeOK
  <2> QED
    BY <2>1 DEF TypeOK
<1>2. WindowInv'
  BY DEF WindowInv, TypeOK, Join, EmptyWindow
<1>3. TimerOwnsWindow'
  <2>1. timers' = {clock}
    BY DEF TimerOwnsWindow
  <2>2. currentWindow' # None
    BY WindowIsNotNone, JoinType, EmptyWindowType DEF TypeOK
  <2>3. currentWindow'.opened = clock
    BY DEF Join, EmptyWindow
  <2> QED
    BY <2>1, <2>2, <2>3 DEF TimerOwnsWindow
<1> QED
  BY <1>1, <1>2, <1>3 DEF PastInv, OneBatch, ActiveCountsTickets,
     AtMostMaxActive, StampOfTicket

LEMMA JoinWindowInv ==
  ASSUME IInv, NEW p \in People, NEW a \in Availability, JoinWindow(p, a)
  PROVE  IInv'
<1> USE DEF IInv, JoinWindow
<1>0. IsPersonWindow(currentWindow)
  BY DEF TypeOK
<1>1. TypeOK'
  BY <1>0, JoinType DEF TypeOK
<1>2. WindowInv'
  BY <1>0 DEF WindowInv, Join, IsPersonWindow, Pending
<1>3. TimerOwnsWindow'
  <2>1. currentWindow' # None
    BY <1>0, WindowIsNotNone, JoinType
  <2>2. currentWindow'.opened = currentWindow.opened
    BY <1>0 DEF Join, IsPersonWindow
  <2> QED
    BY <2>1, <2>2 DEF TimerOwnsWindow
<1> QED
  BY <1>1, <1>2, <1>3 DEF PastInv, OneBatch, ActiveCountsTickets,
     AtMostMaxActive, StampOfTicket

LEMMA OpenWindowTimerFailsInv ==
  ASSUME IInv, OpenWindowTimerFails
  PROVE  IInv'
<1> USE DEF IInv, OpenWindowTimerFails, MayOpen
<1>1. TypeOK'
  BY EmptyWindowType DEF TypeOK
<1>2. WindowInv' /\ TimerOwnsWindow'
  BY DEF WindowInv, TimerOwnsWindow, EmptyWindow, TypeOK
<1> QED
  BY <1>1, <1>2 DEF PastInv, OneBatch, ActiveCountsTickets,
     AtMostMaxActive, StampOfTicket

LEMMA ExpireStaleInv ==
  ASSUME IInv, NEW now \in 1..clock, ExpireStale(now)
  PROVE  IInv'
<1> USE DEF IInv, ExpireStale
<1>1. /\ DOMAIN personLastSelected' \subseteq DOMAIN personLastSelected
      /\ personLastSelected' \in [DOMAIN personLastSelected' -> Nat]
      /\ \A p \in DOMAIN personLastSelected' :
           personLastSelected'[p] = personLastSelected[p]
  BY PruneType DEF TypeOK
<1>2. TypeOK'
  BY <1>1 DEF TypeOK
<1>3. PastInv'
  BY <1>1 DEF PastInv
<1>4. StampOfTicket'
  <2>1. ASSUME NEW t \in tickets, clock <= t.at + HistoryTTL
        PROVE  t.person \in DOMAIN personLastSelected'
    <3>1. t.person \in DOMAIN personLastSelected /\ personLastSelected[t.person] = t.at
      BY <2>1 DEF StampOfTicket
    <3>2. now \in Nat /\ now <= clock /\ clock \in Nat /\ t.at \in Nat /\ HistoryTTL \in Nat
      BY ConfigAssumption DEF TypeOK, Ticket
    <3>3. ~(now > personLastSelected[t.person] + HistoryTTL)
      BY <2>1, <3>1, <3>2
    <3> QED
      BY <3>1, <3>3, PruneKeeps
  <2> QED
    BY <1>1, <2>1 DEF StampOfTicket
<1> QED
  BY <1>2, <1>3, <1>4 DEF WindowInv, TimerOwnsWindow, OneBatch, ActiveCountsTickets,
     AtMostMaxActive

LEMMA TickInv ==
  ASSUME IInv, Tick
  PROVE  IInv'
<1> USE DEF IInv, Tick
<1>1. TypeOK'
  BY DEF TypeOK
<1>2. WindowInv'
  BY DEF WindowInv, TypeOK, IsPersonWindow
<1>3. PastInv'
  <2>1. clock \in Nat /\ clock' = clock + 1
    BY DEF TypeOK
  <2>2. \A p \in DOMAIN personLastSelected : personLastSelected[p] \in Nat
    BY DEF TypeOK
  <2>3. \A t \in tickets : t.at \in Nat
    BY DEF TypeOK, Ticket
  <2>4. lastSummary # None => lastSummary.at \in Nat
    BY DEF TypeOK, Summary
  <2> QED
    BY <2>1, <2>2, <2>3, <2>4 DEF PastInv
<1>4. StampOfTicket'
  <2>1. \A t \in tickets : t.at \in Nat
    BY DEF TypeOK, Ticket
  <2>2. clock \in Nat /\ clock' = clock + 1 /\ HistoryTTL \in Nat
    BY ConfigAssumption DEF TypeOK
  <2> QED
    BY <2>1, <2>2 DEF StampOfTicket
<1> QED
  BY <1>1, <1>2, <1>3, <1>4 DEF TimerOwnsWindow, OneBatch, ActiveCountsTickets,
     AtMostMaxActive

-----------------------------------------------------------------------------
(* Submitting a window                                                     *)

LEMMA SubmitInv ==
  ASSUME IInv, CanSubmit, Submit, currentWindow' = None, timers' = {},
         UNCHANGED <<clock, latestChores, lastSummary>>
  PROVE  IInv'
<1> DEFINE W == currentWindow.pending
           chosen == ChoosePeople(personLastSelected, W, MaxActive)
<1> USE DEF IInv
<1>1. IsSelection(personLastSelected, W) /\ IsPersonWindow(currentWindow)
  BY WindowIsSelection DEF CanSubmit, TypeOK
<1>2. /\ chosen \subseteq DOMAIN W
      /\ DOMAIN W \subseteq People
      /\ IsFiniteSet(chosen)
      /\ Cardinality(chosen) <= MaxActive
      /\ Cardinality(chosen) \in Nat
  BY <1>1, ChooseAtMost, ConfigAssumption, FS_CardinalityType
     DEF IsPersonWindow
<1>3. tickets = {}
  BY FS_EmptySet DEF CanSubmit, ActiveCountsTickets
<1>4. PICK started : tickets' = {NewTicket(p, started) : p \in chosen}
  BY <1>3 DEF Submit
<1>5. /\ activeFilterCount' = Cardinality(chosen)
      /\ personLastSelected' = StampAll(personLastSelected, chosen, clock)
  BY <1>2 DEF Submit, CanSubmit
<1> HIDE DEF chosen
<1>6. \A p \in chosen :
        /\ NewTicket(p, started) \in Ticket
        /\ NewTicket(p, started).person = p
        /\ NewTicket(p, started).at = clock
        /\ NewTicket(p, started).chores = latestChores
  <2> SUFFICES ASSUME NEW p \in chosen
               PROVE  /\ NewTicket(p, started) \in Ticket
                      /\ NewTicket(p, started).person = p
                      /\ NewTicket(p, started).at = clock
                      /\ NewTicket(p, started).chores = latestChores
    OBVIOUS
  <2>1. Rank(personLastSelected, W, p) \in Nat
    BY <1>1, AheadFinite
  <2>2. W[p].availability \in Availability /\ p \in People
    BY <1>1, <1>2 DEF IsPersonWindow, Pending
  <2>3. latestChores \in Chores /\ clock \in Nat
    BY DEF CanSubmit, TypeOK
  <2>4. (IF p \in started THEN "started" ELSE "lost") \in TicketStatus
    BY DEF TicketStatus
  <2> QED
    BY <2>1, <2>2, <2>3, <2>4 DEF NewTicket, Ticket
<1>7. \A t, u \in tickets' : t.person = u.person => t = u
  BY <1>4, <1>6
<1>8. PeopleOf(tickets') = chosen
  BY <1>4, <1>6 DEF PeopleOf
<1>9. IsFiniteSet(tickets') /\ Cardinality(tickets') = Cardinality(chosen)
  BY <1>2, <1>7, <1>8, CountPeople
<1>10. /\ DOMAIN personLastSelected' = DOMAIN personLastSelected \cup chosen
       /\ \A p \in DOMAIN personLastSelected' :
            personLastSelected'[p] = IF p \in chosen THEN clock
                                                     ELSE personLastSelected[p]
       /\ personLastSelected' \in [DOMAIN personLastSelected' -> Nat]
  BY <1>5 DEF StampAll, TypeOK
<1>11. TypeOK'
  BY <1>2, <1>4, <1>5, <1>6, <1>10 DEF TypeOK
<1>12. PastInv'
  BY <1>4, <1>6, <1>10 DEF PastInv, TypeOK
<1>13. OneBatch' /\ StampOfTicket'
  BY <1>4, <1>6, <1>7, <1>10 DEF OneBatch, StampOfTicket
<1>14. ActiveCountsTickets' /\ AtMostMaxActive'
  BY <1>2, <1>5, <1>9 DEF ActiveCountsTickets, AtMostMaxActive
<1> QED
  BY <1>9, <1>11, <1>12, <1>13, <1>14 DEF WindowInv, TimerOwnsWindow

LEMMA TimerFiresInv ==
  ASSUME IInv, NEW t \in timers, TimerFires(t)
  PROVE  IInv'
<1>1. timers' = {} /\ currentWindow' = None
  BY DEF TimerFires, IInv, TimerOwnsWindow
<1>2. CASE CanSubmit
  BY <1>1, <1>2, SubmitInv DEF TimerFires
<1>3. CASE ~CanSubmit
  BY <1>1, <1>3 DEF TimerFires, IInv, TypeOK, WindowInv, PastInv,
     TimerOwnsWindow, OneBatch, ActiveCountsTickets, AtMostMaxActive,
     StampOfTicket
<1> QED
  BY <1>2, <1>3

-----------------------------------------------------------------------------
(* The end of a job and of a person                                        *)

\* A job that ends changes the status of its tickets and nothing else.
LEMMA FinishKeepsTickets ==
  ASSUME IInv, NEW t \in tickets, NEW status \in TicketStatus, Finish(t, status)
  PROVE  /\ tickets' \in SUBSET Ticket
         /\ \A u \in tickets' : \E v \in tickets :
              u.person = v.person /\ u.at = v.at /\ u.chores = v.chores
         /\ \A u, v \in tickets' : u.person = v.person => u = v
         /\ IsFiniteSet(tickets')
         /\ Cardinality(tickets') = Cardinality(tickets)
<1> DEFINE J == JobOf(t)
           Ended(u) == [u EXCEPT !.status = status]
<1>1. J \subseteq tickets /\ tickets \subseteq Ticket
  BY DEF JobOf, IInv, TypeOK
<1>2. tickets' = (tickets \ J) \cup {Ended(u) : u \in J}
  BY DEF Finish
<1> HIDE DEF J
<1>3. \A u \in tickets : /\ Ended(u) \in Ticket
                         /\ Ended(u).person = u.person
                         /\ Ended(u).at = u.at
                         /\ Ended(u).chores = u.chores
  BY <1>1 DEF Ticket
<1> HIDE DEF Ended
<1>4. \A u, v \in tickets : u.person = v.person => u = v
  BY DEF IInv, OneBatch
<1>5. \A u, v \in tickets' : u.person = v.person => u = v
  BY <1>1, <1>2, <1>3, <1>4
<1>6. PeopleOf(tickets') = PeopleOf(tickets)
  BY <1>1, <1>2, <1>3 DEF PeopleOf
<1>7. IsFiniteSet(tickets') /\ Cardinality(tickets') = Cardinality(tickets)
  BY <1>4, <1>5, <1>6, SamePeopleSameCount DEF IInv
<1>8. \A u \in tickets' : \E v \in tickets :
        u.person = v.person /\ u.at = v.at /\ u.chores = v.chores
  BY <1>1, <1>2, <1>3
<1>9. tickets' \subseteq Ticket
  BY <1>1, <1>2, <1>3
<1> QED
  BY <1>5, <1>7, <1>8, <1>9

LEMMA FinishInv ==
  ASSUME IInv, NEW t \in tickets, NEW status \in TicketStatus, Finish(t, status),
         UNCHANGED <<clock, latestChores, currentWindow, timers,
                     activeFilterCount, personLastSelected>>,
         lastSummary' = lastSummary \/ (lastSummary' \in Summary /\ lastSummary'.at = t.at)
  PROVE  IInv'
<1>1. /\ tickets' \in SUBSET Ticket
      /\ \A u \in tickets' : \E v \in tickets :
           u.person = v.person /\ u.at = v.at /\ u.chores = v.chores
      /\ \A u, v \in tickets' : u.person = v.person => u = v
      /\ IsFiniteSet(tickets')
      /\ Cardinality(tickets') = Cardinality(tickets)
  BY FinishKeepsTickets
<1>2. TypeOK'
  BY <1>1 DEF IInv, TypeOK
<1>3. OneBatch'
  BY <1>1 DEF IInv, OneBatch
<1>4. StampOfTicket'
  BY <1>1 DEF IInv, StampOfTicket
<1>5. PastInv'
  <2>1. \A u \in tickets' : u.at <= clock
    BY <1>1 DEF IInv, PastInv
  <2>2. CASE lastSummary' = lastSummary
    BY <1>1, <2>1, <2>2 DEF IInv, PastInv
  <2>3. CASE lastSummary' \in Summary /\ lastSummary'.at = t.at
    <3>1. \A u \in tickets : u.at = t.at
      BY DEF IInv, OneBatch
    <3>2. t.at \in Nat /\ t.at <= clock
      BY DEF IInv, TypeOK, Ticket, PastInv
    <3> QED
      BY <1>1, <2>1, <2>3, <3>1, <3>2 DEF IInv, PastInv
  <2> QED
    BY <2>2, <2>3
<1> QED
  BY <1>1, <1>2, <1>3, <1>4, <1>5 DEF IInv, WindowInv, TimerOwnsWindow,
     ActiveCountsTickets, AtMostMaxActive

LEMMA RunJobSucceedsInv ==
  ASSUME IInv, NEW t \in tickets, RunJobSucceeds(t)
  PROVE  /\ IInv'
         /\ lastSummary' \in Summary
         /\ lastSummary # None => lastSummary'.at >= lastSummary.at
<1>1. t \in Ticket /\ tickets \subseteq Ticket /\ JobOf(t) \subseteq tickets
  BY DEF IInv, TypeOK, JobOf
<1>2. {u.person : u \in JobOf(t)} \in SUBSET People
  BY <1>1 DEF Ticket
<1>3. lastSummary' \in Summary /\ lastSummary'.at = t.at
  BY <1>1, <1>2 DEF RunJobSucceeds, Summary, Ticket
<1>4. IInv'
  BY <1>3, FinishInv DEF RunJobSucceeds, TicketStatus
<1> QED
  BY <1>3, <1>4 DEF IInv, PastInv, TypeOK, Summary, Ticket

LEMMA RunJobFailsInv ==
  ASSUME IInv, NEW t \in tickets, RunJobFails(t)
  PROVE  IInv'
  BY FinishInv DEF RunJobFails, TicketStatus

LEMMA PersonCompleteInv ==
  ASSUME IInv, NEW t \in tickets, NEW now \in t.at..clock, PersonComplete(t, now)
  PROVE  IInv'
<1> USE DEF IInv
<1> DEFINE kept == IF t.status = "failed"
                     THEN Forget(personLastSelected, t.person)
                     ELSE personLastSelected
<1>1. /\ DOMAIN kept \subseteq DOMAIN personLastSelected
      /\ kept \in [DOMAIN kept -> Nat]
      /\ \A p \in DOMAIN kept : kept[p] = personLastSelected[p]
  BY ForgetType DEF TypeOK
<1>2. /\ DOMAIN personLastSelected' \subseteq DOMAIN personLastSelected
      /\ personLastSelected' \in [DOMAIN personLastSelected' -> Nat]
      /\ \A p \in DOMAIN personLastSelected' :
           personLastSelected'[p] = personLastSelected[p]
  <2> HIDE DEF kept
  <2>1. personLastSelected' = Prune(kept, now, HistoryTTL)
    BY DEF PersonComplete, kept
  <2> QED
    BY <1>1, <2>1, PruneType DEF TypeOK
<1>3. /\ tickets' = tickets \ {t}
      /\ IsFiniteSet(tickets')
      /\ Cardinality(tickets') = Cardinality(tickets) - 1
      /\ Cardinality(tickets) \in Nat
  BY FS_RemoveElement, FS_CardinalityType DEF PersonComplete
<1>4. activeFilterCount' = activeFilterCount - 1 /\ activeFilterCount' \in Nat
  <2>1. activeFilterCount # 0
    BY FS_EmptySet DEF ActiveCountsTickets
  <2> QED
    BY <2>1 DEF PersonComplete, TypeOK
<1>5. TypeOK'
  BY <1>2, <1>3, <1>4 DEF PersonComplete, TypeOK
<1>6. PastInv' /\ OneBatch'
  BY <1>2, <1>3 DEF PersonComplete, PastInv, OneBatch
<1>7. StampOfTicket'
  <2>1. ASSUME NEW u \in tickets', clock <= u.at + HistoryTTL
        PROVE  u.person \in DOMAIN personLastSelected'
    <3>1. u \in tickets /\ u.person # t.person
      BY <1>3 DEF OneBatch
    <3>2. u.person \in DOMAIN personLastSelected /\ personLastSelected[u.person] = u.at
      BY <2>1, <3>1 DEF StampOfTicket
    <3>3. u.person \in DOMAIN kept /\ kept[u.person] = u.at
      BY <1>1, <3>1, <3>2, ForgetKeeps
    <3>4. /\ now \in Int /\ now <= clock /\ clock \in Nat
          /\ t.at \in Nat /\ u.at \in Nat /\ HistoryTTL \in Nat
      BY <3>1, ConfigAssumption DEF TypeOK, Ticket
    <3> HIDE DEF kept
    <3>5. ~(now > kept[u.person] + HistoryTTL)
      BY <2>1, <3>3, <3>4
    <3>6. personLastSelected' = Prune(kept, now, HistoryTTL)
      BY DEF PersonComplete, kept
    <3> QED
      BY <3>3, <3>5, <3>6, PruneKeeps
  <2>2. clock' = clock
    BY DEF PersonComplete
  <2> QED
    BY <1>2, <1>3, <2>1, <2>2 DEF StampOfTicket
<1>8. ActiveCountsTickets' /\ AtMostMaxActive'
  BY <1>3, <1>4, ConfigAssumption DEF ActiveCountsTickets, AtMostMaxActive
<1> QED
  BY <1>3, <1>5, <1>6, <1>7, <1>8 DEF PersonComplete, WindowInv, TimerOwnsWindow

-----------------------------------------------------------------------------
(* The theorems                                                            *)

LEMMA NextInv == IInv /\ [Next]_vars => IInv'
<1> SUFFICES ASSUME IInv, [Next]_vars PROVE IInv'
  OBVIOUS
<1>1. ASSUME NEW c \in Chores, ReceiveChores(c) PROVE IInv'
  BY <1>1, ReceiveChoresInv
<1>2. ASSUME NEW p \in People, NEW a \in Availability, ReceivePerson(p, a)
      PROVE  IInv'
  BY <1>2, OpenWindowInv, JoinWindowInv DEF ReceivePerson
<1>3. CASE OpenWindowTimerFails
  BY <1>3, OpenWindowTimerFailsInv
<1>4. ASSUME NEW t \in timers, TimerFires(t) PROVE IInv'
  BY <1>4, TimerFiresInv
<1>5. ASSUME NEW t \in tickets, RunJobSucceeds(t) PROVE IInv'
  BY <1>5, RunJobSucceedsInv
<1>6. ASSUME NEW t \in tickets, RunJobFails(t) PROVE IInv'
  BY <1>6, RunJobFailsInv
<1>7. ASSUME NEW t \in tickets, NEW now \in t.at..clock, PersonComplete(t, now)
      PROVE  IInv'
  BY <1>7, PersonCompleteInv
<1>8. ASSUME NEW now \in 1..clock, ExpireStale(now) PROVE IInv'
  BY <1>8, ExpireStaleInv
<1>9. CASE Tick
  BY <1>9, TickInv
<1>10. CASE UNCHANGED vars
  BY <1>10 DEF vars, IInv, TypeOK, WindowInv, PastInv, TimerOwnsWindow,
     OneBatch, ActiveCountsTickets, AtMostMaxActive, StampOfTicket
<1> QED
  BY <1>1, <1>2, <1>3, <1>4, <1>5, <1>6, <1>7, <1>8, <1>9, <1>10 DEF Next

\* IInv holds in every reachable state.
THEOREM Invariance == Spec => []IInv
<1> QED
  BY InitInv, NextInv, PTL DEF Spec

\* Every variable keeps its type: the counter of the admission gate is a
\* natural number although the code decrements it before it checks.
THEOREM TypeCorrect == Spec => []TypeOK
<1>1. IInv => TypeOK
  BY DEF IInv
<1> QED
  BY <1>1, Invariance, PTL

\* The admission gate of _flush_current_window counts exactly the people whose
\* callback is outstanding, and there are never more than max_active_filters of
\* them.
THEOREM GateCorrect ==
  Spec => [](ActiveCountsTickets /\ AtMostMaxActive)
<1>1. IInv => ActiveCountsTickets /\ AtMostMaxActive
  BY DEF IInv
<1> QED
  BY <1>1, Invariance, PTL

\* The outstanding people belong to one batch with one chores message, each at
\* most once.
THEOREM OneBatchOutstanding == Spec => []OneBatch
<1>1. IInv => OneBatch
  BY DEF IInv
<1> QED
  BY <1>1, Invariance, PTL

\* A late callback never meets a newer selection of its person, and meets its own
\* for the whole ttl, however old the clock values are that others prune with.
THEOREM CallbackMeetsOwnStamp == Spec => []StampOfTicket
<1>1. IInv => StampOfTicket
  BY DEF IInv
<1> QED
  BY <1>1, Invariance, PTL

\* An armed timer is the timer of the open window.
THEOREM TimerOwnership == Spec => []TimerOwnsWindow
<1>1. IInv => TimerOwnsWindow
  BY DEF IInv
<1> QED
  BY <1>1, Invariance, PTL

\* Summaries are published in the order in which their batches were selected.
THEOREM SummaryOrder == Spec => SummariesInBatchOrder
<1> DEFINE Ordered == lastSummary # None => lastSummary'.at >= lastSummary.at
<1>1. IInv /\ [Next]_vars => [Ordered]_lastSummary
  <2> SUFFICES ASSUME IInv, [Next]_vars, lastSummary' # lastSummary
               PROVE  Ordered
    OBVIOUS
  <2>1. \E t \in tickets : RunJobSucceeds(t)
    BY DEF Next, vars, ReceiveChores, ReceivePerson, OpenWindow, JoinWindow,
       OpenWindowTimerFails, TimerFires, RunJobFails, PersonComplete,
       ExpireStale, Tick
  <2> QED
    BY <2>1, RunJobSucceedsInv
<1> QED
  BY <1>1, Invariance, PTL DEF Spec, SummariesInBatchOrder

-----------------------------------------------------------------------------
(* What a thread that was not started costs                                *)

\* The window without a timer stays, and no batch is submitted.
LEMMA OrphanedStep ==
  ASSUME IInv, [Next]_vars, Orphaned
  PROVE  /\ Orphaned'
         /\ \A u \in tickets' : \E v \in tickets : u.at = v.at
<1> USE DEF IInv, Orphaned
<1>1. timers = {} /\ currentWindow # None
  BY DEF TimerOwnsWindow
<1>2. ASSUME NEW p \in People, NEW a \in Availability, ReceivePerson(p, a)
      PROVE  Orphaned' /\ tickets' = tickets
  <2>1. JoinWindow(p, a)
    BY <1>1, <1>2 DEF ReceivePerson, OpenWindow, MayOpen
  <2>2. currentWindow' # None /\ currentWindow'.opened = currentWindow.opened
    BY <1>1, <2>1, JoinType, WindowIsNotNone DEF JoinWindow, Join, TypeOK
  <2> QED
    BY <2>1, <2>2 DEF JoinWindow
<1>3. ASSUME NEW t \in tickets, RunJobSucceeds(t) \/ RunJobFails(t)
      PROVE  Orphaned' /\ \A u \in tickets' : \E v \in tickets : u.at = v.at
  <2>1. \A u \in tickets' : \E v \in tickets :
          u.person = v.person /\ u.at = v.at /\ u.chores = v.chores
    BY <1>3, FinishKeepsTickets DEF RunJobSucceeds, RunJobFails, TicketStatus
  <2> QED
    BY <1>3, <2>1 DEF RunJobSucceeds, RunJobFails
<1>4. ASSUME NEW t \in tickets, NEW now, PersonComplete(t, now)
      PROVE  Orphaned' /\ tickets' \subseteq tickets
  BY <1>4 DEF PersonComplete
<1> QED
  BY <1>1, <1>2, <1>3, <1>4 DEF Next, vars, ReceiveChores, OpenWindowTimerFails,
     MayOpen, TimerFires, ExpireStale, Tick

\* A window_batch job is one thread: what happened to it happened to all its
\* tickets.
JobInv == Mode = WindowBatch => \A t, u \in tickets : t.status = u.status

LEMMA JobInvStep ==
  ASSUME IInv, IInv', JobInv, [Next]_vars
  PROVE  JobInv'
<1> SUFFICES ASSUME Mode = WindowBatch PROVE \A t, u \in tickets' : t.status = u.status
  BY DEF JobInv
<1> USE DEF JobInv
<1>1. ASSUME NEW t \in timers, TimerFires(t), CanSubmit
      PROVE  \A v, u \in tickets' : v.status = u.status
  <2> DEFINE chosen == ChoosePeople(personLastSelected, currentWindow.pending, MaxActive)
  <2>1. tickets = {}
    BY <1>1, FS_EmptySet DEF CanSubmit, IInv, ActiveCountsTickets
  <2>2. PICK started \in Started(chosen) :
          tickets' = {NewTicket(p, started) : p \in chosen}
    BY <1>1, <2>1 DEF TimerFires, Submit
  <2> HIDE DEF chosen
  <2>3. started = {} \/ started = chosen
    BY <2>2 DEF Started, WindowBatch, PerPerson
  <2> QED
    BY <2>2, <2>3 DEF NewTicket
<1>2. ASSUME NEW t \in tickets, NEW status \in TicketStatus, Finish(t, status)
      PROVE  \A v, u \in tickets' : v.status = u.status
  <2>1. JobOf(t) = tickets
    BY DEF JobOf, IInv, OneBatch, WindowBatch, PerPerson
  <2>2. tickets' = {[u EXCEPT !.status = status] : u \in tickets}
    BY <1>2, <2>1 DEF Finish
  <2>3. \A u \in tickets : [u EXCEPT !.status = status].status = status
    BY DEF IInv, TypeOK, Ticket
  <2> QED
    BY <2>2, <2>3
<1>3. ASSUME NEW t \in tickets, RunJobSucceeds(t) \/ RunJobFails(t)
      PROVE  \A v, u \in tickets' : v.status = u.status
  BY <1>2, <1>3 DEF RunJobSucceeds, RunJobFails, TicketStatus
<1>4. ASSUME tickets' \subseteq tickets
      PROVE  \A v, u \in tickets' : v.status = u.status
  BY <1>4
<1> QED
  BY <1>1, <1>3, <1>4 DEF Next, vars, ReceiveChores, ReceivePerson, OpenWindow,
     JoinWindow, OpenWindowTimerFails, TimerFires, PersonComplete, ExpireStale, Tick

\* A ticket whose thread was not started stays, and keeps the gate closed.
LEMMA LostStep ==
  ASSUME IInv, JobInv, [Next]_vars, NEW t \in tickets, t.status = "lost"
  PROVE  /\ \E u \in tickets' : u.status = "lost"
         /\ \A u \in tickets' : \E v \in tickets : u.at = v.at
<1> USE DEF IInv
<1>1. ~CanSubmit
  BY FS_EmptySet DEF ActiveCountsTickets, CanSubmit
<1>2. ASSUME NEW u \in tickets, RunJobSucceeds(u) \/ RunJobFails(u)
      PROVE  /\ \E v \in tickets' : v.status = "lost"
             /\ \A w \in tickets' : \E v \in tickets : w.at = v.at
  <2>1. \A w \in tickets' : \E v \in tickets :
          w.person = v.person /\ w.at = v.at /\ w.chores = v.chores
    BY <1>2, FinishKeepsTickets DEF RunJobSucceeds, RunJobFails, TicketStatus
  <2>2. t # u /\ Mode # WindowBatch
    BY <1>2 DEF JobInv, RunJobSucceeds, RunJobFails
  <2>3. t \notin JobOf(u)
    BY <2>2, ConfigAssumption DEF JobOf
  <2>4. t \in tickets'
    BY <1>2, <2>3 DEF RunJobSucceeds, RunJobFails, Finish
  <2> QED
    BY <2>1, <2>4
<1>3. ASSUME NEW u \in tickets, NEW now, PersonComplete(u, now)
      PROVE  t \in tickets' /\ tickets' \subseteq tickets
  BY <1>3 DEF PersonComplete
<1> QED
  BY <1>1, <1>2, <1>3 DEF Next, vars, ReceiveChores, ReceivePerson, OpenWindow,
     JoinWindow, OpenWindowTimerFails, TimerFires, ExpireStale, Tick

\* A thread that could not be started costs the service for good: a window
\* without a timer is never flushed, a person without a job thread is counted
\* for ever, and either way no batch is submitted any more.
THEOREM StartFailureCostsTheService == Spec => StartFailureIsPermanent
<1> DEFINE Permanent == Wedged => /\ Wedged'
                                  /\ {t.at : t \in tickets'} \subseteq {t.at : t \in tickets}
<1>1. IInv /\ JobInv /\ [Next]_vars => Permanent
  <2> SUFFICES ASSUME IInv, JobInv, [Next]_vars, Wedged PROVE Permanent
    OBVIOUS
  <2>1. CASE Orphaned
    BY <2>1, OrphanedStep DEF Wedged
  <2>2. CASE \E t \in tickets : t.status = "lost"
    BY <2>2, LostStep DEF Wedged
  <2> QED
    BY <2>1, <2>2 DEF Wedged
<1>2. Init => JobInv
  BY DEF Init, JobInv
<1>3. IInv /\ IInv' /\ JobInv /\ [Next]_vars => JobInv'
  BY JobInvStep
<1>4. IInv /\ JobInv /\ [Next]_vars => [Permanent]_vars
  BY <1>1
<1> QED
  BY <1>2, <1>3, <1>4, Invariance, PTL DEF Spec, StartFailureIsPermanent

\* A thread that could not be started is the only way to lose one: while every
\* thread starts, the open window has its timer and every ticket its job thread.
LEMMA WedgedOnlyByStarts ==
  ASSUME IInv, [Next]_vars, ~StartsMayFail, ~Wedged
  PROVE  ~Wedged'
<1> USE DEF Wedged, Orphaned
<1>1. ASSUME NEW p \in People, NEW a \in Availability, ReceivePerson(p, a)
      PROVE  ~Wedged'
  <2>1. CASE OpenWindow(p, a)
    BY <2>1 DEF OpenWindow, Join, EmptyWindow
  <2>2. CASE JoinWindow(p, a)
    BY <2>2 DEF JoinWindow, Join
  <2> QED
    BY <1>1, <2>1, <2>2 DEF ReceivePerson
<1>2. ASSUME NEW t \in timers, TimerFires(t)
      PROVE  ~Wedged'
  <2>1. CASE CanSubmit
    <3> DEFINE chosen == ChoosePeople(personLastSelected, currentWindow.pending, MaxActive)
    <3>1. PICK started \in Started(chosen) :
            tickets' = tickets \cup {NewTicket(p, started) : p \in chosen}
      BY <1>2, <2>1 DEF TimerFires, Submit
    <3>2. started = chosen
      BY <3>1 DEF Started
    <3>3. \A p \in chosen : NewTicket(p, chosen).status = "started"
      BY DEF NewTicket
    <3> HIDE DEF chosen
    <3> QED
      BY <1>2, <3>1, <3>2, <3>3 DEF TimerFires
  <2>2. CASE ~CanSubmit
    BY <1>2, <2>2 DEF TimerFires
  <2> QED
    BY <2>1, <2>2
<1>3. ASSUME NEW t \in tickets, NEW status \in {"succeeded", "failed"},
             Finish(t, status), UNCHANGED <<currentWindow, timers>>
      PROVE  ~Wedged'
  <2>1. \A u \in tickets : [u EXCEPT !.status = status].status = status
    BY DEF IInv, TypeOK, Ticket
  <2>2. JobOf(t) \subseteq tickets
    BY DEF JobOf
  <2> QED
    BY <1>3, <2>1, <2>2 DEF Finish
<1>4. ASSUME NEW t \in tickets, RunJobSucceeds(t) \/ RunJobFails(t)
      PROVE  ~Wedged'
  BY <1>3, <1>4 DEF RunJobSucceeds, RunJobFails
<1>5. ASSUME NEW t \in tickets, NEW now, PersonComplete(t, now)
      PROVE  ~Wedged'
  BY <1>5 DEF PersonComplete
<1> QED
  BY <1>1, <1>2, <1>4, <1>5 DEF Next, vars, ReceiveChores, OpenWindowTimerFails,
     ExpireStale, Tick

\* While threads can be started the comment of receive_person is right: the
\* open window has a timer, and nobody is counted whose job does not run.
THEOREM StartsKeepTheService ==
  ~StartsMayFail => (Spec => [](OpenWindowHasTimer /\ ~Wedged))
<1> SUFFICES ASSUME ~StartsMayFail
             PROVE  Spec => [](OpenWindowHasTimer /\ ~Wedged)
  OBVIOUS
<1>1. Init => ~Wedged
  BY DEF Init, Wedged, Orphaned
<1>2. IInv /\ ~Wedged /\ [Next]_vars => (~Wedged)'
  BY WedgedOnlyByStarts
<1>3. ~Wedged => OpenWindowHasTimer
  BY DEF Wedged, Orphaned, OpenWindowHasTimer
<1> QED
  BY <1>1, <1>2, <1>3, Invariance, PTL DEF Spec

-----------------------------------------------------------------------------
(* What EveryBatchCompletes rests on                                       *)

\* The job thread of a ticket has something to do: run the job, or call back
\* for the first person left in its list.
CanMove(t) ==
  \/ t.status = "started"
  \/ t.status \in {"succeeded", "failed"} /\ \A u \in JobOf(t) : t.index <= u.index

\* No wait between the threads of a batch leaves all of them waiting.
BatchCanMove ==
  activeFilterCount > 0 /\ ~Wedged => \E t \in tickets : CanMove(t)

\* Ticket u is ticket t, at the same place or ended.
MovedOn(u, t) ==
  /\ u.person = t.person /\ u.at = t.at /\ u.index = t.index
  /\ u.status # t.status =>
       t.status = "started" /\ u.status \in {"succeeded", "failed"}

\* While people are outstanding nobody is added and no job starts again.
BatchOnlyMovesOn ==
  [][tickets # {} => \A u \in tickets' : \E t \in tickets : MovedOn(u, t)]_vars

\* As long as people are counted and no thread was lost, some job thread can go
\* on: the gate never stays closed because callbacks wait for each other.
THEOREM BatchIsNeverStuck == Spec => []BatchCanMove
<1>1. IInv => BatchCanMove
  <2> SUFFICES ASSUME IInv, activeFilterCount > 0, ~Wedged,
                      \A t \in tickets : t.status # "started"
               PROVE  \E t \in tickets : CanMove(t)
    BY DEF BatchCanMove, CanMove
  <2>1. \A t \in tickets : t.status \in {"succeeded", "failed"} /\ t.index \in Nat
    BY DEF IInv, TypeOK, Ticket, TicketStatus, Wedged
  <2>2. tickets # {} /\ IsFiniteSet(tickets)
    BY FS_EmptySet DEF IInv, ActiveCountsTickets
  <2>3. PICK t \in tickets : \A u \in tickets : t.index <= u.index
    BY <2>1, <2>2, FirstInLine
  <2>4. JobOf(t) \subseteq tickets
    BY DEF JobOf
  <2> QED
    BY <2>1, <2>3, <2>4 DEF CanMove
<1> QED
  BY <1>1, Invariance, PTL

\* A batch only shrinks and a job ends once, so a batch of n people is over
\* after at most 2n steps of its threads.
THEOREM BatchGoesOneWay == Spec => BatchOnlyMovesOn
<1> DEFINE Same(T) == \A u \in T : \E t \in tickets : MovedOn(u, t)
<1>1. IInv /\ JobInv /\ [Next]_vars => (tickets # {} => Same(tickets'))
  <2> SUFFICES ASSUME IInv, JobInv, [Next]_vars, tickets # {}
               PROVE  Same(tickets')
    OBVIOUS
  <2>1. \A T \in SUBSET tickets : Same(T)
    BY DEF MovedOn
  <2>2. ~CanSubmit
    BY FS_EmptySet DEF IInv, ActiveCountsTickets, CanSubmit
  <2>3. ASSUME NEW t \in tickets, NEW status \in {"succeeded", "failed"},
               t.status = "started", Finish(t, status)
        PROVE  Same(tickets')
    <3> DEFINE Ended(u) == [u EXCEPT !.status = status]
               J == JobOf(t)
    <3>1. \A u \in tickets : /\ Ended(u).person = u.person
                             /\ Ended(u).at = u.at
                             /\ Ended(u).index = u.index
                             /\ Ended(u).status = status
      BY DEF IInv, TypeOK, Ticket
    <3>2. J \subseteq tickets /\ \A u \in J : u.status = "started"
      BY <2>3, ConfigAssumption DEF JobOf, JobInv
    <3>3. tickets' = (tickets \ J) \cup {Ended(u) : u \in J}
      BY <2>3 DEF Finish
    <3> HIDE DEF Ended, J
    <3>4. \A u \in J : MovedOn(Ended(u), u)
      BY <3>1, <3>2 DEF MovedOn
    <3> QED
      BY <2>1, <3>2, <3>3, <3>4
  <2>4. ASSUME NEW t \in tickets, RunJobSucceeds(t) \/ RunJobFails(t)
        PROVE  Same(tickets')
    BY <2>3, <2>4 DEF RunJobSucceeds, RunJobFails
  <2>5. CASE tickets' \subseteq tickets
    BY <2>1, <2>5
  <2> HIDE DEF Same
  <2> QED
    BY <2>2, <2>4, <2>5 DEF Next, vars, ReceiveChores, ReceivePerson, OpenWindow,
       JoinWindow, OpenWindowTimerFails, TimerFires, PersonComplete, ExpireStale, Tick
<1>2. Init => JobInv
  BY DEF Init, JobInv
<1>3. IInv /\ IInv' /\ JobInv /\ [Next]_vars => JobInv'
  BY JobInvStep
<1>4. IInv /\ JobInv /\ [Next]_vars => [tickets # {} => Same(tickets')]_vars
  BY <1>1
<1> QED
  BY <1>2, <1>3, <1>4, Invariance, PTL DEF Spec, BatchOnlyMovesOn

-----------------------------------------------------------------------------
(* The refinement of Dispatch                                              *)

USE DEF D!dispatchVars

\* While tickets are outstanding the abstract batch has the chores of any of
\* them.
LEMMA BatchChoresOf ==
  ASSUME IInv, NEW t \in tickets
  PROVE  BatchChores = t.chores
<1>1. t.chores \in Chores
  BY DEF IInv, TypeOK, Ticket
<1>2. \A c \in Chores : (\E u \in tickets : u.chores = c) <=> c = t.chores
  BY DEF IInv, OneBatch
<1>3. (CHOOSE c \in Chores : \E u \in tickets : u.chores = c) = t.chores
  BY <1>1, <1>2
<1> QED
  BY <1>3 DEF BatchChores

\* A step that keeps the people outstanding and their chores keeps the
\* abstract batch.
LEMMA SameBatch ==
  ASSUME IInv, IInv',
         \A u \in tickets' : \E v \in tickets : u.person = v.person /\ u.chores = v.chores,
         Batch' = Batch
  PROVE  BatchChores' = BatchChores
<1>1. CASE tickets = {}
  <2>1. tickets' = {}
    BY <1>1 DEF Batch
  <2> QED
    BY <1>1, <2>1 DEF BatchChores
<1>2. CASE tickets # {}
  <2>1. PICK t \in tickets : TRUE
    BY <1>2
  <2>2. PICK u \in tickets' : u.person = t.person
    BY DEF Batch
  <2>3. PICK v \in tickets : u.person = v.person /\ u.chores = v.chores
    OBVIOUS
  <2>4. BatchChores = v.chores
    BY BatchChoresOf
  <2>5. BatchChores' = u.chores
    <3>1. u.chores \in Chores
      BY DEF IInv, TypeOK, Ticket
    <3>2. \A c \in Chores : (\E w \in tickets' : w.chores = c) <=> c = u.chores
      BY <3>1 DEF IInv, OneBatch
    <3>3. (CHOOSE c \in Chores : \E w \in tickets' : w.chores = c) = u.chores
      BY <3>1, <3>2
    <3> QED
      BY <3>3 DEF BatchChores
  <2> QED
    BY <2>3, <2>4, <2>5
<1> QED
  BY <1>1, <1>2

-----------------------------------------------------------------------------
LEMMA GatherStep ==
  ASSUME IInv, NEW p \in People, NEW a \in Availability, ReceivePerson(p, a)
  PROVE  D!Gather(p)
<1>1. /\ UNCHANGED <<latestChores, tickets>>
      /\ Gathering' = Gathering \cup {p}
  <2>1. CASE OpenWindow(p, a)
    <3>1. currentWindow' # None
      BY <2>1, WindowIsNotNone, JoinType, EmptyWindowType
         DEF OpenWindow, IInv, TypeOK
    <3> QED
      BY <2>1, <3>1 DEF OpenWindow, MayOpen, Gathering, Join, EmptyWindow
  <2>2. CASE JoinWindow(p, a)
    <3>1. currentWindow' # None
      BY <2>2, WindowIsNotNone, JoinType DEF JoinWindow, IInv, TypeOK
    <3> QED
      BY <2>2, <3>1 DEF JoinWindow, Gathering, Join
  <2> QED
    BY <2>1, <2>2 DEF ReceivePerson
<1> QED
  BY <1>1 DEF D!Gather, Batch, BatchChores

LEMMA DropStep ==
  ASSUME IInv, NEW t \in timers, TimerFires(t), ~CanSubmit
  PROVE  D!Drop \/ UNCHANGED D!dispatchVars
<1>1. /\ UNCHANGED <<latestChores, tickets>>
      /\ currentWindow # None
      /\ Gathering' = {}
  BY DEF TimerFires, IInv, TimerOwnsWindow, Gathering
<1>2. CASE DOMAIN currentWindow.pending = {}
  BY <1>1, <1>2 DEF Gathering, Batch, BatchChores
<1>3. CASE latestChores = None
  BY <1>1, <1>3 DEF D!Drop, Batch, BatchChores
<1>4. CASE activeFilterCount # 0
  <2>1. tickets # {}
    BY <1>4, FS_EmptySet DEF IInv, ActiveCountsTickets
  <2>2. Batch # {}
    BY <2>1 DEF Batch
  <2> QED
    BY <1>1, <2>2 DEF D!Drop, Batch, BatchChores
<1> QED
  BY <1>1, <1>2, <1>3, <1>4 DEF CanSubmit

LEMMA RunStep ==
  ASSUME IInv, IInv', NEW t \in timers, TimerFires(t), CanSubmit
  PROVE  \E S \in (SUBSET Gathering) \ {{}} : D!Run(S)
<1> DEFINE W == currentWindow.pending
           chosen == ChoosePeople(personLastSelected, W, MaxActive)
<1>1. IsSelection(personLastSelected, W) /\ Gathering = DOMAIN W
  BY WindowIsSelection DEF CanSubmit, IInv, Gathering
<1>2. /\ chosen \subseteq DOMAIN W
      /\ Cardinality(chosen) <= MaxActive
      /\ chosen # DOMAIN W => Cardinality(chosen) = MaxActive
      /\ chosen # {}
  BY <1>1, ChooseAtMost, ChooseIsFull, ChooseNonempty, ConfigAssumption
     DEF CanSubmit
<1>3. tickets = {}
  BY FS_EmptySet DEF CanSubmit, IInv, ActiveCountsTickets
<1>4. PICK started : tickets' = {NewTicket(p, started) : p \in chosen}
  BY <1>3 DEF TimerFires, Submit
<1> HIDE DEF chosen
<1>5. \A p \in chosen : /\ NewTicket(p, started).person = p
                        /\ NewTicket(p, started).chores = latestChores
  BY DEF NewTicket
<1>6. Batch = {} /\ Batch' = chosen
  BY <1>3, <1>4, <1>5 DEF Batch
<1>7. BatchChores' = latestChores
  <2>1. latestChores \in Chores
    BY DEF CanSubmit, IInv, TypeOK
  <2>2. tickets' # {}
    BY <1>2, <1>4
  <2>3. \A c \in Chores : (\E u \in tickets' : u.chores = c) <=> c = latestChores
    BY <1>4, <1>5, <2>2
  <2>4. (CHOOSE c \in Chores : \E u \in tickets' : u.chores = c) = latestChores
    BY <2>1, <2>3
  <2> QED
    BY <2>2, <2>4 DEF BatchChores
<1>8. latestChores # None /\ latestChores' = latestChores /\ Gathering' = {}
  BY DEF CanSubmit, TimerFires, Gathering
<1>9. D!Cardinality(chosen) = Cardinality(chosen)
  BY DEF D!Cardinality, Cardinality
<1>10. D!Run(chosen)
  BY <1>1, <1>2, <1>6, <1>7, <1>8, <1>9 DEF D!Run
<1> QED
  BY <1>1, <1>2, <1>10

LEMMA FinishStep ==
  ASSUME IInv, IInv', NEW t \in tickets, NEW status \in TicketStatus,
         Finish(t, status), UNCHANGED <<latestChores, currentWindow>>
  PROVE  UNCHANGED D!dispatchVars
<1> DEFINE J == JobOf(t)
           Ended(u) == [u EXCEPT !.status = status]
<1>1. J \subseteq tickets /\ tickets \subseteq Ticket
  BY DEF JobOf, IInv, TypeOK
<1>2. tickets' = (tickets \ J) \cup {Ended(u) : u \in J}
  BY DEF Finish
<1> HIDE DEF J
<1>3. \A u \in tickets : Ended(u).person = u.person /\ Ended(u).chores = u.chores
  BY <1>1 DEF Ticket
<1> HIDE DEF Ended
<1>4. Batch' = Batch
  BY <1>1, <1>2, <1>3 DEF Batch
<1>5. \A u \in tickets' : \E v \in tickets : u.person = v.person /\ u.chores = v.chores
  BY <1>1, <1>2, <1>3
<1> QED
  BY <1>4, <1>5, SameBatch DEF Gathering

LEMMA CompleteStep ==
  ASSUME IInv, IInv', NEW t \in tickets, NEW now, PersonComplete(t, now)
  PROVE  D!Complete(t.person)
<1>1. /\ UNCHANGED <<latestChores, currentWindow>>
      /\ tickets' = tickets \ {t}
  BY DEF PersonComplete
<1>2. t.person \in Batch /\ Batch' = Batch \ {t.person}
  BY <1>1 DEF Batch, IInv, OneBatch
<1>3. BatchChores' = IF Batch' = {} THEN None ELSE BatchChores
  <2>1. CASE tickets' = {}
    BY <2>1 DEF Batch, BatchChores
  <2>2. CASE tickets' # {}
    <3>1. PICK u \in tickets' : TRUE
      BY <2>2
    <3>2. u \in tickets /\ u.chores \in Chores
      BY <1>1 DEF IInv, TypeOK, Ticket
    <3>3. BatchChores = u.chores
      BY <3>2, BatchChoresOf
    <3>4. \A c \in Chores : (\E w \in tickets' : w.chores = c) <=> c = u.chores
      BY <3>2 DEF IInv, OneBatch
    <3>5. (CHOOSE c \in Chores : \E w \in tickets' : w.chores = c) = u.chores
      BY <3>2, <3>4
    <3> QED
      BY <2>2, <3>1, <3>3, <3>5 DEF Batch, BatchChores
  <2> QED
    BY <2>1, <2>2
<1> QED
  BY <1>1, <1>2, <1>3 DEF D!Complete, Gathering

-----------------------------------------------------------------------------
LEMMA RefineInit == Init => D!DispatchInit
  BY DEF Init, D!DispatchInit, Gathering, Batch, BatchChores

LEMMA RefineNext == IInv /\ IInv' /\ [Next]_vars => [D!DispatchNext]_D!dispatchVars
<1> SUFFICES ASSUME IInv, IInv', [Next]_vars
             PROVE  D!DispatchNext \/ UNCHANGED D!dispatchVars
  OBVIOUS
<1> USE DEF D!DispatchNext
<1>1. ASSUME NEW c \in Chores, ReceiveChores(c) PROVE D!NewChores(c)
  BY <1>1 DEF ReceiveChores, D!NewChores, Gathering, Batch, BatchChores
<1>2. ASSUME NEW p \in People, NEW a \in Availability, ReceivePerson(p, a)
      PROVE  D!Gather(p)
  BY <1>2, GatherStep
<1>3. CASE OpenWindowTimerFails
  BY <1>3 DEF OpenWindowTimerFails, MayOpen, EmptyWindow, Gathering, Batch,
     BatchChores
<1>4. ASSUME NEW t \in timers, TimerFires(t)
      PROVE  D!DispatchNext \/ UNCHANGED D!dispatchVars
  <2>1. CASE CanSubmit
    BY <1>4, <2>1, RunStep
  <2>2. CASE ~CanSubmit
    BY <1>4, <2>2, DropStep
  <2> QED
    BY <2>1, <2>2
<1>5. ASSUME NEW t \in tickets, RunJobSucceeds(t) \/ RunJobFails(t)
      PROVE  UNCHANGED D!dispatchVars
  BY <1>5, FinishStep DEF RunJobSucceeds, RunJobFails, TicketStatus
<1>6. ASSUME NEW t \in tickets, NEW now \in t.at..clock, PersonComplete(t, now)
      PROVE  D!Complete(t.person) /\ t.person \in Batch
  BY <1>6, CompleteStep DEF Batch
<1>7. ASSUME NEW now \in 1..clock, ExpireStale(now) PROVE UNCHANGED D!dispatchVars
  BY <1>7 DEF ExpireStale, Gathering, Batch, BatchChores
<1>8. CASE Tick
  BY <1>8 DEF Tick, Gathering, Batch, BatchChores
<1>9. CASE UNCHANGED vars
  BY <1>9 DEF vars, Gathering, Batch, BatchChores
<1> QED
  BY <1>1, <1>2, <1>3, <1>4, <1>5, <1>6, <1>7, <1>8, <1>9 DEF Next

\* The Python orchestrator implements the abstract orchestrator: whatever the
\* order of its threads, and whichever of them fail, a window is run as one
\* full batch with the chores of that moment or dropped for one of the two
\* reasons Dispatch allows.
THEOREM Refinement == Spec => ImplementsDispatch
<1> QED
  BY Invariance, RefineInit, RefineNext, PTL
     DEF Spec, ImplementsDispatch, D!DispatchSpec

-----------------------------------------------------------------------------
(* People take turns                                                       *)

\* While a window is open nobody is selected, and whoever was run ahead of a
\* person has the later selection.
TurnsInv ==
  /\ currentWindow # None =>
       \A p \in DOMAIN personLastSelected : personLastSelected[p] <= currentWindow.opened
  /\ \A qp \in overtook :
       /\ qp[1] \in DOMAIN personLastSelected
       /\ LastSelected(personLastSelected, qp[2]) < personLastSelected[qp[1]]

\* What a step does to the history: a flush that submits stamps the people it
\* runs with the clock, every other step only takes entries away.
LEMMA SubmissionStep ==
  ASSUME IInv, NEW t \in timers, TimerFires(t), CanSubmit
  PROVE  LET chosen == ChoosePeople(personLastSelected, currentWindow.pending, MaxActive)
         IN  /\ IsSubmission
             /\ Ran = chosen
             /\ Passed = DOMAIN currentWindow.pending \ chosen
             /\ personLastSelected' = StampAll(personLastSelected, chosen, clock)
             /\ currentWindow' = None
             /\ currentWindow.opened < clock
<1> DEFINE W == currentWindow.pending
           chosen == ChoosePeople(personLastSelected, W, MaxActive)
<1>1. chosen # {}
  BY WindowIsSelection, ChooseNonempty, ConfigAssumption DEF CanSubmit, IInv
<1>2. tickets = {}
  BY FS_EmptySet DEF CanSubmit, IInv, ActiveCountsTickets
<1>3. PICK started : tickets' = {NewTicket(p, started) : p \in chosen}
  BY <1>2 DEF TimerFires, Submit
<1>4. personLastSelected' = StampAll(personLastSelected, chosen, clock)
  BY DEF TimerFires, Submit
<1> HIDE DEF chosen
<1>5. \A p : NewTicket(p, started).person = p
  BY DEF NewTicket
<1>6. tickets' # {} /\ Ran = chosen
  BY <1>1, <1>2, <1>3, <1>5 DEF Ran
<1>7. currentWindow' = None /\ currentWindow.opened < clock
  <2>1. t = currentWindow.opened /\ t \in Nat /\ clock >= t + GatherWindow
    BY DEF TimerFires, IInv, TypeOK, TimerOwnsWindow
  <2> QED
    BY <2>1, ConfigAssumption DEF TimerFires, IInv, TypeOK
<1> QED
  BY <1>2, <1>4, <1>6, <1>7 DEF chosen, Passed, CanSubmit, IsSubmission

LEMMA OtherStep ==
  ASSUME IInv, [Next]_vars, ~\E t \in timers : TimerFires(t) /\ CanSubmit
  PROVE  /\ ~IsSubmission
         /\ DOMAIN personLastSelected' \subseteq DOMAIN personLastSelected
         /\ \A p \in DOMAIN personLastSelected' :
              personLastSelected'[p] = personLastSelected[p]
         /\ currentWindow' # None =>
              \/ currentWindow # None /\ currentWindow'.opened = currentWindow.opened
              \/ currentWindow'.opened = clock
<1> USE DEF IInv
<1>1. ASSUME NEW p \in People, NEW a \in Availability, ReceivePerson(p, a)
      PROVE  /\ UNCHANGED <<tickets, personLastSelected>>
             /\ \/ currentWindow # None /\ currentWindow'.opened = currentWindow.opened
                \/ currentWindow'.opened = clock
  BY <1>1 DEF ReceivePerson, OpenWindow, JoinWindow, Join, EmptyWindow
<1>2. CASE OpenWindowTimerFails
  BY <1>2 DEF OpenWindowTimerFails, EmptyWindow, IsSubmission
<1>3. ASSUME NEW t \in timers, TimerFires(t)
      PROVE  UNCHANGED <<tickets, personLastSelected>> /\ currentWindow' = None
  BY <1>3 DEF TimerFires
<1>4. ASSUME NEW t \in tickets, RunJobSucceeds(t) \/ RunJobFails(t)
      PROVE  UNCHANGED <<currentWindow, personLastSelected>> /\ tickets # {}
  BY <1>4 DEF RunJobSucceeds, RunJobFails
<1>5. ASSUME NEW t \in tickets, NEW now, PersonComplete(t, now)
      PROVE  /\ tickets # {} /\ currentWindow' = currentWindow
             /\ DOMAIN personLastSelected' \subseteq DOMAIN personLastSelected
             /\ \A p \in DOMAIN personLastSelected' :
                  personLastSelected'[p] = personLastSelected[p]
  <2> DEFINE kept == IF t.status = "failed"
                       THEN Forget(personLastSelected, t.person)
                       ELSE personLastSelected
  <2>1. /\ DOMAIN kept \subseteq DOMAIN personLastSelected
        /\ kept \in [DOMAIN kept -> Nat]
        /\ \A p \in DOMAIN kept : kept[p] = personLastSelected[p]
    BY ForgetType DEF TypeOK
  <2>2. personLastSelected' = Prune(kept, now, HistoryTTL)
    BY <1>5 DEF PersonComplete
  <2> HIDE DEF kept
  <2> QED
    BY <1>5, <2>1, <2>2, PruneType DEF PersonComplete
<1>6. ASSUME NEW now, ExpireStale(now)
      PROVE  /\ UNCHANGED <<tickets, currentWindow>>
             /\ DOMAIN personLastSelected' \subseteq DOMAIN personLastSelected
             /\ \A p \in DOMAIN personLastSelected' :
                  personLastSelected'[p] = personLastSelected[p]
  BY <1>6, PruneType DEF ExpireStale, TypeOK
<1> QED
  BY <1>1, <1>2, <1>3, <1>4, <1>5, <1>6 DEF Next, vars, ReceiveChores, Tick, IsSubmission

LEMMA TurnsStep ==
  ASSUME IInv, TurnsInv, Next, Record
  PROVE  TurnsInv'
<1> DEFINE last == personLastSelected
           Ordered(l, qp) == /\ qp[1] \in DOMAIN l
                             /\ LastSelected(l, qp[2]) < l[qp[1]]
<1>1. /\ \A p \in DOMAIN last : last[p] \in Nat /\ last[p] <= clock
      /\ clock \in Nat \ {0}
  BY DEF IInv, TypeOK, PastInv
<1>2. ASSUME NEW t \in timers, TimerFires(t), CanSubmit
      PROVE  TurnsInv'
  <2> DEFINE chosen == ChoosePeople(last, currentWindow.pending, MaxActive)
  <2>1. /\ IsSubmission
        /\ Ran = chosen
        /\ last' = StampAll(last, chosen, clock)
        /\ currentWindow' = None
        /\ currentWindow.opened < clock
    BY <1>2, SubmissionStep
  <2> HIDE DEF chosen
  <2>2. /\ DOMAIN last' = DOMAIN last \cup chosen
        /\ \A p \in DOMAIN last' : last'[p] = IF p \in chosen THEN clock ELSE last[p]
    BY <2>1 DEF StampAll
  <2>3. \A p \in DOMAIN last : last[p] < clock
    <3>1. currentWindow # None /\ currentWindow.opened \in Nat
      BY <1>2 DEF CanSubmit, IInv, TypeOK, IsPersonWindow
    <3> QED
      BY <1>1, <2>1, <3>1 DEF TurnsInv
  <2>4. ASSUME NEW q \in chosen, NEW p, p \notin chosen
        PROVE  Ordered(last', <<q, p>>)
    BY <1>1, <2>2, <2>3, <2>4 DEF LastSelected, NeverSelected
  <2>5. ASSUME NEW qp \in overtook, qp[2] \notin chosen PROVE Ordered(last', qp)
    <3>1. Ordered(last, qp)
      BY DEF TurnsInv
    <3>2. LastSelected(last', qp[2]) = LastSelected(last, qp[2])
      BY <2>2, <2>5 DEF LastSelected
    <3>3. last'[qp[1]] \in {last[qp[1]], clock} /\ qp[1] \in DOMAIN last'
      BY <2>2, <3>1
    <3>4. LastSelected(last, qp[2]) < clock
      BY <1>1, <2>3 DEF LastSelected, NeverSelected
    <3> QED
      BY <3>1, <3>2, <3>3, <3>4
  <2>6. \A qp \in overtook' : Ordered(last', qp)
    <3> SUFFICES ASSUME NEW qp \in overtook' PROVE Ordered(last', qp)
      OBVIOUS
    <3>1. /\ qp \in overtook \cup (Ran \X Passed)
          /\ qp[2] \notin Ran
      BY <2>1 DEF Record
    <3>2. CASE qp \in overtook
      BY <2>1, <2>5, <3>1, <3>2
    <3>3. CASE qp \in Ran \X Passed
      <4>1. PICK q \in Ran, p \in Passed : qp = <<q, p>>
        BY <3>3
      <4> QED
        BY <2>1, <2>4, <3>1, <4>1
    <3> QED
      BY <3>1, <3>2, <3>3
  <2> QED
    BY <2>1, <2>6 DEF TurnsInv
<1>3. ASSUME ~\E t \in timers : TimerFires(t) /\ CanSubmit
      PROVE  TurnsInv'
  <2>1. /\ ~IsSubmission
        /\ DOMAIN last' \subseteq DOMAIN last
        /\ \A p \in DOMAIN last' : last'[p] = last[p]
        /\ currentWindow' # None =>
             \/ currentWindow # None /\ currentWindow'.opened = currentWindow.opened
             \/ currentWindow'.opened = clock
    BY <1>3, OtherStep
  <2>2. ASSUME NEW qp \in overtook' PROVE Ordered(last', qp)
    <3>1. qp \in overtook /\ qp[1] \in DOMAIN last'
      BY <2>1 DEF Record
    <3>2. Ordered(last, qp)
      BY <3>1 DEF TurnsInv
    <3> QED
      BY <1>1, <2>1, <3>1, <3>2 DEF LastSelected, NeverSelected
  <2>3. currentWindow' # None =>
          \A p \in DOMAIN last' : last'[p] <= currentWindow'.opened
    BY <1>1, <2>1 DEF TurnsInv
  <2> QED
    BY <2>2, <2>3 DEF TurnsInv
<1> QED
  BY <1>2, <1>3

\* People take turns, for any number of them and any history: nobody is run
\* ahead of the same person twice while the first selection is remembered and
\* the person has not run.  An overtaken person has the older selection or none,
\* so it sorts before the other one and is chosen whenever the other is.
THEOREM NobodyOvertakesTwice == SpecRotation => NoSecondOvertake
<1> DEFINE Again == \E qp \in overtook :
                      IsSubmission /\ qp[1] \in Ran /\ qp[2] \in Passed
<1>1. SpecRotation => Spec
  <2>1. InitRotation => Init
    BY DEF InitRotation
  <2>2. [Next /\ Record]_<<vars, overtook>> => [Next]_vars
    BY DEF vars
  <2> QED
    BY <2>1, <2>2, PTL DEF SpecRotation, Spec
<1>2. InitRotation => TurnsInv
  BY DEF InitRotation, Init, TurnsInv
<1>3. IInv /\ TurnsInv /\ [Next /\ Record]_<<vars, overtook>> => TurnsInv'
  <2>1. TurnsInv /\ UNCHANGED <<vars, overtook>> => TurnsInv'
    BY DEF TurnsInv, vars
  <2> QED
    BY <2>1, TurnsStep
<1>4. IInv /\ TurnsInv /\ [Next /\ Record]_<<vars, overtook>> => ~Again
  <2> SUFFICES ASSUME IInv, TurnsInv, [Next]_vars, Again
               PROVE  FALSE
    BY DEF vars
  <2>1. PICK t \in timers : TimerFires(t) /\ CanSubmit
    BY OtherStep
  <2> DEFINE W == currentWindow.pending
             chosen == ChoosePeople(personLastSelected, W, MaxActive)
  <2>2. Ran = chosen /\ Passed = DOMAIN W \ chosen
    BY <2>1, SubmissionStep
  <2>3. PICK qp \in overtook : qp[1] \in chosen /\ qp[2] \in DOMAIN W \ chosen
    BY <2>2
  <2>4. LastSelected(personLastSelected, qp[2]) < LastSelected(personLastSelected, qp[1])
    BY DEF TurnsInv, LastSelected
  <2>5. IsSelection(personLastSelected, W)
    BY <2>1, WindowIsSelection DEF CanSubmit, IInv
  <2>6. qp[1] \in DOMAIN W /\ Rank(personLastSelected, W, qp[1]) < MaxActive
    BY <2>3 DEF ChoosePeople
  <2>7. Rank(personLastSelected, W, qp[2]) < Rank(personLastSelected, W, qp[1])
    BY <2>3, <2>4, <2>5, <2>6, RankMonotone DEF Before
  <2>8. /\ Rank(personLastSelected, W, qp[2]) \in Nat
        /\ Rank(personLastSelected, W, qp[1]) \in Nat
    BY <2>5, AheadFinite
  <2>9. Rank(personLastSelected, W, qp[2]) < MaxActive
    BY <2>6, <2>7, <2>8, ConfigAssumption
  <2> QED
    BY <2>3, <2>9 DEF ChoosePeople
<1>5. IInv /\ TurnsInv /\ [Next /\ Record]_<<vars, overtook>>
        => [\A qp \in overtook :
              ~(IsSubmission /\ qp[1] \in Ran /\ qp[2] \in Passed)]_<<vars, overtook>>
  BY <1>4
<1> QED
  BY <1>1, <1>2, <1>3, <1>5, Invariance, PTL DEF SpecRotation, NoSecondOvertake

-----------------------------------------------------------------------------
(* The demo as a whole: what is on the keys                                *)

Message == [person : People, availability : 1..MaxCycles]

KeysOK ==
  /\ cycle \in 0..MaxCycles
  /\ unsent # {} => cycle # 0
  /\ unsent \subseteq People
  /\ choresKey \in Seq(1..MaxCycles)
  /\ personKey \in Seq(Message)
  /\ summaryKey \in Seq(Summary)
  /\ consumed \in Summary \cup {None}

\* No cycle overtakes another on the way from the producer to the consumer:
\* the cycles on the chores key, of the latest chores, of the outstanding
\* batch, of the last summary, on the summary key and of the last summary
\* consumed follow each other.
CycleInv ==
  /\ \A i \in DOMAIN choresKey :
       /\ choresKey[i] <= cycle
       /\ \A k \in DOMAIN choresKey : i < k => choresKey[i] <= choresKey[k]
  /\ latestChores # None =>
       /\ latestChores \in 1..cycle
       /\ \A i \in DOMAIN choresKey : latestChores <= choresKey[i]
  /\ \A t \in tickets :
       latestChores # None /\ t.chores \in Nat /\ t.chores <= latestChores
  /\ lastSummary # None =>
       /\ latestChores # None
       /\ lastSummary.chores \in Nat /\ lastSummary.chores <= latestChores
       /\ \A t \in tickets : lastSummary.chores <= t.chores
  /\ \A i \in DOMAIN summaryKey :
       /\ lastSummary # None
       /\ summaryKey[i].chores \in Nat /\ summaryKey[i].chores <= lastSummary.chores
       /\ \A k \in DOMAIN summaryKey :
            i < k => summaryKey[i].chores <= summaryKey[k].chores
  /\ consumed # None =>
       /\ lastSummary # None
       /\ consumed.chores \in Nat /\ consumed.chores <= lastSummary.chores
       /\ \A i \in DOMAIN summaryKey : consumed.chores <= summaryKey[i].chores

\* Every message of p that is still to come is of a later cycle than a.
Older(p, a) ==
  /\ a \in 0..cycle
  /\ p \in unsent => a < cycle
  /\ \A i \in DOMAIN personKey :
       personKey[i].person = p => a < personKey[i].availability

\* The messages of one person are put, delivered and selected in the order of
\* the cycles.
PersonKeyInv ==
  \A i \in DOMAIN personKey :
    /\ personKey[i].availability \in 0..cycle
    /\ personKey[i].person \in unsent => personKey[i].availability < cycle
    /\ \A k \in DOMAIN personKey :
         i < k /\ personKey[i].person = personKey[k].person =>
           personKey[i].availability < personKey[k].availability

MessageInv ==
  /\ PersonKeyInv
  /\ currentWindow # None =>
       \A p \in DOMAIN currentWindow.pending :
         Older(p, currentWindow.pending[p].availability)
  /\ \A m \in selected :
       /\ Older(m[1], m[2])
       /\ currentWindow # None /\ m[1] \in DOMAIN currentWindow.pending =>
            m[2] < currentWindow.pending[m[1]].availability

\* The window of the coordinator is a summary of what was heard since the last
\* flush: everybody who was heard, each with its last message and the place of it.
HeardInv ==
  /\ heard \in Seq(Message)
  /\ currentWindow = None => heard = <<>>
  /\ currentWindow # None =>
       /\ Len(heard) = currentWindow.seq
       /\ \A j \in DOMAIN heard : heard[j].person \in DOMAIN currentWindow.pending
       /\ \A p \in DOMAIN currentWindow.pending :
            LET last == currentWindow.pending[p].seq
            IN  /\ last \in DOMAIN heard
                /\ heard[last].person = p
                /\ heard[last].availability = currentWindow.pending[p].availability
                /\ \A j \in DOMAIN heard : heard[j].person = p => j <= last

PipelineInv == IInv /\ KeysOK /\ CycleInv /\ MessageInv /\ HeardInv

\* What put() makes of a key.
LEMMA PutOnKey ==
  ASSUME NEW S, NEW key \in Seq(S), NEW m \in S, NEW next \in Put(key, m)
  PROVE  /\ next \in Seq(S)
         /\ \A i \in DOMAIN next :
              \/ i \in DOMAIN key /\ next[i] = key[i]
              \/ i = Len(key) + 1 /\ next[i] = m
         /\ \A i \in DOMAIN key : i \in Nat /\ i <= Len(key)
         /\ Len(key) \in Nat
<1>1. /\ Append(key, m) \in Seq(S)
      /\ \A i \in DOMAIN Append(key, m) :
           \/ i \in DOMAIN key /\ Append(key, m)[i] = key[i]
           \/ i = Len(key) + 1 /\ Append(key, m)[i] = m
  OBVIOUS
<1>2. next = key \/ next = Append(key, m)
  BY DEF Put
<1> QED
  BY <1>1, <1>2

\* The hand-over of the first message.
LEMMA TakeFromKey ==
  ASSUME NEW S, NEW key \in Seq(S), key # <<>>
  PROVE  /\ Head(key) \in S /\ 1 \in DOMAIN key /\ Head(key) = key[1]
         /\ Tail(key) \in Seq(S)
         /\ \A i \in DOMAIN Tail(key) :
              /\ i \in Nat /\ 1 < i + 1
              /\ i + 1 \in DOMAIN key
              /\ Tail(key)[i] = key[i + 1]
OBVIOUS

LEMMA PipelineIsNext == KeysOK /\ [PipelineNext]_pipelineVars => [Next]_vars
<1> SUFFICES ASSUME KeysOK, [PipelineNext]_pipelineVars PROVE [Next]_vars
  OBVIOUS
<1>1. CASE DeliverChores
  <2>1. Head(choresKey) \in 1..MaxCycles
    BY <1>1, TakeFromKey DEF DeliverChores, KeysOK
  <2> QED
    BY <1>1, <2>1, CycleAssumption DEF DeliverChores, Next
<1>2. CASE DeliverPerson
  <2>1. Head(personKey) \in Message
    BY <1>2, TakeFromKey DEF DeliverPerson, KeysOK
  <2>2. Head(personKey).person \in People /\ Head(personKey).availability \in Availability
    BY <2>1, CycleAssumption DEF Message
  <2> QED
    BY <1>2, <2>2 DEF DeliverPerson, Next
<1>3. CASE Flush \/ Publish \/ OrchestratorAlone
  BY <1>3 DEF Flush, Publish, OrchestratorAlone, Next
<1>4. CASE PutChores \/ (\E p \in People : PutPerson(p)) \/ Consume
  BY <1>4 DEF PutChores, PutPerson, Consume
<1>5. CASE UNCHANGED pipelineVars
  BY <1>5 DEF pipelineVars
<1> QED
  BY <1>1, <1>2, <1>3, <1>4, <1>5 DEF PipelineNext

LEMMA KeysStep == IInv /\ IInv' /\ KeysOK /\ [PipelineNext]_pipelineVars => KeysOK'
<1> SUFFICES ASSUME IInv, IInv', KeysOK, [PipelineNext]_pipelineVars PROVE KeysOK'
  OBVIOUS
<1> USE CycleAssumption DEF KeysOK
<1>1. CASE PutChores
  <2>1. cycle' \in 1..MaxCycles /\ choresKey' \in Put(choresKey, cycle')
    BY <1>1 DEF PutChores
  <2>2. choresKey' \in Seq(1..MaxCycles)
    BY <2>1, PutOnKey
  <2> QED
    BY <1>1, <2>1, <2>2 DEF PutChores
<1>2. ASSUME NEW p \in People, PutPerson(p) PROVE KeysOK'
  <2>1. cycle \in 1..MaxCycles
    BY <1>2 DEF PutPerson
  <2>2. [person |-> p, availability |-> cycle] \in Message
    BY <2>1 DEF Message
  <2>3. personKey' \in Put(personKey, [person |-> p, availability |-> cycle])
    BY <1>2 DEF PutPerson
  <2>4. personKey' \in Seq(Message)
    BY <2>2, <2>3, PutOnKey
  <2> QED
    BY <1>2, <2>1, <2>4 DEF PutPerson
<1>3. CASE DeliverChores
  BY <1>3, TakeFromKey DEF DeliverChores
<1>4. CASE DeliverPerson
  BY <1>4, TakeFromKey DEF DeliverPerson
<1>5. CASE Publish
  <2>1. lastSummary' \in Summary
    BY <1>5, RunJobSucceedsInv DEF Publish
  <2>2. summaryKey' \in Seq(Summary)
    BY <1>5, <2>1, PutOnKey DEF Publish
  <2> QED
    BY <1>5, <2>2 DEF Publish
<1>6. CASE Consume
  BY <1>6, TakeFromKey DEF Consume
<1>7. CASE Flush \/ OrchestratorAlone \/ UNCHANGED pipelineVars
  BY <1>7 DEF Flush, OrchestratorAlone, pipelineVars, network, keys
<1> QED
  BY <1>1, <1>2, <1>3, <1>4, <1>5, <1>6, <1>7 DEF PipelineNext

\* What the orchestrator does to the cycles it holds while no message is
\* delivered to it and none is published.
LEMMA CyclesHeld ==
  ASSUME IInv, KeysOK, CycleInv,
         DeliverPerson \/ Flush \/ OrchestratorAlone
  PROVE  /\ UNCHANGED <<latestChores, lastSummary, cycle, choresKey, summaryKey, consumed>>
         /\ \A u \in tickets' :
              \/ latestChores # None /\ u.chores = latestChores
              \/ \E v \in tickets : u.chores = v.chores
<1>1. CASE DeliverPerson
  BY <1>1 DEF DeliverPerson, ReceivePerson, OpenWindow, JoinWindow, OpenWindowTimerFails
<1>2. CASE Flush
  <2>1. PICK t \in timers : TimerFires(t)
    BY <1>2 DEF Flush
  <2>2. CASE CanSubmit
    <3>1. PICK started, chosen :
            tickets' = tickets \cup {NewTicket(p, started) : p \in chosen}
      BY <2>1, <2>2 DEF TimerFires, Submit
    <3>2. \A u \in tickets' : u \in tickets \/ u.chores = latestChores
      BY <3>1 DEF NewTicket
    <3> QED
      BY <1>2, <2>1, <2>2, <3>2 DEF TimerFires, CanSubmit, Flush, keys
  <2>3. CASE ~CanSubmit
    BY <1>2, <2>1, <2>3 DEF TimerFires, Flush, keys
  <2> QED
    BY <2>2, <2>3
<1>3. CASE OrchestratorAlone
  <2>1. ASSUME NEW t \in tickets, RunJobFails(t)
        PROVE  \A u \in tickets' : \E v \in tickets : u.chores = v.chores
    BY <2>1, FinishKeepsTickets DEF RunJobFails, TicketStatus
  <2>2. UNCHANGED <<latestChores, lastSummary, cycle, choresKey, summaryKey, consumed>>
    BY <1>3 DEF OrchestratorAlone, network, keys, RunJobFails, PersonComplete,
                ExpireStale, Tick
  <2>3. \/ \E t \in tickets : RunJobFails(t)
        \/ tickets' \subseteq tickets
    BY <1>3 DEF OrchestratorAlone, PersonComplete, ExpireStale, Tick
  <2> QED
    BY <2>1, <2>2, <2>3
<1> QED
  BY <1>1, <1>2, <1>3

LEMMA CycleStep ==
  IInv /\ KeysOK /\ KeysOK' /\ CycleInv /\ [PipelineNext]_pipelineVars => CycleInv'
<1> SUFFICES ASSUME IInv, KeysOK, KeysOK', CycleInv, [PipelineNext]_pipelineVars
             PROVE  CycleInv'
  OBVIOUS
<1>1. /\ cycle \in Nat /\ \A i \in DOMAIN choresKey : choresKey[i] \in Nat
      /\ choresKey \in Seq(1..MaxCycles) /\ summaryKey \in Seq(Summary)
  BY CycleAssumption DEF KeysOK
<1>2. CASE PutChores
  <2>1. /\ cycle' = cycle + 1 /\ choresKey' \in Put(choresKey, cycle')
        /\ UNCHANGED <<latestChores, tickets, lastSummary, summaryKey, consumed>>
    BY <1>2 DEF PutChores, vars
  <2>2. cycle' \in 1..MaxCycles
    BY <1>1, <2>1 DEF KeysOK
  <2>3. /\ \A i \in DOMAIN choresKey' :
             \/ i \in DOMAIN choresKey /\ choresKey'[i] = choresKey[i]
             \/ i = Len(choresKey) + 1 /\ choresKey'[i] = cycle'
        /\ \A i \in DOMAIN choresKey : i \in Nat /\ i <= Len(choresKey)
        /\ Len(choresKey) \in Nat
    <3> DEFINE S == 1..MaxCycles
               m == cycle'
    <3>1. m \in S /\ choresKey' \in Put(choresKey, m) /\ choresKey \in Seq(S)
      BY <1>1, <2>1, <2>2
    <3> HIDE DEF S, m
    <3>2. /\ \A i \in DOMAIN choresKey' :
               \/ i \in DOMAIN choresKey /\ choresKey'[i] = choresKey[i]
               \/ i = Len(choresKey) + 1 /\ choresKey'[i] = m
          /\ \A i \in DOMAIN choresKey : i \in Nat /\ i <= Len(choresKey)
          /\ Len(choresKey) \in Nat
      BY <3>1, PutOnKey
    <3> QED
      BY <3>2 DEF m
  <2>4. \A i \in DOMAIN choresKey' :
          /\ choresKey'[i] <= cycle'
          /\ \A k \in DOMAIN choresKey' : i < k => choresKey'[i] <= choresKey'[k]
    BY <1>1, <2>1, <2>3 DEF CycleInv
  <2>5. latestChores # None =>
          /\ latestChores \in 1..cycle'
          /\ \A i \in DOMAIN choresKey' : latestChores <= choresKey'[i]
    BY <1>1, <2>1, <2>3 DEF CycleInv
  <2> QED
    BY <2>1, <2>4, <2>5 DEF CycleInv
<1>3. CASE DeliverChores
  <2> DEFINE new == Head(choresKey)
  <2>1. /\ choresKey # <<>> /\ choresKey' = Tail(choresKey)
        /\ latestChores' = new
        /\ UNCHANGED <<tickets, lastSummary, cycle, summaryKey, consumed>>
    BY <1>3 DEF DeliverChores, ReceiveChores
  <2>2. /\ new \in 1..MaxCycles
        /\ 1 \in DOMAIN choresKey /\ new = choresKey[1]
        /\ \A i \in DOMAIN choresKey' :
             /\ i \in Nat /\ 1 < i + 1
             /\ i + 1 \in DOMAIN choresKey
             /\ choresKey'[i] = choresKey[i + 1]
    BY <1>1, <2>1, TakeFromKey
  <2>3. new # None /\ new \in 1..cycle /\ (latestChores # None => latestChores <= new)
    BY <1>1, <2>2, CycleAssumption, NoneAssumption DEF CycleInv
  <2>4. \A i \in DOMAIN choresKey' :
          /\ choresKey'[i] <= cycle
          /\ new <= choresKey'[i]
          /\ \A k \in DOMAIN choresKey' : i < k => choresKey'[i] <= choresKey'[k]
    BY <1>1, <2>2 DEF CycleInv
  <2> HIDE DEF new
  <2>5. \A t \in tickets : t.chores \in Nat /\ t.chores <= new
    BY <1>1, <2>3 DEF CycleInv
  <2>6. lastSummary # None => lastSummary.chores <= new
    BY <1>1, <2>3 DEF CycleInv
  <2> QED
    BY <2>1, <2>3, <2>4, <2>5, <2>6 DEF CycleInv
<1>4. CASE DeliverPerson \/ Flush \/ OrchestratorAlone
  <2>1. /\ UNCHANGED <<latestChores, lastSummary, cycle, choresKey, summaryKey, consumed>>
        /\ \A u \in tickets' :
             \/ latestChores # None /\ u.chores = latestChores
             \/ \E v \in tickets : u.chores = v.chores
    BY <1>4, CyclesHeld
  <2>2. \A u \in tickets' :
          /\ latestChores # None /\ u.chores \in Nat /\ u.chores <= latestChores
          /\ lastSummary # None => lastSummary.chores <= u.chores
    BY <1>1, <2>1 DEF CycleInv
  <2> QED
    BY <2>1, <2>2 DEF CycleInv
<1>5. CASE Publish
  <2>1. PICK t \in tickets : RunJobSucceeds(t)
    BY <1>5 DEF Publish
  <2>2. /\ lastSummary' \in Summary /\ lastSummary'.chores = t.chores
        /\ summaryKey' \in Put(summaryKey, lastSummary')
        /\ UNCHANGED <<latestChores, cycle, choresKey, consumed>>
    BY <1>5, <2>1, RunJobSucceedsInv DEF Publish, RunJobSucceeds
  <2>3. /\ lastSummary' # None
        /\ latestChores # None /\ latestChores \in Nat
        /\ t.chores \in Nat /\ t.chores <= latestChores
    BY <1>1, <2>2, NoneAssumption DEF CycleInv
  <2>4. \A u \in tickets' : u.chores = t.chores
    <3>1. \A u \in tickets' : \E v \in tickets : u.chores = v.chores
      BY <2>1, FinishKeepsTickets DEF RunJobSucceeds, TicketStatus
    <3> QED
      BY <3>1 DEF IInv, OneBatch
  <2>5. lastSummary # None => lastSummary.chores \in Nat /\ lastSummary.chores <= t.chores
    BY DEF CycleInv
  <2>6. /\ \A i \in DOMAIN summaryKey' :
             \/ i \in DOMAIN summaryKey /\ summaryKey'[i] = summaryKey[i]
             \/ i = Len(summaryKey) + 1 /\ summaryKey'[i] = lastSummary'
        /\ \A i \in DOMAIN summaryKey : i \in Nat /\ i <= Len(summaryKey)
        /\ Len(summaryKey) \in Nat
    BY <1>1, <2>2, PutOnKey
  <2>7. \A i \in DOMAIN summaryKey' :
          summaryKey'[i].chores \in Nat /\ summaryKey'[i].chores <= t.chores
    BY <2>2, <2>3, <2>5, <2>6 DEF CycleInv
  <2>8. \A i, k \in DOMAIN summaryKey' :
          i < k => summaryKey'[i].chores <= summaryKey'[k].chores
    BY <2>2, <2>3, <2>5, <2>6 DEF CycleInv
  <2>9. consumed # None =>
          /\ consumed.chores \in Nat /\ consumed.chores <= t.chores
          /\ \A i \in DOMAIN summaryKey' : consumed.chores <= summaryKey'[i].chores
    BY <2>2, <2>3, <2>5, <2>6 DEF CycleInv
  <2>10. \A i \in DOMAIN choresKey : latestChores <= choresKey[i]
    BY <2>3 DEF CycleInv
  <2> QED
    BY <2>2, <2>3, <2>4, <2>7, <2>8, <2>9 DEF CycleInv
<1>6. CASE Consume
  <2>1. /\ summaryKey # <<>> /\ summaryKey' = Tail(summaryKey)
        /\ consumed' = Head(summaryKey)
        /\ UNCHANGED <<latestChores, tickets, lastSummary, cycle, choresKey>>
    BY <1>6 DEF Consume, vars
  <2>2. /\ 1 \in DOMAIN summaryKey /\ consumed' = summaryKey[1]
        /\ \A i \in DOMAIN summaryKey' :
             /\ i \in Nat /\ 1 < i + 1
             /\ i + 1 \in DOMAIN summaryKey
             /\ summaryKey'[i] = summaryKey[i + 1]
    BY <1>1, <2>1, TakeFromKey
  <2>3. \A i \in DOMAIN summaryKey' :
          /\ summaryKey'[i].chores \in Nat /\ summaryKey'[i].chores <= lastSummary.chores
          /\ consumed'.chores <= summaryKey'[i].chores
          /\ \A k \in DOMAIN summaryKey' :
               i < k => summaryKey'[i].chores <= summaryKey'[k].chores
    BY <2>2 DEF CycleInv
  <2>4. /\ lastSummary # None
        /\ consumed'.chores \in Nat /\ consumed'.chores <= lastSummary.chores
    BY <2>2 DEF CycleInv
  <2> QED
    BY <2>1, <2>3, <2>4 DEF CycleInv
<1>7. ASSUME NEW p \in People, PutPerson(p) PROVE CycleInv'
  BY <1>7 DEF PutPerson, vars, CycleInv
<1>8. CASE UNCHANGED pipelineVars
  BY <1>8 DEF pipelineVars, vars, network, keys, CycleInv
<1> QED
  BY <1>2, <1>3, <1>4, <1>5, <1>6, <1>7, <1>8 DEF PipelineNext

-----------------------------------------------------------------------------
\* The steps that touch the messages under way.
LEMMA PersonKeySteps ==
  ASSUME KeysOK, [PipelineNext]_pipelineVars
  PROVE  \/ UNCHANGED <<cycle, unsent, personKey>>
         \/ cycle' = cycle + 1 /\ personKey' = personKey
         \/ \E p \in unsent :
              /\ cycle' = cycle /\ unsent' = unsent \ {p}
              /\ personKey' \in Put(personKey, [person |-> p, availability |-> cycle])
         \/ /\ UNCHANGED <<cycle, unsent>>
            /\ personKey # <<>> /\ personKey' = Tail(personKey)
BY DEF pipelineVars, network, keys, PipelineNext, PutChores, PutPerson,
       DeliverChores, DeliverPerson, Flush, Publish, OrchestratorAlone, Consume

LEMMA MessagePut ==
  ASSUME KeysOK, NEW p \in unsent,
         personKey' \in Put(personKey, [person |-> p, availability |-> cycle])
  PROVE  /\ \A i \in DOMAIN personKey' :
              \/ i \in DOMAIN personKey /\ personKey'[i] = personKey[i]
              \/ /\ i = Len(personKey) + 1
                 /\ personKey'[i].person = p /\ personKey'[i].availability = cycle
         /\ \A i \in DOMAIN personKey : i \in Nat /\ i <= Len(personKey)
         /\ Len(personKey) \in Nat
<1> DEFINE m == [person |-> p, availability |-> cycle]
<1>1. m \in Message
  BY CycleAssumption DEF KeysOK, Message
<1>2. personKey \in Seq(Message) /\ personKey' \in Put(personKey, m)
  BY DEF KeysOK
<1>3. m.person = p /\ m.availability = cycle
  OBVIOUS
<1> HIDE DEF m
<1>4. /\ \A i \in DOMAIN personKey' :
           \/ i \in DOMAIN personKey /\ personKey'[i] = personKey[i]
           \/ i = Len(personKey) + 1 /\ personKey'[i] = m
      /\ \A i \in DOMAIN personKey : i \in Nat /\ i <= Len(personKey)
      /\ Len(personKey) \in Nat
  BY <1>1, <1>2, PutOnKey
<1> QED
  BY <1>3, <1>4

LEMMA OlderKept ==
  ASSUME KeysOK, [PipelineNext]_pipelineVars, NEW p, NEW a, Older(p, a)
  PROVE  Older(p, a)'
<1>1. cycle \in Nat /\ personKey \in Seq(Message)
  BY CycleAssumption DEF KeysOK
<1>2. CASE UNCHANGED <<cycle, unsent, personKey>>
  BY <1>2 DEF Older
<1>3. CASE cycle' = cycle + 1 /\ personKey' = personKey
  BY <1>1, <1>3 DEF Older
<1>4. ASSUME NEW q \in unsent, cycle' = cycle, unsent' = unsent \ {q},
             personKey' \in Put(personKey, [person |-> q, availability |-> cycle])
      PROVE  Older(p, a)'
  <2>1. \A i \in DOMAIN personKey' :
          \/ i \in DOMAIN personKey /\ personKey'[i] = personKey[i]
          \/ /\ i = Len(personKey) + 1
             /\ personKey'[i].person = q /\ personKey'[i].availability = cycle
    BY <1>4, MessagePut
  <2> QED
    BY <1>4, <2>1 DEF Older
<1>5. CASE UNCHANGED <<cycle, unsent>> /\ personKey # <<>> /\ personKey' = Tail(personKey)
  <2>1. \A i \in DOMAIN personKey' :
          i + 1 \in DOMAIN personKey /\ personKey'[i] = personKey[i + 1]
    BY <1>1, <1>5, TakeFromKey
  <2> QED
    BY <1>5, <2>1 DEF Older
<1> QED
  BY <1>2, <1>3, <1>4, <1>5, PersonKeySteps

LEMMA PersonKeyStep ==
  ASSUME KeysOK, [PipelineNext]_pipelineVars, PersonKeyInv
  PROVE  PersonKeyInv'
<1>1. cycle \in Nat /\ personKey \in Seq(Message)
  BY CycleAssumption DEF KeysOK
<1>2. CASE UNCHANGED <<cycle, unsent, personKey>>
  BY <1>2 DEF PersonKeyInv
<1>3. CASE cycle' = cycle + 1 /\ personKey' = personKey
  BY <1>1, <1>3 DEF PersonKeyInv
<1>4. ASSUME NEW q \in unsent, cycle' = cycle, unsent' = unsent \ {q},
             personKey' \in Put(personKey, [person |-> q, availability |-> cycle])
      PROVE  PersonKeyInv'
  <2>1. /\ \A i \in DOMAIN personKey' :
             \/ i \in DOMAIN personKey /\ personKey'[i] = personKey[i]
             \/ /\ i = Len(personKey) + 1
                /\ personKey'[i].person = q /\ personKey'[i].availability = cycle
        /\ \A i \in DOMAIN personKey : i \in Nat /\ i <= Len(personKey)
        /\ Len(personKey) \in Nat
    BY <1>4, MessagePut
  <2>2. ASSUME NEW i \in DOMAIN personKey'
        PROVE  /\ personKey'[i].availability \in 0..cycle
               /\ personKey'[i].person \in unsent' => personKey'[i].availability < cycle
    BY <1>1, <1>4, <2>1 DEF PersonKeyInv
  <2>3. ASSUME NEW i \in DOMAIN personKey', NEW k \in DOMAIN personKey',
               i < k, personKey'[i].person = personKey'[k].person
        PROVE  personKey'[i].availability < personKey'[k].availability
    <3>1. i \in DOMAIN personKey /\ personKey'[i] = personKey[i]
      BY <2>1, <2>3
    <3>2. CASE k \in DOMAIN personKey /\ personKey'[k] = personKey[k]
      BY <2>3, <3>1, <3>2 DEF PersonKeyInv
    <3>3. CASE personKey'[k].person = q /\ personKey'[k].availability = cycle
      BY <2>3, <3>1, <3>3 DEF PersonKeyInv
    <3> QED
      BY <2>1, <3>2, <3>3
  <2> QED
    BY <1>4, <2>2, <2>3 DEF PersonKeyInv
<1>5. CASE UNCHANGED <<cycle, unsent>> /\ personKey # <<>> /\ personKey' = Tail(personKey)
  <2>1. \A i \in DOMAIN personKey' :
          i \in Nat /\ i + 1 \in DOMAIN personKey /\ personKey'[i] = personKey[i + 1]
    BY <1>1, <1>5, TakeFromKey
  <2> QED
    BY <1>5, <2>1 DEF PersonKeyInv
<1> QED
  BY <1>2, <1>3, <1>4, <1>5, PersonKeySteps

\* The message that is delivered is older than all that are still to come.
LEMMA DeliveredIsOlder ==
  ASSUME KeysOK, PersonKeyInv, personKey # <<>>, UNCHANGED <<cycle, unsent>>,
         personKey' = Tail(personKey),
         NEW p, p = Head(personKey).person,
         NEW a, a = Head(personKey).availability
  PROVE  /\ Older(p, a)'
         /\ \A b : Older(p, b) => b < a
<1>1. cycle \in Nat /\ personKey \in Seq(Message)
  BY CycleAssumption DEF KeysOK
<1>2. /\ 1 \in DOMAIN personKey /\ Head(personKey) = personKey[1]
      /\ \A i \in DOMAIN personKey' :
           /\ i \in Nat /\ 1 < i + 1
           /\ i + 1 \in DOMAIN personKey
           /\ personKey'[i] = personKey[i + 1]
  BY <1>1, TakeFromKey
<1>3. Older(p, a)'
  BY <1>2 DEF PersonKeyInv, Older
<1>4. \A b : Older(p, b) => b < a
  BY <1>2 DEF Older
<1> QED
  BY <1>3, <1>4

\* The messages a flush selects are those of people in the window.
LEMMA FlushedMessages ==
  ASSUME IInv, NEW t \in timers, TimerFires(t)
  PROVE  /\ currentWindow # None /\ currentWindow' = None
         /\ \A u \in tickets' \ tickets :
              /\ u.person \in DOMAIN currentWindow.pending
              /\ u.availability = currentWindow.pending[u.person].availability
<1>1. currentWindow # None /\ currentWindow' = None
  BY DEF TimerFires, IInv, TimerOwnsWindow
<1>2. CASE CanSubmit
  <2> DEFINE chosen == ChoosePeople(personLastSelected, currentWindow.pending, MaxActive)
  <2>1. PICK started : tickets' = tickets \cup {NewTicket(p, started) : p \in chosen}
    BY <1>2 DEF TimerFires, Submit
  <2>2. chosen \subseteq DOMAIN currentWindow.pending
    BY DEF ChoosePeople
  <2> HIDE DEF chosen
  <2> QED
    BY <1>1, <2>1, <2>2 DEF NewTicket
<1>3. CASE ~CanSubmit
  BY <1>1, <1>3 DEF TimerFires
<1> QED
  BY <1>2, <1>3

LEMMA MessageStep ==
  ASSUME IInv, IInv', KeysOK, MessageInv, [PipelineNext]_pipelineVars
  PROVE  MessageInv'
<1> DEFINE pending == currentWindow.pending
           next == currentWindow'.pending
           Later(p, a) ==
             /\ a \in 0..cycle'
             /\ p \in unsent' => a < cycle'
             /\ \A i \in DOMAIN personKey' :
                  personKey'[i].person = p => a < personKey'[i].availability
           WindowLater ==
             currentWindow' # None =>
               \A p \in DOMAIN next : Later(p, next[p].availability)
           SelectedLater ==
             \A m \in selected' :
               /\ Later(m[1], m[2])
               /\ currentWindow' # None /\ m[1] \in DOMAIN next =>
                    m[2] < next[m[1]].availability
<1>1. ASSUME NEW p, NEW a, Older(p, a) PROVE Later(p, a)
  BY <1>1, OlderKept DEF Older
<1>2. SUFFICES WindowLater /\ SelectedLater
  <2>1. PersonKeyInv'
    BY PersonKeyStep DEF MessageInv
  <2>2. (currentWindow # None =>
           \A p \in DOMAIN currentWindow.pending :
             Older(p, currentWindow.pending[p].availability))'
    BY <1>2 DEF Older
  <2>3. (\A m \in selected :
           /\ Older(m[1], m[2])
           /\ currentWindow # None /\ m[1] \in DOMAIN currentWindow.pending =>
                m[2] < currentWindow.pending[m[1]].availability)'
    BY <1>2 DEF Older
  <2> QED
    BY <2>1, <2>2, <2>3 DEF MessageInv
<1>3. /\ currentWindow # None => \A p \in DOMAIN pending : Older(p, pending[p].availability)
      /\ \A m \in selected :
           /\ Older(m[1], m[2])
           /\ currentWindow # None /\ m[1] \in DOMAIN pending =>
                m[2] < pending[m[1]].availability
  BY DEF MessageInv
<1> HIDE DEF Later
<1>4. ASSUME UNCHANGED <<currentWindow, selected>> PROVE WindowLater /\ SelectedLater
  BY <1>1, <1>3, <1>4
<1>5. CASE DeliverPerson
  <2> PICK p : p = Head(personKey).person
    OBVIOUS
  <2> PICK a : a = Head(personKey).availability
    OBVIOUS
  <2>1. /\ personKey # <<>> /\ personKey' = Tail(personKey)
        /\ UNCHANGED <<cycle, unsent, selected>>
        /\ ReceivePerson(p, a) \/ OpenWindowTimerFails
    BY <1>5 DEF DeliverPerson
  <2>2. Older(p, a)' /\ \A b : Older(p, b) => b < a
    BY <2>1, DeliveredIsOlder DEF MessageInv
  <2>3. Later(p, a)
    BY <2>2 DEF Older, Later
  <2>4. \/ DOMAIN next = {}
        \/ /\ currentWindow = None /\ DOMAIN next = {p}
           /\ next[p].availability = a
        \/ /\ currentWindow # None /\ DOMAIN next = DOMAIN pending \cup {p}
           /\ \A q \in DOMAIN next :
                next[q].availability = IF q = p THEN a ELSE pending[q].availability
    <3>1. CASE OpenWindowTimerFails
      BY <3>1 DEF OpenWindowTimerFails, EmptyWindow
    <3>2. CASE OpenWindow(p, a)
      BY <3>2 DEF OpenWindow, MayOpen, Join, EmptyWindow
    <3>3. CASE JoinWindow(p, a)
      BY <3>3 DEF JoinWindow, Join
    <3> QED
      BY <2>1, <3>1, <3>2, <3>3 DEF ReceivePerson
  <2> HIDE DEF next, pending
  <2>5. ASSUME NEW q \in DOMAIN next PROVE Later(q, next[q].availability)
    BY <1>1, <1>3, <2>3, <2>4
  <2>6. ASSUME NEW m \in selected PROVE Later(m[1], m[2])
    BY <1>1, <1>3
  <2>7. ASSUME NEW m \in selected, m[1] \in DOMAIN next
        PROVE  m[2] < next[m[1]].availability
    <3>1. CASE m[1] = p
      BY <1>3, <2>2, <2>4, <2>7, <3>1
    <3>2. CASE m[1] # p
      BY <1>3, <2>4, <2>7, <3>2
    <3> QED
      BY <3>1, <3>2
  <2> QED
    BY <2>1, <2>5, <2>6, <2>7
<1>6. CASE Flush
  <2>1. PICK t \in timers : TimerFires(t)
    BY <1>6 DEF Flush
  <2>2. /\ currentWindow # None /\ currentWindow' = None
        /\ \A u \in tickets' \ tickets :
             u.person \in DOMAIN pending /\ u.availability = pending[u.person].availability
    BY <2>1, FlushedMessages
  <2>3. selected' = selected \cup {<<u.person, u.availability>> : u \in tickets' \ tickets}
    BY <1>6 DEF Flush, MessagesOf
  <2>4. ASSUME NEW m \in selected' PROVE Older(m[1], m[2])
    <3>1. CASE m \in selected
      BY <1>3, <3>1
    <3>2. ASSUME NEW u \in tickets' \ tickets, m = <<u.person, u.availability>>
          PROVE  Older(m[1], m[2])
      <4>1. m[1] = u.person /\ m[2] = pending[u.person].availability
        BY <2>2, <3>2
      <4>2. Older(u.person, pending[u.person].availability)
        BY <1>3, <2>2
      <4> QED
        BY <4>1, <4>2
    <3> QED
      BY <2>3, <3>1, <3>2
  <2> QED
    BY <1>1, <2>2, <2>4
<1>7. CASE PutChores \/ (\E p \in People : PutPerson(p)) \/ DeliverChores \/ Publish
           \/ OrchestratorAlone \/ Consume \/ UNCHANGED pipelineVars
  BY <1>4, <1>7 DEF PutChores, PutPerson, DeliverChores, ReceiveChores, Publish,
     RunJobSucceeds, OrchestratorAlone, RunJobFails, PersonComplete, ExpireStale,
     Tick, Consume, pipelineVars, vars, network
<1> QED
  BY <1>5, <1>6, <1>7 DEF PipelineNext

-----------------------------------------------------------------------------
(* The messages heard since the last flush                                 *)

LEMMA HeardOnDelivery ==
  ASSUME IInv, HeardInv, NEW m \in Message, heard' = Append(heard, m),
         m.person \in People, m.availability \in Availability,
         ReceivePerson(m.person, m.availability)
  PROVE  HeardInv'
<1> DEFINE n == Len(heard)
           w == IF currentWindow = None THEN EmptyWindow(clock) ELSE currentWindow
           next == currentWindow'.pending
<1>1. currentWindow' = Join(w, m.person, m.availability) /\ IsPersonWindow(w)
  <2>1. IsPersonWindow(EmptyWindow(clock))
    BY EmptyWindowType DEF IInv, TypeOK
  <2> QED
    BY <2>1 DEF ReceivePerson, OpenWindow, MayOpen, JoinWindow, IInv, TypeOK
<1>2. currentWindow' # None
  BY <1>1, JoinType, WindowIsNotNone
<1>3. /\ w.seq = n
      /\ \A j \in DOMAIN heard : heard[j].person \in DOMAIN w.pending
      /\ \A p \in DOMAIN w.pending :
           /\ w.pending[p].seq \in DOMAIN heard
           /\ heard[w.pending[p].seq].person = p
           /\ heard[w.pending[p].seq].availability = w.pending[p].availability
           /\ \A j \in DOMAIN heard : heard[j].person = p => j <= w.pending[p].seq
  <2>1. CASE currentWindow = None
    <3>1. heard = <<>>
      BY <2>1 DEF HeardInv
    <3> QED
      BY <2>1, <3>1 DEF EmptyWindow
  <2>2. CASE currentWindow # None
    BY <2>2 DEF HeardInv
  <2> QED
    BY <2>1, <2>2
<1> HIDE DEF w
<1>4. /\ currentWindow'.seq = n + 1
      /\ DOMAIN next = DOMAIN w.pending \cup {m.person}
      /\ next[m.person].seq = n + 1
      /\ next[m.person].availability = m.availability
      /\ \A q \in DOMAIN w.pending : q # m.person => next[q] = w.pending[q]
  BY <1>1, <1>3 DEF Join
<1>5. /\ heard \in Seq(Message) /\ heard' \in Seq(Message)
      /\ n \in Nat /\ Len(heard') = n + 1
      /\ n + 1 \in DOMAIN heard' /\ heard'[n + 1] = m
      /\ \A j \in DOMAIN heard :
           j \in Nat /\ j <= n /\ j \in DOMAIN heard' /\ heard'[j] = heard[j]
      /\ \A j \in DOMAIN heard' : j = n + 1 \/ j \in DOMAIN heard
  BY DEF HeardInv
<1> HIDE DEF next, n
<1>6. \A j \in DOMAIN heard' : heard'[j].person \in DOMAIN next
  BY <1>3, <1>4, <1>5
<1>7. ASSUME NEW p \in DOMAIN next
      PROVE  /\ next[p].seq \in DOMAIN heard'
             /\ heard'[next[p].seq].person = p
             /\ heard'[next[p].seq].availability = next[p].availability
             /\ \A j \in DOMAIN heard' : heard'[j].person = p => j <= next[p].seq
  <2>1. CASE p = m.person
    BY <1>4, <1>5, <2>1
  <2>2. CASE p # m.person
    BY <1>3, <1>4, <1>5, <2>2
  <2> QED
    BY <2>1, <2>2
<1> QED
  BY <1>2, <1>4, <1>5, <1>6, <1>7 DEF HeardInv, next, n

LEMMA HeardStep ==
  ASSUME IInv, KeysOK, HeardInv, [PipelineNext]_pipelineVars
  PROVE  HeardInv'
<1>1. CASE DeliverPerson
  <2> DEFINE m == Head(personKey)
  <2>1. m \in Message
    BY <1>1, TakeFromKey DEF DeliverPerson, KeysOK
  <2>2. m.person \in People /\ m.availability \in Availability
    BY <2>1, CycleAssumption DEF Message
  <2>3. CASE OpenWindowTimerFails /\ UNCHANGED heard
    BY <2>3 DEF OpenWindowTimerFails, MayOpen, EmptyWindow, HeardInv
  <2>4. CASE ReceivePerson(m.person, m.availability) /\ heard' = Append(heard, m)
    <3> HIDE DEF m
    <3> QED
      BY <2>1, <2>2, <2>4, HeardOnDelivery
  <2> QED
    BY <1>1, <2>3, <2>4 DEF DeliverPerson
<1>2. CASE Flush
  <2>1. currentWindow' = None /\ heard' = <<>>
    BY <1>2, FlushedMessages DEF Flush
  <2> QED
    BY <2>1 DEF HeardInv
<1>3. ASSUME UNCHANGED <<currentWindow, heard>> PROVE HeardInv'
  BY <1>3 DEF HeardInv
<1> QED
  BY <1>1, <1>2, <1>3 DEF PipelineNext, PutChores, PutPerson, DeliverChores,
     ReceiveChores, Publish, RunJobSucceeds, OrchestratorAlone, RunJobFails,
     PersonComplete, ExpireStale, Tick, Consume, pipelineVars, vars, network

-----------------------------------------------------------------------------

LEMMA PipelineInitInv == PipelineInit => PipelineInv
<1> SUFFICES ASSUME PipelineInit PROVE PipelineInv
  OBVIOUS
<1>1. IInv
  BY InitInv DEF PipelineInit
<1>2. KeysOK
  BY CycleAssumption DEF PipelineInit, KeysOK
<1>3. CycleInv /\ MessageInv /\ HeardInv
  BY DEF PipelineInit, Init, CycleInv, MessageInv, PersonKeyInv, HeardInv
<1> QED
  BY <1>1, <1>2, <1>3 DEF PipelineInv

LEMMA PipelineNextInv == PipelineInv /\ [PipelineNext]_pipelineVars => PipelineInv'
<1> SUFFICES ASSUME PipelineInv, [PipelineNext]_pipelineVars PROVE PipelineInv'
  OBVIOUS
<1>1. IInv'
  BY PipelineIsNext, NextInv DEF PipelineInv
<1>2. KeysOK'
  BY <1>1, KeysStep DEF PipelineInv
<1>3. CycleInv' /\ MessageInv' /\ HeardInv'
  BY <1>1, <1>2, CycleStep, MessageStep, HeardStep DEF PipelineInv
<1> QED
  BY <1>1, <1>2, <1>3 DEF PipelineInv

\* The orchestrator keeps its own invariant among keys that lose messages, and
\* cycles and messages are where the invariants of the keys say.
THEOREM PipelineInvariance == PipelineSpec => []PipelineInv
BY PipelineInitInv, PipelineNextInv, PTL DEF PipelineSpec

\* The consumer never sees a cycle after a later one, for any number of people
\* and cycles and whatever the keys lose, although people, chores and summaries
\* travel on keys of their own and every summary is published by its own thread.
THEOREM ConsumerSeesCyclesInOrder == PipelineSpec => CyclesInOrder
<1>1. PipelineInv /\ [PipelineNext]_pipelineVars
        => [consumed # None => consumed'.chores >= consumed.chores]_consumed
  <2> SUFFICES ASSUME PipelineInv, [PipelineNext]_pipelineVars,
                      consumed' # consumed, consumed # None
               PROVE  consumed'.chores >= consumed.chores
    OBVIOUS
  <2>1. Consume
    BY DEF pipelineVars, network, PipelineNext, PutChores, PutPerson, DeliverChores,
           DeliverPerson, Flush, Publish, OrchestratorAlone
  <2>2. summaryKey # <<>> /\ summaryKey \in Seq(Summary) /\ consumed' = Head(summaryKey)
    BY <2>1 DEF Consume, PipelineInv, KeysOK
  <2>3. 1 \in DOMAIN summaryKey /\ consumed' = summaryKey[1]
    BY <2>2, TakeFromKey
  <2> QED
    BY <2>3 DEF PipelineInv, CycleInv
<1> QED
  BY <1>1, PipelineInvariance, PTL DEF PipelineSpec, CyclesInOrder

\* Only a flush hands out tickets of a new batch.
LEMMA OnlyFlushSubmits ==
  ASSUME IInv, PipelineNext, ~Flush
  PROVE  NewTickets = {}
<1>1. ASSUME \A u \in tickets' : \E v \in tickets : u.at = v.at
      PROVE  NewTickets = {}
  BY <1>1 DEF NewTickets
<1>2. ASSUME NEW t \in tickets, RunJobSucceeds(t) \/ RunJobFails(t)
      PROVE  \A u \in tickets' : \E v \in tickets : u.at = v.at
  BY <1>2, FinishKeepsTickets DEF RunJobSucceeds, RunJobFails, TicketStatus
<1>3. CASE tickets' \subseteq tickets
  BY <1>1, <1>3
<1> QED
  BY <1>1, <1>2, <1>3 DEF PipelineNext, PutChores, PutPerson, vars,
     DeliverChores, ReceiveChores, DeliverPerson, ReceivePerson, OpenWindow,
     JoinWindow, OpenWindowTimerFails, Publish, OrchestratorAlone,
     PersonComplete, ExpireStale, Tick, Consume

\* No availability message is worked on twice: not in a later window, not when
\* its job failed, and not by a window dropped or cut in between.
THEOREM MessagesUsedOnce == PipelineSpec => MessageUsedOnce
<1>1. PipelineInv /\ [PipelineNext]_pipelineVars
        => [MessagesOf(NewTickets) \cap selected = {}]_pipelineVars
  <2> SUFFICES ASSUME PipelineInv, PipelineNext, NEW u \in NewTickets,
                      <<u.person, u.availability>> \in selected
               PROVE  FALSE
    BY DEF MessagesOf
  <2> USE DEF PipelineInv
  <2>1. PICK t \in timers : TimerFires(t)
    BY OnlyFlushSubmits DEF Flush
  <2>2. u \in tickets' \ tickets
    BY DEF NewTickets
  <2>3. /\ currentWindow # None
        /\ u.person \in DOMAIN currentWindow.pending
        /\ u.availability = currentWindow.pending[u.person].availability
    BY <2>1, <2>2, FlushedMessages
  <2>4. u.availability < u.availability
    BY <2>3 DEF MessageInv
  <2>5. u.availability \in Nat
    BY <2>3, CycleAssumption DEF MessageInv, Older, KeysOK
  <2> QED
    BY <2>4, <2>5
<1> QED
  BY <1>1, PipelineInvariance, PTL DEF PipelineSpec, MessageUsedOnce

\* Who runs does so with the last message it sent in the window, and in the place
\* of that message: nobody who is left out with the same last selection has sent
\* its last message earlier.  The rank of a person grows with its sequence number,
\* and that is the place of its last message among all that were heard.
THEOREM LastMessagesCount == PipelineSpec => LastMessageCounts
<1> DEFINE Counts(t, i) ==
             /\ LastOfPerson(i)
             /\ heard[i] = [person |-> t.person, availability |-> t.availability]
             /\ \A j \in DOMAIN heard :
                  /\ LastOfPerson(j)
                  /\ \A u \in NewTickets : u.person # heard[j].person
                  /\ LastSelected(personLastSelected, heard[j].person)
                       = LastSelected(personLastSelected, t.person)
                  => i < j
<1>1. ASSUME PipelineInv, PipelineNext, NEW t \in NewTickets
      PROVE  \E i \in DOMAIN heard : Counts(t, i)
  <2> DEFINE W == currentWindow.pending
             chosen == ChoosePeople(personLastSelected, W, MaxActive)
             i == W[t.person].seq
  <2>1. PICK timer \in timers : TimerFires(timer)
    BY <1>1, OnlyFlushSubmits DEF PipelineInv, Flush
  <2>2. CanSubmit /\ Submit
    BY <1>1, <2>1 DEF TimerFires, NewTickets
  <2>3. tickets = {}
    BY <1>1, <2>2, FS_EmptySet DEF CanSubmit, PipelineInv, IInv, ActiveCountsTickets
  <2>4. PICK started : tickets' = {NewTicket(p, started) : p \in chosen}
    BY <2>2, <2>3 DEF Submit
  <2>5. NewTickets = tickets'
    BY <2>3 DEF NewTickets
  <2>6. /\ t.person \in chosen
        /\ t.availability = W[t.person].availability
        /\ \A p \in chosen : \E u \in NewTickets : u.person = p
    <3>1. \A p : /\ NewTicket(p, started).person = p
                 /\ NewTicket(p, started).availability = W[p].availability
      BY DEF NewTicket
    <3>2. t \in tickets' /\ NewTickets = tickets'
      BY <1>1, <2>5
    <3> HIDE DEF chosen, W
    <3>3. PICK p \in chosen : t = NewTicket(p, started)
      BY <2>4, <3>2
    <3>4. \A p1 \in chosen : NewTicket(p1, started) \in NewTickets
      BY <2>4, <3>2
    <3> QED
      BY <3>1, <3>3, <3>4
  <2>7. /\ IsSelection(personLastSelected, W)
        /\ chosen \subseteq DOMAIN W
    BY <1>1, <2>2, WindowIsSelection DEF CanSubmit, PipelineInv, IInv, ChoosePeople
  <2>8. /\ heard \in Seq(Message)
        /\ \A j \in DOMAIN heard : heard[j].person \in DOMAIN W
        /\ \A p \in DOMAIN W :
             /\ W[p].seq \in DOMAIN heard
             /\ heard[W[p].seq].person = p
             /\ heard[W[p].seq].availability = W[p].availability
             /\ \A j \in DOMAIN heard : heard[j].person = p => j <= W[p].seq
    BY <1>1, <2>2 DEF CanSubmit, PipelineInv, HeardInv
  <2>9. i \in DOMAIN heard /\ LastOfPerson(i)
    BY <2>6, <2>7, <2>8 DEF LastOfPerson
  <2>10. heard[i] = [person |-> t.person, availability |-> t.availability]
    <3>1. heard[i] \in Message
      BY <2>8, <2>9
    <3>2. heard[i].person = t.person /\ heard[i].availability = t.availability
      BY <2>6, <2>7, <2>8
    <3> HIDE DEF i
    <3> QED
      BY <3>1, <3>2 DEF Message
  <2>11. ASSUME NEW j \in DOMAIN heard, LastOfPerson(j),
                \A u \in NewTickets : u.person # heard[j].person,
                LastSelected(personLastSelected, heard[j].person)
                  = LastSelected(personLastSelected, t.person)
         PROVE  i < j
    <3> DEFINE q == heard[j].person
    <3>1. q \in DOMAIN W /\ q \notin chosen /\ t.person \in DOMAIN W
      BY <2>6, <2>7, <2>8, <2>11
    <3>2. W[q].seq = j
      <4>1. j \in Nat /\ W[q].seq \in Nat
        BY <2>8, <3>1
      <4>2. j <= W[q].seq /\ W[q].seq <= j
        BY <2>8, <2>11, <3>1 DEF LastOfPerson
      <4> QED
        BY <4>1, <4>2
    <3>3. /\ Rank(personLastSelected, W, t.person) < MaxActive
          /\ ~(Rank(personLastSelected, W, q) < MaxActive)
      BY <2>6, <3>1 DEF ChoosePeople
    <3> HIDE DEF q, W, chosen
    <3>4. /\ Rank(personLastSelected, W, t.person) \in Nat
          /\ Rank(personLastSelected, W, q) \in Nat
      BY <2>7, AheadFinite
    <3>5. ~Before(personLastSelected, W, q, t.person)
      BY <2>7, <3>1, <3>3, <3>4, ConfigAssumption, RankMonotone
    <3>6. ~(j < i)
      BY <2>11, <3>2, <3>5 DEF Before, q
    <3>7. i # j
      BY <2>6, <2>8, <3>1, <3>3 DEF q
    <3>8. i \in Nat /\ j \in Nat
      BY <2>8, <2>9
    <3> QED
      BY <3>6, <3>7, <3>8
  <2> QED
    BY <2>9, <2>10, <2>11
<1>2. PipelineInv /\ [PipelineNext]_pipelineVars
        => [\A t \in NewTickets : \E i \in DOMAIN heard : Counts(t, i)]_pipelineVars
  BY <1>1
<1> QED
  BY <1>2, PipelineInvariance, PTL DEF PipelineSpec, LastMessageCounts
=============================================================================
