------------------------- MODULE RsOrchestratorProofs -------------------------
(***************************************************************************)
(* The safety of the Rust orchestrator, and that it implements Dispatch,   *)
(* for every set of people and chores, every configuration and both        *)
(* submission modes, publications that fail included; and that a batch     *)
(* never stands still.                                                     *)
(***************************************************************************)
EXTENDS RsDispatch, SelectionTheorems

\* The window: sequence numbers are given out once.
WindowInv ==
  currentWindow # None =>
    /\ \A p \in DOMAIN currentWindow.pending :
         currentWindow.pending[p].seq <= currentWindow.seq
    /\ \A p, q \in DOMAIN currentWindow.pending :
         currentWindow.pending[p].seq = currentWindow.pending[q].seq => p = q

\* Nothing is stamped in the future, and no outstanding batch was selected
\* before the last one that published.
PastInv ==
  /\ \A p \in DOMAIN personLastSelected : personLastSelected[p] <= clock
  /\ \A t \in tickets : t.at <= clock
  /\ lastSummary # None =>
       lastSummary.at <= clock /\ \A t \in tickets : lastSummary.at <= t.at

\* One task works on the whole batch of a window: until its summary is put, all
\* its people are at the same place.  A completion is sent only after that.
BatchInv ==
  mode = WindowBatch =>
    \A t, u \in tickets :
      t.status \in {"queued", "working", "ready"} => u.status = t.status

\* The safety invariants are inductive together, with the three facts above.
IInv ==
  /\ TypeOK
  /\ WindowInv
  /\ PastInv
  /\ BatchInv
  /\ OneBatch
  /\ IsFiniteSet(tickets)
  /\ ActiveCountsTickets
  /\ CompletionsMatchTickets
  /\ StampOfTicket

-----------------------------------------------------------------------------
(* Sequences                                                               *)

LEMMA HeadTailType ==
  ASSUME NEW S, NEW q \in Seq(S), q # <<>>
  PROVE  /\ Head(q) \in S /\ Head(q) = q[1]
         /\ Tail(q) \in Seq(S)
         /\ Len(q) \in Nat \ {0}
         /\ DOMAIN q = 1..Len(q)
         /\ DOMAIN Tail(q) = 1..(Len(q) - 1)
         /\ \A i \in DOMAIN Tail(q) : Tail(q)[i] = q[i + 1]
  OBVIOUS

-----------------------------------------------------------------------------
(* The window is what SelectionTheorems is about                           *)

LEMMA WindowIsSelection ==
  ASSUME TypeOK, WindowInv, currentWindow # None
  PROVE  IsSelection(personLastSelected, currentWindow.pending)
<1> DEFINE W == currentWindow.pending
<1>1. IsPersonWindow(currentWindow)
  BY DEF TypeOK
<1>2. DOMAIN W \in SUBSET People /\ W \in [DOMAIN W -> Pending]
  BY <1>1 DEF IsPersonWindow
<1>3. IsFiniteSet(DOMAIN W)
  BY <1>2, ConfigAssumption, FS_Subset
<1>4. \A p \in DOMAIN W : W[p].seq \in Nat
  BY <1>2 DEF Pending
<1>5. \A p \in DOMAIN personLastSelected : personLastSelected[p] \in Nat
  BY DEF TypeOK
<1> QED
  BY <1>3, <1>4, <1>5 DEF IsSelection, WindowInv

LEMMA WindowIsNotNone ==
  ASSUME NEW w, IsPersonWindow(w)
  PROVE  w # None
<1>1. w.pending \in UNION {[S -> Pending] : S \in SUBSET People}
  BY DEF IsPersonWindow
<1>2. w \in PersonWindow
  BY <1>1 DEF IsPersonWindow, PersonWindow
<1> QED
  BY <1>2, NoneAssumption

LEMMA InsertType ==
  ASSUME NEW w, IsPersonWindow(w), NEW p \in People, NEW a \in Availability
  PROVE  IsPersonWindow(Insert(w, p, a))
<1>1. Insert(w, p, a).pending \in [DOMAIN w.pending \cup {p} -> Pending]
  BY DEF IsPersonWindow, Insert, Pending
<1> QED
  BY <1>1 DEF IsPersonWindow, Insert

LEMMA EmptyWindowType ==
  ASSUME NEW t \in Nat
  PROVE  IsPersonWindow(EmptyWindow(t))
<1>1. [p \in {} |-> None] \in [{} -> Pending]
  OBVIOUS
<1> QED
  BY <1>1 DEF IsPersonWindow, EmptyWindow

-----------------------------------------------------------------------------
(* The event loop: messages and time                                       *)

LEMMA InitInv == Init => IInv
<1> SUFFICES ASSUME Init PROVE IInv
  OBVIOUS
<1>1. TypeOK /\ WindowInv /\ PastInv /\ BatchInv /\ OneBatch /\ StampOfTicket
  BY DEF Init, TypeOK, WindowInv, PastInv, BatchInv, OneBatch, StampOfTicket
<1>2. IsFiniteSet(tickets) /\ ActiveCountsTickets
  BY FS_EmptySet DEF Init, ActiveCountsTickets
<1>3. CompletionsMatchTickets
  BY DEF Init, CompletionsMatchTickets
<1> QED
  BY <1>1, <1>2, <1>3 DEF IInv

\* Steps that only read or fill the subscription channels.
LEMMA MessageInv ==
  ASSUME IInv,
         \/ \E c \in Chores : ChoresArrive(c)
         \/ \E p \in People, a \in Availability : PersonArrives(p, a)
         \/ ReceiveChores
  PROVE  IInv'
<1> USE DEF IInv
<1>1. /\ choresSamples' \in Seq(Chores)
      /\ personSamples' \in Seq([person : People, availability : Availability])
      /\ latestChores' \in Chores \cup {None}
  <2>1. CASE \E c \in Chores : ChoresArrive(c)
    BY <2>1 DEF ChoresArrive, coordinator, TypeOK
  <2>2. CASE \E p \in People, a \in Availability : PersonArrives(p, a)
    BY <2>2 DEF PersonArrives, coordinator, TypeOK
  <2>3. CASE ReceiveChores
    BY <2>3 DEF ReceiveChores, TypeOK
  <2> QED
    BY <2>1, <2>2, <2>3
<1>2. UNCHANGED <<mode, clock, completions, currentWindow, activeFilterCount,
                  personLastSelected, tickets, lastSummary>>
  BY DEF ChoresArrive, PersonArrives, ReceiveChores, coordinator
<1>3. TypeOK'
  BY <1>1, <1>2 DEF TypeOK
<1>4. WindowInv' /\ PastInv' /\ BatchInv'
  BY <1>2 DEF WindowInv, PastInv, BatchInv
<1>5. OneBatch' /\ ActiveCountsTickets' /\ CompletionsMatchTickets' /\ StampOfTicket'
  BY <1>2 DEF OneBatch, ActiveCountsTickets, CompletionsMatchTickets, StampOfTicket
<1> QED
  BY <1>2, <1>3, <1>4, <1>5

LEMMA ReceivePersonInv ==
  ASSUME IInv, ReceivePerson
  PROVE  /\ IInv'
         /\ currentWindow' # None
         /\ \E p \in People, a \in Availability :
              currentWindow' = Insert(IF currentWindow = None THEN EmptyWindow(clock)
                                                              ELSE currentWindow, p, a)
<1> USE DEF IInv
<1> DEFINE window == IF currentWindow = None THEN EmptyWindow(clock) ELSE currentWindow
<1>1. PICK p \in People, a \in Availability : currentWindow' = Insert(window, p, a)
  <2>1. Head(personSamples).person \in People /\ Head(personSamples).availability \in Availability
    <3>1. personSamples \in Seq([person : People, availability : Availability])
      BY DEF TypeOK
    <3>2. personSamples # <<>>
      BY DEF ReceivePerson
    <3>3. Head(personSamples) \in [person : People, availability : Availability]
      BY <3>1, <3>2, HeadTailType
    <3> QED
      BY <3>3
  <2> QED
    BY <2>1 DEF ReceivePerson
<1>2. IsPersonWindow(window)
  BY EmptyWindowType DEF TypeOK
<1>3. /\ \A q \in DOMAIN window.pending : window.pending[q].seq <= window.seq
      /\ \A q, r \in DOMAIN window.pending :
           window.pending[q].seq = window.pending[r].seq => q = r
  BY DEF WindowInv, EmptyWindow
<1> HIDE DEF window
<1>4. IsPersonWindow(currentWindow') /\ currentWindow' # None
  BY <1>1, <1>2, InsertType, WindowIsNotNone
<1>5. /\ personSamples' = Tail(personSamples) /\ personSamples # <<>>
      /\ UNCHANGED <<mode, clock, choresSamples, completions, latestChores,
                     activeFilterCount, personLastSelected, tickets, lastSummary>>
  BY DEF ReceivePerson
<1>6. TypeOK'
  BY <1>4, <1>5 DEF TypeOK
<1>7. WindowInv'
  BY <1>1, <1>2, <1>3 DEF WindowInv, Insert, IsPersonWindow, Pending
<1>8. PastInv' /\ BatchInv' /\ OneBatch' /\ ActiveCountsTickets' /\ StampOfTicket'
  BY <1>5 DEF PastInv, BatchInv, OneBatch, ActiveCountsTickets, StampOfTicket
<1>9. IInv'
  BY <1>5, <1>6, <1>7, <1>8 DEF CompletionsMatchTickets
<1> QED
  BY <1>1, <1>4, <1>9 DEF window

LEMMA TickInv ==
  ASSUME IInv, Tick
  PROVE  IInv'
<1> USE DEF IInv, Tick, channels, coordinator
<1>1. TypeOK'
  BY DEF TypeOK
<1>2. PastInv'
  <2>1. clock \in Nat /\ clock' = clock + 1
    BY DEF TypeOK
  <2>2. \A p \in DOMAIN personLastSelected : personLastSelected[p] \in Nat
    BY DEF TypeOK
  <2>3. \A t \in tickets : t.at \in Nat
    BY DEF TypeOK, Ticket
  <2>4. lastSummary # None => lastSummary.at \in Nat
    BY DEF TypeOK, Summary
  <2> QED
    BY <2>1, <2>2, <2>3, <2>4 DEF PastInv
<1>3. WindowInv' /\ BatchInv' /\ OneBatch' /\ ActiveCountsTickets' /\ StampOfTicket'
  BY DEF WindowInv, BatchInv, OneBatch, ActiveCountsTickets, StampOfTicket
<1>4. CompletionsMatchTickets'
  BY DEF CompletionsMatchTickets
<1> QED
  BY <1>1, <1>2, <1>3, <1>4

-----------------------------------------------------------------------------
(* The event loop: the tick and the completions                            *)

LEMMA PruneOnlyInv ==
  ASSUME IInv, PruneOnly
  PROVE  IInv'
<1> USE DEF IInv, PruneOnly, channels
<1>1. /\ DOMAIN personLastSelected' \subseteq DOMAIN personLastSelected
      /\ personLastSelected' \in [DOMAIN personLastSelected' -> Nat]
      /\ \A p \in DOMAIN personLastSelected' :
           personLastSelected'[p] = personLastSelected[p]
  BY PruneType DEF TypeOK
<1>2. TypeOK'
  BY <1>1 DEF TypeOK
<1>3. PastInv' /\ StampOfTicket'
  BY <1>1 DEF PastInv, StampOfTicket
<1>4. WindowInv' /\ BatchInv' /\ OneBatch' /\ ActiveCountsTickets'
  BY DEF WindowInv, BatchInv, OneBatch, ActiveCountsTickets
<1>5. CompletionsMatchTickets'
  BY DEF CompletionsMatchTickets
<1> QED
  BY <1>2, <1>3, <1>4, <1>5

\* The gate is open only when nobody is outstanding; the tickets are then those
\* of the people chosen.
LEMMA FlushSubmits ==
  ASSUME IInv, FlushExpired, CanSubmit
  PROVE  /\ tickets = {}
         /\ PeopleToRun \subseteq DOMAIN currentWindow.pending
         /\ PeopleToRun \subseteq People
         /\ PeopleToRun # {}
         /\ IsFiniteSet(PeopleToRun)
         /\ Cardinality(PeopleToRun) \in Nat
         /\ Cardinality(PeopleToRun) <= MaxPeople
         /\ PeopleToRun # DOMAIN currentWindow.pending =>
              Cardinality(PeopleToRun) = MaxPeople
         /\ tickets' = {NewTicket(p) : p \in PeopleToRun}
         /\ \A p \in PeopleToRun :
              /\ NewTicket(p) \in Ticket
              /\ NewTicket(p).person = p
              /\ NewTicket(p).at = clock
              /\ NewTicket(p).chores = latestChores
              /\ NewTicket(p).status = "queued"
<1> DEFINE W == currentWindow.pending
<1> USE DEF IInv
<1>1. IsSelection(personLastSelected, W) /\ IsPersonWindow(currentWindow)
  BY WindowIsSelection DEF FlushExpired, Expired, TypeOK
<1>2. /\ PeopleToRun \subseteq DOMAIN W
      /\ DOMAIN W \subseteq People
      /\ IsFiniteSet(PeopleToRun)
      /\ Cardinality(PeopleToRun) <= MaxPeople
      /\ Cardinality(PeopleToRun) \in Nat
      /\ PeopleToRun # DOMAIN W => Cardinality(PeopleToRun) = MaxPeople
      /\ PeopleToRun # {}
  BY <1>1, ChooseAtMost, ChooseIsFull, ChooseNonempty, ConfigAssumption,
     FS_CardinalityType DEF IsPersonWindow, PeopleToRun, CanSubmit
<1>3. tickets = {}
  BY FS_EmptySet DEF CanSubmit, ActiveCountsTickets
<1>4. tickets' = {NewTicket(p) : p \in PeopleToRun}
  BY <1>3 DEF FlushExpired
<1>5. ASSUME NEW p \in PeopleToRun
      PROVE  /\ NewTicket(p) \in Ticket
             /\ NewTicket(p).person = p
             /\ NewTicket(p).at = clock
             /\ NewTicket(p).chores = latestChores
             /\ NewTicket(p).status = "queued"
  <2>1. Rank(personLastSelected, W, p) \in Nat
    BY <1>1, AheadFinite
  <2>2. W[p].availability \in Availability /\ p \in People
    BY <1>1, <1>2 DEF IsPersonWindow, Pending
  <2>3. latestChores \in Chores /\ clock \in Nat
    BY DEF CanSubmit, TypeOK
  <2>4. "queued" \in TicketStatus
    BY DEF TicketStatus
  <2> QED
    BY <2>1, <2>2, <2>3, <2>4 DEF NewTicket, Ticket
<1> QED
  BY <1>2, <1>3, <1>4, <1>5

LEMMA FlushExpiredInv ==
  ASSUME IInv, FlushExpired
  PROVE  IInv'
<1> USE DEF IInv
<1>1. /\ currentWindow' = None
      /\ UNCHANGED <<mode, clock, choresSamples, personSamples, completions,
                     latestChores, lastSummary>>
  BY DEF FlushExpired, channels
<1>2. CASE CanSubmit
  <2> DEFINE stamped == StampAll(personLastSelected, PeopleToRun, clock)
  <2>1. /\ tickets = {}
        /\ PeopleToRun \subseteq People
        /\ IsFiniteSet(PeopleToRun)
        /\ Cardinality(PeopleToRun) \in Nat
        /\ tickets' = {NewTicket(p) : p \in PeopleToRun}
        /\ \A p \in PeopleToRun :
             /\ NewTicket(p) \in Ticket
             /\ NewTicket(p).person = p
             /\ NewTicket(p).at = clock
             /\ NewTicket(p).chores = latestChores
             /\ NewTicket(p).status = "queued"
    BY <1>2, FlushSubmits
  <2>2. clock \in Nat /\ activeFilterCount = 0
    BY <1>2 DEF TypeOK, CanSubmit
  <2>3. /\ DOMAIN stamped = DOMAIN personLastSelected \cup PeopleToRun
        /\ stamped \in [DOMAIN stamped -> Nat]
        /\ \A p \in DOMAIN stamped :
             stamped[p] = IF p \in PeopleToRun THEN clock ELSE personLastSelected[p]
    <3>1. personLastSelected \in [DOMAIN personLastSelected -> Nat]
      BY DEF TypeOK
    <3> QED
      BY <2>2, <3>1 DEF StampAll
  <2> HIDE DEF stamped
  <2>4. personLastSelected' = Prune(stamped, clock, HistoryTTL)
    BY <1>2 DEF FlushExpired, stamped
  <2>5. /\ DOMAIN personLastSelected' \subseteq DOMAIN personLastSelected \cup PeopleToRun
        /\ personLastSelected' \in [DOMAIN personLastSelected' -> Nat]
        /\ \A p \in DOMAIN personLastSelected' :
             personLastSelected'[p] =
               IF p \in PeopleToRun THEN clock ELSE personLastSelected[p]
    BY <2>3, <2>4, PruneType
  <2>6. activeFilterCount' = Cardinality(PeopleToRun)
    BY <1>2, <2>1, <2>2 DEF FlushExpired
  <2>7. \A t, u \in tickets' : t.person = u.person => t = u
    BY <2>1
  <2>8. PeopleOf(tickets') = PeopleToRun
    BY <2>1 DEF PeopleOf
  <2>9. IsFiniteSet(tickets') /\ Cardinality(tickets') = Cardinality(PeopleToRun)
    BY <2>1, <2>7, <2>8, CountPeople
  <2>10. TypeOK'
    BY <1>1, <2>1, <2>5, <2>6 DEF TypeOK
  <2>11. PastInv' /\ BatchInv'
    <3>1. /\ \A p \in DOMAIN personLastSelected' : personLastSelected'[p] <= clock
          /\ \A t \in tickets' : t.at = clock
      BY <2>1, <2>2, <2>5 DEF PastInv
    <3>2. lastSummary # None => lastSummary.at <= clock
      BY DEF PastInv
    <3>3. PastInv'
      BY <1>1, <2>2, <3>1, <3>2 DEF PastInv
    <3>4. \A t \in tickets' : t.status = "queued"
      BY <2>1
    <3> QED
      BY <3>3, <3>4 DEF BatchInv
  <2>12. OneBatch' /\ StampOfTicket'
    BY <2>1, <2>5, <2>7 DEF OneBatch, StampOfTicket
  <2>13. CompletionsMatchTickets'
    <3>1. {t \in tickets : t.status = "sent"} = {} /\ {t \in tickets' : t.status = "sent"} = {}
      BY <2>1
    <3> QED
      BY <1>1, <3>1 DEF CompletionsMatchTickets
  <2> QED
    BY <1>1, <2>6, <2>9, <2>10, <2>11, <2>12, <2>13 DEF WindowInv, ActiveCountsTickets
<1>3. CASE ~CanSubmit
  <2>1. /\ personLastSelected' = Prune(personLastSelected, clock, HistoryTTL)
        /\ UNCHANGED <<activeFilterCount, tickets>>
    BY <1>3 DEF FlushExpired
  <2>2. /\ DOMAIN personLastSelected' \subseteq DOMAIN personLastSelected
        /\ personLastSelected' \in [DOMAIN personLastSelected' -> Nat]
        /\ \A p \in DOMAIN personLastSelected' :
             personLastSelected'[p] = personLastSelected[p]
    BY <2>1, PruneType DEF TypeOK
  <2>3. TypeOK'
    BY <1>1, <2>1, <2>2 DEF TypeOK
  <2>4. PastInv' /\ StampOfTicket'
    BY <1>1, <2>1, <2>2 DEF PastInv, StampOfTicket
  <2>5. WindowInv' /\ BatchInv' /\ OneBatch' /\ ActiveCountsTickets'
    BY <1>1, <2>1 DEF WindowInv, BatchInv, OneBatch, ActiveCountsTickets
  <2>6. CompletionsMatchTickets'
    BY <1>1, <2>1 DEF CompletionsMatchTickets
  <2> QED
    BY <2>1, <2>3, <2>4, <2>5, <2>6
<1> QED
  BY <1>2, <1>3

\* The completion at the head of the channel belongs to exactly one ticket.
LEMMA CompletionOfTicket ==
  ASSUME IInv, completions # <<>>
  PROVE  \E t \in tickets :
           /\ t.status = "sent"
           /\ t.person = Head(completions).person
           /\ {u \in tickets : ~(u.status = "sent" /\ u.person = Head(completions).person)}
                = tickets \ {t}
<1> USE DEF IInv
<1>1. completions \in Seq(Completion)
  BY DEF TypeOK
<1>2. Head(completions) = completions[1] /\ 1 \in DOMAIN completions
  BY <1>1, HeadTailType
<1>3. Head(completions).person \in {t.person : t \in {u \in tickets : u.status = "sent"}}
  BY <1>2 DEF CompletionsMatchTickets
<1>4. PICK t \in tickets : t.status = "sent" /\ t.person = Head(completions).person
  BY <1>3
<1>5. \A u \in tickets : u.person = t.person => u = t
  BY DEF OneBatch
<1> QED
  BY <1>4, <1>5

LEMMA PersonCompleteInv ==
  ASSUME IInv, PersonComplete
  PROVE  IInv'
<1> USE DEF IInv
<1> DEFINE c == Head(completions)
           rest == Tail(completions)
<1>1. /\ completions # <<>>
      /\ completions' = rest
      /\ activeFilterCount' = IF activeFilterCount = 0 THEN 0 ELSE activeFilterCount - 1
      /\ personLastSelected' = IF c.succeeded THEN personLastSelected
                                              ELSE Forget(personLastSelected, c.person)
      /\ tickets' = {t \in tickets : ~(t.status = "sent" /\ t.person = c.person)}
      /\ UNCHANGED <<mode, clock, choresSamples, personSamples, latestChores,
                     currentWindow, lastSummary>>
  BY DEF PersonComplete, channels
<1>2. PICK t \in tickets : /\ t.status = "sent"
                           /\ t.person = c.person
                           /\ tickets' = tickets \ {t}
  BY <1>1, CompletionOfTicket
<1>3. /\ completions \in Seq(Completion)
      /\ c = completions[1]
      /\ rest \in Seq(Completion)
      /\ Len(completions) \in Nat \ {0}
      /\ DOMAIN completions = 1..Len(completions)
      /\ DOMAIN rest = 1..(Len(completions) - 1)
      /\ \A i \in DOMAIN rest : rest[i] = completions[i + 1]
  BY <1>1, HeadTailType DEF TypeOK
<1> HIDE DEF c, rest
<1>4. /\ DOMAIN personLastSelected' \subseteq DOMAIN personLastSelected
      /\ personLastSelected' \in [DOMAIN personLastSelected' -> Nat]
      /\ \A p \in DOMAIN personLastSelected' :
           personLastSelected'[p] = personLastSelected[p]
  BY <1>1, ForgetType DEF TypeOK
<1>5. /\ IsFiniteSet(tickets')
      /\ Cardinality(tickets') = Cardinality(tickets) - 1
      /\ Cardinality(tickets) \in Nat
  BY <1>2, FS_RemoveElement, FS_CardinalityType
<1>6. activeFilterCount' = activeFilterCount - 1 /\ activeFilterCount' \in Nat
  <2>1. activeFilterCount # 0
    BY FS_EmptySet DEF ActiveCountsTickets
  <2> QED
    BY <1>1, <2>1 DEF TypeOK
<1>7. TypeOK'
  BY <1>1, <1>2, <1>3, <1>4, <1>6 DEF TypeOK
<1>8. PastInv' /\ StampOfTicket' /\ OneBatch' /\ BatchInv'
  BY <1>1, <1>2, <1>4 DEF PastInv, StampOfTicket, OneBatch, BatchInv
<1>9. WindowInv' /\ ActiveCountsTickets'
  BY <1>1, <1>5, <1>6 DEF WindowInv, ActiveCountsTickets
<1>10. CompletionsMatchTickets'
  <2> DEFINE Sent(T) == {u.person : u \in {v \in T : v.status = "sent"}}
             Named(q) == {q[i].person : i \in DOMAIN q}
  <2>1. /\ \A i, j \in DOMAIN completions :
             completions[i].person = completions[j].person => i = j
        /\ Named(completions) = Sent(tickets)
    BY DEF CompletionsMatchTickets
  <2>2. \A i \in DOMAIN rest : i + 1 \in DOMAIN completions /\ i \in Nat /\ i # 0
    BY <1>3
  <2>3. \A i, j \in DOMAIN rest : rest[i].person = rest[j].person => i = j
    BY <1>3, <2>1, <2>2
  <2>4. Named(rest) = Named(completions) \ {c.person}
    <3>1. 1 \in DOMAIN completions
      BY <1>3
    <3>2. \A i \in DOMAIN completions : i # 1 => i - 1 \in DOMAIN rest /\ rest[i - 1] = completions[i]
      BY <1>3
    <3>3. \A i \in DOMAIN rest : rest[i].person \in Named(completions) \ {c.person}
      BY <1>3, <2>1, <2>2, <3>1
    <3>4. \A i \in DOMAIN completions :
            completions[i].person # c.person => completions[i].person \in Named(rest)
      BY <1>3, <3>2
    <3> QED
      BY <3>3, <3>4
  <2>5. Sent(tickets') = Sent(tickets) \ {c.person}
    BY <1>1, <1>2 DEF OneBatch
  <2>6. completions' = rest
    BY <1>1
  <2>7. Named(completions') = Sent(tickets')
    <3> HIDE DEF Named, Sent
    <3> QED
      BY <2>1, <2>4, <2>5, <2>6
  <2> QED
    BY <2>3, <2>6, <2>7 DEF CompletionsMatchTickets
<1> QED
  BY <1>5, <1>7, <1>8, <1>9, <1>10

-----------------------------------------------------------------------------
(* Tasks and pool threads                                                  *)

\* What a step does that gives the tickets of a job another status: nothing else
\* of the batch changes.
SameBut(J, to) ==
  /\ tickets' \in SUBSET Ticket
  /\ \A u \in tickets' : \E v \in tickets :
       /\ u.person = v.person /\ u.at = v.at /\ u.chores = v.chores
       /\ u.status = IF v \in J THEN to ELSE v.status
  /\ \A v \in tickets : \E u \in tickets' :
       /\ u.person = v.person
       /\ u.status = IF v \in J THEN to ELSE v.status
  /\ \A u, v \in tickets' : u.person = v.person => u = v
  /\ PeopleOf(tickets') = PeopleOf(tickets)
  /\ IsFiniteSet(tickets')
  /\ Cardinality(tickets') = Cardinality(tickets)

LEMMA StatusChange ==
  ASSUME IInv, NEW J \in SUBSET tickets, NEW to \in TicketStatus,
         tickets' = (tickets \ J) \cup {[u EXCEPT !.status = to] : u \in J}
  PROVE  SameBut(J, to)
<1> DEFINE Changed(u) == [u EXCEPT !.status = to]
<1>1. tickets \subseteq Ticket /\ tickets' = (tickets \ J) \cup {Changed(u) : u \in J}
  BY DEF IInv, TypeOK
<1>2. \A u \in tickets : /\ Changed(u) \in Ticket
                         /\ Changed(u).person = u.person
                         /\ Changed(u).at = u.at
                         /\ Changed(u).chores = u.chores
                         /\ Changed(u).status = to
  BY <1>1 DEF Ticket
<1> HIDE DEF Changed
<1>3. \A u, v \in tickets : u.person = v.person => u = v
  BY DEF IInv, OneBatch
<1>4. tickets' \subseteq Ticket
  BY <1>1, <1>2
<1>5. \A u \in tickets' : \E v \in tickets :
        /\ u.person = v.person /\ u.at = v.at /\ u.chores = v.chores
        /\ u.status = IF v \in J THEN to ELSE v.status
  BY <1>1, <1>2
<1>6. \A v \in tickets : \E u \in tickets' :
        /\ u.person = v.person
        /\ u.status = IF v \in J THEN to ELSE v.status
  BY <1>1, <1>2
<1>7. \A u, v \in tickets' : u.person = v.person => u = v
  BY <1>1, <1>2, <1>3
<1>8. PeopleOf(tickets') = PeopleOf(tickets)
  BY <1>1, <1>2 DEF PeopleOf
<1>9. IsFiniteSet(tickets') /\ Cardinality(tickets') = Cardinality(tickets)
  BY <1>3, <1>7, <1>8, SamePeopleSameCount DEF IInv
<1> QED
  BY <1>4, <1>5, <1>6, <1>7, <1>8, <1>9 DEF SameBut

\* The job of a ticket before its summary is put: all its tickets are where it
\* is, and in the mode with one task per window they are all there are.
LEMMA JobStatus ==
  ASSUME IInv, NEW t \in tickets, t.status \in {"queued", "working", "ready"}
  PROVE  /\ JobOf(t) \in SUBSET tickets
         /\ t \in JobOf(t)
         /\ \A u \in JobOf(t) : u.status = t.status
         /\ mode = WindowBatch => JobOf(t) = tickets
<1>1. mode \in {PerPerson, WindowBatch} /\ PerPerson # WindowBatch
  BY DEF IInv, TypeOK, PerPerson, WindowBatch
<1>2. CASE mode = PerPerson
  BY <1>1, <1>2 DEF JobOf
<1>3. CASE mode = WindowBatch
  <2>1. JobOf(t) = tickets
    BY <1>1, <1>3 DEF JobOf, IInv, OneBatch
  <2> QED
    BY <1>3, <2>1 DEF IInv, BatchInv
<1> QED
  BY <1>1, <1>2, <1>3

\* A ticket moves with its job, and its summary may be put.
LEMMA MoveInv ==
  ASSUME IInv, NEW t \in tickets,
         NEW from \in {"queued", "working", "ready"},
         NEW to \in {"working", "ready", "published", "failed"}, Move(t, from, to),
         lastSummary' = lastSummary
           \/ (lastSummary' \in Summary /\ lastSummary'.at = t.at)
  PROVE  IInv'
<1> USE DEF IInv
<1> DEFINE J == JobOf(t)
<1>1. /\ tickets' = (tickets \ J) \cup {[u EXCEPT !.status = to] : u \in J}
      /\ t.status = from
      /\ UNCHANGED <<mode, clock, choresSamples, personSamples, completions,
                     latestChores, currentWindow, activeFilterCount, personLastSelected>>
  BY DEF Move, channels, coordinator
<1>2. /\ J \in SUBSET tickets
      /\ \A u \in J : u.status = from
      /\ mode = WindowBatch => J = tickets
  BY <1>1, JobStatus
<1> HIDE DEF J
<1>3. to \in TicketStatus /\ to # "sent" /\ from # "sent"
  BY DEF TicketStatus
<1>4. SameBut(J, to)
  BY <1>1, <1>2, <1>3, StatusChange
<1>5. TypeOK'
  BY <1>1, <1>4 DEF TypeOK, SameBut
<1>6. BatchInv'
  BY <1>1, <1>2, <1>4 DEF BatchInv, SameBut
<1>7. OneBatch' /\ StampOfTicket'
  BY <1>1, <1>4 DEF OneBatch, StampOfTicket, SameBut
<1>8. PastInv'
  <2>1. \A u \in tickets' : u.at <= clock
    BY <1>4 DEF PastInv, SameBut
  <2>2. CASE lastSummary' = lastSummary
    BY <1>1, <1>4, <2>1, <2>2 DEF PastInv, SameBut
  <2>3. CASE lastSummary' \in Summary /\ lastSummary'.at = t.at
    <3>1. \A u \in tickets : u.at = t.at
      BY DEF OneBatch
    <3>2. t.at \in Nat /\ t.at <= clock
      BY DEF TypeOK, Ticket, PastInv
    <3> QED
      BY <1>1, <1>4, <2>1, <2>3, <3>1, <3>2 DEF PastInv, SameBut
  <2> QED
    BY <2>2, <2>3
<1>9. CompletionsMatchTickets'
  <2>1. {v.person : v \in {u \in tickets' : u.status = "sent"}} =
          {v.person : v \in {u \in tickets : u.status = "sent"}}
    BY <1>2, <1>3, <1>4 DEF SameBut
  <2> QED
    BY <1>1, <2>1 DEF CompletionsMatchTickets
<1> QED
  BY <1>1, <1>4, <1>5, <1>6, <1>7, <1>8, <1>9 DEF WindowInv,
     ActiveCountsTickets, SameBut

LEMMA WorkInv ==
  ASSUME IInv, NEW t \in tickets,
         WorkerStarts(t) \/ WorkerFinishes(t) \/ PublishFails(t)
  PROVE  IInv'
  BY MoveInv DEF WorkerStarts, WorkerFinishes, PublishFails

LEMMA PublishSucceedsInv ==
  ASSUME IInv, NEW t \in tickets, PublishSucceeds(t)
  PROVE  /\ IInv'
         /\ lastSummary # None => lastSummary'.at >= lastSummary.at
<1>1. t \in Ticket /\ tickets \subseteq Ticket /\ JobOf(t) \subseteq tickets
  BY DEF IInv, TypeOK, JobOf
<1>2. {u.person : u \in JobOf(t)} \in SUBSET People
  BY <1>1 DEF Ticket
<1>3. lastSummary' \in Summary /\ lastSummary'.at = t.at
  BY <1>1, <1>2 DEF PublishSucceeds, Summary, Ticket
<1>4. IInv'
  BY <1>3, MoveInv DEF PublishSucceeds
<1> QED
  BY <1>3, <1>4 DEF IInv, PastInv, TypeOK, Summary, Ticket

LEMMA SendCompletionInv ==
  ASSUME IInv, NEW t \in tickets, SendCompletion(t)
  PROVE  IInv'
<1> USE DEF IInv
<1> DEFINE c == [person |-> t.person, succeeded |-> t.status = "published"]
           sent == Append(completions, c)
<1>1. /\ t.status \in {"published", "failed"}
      /\ completions' = sent
      /\ tickets' = (tickets \ {t}) \cup {[u EXCEPT !.status = "sent"] : u \in {t}}
      /\ UNCHANGED <<mode, clock, choresSamples, personSamples, latestChores,
                     currentWindow, activeFilterCount, personLastSelected, lastSummary>>
  BY DEF SendCompletion, channels, coordinator
<1>2. "sent" \in TicketStatus /\ t \in Ticket
  BY DEF TicketStatus, TypeOK
<1>3. SameBut({t}, "sent")
  BY <1>1, <1>2, StatusChange
<1>4. /\ completions \in Seq(Completion) /\ c \in Completion
      /\ sent \in Seq(Completion)
      /\ Len(completions) \in Nat
      /\ DOMAIN completions = 1..Len(completions)
      /\ DOMAIN sent = 1..(Len(completions) + 1)
      /\ \A i \in DOMAIN completions : sent[i] = completions[i]
      /\ sent[Len(completions) + 1] = c
  <2>1. c \in Completion
    BY <1>2 DEF Completion, Ticket
  <2>2. completions \in Seq(Completion)
    BY DEF TypeOK
  <2> QED
    BY <2>1, <2>2
<1>5. c.person = t.person
  OBVIOUS
<1> HIDE DEF c, sent
<1>6. TypeOK'
  BY <1>1, <1>3, <1>4 DEF TypeOK, SameBut
<1>7. BatchInv'
  BY <1>1, <1>3 DEF BatchInv, SameBut
<1>8. OneBatch' /\ StampOfTicket'
  BY <1>1, <1>3 DEF OneBatch, StampOfTicket, SameBut
<1>9. PastInv'
  BY <1>1, <1>3 DEF PastInv, SameBut
<1>10. CompletionsMatchTickets'
  <2> DEFINE Sent(T) == {u.person : u \in {v \in T : v.status = "sent"}}
             Named(q) == {q[i].person : i \in DOMAIN q}
  <2>1. /\ \A i, j \in DOMAIN completions :
             completions[i].person = completions[j].person => i = j
        /\ Named(completions) = Sent(tickets)
    BY DEF CompletionsMatchTickets
  <2>2. t.person \notin Sent(tickets)
    BY <1>1 DEF OneBatch
  <2>3. Sent(tickets') = Sent(tickets) \cup {t.person}
    BY <1>3 DEF SameBut
  <2>4. Named(sent) = Named(completions) \cup {t.person}
    <3>1. \A i \in DOMAIN sent : i \in DOMAIN completions \/ i = Len(completions) + 1
      BY <1>4
    <3>2. DOMAIN completions \subseteq DOMAIN sent /\ Len(completions) + 1 \in DOMAIN sent
      BY <1>4
    <3> QED
      BY <1>4, <1>5, <3>1, <3>2
  <2>5. \A i, j \in DOMAIN sent : sent[i].person = sent[j].person => i = j
    <3>1. \A i \in DOMAIN sent : i \in DOMAIN completions \/ i = Len(completions) + 1
      BY <1>4
    <3>2. \A i \in DOMAIN completions : completions[i].person # t.person
      BY <2>1, <2>2
    <3> QED
      BY <1>4, <1>5, <2>1, <3>1, <3>2
  <2>6. completions' = sent
    BY <1>1
  <2>7. Named(completions') = Sent(tickets')
    <3> HIDE DEF Named, Sent
    <3> QED
      BY <2>1, <2>3, <2>4, <2>6
  <2> QED
    BY <2>5, <2>6, <2>7 DEF CompletionsMatchTickets
<1> QED
  BY <1>1, <1>3, <1>6, <1>7, <1>8, <1>9, <1>10 DEF WindowInv,
     ActiveCountsTickets, SameBut

-----------------------------------------------------------------------------
(* The theorems                                                            *)

LEMMA StutterInv ==
  ASSUME IInv, UNCHANGED vars
  PROVE  IInv'
<1> USE DEF IInv, vars, channels, coordinator
<1>1. TypeOK' /\ WindowInv' /\ PastInv' /\ BatchInv'
  BY DEF TypeOK, WindowInv, PastInv, BatchInv
<1>2. OneBatch' /\ ActiveCountsTickets' /\ StampOfTicket'
  BY DEF OneBatch, ActiveCountsTickets, StampOfTicket
<1>3. CompletionsMatchTickets'
  BY DEF CompletionsMatchTickets
<1> QED
  BY <1>1, <1>2, <1>3

LEMMA NextInv == IInv /\ [Next]_vars => IInv'
<1> SUFFICES ASSUME IInv, [Next]_vars PROVE IInv'
  OBVIOUS
<1>1. CASE \/ \E c \in Chores : ChoresArrive(c)
           \/ \E p \in People, a \in Availability : PersonArrives(p, a)
           \/ ReceiveChores
  BY <1>1, MessageInv
<1>2. CASE ReceivePerson
  BY <1>2, ReceivePersonInv
<1>3. CASE ExpireStale
  BY <1>3, FlushExpiredInv, PruneOnlyInv DEF ExpireStale
<1>4. CASE PersonComplete
  BY <1>4, PersonCompleteInv
<1>5. ASSUME NEW t \in tickets, WorkerStarts(t) \/ WorkerFinishes(t) \/ PublishFails(t)
      PROVE  IInv'
  BY <1>5, WorkInv
<1>6. ASSUME NEW t \in tickets, PublishSucceeds(t) PROVE IInv'
  BY <1>6, PublishSucceedsInv
<1>7. ASSUME NEW t \in tickets, SendCompletion(t) PROVE IInv'
  BY <1>7, SendCompletionInv
<1>8. CASE Tick
  BY <1>8, TickInv
<1>9. CASE UNCHANGED vars
  BY <1>9, StutterInv
<1> QED
  BY <1>1, <1>2, <1>3, <1>4, <1>5, <1>6, <1>7, <1>8, <1>9 DEF Next

\* IInv holds in every reachable state.
THEOREM Invariance == Spec => []IInv
<1> QED
  BY InitInv, NextInv, PTL DEF Spec

\* Every variable keeps its type, the counter of the gate included, which
\* saturating_sub would otherwise hide.
THEOREM TypeCorrect == Spec => []TypeOK
<1>1. IInv => TypeOK
  BY DEF IInv
<1> QED
  BY <1>1, Invariance, PTL

\* active_filter_count is the number of people whose completion the loop has not
\* handled, whether it is in the channel, in a task or in the pool.
THEOREM GateCorrect == Spec => []ActiveCountsTickets
<1>1. IInv => ActiveCountsTickets
  BY DEF IInv
<1> QED
  BY <1>1, Invariance, PTL

\* The people outstanding were submitted at one flush with one chores message.
THEOREM OneBatchOutstanding == Spec => []OneBatch
<1>1. IInv => OneBatch
  BY DEF IInv
<1> QED
  BY <1>1, Invariance, PTL

\* The person in a completion names one ticket, although the channel keeps no
\* batch: on_person_complete cannot take it for another one.
THEOREM CompletionsUnambiguous == Spec => []CompletionsMatchTickets
<1>1. IInv => CompletionsMatchTickets
  BY DEF IInv
<1> QED
  BY <1>1, Invariance, PTL

\* A completion that was sent as failed and is handled late erases no selection
\* but that of its own batch.
THEOREM CompletionMeetsOwnStamp == Spec => []StampOfTicket
<1>1. IInv => StampOfTicket
  BY DEF IInv
<1> QED
  BY <1>1, Invariance, PTL

\* Summaries are put in the order in which their batches were selected.
THEOREM SummaryOrder == Spec => SummariesInBatchOrder
<1> DEFINE Ordered == lastSummary # None => lastSummary'.at >= lastSummary.at
<1>1. IInv /\ [Next]_vars => [Ordered]_lastSummary
  <2> SUFFICES ASSUME IInv, [Next]_vars, lastSummary' # lastSummary
               PROVE  Ordered
    OBVIOUS
  <2>1. \E t \in tickets : PublishSucceeds(t)
    BY DEF Next, vars, ChoresArrive, PersonArrives, ReceiveChores, ReceivePerson,
       ExpireStale, FlushExpired, PruneOnly, PersonComplete, WorkerStarts,
       WorkerFinishes, PublishFails, SendCompletion, Tick
  <2> QED
    BY <2>1, PublishSucceedsInv
<1> QED
  BY <1>1, Invariance, PTL DEF Spec, SummariesInBatchOrder

-----------------------------------------------------------------------------
(* What EveryBatchCompletes rests on                                       *)

\* The pool or the task of a ticket has something to do: take the job, finish
\* it, publish, or send the completion of the first person left in its list.
CanMove(t) ==
  \/ t.status = "queued" /\ JobsWorking < NumWorkerThreads
  \/ t.status \in {"working", "ready"}
  \/ /\ t.status \in {"published", "failed"}
     /\ \A u \in JobOf(t) : u.status = "sent" \/ t.index <= u.index

\* While people are counted the loop has a completion to handle or one of their
\* jobs can go on.
BatchCanMove ==
  activeFilterCount > 0 => completions # <<>> \/ \E t \in tickets : CanMove(t)

NextStatus(status) ==
  CASE status = "queued" -> {"working"}
    [] status = "working" -> {"ready"}
    [] status = "ready" -> {"published", "failed"}
    [] status \in {"published", "failed"} -> {"sent"}
    [] status = "sent" -> {}

\* Ticket u is ticket t, at the same place or one further.
MovedOn(u, t) ==
  /\ u.person = t.person /\ u.at = t.at /\ u.index = t.index
  /\ u.status \in {t.status} \cup NextStatus(t.status)

\* While people are outstanding nobody is added and no job goes back.
BatchOnlyMovesOn ==
  [][tickets # {} => \A u \in tickets' : \E t \in tickets : MovedOn(u, t)]_vars

\* A batch never stands still, with one pool thread for any number of people:
\* the queue, the pool, the order of the completions and their channel cannot
\* all wait for each other.
THEOREM BatchIsNeverStuck == Spec => []BatchCanMove
<1>1. IInv => BatchCanMove
  <2> SUFFICES ASSUME IInv, activeFilterCount > 0, completions = <<>>,
                      \A t \in tickets : t.status \notin {"working", "ready"}
               PROVE  \E t \in tickets : CanMove(t)
    BY DEF BatchCanMove, CanMove
  <2>1. \A t \in tickets : t.status \in TicketStatus /\ t.index \in Nat
    BY DEF IInv, TypeOK, Ticket
  <2>2. tickets # {} /\ IsFiniteSet(tickets)
    BY FS_EmptySet DEF IInv, ActiveCountsTickets
  <2>3. \A t \in tickets : t.status # "sent"
    <3> SUFFICES ASSUME NEW t \in tickets, t.status = "sent" PROVE FALSE
      OBVIOUS
    <3>1. t.person \in {u.person : u \in {v \in tickets : v.status = "sent"}}
      OBVIOUS
    <3>2. t.person \in {completions[i].person : i \in DOMAIN completions}
      BY <3>1 DEF IInv, CompletionsMatchTickets
    <3>3. DOMAIN completions = {}
      OBVIOUS
    <3> QED
      BY <3>2, <3>3
  <2>4. CASE \E t \in tickets : t.status = "queued"
    <3>1. {t \in tickets : t.status = "working"} = {}
      OBVIOUS
    <3>2. JobsWorking = 0
      <4>1. {t.at : t \in {u \in tickets : u.status = "working"}} = {}
        BY <3>1
      <4> QED
        BY <3>1, <4>1, FS_EmptySet DEF JobsWorking
    <3> QED
      BY <2>4, <3>2, ConfigAssumption DEF CanMove
  <2>5. CASE \A t \in tickets : t.status # "queued"
    <3>1. \A t \in tickets : t.status \in {"published", "failed"}
      BY <2>1, <2>3, <2>5 DEF TicketStatus
    <3>2. PICK t \in tickets : \A u \in tickets : t.index <= u.index
      BY <2>1, <2>2, FirstInLine
    <3>3. JobOf(t) \subseteq tickets
      BY DEF JobOf
    <3> QED
      BY <3>1, <3>2, <3>3 DEF CanMove
  <2> QED
    BY <2>4, <2>5
<1> QED
  BY <1>1, Invariance, PTL

\* A step of a task moves its tickets one place on.
LEMMA MovesOn ==
  ASSUME IInv, NEW J \in SUBSET tickets, NEW to \in TicketStatus,
         \A t \in J : to \in NextStatus(t.status),
         tickets' = (tickets \ J) \cup {[t EXCEPT !.status = to] : t \in J}
  PROVE  \A u \in tickets' : \E t \in tickets : MovedOn(u, t)
<1> DEFINE Moved(t) == [t EXCEPT !.status = to]
<1>1. \A t \in tickets : /\ Moved(t).person = t.person
                         /\ Moved(t).at = t.at
                         /\ Moved(t).index = t.index
                         /\ Moved(t).status = to
  BY DEF IInv, TypeOK, Ticket
<1>2. tickets' = (tickets \ J) \cup {Moved(t) : t \in J}
  OBVIOUS
<1> HIDE DEF Moved
<1>3. \A t \in J : MovedOn(Moved(t), t)
  BY <1>1 DEF MovedOn
<1>4. \A t \in tickets : MovedOn(t, t)
  BY DEF MovedOn
<1> QED
  BY <1>2, <1>3, <1>4

\* A batch only shrinks and its jobs only go forward, so a batch of n people is
\* over after at most 5n steps of the pool, the tasks and the loop: with
\* BatchIsNeverStuck, EveryBatchCompletes needs no more than that they are taken.
THEOREM BatchGoesOneWay == Spec => BatchOnlyMovesOn
<1> DEFINE Same(T) == \A u \in T : \E t \in tickets : MovedOn(u, t)
<1>1. IInv /\ [Next]_vars => (tickets # {} => Same(tickets'))
  <2> SUFFICES ASSUME IInv, [Next]_vars, tickets # {}
               PROVE  Same(tickets')
    OBVIOUS
  <2>1. ASSUME tickets' \subseteq tickets PROVE Same(tickets')
    BY <2>1 DEF MovedOn
  <2>2. ~CanSubmit
    BY FS_EmptySet DEF IInv, ActiveCountsTickets, CanSubmit
  <2>3. ASSUME NEW t \in tickets, NEW from, NEW to \in NextStatus(from),
               from \in {"queued", "working", "ready"}, Move(t, from, to)
        PROVE  Same(tickets')
    <3>1. JobOf(t) \in SUBSET tickets
      BY DEF JobOf
    <3>2. \A u \in JobOf(t) : u.status = from
      BY <2>3 DEF Move, JobOf, IInv, BatchInv, TypeOK
    <3>3. to \in TicketStatus
      BY <2>3 DEF NextStatus, TicketStatus
    <3>4. \A u \in JobOf(t) : to \in NextStatus(u.status)
      BY <2>3, <3>2
    <3>5. tickets' = (tickets \ JobOf(t))
                       \cup {[u EXCEPT !.status = to] : u \in JobOf(t)}
      BY <2>3 DEF Move
    <3> QED
      BY <3>1, <3>3, <3>4, <3>5, MovesOn
  <2>4. ASSUME NEW t \in tickets,
               \/ WorkerStarts(t) \/ WorkerFinishes(t)
               \/ PublishSucceeds(t) \/ PublishFails(t)
        PROVE  Same(tickets')
    <3>1. /\ "working" \in NextStatus("queued")
          /\ "ready" \in NextStatus("working")
          /\ "published" \in NextStatus("ready")
          /\ "failed" \in NextStatus("ready")
      BY DEF NextStatus
    <3>2. PICK from \in {"queued", "working", "ready"} :
            \E to \in NextStatus(from) : Move(t, from, to)
      BY <2>4, <3>1
         DEF WorkerStarts, WorkerFinishes, PublishSucceeds, PublishFails
    <3> QED
      BY <2>3, <3>2
  <2>5. ASSUME NEW t \in tickets, SendCompletion(t)
        PROVE  Same(tickets')
    <3>1. {t} \in SUBSET tickets /\ "sent" \in TicketStatus
      BY DEF TicketStatus
    <3>2. \A u \in {t} : "sent" \in NextStatus(u.status)
      BY <2>5 DEF SendCompletion, NextStatus
    <3>3. tickets' = (tickets \ {t}) \cup {[u EXCEPT !.status = "sent"] : u \in {t}}
      BY <2>5 DEF SendCompletion
    <3> QED
      BY <3>1, <3>2, <3>3, MovesOn
  <2> HIDE DEF Same
  <2> QED
    BY <2>1, <2>2, <2>4, <2>5 DEF Next, vars, ChoresArrive, PersonArrives,
       ReceiveChores, ReceivePerson, ExpireStale, FlushExpired, PruneOnly,
       PersonComplete, Tick
<1>2. IInv /\ [Next]_vars => [tickets # {} => Same(tickets')]_vars
  BY <1>1
<1> QED
  BY <1>2, Invariance, PTL DEF Spec, BatchOnlyMovesOn

-----------------------------------------------------------------------------
(* The Rust orchestrator implements Dispatch                               *)

\* A set of tickets with one chores message: what the CHOOSE of BatchChores finds.
LEMMA ChoresOf ==
  ASSUME NEW T, NEW t \in T, t.chores \in Chores, \A u \in T : u.chores = t.chores
  PROVE  (CHOOSE c \in Chores : \E u \in T : u.chores = c) = t.chores
<1>1. \A c \in Chores : (\E u \in T : u.chores = c) <=> c = t.chores
  OBVIOUS
<1> QED
  BY <1>1

LEMMA BatchChoresOf ==
  ASSUME IInv, NEW t \in tickets
  PROVE  BatchChores = t.chores
<1>1. t.chores \in Chores
  BY DEF IInv, TypeOK, Ticket
<1>2. \A u \in tickets : u.chores = t.chores
  BY DEF IInv, OneBatch
<1>3. (CHOOSE c \in Chores : \E u \in tickets : u.chores = c) = t.chores
  BY <1>1, <1>2, ChoresOf
<1> QED
  BY <1>3 DEF BatchChores

LEMMA BatchChoresOfNext ==
  ASSUME IInv', NEW t \in tickets'
  PROVE  BatchChores' = t.chores
<1>1. t.chores \in Chores
  BY DEF IInv, TypeOK, Ticket
<1>2. \A u \in tickets' : u.chores = t.chores
  BY DEF IInv, OneBatch
<1>3. (CHOOSE c \in Chores : \E u \in tickets' : u.chores = c) = t.chores
  BY <1>1, <1>2, ChoresOf
<1> QED
  BY <1>3 DEF BatchChores

\* The work of tasks and pool threads is invisible.
LEMMA WorkStep ==
  ASSUME IInv, IInv', NEW J \in SUBSET tickets, NEW to \in TicketStatus,
         tickets' = (tickets \ J) \cup {[u EXCEPT !.status = to] : u \in J}
  PROVE  UNCHANGED <<Batch, BatchChores>>
<1>1. SameBut(J, to)
  BY StatusChange
<1>2. Batch' = Batch
  BY <1>1 DEF Batch, PeopleOf, SameBut
<1>3. CASE tickets' = {}
  <2>1. tickets = {}
    BY <1>1, <1>3 DEF SameBut
  <2> QED
    BY <1>2, <1>3, <2>1 DEF BatchChores
<1>4. CASE tickets' # {}
  <2>1. PICK u \in tickets', v \in tickets : u.chores = v.chores
    BY <1>1, <1>4 DEF SameBut
  <2> QED
    BY <1>2, <2>1, BatchChoresOf, BatchChoresOfNext
<1> QED
  BY <1>3, <1>4

LEMMA TaskStep ==
  ASSUME IInv, IInv', NEW t \in tickets,
         \/ WorkerStarts(t) \/ WorkerFinishes(t) \/ PublishSucceeds(t)
         \/ PublishFails(t) \/ SendCompletion(t)
  PROVE  UNCHANGED <<latestChores, Gathering, Batch, BatchChores>>
<1>1. UNCHANGED <<latestChores, currentWindow>>
  BY DEF WorkerStarts, WorkerFinishes, PublishSucceeds, PublishFails,
     SendCompletion, Move, coordinator
<1>2. CASE SendCompletion(t)
  <2>1. tickets' = (tickets \ {t}) \cup {[u EXCEPT !.status = "sent"] : u \in {t}}
    BY <1>2 DEF SendCompletion
  <2>2. {t} \in SUBSET tickets /\ "sent" \in TicketStatus
    BY DEF TicketStatus
  <2> QED
    BY <1>1, <2>1, <2>2, WorkStep DEF Gathering
<1>3. CASE \/ WorkerStarts(t) \/ WorkerFinishes(t) \/ PublishSucceeds(t) \/ PublishFails(t)
  <2>1. PICK to \in {"working", "ready", "published", "failed"} :
          tickets' = (tickets \ JobOf(t)) \cup {[u EXCEPT !.status = to] : u \in JobOf(t)}
    BY <1>3 DEF WorkerStarts, WorkerFinishes, PublishSucceeds, PublishFails, Move
  <2>2. JobOf(t) \in SUBSET tickets /\ to \in TicketStatus
    BY DEF JobOf, TicketStatus
  <2> QED
    BY <1>1, <2>1, <2>2, WorkStep DEF Gathering
<1> QED
  BY <1>2, <1>3

LEMMA GatherStep ==
  ASSUME IInv, ReceivePerson
  PROVE  \E p \in People : D!Gather(p)
<1>1. PICK p \in People, a \in Availability :
        currentWindow' = Insert(IF currentWindow = None THEN EmptyWindow(clock)
                                                        ELSE currentWindow, p, a)
  BY ReceivePersonInv
<1>2. currentWindow' # None
  BY ReceivePersonInv
<1>3. Gathering' = Gathering \cup {p}
  BY <1>1, <1>2 DEF Gathering, Insert, EmptyWindow
<1>4. UNCHANGED <<latestChores, tickets>>
  BY DEF ReceivePerson
<1> QED
  BY <1>3, <1>4 DEF D!Gather, Batch, BatchChores

LEMMA FlushStep ==
  ASSUME IInv, IInv', FlushExpired
  PROVE  D!DispatchNext \/ UNCHANGED D!dispatchVars
<1>1. latestChores' = latestChores /\ Gathering' = {} /\ currentWindow # None
  BY DEF FlushExpired, Expired, Gathering
<1>2. CASE CanSubmit
  <2> DEFINE S == PeopleToRun
  <2>1. /\ tickets = {}
        /\ S \subseteq DOMAIN currentWindow.pending
        /\ S # {}
        /\ Cardinality(S) <= MaxPeople
        /\ S # DOMAIN currentWindow.pending => Cardinality(S) = MaxPeople
        /\ tickets' = {NewTicket(p) : p \in S}
        /\ \A p \in S : NewTicket(p).person = p /\ NewTicket(p).chores = latestChores
    BY <1>2, FlushSubmits
  <2> HIDE DEF S
  <2>2. Batch = {} /\ Batch' = S
    BY <2>1 DEF Batch
  <2>3. BatchChores' = latestChores
    <3>1. PICK u \in tickets' : u.chores = latestChores
      BY <2>1
    <3> QED
      BY <3>1, BatchChoresOfNext
  <2>4. D!Cardinality(S) = Cardinality(S)
    BY DEF D!Cardinality, Cardinality
  <2>5. D!Run(S)
    BY <1>1, <1>2, <2>1, <2>2, <2>3, <2>4 DEF D!Run, CanSubmit, Gathering
  <2>6. S \in (SUBSET Gathering) \ {{}}
    BY <1>1, <2>1 DEF Gathering
  <2> QED
    BY <2>5, <2>6 DEF D!DispatchNext
<1>3. CASE ~CanSubmit
  <2>1. UNCHANGED <<tickets, Batch, BatchChores>>
    BY <1>3 DEF FlushExpired, Batch, BatchChores
  <2>2. CASE DOMAIN currentWindow.pending = {}
    BY <1>1, <2>1, <2>2 DEF Gathering, D!dispatchVars
  <2>3. CASE latestChores = None
    BY <1>1, <2>1, <2>3 DEF D!Drop, D!DispatchNext
  <2>4. CASE activeFilterCount # 0
    <3>1. tickets # {}
      BY <2>4, FS_EmptySet DEF IInv, ActiveCountsTickets
    <3>2. Batch # {}
      BY <3>1 DEF Batch
    <3> QED
      BY <1>1, <2>1, <3>2 DEF D!Drop, D!DispatchNext
  <2> QED
    BY <1>3, <2>2, <2>3, <2>4 DEF CanSubmit
<1> QED
  BY <1>2, <1>3

LEMMA CompleteStep ==
  ASSUME IInv, IInv', PersonComplete
  PROVE  \E p \in Batch : D!Complete(p)
<1>1. UNCHANGED <<latestChores, currentWindow>>
  BY DEF PersonComplete
<1>2. PICK t \in tickets : tickets' = tickets \ {t}
  BY CompletionOfTicket DEF PersonComplete
<1>3. t.person \in Batch /\ Batch' = Batch \ {t.person}
  BY <1>2 DEF Batch, IInv, OneBatch
<1>4. BatchChores' = IF Batch' = {} THEN None ELSE BatchChores
  <2>1. CASE tickets' = {}
    BY <2>1 DEF Batch, BatchChores
  <2>2. CASE tickets' # {}
    <3>1. PICK u \in tickets' : TRUE
      BY <2>2
    <3>2. BatchChores' = u.chores /\ BatchChores = u.chores
      BY <1>2, <3>1, BatchChoresOf, BatchChoresOfNext
    <3>3. Batch' # {}
      BY <3>1 DEF Batch
    <3> QED
      BY <3>2, <3>3
  <2> QED
    BY <2>1, <2>2
<1> QED
  BY <1>1, <1>3, <1>4 DEF D!Complete, Gathering

LEMMA RefineInit == Init => D!DispatchInit
  BY DEF Init, D!DispatchInit, Gathering, Batch, BatchChores

LEMMA RefineNext == IInv /\ IInv' /\ [Next]_vars => [D!DispatchNext]_(D!dispatchVars)
<1> SUFFICES ASSUME IInv, IInv', [Next]_vars
             PROVE  D!DispatchNext \/ UNCHANGED D!dispatchVars
  OBVIOUS
<1> USE DEF D!dispatchVars
<1>1. CASE \/ \E c \in Chores : ChoresArrive(c)
           \/ \E p \in People, a \in Availability : PersonArrives(p, a)
           \/ PruneOnly
           \/ Tick
           \/ UNCHANGED vars
  <2>1. UNCHANGED <<latestChores, currentWindow, tickets>>
    BY <1>1 DEF ChoresArrive, PersonArrives, PruneOnly, Tick, vars, coordinator
  <2> QED
    BY <2>1 DEF Gathering, Batch, BatchChores
<1>2. CASE ReceiveChores
  <2>1. Head(choresSamples) \in Chores
    BY <1>2, HeadTailType DEF ReceiveChores, IInv, TypeOK
  <2>2. D!NewChores(Head(choresSamples))
    BY <1>2 DEF ReceiveChores, D!NewChores, Gathering, Batch, BatchChores
  <2> QED
    BY <2>1, <2>2 DEF D!DispatchNext
<1>3. CASE ReceivePerson
  BY <1>3, GatherStep DEF D!DispatchNext
<1>4. CASE FlushExpired
  BY <1>4, FlushStep
<1>5. CASE PersonComplete
  BY <1>5, CompleteStep DEF D!DispatchNext
<1>6. ASSUME NEW t \in tickets,
             \/ WorkerStarts(t) \/ WorkerFinishes(t) \/ PublishSucceeds(t)
             \/ PublishFails(t) \/ SendCompletion(t)
      PROVE  UNCHANGED D!dispatchVars
  BY <1>6, TaskStep
<1> QED
  BY <1>1, <1>2, <1>3, <1>4, <1>5, <1>6 DEF Next, ExpireStale

\* The Rust orchestrator implements the abstract orchestrator in both submission
\* modes: whatever the order of its tasks and pool threads, and whichever
\* publications fail, a window is run as one full batch or dropped for one of the
\* two reasons Dispatch allows.
THEOREM Refinement == Spec => ImplementsDispatch
<1> QED
  BY Invariance, RefineInit, RefineNext, PTL
     DEF Spec, ImplementsDispatch, D!DispatchSpec
=============================================================================
