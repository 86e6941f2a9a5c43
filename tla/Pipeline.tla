-------------------------------- MODULE Pipeline --------------------------------
(***************************************************************************)
(* The demo as a whole: the producer, the Python orchestrator and the      *)
(* consumer, joined by three Zenoh keys.  In every cycle the producer puts *)
(* a chores message and then, in random order, one availability message of *)
(* every person.                                                           *)
(*                                                                         *)
(* A key hands its messages over in order and may lose any of them.  Each  *)
(* subscriber has a callback thread of its own, so nothing is ordered      *)
(* between two keys: people of a cycle may arrive before its chores.       *)
(* Chores and availability messages are named by the cycle.                *)
(***************************************************************************)
EXTENDS PyCoordinator, Sequences

CONSTANT MaxCycles  \* bound: cycles of the producer

ASSUME CycleAssumption ==
  /\ MaxCycles \in Nat
  /\ 1..MaxCycles \subseteq Chores
  /\ 1..MaxCycles \subseteq Availability

VARIABLES
  cycle,      \* cycle_number; 0 before the first
  unsent,     \* people the producer has not sent in this cycle
  choresKey,  \* chores on their way to the orchestrator
  personKey,  \* availability messages on their way
  summaryKey, \* summaries on their way to the consumer
  consumed,   \* the last summary the consumer has logged
  heard,      \* history: the messages receive_person has joined since the last flush
  selected    \* history: the availability messages worked on

keys == <<choresKey, personKey, summaryKey>>

network == <<cycle, unsent, keys, consumed, heard, selected>>

pipelineVars == <<vars, network>>

PipelineInit ==
  /\ Init
  /\ cycle = 0
  /\ unsent = {}
  /\ choresKey = <<>>
  /\ personKey = <<>>
  /\ summaryKey = <<>>
  /\ consumed = None
  /\ heard = <<>>
  /\ selected = {}

\* What put() makes of a key.
Put(key, message) == {key, Append(key, message)}

-----------------------------------------------------------------------------
(* The producer                                                            *)

PutChores ==
  /\ unsent = {}
  /\ cycle < MaxCycles
  /\ cycle' = cycle + 1
  /\ unsent' = People
  /\ choresKey' \in Put(choresKey, cycle')
  /\ UNCHANGED <<vars, personKey, summaryKey, consumed, heard, selected>>

PutPerson(p) ==
  /\ p \in unsent
  /\ unsent' = unsent \ {p}
  /\ personKey' \in Put(personKey, [person |-> p, availability |-> cycle])
  /\ UNCHANGED <<vars, cycle, choresKey, summaryKey, consumed, heard, selected>>

-----------------------------------------------------------------------------
(* The orchestrator                                                        *)

\* Mutant: a key hands over its latest message.
DeliverLatestChores ==
  /\ choresKey # <<>>
  /\ ReceiveChores(choresKey[Len(choresKey)])
  /\ choresKey' = SubSeq(choresKey, 1, Len(choresKey) - 1)
  /\ UNCHANGED <<cycle, unsent, personKey, summaryKey, consumed, heard, selected>>

DeliverChores ==
  /\ choresKey # <<>>
  /\ ReceiveChores(Head(choresKey))
  /\ choresKey' = Tail(choresKey)
  /\ UNCHANGED <<cycle, unsent, personKey, summaryKey, consumed, heard, selected>>

DeliverPerson ==
  /\ personKey # <<>>
  /\ \/ /\ ReceivePerson(Head(personKey).person, Head(personKey).availability)
        /\ heard' = Append(heard, Head(personKey))
     \/ /\ OpenWindowTimerFails
        /\ UNCHANGED heard
  /\ personKey' = Tail(personKey)
  /\ UNCHANGED <<cycle, unsent, choresKey, summaryKey, consumed, selected>>

MessagesOf(S) == {<<t.person, t.availability>> : t \in S}

\* Mutant: the timer repeats and a submitted window stays.
FlushRepeats ==
  /\ \E t \in timers :
       /\ clock >= t + GatherWindow
       /\ CanSubmit
       /\ Submit
       /\ UNCHANGED <<clock, latestChores, currentWindow, timers, lastSummary>>
  /\ heard' = <<>>
  /\ selected' = selected \cup MessagesOf(tickets' \ tickets)
  /\ UNCHANGED <<cycle, unsent, keys, consumed>>

Flush ==
  /\ \E t \in timers : TimerFires(t)
  /\ heard' = <<>>
  /\ selected' = selected \cup MessagesOf(tickets' \ tickets)
  /\ UNCHANGED <<cycle, unsent, keys, consumed>>

Publish ==
  /\ \E t \in tickets : RunJobSucceeds(t)
  /\ summaryKey' \in Put(summaryKey, lastSummary')
  /\ UNCHANGED <<cycle, unsent, choresKey, personKey, consumed, heard, selected>>

OrchestratorAlone ==
  /\ \/ \E t \in tickets : RunJobFails(t)
     \/ \E t \in tickets : \E now \in t.at..clock : PersonComplete(t, now)
     \/ \E now \in 1..clock : ExpireStale(now)
     \/ Tick
  /\ UNCHANGED network

-----------------------------------------------------------------------------
(* The consumer                                                            *)

Consume ==
  /\ summaryKey # <<>>
  /\ consumed' = Head(summaryKey)
  /\ summaryKey' = Tail(summaryKey)
  /\ UNCHANGED <<vars, cycle, unsent, choresKey, personKey, heard, selected>>

PipelineNext ==
  \/ PutChores
  \/ \E p \in People : PutPerson(p)
  \/ DeliverChores
  \/ DeliverPerson
  \/ Flush
  \/ Publish
  \/ OrchestratorAlone
  \/ Consume

PipelineSpec == PipelineInit /\ [][PipelineNext]_pipelineVars

\* That of the coordinator, and what is on a key is handed over.
FairPipeline ==
  /\ PipelineSpec
  /\ Fairness
  /\ WF_pipelineVars(DeliverChores)
  /\ WF_pipelineVars(DeliverPerson)
  /\ WF_pipelineVars(Consume)

-----------------------------------------------------------------------------
(* Properties                                                              *)

\* The consumer sees the cycles in order, although people, chores and summaries
\* travel on different keys and every summary is published by its own thread.
CyclesInOrder ==
  [][consumed # None => consumed'.chores >= consumed.chores]_consumed

\* An availability message is worked on at most once, across dropped windows,
\* repeated people, failed jobs and the cycles that follow.
NewTickets == {t \in tickets' : \A u \in tickets : u.at # t.at}

MessageUsedOnce ==
  [][MessagesOf(NewTickets) \cap selected = {}]_pipelineVars

\* The i-th message heard is the last one of its person.
LastOfPerson(i) ==
  \A j \in DOMAIN heard : heard[j].person = heard[i].person => j <= i

\* However often a person is heard in a window, the last message counts: the
\* ticket carries it, and of people whose last selection is the same those run
\* whose last messages came first, a repeated person having lost its old place.
LastMessageCounts ==
  [][\A t \in NewTickets : \E i \in DOMAIN heard :
       /\ LastOfPerson(i)
       /\ heard[i] = [person |-> t.person, availability |-> t.availability]
       /\ \A j \in DOMAIN heard :
            /\ LastOfPerson(j)
            /\ \A u \in NewTickets : u.person # heard[j].person
            /\ LastSelected(personLastSelected, heard[j].person)
                 = LastSelected(personLastSelected, t.person)
            => i < j]_pipelineVars
=============================================================================
