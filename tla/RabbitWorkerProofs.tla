-------------------------- MODULE RabbitWorkerProofs --------------------------
(***************************************************************************)
(* No job is lost, the queue with its workers implements AtLeastOnce, and  *)
(* there are no more superfluous results than stops, for any number of     *)
(* workers, jobs, bad jobs and stops.                                      *)
(***************************************************************************)
EXTENDS RabbitWorker, Integers, FiniteSetTheorems, TLAPS

Has(w, kind) == \E k \in DOMAIN frames[w] : frames[w][k].kind = kind

\* What is on a channel: frames about the one delivery, the answer (ack or
\* nack) last, and an ack only after the result, handled or still before it.
ChannelInv(w) ==
  /\ \A i \in DOMAIN frames[w] :
       /\ frames[w][i].job = unacked[w]
       /\ frames[w][i].kind = "ack" =>
            \/ results[unacked[w]] > 0
            \/ \E k \in DOMAIN frames[w] : k < i /\ frames[w][k].kind = "result"
       /\ frames[w][i].kind \in {"ack", "nack"} =>
            i = Len(frames[w]) /\ worker[w] \in {"waiting", "stopped"}
  /\ worker[w] = "processing" => unacked[w] # None /\ frames[w] = <<>>
  /\ worker[w] = "published" =>
       unacked[w] # None /\ (results[unacked[w]] > 0 \/ Has(w, "result"))

IInv ==
  /\ TypeOK
  /\ \A w \in Workers : ChannelInv(w)
  /\ NothingLost

-----------------------------------------------------------------------------

\* A frame is about a job, and a channel without a frame is empty.
LEMMA FrameAt ==
  ASSUME NEW f \in Seq(Frame), NEW i \in DOMAIN f
  PROVE  f[i].kind \in {"result", "ack", "nack"} /\ f[i].job \in Jobs
<1>1. f[i] \in Frame
  OBVIOUS
<1> QED
  BY <1>1 DEF Frame

LEMMA NoFrames ==
  ASSUME NEW f \in Seq(Frame), DOMAIN f = {}
  PROVE  f = <<>>
<1>1. Len(f) \in Nat /\ DOMAIN f = 1..Len(f)
  OBVIOUS
<1>2. Len(f) = 0
  BY <1>1
<1> QED
  BY <1>2

LEMMA InitInv == Init => IInv
<1> SUFFICES ASSUME Init PROVE IInv
  OBVIOUS
<1>1. TypeOK
  BY WorkerAssumption DEF Init, TypeOK, WorkerState
<1>2. \A w \in Workers : ChannelInv(w)
  BY DEF Init, ChannelInv
<1>3. NothingLost
  BY DEF Init, NothingLost
<1> QED
  BY <1>1, <1>2, <1>3 DEF IInv

\* A step that changes only the state of workers, and leaves none of them
\* between a delivery and its answer.
LEMMA QuietInv ==
  ASSUME IInv, NEW w \in Workers,
         Connect(w) \/ Stop(w) \/ Restart(w)
  PROVE  IInv'
<1> USE DEF IInv
<1>1. UNCHANGED <<ready, unacked, frames, results>>
  BY DEF Connect, Stop, Restart
<1>2. PICK s \in {"waiting", "stopped", "connecting"} :
         /\ worker' = [worker EXCEPT ![w] = s]
         /\ s = "connecting" => frames[w] = <<>>
  BY DEF Connect, Stop, Restart
<1>3. stops' \in Nat
  BY DEF Connect, Stop, Restart, TypeOK
<1>4. TypeOK'
  BY <1>1, <1>2, <1>3 DEF TypeOK, WorkerState
<1>5. ASSUME NEW v \in Workers PROVE ChannelInv(v)'
  <2>1. CASE v # w
    BY <1>1, <1>2, <2>1 DEF ChannelInv, TypeOK, Has
  <2>2. CASE v = w
    <3>1. worker'[v] = s
      BY <1>2, <2>2 DEF TypeOK
    <3>2. ChannelInv(v)
      OBVIOUS
    <3> QED
      BY <1>1, <1>2, <2>2, <3>1, <3>2 DEF ChannelInv
  <2> QED
    BY <2>1, <2>2
<1>6. NothingLost'
  BY <1>1 DEF NothingLost
<1> QED
  BY <1>4, <1>5, <1>6

\* What a frame that is sent does to the channel of its worker.
LEMMA SendInv ==
  ASSUME IInv, NEW w \in Workers,
         Publish(w) \/ Ack(w) \/ Nack(w)
  PROVE  IInv'
<1> USE DEF IInv
<1>1. PICK kind \in {"result", "ack", "nack"}, next \in {"published", "waiting"} :
        /\ Send(w, kind, next)
        /\ kind = "result" => worker[w] = "processing" /\ next = "published"
        /\ kind = "ack" => worker[w] = "published" /\ next = "waiting"
        /\ kind = "nack" => worker[w] = "processing" /\ next = "waiting"
  BY DEF Publish, Ack, Nack
<1> DEFINE frame == [kind |-> kind, job |-> unacked[w]]
<1>2. /\ UNCHANGED <<ready, unacked, results, stops>>
      /\ frames' = [frames EXCEPT ![w] = Append(@, frame)]
      /\ worker' = [worker EXCEPT ![w] = next]
  BY <1>1 DEF Send
<1>3. worker[w] \in {"processing", "published"}
  BY <1>1
<1>4. unacked[w] \in Jobs
  BY <1>3 DEF ChannelInv, TypeOK
<1>5. frame \in Frame
  BY <1>4 DEF Frame
<1>6. frames[w] \in Seq(Frame)
  BY DEF TypeOK
<1>7. Append(frames[w], frame) \in Seq(Frame)
  BY <1>5, <1>6
<1>8. TypeOK'
  BY <1>2, <1>7 DEF TypeOK, WorkerState
<1>9. ASSUME NEW v \in Workers PROVE ChannelInv(v)'
  <2>1. CASE v # w
    BY <1>2, <2>1 DEF ChannelInv, TypeOK, Has
  <2>2. CASE v = w
    <3> DEFINE f == frames[w]
               g == Append(f, frame)
    <3>1. frames'[v] = g /\ worker'[v] = next /\ unacked'[v] = unacked[w]
      BY <1>2, <2>2 DEF TypeOK
    <3>2. /\ Len(g) = Len(f) + 1
          /\ DOMAIN g = 1..(Len(f) + 1)
          /\ \A i \in DOMAIN f : g[i] = f[i]
          /\ g[Len(f) + 1] = frame
          /\ DOMAIN f = 1..Len(f)
          /\ Len(f) \in Nat
      BY <1>5, <1>6
    <3>3. ChannelInv(w)
      OBVIOUS
    <3>4. \A i \in DOMAIN f : f[i].kind \notin {"ack", "nack"}
      BY <3>3, <1>3 DEF ChannelInv
    <3>5. \A i \in DOMAIN f : f[i].job = unacked[w]
      BY <3>3 DEF ChannelInv
    <3>6. kind = "ack" =>
             \/ results[unacked[w]] > 0
             \/ \E k \in DOMAIN f : f[k].kind = "result"
      BY <1>1, <3>3 DEF ChannelInv, Has
    <3>7. frame.kind = kind /\ frame.job = unacked[w]
      OBVIOUS
    <3>8. \A i \in DOMAIN g : g[i].job = unacked[w]
      BY <3>2, <3>5, <3>7
    <3>9. \A i \in DOMAIN g : g[i].kind = "ack" =>
             \/ results[unacked[w]] > 0
             \/ \E k \in DOMAIN g : k < i /\ g[k].kind = "result"
      BY <3>2, <3>4, <3>6, <3>7
    <3>10. \A i \in DOMAIN g : g[i].kind \in {"ack", "nack"} =>
             i = Len(g) /\ next = "waiting"
      BY <1>1, <3>2, <3>4, <3>7
    <3>11. next = "published" => \E k \in DOMAIN g : g[k].kind = "result"
      BY <1>1, <3>2, <3>7
    <3>12. unacked[w] # None
      BY <1>4, WorkerAssumption
    <3> HIDE DEF g
    <3> QED
      BY <1>1, <1>2, <2>2, <3>1, <3>8, <3>9, <3>10, <3>11, <3>12 DEF ChannelInv, Has
  <2> QED
    BY <2>1, <2>2
<1>10. NothingLost'
  BY <1>2 DEF NothingLost
<1> QED
  BY <1>8, <1>9, <1>10

LEMMA DeliverInv ==
  ASSUME IInv, NEW w \in Workers, Deliver(w)
  PROVE  IInv'
<1> USE DEF IInv
<1>1. PICK j \in ready :
        /\ ready' = ready \ {j}
        /\ unacked' = [unacked EXCEPT ![w] = j]
  BY DEF Deliver
<1>2. /\ worker' = [worker EXCEPT ![w] = "processing"]
      /\ UNCHANGED <<frames, results, stops>>
      /\ unacked[w] = None
  BY DEF Deliver
<1>3. j \in Jobs
  BY DEF TypeOK
<1>4. TypeOK'
  BY <1>1, <1>2, <1>3 DEF TypeOK, WorkerState
<1>5. frames[w] = <<>>
  <2>1. frames[w] \in Seq(Frame)
    BY DEF TypeOK
  <2>2. \A i \in DOMAIN frames[w] : frames[w][i].job = None
    BY <1>2 DEF ChannelInv
  <2>3. \A i \in DOMAIN frames[w] : frames[w][i].job \in Jobs
    BY <2>1, FrameAt
  <2>4. DOMAIN frames[w] = {}
    BY <2>2, <2>3, WorkerAssumption
  <2> QED
    BY <2>1, <2>4, NoFrames
<1>6. ASSUME NEW v \in Workers PROVE ChannelInv(v)'
  <2>1. CASE v # w
    BY <1>1, <1>2, <2>1 DEF ChannelInv, TypeOK, Has
  <2>2. CASE v = w
    <3>1. frames'[v] = <<>> /\ worker'[v] = "processing" /\ unacked'[v] = j
      BY <1>1, <1>2, <1>5, <2>2 DEF TypeOK
    <3>2. DOMAIN frames'[v] = {} /\ j # None
      BY <3>1, <1>3, WorkerAssumption
    <3> QED
      BY <3>1, <3>2 DEF ChannelInv
  <2> QED
    BY <2>1, <2>2
<1>7. NothingLost'
  <2>1. unacked'[w] = j /\ \A v \in Workers \ {w} : unacked'[v] = unacked[v]
    BY <1>1 DEF TypeOK
  <2>2. \A k \in Jobs : unacked[w] # k
    BY <1>2, WorkerAssumption
  <2> QED
    BY <1>1, <1>2, <2>1, <2>2 DEF NothingLost
<1> QED
  BY <1>4, <1>6, <1>7

\* The broker takes the first frame of a channel.
LEMMA HandleInv ==
  ASSUME IInv, NEW w \in Workers, Handle(w)
  PROVE  IInv'
<1> USE DEF IInv
<1> DEFINE f == frames[w]
           g == Tail(f)
           first == f[1]
<1>1. f # <<>> /\ f \in Seq(Frame)
  BY DEF Handle, TypeOK
<1>2. /\ frames' = [frames EXCEPT ![w] = g]
      /\ UNCHANGED <<worker, stops>>
  BY DEF Handle
<1>3. /\ Len(f) \in Nat \ {0}
      /\ DOMAIN f = 1..Len(f)
      /\ g \in Seq(Frame)
      /\ Len(g) = Len(f) - 1
      /\ DOMAIN g = 1..(Len(f) - 1)
      /\ \A i \in DOMAIN g : g[i] = f[i + 1]
  BY <1>1
<1>4. first \in Frame /\ Head(f) = first
  BY <1>1, <1>3
<1>5. first.job = unacked[w] /\ first.job \in Jobs
  BY <1>3, <1>4 DEF ChannelInv, Frame
<1>6. CASE first.kind = "result"
  <2>1. /\ results' = [results EXCEPT ![first.job] = @ + 1]
        /\ UNCHANGED <<ready, unacked>>
    BY <1>4, <1>6 DEF Handle
  <2>2. \A j \in Jobs : results[j] > 0 => results'[j] > 0
    BY <2>1, <1>5 DEF TypeOK
  <2>3. results'[unacked[w]] > 0
    BY <2>1, <1>5 DEF TypeOK
  <2>4. TypeOK'
    BY <1>2, <1>3, <1>5, <2>1 DEF TypeOK
  <2>5. ASSUME NEW v \in Workers PROVE ChannelInv(v)'
    <3>1. CASE v # w
      <4>1. ChannelInv(v) /\ frames'[v] = frames[v] /\ unacked'[v] = unacked[v]
        BY <1>2, <2>1, <3>1 DEF TypeOK
      <4>2. \A i \in DOMAIN frames[v] : unacked[v] \in Jobs
        <5>1. frames[v] \in Seq(Frame)
          BY DEF TypeOK
        <5>2. \A i \in DOMAIN frames[v] : frames[v][i].job = unacked[v]
          BY <4>1 DEF ChannelInv
        <5> QED
          BY <5>1, <5>2, FrameAt
      <4>3. worker[v] = "published" => unacked[v] \in Jobs
        BY <4>1 DEF ChannelInv, TypeOK
      <4>4. /\ \A i \in DOMAIN frames[v] :
                 results[unacked[v]] > 0 => results'[unacked[v]] > 0
            /\ worker[v] = "published" =>
                 (results[unacked[v]] > 0 => results'[unacked[v]] > 0)
        BY <2>2, <4>2, <4>3
      <4>5. worker'[v] = worker[v]
        BY <1>2
      <4>6. \A i \in DOMAIN frames'[v] :
              /\ frames'[v][i].job = unacked'[v]
              /\ frames'[v][i].kind = "ack" =>
                   \/ results'[unacked'[v]] > 0
                   \/ \E k \in DOMAIN frames'[v] : k < i /\ frames'[v][k].kind = "result"
              /\ frames'[v][i].kind \in {"ack", "nack"} =>
                   i = Len(frames'[v]) /\ worker'[v] \in {"waiting", "stopped"}
        BY <4>1, <4>4, <4>5 DEF ChannelInv
      <4>7. worker'[v] = "published" =>
              /\ unacked'[v] # None
              /\ results'[unacked'[v]] > 0 \/ Has(v, "result")'
        BY <4>1, <4>4, <4>5 DEF ChannelInv, Has
      <4> QED
        BY <4>1, <4>5, <4>6, <4>7 DEF ChannelInv
    <3>2. CASE v = w
      <4>1. frames'[v] = g /\ unacked'[v] = unacked[w] /\ worker'[v] = worker[w]
        BY <1>2, <2>1, <3>2 DEF TypeOK
      <4>2. ChannelInv(w)
        OBVIOUS
      <4>3. worker[w] # "processing"
        BY <4>2, <1>1 DEF ChannelInv
      <4>4. unacked[w] # None
        BY <1>5, WorkerAssumption
      <4>5. \A i \in DOMAIN g : i + 1 \in DOMAIN f
        BY <1>3
      <4>6. \A i \in DOMAIN g :
              /\ g[i].job = unacked[w]
              /\ g[i].kind \in {"ack", "nack"} =>
                   i + 1 = Len(f) /\ worker[w] \in {"waiting", "stopped"}
        BY <4>2, <4>5, <1>3 DEF ChannelInv
      <4>7. \A i \in DOMAIN g : i + 1 = Len(f) => i = Len(g)
        BY <1>3
      <4> HIDE DEF g, f
      <4> QED
        BY <2>3, <4>1, <4>3, <4>4, <4>6, <4>7 DEF ChannelInv
    <3> QED
      BY <3>1, <3>2
  <2>6. NothingLost'
    BY <2>1, <2>2 DEF NothingLost
  <2> QED
    BY <2>4, <2>5, <2>6
<1>7. CASE first.kind \in {"ack", "nack"}
  <2>1. /\ unacked' = [unacked EXCEPT ![w] = None]
        /\ UNCHANGED results
        /\ ready \subseteq ready'
        /\ ready' \subseteq ready \cup {first.job}
        /\ first.kind = "nack" => first.job \in ready'
    <3>1. CASE first.kind = "ack"
      BY <1>4, <3>1 DEF Handle
    <3>2. CASE first.kind = "nack"
      BY <1>4, <3>2 DEF Handle
    <3> QED
      BY <1>7, <3>1, <3>2
  <2>2. Len(f) = 1 /\ worker[w] \in {"waiting", "stopped"}
    <3>1. 1 \in DOMAIN f
      BY <1>3
    <3> HIDE DEF f
    <3>2. ChannelInv(w)
      OBVIOUS
    <3> QED
      BY <1>7, <3>1, <3>2 DEF ChannelInv, f
  <2>3. g = <<>>
    BY <1>3, <2>2
  <2>4. first.kind = "ack" => results[first.job] > 0
    BY <1>3, <1>5, <2>2 DEF ChannelInv
  <2>5. TypeOK'
    BY <1>2, <1>3, <1>5, <2>1 DEF TypeOK
  <2>6. ASSUME NEW v \in Workers PROVE ChannelInv(v)'
    <3>1. CASE v # w
      BY <1>2, <2>1, <3>1 DEF ChannelInv, TypeOK, Has
    <3>2. CASE v = w
      <4>1. frames'[v] = <<>> /\ worker'[v] \in {"waiting", "stopped"}
        BY <1>2, <2>2, <2>3, <3>2 DEF TypeOK
      <4>2. DOMAIN frames'[v] = {}
        BY <4>1
      <4> QED
        BY <4>1, <4>2 DEF ChannelInv
    <3> QED
      BY <3>1, <3>2
  <2>7. NothingLost'
    <3>1. \A v \in Workers \ {w} : unacked'[v] = unacked[v]
      BY <2>1 DEF TypeOK
    <3>2. first.job \in ready' \/ results[first.job] > 0
      BY <1>7, <2>1, <2>4
    <3> QED
      BY <1>5, <2>1, <3>1, <3>2 DEF NothingLost
  <2> QED
    BY <2>5, <2>6, <2>7
<1> QED
  BY <1>4, <1>6, <1>7 DEF Frame

LEMMA CloseChannelInv ==
  ASSUME IInv, NEW w \in Workers, CloseChannel(w)
  PROVE  IInv'
<1> USE DEF IInv
<1>1. /\ worker[w] = "stopped"
      /\ frames' = [frames EXCEPT ![w] = <<>>]
      /\ unacked' = [unacked EXCEPT ![w] = None]
      /\ ready' = ready \cup ({unacked[w]} \ {None})
      /\ UNCHANGED <<worker, results, stops>>
  BY DEF CloseChannel
<1>2. TypeOK'
  BY <1>1 DEF TypeOK
<1>3. ASSUME NEW v \in Workers PROVE ChannelInv(v)'
  <2>1. CASE v # w
    BY <1>1, <2>1 DEF ChannelInv, TypeOK, Has
  <2>2. CASE v = w
    <3>1. frames'[v] = <<>> /\ worker'[v] = "stopped"
      BY <1>1, <2>2 DEF TypeOK
    <3>2. DOMAIN frames'[v] = {}
      BY <3>1
    <3> QED
      BY <3>1, <3>2 DEF ChannelInv
  <2> QED
    BY <2>1, <2>2
<1>4. NothingLost'
  <2>1. \A v \in Workers \ {w} : unacked'[v] = unacked[v]
    BY <1>1 DEF TypeOK
  <2>2. \A j \in Jobs : j # None
    BY WorkerAssumption
  <2> QED
    BY <1>1, <2>1, <2>2 DEF NothingLost
<1> QED
  BY <1>2, <1>3, <1>4

LEMMA NextInv == IInv /\ [Next]_vars => IInv'
<1> SUFFICES ASSUME IInv, [Next]_vars PROVE IInv'
  OBVIOUS
<1>1. CASE Next
  <2> PICK w \in Workers :
        \/ Connect(w) \/ Publish(w) \/ Ack(w) \/ Nack(w) \/ Stop(w)
        \/ Restart(w) \/ Deliver(w) \/ Handle(w) \/ CloseChannel(w)
    BY <1>1 DEF Next
  <2>1. CASE Connect(w) \/ Stop(w) \/ Restart(w)
    BY <2>1, QuietInv
  <2>2. CASE Publish(w) \/ Ack(w) \/ Nack(w)
    BY <2>2, SendInv
  <2>3. CASE Deliver(w)
    BY <2>3, DeliverInv
  <2>4. CASE Handle(w)
    BY <2>4, HandleInv
  <2>5. CASE CloseChannel(w)
    BY <2>5, CloseChannelInv
  <2> QED
    BY <2>1, <2>2, <2>3, <2>4, <2>5
<1>2. CASE UNCHANGED vars
  BY <1>2 DEF vars, IInv, TypeOK, ChannelInv, Has, NothingLost
<1> QED
  BY <1>1, <1>2

\* The worker's channels keep their shape in every behaviour.
THEOREM Invariance == Spec => []IInv
<1> QED
  BY InitInv, NextInv, PTL DEF Spec

\* Every variable keeps its type.
THEOREM TypeCorrect == Spec => []TypeOK
<1>1. IInv => TypeOK
  BY DEF IInv
<1> QED
  BY <1>1, Invariance, PTL

\* NothingLost, for every number of workers, jobs, bad jobs and stops: a job
\* that left the queue and every channel has its result in the result queue.
THEOREM NoJobIsLost == Spec => []NothingLost
<1>1. IInv => NothingLost
  BY DEF IInv
<1> QED
  BY <1>1, Invariance, PTL

-----------------------------------------------------------------------------
(* RabbitWorker implements AtLeastOnce                                     *)

LEMMA InitMaps == Init => A!JobsInit
<1> SUFFICES ASSUME Init PROVE A!JobsInit
  OBVIOUS
<1>1. {unacked[w] : w \in Workers} \subseteq {None}
  BY DEF Init
<1>2. Owed = Jobs
  BY <1>1 DEF Init, Owed
<1> QED
  BY <1>2 DEF Init, A!JobsInit

\* Steps of a worker leave the broker alone.
LEMMA WorkerStutters ==
  ASSUME NEW w \in Workers,
         Connect(w) \/ Stop(w) \/ Restart(w) \/ Publish(w) \/ Ack(w) \/ Nack(w)
  PROVE  UNCHANGED <<Owed, results>>
<1>1. UNCHANGED <<ready, unacked, results>>
  BY DEF Connect, Stop, Restart, Publish, Ack, Nack, Send
<1> QED
  BY <1>1 DEF Owed

\* The jobs of the other workers stay where they are.
LEMMA OwedOf ==
  ASSUME TypeOK, NEW w \in Workers, NEW d \in Jobs \cup {None},
         unacked' = [unacked EXCEPT ![w] = d]
  PROVE  LET others == {unacked[v] : v \in Workers \ {w}}
         IN  /\ Owed = ready \cup ((others \cup {unacked[w]}) \ {None})
             /\ Owed' = ready' \cup ((others \cup {d}) \ {None})
<1> DEFINE others == {unacked[v] : v \in Workers \ {w}}
<1>1. {unacked[v] : v \in Workers} = others \cup {unacked[w]}
  OBVIOUS
<1>2. unacked'[w] = d /\ \A v \in Workers \ {w} : unacked'[v] = unacked[v]
  BY DEF TypeOK
<1>3. {unacked'[v] : v \in Workers} = others \cup {d}
  BY <1>2
<1> QED
  BY <1>1, <1>3 DEF Owed

\* A delivery moves a job from the queue to a channel, a closed channel back.
LEMMA MoveStutters ==
  ASSUME IInv, NEW w \in Workers, Deliver(w) \/ CloseChannel(w)
  PROVE  UNCHANGED <<Owed, results>>
<1> USE DEF IInv
<1> DEFINE others == {unacked[v] : v \in Workers \ {w}}
<1>1. CASE Deliver(w)
  <2>1. PICK j \in ready :
          /\ ready' = ready \ {j}
          /\ unacked' = [unacked EXCEPT ![w] = j]
    BY <1>1 DEF Deliver
  <2>2. j \in Jobs /\ j # None
    BY WorkerAssumption DEF TypeOK
  <2>3. unacked[w] = None /\ results' = results
    BY <1>1 DEF Deliver
  <2>4. /\ Owed = ready \cup ((others \cup {unacked[w]}) \ {None})
        /\ Owed' = ready' \cup ((others \cup {j}) \ {None})
    BY <2>1, <2>2, OwedOf
  <2> HIDE DEF others
  <2> QED
    BY <2>1, <2>2, <2>3, <2>4
<1>2. CASE CloseChannel(w)
  <2>1. /\ unacked' = [unacked EXCEPT ![w] = None]
        /\ ready' = ready \cup ({unacked[w]} \ {None})
        /\ results' = results
    BY <1>2 DEF CloseChannel
  <2>2. /\ Owed = ready \cup ((others \cup {unacked[w]}) \ {None})
        /\ Owed' = ready' \cup ((others \cup {None}) \ {None})
    BY <2>1, OwedOf
  <2> HIDE DEF others
  <2> QED
    BY <2>1, <2>2
<1> QED
  BY <1>1, <1>2

\* The first frame of a channel is about an owed job: a result is one for it, an
\* ack settles it, for its result was handled before, and a nack puts it back.
LEMMA HandleMaps ==
  ASSUME IInv, NEW w \in Workers, Handle(w)
  PROVE  A!JobsNext \/ UNCHANGED <<Owed, results>>
<1> USE DEF IInv
<1> DEFINE f == frames[w]
           first == f[1]
           j == first.job
           others == {unacked[v] : v \in Workers \ {w}}
<1>1. f # <<>> /\ f \in Seq(Frame)
  BY DEF Handle, TypeOK
<1>2. /\ 1 \in DOMAIN f
      /\ Head(f) = first
      /\ \A k \in DOMAIN f : ~(k < 1)
  BY <1>1
<1>3. j = unacked[w] /\ j \in Jobs /\ j # None
  <2>1. j \in Jobs /\ j # None
    BY <1>1, <1>2, FrameAt, WorkerAssumption
  <2> QED
    BY <1>2, <2>1 DEF ChannelInv
<1>4. j \in Owed
  BY <1>3 DEF Owed
<1>5. first.kind \in {"result", "ack", "nack"}
  BY <1>1, <1>2, FrameAt
<1>6. CASE first.kind = "result"
  <2>1. /\ results' = [results EXCEPT ![j] = @ + 1]
        /\ UNCHANGED <<ready, unacked>>
    BY <1>2, <1>6 DEF Handle
  <2>2. Owed' = Owed
    BY <2>1 DEF Owed
  <2>3. A!Produce(j)
    BY <1>4, <2>1, <2>2 DEF A!Produce
  <2> QED
    BY <1>3, <2>3 DEF A!JobsNext
<1>7. CASE first.kind = "ack"
  <2>1. /\ unacked' = [unacked EXCEPT ![w] = None]
        /\ UNCHANGED <<ready, results>>
    BY <1>2, <1>7 DEF Handle
  <2>2. /\ Owed = ready \cup ((others \cup {unacked[w]}) \ {None})
        /\ Owed' = ready' \cup ((others \cup {None}) \ {None})
    BY <2>1, OwedOf
  <2>3. results[j] > 0
    BY <1>2, <1>3, <1>7 DEF ChannelInv
  <2>4. CASE j \in ready \cup others
    <3> HIDE DEF others
    <3>1. Owed' = Owed
      BY <1>3, <2>1, <2>2, <2>4
    <3> QED
      BY <2>1, <3>1
  <2>5. CASE j \notin ready \cup others
    <3> HIDE DEF others
    <3>1. Owed' = Owed \ {j}
      BY <1>3, <2>1, <2>2, <2>5
    <3>2. A!Settle(j)
      BY <1>4, <2>1, <2>3, <3>1 DEF A!Settle
    <3> QED
      BY <1>3, <3>2 DEF A!JobsNext
  <2> QED
    BY <2>4, <2>5
<1>8. CASE first.kind = "nack"
  <2>1. /\ unacked' = [unacked EXCEPT ![w] = None]
        /\ ready' = ready \cup {j}
        /\ results' = results
    BY <1>2, <1>8 DEF Handle
  <2>2. /\ Owed = ready \cup ((others \cup {unacked[w]}) \ {None})
        /\ Owed' = ready' \cup ((others \cup {None}) \ {None})
    BY <2>1, OwedOf
  <2> HIDE DEF others
  <2>3. Owed' = Owed
    BY <1>3, <2>1, <2>2
  <2> QED
    BY <2>1, <2>3
<1> QED
  BY <1>5, <1>6, <1>7, <1>8

LEMMA StepMaps == IInv /\ [Next]_vars => [A!JobsNext]_(A!jobVars)
<1> SUFFICES ASSUME IInv, [Next]_vars
             PROVE  A!JobsNext \/ UNCHANGED <<Owed, results>>
  BY DEF A!jobVars
<1>1. CASE Next
  <2> PICK w \in Workers :
        \/ Connect(w) \/ Publish(w) \/ Ack(w) \/ Nack(w) \/ Stop(w)
        \/ Restart(w) \/ Deliver(w) \/ Handle(w) \/ CloseChannel(w)
    BY <1>1 DEF Next
  <2>1. CASE Deliver(w) \/ CloseChannel(w)
    BY <2>1, MoveStutters
  <2>2. CASE Handle(w)
    BY <2>2, HandleMaps
  <2> QED
    BY <2>1, <2>2, WorkerStutters
<1>2. CASE UNCHANGED vars
  BY <1>2 DEF vars, Owed
<1> QED
  BY <1>1, <1>2

\* The durable queue with its workers keeps the promise of AtLeastOnce: a job is
\* settled only after its result, and never again gets one, whoever stops when.
THEOREM WorkersImplementAtLeastOnce == Spec => ImplementsAtLeastOnce
<1> QED
  BY InitMaps, StepMaps, Invariance, PTL DEF Spec, ImplementsAtLeastOnce, A!JobsSpec

-----------------------------------------------------------------------------
(* Superfluous results                                                     *)

\* A job is in one place, and a channel has at most one frame that decides
\* about its delivery: its result or its nack, the first one.
PlaceInv ==
  /\ \A v, w \in Workers : unacked[v] = unacked[w] /\ unacked[w] # None => v = w
  /\ \A w \in Workers : unacked[w] \notin ready
  /\ \A w \in Workers : \A k \in DOMAIN frames[w] :
       frames[w][k].kind \in {"result", "nack"} => k = 1

\* The delivery of w has no result in the result queue, and may still get one
\* or be put back.
Undecided(w) ==
  \/ worker[w] = "processing"
  \/ \E k \in DOMAIN frames[w] : frames[w][k].kind \in {"result", "nack"}

\* Jobs whose present turn has no result in the result queue: every result they
\* have is one too many already.
Open == ready \cup {unacked[w] : w \in {v \in Workers : Undecided(v)}}

Excess ==
  {jk \in Jobs \X (Nat \ {0}) :
     jk[2] < results[jk[1]] \/ (jk[2] = results[jk[1]] /\ jk[1] \in Open)}

\* Workers that have stopped with a delivery the broker has not put back.
Unnoticed == {w \in Workers : worker[w] = "stopped" /\ unacked[w] # None}

\* Every stop pays for one delivery that is put back.
CountInv ==
  /\ IsFiniteSet(Excess)
  /\ IsFiniteSet(Unnoticed)
  /\ Cardinality(Excess) + Cardinality(Unnoticed) <= stops

SInv == IInv /\ PlaceInv /\ CountInv

\* What a step does to the channel of w and to no other.
OnlyAt(w) ==
  \A v \in Workers \ {w} :
    unacked'[v] = unacked[v] /\ frames'[v] = frames[v] /\ worker'[v] = worker[v]

LEMMA StepIsLocal ==
  ASSUME TypeOK, NEW w \in Workers,
         \/ Connect(w) \/ Publish(w) \/ Ack(w) \/ Nack(w) \/ Stop(w)
         \/ Restart(w) \/ Deliver(w) \/ Handle(w) \/ CloseChannel(w)
  PROVE  OnlyAt(w)
<1>1. unacked' = unacked \/ \E d : unacked' = [unacked EXCEPT ![w] = d]
  <2>1. CASE Handle(w)
    <3>1. Head(frames[w]).kind \in {"result", "ack", "nack"}
      <4>1. frames[w] \in Seq(Frame) /\ frames[w] # <<>>
        BY <2>1 DEF Handle, TypeOK
      <4>2. 1 \in DOMAIN frames[w] /\ Head(frames[w]) = frames[w][1]
        BY <4>1
      <4> QED
        BY <4>1, <4>2, FrameAt
    <3>2. CASE Head(frames[w]).kind = "result"
      BY <2>1, <3>2 DEF Handle
    <3>3. CASE Head(frames[w]).kind = "ack"
      BY <2>1, <3>3 DEF Handle
    <3>4. CASE Head(frames[w]).kind = "nack"
      BY <2>1, <3>4 DEF Handle
    <3> QED
      BY <3>1, <3>2, <3>3, <3>4
  <2>2. CASE ~Handle(w)
    BY <2>2 DEF Connect, Publish, Ack, Nack, Send, Stop, Restart, Deliver,
       CloseChannel
  <2> QED
    BY <2>1, <2>2
<1>2. frames' = frames \/ \E f : frames' = [frames EXCEPT ![w] = f]
  BY DEF Connect, Publish, Ack, Nack, Send, Stop, Restart, Deliver, Handle,
     CloseChannel
<1>3. worker' = worker \/ \E s : worker' = [worker EXCEPT ![w] = s]
  BY DEF Connect, Publish, Ack, Nack, Send, Stop, Restart, Deliver, Handle,
     CloseChannel
<1> QED
  BY <1>1, <1>2, <1>3 DEF OnlyAt, TypeOK

OpenElsewhere(w) == {unacked[v] : v \in {u \in Workers \ {w} : Undecided(u)}}

LEMMA OpenOf ==
  ASSUME NEW w \in Workers, OnlyAt(w)
  PROVE  /\ Open = ready \cup OpenElsewhere(w)
                     \cup (IF Undecided(w) THEN {unacked[w]} ELSE {})
         /\ Open' = ready' \cup OpenElsewhere(w)
                     \cup (IF Undecided(w)' THEN {unacked'[w]} ELSE {})
<1>1. \A v \in Workers \ {w} : Undecided(v)' <=> Undecided(v)
  BY DEF OnlyAt, Undecided
<1>2. OpenElsewhere(w)' = OpenElsewhere(w)
  BY <1>1 DEF OpenElsewhere, OnlyAt
<1>3. Open = ready \cup OpenElsewhere(w) \cup (IF Undecided(w) THEN {unacked[w]} ELSE {})
  BY DEF Open, OpenElsewhere
<1>4. Open' = ready' \cup OpenElsewhere(w)'
                \cup (IF Undecided(w)' THEN {unacked'[w]} ELSE {})
  <2> HIDE DEF Undecided
  <2> QED
    BY DEF Open, OpenElsewhere
<1> QED
  BY <1>2, <1>3, <1>4

\* The delivery of w is open nowhere else.
LEMMA NotElsewhere ==
  ASSUME PlaceInv, NEW w \in Workers, unacked[w] # None
  PROVE  unacked[w] \notin OpenElsewhere(w) \cup ready
  BY DEF PlaceInv, OpenElsewhere

LEMMA UnnoticedOf ==
  ASSUME NEW w \in Workers, OnlyAt(w)
  PROVE  /\ Unnoticed' \subseteq Unnoticed \cup {w}
         /\ (worker'[w] = "stopped" /\ unacked'[w] # None
               => worker[w] = "stopped" /\ unacked[w] # None)
              => Unnoticed' \subseteq Unnoticed
         /\ ~(worker'[w] = "stopped" /\ unacked'[w] # None)
              => Unnoticed' \subseteq Unnoticed \ {w}
  BY DEF Unnoticed, OnlyAt

\* The broker takes the first frame of a channel: no other one decides about the
\* delivery.
LEMMA HandleCases ==
  ASSUME IInv, PlaceInv, NEW w \in Workers, Handle(w)
  PROVE  /\ unacked[w] \in Jobs /\ unacked[w] # None
         /\ UNCHANGED <<worker, stops>>
         /\ ~Undecided(w)'
         /\ \A k \in DOMAIN frames'[w] : frames'[w][k].kind \notin {"result", "nack"}
         /\ \/ /\ Undecided(w)
               /\ results' = [results EXCEPT ![unacked[w]] = @ + 1]
               /\ UNCHANGED <<ready, unacked>>
            \/ /\ ~Undecided(w)
               /\ unacked' = [unacked EXCEPT ![w] = None]
               /\ UNCHANGED <<ready, results>>
            \/ /\ Undecided(w)
               /\ unacked' = [unacked EXCEPT ![w] = None]
               /\ ready' = ready \cup {unacked[w]}
               /\ results' = results
<1> USE DEF IInv
<1> DEFINE f == frames[w]
           first == f[1]
<1>1. f # <<>> /\ f \in Seq(Frame)
  BY DEF Handle, TypeOK
<1>2. /\ frames' = [frames EXCEPT ![w] = Tail(f)]
      /\ UNCHANGED <<worker, stops>>
  BY DEF Handle
<1>3. /\ Len(f) \in Nat \ {0}
      /\ DOMAIN f = 1..Len(f)
      /\ 1 \in DOMAIN f
      /\ Head(f) = first
      /\ DOMAIN Tail(f) = 1..(Len(f) - 1)
      /\ \A i \in DOMAIN Tail(f) : Tail(f)[i] = f[i + 1]
  BY <1>1
<1>4. first.kind \in {"result", "ack", "nack"} /\ first.job \in Jobs
  BY <1>1, <1>3, FrameAt
<1>5. ChannelInv(w)
  OBVIOUS
<1>6. unacked[w] = first.job /\ unacked[w] # None
  BY <1>3, <1>4, <1>5, WorkerAssumption DEF ChannelInv
<1>7. worker[w] # "processing"
  BY <1>1, <1>5 DEF ChannelInv
<1>8. \A k \in DOMAIN f : f[k].kind \in {"result", "nack"} => k = 1
  BY DEF PlaceInv
<1>9. first.kind = "ack" => Len(f) = 1
  BY <1>3, <1>5 DEF ChannelInv
<1>10. frames'[w] = Tail(f)
  BY <1>2 DEF TypeOK
<1> HIDE DEF f
<1>11. \A k \in DOMAIN frames'[w] : frames'[w][k].kind \notin {"result", "nack"}
  <2> TAKE k \in DOMAIN frames'[w]
  <2>1. frames'[w][k] = f[k + 1] /\ k + 1 \in DOMAIN f /\ k + 1 # 1
    BY <1>3, <1>10
  <2> QED
    BY <1>8, <2>1
<1>12. ~Undecided(w)'
  BY <1>2, <1>7, <1>11 DEF Undecided
<1>13. Undecided(w) <=> first.kind # "ack"
  <2>1. CASE first.kind = "ack"
    <3>1. \A k \in DOMAIN f : k = 1
      <4>1. Len(f) = 1
        BY <1>9, <2>1
      <4>2. DOMAIN f = 1..Len(f)
        BY <1>3
      <4> HIDE DEF IInv
      <4> QED
        BY <4>1, <4>2
    <3>2. \A k \in DOMAIN f : f[k].kind = "ack"
      BY <2>1, <3>1
    <3> QED
      BY <1>7, <2>1, <3>2 DEF Undecided, f
  <2>2. CASE first.kind # "ack"
    BY <1>3, <1>4, <2>2 DEF Undecided, f
  <2> QED
    BY <2>1, <2>2
<1>14. CASE first.kind = "result"
  <2>1. results' = [results EXCEPT ![first.job] = @ + 1] /\ UNCHANGED <<ready, unacked>>
    BY <1>3, <1>14 DEF Handle, f
  <2> QED
    BY <1>2, <1>4, <1>6, <1>11, <1>12, <1>13, <1>14, <2>1
<1>15. CASE first.kind = "ack"
  <2>1. unacked' = [unacked EXCEPT ![w] = None] /\ UNCHANGED <<ready, results>>
    BY <1>3, <1>15 DEF Handle, f
  <2> QED
    BY <1>2, <1>4, <1>6, <1>11, <1>12, <1>13, <1>15, <2>1
<1>16. CASE first.kind = "nack"
  <2>1. /\ unacked' = [unacked EXCEPT ![w] = None]
        /\ ready' = ready \cup {first.job}
        /\ results' = results
    BY <1>3, <1>16 DEF Handle, f
  <2> QED
    BY <1>2, <1>4, <1>6, <1>11, <1>12, <1>13, <1>16, <2>1
<1> QED
  BY <1>4, <1>14, <1>15, <1>16

\* A worker that sends a frame about its delivery decides nothing by it.
LEMMA SendCases ==
  ASSUME IInv, PlaceInv, NEW w \in Workers, Publish(w) \/ Ack(w) \/ Nack(w)
  PROVE  /\ UNCHANGED <<ready, unacked, results, stops>>
         /\ worker'[w] # "stopped"
         /\ Undecided(w)' <=> Undecided(w)
         /\ \A k \in DOMAIN frames'[w] : frames'[w][k].kind \in {"result", "nack"} => k = 1
<1> USE DEF IInv
<1>1. PICK kind \in {"result", "ack", "nack"}, next \in {"published", "waiting"} :
        /\ Send(w, kind, next)
        /\ kind \in {"result", "nack"} => worker[w] = "processing"
        /\ kind = "ack" => worker[w] = "published"
  BY DEF Publish, Ack, Nack
<1> DEFINE f == frames[w]
           frame == [kind |-> kind, job |-> unacked[w]]
<1>2. /\ UNCHANGED <<ready, unacked, results, stops>>
      /\ frames'[w] = Append(f, frame)
      /\ worker'[w] = next
  BY <1>1 DEF Send, TypeOK
<1>3. f \in Seq(Frame)
  BY DEF TypeOK
<1>4. frame.kind = kind
  OBVIOUS
<1>5. /\ Len(f) \in Nat /\ DOMAIN f = 1..Len(f)
      /\ DOMAIN Append(f, frame) = 1..(Len(f) + 1)
      /\ \A k \in DOMAIN f : Append(f, frame)[k] = f[k]
      /\ Append(f, frame)[Len(f) + 1] = frame
  BY <1>3
<1>6. worker[w] = "processing" => Len(f) = 0
  BY <1>3 DEF ChannelInv
<1>7. \A k \in DOMAIN f : f[k].kind \in {"result", "nack"} => k = 1
  BY DEF PlaceInv
<1> HIDE DEF f, frame
<1>8. CASE kind = "ack"
  <2>1. \A k \in DOMAIN frames'[w] :
          frames'[w][k].kind \in {"result", "nack"} => k \in DOMAIN f /\ frames'[w][k] = f[k]
    BY <1>2, <1>4, <1>5, <1>8
  <2>2. \A k \in DOMAIN f : k \in DOMAIN frames'[w] /\ frames'[w][k] = f[k]
    BY <1>2, <1>5
  <2>3. Undecided(w)' <=> Undecided(w)
    BY <1>1, <1>2, <1>8, <2>1, <2>2 DEF Undecided, f
  <2> QED
    BY <1>2, <1>7, <2>1, <2>3
<1>9. CASE kind \in {"result", "nack"}
  <2>1. DOMAIN frames'[w] = {1} /\ frames'[w][1].kind = kind
    BY <1>1, <1>2, <1>4, <1>5, <1>6, <1>9
  <2>2. Undecided(w)' /\ Undecided(w)
    BY <1>1, <1>9, <2>1 DEF Undecided
  <2> QED
    BY <1>2, <2>1, <2>2
<1> QED
  BY <1>8, <1>9

LEMMA PlaceStep ==
  ASSUME IInv, PlaceInv, NEW w \in Workers,
         \/ Connect(w) \/ Publish(w) \/ Ack(w) \/ Nack(w) \/ Stop(w)
         \/ Restart(w) \/ Deliver(w) \/ Handle(w) \/ CloseChannel(w)
  PROVE  PlaceInv'
<1> USE DEF IInv
<1>1. OnlyAt(w)
  BY StepIsLocal
<1>2. \A k \in DOMAIN frames'[w] : frames'[w][k].kind \in {"result", "nack"} => k = 1
  <2>1. CASE Connect(w) \/ Stop(w) \/ Restart(w) \/ Deliver(w)
    BY <2>1 DEF Connect, Stop, Restart, Deliver, PlaceInv
  <2>2. CASE CloseChannel(w)
    BY <2>2 DEF CloseChannel, TypeOK
  <2>3. CASE Publish(w) \/ Ack(w) \/ Nack(w)
    BY <2>3, SendCases
  <2>4. CASE Handle(w)
    BY <2>4, HandleCases
  <2> QED
    BY <2>1, <2>2, <2>3, <2>4
<1>3. \/ UNCHANGED <<ready, unacked>>
      \/ /\ unacked'[w] = None
         /\ ready' \subseteq ready \cup ({unacked[w]} \ {None})
      \/ \E j \in ready : unacked'[w] = j /\ ready' = ready \ {j}
  <2>1. CASE Connect(w) \/ Stop(w) \/ Restart(w)
    BY <2>1 DEF Connect, Stop, Restart
  <2>2. CASE Publish(w) \/ Ack(w) \/ Nack(w)
    BY <2>2, SendCases
  <2>3. CASE Deliver(w)
    BY <2>3 DEF Deliver, TypeOK
  <2>4. CASE Handle(w)
    BY <2>4, HandleCases DEF TypeOK
  <2>5. CASE CloseChannel(w)
    BY <2>5 DEF CloseChannel, TypeOK
  <2> QED
    BY <2>1, <2>2, <2>3, <2>4, <2>5
<1>4. \A v \in Workers \ {w} : unacked'[v] = unacked[v] /\ frames'[v] = frames[v]
  BY <1>1 DEF OnlyAt
<1>5. \A v, u \in Workers : unacked'[v] = unacked'[u] /\ unacked'[v] # None => v = u
  BY <1>3, <1>4 DEF PlaceInv
<1>6. \A v \in Workers : unacked'[v] \notin ready'
  <2>1. None \notin ready
    BY WorkerAssumption DEF TypeOK
  <2> QED
    BY <1>3, <1>4, <2>1 DEF PlaceInv
<1> QED
  BY <1>2, <1>4, <1>5, <1>6 DEF PlaceInv

\* Nothing was added to either side of the account.
LEMMA CountKept ==
  ASSUME CountInv, stops \in Nat, stops' = stops,
         Excess' \subseteq Excess, Unnoticed' \subseteq Unnoticed
  PROVE  CountInv'
<1>1. /\ IsFiniteSet(Excess') /\ Cardinality(Excess') <= Cardinality(Excess)
      /\ IsFiniteSet(Unnoticed') /\ Cardinality(Unnoticed') <= Cardinality(Unnoticed)
  BY FS_Subset DEF CountInv
<1>2. /\ Cardinality(Excess) \in Nat /\ Cardinality(Excess') \in Nat
      /\ Cardinality(Unnoticed) \in Nat /\ Cardinality(Unnoticed') \in Nat
  BY <1>1, FS_CardinalityType DEF CountInv
<1> QED
  BY <1>1, <1>2 DEF CountInv

\* The same results and no job more whose turn is open.
LEMMA ExcessKept ==
  ASSUME results' = results, Open' \subseteq Open
  PROVE  Excess' \subseteq Excess
  BY DEF Excess

LEMMA CountStep ==
  ASSUME SInv, NEW w \in Workers,
         \/ Connect(w) \/ Publish(w) \/ Ack(w) \/ Nack(w) \/ Stop(w)
         \/ Restart(w) \/ Deliver(w) \/ Handle(w) \/ CloseChannel(w)
  PROVE  CountInv'
<1> USE DEF SInv, IInv
<1>1. OnlyAt(w) /\ stops \in Nat
  BY StepIsLocal DEF TypeOK
<1> DEFINE Held == worker[w] = "stopped" /\ unacked[w] # None
           HeldNext == worker'[w] = "stopped" /\ unacked'[w] # None
<1>2. /\ Unnoticed' \subseteq Unnoticed \cup {w}
      /\ (HeldNext => Held) => Unnoticed' \subseteq Unnoticed
      /\ ~HeldNext => Unnoticed' \subseteq Unnoticed \ {w}
  BY <1>1, UnnoticedOf
<1>3. /\ Open = ready \cup OpenElsewhere(w)
                  \cup (IF Undecided(w) THEN {unacked[w]} ELSE {})
      /\ Open' = ready' \cup OpenElsewhere(w)
                  \cup (IF Undecided(w)' THEN {unacked'[w]} ELSE {})
  BY <1>1, OpenOf
<1>4. Undecided(w) => unacked[w] \in Jobs /\ unacked[w] # None
  <2>1. frames[w] \in Seq(Frame) /\ ChannelInv(w)
    BY DEF TypeOK
  <2>2. \A k \in DOMAIN frames[w] : unacked[w] \in Jobs
    BY <2>1, FrameAt DEF ChannelInv
  <2>3. worker[w] = "processing" => unacked[w] \in Jobs
    BY <2>1 DEF ChannelInv, TypeOK
  <2> QED
    BY <2>2, <2>3, WorkerAssumption DEF Undecided
<1>5. CASE Connect(w) \/ Restart(w)
  <2>1. /\ UNCHANGED <<ready, unacked, frames, results, stops>>
        /\ worker'[w] \in {"connecting", "waiting"}
    BY <1>5 DEF Connect, Restart, TypeOK
  <2>2. Undecided(w)' => Undecided(w)
    BY <2>1 DEF Undecided
  <2>3. Open' \subseteq Open /\ Unnoticed' \subseteq Unnoticed
    BY <1>2, <1>3, <2>1, <2>2
  <2> QED
    BY <1>1, <2>1, <2>3, ExcessKept, CountKept
<1>6. CASE Publish(w) \/ Ack(w) \/ Nack(w)
  <2>1. /\ UNCHANGED <<ready, unacked, results, stops>>
        /\ worker'[w] # "stopped"
        /\ Undecided(w)' <=> Undecided(w)
    BY <1>6, SendCases
  <2>2. Open' \subseteq Open /\ Unnoticed' \subseteq Unnoticed
    BY <1>2, <1>3, <2>1
  <2> QED
    BY <1>1, <2>1, <2>2, ExcessKept, CountKept
<1>7. CASE Deliver(w)
  <2>1. PICK j \in ready : ready' = ready \ {j} /\ unacked'[w] = j
    BY <1>7 DEF Deliver, TypeOK
  <2>2. UNCHANGED <<results, stops>> /\ worker'[w] # "stopped"
    BY <1>7 DEF Deliver, TypeOK
  <2>3. Open' \subseteq Open /\ Unnoticed' \subseteq Unnoticed
    BY <1>2, <1>3, <2>1, <2>2
  <2> QED
    BY <1>1, <2>2, <2>3, ExcessKept, CountKept
<1>8. CASE Handle(w)
  <2>1. /\ unacked[w] \in Jobs /\ unacked[w] # None
        /\ UNCHANGED <<worker, stops>>
        /\ ~Undecided(w)'
    BY <1>8, HandleCases
  <2>2. CASE /\ Undecided(w)
             /\ results' = [results EXCEPT ![unacked[w]] = @ + 1]
             /\ UNCHANGED <<ready, unacked>>
    <3> DEFINE j == unacked[w]
    <3>1. j \notin ready \cup OpenElsewhere(w)
      BY <2>1, NotElsewhere
    <3>2. Open' \subseteq Open \ {j}
      BY <1>3, <2>1, <2>2, <3>1
    <3>3. \A i \in Jobs : /\ results[i] \in Nat
                          /\ i # j => results'[i] = results[i]
                          /\ i = j => results'[i] = results[i] + 1
      BY <2>1, <2>2 DEF TypeOK
    <3>4. j \in Open
      BY <1>3, <2>2
    <3> HIDE DEF j
    <3>5. ASSUME NEW i \in Jobs, NEW k \in Nat \ {0},
                 k < results'[i] \/ (k = results'[i] /\ i \in Open')
          PROVE  k < results[i] \/ (k = results[i] /\ i \in Open)
      BY <3>2, <3>3, <3>4, <3>5
    <3>6. Excess' \subseteq Excess
      BY <3>5 DEF Excess
    <3>7. Unnoticed' \subseteq Unnoticed
      BY <1>2, <2>1, <2>2
    <3> QED
      BY <1>1, <2>1, <3>6, <3>7, CountKept
  <2>3. CASE results' = results /\ unacked' = [unacked EXCEPT ![w] = None]
             /\ ready' \subseteq ready \cup (IF Undecided(w) THEN {unacked[w]} ELSE {})
    <3>1. unacked'[w] = None
      BY <2>3 DEF TypeOK
    <3>2. Open' \subseteq Open /\ Unnoticed' \subseteq Unnoticed
      BY <1>2, <1>3, <2>1, <2>3, <3>1
    <3> QED
      BY <1>1, <2>1, <2>3, <3>2, ExcessKept, CountKept
  <2> QED
    BY <1>8, <2>2, <2>3, HandleCases
<1>9. CASE Stop(w)
  <2>1. /\ UNCHANGED <<ready, unacked, frames, results>>
        /\ worker'[w] = "stopped"
        /\ stops' = stops + 1
    BY <1>9 DEF Stop, TypeOK
  <2>2. Undecided(w)' => Undecided(w)
    BY <2>1 DEF Undecided
  <2>3. Open' \subseteq Open
    BY <1>3, <2>1, <2>2
  <2>4. Excess' \subseteq Excess
    BY <2>1, <2>3, ExcessKept
  <2>5. /\ IsFiniteSet(Excess')
        /\ Cardinality(Excess') <= Cardinality(Excess)
    BY <2>4, FS_Subset DEF CountInv
  <2>6. /\ IsFiniteSet(Unnoticed \cup {w})
        /\ Cardinality(Unnoticed \cup {w}) <= Cardinality(Unnoticed) + 1
    <3>1. IsFiniteSet(Unnoticed)
      BY DEF CountInv
    <3> HIDE DEF SInv, IInv
    <3>2. /\ IsFiniteSet(Unnoticed \cup {w})
          /\ \/ Cardinality(Unnoticed \cup {w}) = Cardinality(Unnoticed)
             \/ Cardinality(Unnoticed \cup {w}) = Cardinality(Unnoticed) + 1
      BY <3>1, FS_AddElement
    <3>3. Cardinality(Unnoticed) \in Nat
      BY <3>1, FS_CardinalityType
    <3> QED
      BY <3>2, <3>3
  <2>7. /\ IsFiniteSet(Unnoticed')
        /\ Cardinality(Unnoticed') <= Cardinality(Unnoticed \cup {w})
    BY <1>2, <2>6, FS_Subset
  <2>8. /\ Cardinality(Excess) \in Nat /\ Cardinality(Excess') \in Nat
        /\ Cardinality(Unnoticed) \in Nat /\ Cardinality(Unnoticed') \in Nat
        /\ Cardinality(Unnoticed \cup {w}) \in Nat
    BY <2>5, <2>6, <2>7, FS_CardinalityType DEF CountInv
  <2>9. Cardinality(Excess) + Cardinality(Unnoticed) <= stops
    BY DEF CountInv
  <2> HIDE DEF SInv, IInv
  <2>10. Cardinality(Excess') + Cardinality(Unnoticed') <= stops'
    BY <1>1, <2>1, <2>5, <2>6, <2>7, <2>8, <2>9
  <2> QED
    BY <2>5, <2>7, <2>10 DEF CountInv
<1>10. CASE CloseChannel(w)
  <2>1. /\ worker[w] = "stopped"
        /\ unacked'[w] = None
        /\ ready' = ready \cup ({unacked[w]} \ {None})
        /\ frames'[w] = <<>>
        /\ UNCHANGED <<worker, results, stops>>
    BY <1>10 DEF CloseChannel, TypeOK
  <2>2. ~Undecided(w)'
    BY <2>1 DEF Undecided
  <2>3. CASE unacked[w] = None
    <3>1. Open' \subseteq Open /\ Unnoticed' \subseteq Unnoticed
      BY <1>2, <1>3, <2>1, <2>2, <2>3
    <3> QED
      BY <1>1, <2>1, <3>1, ExcessKept, CountKept
  <2>4. CASE unacked[w] # None
    <3> DEFINE j == unacked[w]
               again == <<j, results[j]>>
    <3>1. w \in Unnoticed /\ Unnoticed' \subseteq Unnoticed \ {w}
      BY <1>2, <2>1, <2>4 DEF Unnoticed
    <3>2. Open' \subseteq Open \cup {j}
      BY <1>3, <2>1, <2>2
    <3>3. Excess' \subseteq Excess \cup {again}
      BY <2>1, <3>2 DEF Excess
    <3> HIDE DEF again, j
    <3>4. /\ IsFiniteSet(Excess \cup {again})
          /\ Cardinality(Excess \cup {again}) <= Cardinality(Excess) + 1
      <4>1. IsFiniteSet(Excess)
        BY DEF CountInv
      <4> HIDE DEF SInv, IInv
      <4>2. /\ IsFiniteSet(Excess \cup {again})
            /\ \/ Cardinality(Excess \cup {again}) = Cardinality(Excess)
               \/ Cardinality(Excess \cup {again}) = Cardinality(Excess) + 1
        BY <4>1, FS_AddElement
      <4>3. Cardinality(Excess) \in Nat
        BY <4>1, FS_CardinalityType
      <4> QED
        BY <4>2, <4>3
    <3>5. /\ IsFiniteSet(Excess')
          /\ Cardinality(Excess') <= Cardinality(Excess \cup {again})
      BY <3>3, <3>4, FS_Subset
    <3>6. /\ IsFiniteSet(Unnoticed \ {w})
          /\ Cardinality(Unnoticed \ {w}) = Cardinality(Unnoticed) - 1
      BY <3>1, FS_RemoveElement DEF CountInv
    <3>7. /\ IsFiniteSet(Unnoticed')
          /\ Cardinality(Unnoticed') <= Cardinality(Unnoticed \ {w})
      BY <3>1, <3>6, FS_Subset
    <3>8. /\ Cardinality(Excess) \in Nat /\ Cardinality(Excess') \in Nat
          /\ Cardinality(Excess \cup {again}) \in Nat
          /\ Cardinality(Unnoticed) \in Nat /\ Cardinality(Unnoticed') \in Nat
          /\ Cardinality(Unnoticed \ {w}) \in Nat
      BY <3>4, <3>5, <3>6, <3>7, FS_CardinalityType DEF CountInv
    <3>9. Cardinality(Excess) + Cardinality(Unnoticed) <= stops
      BY DEF CountInv
    <3> HIDE DEF SInv, IInv
    <3>10. Cardinality(Excess') + Cardinality(Unnoticed') <= stops'
      BY <1>1, <2>1, <3>4, <3>5, <3>6, <3>7, <3>8, <3>9
    <3> QED
      BY <3>5, <3>7, <3>10 DEF CountInv
  <2> QED
    BY <2>3, <2>4
<1> QED
  BY <1>5, <1>6, <1>7, <1>8, <1>9, <1>10

LEMMA SuperfluousInv ==
  /\ Init => SInv
  /\ SInv /\ [Next]_vars => SInv'
<1>1. Init => SInv
  <2> SUFFICES ASSUME Init PROVE SInv
    OBVIOUS
  <2>1. PlaceInv
    BY WorkerAssumption DEF Init, PlaceInv
  <2>2. Excess = {} /\ Unnoticed = {}
    BY DEF Init, Excess, Unnoticed
  <2>3. CountInv
    BY <2>2, FS_EmptySet DEF CountInv, Init
  <2> QED
    BY <2>1, <2>3, InitInv DEF SInv
<1>2. ASSUME SInv, Next PROVE SInv'
  <2> PICK w \in Workers :
        \/ Connect(w) \/ Publish(w) \/ Ack(w) \/ Nack(w) \/ Stop(w)
        \/ Restart(w) \/ Deliver(w) \/ Handle(w) \/ CloseChannel(w)
    BY <1>2 DEF Next
  <2>1. PlaceInv'
    BY <1>2, PlaceStep DEF SInv
  <2>2. CountInv'
    BY <1>2, CountStep
  <2>3. IInv'
    BY <1>2, NextInv DEF SInv
  <2> QED
    BY <2>1, <2>2, <2>3 DEF SInv
<1>3. ASSUME SInv, UNCHANGED vars PROVE SInv'
  <2>1. IInv'
    BY <1>3, NextInv DEF SInv
  <2>2. Excess' = Excess /\ Unnoticed' = Unnoticed
    BY <1>3 DEF vars, Excess, Unnoticed, Open, Undecided
  <2> QED
    BY <1>3, <2>1, <2>2 DEF vars, SInv, PlaceInv, CountInv
<1> QED
  BY <1>1, <1>2, <1>3

\* No more results are superfluous than workers have stopped, for any number of
\* both: a job is on one channel, each channel decides once about its delivery,
\* and each stop puts back one delivery whose result may have been published.
THEOREM SuperfluousNeedStops == Spec => []DuplicatesNeedStop
<1>1. SInv => DuplicatesNeedStop
  <2> SUFFICES ASSUME SInv PROVE DuplicatesNeedStop
    OBVIOUS
  <2>1. \A j \in Jobs : results[j] \in Nat
    BY DEF SInv, IInv, TypeOK
  <2>2. Superfluous \subseteq Excess
    <3> SUFFICES ASSUME NEW j \in Jobs, NEW k \in 1..(results[j] - 1)
                 PROVE  <<j, k>> \in Excess
      BY DEF Superfluous
    <3> QED
      BY <2>1 DEF Excess
  <2>3. IsFiniteSet(Superfluous) /\ Cardinality(Superfluous) <= Cardinality(Excess)
    BY <2>2, FS_Subset DEF SInv, CountInv
  <2>4. /\ Cardinality(Superfluous) \in Nat /\ Cardinality(Excess) \in Nat
        /\ Cardinality(Unnoticed) \in Nat
    BY <2>3, FS_CardinalityType DEF SInv, CountInv
  <2>5. Cardinality(Excess) + Cardinality(Unnoticed) <= stops /\ stops \in Nat
    BY DEF SInv, CountInv, IInv, TypeOK
  <2> QED
    BY <2>3, <2>4, <2>5 DEF DuplicatesNeedStop
<1> QED
  BY <1>1, SuperfluousInv, PTL DEF Spec
=============================================================================
