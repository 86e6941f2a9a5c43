-------------------------- MODULE AssignmentRpcProofs --------------------------
(***************************************************************************)
(* The publishers for any number of them and of replicas, any timeout and  *)
(* any number of requests, whatever comes from others.                     *)
(***************************************************************************)
EXTENDS AssignmentRpc, FiniteSetTheorems, TLAPS

\* Whatever is on the way belongs to a request that has been sent, and what is
\* in a result queue has been put by a replica, or is not for one of Publishers.
MessagesInv ==
  /\ \A s \in Services :
       /\ \A i \in DOMAIN inbox[s] : inbox[s][i] \in Asked
       /\ current[s] \in Asked \cup {None}
  /\ \A p \in Publishers : \A i \in DOMAIN resultQueue[p] : resultQueue[p][i] \in served \cup {Other}
  /\ served \subseteq Asked
  /\ answered \subseteq Asked

\* What p has waited, and may still wait, is covered by the results it skipped;
\* what it may still wait only as long as they are counted.
Covered(p) ==
  /\ waited[p] <= Timeout * (1 + ignored[p])
  /\ Counts(p) => waited[p] + timer[p] <= Timeout * (1 + ignored[p])

\* A publisher waits for a request it has sent, which nobody has answered.
WaitingInv ==
  \A p \in Publishers : phase[p] = "waiting" =>
    /\ RequestOf(p) \in Asked
    /\ RequestOf(p) \notin answered
    /\ Covered(p)

IInv == TypeOK /\ MessagesInv /\ WaitingInv

-----------------------------------------------------------------------------
(* Requests and queues                                                     *)

\* A sum of requests below the bound leaves every publisher below it.
LEMMA BelowBound ==
  ASSUME TypeOK, Cardinality(Asked) < MaxRequests, NEW p \in Publishers
  PROVE  asked[p] < MaxRequests
<1> SUFFICES ASSUME asked[p] >= MaxRequests PROVE FALSE
  BY RpcAssumption DEF TypeOK
<1> DEFINE own == {p} \X (1..MaxRequests)
           f == [r \in own |-> r[2]]
<1>1. IsFiniteSet(Asked)
  <2>1. IsFiniteSet(Requests)
    <3>1. IsFiniteSet(1..MaxRequests)
      BY RpcAssumption, FS_Interval
    <3> QED
      BY <3>1, RpcAssumption, FS_Product DEF Requests
  <2> QED
    BY <2>1, FS_Subset DEF Asked
<1>2. own \subseteq Asked
  BY RpcAssumption DEF Asked, Requests, TypeOK
<1>3. f \in Bijection(own, 1..MaxRequests)
  <2>1. f \in [own -> 1..MaxRequests]
    OBVIOUS
  <2>2. \A r, q \in own : f[r] = f[q] => r = q
    OBVIOUS
  <2>3. \A n \in 1..MaxRequests : \E r \in own : f[r] = n
    <3> TAKE n \in 1..MaxRequests
    <3>1. <<p, n>> \in own /\ f[<<p, n>>] = n
      OBVIOUS
    <3> QED
      BY <3>1
  <2> QED
    BY <2>1, <2>2, <2>3 DEF Bijection, Injection, Surjection, IsInjective
<1>4. IsFiniteSet(own) /\ Cardinality(own) = MaxRequests
  <2>1. IsFiniteSet(1..MaxRequests) /\ Cardinality(1..MaxRequests) = MaxRequests
    BY RpcAssumption, FS_Interval
  <2>2. ExistsBijection(own, 1..MaxRequests)
    BY <1>3 DEF ExistsBijection
  <2>3. IsFiniteSet(own)
    BY <1>1, <1>2, FS_Subset
  <2> QED
    BY <2>1, <2>2, <2>3, FS_Bijection
<1>5. MaxRequests <= Cardinality(Asked)
  BY <1>1, <1>2, <1>4, FS_Subset
<1> QED
  BY <1>1, <1>5, RpcAssumption, FS_CardinalityType

\* The request Ask(p) adds is a new one.
LEMMA AskAdds ==
  ASSUME TypeOK, NEW p \in Publishers, Ask(p)
  PROVE  /\ asked[p] + 1 \in 0..MaxRequests
         /\ <<p, asked[p] + 1>> \in Requests \ Asked
         /\ Asked' = Asked \cup {<<p, asked[p] + 1>>}
<1>1. asked[p] \in 0..MaxRequests /\ asked[p] < MaxRequests
  BY BelowBound DEF TypeOK, Ask
<1>2. asked[p] + 1 \in 1..MaxRequests
  BY <1>1, RpcAssumption
<1>3. \A q \in Publishers : asked'[q] = IF q = p THEN asked[p] + 1 ELSE asked[q]
  BY DEF Ask, TypeOK
<1>4. \A r \in Requests : r[1] \in Publishers /\ r[2] \in 1..MaxRequests /\ r = <<r[1], r[2]>>
  BY DEF Requests
<1>5. \A r \in Requests :
        r[2] <= asked'[r[1]] <=> r[2] <= asked[r[1]] \/ r = <<p, asked[p] + 1>>
  <2> SUFFICES ASSUME NEW r \in Requests
               PROVE  r[2] <= asked'[r[1]] <=> r[2] <= asked[r[1]] \/ r = <<p, asked[p] + 1>>
    OBVIOUS
  <2>1. CASE r[1] = p
    BY <1>1, <1>3, <1>4, <2>1
  <2>2. CASE r[1] # p
    BY <1>3, <1>4, <2>2
  <2> QED
    BY <2>1, <2>2
<1>6. <<p, asked[p] + 1>> \in Requests \ Asked
  BY <1>1, <1>2 DEF Requests, Asked
<1>7. Asked' = Asked \cup {<<p, asked[p] + 1>>}
  BY <1>5, <1>6 DEF Asked
<1> QED
  BY <1>2, <1>6, <1>7

\* Taking from a queue leaves it with what it had.
LEMMA TailOf ==
  ASSUME NEW S, NEW q \in Seq(S), q # <<>>
  PROVE  /\ Tail(q) \in Seq(S)
         /\ Head(q) \in S
         /\ Head(q) = q[1] /\ 1 \in DOMAIN q
         /\ \A i \in DOMAIN Tail(q) : i + 1 \in DOMAIN q /\ Tail(q)[i] = q[i + 1]
  OBVIOUS

\* Appending to some queues adds nothing but the message.
LEMMA AppendTo ==
  ASSUME NEW P, NEW S, NEW q \in [P -> Seq(S)], NEW m \in S, NEW reached,
         NEW r, r = [p \in P |-> IF p \in reached THEN Append(q[p], m) ELSE q[p]]
  PROVE  /\ r \in [P -> Seq(S)]
         /\ \A p \in P : \A i \in DOMAIN r[p] :
              r[p][i] = m \/ (i \in DOMAIN q[p] /\ r[p][i] = q[p][i])
<1>1. \A p \in P : Append(q[p], m) \in Seq(S)
  OBVIOUS
<1>2. ASSUME NEW p \in P, NEW i \in DOMAIN Append(q[p], m)
      PROVE  \/ Append(q[p], m)[i] = m
             \/ i \in DOMAIN q[p] /\ Append(q[p], m)[i] = q[p][i]
  <2>1. q[p] \in Seq(S)
    OBVIOUS
  <2> QED
    BY <2>1
<1> QED
  BY <1>1, <1>2

\* One more result skipped pays for one more timeout.
LEMMA OneMoreTimeout ==
  ASSUME NEW n \in Nat
  PROVE  /\ Timeout * (1 + n) \in Nat
         /\ Timeout * (1 + (n + 1)) = Timeout * (1 + n) + Timeout
         /\ Timeout * (1 + 0) = Timeout
  BY RpcAssumption

-----------------------------------------------------------------------------
(* The invariant                                                           *)

LEMMA InitInv == Init => IInv
<1> SUFFICES ASSUME Init PROVE IInv
  OBVIOUS
<1>1. TypeOK
  BY RpcAssumption DEF Init, TypeOK, Phase
<1>2. MessagesInv
  BY DEF Init, MessagesInv
<1>3. WaitingInv
  BY DEF Init, WaitingInv
<1> QED
  BY <1>1, <1>2, <1>3 DEF IInv

LEMMA AskInv ==
  ASSUME IInv, NEW p \in Publishers, Ask(p)
  PROVE  IInv'
<1> DEFINE new == <<p, asked[p] + 1>>
<1> USE DEF IInv
<1>1. /\ asked[p] + 1 \in 0..MaxRequests
      /\ new \in Requests \ Asked
      /\ Asked' = Asked \cup {new}
  BY AskAdds
<1> HIDE DEF new
<1>2. PICK reached :
        inbox' = [s \in Services |-> IF s \in reached THEN Append(inbox[s], new)
                                                      ELSE inbox[s]]
  BY DEF Ask, new
<1>3. /\ inbox' \in [Services -> Seq(Requests)]
      /\ \A s \in Services : \A i \in DOMAIN inbox'[s] :
           inbox'[s][i] = new \/ (i \in DOMAIN inbox[s] /\ inbox'[s][i] = inbox[s][i])
  BY <1>1, <1>2, AppendTo DEF TypeOK
<1>4. TypeOK'
  BY <1>1, <1>3, RpcAssumption DEF TypeOK, Ask, Phase
<1>5. MessagesInv'
  BY <1>1, <1>3 DEF MessagesInv, Ask
<1>6. WaitingInv'
  <2> SUFFICES ASSUME NEW q \in Publishers, phase'[q] = "waiting"
               PROVE  /\ RequestOf(q)' \in Asked'
                      /\ RequestOf(q)' \notin answered'
                      /\ Covered(q)'
    BY DEF WaitingInv
  <2>1. CASE q = p
    <3>1. RequestOf(q)' = new
      BY <2>1 DEF Ask, RequestOf, new, TypeOK
    <3>2. waited'[q] = 0 /\ ignored'[q] = 0 /\ timer'[q] = Timeout
      BY <2>1 DEF Ask, TypeOK
    <3>3. new \notin answered'
      BY <1>1 DEF MessagesInv, Ask
    <3>4. Covered(q)'
      BY <3>2, RpcAssumption, OneMoreTimeout DEF Covered
    <3> QED
      BY <1>1, <3>1, <3>3, <3>4
  <2>2. CASE q # p
    <3>1. /\ phase[q] = "waiting"
          /\ RequestOf(q)' = RequestOf(q)
          /\ waited'[q] = waited[q] /\ ignored'[q] = ignored[q] /\ timer'[q] = timer[q]
          /\ answered' = answered
      BY <2>2 DEF Ask, TypeOK, RequestOf
    <3> QED
      BY <1>1, <3>1 DEF WaitingInv, Covered, Counts
  <2> QED
    BY <2>1, <2>2
<1> QED
  BY <1>4, <1>5, <1>6

\* A step of a publisher after it has asked.
LEMMA PublisherInv ==
  ASSUME IInv, NEW p \in Publishers,
         Report(p) \/ Ignore(p) \/ GiveUp(p) \/ WakeUp(p)
  PROVE  IInv'
<1> USE DEF IInv
<1>1. /\ UNCHANGED <<asked, waited, replica, served>>
      /\ Asked' = Asked
  BY DEF Report, Ignore, GiveUp, WakeUp, Asked
<1>2. PICK q \in Seq(Results) :
        /\ resultQueue' = [resultQueue EXCEPT ![p] = q]
        /\ \A i \in DOMAIN q : \E k \in DOMAIN resultQueue[p] : q[i] = resultQueue[p][k]
  <2>1. resultQueue[p] \in Seq(Results)
    BY DEF TypeOK
  <2>2. CASE Report(p) \/ Ignore(p)
    <3>1. /\ resultQueue[p] # <<>>
          /\ resultQueue' = [resultQueue EXCEPT ![p] = Tail(resultQueue[p])]
      BY <2>2 DEF Report, Ignore
    <3>2. /\ Tail(resultQueue[p]) \in Seq(Results)
          /\ \A i \in DOMAIN Tail(resultQueue[p]) :
               i + 1 \in DOMAIN resultQueue[p]
                 /\ Tail(resultQueue[p])[i] = resultQueue[p][i + 1]
      BY <2>1, <3>1, TailOf
    <3> QED
      BY <3>1, <3>2
  <2>3. CASE GiveUp(p) \/ WakeUp(p)
    <3>1. resultQueue' = [resultQueue EXCEPT ![p] = resultQueue[p]]
      BY <2>3 DEF GiveUp, WakeUp, TypeOK
    <3> QED
      BY <2>1, <3>1
  <2> QED
    BY <2>2, <2>3
<1>3. answered' \in SUBSET Asked
  BY DEF Report, Ignore, GiveUp, WakeUp, MessagesInv, WaitingInv
<1>4. TypeOK'
  <2>1. answered' \in SUBSET Requests
    BY <1>3 DEF Asked
  <2>2. phase' \in [Publishers -> Phase]
    BY DEF Report, Ignore, GiveUp, WakeUp, Sleep, TypeOK, Phase
  <2>3. timer' \in [Publishers -> Nat] /\ ignored' \in [Publishers -> Nat]
    <3>1. /\ timer \in [Publishers -> Nat] /\ ignored \in [Publishers -> Nat]
          /\ Timeout \in Nat /\ Interval \in Nat
      BY RpcAssumption DEF TypeOK
    <3> HIDE DEF IInv
    <3>2. timer' = timer \/ \E n \in Nat : timer' = [timer EXCEPT ![p] = n]
      BY <3>1 DEF Report, Ignore, GiveUp, WakeUp, Sleep
    <3>3. ignored' = ignored \/ ignored' = [ignored EXCEPT ![p] = @ + 1]
                             \/ ignored' = [ignored EXCEPT ![p] = @]
      BY DEF Report, Ignore, GiveUp, WakeUp
    <3>4. timer' \in [Publishers -> Nat]
      BY <3>1, <3>2
    <3>5. ignored' \in [Publishers -> Nat]
      BY <3>1, <3>3
    <3> QED
      BY <3>4, <3>5
  <2>4. resultQueue' \in [Publishers -> Seq(Results)]
    BY <1>2 DEF TypeOK
  <2> QED
    BY <1>1, <2>1, <2>2, <2>3, <2>4 DEF TypeOK, replica
<1>5. MessagesInv'
  <2>1. \A v \in Publishers : \A i \in DOMAIN resultQueue'[v] :
          resultQueue'[v][i] \in served \cup {Other}
    <3> TAKE v \in Publishers
    <3>1. CASE v = p
      <4>1. resultQueue'[v] = q
        BY <1>2, <3>1 DEF TypeOK
      <4> QED
        BY <1>2, <4>1 DEF MessagesInv
    <3>2. CASE v # p
      <4>1. resultQueue'[v] = resultQueue[v]
        BY <1>2, <3>2 DEF TypeOK
      <4> QED
        BY <4>1 DEF MessagesInv
    <3> QED
      BY <3>1, <3>2
  <2> QED
    BY <1>1, <1>3, <2>1 DEF MessagesInv, replica
<1>6. WaitingInv'
  <2> SUFFICES ASSUME NEW v \in Publishers, phase'[v] = "waiting"
               PROVE  /\ RequestOf(v)' \in Asked'
                      /\ RequestOf(v)' \notin answered'
                      /\ Covered(v)'
    BY DEF WaitingInv
  <2>1. /\ phase[v] = "waiting"
        /\ RequestOf(v)' = RequestOf(v)
        /\ waited'[v] = waited[v]
    BY <1>1 DEF Report, Ignore, GiveUp, WakeUp, Sleep, TypeOK, RequestOf
  <2>2. RequestOf(v) \notin answered'
    <3>1. RequestOf(v) \notin answered
      BY <2>1 DEF WaitingInv
    <3>2. answered' = answered \/ (answered' = answered \cup {RequestOf(p)} /\ phase'[p] = "sleeping")
      BY DEF Report, Ignore, GiveUp, WakeUp, Sleep, TypeOK
    <3>3. v # p => RequestOf(v) # RequestOf(p)
      BY DEF RequestOf
    <3> QED
      BY <3>1, <3>2, <3>3
  <2>3. Covered(v)'
    <3>1. Covered(v)
      BY <2>1 DEF WaitingInv
    <3>2. CASE timer'[v] = timer[v] /\ ignored'[v] = ignored[v]
      BY <2>1, <3>1, <3>2 DEF Covered, Counts
    <3>3. CASE v = p /\ Ignore(p)
      <4>1. /\ timer'[v] = Timeout
            /\ ignored'[v] = IF Counts(v) THEN ignored[v] + 1 ELSE ignored[v]
        BY <3>3 DEF Ignore, TypeOK
      <4>2. waited[v] \in Nat /\ timer[v] \in Nat /\ ignored[v] \in Nat
        BY DEF TypeOK
      <4>3. /\ Timeout * (1 + ignored[v]) \in Nat
            /\ Timeout * (1 + (ignored[v] + 1)) = Timeout * (1 + ignored[v]) + Timeout
        BY <4>2, OneMoreTimeout
      <4> HIDE DEF IInv
      <4>4. CASE Counts(v)
        BY <2>1, <3>1, <4>1, <4>2, <4>3, <4>4, RpcAssumption DEF Covered
      <4>5. CASE ~Counts(v)
        BY <2>1, <3>1, <4>1, <4>5 DEF Covered, Counts
      <4> QED
        BY <4>4, <4>5
    <3> QED
      BY <2>1, <3>2, <3>3 DEF Report, Ignore, GiveUp, WakeUp, Sleep, TypeOK
  <2> QED
    BY <1>1, <2>1, <2>2, <2>3 DEF WaitingInv
<1> QED
  BY <1>4, <1>5, <1>6

\* A step of a replica: it leaves the publishers alone, but for the result that
\* it puts, of a request that was sent.
LEMMA ReplicaInv ==
  ASSUME IInv, NEW s \in Services,
         Start(s) \/ Receive(s) \/ Reply(s) \/ Stop(s)
  PROVE  IInv'
<1> USE DEF IInv
<1>1. UNCHANGED <<publisher, answered>>
  BY DEF Start, Receive, Reply, Stop
<1>2. Asked' = Asked
  BY <1>1 DEF publisher, Asked
<1>3. WaitingInv'
  BY <1>1, <1>2 DEF WaitingInv, publisher, RequestOf, Covered, Counts
<1>4. CASE Start(s) \/ Stop(s)
  <2>1. /\ UNCHANGED <<resultQueue, served>>
        /\ service' \in [Services -> {"down", "running"}]
        /\ inbox' \in [Services -> Seq(Requests)]
        /\ current' \in [Services -> Requests \cup {None}]
        /\ \A v \in Services : /\ inbox'[v] = inbox[v] \/ inbox'[v] = <<>>
                               /\ current'[v] \in {current[v], None}
    <3>1. CASE Start(s)
      BY <3>1 DEF Start, TypeOK
    <3>2. CASE Stop(s)
      <4>1. <<>> \in Seq(Requests)
        OBVIOUS
      <4>2. /\ inbox' = [inbox EXCEPT ![s] = <<>>]
            /\ inbox \in [Services -> Seq(Requests)]
        BY <3>2 DEF Stop, TypeOK
      <4>3. /\ inbox' \in [Services -> Seq(Requests)]
            /\ \A v \in Services : inbox'[v] = inbox[v] \/ inbox'[v] = <<>>
        BY <4>1, <4>2
      <4> QED
        BY <3>2, <4>3 DEF Stop, TypeOK
    <3> QED
      BY <1>4, <3>1, <3>2
  <2>2. TypeOK'
    BY <1>1, <2>1 DEF TypeOK, publisher
  <2>3. MessagesInv'
    <3>1. MessagesInv
      OBVIOUS
    <3> HIDE DEF IInv
    <3>2. \A v \in Services : \A i \in DOMAIN inbox'[v] : inbox'[v][i] \in Asked
      <4> TAKE v \in Services
      <4>1. \A i \in DOMAIN inbox[v] : inbox[v][i] \in Asked
        BY <3>1 DEF MessagesInv
      <4>2. inbox'[v] = inbox[v] \/ DOMAIN inbox'[v] = {}
        BY <2>1
      <4> QED
        BY <4>1, <4>2
    <3>3. \A v \in Services : current'[v] \in Asked \cup {None}
      BY <2>1, <3>1 DEF MessagesInv
    <3> QED
      BY <1>1, <1>2, <2>1, <3>1, <3>2, <3>3 DEF MessagesInv
  <2> QED
    BY <1>3, <2>2, <2>3
<1>5. CASE Receive(s)
  <2>1. /\ Tail(inbox[s]) \in Seq(Requests)
        /\ Head(inbox[s]) = inbox[s][1] /\ 1 \in DOMAIN inbox[s]
        /\ \A i \in DOMAIN Tail(inbox[s]) :
             i + 1 \in DOMAIN inbox[s] /\ Tail(inbox[s])[i] = inbox[s][i + 1]
    <3>1. inbox[s] \in Seq(Requests) /\ inbox[s] # <<>>
      BY <1>5 DEF Receive, TypeOK
    <3> QED
      BY <3>1, TailOf
  <2>2. /\ UNCHANGED <<resultQueue, service, served>>
        /\ inbox' = [inbox EXCEPT ![s] = Tail(inbox[s])]
        /\ current' = [current EXCEPT ![s] = inbox[s][1]]
    BY <1>5, <2>1 DEF Receive
  <2>3. inbox[s][1] \in Asked
    BY <2>1 DEF MessagesInv
  <2>4. TypeOK'
    BY <1>1, <2>1, <2>2, <2>3 DEF TypeOK, publisher, Asked
  <2>5. ASSUME NEW v \in Services
        PROVE  /\ \A i \in DOMAIN inbox'[v] : inbox'[v][i] \in Asked
               /\ current'[v] \in Asked \cup {None}
    <3>1. CASE v = s
      <4>1. inbox'[v] = Tail(inbox[s]) /\ current'[v] = inbox[s][1]
        BY <2>2, <3>1 DEF TypeOK
      <4> QED
        BY <2>1, <2>3, <4>1 DEF MessagesInv
    <3>2. CASE v # s
      <4>1. inbox'[v] = inbox[v] /\ current'[v] = current[v]
        BY <2>2, <3>2 DEF TypeOK
      <4> QED
        BY <4>1 DEF MessagesInv
    <3> QED
      BY <3>1, <3>2
  <2>6. MessagesInv'
    BY <1>1, <1>2, <2>2, <2>5 DEF MessagesInv
  <2> QED
    BY <1>3, <2>4, <2>6
<1>6. CASE Reply(s)
  <2>1. /\ UNCHANGED <<service, inbox>>
        /\ current' = [current EXCEPT ![s] = None]
        /\ served' = served \cup {current[s]}
    BY <1>6 DEF Reply
  <2>2. current[s] \in Asked /\ current[s] \in Requests /\ current[s] \in Results
    BY <1>6 DEF Reply, MessagesInv, Asked, Results
  <2>3. PICK reached :
          resultQueue' = [p \in Publishers |->
                            IF p \in reached THEN Append(resultQueue[p], current[s])
                                             ELSE resultQueue[p]]
    BY <1>6 DEF Reply
  <2>4. /\ resultQueue' \in [Publishers -> Seq(Results)]
        /\ \A p \in Publishers : \A i \in DOMAIN resultQueue'[p] :
             \/ resultQueue'[p][i] = current[s]
             \/ i \in DOMAIN resultQueue[p] /\ resultQueue'[p][i] = resultQueue[p][i]
    BY <2>2, <2>3, AppendTo DEF TypeOK
  <2>5. TypeOK'
    BY <1>1, <2>1, <2>2, <2>4 DEF TypeOK, publisher
  <2>6. MessagesInv'
    <3>1. \A v \in Services : current'[v] \in {current[v], None}
      BY <2>1 DEF TypeOK
    <3> QED
      BY <1>1, <1>2, <2>1, <2>2, <2>4, <3>1 DEF MessagesInv
  <2> QED
    BY <1>3, <2>5, <2>6
<1> QED
  BY <1>4, <1>5, <1>6

\* A publisher that waits a tick longer has a tick less to wait.
LEMMA TickInv ==
  ASSUME IInv, Tick
  PROVE  IInv'
<1> USE DEF IInv
<1>1. UNCHANGED <<phase, asked, ignored, resultQueue, replica, served, answered>>
  BY DEF Tick
<1>2. Asked' = Asked
  BY <1>1 DEF Asked
<1>3. timer' \in [Publishers -> Nat] /\ waited' \in [Publishers -> Nat]
  <2>1. timer \in [Publishers -> Nat] /\ waited \in [Publishers -> Nat]
    BY DEF TypeOK
  <2> HIDE DEF IInv
  <2>2. timer' \in [Publishers -> Nat]
    BY <2>1 DEF Tick
  <2>3. waited' \in [Publishers -> Nat]
    BY <2>1 DEF Tick
  <2> QED
    BY <2>2, <2>3
<1>4. TypeOK'
  BY <1>1, <1>3 DEF TypeOK, replica
<1>5. MessagesInv'
  BY <1>1, <1>2 DEF MessagesInv, replica
<1>6. WaitingInv'
  <2> SUFFICES ASSUME NEW p \in Publishers, phase[p] = "waiting"
               PROVE  Covered(p)'
    BY <1>1, <1>2 DEF WaitingInv, RequestOf
  <2>1. Covered(p)
    BY DEF WaitingInv
  <2>2. /\ waited'[p] = IF Counts(p) THEN waited[p] + 1 ELSE waited[p]
        /\ timer'[p] = timer[p] - 1
        /\ ignored'[p] = ignored[p]
        /\ waited[p] \in Nat /\ timer[p] \in Nat /\ timer[p] > 0 /\ ignored[p] \in Nat
    BY DEF Tick, TypeOK
  <2>3. Timeout * (1 + ignored[p]) \in Nat
    BY <2>2, OneMoreTimeout
  <2> HIDE DEF IInv
  <2> QED
    BY <2>1, <2>2, <2>3 DEF Covered, Counts
<1> QED
  BY <1>4, <1>5, <1>6

\* A result for others.
LEMMA ForeignInv ==
  ASSUME IInv, NEW p \in Publishers, Foreign(p)
  PROVE  IInv'
<1> USE DEF IInv
<1>1. UNCHANGED <<publisher, replica, served, answered>> /\ Asked' = Asked
  BY DEF Foreign, publisher, Asked
<1>2. resultQueue' = [q \in Publishers |-> IF q \in {p} THEN Append(resultQueue[q], Other)
                                                      ELSE resultQueue[q]]
  BY DEF Foreign, TypeOK
<1>3. /\ resultQueue' \in [Publishers -> Seq(Results)]
      /\ \A q \in Publishers : \A i \in DOMAIN resultQueue'[q] :
           \/ resultQueue'[q][i] = Other
           \/ i \in DOMAIN resultQueue[q] /\ resultQueue'[q][i] = resultQueue[q][i]
  <2>1. Other \in Results /\ resultQueue \in [Publishers -> Seq(Results)]
    BY DEF Results, TypeOK
  <2> QED
    BY <1>2, <2>1, AppendTo
<1>4. TypeOK'
  BY <1>1, <1>3 DEF TypeOK, publisher, replica
<1>5. MessagesInv'
  BY <1>1, <1>3 DEF MessagesInv, replica
<1>6. WaitingInv'
  BY <1>1 DEF WaitingInv, publisher, RequestOf, Covered, Counts
<1> QED
  BY <1>4, <1>5, <1>6

LEMMA NextInv == IInv /\ [Next]_vars => IInv'
<1> SUFFICES ASSUME IInv, [Next]_vars PROVE IInv'
  OBVIOUS
<1>1. CASE Next
  BY <1>1, AskInv, PublisherInv, ReplicaInv, TickInv, ForeignInv DEF Next
<1>2. CASE UNCHANGED vars
  BY <1>2 DEF vars, publisher, replica, IInv, TypeOK, MessagesInv, WaitingInv,
     Asked, RequestOf, Covered, Counts
<1> QED
  BY <1>1, <1>2

\* Whatever is on the way and whoever waits: the invariant of the messages and
\* of the waiting publishers.
THEOREM Invariance == Spec => []IInv
<1> QED
  BY InitInv, NextInv, PTL DEF Spec

\* A wait is at most one timeout, and one more for every result of another
\* request that was skipped meanwhile, for as many as MaxSkips lets count.
THEOREM WaitIsExplained == Spec => []WaitExplained
<1>1. IInv => WaitExplained
  BY DEF IInv, WaitingInv, Covered, WaitExplained
<1> QED
  BY <1>1, Invariance, PTL

-----------------------------------------------------------------------------
(* The refinement                                                          *)

Outstanding == [p \in Publishers |-> IF phase[p] = "waiting" THEN RequestOf(p) ELSE None]

replyState == <<Outstanding, Asked, served, answered>>

\* A step that starts or ends the wait of p, or nobody's.
LEMMA OutstandingChange ==
  ASSUME TypeOK, NEW p \in Publishers,
         \A q \in Publishers \ {p} : phase'[q] = phase[q] /\ asked'[q] = asked[q]
  PROVE  Outstanding' = [Outstanding EXCEPT ![p] = IF phase'[p] = "waiting"
                                                     THEN RequestOf(p)' ELSE None]
  BY DEF Outstanding, RequestOf

LEMMA RefineInit == Init => R!ReplyInit
<1> SUFFICES ASSUME Init PROVE R!ReplyInit
  OBVIOUS
<1>1. Asked = {}
  BY DEF Init, Asked, Requests
<1> QED
  BY <1>1 DEF Init, R!ReplyInit

LEMMA RefineNext == IInv /\ [Next]_vars => [R!ReplyNext]_R!replyVars
<1> SUFFICES ASSUME IInv, [Next]_vars
             PROVE  R!ReplyNext \/ UNCHANGED replyState
  BY DEF R!replyVars, replyState, Outstanding
<1> USE DEF IInv
<1>1. ASSUME NEW p \in Publishers, Ask(p) PROVE R!ReplyNext
  <2> PICK new \in Requests : new = <<p, asked[p] + 1>>
    BY <1>1, AskAdds
  <2>1. new \notin Asked /\ Asked' = Asked \cup {new}
    BY <1>1, AskAdds
  <2>2. Outstanding[p] = None /\ Outstanding' = [Outstanding EXCEPT ![p] = new]
    <3>1. phase[p] = "asking" /\ phase'[p] = "waiting" /\ RequestOf(p)' = new
      BY <1>1 DEF Ask, TypeOK, RequestOf
    <3>2. \A q \in Publishers \ {p} : phase'[q] = phase[q] /\ asked'[q] = asked[q]
      BY <1>1 DEF Ask, TypeOK
    <3>3. Outstanding' = [Outstanding EXCEPT ![p] = IF phase'[p] = "waiting"
                                                      THEN RequestOf(p)' ELSE None]
      BY <3>2, OutstandingChange
    <3> QED
      BY <3>1, <3>3 DEF Outstanding
  <2>3. UNCHANGED <<served, answered>>
    BY <1>1 DEF Ask
  <2>4. R!Ask(p, new)
    BY <2>1, <2>2, <2>3 DEF R!Ask, Outstanding
  <2> QED
    BY <2>4 DEF R!ReplyNext
<1>2. ASSUME NEW p \in Publishers, Report(p) \/ GiveUp(p) PROVE R!ReplyNext
  <2>1. /\ phase[p] = "waiting" /\ phase'[p] = "sleeping"
        /\ \A q \in Publishers \ {p} : phase'[q] = phase[q]
        /\ UNCHANGED <<asked, served>>
    BY <1>2 DEF Report, GiveUp, Sleep, TypeOK
  <2>2. /\ Outstanding[p] = RequestOf(p)
        /\ Outstanding' = [Outstanding EXCEPT ![p] = None]
        /\ Asked' = Asked
    <3>1. Outstanding' = [Outstanding EXCEPT ![p] = IF phase'[p] = "waiting"
                                                      THEN RequestOf(p)' ELSE None]
      BY <2>1, OutstandingChange
    <3> QED
      BY <2>1, <3>1 DEF Outstanding, Asked
  <2>3. CASE Report(p)
    <3>1. resultQueue[p] \in Seq(Results) /\ resultQueue[p] # <<>>
      BY <2>3 DEF Report, TypeOK
    <3>2. Head(resultQueue[p]) = resultQueue[p][1] /\ 1 \in DOMAIN resultQueue[p]
      BY <3>1, TailOf
    <3>3. RequestOf(p) # Other
      BY <2>1, RequestAssumption DEF WaitingInv, Asked
    <3>4. RequestOf(p) \in served /\ answered' = answered \cup {RequestOf(p)}
      BY <2>3, <3>2, <3>3 DEF Report, MessagesInv
    <3>5. R!Report(p)
      BY <2>1, <2>2, <3>4 DEF R!Report, Outstanding
    <3> QED
      BY <3>5 DEF R!ReplyNext
  <2>4. CASE GiveUp(p)
    <3>1. R!GiveUp(p)
      BY <2>1, <2>2, <2>4 DEF R!GiveUp, GiveUp, Outstanding
    <3> QED
      BY <3>1 DEF R!ReplyNext
  <2> QED
    BY <1>2, <2>3, <2>4
<1>3. ASSUME NEW p \in Publishers, Ignore(p) \/ WakeUp(p) PROVE UNCHANGED replyState
  <2>1. /\ UNCHANGED <<asked, served, answered>>
        /\ \A q \in Publishers : phase'[q] = "waiting" <=> phase[q] = "waiting"
    BY <1>3 DEF Ignore, WakeUp, TypeOK
  <2> QED
    BY <2>1 DEF replyState, Outstanding, Asked, RequestOf
<1>4. ASSUME NEW s \in Services, Reply(s) PROVE R!ReplyNext
  <2> PICK r \in Requests : r = current[s] /\ r \in Asked
    BY <1>4 DEF Reply, MessagesInv, Asked
  <2>1. UNCHANGED <<phase, asked, answered>> /\ served' = served \cup {r}
    BY <1>4 DEF Reply, publisher
  <2>2. UNCHANGED <<Outstanding, Asked>>
    BY <2>1 DEF Outstanding, Asked, RequestOf
  <2>3. R!Serve(r)
    BY <2>1, <2>2 DEF R!Serve, Outstanding
  <2> QED
    BY <2>3 DEF R!ReplyNext
<1>5. ASSUME NEW s \in Services, Start(s) \/ Receive(s) \/ Stop(s)
      PROVE  UNCHANGED replyState
  BY <1>5 DEF Start, Receive, Stop, publisher, replyState, Outstanding, Asked, RequestOf
<1>6. CASE Tick \/ \E p \in Publishers : Foreign(p)
  BY <1>6 DEF Tick, Foreign, publisher, replyState, Outstanding, Asked, RequestOf
<1>7. CASE UNCHANGED vars
  BY <1>7 DEF vars, publisher, replyState, Outstanding, Asked, RequestOf
<1> QED
  BY <1>1, <1>2, <1>3, <1>4, <1>5, <1>6, <1>7 DEF Next

\* Whatever is lost, late, answered twice or meant for another publisher, an
\* answer is reported only to the request outstanding, once, and only if a
\* replica has put it.
THEOREM Refinement == Spec => ImplementsRequestReply
<1> QED
  BY Invariance, RefineInit, RefineNext, PTL
     DEF Spec, ImplementsRequestReply, R!ReplySpec
=============================================================================
