------------------------------ MODULE ChoreFilter ------------------------------
(***************************************************************************)
(* process_chore_filter_request in Python and in Rust, run side by side on *)
(* the same request: the loop over the chores, which takes a chore when    *)
(* its minutes still fit.  Python adds integers; the release build of the  *)
(* Rust orchestrator adds u32, which wraps.                                *)
(***************************************************************************)
EXTENDS Naturals, Sequences

CONSTANTS Modulus,    \* 2^32 in the code
          MaxChores   \* bound: chores of a message

ASSUME ModulusAssumption == Modulus \in Nat \ {0} /\ MaxChores \in Nat

Minutes == 0..(Modulus - 1)   \* uint32

VARIABLES
  estimated,   \* estimated_minutes of the chores, in the order of the message
  available,   \* available_minutes of the person
  done,        \* chores looked at
  py,          \* used_minutes and accepted_chores of the Python loop
  rs           \* the same of the Rust loop

vars == <<estimated, available, done, py, rs>>

\* What a loop has collected: the counter it keeps, the indices of the chores
\* it accepted (the others are rejected) and, as history, their exact minutes.
Collected == [used : Nat, accepted : SUBSET Nat, minutes : Nat]

Nothing == [used |-> 0, accepted |-> {}, minutes |-> 0]

Requests == UNION {[1..n -> Minutes] : n \in 0..MaxChores}

Init ==
  /\ estimated \in Requests
  /\ available \in Minutes
  /\ done = 0
  /\ py = Nothing
  /\ rs = Nothing

Accept(loop, i, sum) ==
  [used     |-> sum,
   accepted |-> loop.accepted \cup {i},
   minutes  |-> loop.minutes + estimated[i]]

\* Mutant: the test forgets the minutes already used.
PyTakeAlone(i) ==
  IF estimated[i] <= available
    THEN Accept(py, i, py.used + estimated[i]) ELSE py

PyTake(i) ==
  IF py.used + estimated[i] <= available
    THEN Accept(py, i, py.used + estimated[i]) ELSE py

\* Mutant: strictly less, a chore that fills the time is rejected.
RsTakeStrict(i) ==
  LET sum == (rs.used + estimated[i]) % Modulus
  IN  IF sum < available THEN Accept(rs, i, sum) ELSE rs

RsTake(i) ==
  LET sum == (rs.used + estimated[i]) % Modulus
  IN  IF sum <= available THEN Accept(rs, i, sum) ELSE rs

NextChore ==
  /\ done < Len(estimated)
  /\ done' = done + 1
  /\ py' = PyTake(done + 1)
  /\ rs' = RsTake(done + 1)
  /\ UNCHANGED <<estimated, available>>

Next == NextChore

Spec == Init /\ [][Next]_vars

-----------------------------------------------------------------------------
(* Properties                                                              *)

TypeOK ==
  /\ estimated \in Seq(Minutes)
  /\ available \in Minutes
  /\ done \in 0..Len(estimated)
  /\ py \in Collected
  /\ rs \in Collected

\* The chores given to a person fit into the person's time, and nothing that
\* was rejected would still fit, although it was rejected before the time was
\* used up.
GoodFor(loop) ==
  /\ loop.minutes <= available
  /\ \A i \in (1..done) \ loop.accepted : loop.minutes + estimated[i] > available

PyFillsTime == GoodFor(py)

\* No sum of the Rust loop reaches 2^32.
NoOverflow == \A i \in 1..Len(estimated) : available + estimated[i] < Modulus

\* The Rust loop gives a person the same chores as the Python loop unless the
\* person's time and one chore together reach 2^32.
SameUnlessOverflow == NoOverflow => rs = py

\* After a wrap the Rust result still looks consistent: the counter is within
\* the person's time and equals the minutes given modulo 2^32, so that neither
\* used_minutes nor remaining_minutes shows that too much was given.
WrapIsSilent ==
  /\ rs.used <= available
  /\ rs.used = rs.minutes % Modulus
=============================================================================
