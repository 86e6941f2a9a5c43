------------------------------ MODULE Selection ------------------------------
(***************************************************************************)
(* Which people of a gathered window get to run: the pure part of          *)
(* BatchCoordinator._choose_people_to_run_locked (Python) and              *)
(* choose_people_to_run (Rust), and the ageing of the selection history.   *)
(*                                                                         *)
(*   last     person -> time of the last selection (person_last_selected)  *)
(*   pending  person -> record whose seq field is the person's             *)
(*            sequence_number in the window (pending_people)               *)
(***************************************************************************)
EXTENDS Naturals, FiniteSets, Functions

\* A person with no recorded selection sorts first: 0.0 in Python, None in
\* Rust.  The clock of the models starts at 1, so 0 is before every stamp.
NeverSelected == 0

LastSelected(last, p) == IF p \in DOMAIN last THEN last[p] ELSE NeverSelected

\* Mutant: the key is the sequence number alone.
BeforeBySequence(last, pending, p, q) == pending[p].seq < pending[q].seq

\* The sort key is the pair (last selection, sequence number).
Before(last, pending, p, q) ==
  \/ LastSelected(last, p) < LastSelected(last, q)
  \/ /\ LastSelected(last, p) = LastSelected(last, q)
     /\ pending[p].seq < pending[q].seq

\* The people of the window that sort before p; its size is p's index in the
\* sorted list.
Ahead(last, pending, p) == {q \in DOMAIN pending : Before(last, pending, q, p)}

Rank(last, pending, p) == Cardinality(Ahead(last, pending, p))

\* Mutant: one person too many.
ChooseOneTooMany(last, pending, max) ==
  {p \in DOMAIN pending : Rank(last, pending, p) <= max}

\* prioritized[:max]
ChoosePeople(last, pending, max) ==
  {p \in DOMAIN pending : Rank(last, pending, p) < max}

\* Mutant: setdefault, an older selection is kept.
StampOnlyNew(last, S, t) ==
  [p \in DOMAIN last \cup S |-> IF p \in DOMAIN last THEN last[p] ELSE t]

\* The history after every person of S was selected at time t.
StampAll(last, S, t) ==
  [p \in DOMAIN last \cup S |-> IF p \in S THEN t ELSE last[p]]

\* Mutant: a stamp after t counts as old as one before it.
PruneBothWays(last, t, ttl) ==
  Restrict(last, {p \in DOMAIN last : ~(t > last[p] + ttl) /\ ~(last[p] > t + ttl)})

\* The history without the entries that are older than ttl at time t.  An
\* entry stamped after t is kept: the difference is negative.
Prune(last, t, ttl) ==
  Restrict(last, {p \in DOMAIN last : ~(t > last[p] + ttl)})

\* The history without person p: dict.pop(p, None), HashMap::remove.
Forget(last, p) == Restrict(last, DOMAIN last \ {p})
=============================================================================
