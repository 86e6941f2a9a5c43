------------------------------- MODULE AtMostOnce -------------------------------
(***************************************************************************)
(* What a worker without acknowledgements promises: a request that was     *)
(* accepted gets one result or none, and is never taken up again.          *)
(***************************************************************************)
EXTENDS Naturals

CONSTANT Requests

VARIABLES
  fresh,    \* requests that were never accepted
  open,     \* accepted requests without an outcome
  results   \* results per request

workVars == <<fresh, open, results>>

WorkInit ==
  /\ fresh = Requests
  /\ open = {}
  /\ results = [r \in Requests |-> 0]

Accept(r) ==
  /\ r \in fresh
  /\ fresh' = fresh \ {r}
  /\ open' = open \cup {r}
  /\ UNCHANGED results

Answer(r) ==
  /\ r \in open
  /\ open' = open \ {r}
  /\ results' = [results EXCEPT ![r] = 1]
  /\ UNCHANGED fresh

Lose(S) ==
  /\ open' = open \ S
  /\ UNCHANGED <<fresh, results>>

WorkNext ==
  \/ \E r \in Requests : Accept(r) \/ Answer(r)
  \/ \E S \in SUBSET open : Lose(S)

WorkSpec == WorkInit /\ [][WorkNext]_workVars
=============================================================================
