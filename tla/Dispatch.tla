------------------------------- MODULE Dispatch -------------------------------
(***************************************************************************)
(* What an orchestrator promises, whatever its threads do.  Chores are     *)
(* remembered; people gather; a gathering ends by running some of its      *)
(* people as one batch with the chores of that moment, or, with no chores  *)
(* or a batch still outstanding, by dropping everybody.  Both              *)
(* BatchCoordinators implement it.                                         *)
(***************************************************************************)
EXTENDS Naturals, FiniteSets

CONSTANTS People, Chores, None, MaxActive

VARIABLES
  latest,     \* the last chores received
  gathering,  \* people of the open window
  batch,      \* people of the batch that are outstanding
  batchChores \* the chores they are given

dispatchVars == <<latest, gathering, batch, batchChores>>

DispatchInit ==
  /\ latest = None
  /\ gathering = {}
  /\ batch = {}
  /\ batchChores = None

NewChores(c) ==
  /\ latest' = c
  /\ UNCHANGED <<gathering, batch, batchChores>>

Gather(p) ==
  /\ gathering' = gathering \cup {p}
  /\ UNCHANGED <<latest, batch, batchChores>>

Drop ==
  /\ latest = None \/ batch # {}
  /\ gathering' = {}
  /\ UNCHANGED <<latest, batch, batchChores>>

\* A place of the batch stays free only when everybody runs.
Run(S) ==
  /\ latest # None
  /\ batch = {}
  /\ Cardinality(S) <= MaxActive
  /\ S # gathering => Cardinality(S) = MaxActive
  /\ gathering' = {}
  /\ batch' = S
  /\ batchChores' = latest
  /\ UNCHANGED latest

Complete(p) ==
  /\ p \in batch
  /\ batch' = batch \ {p}
  /\ batchChores' = IF batch' = {} THEN None ELSE batchChores
  /\ UNCHANGED <<latest, gathering>>

DispatchNext ==
  \/ \E c \in Chores : NewChores(c)
  \/ \E p \in People : Gather(p)
  \/ Drop
  \/ \E S \in (SUBSET gathering) \ {{}} : Run(S)
  \/ \E p \in batch : Complete(p)

DispatchSpec == DispatchInit /\ [][DispatchNext]_dispatchVars
=============================================================================
