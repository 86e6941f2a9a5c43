------------------------------ MODULE PyDispatch ------------------------------
(***************************************************************************)
(* The Python orchestrator implements Dispatch: the people gathering are   *)
(* those pending in the window, the batch is the outstanding tickets.      *)
(***************************************************************************)
EXTENDS PyCoordinator

Gathering == IF currentWindow = None THEN {} ELSE DOMAIN currentWindow.pending

Batch == {t.person : t \in tickets}

BatchChores ==
  IF tickets = {} THEN None ELSE CHOOSE c \in Chores : \E t \in tickets : t.chores = c

D == INSTANCE Dispatch WITH latest      <- latestChores,
                            gathering   <- Gathering,
                            batch       <- Batch,
                            batchChores <- BatchChores

\* Every step of the Python threads is a step of the abstract orchestrator or
\* invisible to it, whichever threads fail to start.
ImplementsDispatch == D!DispatchSpec
=============================================================================
