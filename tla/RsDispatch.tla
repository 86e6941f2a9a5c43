------------------------------ MODULE RsDispatch ------------------------------
(***************************************************************************)
(* The Rust orchestrator implements Dispatch, as the Python one does: a    *)
(* person is outstanding until the event loop has handled the completion.  *)
(***************************************************************************)
EXTENDS RsOrchestrator

Gathering == IF currentWindow = None THEN {} ELSE DOMAIN currentWindow.pending

Batch == {t.person : t \in tickets}

BatchChores ==
  IF tickets = {} THEN None ELSE CHOOSE c \in Chores : \E t \in tickets : t.chores = c

D == INSTANCE Dispatch WITH latest      <- latestChores,
                            gathering   <- Gathering,
                            batch       <- Batch,
                            batchChores <- BatchChores,
                            MaxActive   <- MaxPeople

\* Every step of the event loop, the tasks and the pool is a step of the
\* abstract orchestrator or invisible to it.
ImplementsDispatch == D!DispatchSpec
=============================================================================
