------------------------------ MODULE AtLeastOnce ------------------------------
(***************************************************************************)
(* What a durable job queue promises with its workers: a job is owed until *)
(* it has a result.  An owed job may get several results; once it is       *)
(* settled it gets no other one and never comes back.                      *)
(***************************************************************************)
EXTENDS Naturals

CONSTANT Jobs

VARIABLES
  owed,     \* jobs in the queue or with a worker
  outcomes  \* results per job

jobVars == <<owed, outcomes>>

JobsInit ==
  /\ owed = Jobs
  /\ outcomes = [j \in Jobs |-> 0]

Produce(j) ==
  /\ j \in owed
  /\ outcomes' = [outcomes EXCEPT ![j] = @ + 1]
  /\ UNCHANGED owed

Settle(j) ==
  /\ j \in owed
  /\ outcomes[j] > 0
  /\ owed' = owed \ {j}
  /\ UNCHANGED outcomes

JobsNext == \E j \in Jobs : Produce(j) \/ Settle(j)

JobsSpec == JobsInit /\ [][JobsNext]_jobVars
=============================================================================
