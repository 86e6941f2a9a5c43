--------------------------- MODULE AssignmentSolver ---------------------------
(***************************************************************************)
(* solve_assignment of the Rust assignment service: a square matrix is     *)
(* padded, filled and given to lapjv, and its rows are read back.          *)
(*                                                                         *)
(* Workers and jobs are their indices in the request (their ids differ; of *)
(* several scores for one pair the last counts).  The Python solver        *)
(* is not modelled: its module uses names it does not import and cannot be *)
(* loaded.                                                                 *)
(***************************************************************************)
EXTENDS Integers, FiniteSets, FiniteSetsExt, Functions

CONSTANTS
  Scores,      \* cost fields of AssignmentCost
  Impossible,  \* SOLVER_IMPOSSIBLE_COST
  MaxTotal,    \* u32::MAX
  None,        \* no result yet
  MaxWorkers,  \* bound: workers of a request
  MaxJobs      \* bound: jobs of a request

ASSUME ScoresAssumption ==
  /\ Scores \subseteq 0..MaxTotal
  /\ MaxTotal \in Nat
  /\ Impossible \in 1..MaxTotal
  /\ MaxWorkers \in Nat
  /\ MaxJobs \in Nat

VARIABLES
  workers,  \* real_worker_count
  jobs,     \* real_job_count
  costs,    \* <<worker, job>> -> score, for the pairs of the request
  result    \* AssignmentOutput: worker -> job, and total_cost

vars == <<workers, jobs, costs, result>>

Init ==
  /\ workers \in 0..MaxWorkers
  /\ jobs \in 0..MaxJobs
  /\ costs \in UNION {[S -> Scores] : S \in SUBSET ((1..workers) \X (1..jobs))}
  /\ result = None

SolverSize == Max({workers, jobs})

\* Mutant: the scores are not negated.
SolverMatrixPositive ==
  [w \in 1..SolverSize |-> [j \in 1..SolverSize |->
     IF w > workers \/ j > jobs THEN 0
     ELSE IF <<w, j>> \in DOMAIN costs THEN costs[<<w, j>>] ELSE Impossible]]

SolverMatrix ==
  [w \in 1..SolverSize |-> [j \in 1..SolverSize |->
     IF w > workers \/ j > jobs THEN 0
     ELSE IF <<w, j>> \in DOMAIN costs THEN -costs[<<w, j>>] ELSE Impossible]]

\* lapjv: some row assignment of least cost.
Lapjv(matrix) ==
  LET rows    == Bijection(1..SolverSize, 1..SolverSize)
      Cost(f) == SumFunction([w \in 1..SolverSize |-> matrix[w][f[w]]])
      least   == Min({Cost(f) : f \in rows})
  IN  {f \in rows : Cost(f) = least}

\* Mutant: impossible pairs are reported.
CollectAll(row, matrix) ==
  [w \in {v \in 1..workers : row[v] <= jobs} |-> row[w]]

\* The rows that are neither dummies nor impossible.
Collect(row, matrix) ==
  [w \in {v \in 1..workers : row[v] <= jobs /\ matrix[v][row[v]] < Impossible}
     |-> row[w]]

\* score_matrix as u32: the IMPOSSIBLE_SCORE -1.0 becomes 0.
ScoreMatrix ==
  [w \in 1..workers |-> [j \in 1..jobs |->
     IF <<w, j>> \in DOMAIN costs THEN costs[<<w, j>>] ELSE 0]]

ScoresOf(assigned) ==
  [w \in DOMAIN assigned |-> ScoreMatrix[w][assigned[w]]]

\* Saturating addition.
TotalOf(assigned) == Min({MaxTotal, SumFunction(ScoresOf(assigned))})

\* A request without workers or jobs is answered at once.
Solve ==
  /\ result = None
  /\ IF workers = 0 \/ jobs = 0
       THEN result' = [assigned |-> <<>>, total |-> 0]
       ELSE \E row \in Lapjv(SolverMatrix) :
              LET assigned == Collect(row, SolverMatrix)
              IN  result' = [assigned |-> assigned, total |-> TotalOf(assigned)]
  /\ UNCHANGED <<workers, jobs, costs>>

Next == Solve

Spec == Init /\ [][Next]_vars

-----------------------------------------------------------------------------
(* Properties                                                              *)

\* Every way to give jobs of the request to workers, each at most once.
Matchings ==
  {m \in UNION {Injection(S, 1..jobs) : S \in SUBSET (1..workers)} :
     \A w \in DOMAIN m : <<w, m[w]>> \in DOMAIN costs}

Places(m) == Cardinality(DOMAIN m)

\* Whatever lapjv returns for the padded matrix, the answer is a matching over
\* pairs the request has a score for: no dummy, no impossible pair and no job
\* twice.
IsMatching == result # None => result.assigned \in Matchings

\* A pair counts as much as the cost of an impossible one, and its score on top,
\* without saturation.
Worth(m) == Impossible * Places(m) + SumFunction(ScoresOf(m))

\* All scores of a matching together stay below the cost of an impossible
\* pair.  In the code: below 1_000_000_000, although a score is a u32.
SmallScores == \A m \in Matchings : TotalOf(m) < Impossible

\* A worker that could be placed is left out only for scores that are greater by
\* the cost of an impossible pair.  With small scores that never happens: as many
\* workers as possible get a job, and among those matchings the total reported is
\* the greatest.
BestMatching ==
  result # None =>
    LET most  == Worth(result.assigned)
        small == SmallScores
    IN  \A m \in Matchings :
          /\ Worth(m) <= most
          /\ small => /\ Places(m) <= Places(result.assigned)
                      /\ Places(m) = Places(result.assigned) => TotalOf(m) <= result.total

\* "uint32 cost = 3; // lower is better" (assignment.proto:20): no matching
\* that gives a job to as many workers costs less.
LowerIsBetter ==
  result # None =>
    \A m \in Matchings :
      Places(m) = Places(result.assigned) => result.total <= TotalOf(m)
=============================================================================
