------------------------ MODULE AssignmentSolverProofs ------------------------
(***************************************************************************)
(* The answer of the Rust solver is a matching, and a best one while the   *)
(* scores are small, for requests of every size.  Nothing is used of lapjv *)
(* but that it returns a row assignment of least cost.                     *)
(***************************************************************************)
EXTENDS AssignmentSolver, FiniteSetTheorems, FunctionTheorems, TLAPS

-----------------------------------------------------------------------------
(* Sums.  Induction is done with sets: of the sets for which a fact is     *)
(* wrong one is smallest, and the fact holds for everything below it.      *)

\* Of the subsets of a finite set that are in C, one contains no other: what
\* induction over the finite sets comes down to.
LEMMA SmallestSet ==
  ASSUME NEW S, IsFiniteSet(S), NEW C, C \subseteq SUBSET S, C # {}
  PROVE  \E T \in C : \A U \in C : U \subseteq T => U = T
<1> DEFINE R == StrictSubsetOrdering(S)
           F == FiniteSubsetsOf(S)
<1>1. IsWellFoundedOn(R, F)
  BY FS_StrictSubsetOrderingWellFounded
<1>2. C \subseteq F
  BY FS_FiniteSubsetsOfFinite
<1> HIDE DEF R, F
<1>3. PICK T \in C : \A U \in C : ~(<<U, T>> \in R)
  BY <1>1, <1>2, WFMin
<1>4. \A U \in C : U \subseteq T => U = T
  BY <1>3 DEF R, StrictSubsetOrdering
<1> QED
  BY <1>4

\* A set of naturals that is not empty has a least element.
LEMMA LeastNatural ==
  ASSUME NEW N, N \subseteq Nat, N # {}
  PROVE  \E n \in N : \A k \in N : n <= k
<1>1. PICK m \in N : TRUE
  OBVIOUS
<1> DEFINE C == {0..k : k \in {i \in N : i <= m}}
<1>2. C \subseteq SUBSET (0..m) /\ 0..m \in C
  BY <1>1
<1>3. IsFiniteSet(0..m)
  <2>1. 0 \in Int /\ m \in Int
    OBVIOUS
  <2> QED
    BY <2>1, FS_Interval
<1>4. PICK T \in C : \A U \in C : U \subseteq T => U = T
  <2> DEFINE S == 0..m
  <2>1. IsFiniteSet(S) /\ C \subseteq SUBSET S /\ C # {}
    BY <1>2, <1>3
  <2> HIDE DEF C, S
  <2> QED
    BY <2>1, SmallestSet
<1>5. PICK n \in N : n <= m /\ T = 0..n
  OBVIOUS
<1>6. ASSUME NEW k \in N, k < n PROVE FALSE
  <2>1. k \in Nat /\ n \in Nat /\ m \in Nat
    OBVIOUS
  <2>2. 0..k \in C /\ 0..k \subseteq 0..n
    BY <1>5, <1>6, <2>1
  <2>3. 0..k = 0..n
    BY <1>4, <1>5, <2>2
  <2>4. n \in 0..n /\ n \notin 0..k
    BY <1>6, <2>1
  <2> QED
    BY <2>3, <2>4
<1>7. \A k \in N : n <= k
  BY <1>6
<1> QED
  BY <1>7

FirstOf(T) == CHOOSE x \in T : TRUE

\* iter holds the sums of f over all sets of G.
SumsOver(iter, f, G) ==
  iter = [T \in G |-> IF T = {} THEN 0 ELSE f[FirstOf(T)] + iter[T \ {FirstOf(T)}]]

Sums(f) == CHOOSE iter : SumsOver(iter, f, SUBSET DOMAIN f)

\* The sum of f over a part of its domain.
SumOn(f, T) == Sums(f)[T]

LEMMA SumFunctionIs ==
  ASSUME NEW f
  PROVE  SumFunction(f) = SumOn(f, DOMAIN f)
  BY DEF SumFunction, SumFunctionOnSet, FoldFunctionOnSet, MapThenFoldSet, SumOn, Sums,
         SumsOver, FirstOf

\* The recursion defines a function.
LEMMA SumsDefined ==
  ASSUME NEW f, IsFiniteSet(DOMAIN f)
  PROVE  SumsOver(Sums(f), f, SUBSET DOMAIN f)
<1> DEFINE S == DOMAIN f
           Upto(n) == {T \in SUBSET S : Cardinality(T) <= n}
           Bad == {n \in Nat : ~\E iter : SumsOver(iter, f, Upto(n))}
<1>1. \A T \in SUBSET S :
        /\ IsFiniteSet(T) /\ Cardinality(T) \in Nat
        /\ Cardinality(T) = 0 <=> T = {}
        /\ Cardinality(T) <= Cardinality(S)
  BY FS_Subset, FS_CardinalityType, FS_EmptySet
<1>2. \A T \in SUBSET S : T # {} =>
        /\ FirstOf(T) \in T
        /\ T \ {FirstOf(T)} \in SUBSET S
        /\ Cardinality(T \ {FirstOf(T)}) = Cardinality(T) - 1
  BY <1>1, FS_RemoveElement DEF FirstOf
<1>3. Bad = {}
  <2> SUFFICES ASSUME Bad # {} PROVE FALSE
    OBVIOUS
  <2>1. PICK n \in Bad : \A k \in Bad : n <= k
    BY LeastNatural
  <2>2. n \in Nat /\ ~\E iter : SumsOver(iter, f, Upto(n))
    OBVIOUS
  <2>3. CASE n = 0
    <3> DEFINE iter == [T \in Upto(0) |-> 0]
    <3>1. \A T \in Upto(0) : T = {}
      BY <1>1
    <3>2. SumsOver(iter, f, Upto(0))
      BY <3>1 DEF SumsOver
    <3> QED
      BY <2>2, <2>3, <3>2
  <2>4. CASE n # 0
    <3>1. n - 1 \in Nat /\ ~(n <= n - 1)
      BY <2>2, <2>4
    <3>2. PICK before : SumsOver(before, f, Upto(n - 1))
      BY <2>1, <3>1
    <3> DEFINE iter == [T \in Upto(n) |->
                          IF Cardinality(T) <= n - 1 THEN before[T]
                          ELSE f[FirstOf(T)] + before[T \ {FirstOf(T)}]]
    <3>3. \A T \in Upto(n - 1) :
            before[T] = IF T = {} THEN 0
                        ELSE f[FirstOf(T)] + before[T \ {FirstOf(T)}]
      BY <3>2 DEF SumsOver
    <3>4. ASSUME NEW T \in Upto(n)
          PROVE  iter[T] = IF T = {} THEN 0
                           ELSE f[FirstOf(T)] + iter[T \ {FirstOf(T)}]
      <4>1. T \in SUBSET S /\ Cardinality(T) \in Nat
        BY <1>1
      <4>2. CASE T = {}
        <5>1. Cardinality(T) <= n - 1 /\ T \in Upto(n - 1)
          BY <1>1, <2>2, <2>4, <4>1, <4>2
        <5> QED
          BY <3>3, <4>2, <5>1
      <4>3. CASE T # {}
        <5> DEFINE U == T \ {FirstOf(T)}
        <5>1. U \in SUBSET S /\ Cardinality(U) = Cardinality(T) - 1
          BY <1>2, <4>1, <4>3
        <5>2. Cardinality(U) <= n - 1 /\ U \in Upto(n)
          BY <2>2, <4>1, <5>1
        <5>3. iter[U] = before[U]
          BY <5>2
        <5>4. iter[T] = f[FirstOf(T)] + before[U]
          <6>1. CASE Cardinality(T) <= n - 1
            BY <3>3, <4>3, <6>1
          <6>2. CASE ~(Cardinality(T) <= n - 1)
            BY <6>2
          <6> QED
            BY <6>1, <6>2
        <5> QED
          BY <4>3, <5>3, <5>4
      <4> QED
        BY <4>2, <4>3
    <3>5. SumsOver(iter, f, Upto(n))
      <4> HIDE DEF Upto
      <4> QED
        BY <3>4 DEF SumsOver
    <3> QED
      BY <2>2, <3>5
  <2> QED
    BY <2>3, <2>4
<1>4. Upto(Cardinality(S)) = SUBSET S /\ Cardinality(S) \in Nat
  BY <1>1
<1>5. \E iter : SumsOver(iter, f, SUBSET S)
  BY <1>3, <1>4
<1> QED
  BY <1>5 DEF Sums

LEMMA SumOnStep ==
  ASSUME NEW f, IsFiniteSet(DOMAIN f), NEW T \in SUBSET DOMAIN f
  PROVE  /\ T = {} => SumOn(f, T) = 0
         /\ T # {} => /\ FirstOf(T) \in T
                      /\ SumOn(f, T) = f[FirstOf(T)] + SumOn(f, T \ {FirstOf(T)})
<1>1. T # {} => FirstOf(T) \in T
  BY DEF FirstOf
<1> QED
  BY <1>1, SumsDefined DEF SumsOver, SumOn

LEMMA SumOnEmpty ==
  ASSUME NEW f, IsFiniteSet(DOMAIN f)
  PROVE  SumOn(f, {}) = 0
<1>1. {} \in SUBSET DOMAIN f
  OBVIOUS
<1> QED
  BY <1>1, SumOnStep

LEMMA SumOnType ==
  ASSUME NEW S, IsFiniteSet(S), NEW f \in [S -> Int], NEW T \in SUBSET S
  PROVE  SumOn(f, T) \in Int
<1> DEFINE Bad == {U \in SUBSET S : SumOn(f, U) \notin Int}
<1> SUFFICES ASSUME Bad # {} PROVE FALSE
  OBVIOUS
<1>1. PICK U \in Bad : \A V \in Bad : V \subseteq U => V = U
  <2>1. Bad \subseteq SUBSET S
    OBVIOUS
  <2> HIDE DEF Bad
  <2> QED
    BY <2>1, SmallestSet
<1>2. U \in SUBSET DOMAIN f /\ SumOn(f, U) \notin Int /\ IsFiniteSet(DOMAIN f)
  OBVIOUS
<1>3. U # {}
  BY <1>2, SumOnEmpty
<1>4. FirstOf(U) \in U /\ SumOn(f, U) = f[FirstOf(U)] + SumOn(f, U \ {FirstOf(U)})
  BY <1>2, <1>3, SumOnStep
<1>5. U \ {FirstOf(U)} \in SUBSET S /\ U \ {FirstOf(U)} \notin Bad
  BY <1>1, <1>4
<1>6. SumOn(f, U \ {FirstOf(U)}) \in Int
  BY <1>5
<1> QED
  BY <1>2, <1>4, <1>6

\* The order of the terms does not matter: any of them may be taken out.
LEMMA SumOnRemove ==
  ASSUME NEW S, IsFiniteSet(S), NEW f \in [S -> Int], NEW T \in SUBSET S, NEW x \in T
  PROVE  SumOn(f, T) = f[x] + SumOn(f, T \ {x})
<1> DEFINE Bad == {U \in SUBSET S : \E y \in U : SumOn(f, U) # f[y] + SumOn(f, U \ {y})}
<1> SUFFICES ASSUME Bad # {} PROVE FALSE
  OBVIOUS
<1>1. PICK U \in Bad : \A V \in Bad : V \subseteq U => V = U
  <2>1. Bad \subseteq SUBSET S
    OBVIOUS
  <2> HIDE DEF Bad
  <2> QED
    BY <2>1, SmallestSet
<1>2. PICK y \in U : SumOn(f, U) # f[y] + SumOn(f, U \ {y})
  OBVIOUS
<1> DEFINE z == FirstOf(U)
<1>3. z \in U /\ SumOn(f, U) = f[z] + SumOn(f, U \ {z})
  BY SumOnStep
<1>4. y # z
  BY <1>2, <1>3
<1>5. U \ {z} \in SUBSET S /\ U \ {z} \notin Bad /\ y \in U \ {z}
  BY <1>1, <1>3, <1>4
<1>6. U \ {y} \in SUBSET S /\ U \ {y} \notin Bad /\ z \in U \ {y}
  BY <1>1, <1>3, <1>4
<1>7. SumOn(f, U \ {z}) = f[y] + SumOn(f, (U \ {z}) \ {y})
  BY <1>5
<1>8. SumOn(f, U \ {y}) = f[z] + SumOn(f, (U \ {y}) \ {z})
  BY <1>6
<1>9. (U \ {z}) \ {y} = (U \ {y}) \ {z} /\ (U \ {y}) \ {z} \in SUBSET S
  OBVIOUS
<1>10. f[y] \in Int /\ f[z] \in Int /\ SumOn(f, (U \ {y}) \ {z}) \in Int
  BY <1>3, <1>9, SumOnType
<1> HIDE DEF z
<1> QED
  BY <1>2, <1>3, <1>7, <1>8, <1>9, <1>10

\* The sum of a function that is a sum.
LEMMA SumOnPlus ==
  ASSUME NEW S, IsFiniteSet(S), NEW f \in [S -> Int], NEW g \in [S -> Int],
         NEW h \in [S -> Int], \A x \in S : h[x] = f[x] + g[x],
         NEW T \in SUBSET S
  PROVE  SumOn(h, T) = SumOn(f, T) + SumOn(g, T)
<1> DEFINE Bad == {U \in SUBSET S : SumOn(h, U) # SumOn(f, U) + SumOn(g, U)}
<1> SUFFICES ASSUME Bad # {} PROVE FALSE
  OBVIOUS
<1>1. PICK U \in Bad : \A V \in Bad : V \subseteq U => V = U
  <2>1. Bad \subseteq SUBSET S
    OBVIOUS
  <2> HIDE DEF Bad
  <2> QED
    BY <2>1, SmallestSet
<1> DEFINE x == FirstOf(U)
           V == U \ {x}
<1>2. U # {}
  <2>1. SumOn(f, {}) = 0 /\ SumOn(g, {}) = 0 /\ SumOn(h, {}) = 0
    BY SumOnEmpty
  <2>2. SumOn(h, U) # SumOn(f, U) + SumOn(g, U)
    OBVIOUS
  <2> HIDE DEF Bad
  <2> QED
    BY <2>1, <2>2
<1>3. /\ x \in U
      /\ SumOn(f, U) = f[x] + SumOn(f, V)
      /\ SumOn(g, U) = g[x] + SumOn(g, V)
      /\ SumOn(h, U) = h[x] + SumOn(h, V)
  BY <1>2, SumOnStep
<1>4. V \in SUBSET S /\ V \notin Bad
  BY <1>1, <1>3
<1>5. SumOn(h, V) = SumOn(f, V) + SumOn(g, V)
  BY <1>4
<1>6. /\ f[x] \in Int /\ g[x] \in Int /\ h[x] = f[x] + g[x]
      /\ SumOn(f, V) \in Int /\ SumOn(g, V) \in Int
  BY <1>3, <1>4, SumOnType
<1>7. SumOn(h, U) # SumOn(f, U) + SumOn(g, U)
  OBVIOUS
<1> HIDE DEF x, V
<1> QED
  BY <1>3, <1>5, <1>6, <1>7

LEMMA SumOnMonotonic ==
  ASSUME NEW S, IsFiniteSet(S), NEW f \in [S -> Int], NEW g \in [S -> Int],
         \A x \in S : f[x] <= g[x],
         NEW T \in SUBSET S
  PROVE  SumOn(f, T) <= SumOn(g, T)
<1> DEFINE Bad == {U \in SUBSET S : ~(SumOn(f, U) <= SumOn(g, U))}
<1> SUFFICES ASSUME Bad # {} PROVE FALSE
  OBVIOUS
<1>1. PICK U \in Bad : \A V \in Bad : V \subseteq U => V = U
  <2>1. Bad \subseteq SUBSET S
    OBVIOUS
  <2> HIDE DEF Bad
  <2> QED
    BY <2>1, SmallestSet
<1> DEFINE x == FirstOf(U)
           V == U \ {x}
<1>2. U # {}
  BY SumOnEmpty
<1>3. /\ x \in U
      /\ SumOn(f, U) = f[x] + SumOn(f, V)
      /\ SumOn(g, U) = g[x] + SumOn(g, V)
  BY <1>2, SumOnStep
<1>4. V \in SUBSET S /\ V \notin Bad
  BY <1>1, <1>3
<1>5. SumOn(f, V) <= SumOn(g, V)
  BY <1>4
<1>6. /\ f[x] \in Int /\ g[x] \in Int /\ f[x] <= g[x]
      /\ SumOn(f, V) \in Int /\ SumOn(g, V) \in Int
  BY <1>3, <1>4, SumOnType
<1>7. ~(SumOn(f, U) <= SumOn(g, U))
  OBVIOUS
<1> HIDE DEF x, V
<1> QED
  BY <1>3, <1>5, <1>6, <1>7

LEMMA SumOnConstant ==
  ASSUME NEW S, IsFiniteSet(S), NEW f \in [S -> Int], NEW T \in SUBSET S,
         NEW k \in Int, \A x \in T : f[x] = k
  PROVE  SumOn(f, T) = k * Cardinality(T)
<1> DEFINE Bad == {U \in SUBSET T : SumOn(f, U) # k * Cardinality(U)}
<1>0. IsFiniteSet(T)
  BY FS_Subset
<1> SUFFICES ASSUME Bad # {} PROVE FALSE
  OBVIOUS
<1>1. PICK U \in Bad : \A V \in Bad : V \subseteq U => V = U
  <2>1. Bad \subseteq SUBSET T
    OBVIOUS
  <2> HIDE DEF Bad
  <2> QED
    BY <1>0, <2>1, SmallestSet
<1> DEFINE x == FirstOf(U)
           V == U \ {x}
<1>2. U \in SUBSET T /\ U \in SUBSET S /\ SumOn(f, U) # k * Cardinality(U)
  OBVIOUS
<1>3. IsFiniteSet(U) /\ Cardinality(U) \in Nat
  BY <1>2, FS_Subset, FS_CardinalityType
<1>4. U # {}
  <2>1. Cardinality({}) = 0 /\ SumOn(f, {}) = 0
    BY FS_EmptySet, SumOnEmpty
  <2>2. k * 0 = 0
    OBVIOUS
  <2> HIDE DEF Bad
  <2> QED
    BY <1>2, <2>1, <2>2
<1>5. x \in U /\ SumOn(f, U) = f[x] + SumOn(f, V)
  BY <1>2, <1>4, SumOnStep
<1>6. V \in SUBSET T /\ V \notin Bad
  BY <1>1, <1>2, <1>5
<1>7. SumOn(f, V) = k * Cardinality(V)
  BY <1>6
<1>8. Cardinality(V) = Cardinality(U) - 1
  BY <1>3, <1>5, FS_RemoveElement
<1>9. f[x] = k
  BY <1>2, <1>5
<1> HIDE DEF x, V, Bad
<1> QED
  BY <1>2, <1>3, <1>5, <1>7, <1>8, <1>9

\* What is zero may be left out.
LEMMA SumOnPart ==
  ASSUME NEW S, IsFiniteSet(S), NEW f \in [S -> Int], NEW D \in SUBSET S,
         \A x \in S \ D : f[x] = 0
  PROVE  SumOn(f, S) = SumOn(f, D)
<1> DEFINE Bad == {U \in SUBSET S : SumOn(f, U) # SumOn(f, U \cap D)}
<1>1. ASSUME Bad # {} PROVE FALSE
  <2>1. PICK U \in Bad : \A V \in Bad : V \subseteq U => V = U
    <3>1. Bad \subseteq SUBSET S
      OBVIOUS
    <3> HIDE DEF Bad
    <3> QED
      BY <1>1, <3>1, SmallestSet
  <2> DEFINE x == FirstOf(U)
             V == U \ {x}
  <2>2. U \in SUBSET S /\ SumOn(f, U) # SumOn(f, U \cap D)
    OBVIOUS
  <2>3. U # {}
    BY <2>2
  <2>4. x \in U /\ SumOn(f, U) = f[x] + SumOn(f, V)
    BY <2>2, <2>3, SumOnStep
  <2>5. V \in SUBSET S /\ V \notin Bad
    BY <2>1, <2>2, <2>4
  <2>6. SumOn(f, V) = SumOn(f, V \cap D)
    BY <2>5
  <2>7. SumOn(f, V \cap D) \in Int
    BY <2>5, SumOnType
  <2>8. CASE x \in D
    <3>1. SumOn(f, U \cap D) = f[x] + SumOn(f, (U \cap D) \ {x})
      BY <2>2, <2>4, <2>8, SumOnRemove
    <3>2. (U \cap D) \ {x} = V \cap D
      OBVIOUS
    <3> QED
      BY <2>2, <2>4, <2>6, <3>1, <3>2
  <2>9. CASE x \notin D
    <3>1. V \cap D = U \cap D /\ f[x] = 0
      BY <2>2, <2>4, <2>9
    <3>2. SumOn(f, V) \in Int
      BY <2>5, SumOnType
    <3>3. SumOn(f, U) = SumOn(f, V)
      BY <2>4, <3>1, <3>2
    <3> QED
      BY <2>2, <2>6, <3>1, <3>3
  <2> QED
    BY <2>8, <2>9
<1>2. S \in SUBSET S /\ S \cap D = D
  OBVIOUS
<1> QED
  BY <1>1, <1>2

\* Functions that agree on T have the same sum over T, whatever their domains.
LEMMA SumOnAgree ==
  ASSUME NEW S, IsFiniteSet(S), NEW f \in [S -> Int],
         NEW D, IsFiniteSet(D), NEW g \in [D -> Int],
         NEW T, T \subseteq S, T \subseteq D, \A x \in T : f[x] = g[x]
  PROVE  SumOn(f, T) = SumOn(g, T)
<1> DEFINE Bad == {U \in SUBSET T : SumOn(f, U) # SumOn(g, U)}
<1>0. IsFiniteSet(T)
  BY FS_Subset
<1> SUFFICES ASSUME Bad # {} PROVE FALSE
  OBVIOUS
<1>1. PICK U \in Bad : \A V \in Bad : V \subseteq U => V = U
  <2>1. Bad \subseteq SUBSET T
    OBVIOUS
  <2> HIDE DEF Bad
  <2> QED
    BY <1>0, <2>1, SmallestSet
<1> DEFINE x == FirstOf(U)
           V == U \ {x}
<1>2. U \in SUBSET T /\ U \in SUBSET S /\ U \in SUBSET D /\ SumOn(f, U) # SumOn(g, U)
  OBVIOUS
<1>3. U # {}
  BY <1>2, SumOnEmpty
<1>4. /\ x \in U
      /\ SumOn(f, U) = f[x] + SumOn(f, V)
      /\ SumOn(g, U) = g[x] + SumOn(g, V)
  BY <1>2, <1>3, SumOnStep
<1>5. V \in SUBSET T /\ V \notin Bad
  BY <1>1, <1>2, <1>4
<1>6. SumOn(f, V) = SumOn(g, V)
  BY <1>5
<1>7. f[x] = g[x]
  BY <1>2, <1>4
<1> QED
  BY <1>2, <1>4, <1>6, <1>7

-----------------------------------------------------------------------------
(* Costs and scores of the padded matrix                                   *)

RequestInv ==
  /\ workers \in Nat
  /\ jobs \in Nat
  /\ DOMAIN costs \subseteq (1..workers) \X (1..jobs)
  /\ costs \in [DOMAIN costs -> Scores]

LEMMA SolverSizeBounds ==
  ASSUME RequestInv
  PROVE  /\ SolverSize \in Nat /\ workers <= SolverSize /\ jobs <= SolverSize
         /\ SolverSize = workers \/ SolverSize = jobs
<1>1. \E x \in {workers, jobs} : \A y \in {workers, jobs} : x >= y
  BY DEF RequestInv
<1>2. /\ SolverSize \in {workers, jobs}
      /\ \A y \in {workers, jobs} : SolverSize >= y
  BY <1>1 DEF SolverSize, Max
<1> QED
  BY <1>2 DEF RequestInv

Rows == 1..SolverSize
RowAssignments == Bijection(Rows, Rows)

\* Workers that a row assignment gives a job of the request.
RealRows(row) == {w \in 1..workers : row[w] <= jobs}

\* What the pairs of m save against impossible ones.
Gain(m) == [w \in DOMAIN m |-> Impossible + ScoreMatrix[w][m[w]]]
CostsOf(row) == [w \in Rows |-> SolverMatrix[w][row[w]]]

LEMMA RowsFinite ==
  ASSUME RequestInv
  PROVE  /\ IsFiniteSet(Rows) /\ IsFiniteSet(1..workers) /\ IsFiniteSet(1..jobs)
         /\ Cardinality(1..workers) = workers /\ Cardinality(1..jobs) = jobs
         /\ 1..workers \subseteq Rows /\ 1..jobs \subseteq Rows
<1>1. SolverSize \in Nat /\ workers \in Nat /\ jobs \in Nat
      /\ workers <= SolverSize /\ jobs <= SolverSize
  BY SolverSizeBounds DEF RequestInv
<1>2. 1 \in Int /\ SolverSize \in Int /\ workers \in Int /\ jobs \in Int
  BY <1>1
<1>3. /\ IsFiniteSet(1..workers)
      /\ Cardinality(1..workers) = IF 1 > workers THEN 0 ELSE workers - 1 + 1
      /\ IsFiniteSet(1..jobs)
      /\ Cardinality(1..jobs) = IF 1 > jobs THEN 0 ELSE jobs - 1 + 1
      /\ IsFiniteSet(Rows)
  BY <1>2, FS_Interval DEF Rows
<1> QED
  BY <1>1, <1>3 DEF Rows

LEMMA RowAssignmentType ==
  ASSUME NEW row \in RowAssignments
  PROVE  /\ row \in [Rows -> Rows]
         /\ \A v, w \in Rows : row[v] = row[w] => v = w
         /\ \A r \in Rows : \E w \in Rows : row[w] = r
  BY Fun_BijectionProperties DEF RowAssignments

\* A score is never above the limit of a total.
LEMMA ScoreType ==
  ASSUME RequestInv, NEW w \in 1..workers, NEW j \in 1..jobs
  PROVE  /\ ScoreMatrix[w][j] \in Nat
         /\ <<w, j>> \in DOMAIN costs => SolverMatrix[w][j] = -ScoreMatrix[w][j]
         /\ <<w, j>> \notin DOMAIN costs => SolverMatrix[w][j] = Impossible
<1>1. <<w, j>> \in DOMAIN costs => costs[<<w, j>>] \in Nat
  BY ScoresAssumption DEF RequestInv
<1>2. w \in 1..SolverSize /\ j \in 1..SolverSize /\ ~(w > workers) /\ ~(j > jobs)
  BY SolverSizeBounds DEF RequestInv
<1>3. ScoreMatrix[w][j] = IF <<w, j>> \in DOMAIN costs THEN costs[<<w, j>>] ELSE 0
  BY DEF ScoreMatrix
<1>4. SolverMatrix[w][j] =
        IF <<w, j>> \in DOMAIN costs THEN -costs[<<w, j>>] ELSE Impossible
  BY <1>2 DEF SolverMatrix
<1> QED
  BY <1>1, <1>3, <1>4

\* Pairs with a dummy cost nothing.
LEMMA DummyCost ==
  ASSUME RequestInv, NEW w \in Rows, NEW j \in Rows, w > workers \/ j > jobs
  PROVE  SolverMatrix[w][j] = 0
  BY DEF SolverMatrix, Rows

\* The number of workers with a real job does not depend on the assignment: of
\* rows and columns only one kind is padded.
LEMMA RealRowsCount ==
  ASSUME RequestInv, NEW row \in RowAssignments
  PROVE  Cardinality(RealRows(row)) = IF SolverSize = workers THEN jobs ELSE workers
<1>1. /\ row \in [Rows -> Rows]
      /\ \A v, w \in Rows : row[v] = row[w] => v = w
      /\ \A r \in Rows : \E w \in Rows : row[w] = r
  BY RowAssignmentType
<1>2. /\ IsFiniteSet(1..workers) /\ IsFiniteSet(1..jobs)
      /\ Cardinality(1..workers) = workers /\ Cardinality(1..jobs) = jobs
      /\ 1..workers \subseteq Rows /\ 1..jobs \subseteq Rows
  BY RowsFinite
<1>3. workers \in Nat /\ jobs \in Nat /\ SolverSize \in Nat
  BY SolverSizeBounds DEF RequestInv
<1>4. CASE SolverSize = workers
  <2> DEFINE S == RealRows(row)
             f == [w \in S |-> row[w]]
  <2>1. f \in [S -> 1..jobs]
    BY <1>1, <1>2, <1>3 DEF RealRows, Rows
  <2>2. \A v, w \in S : f[v] = f[w] => v = w
    BY <1>1, <1>2 DEF RealRows
  <2>3. ASSUME NEW j \in 1..jobs PROVE \E w \in S : f[w] = j
    <3>1. PICK w \in Rows : row[w] = j
      BY <1>1, <1>2
    <3>2. w \in S
      BY <1>4, <3>1 DEF RealRows, Rows
    <3> QED
      BY <3>1, <3>2
  <2>4. f \in Bijection(S, 1..jobs)
    <3> HIDE DEF f, S
    <3> QED
      BY <2>1, <2>2, <2>3, Fun_IsBij
  <2>5. S \subseteq 1..workers
    BY DEF RealRows
  <2>6. IsFiniteSet(S)
    BY <1>2, <2>5, FS_Subset
  <2>7. ExistsBijection(S, 1..jobs)
    BY <2>4 DEF ExistsBijection
  <2> HIDE DEF S
  <2>8. Cardinality(1..jobs) = Cardinality(S)
    BY <2>6, <2>7, FS_Bijection
  <2> QED
    BY <1>2, <1>4, <2>8 DEF S
<1>5. CASE SolverSize # workers
  <2>1. SolverSize = jobs
    BY <1>5, SolverSizeBounds
  <2>2. RealRows(row) = 1..workers
    BY <1>1, <1>2, <1>3, <2>1 DEF RealRows, Rows
  <2> QED
    BY <1>2, <1>5, <2>2
<1> QED
  BY <1>4, <1>5

\* Workers whose pair in a row assignment has a score: those that are read back.
LEMMA CollectIs ==
  ASSUME RequestInv, NEW row \in RowAssignments
  PROVE  LET m == Collect(row, SolverMatrix)
         IN  /\ DOMAIN m = {w \in RealRows(row) : <<w, row[w]>> \in DOMAIN costs}
             /\ \A w \in DOMAIN m : m[w] = row[w]
             /\ \A w \in RealRows(row) : row[w] \in 1..jobs
<1>1. row \in [Rows -> Rows] /\ 1..workers \subseteq Rows
  BY RowAssignmentType, RowsFinite
<1>2. ASSUME NEW w \in RealRows(row)
      PROVE  /\ row[w] \in 1..jobs
             /\ SolverMatrix[w][row[w]] < Impossible <=> <<w, row[w]>> \in DOMAIN costs
  <2>1. w \in 1..workers /\ row[w] \in 1..SolverSize /\ row[w] <= jobs
    BY <1>1 DEF RealRows, Rows
  <2>2. row[w] \in 1..jobs
    BY <2>1, SolverSizeBounds DEF RequestInv
  <2>3. /\ ScoreMatrix[w][row[w]] \in Nat
        /\ <<w, row[w]>> \in DOMAIN costs =>
             SolverMatrix[w][row[w]] = -ScoreMatrix[w][row[w]]
        /\ <<w, row[w]>> \notin DOMAIN costs => SolverMatrix[w][row[w]] = Impossible
    BY <2>1, <2>2, ScoreType
  <2>4. Impossible \in Nat /\ Impossible >= 1
    BY ScoresAssumption
  <2>5. \A s \in Nat : -s < Impossible
    BY <2>4
  <2>6. ~(Impossible < Impossible)
    BY <2>4
  <2> QED
    BY <2>2, <2>3, <2>5, <2>6
<1> QED
  BY <1>2 DEF Collect, RealRows

\* What any row assignment costs: the more its scored pairs gain, the less.
LEMMA CostOfRows ==
  ASSUME RequestInv, NEW row \in RowAssignments
  PROVE  LET m == Collect(row, SolverMatrix)
         IN  /\ SumOn(CostsOf(row), Rows) \in Int
             /\ SumOn(Gain(m), DOMAIN m) \in Int
             /\ SumOn(CostsOf(row), Rows) + SumOn(Gain(m), DOMAIN m)
                  = Impossible * Cardinality(RealRows(row))
<1> DEFINE m == Collect(row, SolverMatrix)
           D == DOMAIN m
           R == RealRows(row)
           c == CostsOf(row)
           g == [w \in Rows |-> IF w \in D THEN Gain(m)[w] ELSE 0]
           k == [w \in Rows |-> IF w \in R THEN Impossible ELSE 0]
<1>1. /\ row \in [Rows -> Rows] /\ 1..workers \subseteq Rows /\ IsFiniteSet(Rows)
      /\ Rows \in SUBSET Nat
  BY RowAssignmentType, RowsFinite DEF Rows
<1>2. /\ D = {w \in R : <<w, row[w]>> \in DOMAIN costs}
      /\ \A w \in D : m[w] = row[w]
      /\ \A w \in R : row[w] \in 1..jobs
  BY CollectIs
<1>3. R \subseteq 1..workers /\ R \subseteq Rows /\ D \subseteq R
  BY <1>1, <1>2 DEF RealRows
<1>4. Impossible \in Nat
  BY ScoresAssumption
<1>5. ASSUME NEW w \in R
      PROVE  /\ ScoreMatrix[w][row[w]] \in Nat
             /\ w \in D => /\ Gain(m)[w] = Impossible + ScoreMatrix[w][row[w]]
                           /\ c[w] = -ScoreMatrix[w][row[w]]
             /\ w \notin D => c[w] = Impossible
  <2>1. /\ ScoreMatrix[w][row[w]] \in Nat
        /\ <<w, row[w]>> \in DOMAIN costs =>
             SolverMatrix[w][row[w]] = -ScoreMatrix[w][row[w]]
        /\ <<w, row[w]>> \notin DOMAIN costs => SolverMatrix[w][row[w]] = Impossible
    BY <1>2, <1>3, ScoreType
  <2>2. c[w] = SolverMatrix[w][row[w]]
    BY <1>3 DEF CostsOf
  <2>3. w \in D => Gain(m)[w] = Impossible + ScoreMatrix[w][row[w]]
    BY <1>2 DEF Gain
  <2> QED
    BY <1>2, <2>1, <2>2, <2>3
<1>6. ASSUME NEW w \in Rows \ R PROVE c[w] = 0
  <2>1. row[w] \in Rows /\ (w > workers \/ row[w] > jobs)
    BY <1>1, SolverSizeBounds DEF RealRows, Rows, RequestInv
  <2>2. c[w] = SolverMatrix[w][row[w]]
    BY DEF CostsOf
  <2> QED
    BY <2>1, <2>2, DummyCost
<1> HIDE DEF m, D, R, c
<1>7. \A w \in Rows : /\ c[w] \in Int /\ g[w] \in Int /\ k[w] \in Int
                      /\ k[w] = c[w] + g[w]
  <2> TAKE w \in Rows
  <2>1. CASE w \in D
    <3>1. w \in R /\ g[w] = Gain(m)[w] /\ k[w] = Impossible
      BY <1>3, <2>1
    <3> HIDE DEF g, k
    <3> QED
      BY <1>4, <1>5, <2>1, <3>1
  <2>2. CASE w \in R \ D
    <3>1. g[w] = 0 /\ k[w] = Impossible
      BY <2>2
    <3> HIDE DEF g, k
    <3> QED
      BY <1>4, <1>5, <2>2, <3>1
  <2>3. CASE w \notin R
    <3>1. g[w] = 0 /\ k[w] = 0
      BY <1>3, <2>3
    <3> HIDE DEF g, k
    <3> QED
      BY <1>6, <2>3, <3>1
  <2> QED
    BY <2>1, <2>2, <2>3
<1>8. c \in [Rows -> Int]
  <2>1. c = [w \in Rows |-> SolverMatrix[w][row[w]]]
    BY DEF c, CostsOf
  <2> QED
    BY <1>7, <2>1
<1>9. g \in [Rows -> Int] /\ k \in [Rows -> Int]
  BY <1>7
<1>10. Gain(m) \in [D -> Int]
  <2>1. Gain(m) = [w \in D |-> Impossible + ScoreMatrix[w][m[w]]]
    BY DEF Gain, D
  <2>2. \A w \in D : Gain(m)[w] \in Int
    BY <1>3, <1>4, <1>5
  <2> QED
    BY <2>1, <2>2
<1>11. IsFiniteSet(D) /\ D \in SUBSET Rows /\ R \in SUBSET Rows
  BY <1>1, <1>3, FS_Subset
<1>12. IsFiniteSet(Rows)
  BY <1>1
<1>13. SumOn(k, Rows) = SumOn(c, Rows) + SumOn(g, Rows)
  <2>1. \A w \in Rows : k[w] = c[w] + g[w]
    BY <1>7
  <2>2. Rows \in SUBSET Rows
    OBVIOUS
  <2> HIDE DEF g, k
  <2> QED
    BY <1>12, <1>8, <1>9, <2>1, <2>2, SumOnPlus
<1>14. SumOn(g, Rows) = SumOn(Gain(m), D)
  <2>1. \A w \in Rows \ D : g[w] = 0
    OBVIOUS
  <2>2. \A w \in D : g[w] = Gain(m)[w]
    BY <1>11
  <2> HIDE DEF g, k
  <2>3. SumOn(g, Rows) = SumOn(g, D)
    BY <1>12, <1>9, <1>11, <2>1, SumOnPart
  <2>4. SumOn(g, D) = SumOn(Gain(m), D)
    BY <1>12, <1>9, <1>10, <1>11, <2>2, SumOnAgree
  <2> QED
    BY <2>3, <2>4
<1>15. SumOn(k, Rows) = Impossible * Cardinality(R)
  <2>1. \A w \in Rows \ R : k[w] = 0
    OBVIOUS
  <2>2. \A w \in R : k[w] = Impossible
    BY <1>11
  <2> HIDE DEF g, k
  <2>3. SumOn(k, Rows) = SumOn(k, R)
    BY <1>12, <1>9, <1>11, <2>1, SumOnPart
  <2>4. SumOn(k, R) = Impossible * Cardinality(R)
    BY <1>12, <1>4, <1>9, <1>11, <2>2, SumOnConstant
  <2> QED
    BY <2>3, <2>4
<1>16. SumOn(c, Rows) \in Int /\ SumOn(Gain(m), D) \in Int
  BY <1>1, <1>8, <1>10, <1>11, SumOnType
<1> QED
  BY <1>13, <1>14, <1>15, <1>16 DEF m, D, R, c

-----------------------------------------------------------------------------
(* Matchings and row assignments                                           *)

LEMMA MatchingIs ==
  ASSUME RequestInv, NEW m \in Matchings
  PROVE  /\ DOMAIN m \subseteq 1..workers /\ IsFiniteSet(DOMAIN m)
         /\ m \in [DOMAIN m -> 1..jobs]
         /\ \A v, w \in DOMAIN m : m[v] = m[w] => v = w
         /\ \A w \in DOMAIN m : <<w, m[w]>> \in DOMAIN costs
<1>1. PICK S \in SUBSET (1..workers) : m \in Injection(S, 1..jobs)
  BY DEF Matchings
<1>2. m \in [S -> 1..jobs] /\ \A v, w \in S : m[v] = m[w] => v = w
  BY <1>1, Fun_InjectionProperties
<1>3. IsFiniteSet(S)
  BY RowsFinite, FS_Subset
<1> QED
  BY <1>2, <1>3 DEF Matchings

\* Every matching is part of a row assignment.
LEMMA Completion ==
  ASSUME RequestInv, NEW m \in Matchings
  PROVE  \E row \in RowAssignments : \A w \in DOMAIN m : row[w] = m[w]
<1> DEFINE D == DOMAIN m
           J == {m[w] : w \in D}
<1>1. /\ D \subseteq 1..workers /\ IsFiniteSet(D) /\ m \in [D -> 1..jobs]
      /\ \A v, w \in D : m[v] = m[w] => v = w
  BY MatchingIs
<1>2. IsFiniteSet(Rows) /\ D \subseteq Rows /\ J \subseteq Rows
  BY <1>1, RowsFinite
<1>3. m \in Bijection(D, J)
  <2>1. m \in [D -> J]
    BY <1>1
  <2>2. \A j \in J : \E w \in D : m[w] = j
    OBVIOUS
  <2> HIDE DEF D, J
  <2> QED
    BY <1>1, <2>1, <2>2, Fun_IsBij
<1>4. ExistsBijection(D, J)
  BY <1>3 DEF ExistsBijection
<1> HIDE DEF D, J
<1>5. IsFiniteSet(J) /\ Cardinality(J) = Cardinality(D)
  BY <1>1, <1>4, FS_Bijection
<1>6. /\ IsFiniteSet(Rows \ D) /\ IsFiniteSet(Rows \ J)
      /\ Cardinality(Rows \ D) = Cardinality(Rows \ J)
  <2>1. Rows \cap D = D /\ Rows \cap J = J
    BY <1>2
  <2>2. /\ IsFiniteSet(Rows \ D)
        /\ Cardinality(Rows \ D) = Cardinality(Rows) - Cardinality(Rows \cap D)
    BY <1>2, FS_Difference
  <2>3. /\ IsFiniteSet(Rows \ J)
        /\ Cardinality(Rows \ J) = Cardinality(Rows) - Cardinality(Rows \cap J)
    BY <1>2, FS_Difference
  <2> QED
    BY <1>5, <2>1, <2>2, <2>3
<1>7. PICK rest \in Bijection(Rows \ D, Rows \ J) : TRUE
  <2>1. ExistsBijection(Rows \ D, Rows \ J)
    BY <1>6, FS_SameCardinalityBij
  <2> QED
    BY <2>1 DEF ExistsBijection
<1>8. /\ rest \in [Rows \ D -> Rows \ J]
      /\ \A v, w \in Rows \ D : rest[v] = rest[w] => v = w
      /\ \A j \in Rows \ J : \E w \in Rows \ D : rest[w] = j
  <2> DEFINE X == Rows \ D
             Y == Rows \ J
  <2> HIDE DEF X, Y
  <2>1. rest \in Bijection(X, Y)
    BY DEF X, Y
  <2>2. /\ rest \in [X -> Y]
        /\ \A v, w \in X : rest[v] = rest[w] => v = w
        /\ \A j \in Y : \E w \in X : rest[w] = j
    BY <2>1, Fun_BijectionProperties
  <2> QED
    BY <2>2 DEF X, Y
<1>9. /\ m \in [D -> J]
      /\ \A j \in J : \E w \in D : m[w] = j
  BY <1>3, Fun_BijectionProperties
<1> DEFINE row == [w \in Rows |-> IF w \in D THEN m[w] ELSE rest[w]]
<1>10. row \in [Rows -> Rows]
  BY <1>2, <1>8, <1>9
<1>11. ASSUME NEW v \in Rows, NEW w \in Rows, row[v] = row[w] PROVE v = w
  BY <1>1, <1>8, <1>9, <1>11
<1>12. ASSUME NEW j \in Rows PROVE \E w \in Rows : row[w] = j
  <2>1. CASE j \in J
    BY <1>2, <1>9, <2>1
  <2>2. CASE j \notin J
    BY <1>8, <2>2
  <2> QED
    BY <2>1, <2>2
<1>13. \A w \in D : row[w] = m[w]
  BY <1>2
<1>14. row \in Bijection(Rows, Rows)
  <2> HIDE DEF row
  <2> QED
    BY <1>10, <1>11, <1>12, Fun_IsBij
<1> QED
  BY <1>13, <1>14 DEF RowAssignments, D

LEMMA GainType ==
  ASSUME RequestInv, NEW m \in Matchings
  PROVE  /\ ScoresOf(m) \in [DOMAIN m -> Nat]
         /\ Gain(m) \in [DOMAIN m -> Nat]
         /\ \A w \in DOMAIN m : Gain(m)[w] = Impossible + ScoresOf(m)[w]
<1>1. Impossible \in Nat
  BY ScoresAssumption
<1>2. \A w \in DOMAIN m : ScoreMatrix[w][m[w]] \in Nat
  BY MatchingIs, ScoreType
<1> QED
  BY <1>1, <1>2 DEF Gain, ScoresOf

\* A matching that is part of another gains no more.
LEMMA PartGainsLess ==
  ASSUME RequestInv, NEW m \in Matchings, NEW n \in Matchings,
         DOMAIN m \subseteq DOMAIN n, \A w \in DOMAIN m : n[w] = m[w]
  PROVE  SumOn(Gain(m), DOMAIN m) <= SumOn(Gain(n), DOMAIN n)
<1> DEFINE D == DOMAIN m
           E == DOMAIN n
           f == [w \in E |-> IF w \in D THEN Gain(m)[w] ELSE 0]
<1>1. IsFiniteSet(D) /\ IsFiniteSet(E)
  BY MatchingIs
<1>2. Gain(m) \in [D -> Nat] /\ Gain(n) \in [E -> Nat]
  BY GainType
<1>3. \A w \in D : Gain(m)[w] = Gain(n)[w]
  BY DEF Gain
<1> HIDE DEF D, E
<1>4. D \in SUBSET E
  BY DEF D, E
<1>5. f \in [E -> Int] /\ Gain(m) \in [D -> Int] /\ Gain(n) \in [E -> Int]
  BY <1>2
<1>6. \A w \in E : f[w] <= Gain(n)[w]
  <2> TAKE w \in E
  <2>1. Gain(n)[w] \in Nat
    BY <1>2
  <2>2. f[w] = 0 \/ f[w] = Gain(n)[w]
    BY <1>3
  <2> HIDE DEF f
  <2> QED
    BY <2>1, <2>2
<1>7. \A w \in E \ D : f[w] = 0
  OBVIOUS
<1>8. \A w \in D : f[w] = Gain(m)[w]
  BY <1>4
<1> HIDE DEF f
<1>9. SumOn(f, E) <= SumOn(Gain(n), E)
  BY <1>1, <1>5, <1>6, SumOnMonotonic
<1>10. SumOn(f, E) = SumOn(f, D)
  BY <1>1, <1>4, <1>5, <1>7, SumOnPart
<1>11. SumOn(f, D) = SumOn(Gain(m), D)
  BY <1>1, <1>4, <1>5, <1>8, SumOnAgree
<1> QED
  BY <1>9, <1>10, <1>11 DEF D, E

-----------------------------------------------------------------------------
(* The answer                                                              *)

\* No row assignment costs less than the one lapjv returns.  Their costs have a
\* least element because no score is above MaxTotal.
LEMMA LapjvIsLeast ==
  ASSUME RequestInv, NEW row \in Lapjv(SolverMatrix), NEW other \in RowAssignments
  PROVE  /\ row \in RowAssignments
         /\ SumOn(CostsOf(row), Rows) <= SumOn(CostsOf(other), Rows)
<1> DEFINE Cost(r) == SumOn(CostsOf(r), Rows)
           All == {Cost(r) : r \in RowAssignments}
<1>1. /\ row \in RowAssignments
      /\ Cost(row) = Min(All)
  <2>1. \A r : SumFunction(CostsOf(r)) = Cost(r)
    BY SumFunctionIs DEF CostsOf
  <2>2. /\ row \in RowAssignments
        /\ SumFunction(CostsOf(row)) = Min({SumFunction(CostsOf(r)) : r \in RowAssignments})
    BY DEF Lapjv, CostsOf, RowAssignments, Rows
  <2>3. {SumFunction(CostsOf(r)) : r \in RowAssignments} = All
    BY <2>1
  <2> QED
    BY <2>1, <2>2, <2>3
<1> DEFINE low == [w \in Rows |-> -MaxTotal]
           floor == SumOn(low, Rows)
<1>2. ASSUME NEW r \in RowAssignments
      PROVE  Cost(r) \in Int /\ floor \in Int /\ floor <= Cost(r)
  <2>1. IsFiniteSet(Rows) /\ Rows \in SUBSET Rows
    BY RowsFinite
  <2>2. ASSUME NEW w \in Rows
        PROVE  CostsOf(r)[w] \in Int /\ -MaxTotal <= CostsOf(r)[w]
    <3>1. r[w] \in Rows /\ CostsOf(r)[w] = SolverMatrix[w][r[w]]
      BY RowAssignmentType DEF CostsOf
    <3>2. MaxTotal \in Nat /\ Impossible \in Nat
      BY ScoresAssumption
    <3>3. CASE w > workers \/ r[w] > jobs
      <4>1. CostsOf(r)[w] = 0
        BY <3>1, <3>3, DummyCost
      <4> QED
        BY <3>2, <4>1
    <3>4. CASE ~(w > workers \/ r[w] > jobs)
      <4>1. w \in 1..workers /\ r[w] \in 1..jobs
        BY <3>1, <3>4, SolverSizeBounds DEF Rows, RequestInv
      <4>2. SolverMatrix[w][r[w]] =
              IF <<w, r[w]>> \in DOMAIN costs THEN -costs[<<w, r[w]>>] ELSE Impossible
        BY <3>1, <3>4 DEF SolverMatrix, Rows
      <4>3. <<w, r[w]>> \in DOMAIN costs => costs[<<w, r[w]>>] \in 0..MaxTotal
        BY ScoresAssumption DEF RequestInv
      <4> QED
        BY <3>1, <3>2, <4>2, <4>3
    <3> QED
      BY <3>3, <3>4
  <2>3. CostsOf(r) \in [Rows -> Int]
    <3>1. CostsOf(r) = [w \in Rows |-> SolverMatrix[w][r[w]]]
      BY DEF CostsOf
    <3> QED
      BY <2>2, <3>1
  <2>4. low \in [Rows -> Int] /\ \A w \in Rows : low[w] <= CostsOf(r)[w]
    BY <2>2, ScoresAssumption
  <2> HIDE DEF low
  <2>5. SumOn(low, Rows) <= SumOn(CostsOf(r), Rows)
    BY <2>1, <2>3, <2>4, SumOnMonotonic
  <2>6. SumOn(low, Rows) \in Int /\ SumOn(CostsOf(r), Rows) \in Int
    BY <2>1, <2>3, <2>4, SumOnType
  <2> QED
    BY <2>5, <2>6
<1> HIDE DEF low, floor
<1>3. \E r \in RowAssignments : \A s \in RowAssignments : Cost(r) <= Cost(s)
  <2> DEFINE N == {Cost(r) - floor : r \in RowAssignments}
  <2>1. N \subseteq Nat /\ N # {}
    <3>1. \A r \in RowAssignments : Cost(r) - floor \in Nat
      <4> HIDE DEF Cost
      <4> QED
        BY <1>2
    <3> QED
      BY <1>1, <3>1
  <2>2. PICK n \in N : \A k \in N : n <= k
    <3> HIDE DEF N
    <3> QED
      BY <2>1, LeastNatural
  <2>3. PICK r \in RowAssignments : n = Cost(r) - floor
    OBVIOUS
  <2>4. ASSUME NEW s \in RowAssignments PROVE Cost(r) <= Cost(s)
    <3>1. Cost(s) - floor \in N
      OBVIOUS
    <3>2. Cost(r) - floor <= Cost(s) - floor
      BY <2>2, <2>3, <3>1
    <3>3. Cost(r) \in Int /\ Cost(s) \in Int /\ floor \in Int
      BY <1>2
    <3> HIDE DEF Cost
    <3> QED
      BY <3>2, <3>3
  <2> QED
    BY <2>4
<1>4. \A c \in All : Min(All) <= c
  <2>1. \E c \in All : \A d \in All : c <= d
    BY <1>3
  <2> HIDE DEF All
  <2> QED
    BY <2>1 DEF Min
<1> QED
  BY <1>1, <1>4

\* What is read back from a row assignment is a matching.
LEMMA CollectIsMatching ==
  ASSUME RequestInv, NEW row \in RowAssignments
  PROVE  Collect(row, SolverMatrix) \in Matchings
<1> DEFINE m == Collect(row, SolverMatrix)
           S == DOMAIN m
<1>1. \A v, w \in Rows : row[v] = row[w] => v = w
  BY RowAssignmentType
<1>2. 1..workers \subseteq Rows
  BY RowsFinite
<1>3. /\ S = {w \in RealRows(row) : <<w, row[w]>> \in DOMAIN costs}
      /\ \A w \in S : m[w] = row[w]
      /\ \A w \in RealRows(row) : row[w] \in 1..jobs
  BY CollectIs
<1>4. S \subseteq 1..workers
  BY <1>3 DEF RealRows
<1>5. m \in [S -> 1..jobs]
  <2>1. m = [w \in S |-> m[w]]
    BY DEF Collect
  <2>2. \A w \in S : m[w] \in 1..jobs
    BY <1>3
  <2> HIDE DEF m, S
  <2> QED
    BY <2>1, <2>2
<1>6. \A v, w \in S : m[v] = m[w] => v = w
  BY <1>1, <1>2, <1>3, <1>4
<1>7. \A w \in S : <<w, m[w]>> \in DOMAIN costs
  BY <1>3
<1> HIDE DEF m, S
<1>8. m \in Injection(S, 1..jobs)
  BY <1>5, <1>6, Fun_IsInj
<1> QED
  BY <1>4, <1>7, <1>8 DEF Matchings, m, S

\* Of all matchings, the one read back gains most.
LEMMA CollectGainsMost ==
  ASSUME RequestInv, NEW row \in Lapjv(SolverMatrix), NEW m \in Matchings
  PROVE  LET n == Collect(row, SolverMatrix)
         IN  SumOn(Gain(m), DOMAIN m) <= SumOn(Gain(n), DOMAIN n)
<1>1. PICK other \in RowAssignments : \A w \in DOMAIN m : other[w] = m[w]
  BY Completion
<1> DEFINE n == Collect(row, SolverMatrix)
           o == Collect(other, SolverMatrix)
<1>2. row \in RowAssignments
  BY <1>1, LapjvIsLeast
<1>3. SumOn(CostsOf(row), Rows) <= SumOn(CostsOf(other), Rows)
  BY <1>1, LapjvIsLeast
<1>4. /\ SumOn(CostsOf(row), Rows) \in Int
      /\ SumOn(Gain(n), DOMAIN n) \in Int
      /\ SumOn(CostsOf(row), Rows) + SumOn(Gain(n), DOMAIN n)
           = Impossible * Cardinality(RealRows(row))
  BY <1>2, CostOfRows
<1>5. /\ SumOn(CostsOf(other), Rows) \in Int
      /\ SumOn(Gain(o), DOMAIN o) \in Int
      /\ SumOn(CostsOf(other), Rows) + SumOn(Gain(o), DOMAIN o)
           = Impossible * Cardinality(RealRows(other))
  BY <1>1, CostOfRows
<1>6. Cardinality(RealRows(row)) = Cardinality(RealRows(other))
  BY <1>1, <1>2, RealRowsCount
<1>7. SumOn(Gain(o), DOMAIN o) <= SumOn(Gain(n), DOMAIN n)
  <2> HIDE DEF n, o
  <2> QED
    BY <1>3, <1>4, <1>5, <1>6
<1>8. SumOn(Gain(m), DOMAIN m) <= SumOn(Gain(o), DOMAIN o)
  <2>1. o \in Matchings
    BY <1>1, CollectIsMatching
  <2>2. /\ DOMAIN o = {w \in RealRows(other) : <<w, other[w]>> \in DOMAIN costs}
        /\ \A w \in DOMAIN o : o[w] = other[w]
    BY <1>1, CollectIs
  <2>3. /\ DOMAIN m \subseteq 1..workers
        /\ \A w \in DOMAIN m : m[w] \in 1..jobs /\ <<w, m[w]>> \in DOMAIN costs
    BY MatchingIs
  <2>4. DOMAIN m \subseteq DOMAIN o
    BY <1>1, <2>2, <2>3 DEF RealRows, RequestInv
  <2>5. \A w \in DOMAIN m : o[w] = m[w]
    BY <1>1, <2>2, <2>4
  <2> HIDE DEF o
  <2> QED
    BY <2>1, <2>4, <2>5, PartGainsLess
<1>9. SumOn(Gain(m), DOMAIN m) \in Int
  <2>1. Gain(m) \in [DOMAIN m -> Nat] /\ IsFiniteSet(DOMAIN m)
    BY GainType, MatchingIs
  <2>2. Gain(m) \in [DOMAIN m -> Int] /\ DOMAIN m \in SUBSET DOMAIN m
    BY <2>1
  <2> QED
    BY <2>1, <2>2, SumOnType
<1> HIDE DEF n, o
<1>10. SumOn(Gain(m), DOMAIN m) <= SumOn(Gain(n), DOMAIN n)
  BY <1>4, <1>5, <1>7, <1>8, <1>9
<1> QED
  BY <1>10 DEF n

\* The gain of a matching counts its pairs first and its scores second.
LEMMA GainIs ==
  ASSUME RequestInv, NEW m \in Matchings
  PROVE  LET s == SumOn(ScoresOf(m), DOMAIN m)
         IN  /\ s \in Nat /\ Places(m) \in Nat
             /\ SumOn(Gain(m), DOMAIN m) = Impossible * Places(m) + s
             /\ TotalOf(m) = IF MaxTotal <= s THEN MaxTotal ELSE s
             /\ Worth(m) = Impossible * Places(m) + s
<1> DEFINE D == DOMAIN m
           s == SumOn(ScoresOf(m), D)
           k == [w \in D |-> Impossible]
           zero == [w \in D |-> 0]
<1>1. IsFiniteSet(D) /\ D \in SUBSET D /\ Places(m) \in Nat
  BY MatchingIs, FS_CardinalityType DEF Places
<1>2. Impossible \in Nat /\ MaxTotal \in Nat
  BY ScoresAssumption
<1>3. /\ ScoresOf(m) \in [D -> Nat]
      /\ Gain(m) \in [D -> Nat]
      /\ \A w \in D : Gain(m)[w] = Impossible + ScoresOf(m)[w]
  BY GainType
<1>4. ScoresOf(m) \in [D -> Int] /\ Gain(m) \in [D -> Int]
  BY <1>3
<1>5. k \in [D -> Int] /\ \A w \in D : k[w] = Impossible
  BY <1>2
<1>6. zero \in [D -> Int] /\ \A w \in D : zero[w] = 0
  OBVIOUS
<1>7. /\ TotalOf(m) = Min({MaxTotal, s})
      /\ Worth(m) = Impossible * Places(m) + s
  <2>1. SumFunction(ScoresOf(m)) = s
    BY SumFunctionIs DEF ScoresOf
  <2> QED
    BY <2>1 DEF TotalOf, Worth
<1> HIDE DEF D, k, zero
<1>8. \A w \in D : Gain(m)[w] = k[w] + ScoresOf(m)[w]
  BY <1>3, <1>5
<1>9. SumOn(Gain(m), D) = SumOn(k, D) + SumOn(ScoresOf(m), D)
  BY <1>1, <1>4, <1>5, <1>8, SumOnPlus
<1>10. SumOn(k, D) = Impossible * Cardinality(D)
  BY <1>1, <1>2, <1>5, SumOnConstant
<1>11. SumOn(zero, D) = 0 /\ SumOn(zero, D) <= SumOn(ScoresOf(m), D)
  <2>1. SumOn(zero, D) = 0 * Cardinality(D)
    BY <1>1, <1>6, SumOnConstant
  <2>2. Cardinality(D) \in Nat
    BY <1>1, FS_CardinalityType
  <2>3. \A w \in D : zero[w] <= ScoresOf(m)[w]
    BY <1>3, <1>6
  <2>4. SumOn(zero, D) <= SumOn(ScoresOf(m), D)
    BY <1>1, <1>4, <1>6, <2>3, SumOnMonotonic
  <2> QED
    BY <2>1, <2>2, <2>4
<1>12. s \in Nat
  <2>1. SumOn(ScoresOf(m), D) \in Int
    BY <1>1, <1>4, SumOnType
  <2> QED
    BY <1>11, <2>1
<1> HIDE DEF s
<1>13. TotalOf(m) = IF MaxTotal <= s THEN MaxTotal ELSE s
  <2>1. \E c \in {MaxTotal, s} : \A d \in {MaxTotal, s} : c <= d
    BY <1>2, <1>12
  <2>2. /\ Min({MaxTotal, s}) \in {MaxTotal, s}
        /\ \A d \in {MaxTotal, s} : Min({MaxTotal, s}) <= d
    BY <2>1 DEF Min
  <2> QED
    BY <1>2, <1>7, <1>12, <2>2
<1> QED
  BY <1>1, <1>7, <1>9, <1>10, <1>12, <1>13 DEF Places, D, s

\* Whoever gains most places most, and among those has the greatest total, as
\* long as the scores of a matching do not make up for a pair.
LEMMA MostIsBest ==
  ASSUME NEW K \in Nat,
         NEW p \in Nat, NEW q \in Nat, NEW s \in Nat, NEW t \in Nat,
         K * p + s <= K * q + t,
         t < K
  PROVE  /\ p <= q
         /\ p = q => s <= t
<1>1. ASSUME p >= q + 1 PROVE FALSE
  <2>1. PICK d \in Nat : p = q + 1 + d
    <3>1. p - q - 1 \in Nat /\ p = q + 1 + (p - q - 1)
      BY <1>1
    <3> QED
      BY <3>1
  <2>2. K * p = K * q + K + K * d
    BY <2>1
  <2>3. K * d \in Nat /\ K * q \in Nat
    OBVIOUS
  <2> HIDE <2>1
  <2> QED
    BY <2>2, <2>3
<1>2. p = q => s <= t
  OBVIOUS
<1> QED
  BY <1>1, <1>2

\* The best of a request, apart from the answer to it.
LEMMA CollectIsBest ==
  ASSUME RequestInv, NEW row \in Lapjv(SolverMatrix), NEW m \in Matchings
  PROVE  LET n == Collect(row, SolverMatrix)
         IN  /\ Worth(m) <= Worth(n)
             /\ SmallScores =>
                  /\ Places(m) <= Places(n)
                  /\ Places(m) = Places(n) => TotalOf(m) <= TotalOf(n)
<1> DEFINE n == Collect(row, SolverMatrix)
<1>1. row \in RowAssignments
  BY DEF Lapjv, RowAssignments, Rows
<1>2. n \in Matchings
  BY <1>1, CollectIsMatching
<1>3. SumOn(Gain(m), DOMAIN m) <= SumOn(Gain(n), DOMAIN n)
  BY CollectGainsMost
<1> HIDE DEF n
<1> DEFINE s == SumOn(ScoresOf(m), DOMAIN m)
           t == SumOn(ScoresOf(n), DOMAIN n)
<1>4. /\ s \in Nat /\ Places(m) \in Nat
      /\ SumOn(Gain(m), DOMAIN m) = Impossible * Places(m) + s
      /\ TotalOf(m) = IF MaxTotal <= s THEN MaxTotal ELSE s
      /\ Worth(m) = Impossible * Places(m) + s
  BY GainIs
<1>5. /\ t \in Nat /\ Places(n) \in Nat
      /\ SumOn(Gain(n), DOMAIN n) = Impossible * Places(n) + t
      /\ TotalOf(n) = IF MaxTotal <= t THEN MaxTotal ELSE t
      /\ Worth(n) = Impossible * Places(n) + t
  BY <1>2, GainIs
<1>6. Impossible \in Nat /\ MaxTotal \in Nat /\ Impossible <= MaxTotal
  BY ScoresAssumption
<1> HIDE DEF s, t
<1>7. Impossible * Places(m) + s <= Impossible * Places(n) + t
  BY <1>3, <1>4, <1>5
<1>8. Worth(m) <= Worth(n)
  BY <1>4, <1>5, <1>7
<1>9. ASSUME SmallScores
      PROVE  /\ Places(m) <= Places(n)
             /\ Places(m) = Places(n) => TotalOf(m) <= TotalOf(n)
  <2>1. TotalOf(n) < Impossible
    BY <1>2, <1>9 DEF SmallScores
  <2>2. t < Impossible /\ TotalOf(n) = t /\ TotalOf(m) <= s /\ TotalOf(m) \in Nat
    BY <1>4, <1>5, <1>6, <2>1
  <2>3. Places(m) <= Places(n) /\ (Places(m) = Places(n) => s <= t)
    BY <1>4, <1>5, <1>6, <1>7, <2>2, MostIsBest
  <2> QED
    BY <1>4, <1>5, <2>2, <2>3
<1> QED
  BY <1>8, <1>9 DEF n

\* The answer to a request without workers or jobs.
LEMMA EmptyIsBest ==
  ASSUME RequestInv, workers = 0 \/ jobs = 0
  PROVE  /\ <<>> \in Matchings
         /\ \A m \in Matchings : /\ Worth(m) <= Worth(<<>>)
                                /\ Places(m) <= Places(<<>>) /\ TotalOf(m) <= 0
<1>1. <<>> \in Matchings
  <2>1. <<>> \in Injection({}, 1..jobs)
    BY DEF Injection, IsInjective
  <2>2. <<>> \in UNION {Injection(S, 1..jobs) : S \in SUBSET (1..workers)}
    BY <2>1
  <2> QED
    BY <2>2 DEF Matchings
<1>2. ASSUME NEW m \in Matchings PROVE Places(m) = 0 /\ TotalOf(m) = 0 /\ Worth(m) = 0
  <2>1. DOMAIN m \subseteq 1..workers /\ m \in [DOMAIN m -> 1..jobs]
    BY MatchingIs
  <2>2. DOMAIN m = {}
    BY <2>1
  <2>3. Places(m) = 0
    BY <2>2, FS_EmptySet DEF Places
  <2>4. SumOn(ScoresOf(m), DOMAIN m) = 0
    <3>1. DOMAIN ScoresOf(m) = {}
      BY <2>2 DEF ScoresOf
    <3>2. IsFiniteSet(DOMAIN ScoresOf(m))
      BY <3>1, FS_EmptySet
    <3> QED
      BY <2>2, <3>2, SumOnEmpty
  <2>5. TotalOf(m) = 0 /\ Worth(m) = 0
    BY <2>3, <2>4, GainIs, ScoresAssumption
  <2> QED
    BY <2>3, <2>5
<1>3. Places(<<>>) = 0 /\ Worth(<<>>) = 0
  BY <1>1, <1>2
<1> QED
  BY <1>1, <1>2, <1>3

IInv == RequestInv /\ IsMatching /\ BestMatching

LEMMA InitInv == Init => IInv
<1> SUFFICES ASSUME Init PROVE IInv
  OBVIOUS
<1>1. workers \in Nat /\ jobs \in Nat
  BY ScoresAssumption DEF Init
<1>2. PICK S \in SUBSET ((1..workers) \X (1..jobs)) : costs \in [S -> Scores]
  BY DEF Init
<1>3. result = None
  BY DEF Init
<1> QED
  BY <1>1, <1>2, <1>3 DEF IInv, RequestInv, IsMatching, BestMatching

LEMMA SolveInv ==
  ASSUME IInv, Solve
  PROVE  IInv'
<1>1. UNCHANGED <<workers, jobs, costs>>
  BY DEF Solve
<1>2. RequestInv /\ RequestInv'
  BY <1>1 DEF IInv, RequestInv
<1>3. Matchings' = Matchings /\ (SmallScores' <=> SmallScores)
  BY <1>1 DEF Matchings, SmallScores, TotalOf, ScoresOf, ScoreMatrix
<1>4. \A m : TotalOf(m)' = TotalOf(m) /\ Worth(m)' = Worth(m)
  BY <1>1 DEF TotalOf, Worth, Places, ScoresOf, ScoreMatrix
<1>5. /\ result'.assigned \in Matchings
      /\ \A m \in Matchings :
           /\ Worth(m) <= Worth(result'.assigned)
           /\ SmallScores =>
                /\ Places(m) <= Places(result'.assigned)
                /\ Places(m) = Places(result'.assigned) => TotalOf(m) <= result'.total
  <2>1. CASE workers = 0 \/ jobs = 0
    <3>1. result'.assigned = <<>> /\ result'.total = 0
      BY <2>1 DEF Solve
    <3> QED
      BY <1>2, <2>1, <3>1, EmptyIsBest
  <2>2. CASE ~(workers = 0 \/ jobs = 0)
    <3>1. PICK row \in Lapjv(SolverMatrix) :
            result' = [assigned |-> Collect(row, SolverMatrix),
                       total |-> TotalOf(Collect(row, SolverMatrix))]
      BY <2>2 DEF Solve
    <3>2. row \in RowAssignments
      BY DEF Lapjv, RowAssignments, Rows
    <3>3. Collect(row, SolverMatrix) \in Matchings
      BY <1>2, <3>2, CollectIsMatching
    <3>4. /\ result'.assigned = Collect(row, SolverMatrix)
          /\ result'.total = TotalOf(Collect(row, SolverMatrix))
      BY <3>1
    <3> QED
      BY <1>2, <3>3, <3>4, CollectIsBest
  <2> QED
    BY <2>1, <2>2
<1>6. IsMatching'
  BY <1>3, <1>5 DEF IsMatching
<1>7. BestMatching'
  BY <1>3, <1>4, <1>5 DEF BestMatching, Places
<1> QED
  BY <1>2, <1>6, <1>7 DEF IInv

LEMMA NextInv == IInv /\ [Next]_vars => IInv'
<1> SUFFICES ASSUME IInv, [Next]_vars PROVE IInv'
  OBVIOUS
<1>1. CASE Solve
  BY <1>1, SolveInv
<1>2. CASE UNCHANGED vars
  <2>1. UNCHANGED <<workers, jobs, costs>> /\ result' = result
    BY <1>2 DEF vars
  <2>2. RequestInv'
    BY <2>1 DEF IInv, RequestInv
  <2>3. Matchings' = Matchings /\ (SmallScores' <=> SmallScores)
    BY <2>1 DEF Matchings, SmallScores, TotalOf, ScoresOf, ScoreMatrix
  <2>4. \A m : TotalOf(m)' = TotalOf(m) /\ Worth(m)' = Worth(m)
    BY <2>1 DEF TotalOf, Worth, Places, ScoresOf, ScoreMatrix
  <2>5. IsMatching' /\ BestMatching'
    BY <2>1, <2>3, <2>4 DEF IInv, IsMatching, BestMatching, Places
  <2> QED
    BY <2>2, <2>5 DEF IInv
<1> QED
  BY <1>1, <1>2 DEF Next

\* IsMatching, for requests of every size: no dummy row or column, no pair
\* without a score and no job twice in the answer of solve_assignment.
THEOREM AnswerIsMatching == Spec => []IsMatching
<1>1. IInv => IsMatching
  BY DEF IInv
<1> QED
  BY <1>1, InitInv, NextInv, PTL DEF Spec

\* BestMatching, for requests of every size and scores of every width: a worker
\* that could be placed is left out only for scores greater by the cost of an
\* impossible pair.  While the scores of a matching stay below that cost, the
\* answer of solve_assignment places as many workers as can be placed, and has the
\* greatest total of all answers that do.
THEOREM AnswerIsBest == Spec => []BestMatching
<1>1. IInv => BestMatching
  BY DEF IInv
<1> QED
  BY <1>1, InitInv, NextInv, PTL DEF Spec
=============================================================================
