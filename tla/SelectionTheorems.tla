--------------------------- MODULE SelectionTheorems ---------------------------
(***************************************************************************)
(* What the selection of people guarantees for every window and history.   *)
(***************************************************************************)
EXTENDS Selection, FiniteSetTheorems, FunctionTheorems, TLAPS

\* A window and a history as the coordinators keep them: finitely many
\* people, with natural stamps and natural, pairwise different sequence
\* numbers.
IsSelection(last, pending) ==
  /\ IsFiniteSet(DOMAIN pending)
  /\ \A p \in DOMAIN last : last[p] \in Nat
  /\ \A p \in DOMAIN pending : pending[p].seq \in Nat
  /\ \A p, q \in DOMAIN pending : pending[p].seq = pending[q].seq => p = q

LEMMA LastSelectedType ==
  ASSUME NEW last, NEW pending, IsSelection(last, pending), NEW p
  PROVE  LastSelected(last, p) \in Nat
  BY DEF IsSelection, LastSelected, NeverSelected

\* The sort key is a strict total order on the people of a window.
LEMMA BeforeTransitive ==
  ASSUME NEW last, NEW pending, IsSelection(last, pending),
         NEW p \in DOMAIN pending, NEW q \in DOMAIN pending,
         NEW r \in DOMAIN pending,
         Before(last, pending, p, q), Before(last, pending, q, r)
  PROVE  Before(last, pending, p, r)
<1>1. /\ LastSelected(last, p) \in Nat
      /\ LastSelected(last, q) \in Nat
      /\ LastSelected(last, r) \in Nat
  BY LastSelectedType
<1>2. pending[p].seq \in Nat /\ pending[q].seq \in Nat /\ pending[r].seq \in Nat
  BY DEF IsSelection
<1> QED
  BY <1>1, <1>2 DEF Before

LEMMA BeforeIrreflexive ==
  ASSUME NEW last, NEW pending, IsSelection(last, pending),
         NEW p \in DOMAIN pending
  PROVE  ~Before(last, pending, p, p)
<1>1. LastSelected(last, p) \in Nat /\ pending[p].seq \in Nat
  BY LastSelectedType DEF IsSelection
<1> QED
  BY <1>1 DEF Before

LEMMA BeforeTotal ==
  ASSUME NEW last, NEW pending, IsSelection(last, pending),
         NEW p \in DOMAIN pending, NEW q \in DOMAIN pending, p # q
  PROVE  Before(last, pending, p, q) \/ Before(last, pending, q, p)
<1>1. LastSelected(last, p) \in Nat /\ LastSelected(last, q) \in Nat
  BY LastSelectedType
<1>2. /\ pending[p].seq \in Nat
      /\ pending[q].seq \in Nat
      /\ pending[p].seq # pending[q].seq
  BY DEF IsSelection
<1> QED
  BY <1>1, <1>2 DEF Before

-----------------------------------------------------------------------------
LEMMA AheadFinite ==
  ASSUME NEW last, NEW pending, IsSelection(last, pending), NEW p
  PROVE  /\ IsFiniteSet(Ahead(last, pending, p))
         /\ Rank(last, pending, p) \in Nat
<1>1. Ahead(last, pending, p) \in SUBSET (DOMAIN pending)
  BY DEF Ahead
<1>2. IsFiniteSet(Ahead(last, pending, p))
  BY <1>1, FS_Subset DEF IsSelection
<1> QED
  BY <1>2, FS_CardinalityType DEF Rank

LEMMA AheadMonotone ==
  ASSUME NEW last, NEW pending, IsSelection(last, pending),
         NEW p \in DOMAIN pending, NEW q \in DOMAIN pending,
         Before(last, pending, p, q)
  PROVE  /\ Ahead(last, pending, p) \subseteq Ahead(last, pending, q)
         /\ Ahead(last, pending, p) # Ahead(last, pending, q)
<1>1. Ahead(last, pending, p) \subseteq Ahead(last, pending, q)
  BY BeforeTransitive DEF Ahead
<1>2. p \in Ahead(last, pending, q) /\ p \notin Ahead(last, pending, p)
  BY BeforeIrreflexive DEF Ahead
<1> QED
  BY <1>1, <1>2

\* Who sorts before has the smaller index.
LEMMA RankMonotone ==
  ASSUME NEW last, NEW pending, IsSelection(last, pending),
         NEW p \in DOMAIN pending, NEW q \in DOMAIN pending,
         Before(last, pending, p, q)
  PROVE  Rank(last, pending, p) < Rank(last, pending, q)
<1> DEFINE P == Ahead(last, pending, p)
           Q == Ahead(last, pending, q)
<1>1. P \in SUBSET Q /\ P # Q
  BY AheadMonotone
<1>2. IsFiniteSet(P) /\ IsFiniteSet(Q)
  BY AheadFinite
<1> HIDE DEF P, Q
<1>3. Cardinality(P) <= Cardinality(Q) /\ Cardinality(P) # Cardinality(Q)
  BY <1>1, <1>2, FS_Subset
<1>4. Cardinality(P) \in Nat /\ Cardinality(Q) \in Nat
  BY <1>2, FS_CardinalityType
<1>5. Cardinality(P) < Cardinality(Q)
  BY <1>3, <1>4
<1> QED
  BY <1>5 DEF P, Q, Rank

\* An index is taken once: the sorted list has no ties.
LEMMA RankInjective ==
  ASSUME NEW last, NEW pending, IsSelection(last, pending),
         NEW p \in DOMAIN pending, NEW q \in DOMAIN pending,
         Rank(last, pending, p) = Rank(last, pending, q)
  PROVE  p = q
<1>1. Rank(last, pending, p) \in Nat /\ Rank(last, pending, q) \in Nat
  BY AheadFinite
<1> QED
  BY <1>1, BeforeTotal, RankMonotone

-----------------------------------------------------------------------------
\* The slice prioritized[:max] has at most max people.
THEOREM ChooseAtMost ==
  ASSUME NEW last, NEW pending, IsSelection(last, pending), NEW max \in Nat
  PROVE  /\ ChoosePeople(last, pending, max) \subseteq DOMAIN pending
         /\ IsFiniteSet(ChoosePeople(last, pending, max))
         /\ Cardinality(ChoosePeople(last, pending, max)) <= max
<1> DEFINE S == ChoosePeople(last, pending, max)
           f == [p \in S |-> Rank(last, pending, p)]
<1>1. S \subseteq DOMAIN pending
  BY DEF ChoosePeople
<1>2. f \in [S -> 0..(max - 1)]
  <2>1. ASSUME NEW p \in S PROVE Rank(last, pending, p) \in 0..(max - 1)
    BY AheadFinite DEF ChoosePeople
  <2> QED
    BY <2>1
<1>3. \A p, q \in S : f[p] = f[q] => p = q
  BY <1>1, RankInjective
<1>4. f \in Injection(S, 0..(max - 1))
  BY <1>2, <1>3 DEF Injection, IsInjective
<1>5. IsFiniteSet(0..(max - 1)) /\ Cardinality(0..(max - 1)) = max
  BY FS_Interval
<1>6. IsFiniteSet(S) /\ Cardinality(S) <= max
  BY <1>4, <1>5, FS_Injection
<1> QED
  BY <1>1, <1>6

\* If somebody is left out, the slice is full: it is the people with the
\* least keys and there are max of them.
THEOREM ChooseIsFull ==
  ASSUME NEW last, NEW pending, IsSelection(last, pending), NEW max \in Nat,
         ChoosePeople(last, pending, max) # DOMAIN pending
  PROVE  Cardinality(ChoosePeople(last, pending, max)) = max
<1> DEFINE S == ChoosePeople(last, pending, max)
           leftOut == DOMAIN pending \ S
           aheads == {Ahead(last, pending, p) : p \in leftOut}
<1>1. PICK m \in leftOut :
        \A p \in leftOut : ~Before(last, pending, p, m)
  <2>1. aheads # {}
    BY DEF ChoosePeople
  <2>2. aheads \subseteq FiniteSubsetsOf(DOMAIN pending)
    BY AheadFinite DEF FiniteSubsetsOf, Ahead
  <2>3. IsWellFoundedOn(StrictSubsetOrdering(DOMAIN pending),
                        FiniteSubsetsOf(DOMAIN pending))
    BY FS_StrictSubsetOrderingWellFounded
  <2>4. PICK A \in aheads :
          \A B \in aheads : <<B, A>> \notin StrictSubsetOrdering(DOMAIN pending)
    <3> HIDE DEF aheads
    <3> QED
      BY <2>1, <2>2, <2>3, WFMin
  <2>5. \A B \in aheads : B \subseteq A => B = A
    BY <2>2, <2>4 DEF StrictSubsetOrdering, FiniteSubsetsOf
  <2>6. PICK m \in leftOut : A = Ahead(last, pending, m)
    OBVIOUS
  <2>7. ASSUME NEW p \in leftOut, Before(last, pending, p, m)
        PROVE  FALSE
    <3>1. p \in DOMAIN pending /\ m \in DOMAIN pending
      OBVIOUS
    <3>2. /\ Ahead(last, pending, p) \subseteq A
          /\ Ahead(last, pending, p) # A
      BY <2>6, <2>7, <3>1, AheadMonotone
    <3>3. Ahead(last, pending, p) \in aheads
      OBVIOUS
    <3> QED
      BY <2>5, <3>2, <3>3
  <2> QED
    BY <2>7
<1>2. Ahead(last, pending, m) \in SUBSET S
  BY <1>1 DEF Ahead
<1>3. IsFiniteSet(S) /\ Cardinality(S) <= max
  BY ChooseAtMost
<1>4. Rank(last, pending, m) <= Cardinality(S)
  BY <1>2, <1>3, FS_Subset DEF Rank
<1>5. Rank(last, pending, m) >= max
  BY AheadFinite DEF ChoosePeople
<1>6. Cardinality(S) \in Nat /\ Rank(last, pending, m) \in Nat
  BY <1>3, FS_CardinalityType, AheadFinite
<1> QED
  BY <1>3, <1>4, <1>5, <1>6

\* A window with somebody in it gives somebody a place.
THEOREM ChooseNonempty ==
  ASSUME NEW last, NEW pending, IsSelection(last, pending),
         NEW max \in Nat \ {0}, DOMAIN pending # {}
  PROVE  ChoosePeople(last, pending, max) # {}
<1> SUFFICES ASSUME ChoosePeople(last, pending, max) = {} PROVE FALSE
  OBVIOUS
<1>1. Cardinality(ChoosePeople(last, pending, max)) = max
  BY ChooseIsFull
<1> QED
  BY <1>1, FS_EmptySet

-----------------------------------------------------------------------------
(* The history of selections                                               *)

\* Pruning and forgetting only take entries away.
LEMMA PruneType ==
  ASSUME NEW last, last \in [DOMAIN last -> Nat], NEW now, NEW ttl
  PROVE  LET pruned == Prune(last, now, ttl)
         IN  /\ DOMAIN pruned \subseteq DOMAIN last
             /\ pruned \in [DOMAIN pruned -> Nat]
             /\ \A p \in DOMAIN pruned : pruned[p] = last[p]
  BY DEF Prune, Restrict

LEMMA ForgetType ==
  ASSUME NEW last, last \in [DOMAIN last -> Nat], NEW q
  PROVE  LET left == Forget(last, q)
         IN  /\ DOMAIN left \subseteq DOMAIN last
             /\ left \in [DOMAIN left -> Nat]
             /\ \A p \in DOMAIN left : left[p] = last[p]
  BY DEF Forget, Restrict

\* Nothing is taken away before its ttl is over, and nobody else is forgotten.
LEMMA PruneKeeps ==
  ASSUME NEW last, NEW now, NEW ttl, NEW p \in DOMAIN last, ~(now > last[p] + ttl)
  PROVE  p \in DOMAIN Prune(last, now, ttl)
BY DEF Prune, Restrict

LEMMA ForgetKeeps ==
  ASSUME NEW last, NEW q, NEW p \in DOMAIN last, p # q
  PROVE  p \in DOMAIN Forget(last, q)
BY DEF Forget, Restrict

-----------------------------------------------------------------------------
(* Tickets with different people are counted by counting the people        *)

PeopleOf(T) == {t.person : t \in T}

LEMMA CountPeople ==
  ASSUME NEW T, \A t, u \in T : t.person = u.person => t = u
  PROVE  /\ IsFiniteSet(T) <=> IsFiniteSet(PeopleOf(T))
         /\ IsFiniteSet(T) => Cardinality(T) = Cardinality(PeopleOf(T))
<1> DEFINE f == [t \in T |-> t.person]
<1>1. f \in Bijection(T, PeopleOf(T))
  BY DEF PeopleOf, Bijection, Injection, IsInjective, Surjection
<1>2. ExistsBijection(T, PeopleOf(T)) /\ ExistsBijection(PeopleOf(T), T)
  BY <1>1, Fun_ExistsBijSymmetric DEF ExistsBijection
<1> QED
  BY <1>2, FS_Bijection

LEMMA SamePeopleSameCount ==
  ASSUME NEW T, NEW U, IsFiniteSet(T), PeopleOf(U) = PeopleOf(T),
         \A t, u \in T : t.person = u.person => t = u,
         \A t, u \in U : t.person = u.person => t = u
  PROVE  IsFiniteSet(U) /\ Cardinality(U) = Cardinality(T)
  BY CountPeople
-----------------------------------------------------------------------------
(* Somebody is first in line                                               *)

\* The callbacks of a job come in the order of the list: of a finite set of
\* tickets one has the least index.  Of the sets of the tickets up to one of
\* them, one contains no other, for inclusion of finite sets is well founded.
LEMMA FirstInLine ==
  ASSUME NEW T, IsFiniteSet(T), T # {}, \A t \in T : t.index \in Nat
  PROVE  \E t \in T : \A u \in T : t.index <= u.index
<1> DEFINE UpTo(t) == {u \in T : u.index <= t.index}
           C == {UpTo(t) : t \in T}
           R == StrictSubsetOrdering(T)
           F == FiniteSubsetsOf(T)
<1>1. IsWellFoundedOn(R, F)
  BY FS_StrictSubsetOrderingWellFounded
<1>2. C \subseteq SUBSET T /\ C # {}
  OBVIOUS
<1>3. F = SUBSET T
  BY FS_FiniteSubsetsOfFinite
<1>4. PICK D \in C : \A E \in C : ~(<<E, D>> \in R)
  <2> HIDE DEF C, R, F
  <2> QED
    BY <1>1, <1>2, <1>3, WFMin
<1>5. PICK t \in T : D = UpTo(t)
  OBVIOUS
<1>6. ASSUME NEW u \in T, ~(t.index <= u.index) PROVE FALSE
  <2>1. UpTo(u) \in C /\ UpTo(u) \subseteq UpTo(t)
    BY <1>6
  <2>2. t \in UpTo(t) /\ t \notin UpTo(u)
    BY <1>6
  <2>3. <<UpTo(u), UpTo(t)>> \in R
    BY <1>2, <1>5, <2>1, <2>2 DEF StrictSubsetOrdering
  <2> QED
    BY <1>4, <1>5, <2>1, <2>3
<1> QED
  BY <1>6
=============================================================================
