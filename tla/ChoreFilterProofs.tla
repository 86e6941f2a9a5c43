--------------------------- MODULE ChoreFilterProofs ---------------------------
(***************************************************************************)
(* The chore filter for every request, whatever the width of the integers. *)
(***************************************************************************)
EXTENDS ChoreFilter, Integers, TLAPS

\* What the loops keep besides the properties: the Python counter is exact.
IInv ==
  /\ TypeOK
  /\ py.used = py.minutes
  /\ PyFillsTime
  /\ SameUnlessOverflow
  /\ WrapIsSilent

LEMMA WrapType ==
  ASSUME NEW n \in Nat
  PROVE  /\ n % Modulus \in Nat
         /\ n < Modulus => n % Modulus = n
  BY ModulusAssumption

LEMMA Division ==
  ASSUME NEW M \in Nat \ {0}, NEW n \in Nat
  PROVE  \E a \in Nat : \E r \in 0..(M - 1) : r = n % M /\ n = M * a + r
<1>1. n % M \in 0..(M - 1)
  OBVIOUS
<1>2. n \div M \in Nat
  OBVIOUS
<1>3. n = M * (n \div M) + (n % M)
  OBVIOUS
<1> QED
  BY <1>1, <1>2, <1>3, Zenon

\* Wrapping at every addition or once at the end gives the same sum.
LEMMA WrapOnce ==
  ASSUME NEW n \in Nat, NEW e \in Nat
  PROVE  ((n % Modulus) + e) % Modulus = (n + e) % Modulus
<1> PICK M \in Nat \ {0} : M = Modulus
  BY ModulusAssumption
<1>2. PICK a \in Nat, r \in 0..(M - 1) : r = n % M /\ n = M * a + r
  BY Division
<1>3. PICK b \in Nat, s \in 0..(M - 1) : s = (r + e) % M /\ r + e = M * b + s
  <2>1. r + e \in Nat
    OBVIOUS
  <2> QED
    BY <2>1, Division
<1>4. PICK c \in Nat, t \in 0..(M - 1) : t = (n + e) % M /\ n + e = M * c + t
  <2>1. n + e \in Nat
    OBVIOUS
  <2> QED
    BY <2>1, Division
<1>5. PICK d \in Int : d = a + b - c
  OBVIOUS
<1>6. PICK md \in Int, ma \in Int, mb \in Int, mc \in Int :
        md = M * d /\ ma = M * a /\ mb = M * b /\ mc = M * c
  OBVIOUS
<1>7. t = s + M * d
  <2>1. md = ma + mb - mc
    BY <1>5, <1>6
  <2>2. n = ma + r /\ r + e = mb + s /\ n + e = mc + t
    BY <1>2, <1>3, <1>4, <1>6
  <2>3. t = s + md
    BY <2>1, <2>2
  <2> QED
    BY <2>3, <1>6
<1>8. d = 0
  <2>1. CASE d >= 1
    <3>1. M * d >= M
      BY <2>1
    <3> QED
      BY <1>7, <3>1
  <2>2. CASE d <= -1
    <3>1. M * d <= -M
      BY <2>2
    <3> QED
      BY <1>7, <3>1
  <2> QED
    BY <2>1, <2>2
<1>9. t = s
  BY <1>7, <1>8
<1> QED
  BY <1>2, <1>3, <1>4, <1>9

LEMMA RequestType ==
  ASSUME TypeOK
  PROVE  /\ available \in Nat
         /\ Len(estimated) \in Nat
         /\ \A i \in 1..Len(estimated) : estimated[i] \in Nat
<1>1. Minutes \subseteq Nat
  BY ModulusAssumption DEF Minutes
<1>2. \A i \in 1..Len(estimated) : estimated[i] \in Minutes
  BY DEF TypeOK
<1>3. Len(estimated) \in Nat /\ available \in Minutes
  BY DEF TypeOK
<1> QED
  BY <1>1, <1>2, <1>3

LEMMA InitInv == Init => IInv
<1> SUFFICES ASSUME Init PROVE IInv
  OBVIOUS
<1>1. estimated \in Seq(Minutes) /\ 0 \in 0..Len(estimated)
  <2>1. PICK n \in 0..MaxChores : estimated \in [1..n -> Minutes]
    BY DEF Init, Requests
  <2>2. n \in Nat
    BY ModulusAssumption
  <2> QED
    BY <2>1, <2>2
<1>2. TypeOK
  BY <1>1 DEF Init, TypeOK, Nothing, Collected
<1>3. PyFillsTime
  BY DEF Init, PyFillsTime, GoodFor, Nothing, Minutes
<1>4. WrapIsSilent
  BY WrapType, ModulusAssumption DEF Init, WrapIsSilent, Nothing, Minutes
<1> QED
  BY <1>2, <1>3, <1>4 DEF IInv, Init, Nothing, SameUnlessOverflow

LEMMA NextInv == IInv /\ [Next]_vars => IInv'
<1> SUFFICES ASSUME IInv, NextChore PROVE IInv'
  BY DEF Next, vars, IInv, TypeOK, PyFillsTime, GoodFor, SameUnlessOverflow,
     NoOverflow, WrapIsSilent
<1> DEFINE i == done + 1
           e == estimated[i]
<1> USE DEF IInv
<1>1. /\ i \in 1..Len(estimated)
      /\ e \in Nat
      /\ available \in Nat
      /\ done' = i
      /\ done \in Nat
      /\ UNCHANGED <<estimated, available>>
  BY RequestType DEF TypeOK, NextChore
<1>2. py \in Collected /\ rs \in Collected
  BY DEF TypeOK
<1>3. /\ py' \in Collected
      /\ py'.used = py'.minutes
      /\ py.minutes <= py'.minutes
      /\ py'.minutes <= available
      /\ py.accepted \subseteq py'.accepted
      /\ i \in py'.accepted \/ py'.minutes + e > available
  <2>1. CASE py.used + e <= available
    <3>1. py' = Accept(py, i, py.used + e)
      BY <2>1 DEF NextChore, PyTake
    <3> QED
      BY <1>1, <1>2, <2>1, <3>1 DEF Accept, Collected
  <2>2. CASE ~(py.used + e <= available)
    <3>1. py' = py
      BY <2>2 DEF NextChore, PyTake
    <3> QED
      BY <1>1, <1>2, <2>2, <3>1 DEF Collected, PyFillsTime, GoodFor
  <2> QED
    BY <2>1, <2>2
<1>4. PyFillsTime'
  <2> SUFFICES ASSUME NEW k \in (1..done') \ py'.accepted
               PROVE  py'.minutes + estimated[k] > available
    BY <1>1, <1>3 DEF PyFillsTime, GoodFor
  <2>1. CASE k = i
    BY <1>3, <2>1
  <2>2. CASE k # i
    <3>1. k \in (1..done) \ py.accepted
      BY <1>1, <1>3, <2>2
    <3>2. py.minutes + estimated[k] > available
      BY <3>1 DEF PyFillsTime, GoodFor
    <3>3. estimated[k] \in Nat
      BY <1>1, <3>1, RequestType DEF TypeOK
    <3> QED
      BY <1>1, <1>2, <1>3, <3>2, <3>3 DEF Collected
  <2> QED
    BY <2>1, <2>2
<1>5. rs' \in Collected
  <2>1. rs.used + e \in Nat
    BY <1>1, <1>2 DEF Collected
  <2>2. (rs.used + e) % Modulus \in Nat
    BY <2>1, WrapType
  <2>3. Accept(rs, i, (rs.used + e) % Modulus) \in Collected
    <3> HIDE DEF i, e
    <3>1. estimated[i] = e
      BY DEF e
    <3> QED
      BY <1>1, <1>2, <2>2, <3>1 DEF Accept, Collected
  <2> QED
    BY <1>2, <2>3 DEF NextChore, RsTake
<1>6. SameUnlessOverflow'
  <2> SUFFICES ASSUME NoOverflow PROVE rs' = py'
    BY <1>1 DEF SameUnlessOverflow, NoOverflow
  <2>1. rs = py
    BY DEF SameUnlessOverflow
  <2>2. py.used <= available /\ available + e < Modulus /\ py.used \in Nat
    BY <1>1, <1>2 DEF PyFillsTime, GoodFor, NoOverflow, Collected
  <2>3. py.used + e < Modulus /\ py.used + e \in Nat
    BY <1>1, <2>2, ModulusAssumption
  <2>4. (rs.used + e) % Modulus = py.used + e
    BY <2>1, <2>3, WrapType
  <2> QED
    BY <2>1, <2>4 DEF NextChore, PyTake, RsTake
<1>7. TypeOK'
  BY <1>1, <1>3, <1>5 DEF TypeOK
<1>8. WrapIsSilent'
  <2> DEFINE sum == (rs.used + e) % Modulus
  <2>1. CASE sum <= available
    <3>1. rs' = Accept(rs, i, sum)
      BY <2>1 DEF NextChore, RsTake
    <3>2. rs'.used = sum /\ rs'.minutes = rs.minutes + e
      BY <3>1 DEF Accept
    <3>3. sum = (rs.minutes + e) % Modulus
      <4>1. rs.minutes \in Nat /\ rs.used = rs.minutes % Modulus
        BY <1>2 DEF WrapIsSilent, Collected
      <4> QED
        BY <1>1, <4>1, WrapOnce
    <3> HIDE DEF sum
    <3> QED
      BY <1>1, <2>1, <3>2, <3>3 DEF WrapIsSilent
  <2>2. CASE ~(sum <= available)
    <3>1. rs' = rs
      BY <2>2 DEF NextChore, RsTake
    <3> QED
      BY <1>1, <3>1 DEF WrapIsSilent
  <2> QED
    BY <2>1, <2>2
<1> QED
  BY <1>3, <1>4, <1>6, <1>7, <1>8

THEOREM Invariance == Spec => []IInv
<1> QED
  BY InitInv, NextInv, PTL DEF Spec

\* Python: nobody is given more than fits, and no rejected chore would still
\* have fitted at the end.
THEOREM PythonFillsTime == Spec => []PyFillsTime
<1>1. IInv => PyFillsTime
  BY DEF IInv
<1> QED
  BY <1>1, Invariance, PTL

\* The two implementations give the same chores to every person whose time and
\* longest chore together stay below 2^32.
THEOREM RustEqualsPython == Spec => []SameUnlessOverflow
<1>1. IInv => SameUnlessOverflow
  BY DEF IInv
<1> QED
  BY <1>1, Invariance, PTL

\* Whatever has wrapped, the Rust result looks consistent: the counter is within
\* the person's time and is the sum of the accepted minutes modulo 2^32.
THEOREM RustWrapsSilently == Spec => []WrapIsSilent
<1>1. IInv => WrapIsSilent
  BY DEF IInv
<1> QED
  BY <1>1, Invariance, PTL
=============================================================================
