--------------------------- MODULE AnalysisProofs ---------------------------
(***************************************************************************)
(* Proofs about Cascade and Analysis, for every set of threads, every      *)
(* graph and every depth limit.                                            *)
(***************************************************************************)
EXTENDS Analysis, FiniteSetTheorems, WellFoundedInduction, TLAPS

\* A set of numbers that is not empty has a least one.
LEMMA LeastNat ==
  ASSUME NEW T, T \subseteq Nat, T # {}
  PROVE  \E x \in T : \A y \in T : x <= y
<1>1. PICK x \in T : \A y \in T : ~(<<y, x>> \in OpToRel(<, Nat))
  BY NatLessThanWellFounded, WFMin, Zenon
<1>2. \A y \in T : ~(y < x)
  BY <1>1 DEF OpToRel
<1> QED BY <1>2

\* ... and one that has a bound has a greatest one.
LEMMA GreatestNat ==
  ASSUME NEW T, T \subseteq Nat, T # {}, NEW b \in Nat, \A y \in T : y <= b
  PROVE  \E x \in T : \A y \in T : y <= x
<1> DEFINE D == {b - y : y \in T}
<1>1. D \subseteq Nat /\ D # {}
  <2>1. \A y \in T : b - y \in Nat
    OBVIOUS
  <2>2. \E y \in T : b - y \in D
    OBVIOUS
  <2> QED BY <2>1, <2>2
<1>2. PICK d \in D : \A e \in D : d <= e
  <2> HIDE DEF D
  <2> QED BY <1>1, LeastNat, Zenon
<1>3. PICK x \in T : d = b - x
  BY <1>2
<1>4. \A y \in T : b - x <= b - y
  BY <1>2, <1>3
<1> QED BY <1>4

LEMMA MaxMinOfTwo ==
  ASSUME NEW a \in Nat, NEW b \in Nat
  PROVE  /\ Max({a, b}) \in {a, b} /\ Max({a, b}) >= a /\ Max({a, b}) >= b
         /\ Min({a, b}) \in {a, b} /\ Min({a, b}) <= a /\ Min({a, b}) <= b
<1>1. \E x \in {a, b} : \A y \in {a, b} : x >= y
  OBVIOUS
<1>2. \E x \in {a, b} : \A y \in {a, b} : x <= y
  OBVIOUS
<1> QED BY <1>1, <1>2 DEF Max, Min
-----------------------------------------------------------------------------
(***************************************************************************)
(* Sums over finite sets.  Each is an induction on the set: a set of       *)
(* finite sets has a member that leaves it whatever is taken out of it.    *)
(***************************************************************************)
LEMMA LeastSet ==
  ASSUME NEW B, B # {}, \A S \in B : IsFiniteSet(S)
  PROVE  \E S \in B : \A x \in S : S \ {x} \notin B
<1> DEFINE Sizes == {Cardinality(S) : S \in B}
<1>1. \A S \in B : Cardinality(S) \in Nat
  BY FS_CardinalityType
<1>2. Sizes \subseteq Nat /\ Sizes # {}
  BY <1>1
<1>3. PICK n \in Sizes : \A k \in Sizes : n <= k
  <2> HIDE DEF Sizes
  <2> QED BY <1>2, LeastNat, Zenon
<1>4. PICK S \in B : n = Cardinality(S)
  BY <1>3
<1>5. ASSUME NEW x \in S, S \ {x} \in B
      PROVE  FALSE
  <2>1. Cardinality(S \ {x}) = Cardinality(S) - 1
    BY FS_RemoveElement
  <2>2. Cardinality(S \ {x}) \in Sizes /\ Cardinality(S) \in Nat
    BY <1>1, <1>5
  <2> HIDE DEF Sizes
  <2>3. Cardinality(S) <= Cardinality(S \ {x})
    BY <1>3, <1>4, <2>2
  <2> QED BY <2>1, <2>2, <2>3
<1> QED BY <1>5

\* The recursion of SumFunctionOnSet
SumStep(f, C, N) ==
  IF N = {} THEN 0
  ELSE f[CHOOSE x \in N : TRUE] + C[N \ {CHOOSE x \in N : TRUE}]

SumTable(f, S) == CHOOSE C : C = [N \in SUBSET S |-> SumStep(f, C, N)]

LEMMA SumIs ==
  ASSUME NEW f, NEW S
  PROVE  SumFunctionOnSet(f, S) = SumTable(f, S)[S]
BY DEF SumFunctionOnSet, FoldFunctionOnSet, MapThenFoldSet, SumTable, SumStep

LEMMA SumAgrees ==
  ASSUME NEW f, NEW C, NEW D, NEW N, \A u \in N : C[N \ {u}] = D[N \ {u}]
  PROVE  SumStep(f, C, N) = SumStep(f, D, N)
<1>1. CASE N = {}
  BY <1>1, Zenon DEF SumStep
<1>2. CASE N # {}
  <2>1. (CHOOSE u \in N : TRUE) \in N
    BY <1>2
  <2>2. C[N \ {CHOOSE u \in N : TRUE}] = D[N \ {CHOOSE u \in N : TRUE}]
    BY <2>1, Zenon
  <2> QED BY <1>2, <2>2, Zenon DEF SumStep
<1> QED BY <1>1, <1>2

\* It has a solution: solved for the sets of at most k elements, it can be
\* solved for those of k + 1.
LEMMA SumTableExists ==
  ASSUME NEW f, NEW S, IsFiniteSet(S)
  PROVE  \A N \in SUBSET S : SumTable(f, S)[N] = SumStep(f, SumTable(f, S), N)
<1> DEFINE All == SUBSET S
           Solves(C, k) == \A N \in All : Cardinality(N) <= k => C[N] = SumStep(f, C, N)
           Solved(k) == \E C : C = [N \in All |-> C[N]] /\ Solves(C, k)
           T == {k \in Nat : ~Solved(k)}
<1>1. \A N \in All : /\ Cardinality(N) \in Nat
                     /\ Cardinality(N) = 0 <=> N = {}
                     /\ Cardinality(N) <= Cardinality(S)
                     /\ \A u \in N : /\ N \ {u} \in All
                                     /\ Cardinality(N \ {u}) = Cardinality(N) - 1
  BY FS_Subset, FS_CardinalityType, FS_EmptySet, FS_RemoveElement
<1>2. T = {}
  <2>1. SUFFICES ASSUME T # {} PROVE FALSE
    OBVIOUS
  <2>2. PICK m \in T : \A k \in T : m <= k
    <3>1. T \subseteq Nat
      OBVIOUS
    <3> HIDE DEF T
    <3> QED BY <2>1, <3>1, LeastNat, Zenon
  <2>3. m \in Nat /\ ~Solved(m)
    BY <2>2
  <2>4. PICK C : C = [N \in All |-> C[N]] /\ \A N \in All : Cardinality(N) < m => C[N] = SumStep(f, C, N)
    <3>1. CASE m = 0
      <4> DEFINE C == [N \in All |-> 0]
      <4>1. C = [N \in All |-> C[N]]
        OBVIOUS
      <4>2. \A N \in All : ~(Cardinality(N) < m)
        BY <1>1, <3>1
      <4> HIDE DEF C
      <4> QED BY <4>1, <4>2
    <3>2. CASE m # 0
      <4>1. m - 1 \in Nat /\ m - 1 < m
        BY <2>3, <3>2
      <4>2. Solved(m - 1)
        <5> HIDE DEF Solved
        <5> QED BY <2>2, <2>3, <4>1
      <4>3. PICK C : C = [N \in All |-> C[N]] /\ Solves(C, m - 1)
        BY <4>2, Zenon
      <4>4. \A N \in All : Cardinality(N) < m => Cardinality(N) <= m - 1
        BY <1>1, <2>3
      <4> HIDE DEF T, Solved
      <4>5. \A N \in All : Cardinality(N) < m => C[N] = SumStep(f, C, N)
        BY <4>3, <4>4, Zenon
      <4> QED BY <4>3, <4>5, Zenon
    <3> QED BY <3>1, <3>2
  <2> DEFINE Here(N) == SumStep(f, C, N)
             D == [N \in All |-> IF Cardinality(N) = m THEN Here(N) ELSE C[N]]
  <2>5. ASSUME NEW N \in All, Cardinality(N) <= m
        PROVE  D[N] = SumStep(f, D, N)
    <3>1. ASSUME NEW u \in N
          PROVE  C[N \ {u}] = D[N \ {u}]
      <4>1. N \ {u} \in All /\ Cardinality(N \ {u}) # m
        BY <1>1, <2>3, <2>5
      <4> HIDE DEF Here, All
      <4> QED BY <4>1
    <3>2. D[N] = Here(N)
      <4>1. CASE Cardinality(N) = m
        <5> HIDE DEF Here
        <5> QED BY <4>1
      <4>2. CASE Cardinality(N) # m
        <5>1. Cardinality(N) \in Nat
          BY <1>1
        <5>2. Cardinality(N) < m
          <6> HIDE DEF T, All, Solved, Solves
          <6> QED BY <2>3, <2>5, <4>2, <5>1
        <5>3. C[N] = Here(N)
          BY <2>4, <5>2
        <5> HIDE DEF Here
        <5> QED BY <4>2, <5>3
      <4> QED BY <4>1, <4>2
    <3> HIDE DEF D
    <3> QED BY <3>1, <3>2, SumAgrees
  <2>6. D = [N \in All |-> D[N]]
    OBVIOUS
  <2> HIDE DEF D
  <2>7. Solves(D, m)
    BY <2>5
  <2> HIDE DEF Solves
  <2> QED BY <2>3, <2>6, <2>7, Zenon
<1>3. Solved(Cardinality(S))
  <2>1. Cardinality(S) \in Nat
    BY FS_CardinalityType
  <2> HIDE DEF Solved
  <2> QED BY <1>2, <2>1
<1>4. PICK C : C = [N \in All |-> C[N]] /\ Solves(C, Cardinality(S))
  BY <1>3, Zenon
<1>5. \A N \in All : C[N] = SumStep(f, C, N)
  BY <1>1, <1>4
<1>6. C = [N \in All |-> SumStep(f, C, N)]
  BY <1>4, <1>5
<1> DEFINE table == SumTable(f, S)
<1>7. table = [N \in All |-> SumStep(f, table, N)]
  BY <1>6, Zenon DEF SumTable
<1> HIDE DEF table
<1>8. \A N \in All : table[N] = SumStep(f, table, N)
  BY <1>7, Zenon
<1> QED BY <1>8 DEF table

\* The sum over a part of S can be read off the table for S.
LEMMA SumTableOfPart ==
  ASSUME NEW f, NEW S, IsFiniteSet(S), NEW N \in SUBSET S
  PROVE  SumTable(f, S)[N] = SumFunctionOnSet(f, N)
<1> DEFINE Wrong ==
             {M \in SUBSET S : \E Z \in SUBSET S :
                /\ M \subseteq Z
                /\ SumTable(f, Z)[M] # SumTable(f, M)[M]}
<1>1. \A M \in SUBSET S : IsFiniteSet(M)
  BY FS_Subset
<1>2. ASSUME NEW Z \in SUBSET S, NEW M \in SUBSET Z
      PROVE  SumTable(f, Z)[M] = SumStep(f, SumTable(f, Z), M)
  BY <1>1, SumTableExists
<1>3. Wrong = {}
  <2>1. SUFFICES ASSUME Wrong # {} PROVE FALSE
    OBVIOUS
  <2>2. PICK M \in Wrong : \A x \in M : M \ {x} \notin Wrong
    <3>1. \A M \in Wrong : IsFiniteSet(M)
      BY <1>1
    <3> HIDE DEF Wrong
    <3> QED BY <2>1, <3>1, LeastSet, Zenon
  <2>3. PICK Z \in SUBSET S : M \subseteq Z /\ SumTable(f, Z)[M] # SumTable(f, M)[M]
    BY <2>2
  <2>4. ASSUME NEW x \in M
        PROVE  SumTable(f, Z)[M \ {x}] = SumTable(f, M)[M \ {x}]
    <3>1. M \ {x} \in SUBSET S /\ M \ {x} \subseteq Z /\ M \ {x} \subseteq M /\ M \in SUBSET S
      BY <2>2, <2>3
    <3>2. \A Y \in SUBSET S : M \ {x} \subseteq Y => SumTable(f, Y)[M \ {x}] = SumTable(f, M \ {x})[M \ {x}]
      BY <2>2, <3>1
    <3> QED BY <2>3, <3>1, <3>2
  <2>5. SumStep(f, SumTable(f, Z), M) = SumStep(f, SumTable(f, M), M)
    BY <2>4, SumAgrees
  <2>6. M \in SUBSET Z /\ M \in SUBSET M /\ M \in SUBSET S
    BY <2>2, <2>3
  <2>7. SumTable(f, Z)[M] = SumStep(f, SumTable(f, Z), M) /\ SumTable(f, M)[M] = SumStep(f, SumTable(f, M), M)
    BY <1>2, <2>6
  <2> QED BY <2>3, <2>5, <2>7
<1>4. SumTable(f, S)[N] = SumTable(f, N)[N]
  BY <1>3
<1> QED BY <1>4, SumIs

\* The sum of nothing, and the sum with the element it takes first
LEMMA SumChosen ==
  ASSUME NEW f, NEW S, IsFiniteSet(S)
  PROVE  /\ SumFunctionOnSet(f, {}) = 0
         /\ S # {} => \E x \in S : SumFunctionOnSet(f, S) = f[x] + SumFunctionOnSet(f, S \ {x})
<1> DEFINE table == SumTable(f, S)
<1>1. \A N \in SUBSET S : table[N] = SumStep(f, table, N)
  BY SumTableExists
<1> HIDE DEF table
<1>2. table[S] = SumStep(f, table, S) /\ table[{}] = SumStep(f, table, {})
  BY <1>1
<1>3. \A N \in SUBSET S : table[N] = SumFunctionOnSet(f, N)
  BY SumTableOfPart DEF table
<1>4. SumFunctionOnSet(f, {}) = 0
  <2>1. table[{}] = 0
    BY <1>2, Zenon DEF SumStep
  <2> QED BY <1>3, <2>1
<1>5. ASSUME S # {}
      PROVE  \E x \in S : SumFunctionOnSet(f, S) = f[x] + SumFunctionOnSet(f, S \ {x})
  <2> DEFINE x == CHOOSE y \in S : TRUE
  <2>1. x \in S
    BY <1>5
  <2>2. table[S] = f[x] + table[S \ {x}]
    BY <1>2, <1>5, Zenon DEF SumStep
  <2> HIDE DEF x
  <2>3. S \ {x} \in SUBSET S /\ S \in SUBSET S
    OBVIOUS
  <2>4. table[S] = SumFunctionOnSet(f, S) /\ table[S \ {x}] = SumFunctionOnSet(f, S \ {x})
    BY <1>3, <2>3
  <2> QED BY <2>1, <2>2, <2>4
<1> QED BY <1>4, <1>5

\* A sum of numbers is one, and may be taken in any order.
LEMMA SumNat ==
  ASSUME NEW f, NEW S, IsFiniteSet(S), \A x \in S : f[x] \in Nat
  PROVE  SumFunctionOnSet(f, S) \in Nat
<1> DEFINE Bad == {N \in SUBSET S : SumFunctionOnSet(f, N) \notin Nat}
<1>1. Bad = {}
  <2>1. SUFFICES ASSUME Bad # {} PROVE FALSE
    OBVIOUS
  <2>2. \A N \in Bad : IsFiniteSet(N)
    BY FS_Subset
  <2>3. PICK N \in Bad : \A x \in N : N \ {x} \notin Bad
    <3> HIDE DEF Bad
    <3> QED BY <2>1, <2>2, LeastSet, Zenon
  <2>4. CASE N = {}
    BY <2>2, <2>4, SumChosen
  <2>5. CASE N # {}
    <3>1. PICK x \in N : SumFunctionOnSet(f, N) = f[x] + SumFunctionOnSet(f, N \ {x})
      BY <2>2, <2>5, SumChosen
    <3>2. SumFunctionOnSet(f, N \ {x}) \in Nat
      BY <2>3
    <3> QED BY <3>1, <3>2
  <2> QED BY <2>4, <2>5
<1> QED BY <1>1

LEMMA SumRemove ==
  ASSUME NEW f, NEW S, IsFiniteSet(S), \A x \in S : f[x] \in Nat, NEW x \in S
  PROVE  SumFunctionOnSet(f, S) = f[x] + SumFunctionOnSet(f, S \ {x})
<1> DEFINE Split(N, y) == SumFunctionOnSet(f, N) = f[y] + SumFunctionOnSet(f, N \ {y})
           Bad == {N \in SUBSET S : \E y \in N : ~Split(N, y)}
<1>1. Bad = {}
  <2>1. SUFFICES ASSUME Bad # {} PROVE FALSE
    OBVIOUS
  <2>2. \A N \in SUBSET S : IsFiniteSet(N) /\ SumFunctionOnSet(f, N) \in Nat
    BY FS_Subset, SumNat
  <2>3. PICK N \in Bad : \A y \in N : N \ {y} \notin Bad
    <3>1. \A N \in Bad : IsFiniteSet(N)
      BY <2>2
    <3> HIDE DEF Bad
    <3> QED BY <2>1, <3>1, LeastSet, Zenon
  <2>4. PICK y \in N : ~Split(N, y)
    BY <2>3
  <2>5. PICK c \in N : Split(N, c)
    BY <2>2, <2>3, SumChosen
  <2>6. c # y
    BY <2>4, <2>5
  <2>7. Split(N \ {c}, y) /\ Split(N \ {y}, c)
    BY <2>3, <2>6
  <2>8. (N \ {c}) \ {y} = (N \ {y}) \ {c}
    OBVIOUS
  <2>9. f[c] \in Nat /\ f[y] \in Nat /\ SumFunctionOnSet(f, (N \ {y}) \ {c}) \in Nat
    BY <2>2, <2>3
  <2> HIDE DEF Bad
  <2>10. SumFunctionOnSet(f, N) = f[c] + (f[y] + SumFunctionOnSet(f, (N \ {y}) \ {c}))
    BY <2>5, <2>7, <2>8
  <2>11. SumFunctionOnSet(f, N \ {y}) = f[c] + SumFunctionOnSet(f, (N \ {y}) \ {c})
    BY <2>7
  <2>12. Split(N, y)
    BY <2>9, <2>10, <2>11
  <2> QED BY <2>4, <2>12
<1> QED BY <1>1

\* Sums of equal terms, of terms that are not greater, and of terms that are
\* not greater than one number.
LEMMA SumMonotone ==
  ASSUME NEW f, NEW g, NEW S, IsFiniteSet(S), \A x \in S : f[x] \in Nat /\ g[x] \in Nat,
         \A x \in S : f[x] <= g[x]
  PROVE  SumFunctionOnSet(f, S) <= SumFunctionOnSet(g, S)
<1> DEFINE Bad == {N \in SUBSET S : ~(SumFunctionOnSet(f, N) <= SumFunctionOnSet(g, N))}
<1>1. Bad = {}
  <2>1. SUFFICES ASSUME Bad # {} PROVE FALSE
    OBVIOUS
  <2>2. \A N \in SUBSET S : /\ IsFiniteSet(N)
                            /\ SumFunctionOnSet(f, N) \in Nat /\ SumFunctionOnSet(g, N) \in Nat
    BY FS_Subset, SumNat
  <2>3. PICK N \in Bad : \A x \in N : N \ {x} \notin Bad
    <3>1. \A N \in Bad : IsFiniteSet(N)
      BY <2>2
    <3> HIDE DEF Bad
    <3> QED BY <2>1, <3>1, LeastSet, Zenon
  <2>4. CASE N = {}
    BY <2>2, <2>3, <2>4, SumChosen
  <2>5. CASE N # {}
    <3>1. PICK x \in N : TRUE
      BY <2>5
    <3>2. /\ SumFunctionOnSet(f, N) = f[x] + SumFunctionOnSet(f, N \ {x})
          /\ SumFunctionOnSet(g, N) = g[x] + SumFunctionOnSet(g, N \ {x})
      BY <2>2, <2>3, SumRemove
    <3>3. SumFunctionOnSet(f, N \ {x}) <= SumFunctionOnSet(g, N \ {x})
      BY <2>3
    <3>4. /\ f[x] \in Nat /\ g[x] \in Nat /\ f[x] <= g[x]
          /\ SumFunctionOnSet(f, N \ {x}) \in Nat /\ SumFunctionOnSet(g, N \ {x}) \in Nat
      BY <2>2, <2>3
    <3>5. ~(SumFunctionOnSet(f, N) <= SumFunctionOnSet(g, N))
      BY <2>3
    <3> QED BY <3>2, <3>3, <3>4, <3>5
  <2> QED BY <2>4, <2>5
<1> QED BY <1>1

LEMMA SumEqual ==
  ASSUME NEW f, NEW g, NEW S, IsFiniteSet(S), \A x \in S : f[x] \in Nat /\ g[x] \in Nat,
         \A x \in S : f[x] = g[x]
  PROVE  SumFunctionOnSet(f, S) = SumFunctionOnSet(g, S)
<1>1. SumFunctionOnSet(f, S) \in Nat /\ SumFunctionOnSet(g, S) \in Nat
  BY SumNat
<1>2. SumFunctionOnSet(f, S) <= SumFunctionOnSet(g, S)
  BY SumMonotone
<1>3. SumFunctionOnSet(g, S) <= SumFunctionOnSet(f, S)
  BY SumMonotone
<1> QED BY <1>1, <1>2, <1>3

LEMMA SumBounded ==
  ASSUME NEW f, NEW S, IsFiniteSet(S), NEW b \in Nat, \A x \in S : f[x] \in Nat /\ f[x] <= b
  PROVE  SumFunctionOnSet(f, S) <= Cardinality(S) * b
<1> DEFINE Bad == {N \in SUBSET S : ~(SumFunctionOnSet(f, N) <= Cardinality(N) * b)}
<1>1. Bad = {}
  <2>1. SUFFICES ASSUME Bad # {} PROVE FALSE
    OBVIOUS
  <2>2. \A N \in SUBSET S : /\ IsFiniteSet(N) /\ Cardinality(N) \in Nat
                            /\ SumFunctionOnSet(f, N) \in Nat
    BY FS_Subset, FS_CardinalityType, SumNat
  <2>3. PICK N \in Bad : \A x \in N : N \ {x} \notin Bad
    <3>1. \A N \in Bad : IsFiniteSet(N)
      BY <2>2
    <3> HIDE DEF Bad
    <3> QED BY <2>1, <3>1, LeastSet, Zenon
  <2>4. CASE N = {}
    BY <2>2, <2>3, <2>4, SumChosen, FS_EmptySet
  <2>5. CASE N # {}
    <3>1. PICK x \in N : TRUE
      BY <2>5
    <3>2. SumFunctionOnSet(f, N) = f[x] + SumFunctionOnSet(f, N \ {x})
      BY <2>2, <2>3, SumRemove
    <3>3. SumFunctionOnSet(f, N \ {x}) <= Cardinality(N \ {x}) * b
      BY <2>3
    <3>4. Cardinality(N \ {x}) = Cardinality(N) - 1
      BY <2>2, <2>3, FS_RemoveElement
    <3>5. /\ f[x] \in Nat /\ f[x] <= b /\ Cardinality(N \ {x}) \in Nat
          /\ SumFunctionOnSet(f, N \ {x}) \in Nat /\ Cardinality(N) \in Nat
      BY <2>2, <2>3
    <3>6. Cardinality(N) * b = Cardinality(N \ {x}) * b + b
      BY <3>4, <3>5
    <3>7. Cardinality(N \ {x}) * b \in Nat
      BY <3>5
    <3>8. SumFunctionOnSet(f, N) <= Cardinality(N) * b
      BY <3>2, <3>3, <3>5, <3>6, <3>7
    <3> QED BY <2>3, <3>8
  <2> QED BY <2>4, <2>5
<1> QED BY <1>1

LEMMA SumPositive ==
  ASSUME NEW f, NEW S, IsFiniteSet(S), \A x \in S : f[x] \in Nat
  PROVE  SumFunctionOnSet(f, S) > 0 <=> \E x \in S : f[x] > 0
<1>1. ASSUME NEW x \in S, f[x] > 0
      PROVE  SumFunctionOnSet(f, S) > 0
  <2>1. SumFunctionOnSet(f, S) = f[x] + SumFunctionOnSet(f, S \ {x})
    BY SumRemove
  <2>2. SumFunctionOnSet(f, S \ {x}) \in Nat
    BY FS_RemoveElement, SumNat
  <2> QED BY <1>1, <2>1, <2>2
<1>2. ASSUME \A x \in S : ~(f[x] > 0)
      PROVE  ~(SumFunctionOnSet(f, S) > 0)
  <2>1. \A x \in S : f[x] <= 0
    BY <1>2
  <2>2. SumFunctionOnSet(f, S) <= Cardinality(S) * 0
    BY <2>1, SumBounded
  <2>3. Cardinality(S) \in Nat /\ SumFunctionOnSet(f, S) \in Nat
    BY FS_CardinalityType, SumNat
  <2> QED BY <2>2, <2>3
<1> QED BY <1>1, <1>2
-----------------------------------------------------------------------------
(***************************************************************************)
(* sweep_line_partition                                                    *)
(***************************************************************************)

\* The millisecond ms is in the window w.
During(ms, w) == w.start <= ms /\ ms < w.end

Windows == {w \in [start : Nat, end : Nat] : w.start <= w.end}

LEMMA TimeWindows == TimeWindow \subseteq Windows
BY CascadeAssumption DEF TimeWindow, Windows

\* overlap is the intersection.
LEMMA OverlapIsBoth ==
  ASSUME NEW w \in Windows, NEW v \in Windows
  PROVE  /\ overlap(w, v).start \in Nat /\ overlap(w, v).end \in Nat
         /\ Overlaps(w, v) <=> overlap(w, v).start < overlap(w, v).end
         /\ \A ms \in Nat : During(ms, overlap(w, v)) <=> During(ms, w) /\ During(ms, v)
<1> DEFINE s == Max({w.start, v.start})
           e == Min({w.end, v.end})
<1>1. w.start \in Nat /\ v.start \in Nat /\ w.end \in Nat /\ v.end \in Nat
  BY DEF Windows
<1>2. /\ s \in {w.start, v.start} /\ s >= w.start /\ s >= v.start
      /\ e \in {w.end, v.end} /\ e <= w.end /\ e <= v.end
  BY <1>1, MaxMinOfTwo
<1>3. /\ overlap(w, v).start = s /\ overlap(w, v).end = e
      /\ Overlaps(w, v) <=> s < e
  BY DEF overlap, Overlaps
<1> HIDE DEF s, e
<1>4. \A ms \in Nat : During(ms, overlap(w, v)) <=> During(ms, w) /\ During(ms, v)
  BY <1>1, <1>2, <1>3 DEF During
<1> QED BY <1>1, <1>2, <1>3, <1>4

\* What the node waits for in ms, of the waits clipped to the window
At(clipped, ms) == {c.target : c \in {d \in clipped : During(ms, d.window)}}

\* Clipping keeps what the node waits for inside the window, and nothing else.
LEMMA ClippedWaits ==
  ASSUME NEW g, g \subseteq Edge, NEW node, NEW window \in TimeWindow, NEW ms \in Nat
  PROVE  /\ \A c \in Clipped(g, node, window) :
              c.window.start \in Nat /\ c.window.end \in Nat
         /\ At(Clipped(g, node, window), ms) =
              IF During(ms, window)
              THEN {e.dst : e \in {f \in g : /\ f.kind = "Normal" /\ f.src = node
                                             /\ During(ms, f.window)}}
              ELSE {}
<1> DEFINE waits == {f \in Traversed(g) : f.src = node /\ Overlaps(window, f.window)}
           clipped == Clipped(g, node, window)
           clip(e) == [window |-> overlap(window, e.window), target |-> e.dst]
           now == {f \in g : /\ f.kind = "Normal" /\ f.src = node
                             /\ During(ms, f.window)}
<1>1. window \in Windows
  BY TimeWindows
<1>2. ASSUME NEW e \in g
      PROVE  /\ e.window \in Windows
             /\ e \in Traversed(g) <=> e.kind = "Normal"
  BY TimeWindows DEF Edge, Traversed
<1>3. clipped = {clip(e) : e \in waits}
  BY DEF Clipped
<1>4. waits \subseteq g
  BY DEF Traversed
<1>5. ASSUME NEW e \in g
      PROVE  /\ clip(e).window.start \in Nat /\ clip(e).window.end \in Nat
             /\ clip(e).target = e.dst
             /\ During(ms, clip(e).window) <=> During(ms, window) /\ During(ms, e.window)
             /\ During(ms, clip(e).window) => Overlaps(window, e.window)
  <2>1. /\ overlap(window, e.window).start \in Nat /\ overlap(window, e.window).end \in Nat
        /\ Overlaps(window, e.window)
             <=> overlap(window, e.window).start < overlap(window, e.window).end
        /\ During(ms, overlap(window, e.window))
             <=> During(ms, window) /\ During(ms, e.window)
    BY <1>1, <1>2, OverlapIsBoth
  <2>2. clip(e).window = overlap(window, e.window) /\ clip(e).target = e.dst
    OBVIOUS
  <2>3. During(ms, overlap(window, e.window)) => Overlaps(window, e.window)
    BY <2>1 DEF During
  <2> QED BY <2>1, <2>2, <2>3
<1>6. \A c \in clipped : c.window.start \in Nat /\ c.window.end \in Nat
  <2> HIDE DEF clip, waits, clipped
  <2> QED BY <1>3, <1>4, <1>5
<1>7. CASE ~During(ms, window)
  <2>1. \A c \in clipped : ~During(ms, c.window)
    <3> HIDE DEF clip, waits, clipped
    <3> QED BY <1>3, <1>4, <1>5, <1>7
  <2> HIDE DEF clipped
  <2>2. At(clipped, ms) = {}
    BY <2>1 DEF At
  <2> QED BY <1>6, <1>7, <2>2 DEF clipped
<1>8. CASE During(ms, window)
  <2>1. ASSUME NEW t \in At(clipped, ms)
        PROVE  \E e \in now : t = e.dst
    <3>1. PICK c \in clipped : During(ms, c.window) /\ t = c.target
      BY <2>1 DEF At
    <3>2. PICK e \in waits : c = clip(e)
      BY <1>3, <3>1
    <3>3. e \in now
      <4>1. e \in g /\ e \in Traversed(g) /\ e.src = node
        BY <1>4, <3>2
      <4>2. e.kind = "Normal"
        BY <1>2, <4>1
      <4>3. During(ms, e.window)
        BY <1>5, <3>1, <3>2, <4>1
      <4> QED BY <4>1, <4>2, <4>3
    <3> QED BY <1>4, <1>5, <3>1, <3>2, <3>3
  <2>2. ASSUME NEW e \in now
        PROVE  e.dst \in At(clipped, ms)
    <3>1. e \in g /\ e.kind = "Normal" /\ e.src = node /\ During(ms, e.window)
      OBVIOUS
    <3>2. e \in waits
      BY <1>2, <1>5, <1>8, <3>1
    <3>3. clip(e) \in clipped /\ During(ms, clip(e).window) /\ clip(e).target = e.dst
      BY <1>3, <1>5, <1>8, <3>1, <3>2
    <3> HIDE DEF clip, clipped
    <3> QED BY <3>3 DEF At
  <2> HIDE DEF now, clipped
  <2>3. At(clipped, ms) = {e.dst : e \in now}
    BY <2>1, <2>2
  <2> QED BY <1>6, <1>8, <2>3 DEF now, clipped
<1> QED BY <1>7, <1>8

Points(clipped) == UNION {{c.window.start, c.window.end} : c \in clipped}

\* a and b are consecutive points.
Consecutive(points, a, b) ==
  a \in points /\ b \in points /\ a < b /\ \A q \in points : ~(a < q /\ q < b)

Interval(clipped, a, b) ==
  [window |-> [start |-> a, end |-> b], targets |-> Active(clipped, a, b)]

LEMMA PartitionIs ==
  ASSUME NEW g, NEW node, NEW window, NEW i
  PROVE  i \in sweep_line_partition(g, node, window) <=>
           \E a, b : /\ Consecutive(Points(Clipped(g, node, window)), a, b)
                     /\ i = Interval(Clipped(g, node, window), a, b)
                     /\ Active(Clipped(g, node, window), a, b) # {}
<1> DEFINE clipped == Clipped(g, node, window)
           points == Points(clipped)
           pairs == {p \in points \X points : /\ p[1] < p[2]
                                              /\ \A q \in points : ~(p[1] < q /\ q < p[2])}
           found == {Interval(clipped, p[1], p[2]) : p \in pairs}
<1>1. sweep_line_partition(g, node, window) = {j \in found : j.targets # {}}
  BY DEF sweep_line_partition, Points, Interval
<1>2. ASSUME NEW a, NEW b
      PROVE  Consecutive(points, a, b) <=> <<a, b>> \in pairs
  BY DEF Consecutive
<1>3. \A p \in pairs : p = <<p[1], p[2]>>
  OBVIOUS
<1>4. \A a, b : Interval(clipped, a, b).targets = Active(clipped, a, b)
  BY DEF Interval
<1> HIDE DEF pairs, points, clipped
<1>5. i \in found <=> \E a, b : Consecutive(points, a, b) /\ i = Interval(clipped, a, b)
  <2>1. ASSUME i \in found
        PROVE  \E a, b : Consecutive(points, a, b) /\ i = Interval(clipped, a, b)
    <3>1. PICK p \in pairs : i = Interval(clipped, p[1], p[2])
      BY <2>1
    <3>2. Consecutive(points, p[1], p[2])
      BY <1>2, <1>3, <3>1
    <3> QED BY <3>1, <3>2
  <2>2. ASSUME NEW a, NEW b, Consecutive(points, a, b), i = Interval(clipped, a, b)
        PROVE  i \in found
    <3>1. <<a, b>> \in pairs
      BY <1>2, <2>2
    <3>2. i = Interval(clipped, <<a, b>>[1], <<a, b>>[2])
      BY <2>2
    <3> QED BY <3>1, <3>2
  <2> QED BY <2>1, <2>2
<1> HIDE DEF found
<1> QED BY <1>1, <1>4, <1>5 DEF points, clipped

\* Between two consecutive points nothing begins or ends.
LEMMA ActiveIsAt ==
  ASSUME NEW clipped, \A c \in clipped : c.window.start \in Nat /\ c.window.end \in Nat,
         NEW a \in Nat, NEW b \in Nat, Consecutive(Points(clipped), a, b),
         NEW ms \in Nat, a <= ms, ms < b
  PROVE  Active(clipped, a, b) = At(clipped, ms)
<1>1. ASSUME NEW c \in clipped
      PROVE  c.window.start <= a /\ c.window.end >= b <=> During(ms, c.window)
  <2>1. c.window.start \in Points(clipped) /\ c.window.end \in Points(clipped)
    BY DEF Points
  <2>2. ~(a < c.window.start /\ c.window.start < b) /\ ~(a < c.window.end /\ c.window.end < b)
    BY <2>1 DEF Consecutive
  <2> QED BY <2>2 DEF During
<1> QED BY <1>1 DEF Active, At

\* ms is between two consecutive points if anything lasts in it.
LEMMA PointsAround ==
  ASSUME NEW clipped, \A c \in clipped : c.window.start \in Nat /\ c.window.end \in Nat,
         NEW ms \in Nat, At(clipped, ms) # {}
  PROVE  \E a, b \in Nat : Consecutive(Points(clipped), a, b) /\ a <= ms /\ ms < b
<1> DEFINE points == Points(clipped)
           Before == {q \in points : q <= ms}
           After == {q \in points : ms < q}
<1>1. points \subseteq Nat
  BY DEF Points
<1>2. PICK c \in clipped : During(ms, c.window)
  BY DEF At
<1>3. c.window.start \in Before /\ c.window.end \in After
  BY <1>2 DEF Points, During
<1>4. PICK a \in Before : \A q \in Before : q <= a
  <2>1. Before \subseteq Nat /\ Before # {} /\ \A q \in Before : q <= ms
    BY <1>1, <1>3
  <2> HIDE DEF Before
  <2> QED BY <2>1, GreatestNat, Zenon
<1>5. PICK b \in After : \A q \in After : b <= q
  <2>1. After \subseteq Nat /\ After # {}
    BY <1>1, <1>3
  <2> HIDE DEF After
  <2> QED BY <2>1, LeastNat, Zenon
<1> HIDE DEF points
<1>6. /\ a \in Nat /\ b \in Nat /\ a <= ms /\ ms < b
      /\ a \in points /\ b \in points
  BY <1>1, <1>4, <1>5
<1>7. ASSUME NEW q \in points
      PROVE  ~(a < q /\ q < b)
  <2>1. q \in Nat
    BY <1>1
  <2>2. CASE q <= ms
    BY <1>4, <1>6, <2>1, <2>2
  <2>3. CASE ms < q
    BY <1>5, <1>6, <2>1, <2>3
  <2> QED BY <2>1, <2>2, <2>3
<1>8. a < b
  BY <1>6
<1> QED BY <1>6, <1>7, <1>8 DEF Consecutive, points

\* Two intervals that ms is in are one.
LEMMA ConsecutiveOnce ==
  ASSUME NEW points, points \subseteq Nat, NEW ms \in Nat,
         NEW a, NEW b, Consecutive(points, a, b), a <= ms, ms < b,
         NEW c, NEW d, Consecutive(points, c, d), c <= ms, ms < d
  PROVE  a = c /\ b = d
<1>1. a \in Nat /\ b \in Nat /\ c \in Nat /\ d \in Nat
  BY DEF Consecutive
<1>2. ~(a < c /\ c < b) /\ ~(c < a /\ a < d) /\ ~(a < d /\ d < b) /\ ~(c < b /\ b < d)
  BY DEF Consecutive
<1> QED BY <1>1, <1>2

\* The intervals ms is in
Hit(g, node, window, ms) ==
  {i \in sweep_line_partition(g, node, window) :
     i.window.start <= ms /\ ms < i.window.end}

Expected(g, node, window, ms) ==
  IF window.start <= ms /\ ms < window.end
  THEN {e.dst : e \in {f \in g : /\ f.kind = "Normal" /\ f.src = node
                                 /\ f.window.start <= ms /\ ms < f.window.end}}
  ELSE {}

\* The partition of a wait, millisecond by millisecond
LEMMA PartitionIsPointwise ==
  ASSUME NEW g, g \subseteq Edge, NEW node, NEW window \in TimeWindow, NEW ms \in Nat
  PROVE  LET hit == Hit(g, node, window, ms)
             expected == Expected(g, node, window, ms)
         IN  /\ {i.targets : i \in hit} = (IF expected = {} THEN {} ELSE {expected})
             /\ Cardinality(hit) <= 1
<1> DEFINE clipped == Clipped(g, node, window)
           hit == Hit(g, node, window, ms)
           expected == Expected(g, node, window, ms)
<1>1. /\ \A c \in clipped : c.window.start \in Nat /\ c.window.end \in Nat
      /\ At(clipped, ms) = expected
  BY ClippedWaits DEF Expected, During
<1>2. Points(clipped) \subseteq Nat
  BY <1>1 DEF Points
<1>3. ASSUME NEW i
      PROVE  i \in hit <=>
               \E a, b : /\ Consecutive(Points(clipped), a, b) /\ a <= ms /\ ms < b
                         /\ i = Interval(clipped, a, b) /\ Active(clipped, a, b) # {}
  <2>1. \A a, b : /\ Interval(clipped, a, b).window.start = a
                  /\ Interval(clipped, a, b).window.end = b
    BY DEF Interval
  <2>2. i \in sweep_line_partition(g, node, window) <=>
          \E a, b : /\ Consecutive(Points(clipped), a, b)
                    /\ i = Interval(clipped, a, b)
                    /\ Active(clipped, a, b) # {}
    BY PartitionIs
  <2>3. i \in hit <=> /\ i \in sweep_line_partition(g, node, window)
                      /\ i.window.start <= ms /\ ms < i.window.end
    BY DEF Hit
  <2> HIDE DEF clipped, hit
  <2> QED BY <2>1, <2>2, <2>3
<1> HIDE DEF clipped, hit, expected
<1>4. ASSUME NEW i \in hit
      PROVE  i.targets = expected /\ expected # {}
  <2>1. PICK a, b : /\ Consecutive(Points(clipped), a, b) /\ a <= ms /\ ms < b
                    /\ i = Interval(clipped, a, b) /\ Active(clipped, a, b) # {}
    BY <1>3
  <2>2. a \in Nat /\ b \in Nat
    BY <1>2, <2>1 DEF Consecutive
  <2>3. Active(clipped, a, b) = expected
    BY <1>1, <2>1, <2>2, ActiveIsAt
  <2> QED BY <2>1, <2>3 DEF Interval
<1>5. ASSUME NEW i \in hit, NEW j \in hit
      PROVE  i = j
  <2>1. PICK a, b : /\ Consecutive(Points(clipped), a, b) /\ a <= ms /\ ms < b
                    /\ i = Interval(clipped, a, b)
    BY <1>3
  <2>2. PICK c, d : /\ Consecutive(Points(clipped), c, d) /\ c <= ms /\ ms < d
                    /\ j = Interval(clipped, c, d)
    BY <1>3
  <2>3. a = c /\ b = d
    BY <1>2, <2>1, <2>2, ConsecutiveOnce
  <2> QED BY <2>1, <2>2, <2>3
<1>6. ASSUME expected # {}
      PROVE  \E i : i \in hit
  <2>1. PICK a, b \in Nat : Consecutive(Points(clipped), a, b) /\ a <= ms /\ ms < b
    BY <1>1, <1>6, PointsAround
  <2>2. Active(clipped, a, b) # {}
    BY <1>1, <1>6, <2>1, ActiveIsAt
  <2> QED BY <1>3, <2>1, <2>2
<1>7. {i.targets : i \in hit} = (IF expected = {} THEN {} ELSE {expected})
  BY <1>4, <1>6
<1>8. Cardinality(hit) <= 1
  <2>1. CASE hit = {}
    BY <2>1, FS_EmptySet
  <2>2. CASE hit # {}
    <3>1. PICK i \in hit : TRUE
      BY <2>2
    <3>2. hit = {i}
      BY <1>5, <3>1
    <3>3. Cardinality({i}) = 1
      BY FS_Singleton
    <3> QED BY <3>2, <3>3
  <2> QED BY <2>1, <2>2
<1> QED BY <1>7, <1>8 DEF hit, expected
-----------------------------------------------------------------------------
(***************************************************************************)
(* What cascade_engine reads of a graph: the edges it traverses, and the   *)
(* edges it counts waiters by.                                             *)
(***************************************************************************)
PartitionOf(traversed, node, window) ==
  LET clipped == {[window |-> overlap(window, e.window), target |-> e.dst] :
                    e \in {f \in traversed : f.src = node /\ Overlaps(window, f.window)}}
      points == UNION {{c.window.start, c.window.end} : c \in clipped}
      pairs == {p \in points \X points : p[1] < p[2] /\ \A q \in points : ~(p[1] < q /\ q < p[2])}
  IN {i \in {[window |-> [start |-> p[1], end |-> p[2]], targets |-> Active(clipped, p[1], p[2])] : p \in pairs} :
        i.targets # {}}

WaitersOf(waiting, target, window) ==
  LET waiters == {e.src : e \in {f \in waiting : f.dst = target /\ Overlaps(f.window, window)}}
  IN Max({1, Cardinality(waiters)})

\* The call that compute_cascade makes for a target of an interval, what it
\* pushes to that target, and to all of the interval's
ChildCall(call, next, i) ==
  [current |-> next, window |-> i.window, depth |-> call.depth + 1,
   path |-> call.path \union {call.current}]

PushedTo(waiting, C, call, next, i) ==
  Transfer(Absorbed(C[ChildCall(call, next, i)]), Cardinality(i.targets),
           WaitersOf(waiting, next, i.window))

PushedBy(waiting, C, call, i) ==
  SumFunction([next \in i.targets |-> PushedTo(waiting, C, call, next, i)])

\* One call, with the results C of the others
CascadeStep(traversed, waiting, C, call) ==
  LET intervals == PartitionOf(traversed, call.current, call.window)
  IN IF call.depth >= max_depth \/ call.current \in call.path \/ intervals = {}
     THEN [propagated |-> 0, self_blame |-> duration(call.window)]
     ELSE [propagated |-> SumFunction([i \in intervals |-> PushedBy(waiting, C, call, i)]),
           self_blame |-> duration(call.window)
                            - SumFunction([i \in intervals |-> duration(i.window)])]

CascadeOf(traversed, waiting) ==
  CHOOSE C : C = [call \in Call |-> CascadeStep(traversed, waiting, C, call)]

LEMMA CascadeReads ==
  ASSUME NEW g
  PROVE  compute_cascade(g) = CascadeOf(Traversed(g), Waiting(g))
BY DEF compute_cascade, CascadeOf, CascadeStep, PushedBy, PushedTo, ChildCall,
   sweep_line_partition, PartitionOf, Clipped, count_concurrent_waiters, WaitersOf

LEMMA AttributionReads ==
  ASSUME NEW g, NEW h, Traversed(g) = Traversed(h), Waiting(g) = Waiting(h), NEW e
  PROVE  Attribution(g, e) = Attribution(h, e)
<1>1. compute_cascade(g) = compute_cascade(h)
  BY CascadeReads, Zenon
<1>2. Cascaded(g, e) = Cascaded(h, e)
  BY <1>1, Zenon DEF Cascaded
<1> QED BY <1>2, Zenon DEF Attribution
-----------------------------------------------------------------------------
(***************************************************************************)
(* compute_cascade: what a call explains fits in its window.               *)
(***************************************************************************)
LEMMA ClippedInside ==
  ASSUME NEW g, g \subseteq Edge, NEW node, NEW window \in TimeWindow,
         NEW c \in Clipped(g, node, window)
  PROVE  /\ c.window.start \in Nat /\ c.window.end \in Nat
         /\ window.start <= c.window.start /\ c.window.start < c.window.end
         /\ c.window.end <= window.end
         /\ c.target \in Node
<1>1. PICK e \in g : /\ Overlaps(window, e.window)
                     /\ c = [window |-> overlap(window, e.window), target |-> e.dst]
  BY DEF Clipped, Traversed
<1>2. e.window \in Windows /\ window \in Windows /\ e.dst \in Node
  BY TimeWindows DEF Edge
<1>3. window.start \in Nat /\ window.end \in Nat /\ e.window.start \in Nat /\ e.window.end \in Nat
  BY <1>2 DEF Windows
<1> DEFINE s == Max({window.start, e.window.start})
           f == Min({window.end, e.window.end})
<1>4. /\ s \in {window.start, e.window.start} /\ s >= window.start
      /\ f \in {window.end, e.window.end} /\ f <= window.end
  BY <1>3, MaxMinOfTwo
<1>5. c.window.start = s /\ c.window.end = f /\ c.target = e.dst /\ s < f
  BY <1>1 DEF overlap, Overlaps
<1> HIDE DEF s, f
<1> QED BY <1>2, <1>3, <1>4, <1>5

\* The intervals of a partition are parts of the window that do not overlap.
LEMMA PartitionInside ==
  ASSUME NEW g, g \subseteq Edge, NEW node, NEW window \in TimeWindow,
         NEW i \in sweep_line_partition(g, node, window)
  PROVE  /\ i.window \in TimeWindow /\ i.window.start < i.window.end
         /\ window.start <= i.window.start /\ i.window.end <= window.end
         /\ i.window.start \in Nat /\ i.window.end \in Nat
         /\ i.targets \subseteq Node /\ i.targets # {} /\ IsFiniteSet(i.targets)
<1> DEFINE clipped == Clipped(g, node, window)
<1>1. PICK a, b : /\ Consecutive(Points(clipped), a, b)
                  /\ i = Interval(clipped, a, b)
                  /\ Active(clipped, a, b) # {}
  BY PartitionIs
<1>2. \A q \in Points(clipped) : q \in Nat /\ window.start <= q /\ q <= window.end
  <2>1. \A c \in clipped : /\ c.window.start \in Nat /\ c.window.end \in Nat
                           /\ window.start <= c.window.start /\ c.window.start < c.window.end
                           /\ c.window.end <= window.end
    BY ClippedInside
  <2>2. window.start \in Nat /\ window.end \in Nat
    BY TimeWindows DEF Windows
  <2> HIDE DEF clipped
  <2>3. ASSUME NEW c \in clipped, NEW q \in {c.window.start, c.window.end}
        PROVE  q \in Nat /\ window.start <= q /\ q <= window.end
    BY <2>1, <2>2, <2>3
  <2> QED BY <2>3 DEF Points
<1>3. \A c \in clipped : c.target \in Node
  BY ClippedInside
<1>4. window.start \in 0..MaxMs /\ window.end \in 0..MaxMs /\ MaxMs \in Nat
  BY CascadeAssumption DEF TimeWindow
<1> HIDE DEF clipped
<1>5. a \in Points(clipped) /\ b \in Points(clipped) /\ a < b
  BY <1>1 DEF Consecutive
<1>6. /\ a \in Nat /\ b \in Nat /\ window.start <= a /\ b <= window.end
      /\ a \in 0..MaxMs /\ b \in 0..MaxMs
  BY <1>2, <1>4, <1>5
<1>7. i.window = [start |-> a, end |-> b] /\ i.targets = Active(clipped, a, b)
  BY <1>1 DEF Interval
<1>8. i.targets \subseteq Node /\ i.targets # {}
  BY <1>1, <1>3, <1>7 DEF Active
<1>9. IsFiniteSet(Node)
  BY CascadeAssumption, FS_AddElement DEF Node
<1>10. IsFiniteSet(i.targets)
  BY <1>8, <1>9, FS_Subset
<1> QED BY <1>5, <1>6, <1>7, <1>8, <1>10 DEF TimeWindow

LEMMA PartitionDisjoint ==
  ASSUME NEW g, g \subseteq Edge, NEW node, NEW window \in TimeWindow,
         NEW i \in sweep_line_partition(g, node, window),
         NEW j \in sweep_line_partition(g, node, window), i # j
  PROVE  i.window.end <= j.window.start \/ j.window.end <= i.window.start
<1> DEFINE clipped == Clipped(g, node, window)
<1>1. PICK a, b : Consecutive(Points(clipped), a, b) /\ i = Interval(clipped, a, b)
  BY PartitionIs
<1>2. PICK c, d : Consecutive(Points(clipped), c, d) /\ j = Interval(clipped, c, d)
  BY PartitionIs
<1> HIDE DEF clipped
<1>3. i.window.start = a /\ i.window.end = b /\ j.window.start = c /\ j.window.end = d
  BY <1>1, <1>2 DEF Interval
<1>4. a \in Nat /\ b \in Nat /\ c \in Nat /\ d \in Nat
  BY <1>3, PartitionInside
<1>5. /\ a < b /\ c < d /\ ~(a < c /\ c < b) /\ ~(c < a /\ a < d)
      /\ ~(a < d /\ d < b) /\ ~(c < b /\ b < d)
  BY <1>1, <1>2 DEF Consecutive
<1>6. ~(a = c /\ b = d)
  BY <1>1, <1>2
<1> QED BY <1>3, <1>4, <1>5, <1>6

LEMMA PartitionFinite ==
  ASSUME NEW g, g \subseteq Edge, NEW node, NEW window \in TimeWindow
  PROVE  IsFiniteSet(sweep_line_partition(g, node, window))
<1> DEFINE P == sweep_line_partition(g, node, window)
           begin == [i \in P |-> i.window.start]
<1>1. \A i \in P : /\ i.window \in TimeWindow /\ i.window.start \in Nat /\ i.window.end \in Nat
                   /\ i.window.start < i.window.end
  BY PartitionInside
<1>2. \A i, j \in P : i # j => i.window.end <= j.window.start \/ j.window.end <= i.window.start
  BY PartitionDisjoint
<1>3. \A i \in P : i.window.start \in 0..MaxMs
  BY <1>1 DEF TimeWindow
<1> HIDE DEF P
<1>4. \A i, j \in P : i.window.start = j.window.start => i = j
  BY <1>1, <1>2
<1>5. begin \in Injection(P, 0..MaxMs)
  BY <1>3, <1>4 DEF Injection, IsInjective
<1>6. IsFiniteSet(0..MaxMs)
  BY FS_Interval, CascadeAssumption
<1> QED BY <1>5, <1>6, FS_Injection DEF P

\* Together they are not longer than the window.
LEMMA DurationsFit ==
  ASSUME NEW a \in Nat, NEW b \in Nat, a <= b, NEW I, IsFiniteSet(I), NEW f,
         \A i \in I : /\ i.window.start \in Nat /\ i.window.end \in Nat
                      /\ a <= i.window.start /\ i.window.start < i.window.end
                      /\ i.window.end <= b /\ f[i] = i.window.end - i.window.start,
         \A i, j \in I : i # j => i.window.end <= j.window.start \/ j.window.end <= i.window.start
  PROVE  SumFunctionOnSet(f, I) <= b - a
<1> DEFINE Below(N, c) == \A i \in N : i.window.end <= c
           Bad == {N \in SUBSET I : \E c \in Nat : /\ a <= c /\ Below(N, c)
                                                   /\ ~(SumFunctionOnSet(f, N) <= c - a)}
<1>1. \A i \in I : f[i] \in Nat
  OBVIOUS
<1>2. \A N \in SUBSET I : IsFiniteSet(N) /\ SumFunctionOnSet(f, N) \in Nat
  BY <1>1, FS_Subset, SumNat
<1>3. Bad = {}
  <2>1. SUFFICES ASSUME Bad # {} PROVE FALSE
    OBVIOUS
  <2>2. PICK N \in Bad : \A x \in N : N \ {x} \notin Bad
    <3>1. \A N \in Bad : IsFiniteSet(N)
      BY <1>2
    <3> HIDE DEF Bad
    <3> QED BY <2>1, <3>1, LeastSet, Zenon
  <2>3. PICK c \in Nat : a <= c /\ Below(N, c) /\ ~(SumFunctionOnSet(f, N) <= c - a)
    BY <2>2
  <2>4. CASE N = {}
    <3>1. SumFunctionOnSet(f, N) = 0
      BY <1>2, <2>4, SumChosen
    <3> QED BY <2>3, <3>1
  <2>5. CASE N # {}
    <3> DEFINE Starts == {i.window.start : i \in N}
    <3>1. Starts \subseteq Nat /\ Starts # {} /\ \A s \in Starts : s <= b
      BY <2>2, <2>5
    <3>2. PICK s \in Starts : \A r \in Starts : r <= s
      <4> HIDE DEF Starts
      <4> QED BY <3>1, GreatestNat, Zenon
    <3>3. PICK i \in N : i.window.start = s
      BY <3>2
    <3>4. N \subseteq I
      BY <2>2
    <3>5. Below(N \ {i}, i.window.start)
      <4>1. ASSUME NEW j \in N \ {i}
            PROVE  j.window.end <= i.window.start
        <5>1. j.window.start <= i.window.start
          BY <3>2, <3>3
        <5>2. /\ i \in I /\ j \in I /\ i # j
          BY <3>4
        <5> HIDE DEF Bad, Starts
        <5> QED BY <5>1, <5>2
      <4> QED BY <4>1
    <3>6. /\ i.window.start \in Nat /\ i.window.end \in Nat /\ a <= i.window.start
          /\ i.window.start < i.window.end /\ i.window.end <= c
          /\ f[i] = i.window.end - i.window.start
      BY <2>3, <3>4
    <3>7. SumFunctionOnSet(f, N \ {i}) <= i.window.start - a
      BY <2>2, <3>4, <3>5, <3>6
    <3>8. SumFunctionOnSet(f, N) = f[i] + SumFunctionOnSet(f, N \ {i})
      BY <1>1, <1>2, <3>4, SumRemove
    <3>9. SumFunctionOnSet(f, N \ {i}) \in Nat
      BY <1>2, <3>4
    <3> HIDE DEF Bad, Starts
    <3> QED BY <2>3, <3>6, <3>7, <3>8, <3>9
  <2> QED BY <2>4, <2>5
<1> QED BY <1>3

\* What a call reads of the graph, in the words of the model
LEMMA ReadsTheGraph ==
  ASSUME NEW g
  PROVE  /\ \A node, window : PartitionOf(Traversed(g), node, window)
                                = sweep_line_partition(g, node, window)
         /\ \A target, window : WaitersOf(Waiting(g), target, window)
                                  = count_concurrent_waiters(g, target, window)
BY DEF PartitionOf, sweep_line_partition, Clipped, WaitersOf, count_concurrent_waiters

Step(g, C, call) == CascadeStep(Traversed(g), Waiting(g), C, call)

Leaf(g, call) ==
  \/ call.depth >= max_depth \/ call.current \in call.path
  \/ sweep_line_partition(g, call.current, call.window) = {}

LEMMA StepIs ==
  ASSUME NEW g, NEW C, NEW call
  PROVE  LET P == sweep_line_partition(g, call.current, call.window)
         IN  /\ Leaf(g, call) => Step(g, C, call) = [propagated |-> 0, self_blame |-> duration(call.window)]
             /\ ~Leaf(g, call) =>
                  Step(g, C, call) =
                    [propagated |-> SumFunction([i \in P |-> PushedBy(Waiting(g), C, call, i)]),
                     self_blame |-> duration(call.window)
                                      - SumFunction([i \in P |-> duration(i.window)])]
<1> DEFINE P == sweep_line_partition(g, call.current, call.window)
           Q == PartitionOf(Traversed(g), call.current, call.window)
<1>1. Q = P
  BY ReadsTheGraph
<1>2. Step(g, C, call) =
        IF call.depth >= max_depth \/ call.current \in call.path \/ Q = {}
        THEN [propagated |-> 0, self_blame |-> duration(call.window)]
        ELSE [propagated |-> SumFunction([i \in Q |-> PushedBy(Waiting(g), C, call, i)]),
              self_blame |-> duration(call.window)
                               - SumFunction([i \in Q |-> duration(i.window)])]
  BY Zenon DEF Step, CascadeStep
<1>3. Leaf(g, call) <=> call.depth >= max_depth \/ call.current \in call.path \/ P = {}
  BY DEF Leaf
<1> HIDE DEF P, Q
<1>4. Step(g, C, call) =
        IF Leaf(g, call)
        THEN [propagated |-> 0, self_blame |-> duration(call.window)]
        ELSE [propagated |-> SumFunction([i \in P |-> PushedBy(Waiting(g), C, call, i)]),
              self_blame |-> duration(call.window)
                               - SumFunction([i \in P |-> duration(i.window)])]
  BY <1>1, <1>2, <1>3, Zenon
<1> QED BY <1>4, Zenon DEF P

\* The calls a call makes are one deeper, and never too deep.
LEMMA ChildIsCall ==
  ASSUME NEW g, g \subseteq Edge, NEW call \in Call, ~Leaf(g, call),
         NEW i \in sweep_line_partition(g, call.current, call.window), NEW next \in i.targets
  PROVE  /\ ChildCall(call, next, i) \in Call
         /\ ChildCall(call, next, i).depth = call.depth + 1
         /\ ChildCall(call, next, i).window = i.window
<1>1. /\ call.current \in Node /\ call.window \in TimeWindow /\ call.depth \in 1..max_depth
      /\ call.path \in SUBSET Node
  BY DEF Call
<1>2. i.window \in TimeWindow /\ next \in Node
  BY <1>1, PartitionInside
<1>3. call.depth + 1 \in 1..max_depth
  BY <1>1, CascadeAssumption DEF Leaf
<1> QED BY <1>1, <1>2, <1>3 DEF ChildCall, Call

LEMMA StepAgrees ==
  ASSUME NEW g, g \subseteq Edge, NEW call \in Call, NEW C, NEW D,
         \A d \in Call : d.depth = call.depth + 1 => C[d] = D[d]
  PROVE  Step(g, C, call) = Step(g, D, call)
<1> DEFINE P == sweep_line_partition(g, call.current, call.window)
<1>1. CASE Leaf(g, call)
  BY <1>1, StepIs
<1>2. CASE ~Leaf(g, call)
  <2>1. ASSUME NEW i \in P, NEW next \in i.targets
        PROVE  PushedTo(Waiting(g), C, call, next, i) = PushedTo(Waiting(g), D, call, next, i)
    <3>1. C[ChildCall(call, next, i)] = D[ChildCall(call, next, i)]
      BY <1>2, ChildIsCall
    <3> QED BY <3>1, Zenon DEF PushedTo
  <2>2. ASSUME NEW i \in P
        PROVE  PushedBy(Waiting(g), C, call, i) = PushedBy(Waiting(g), D, call, i)
    <3>1. [next \in i.targets |-> PushedTo(Waiting(g), C, call, next, i)]
            = [next \in i.targets |-> PushedTo(Waiting(g), D, call, next, i)]
      BY <2>1
    <3> QED BY <3>1, Zenon DEF PushedBy
  <2> HIDE DEF P
  <2>3. [i \in P |-> PushedBy(Waiting(g), C, call, i)]
          = [i \in P |-> PushedBy(Waiting(g), D, call, i)]
    BY <2>2
  <2>4. \A E : Step(g, E, call) =
                 [propagated |-> SumFunction([i \in P |-> PushedBy(Waiting(g), E, call, i)]),
                  self_blame |-> duration(call.window)
                                   - SumFunction([i \in P |-> duration(i.window)])]
    BY <1>2, StepIs, Zenon DEF P
  <2> QED BY <2>3, <2>4, Zenon
<1> QED BY <1>1, <1>2

\* The recursion of compute_cascade has a solution: solved for the calls that
\* are at most k short of max_depth, it can be solved for those k + 1 short.
LEMMA CascadeExists ==
  ASSUME NEW g, g \subseteq Edge
  PROVE  \A call \in Call : compute_cascade(g)[call] = Step(g, compute_cascade(g), call)
<1> DEFINE Level(call) == max_depth - call.depth
           Solves(C, k) == \A call \in Call : Level(call) <= k => C[call] = Step(g, C, call)
           Solved(k) == \E C : C = [call \in Call |-> C[call]] /\ Solves(C, k)
           T == {k \in Nat : ~Solved(k)}
<1>1. \A call \in Call : /\ Level(call) \in Nat /\ Level(call) <= max_depth
                         /\ \A d \in Call : d.depth = call.depth + 1 => Level(d) # Level(call) /\ Level(d) < Level(call)
  BY CascadeAssumption DEF Call
<1> HIDE DEF Level
<1>2. T = {}
  <2>1. SUFFICES ASSUME T # {} PROVE FALSE
    OBVIOUS
  <2>2. PICK m \in T : \A k \in T : m <= k
    <3>1. T \subseteq Nat
      OBVIOUS
    <3> HIDE DEF T
    <3> QED BY <2>1, <3>1, LeastNat, Zenon
  <2>3. m \in Nat /\ ~Solved(m)
    BY <2>2
  <2>4. PICK C : /\ C = [call \in Call |-> C[call]]
                 /\ \A call \in Call : Level(call) < m => C[call] = Step(g, C, call)
    <3>1. CASE m = 0
      <4> DEFINE C == [call \in Call |-> 0]
      <4>1. C = [call \in Call |-> C[call]]
        OBVIOUS
      <4>2. \A call \in Call : ~(Level(call) < m)
        BY <1>1, <3>1
      <4> HIDE DEF C
      <4> QED BY <4>1, <4>2
    <3>2. CASE m # 0
      <4>1. m - 1 \in Nat /\ m - 1 < m
        BY <2>3, <3>2
      <4>2. Solved(m - 1)
        <5> HIDE DEF Solved
        <5> QED BY <2>2, <2>3, <4>1
      <4>3. PICK C : C = [call \in Call |-> C[call]] /\ Solves(C, m - 1)
        BY <4>2, Zenon
      <4>4. \A call \in Call : Level(call) < m => Level(call) <= m - 1
        BY <1>1, <2>3
      <4> HIDE DEF T, Solved
      <4>5. \A call \in Call : Level(call) < m => C[call] = Step(g, C, call)
        BY <4>3, <4>4, Zenon
      <4> QED BY <4>3, <4>5, Zenon
    <3> QED BY <3>1, <3>2
  <2> DEFINE Here(call) == Step(g, C, call)
             D == [call \in Call |-> IF Level(call) = m THEN Here(call) ELSE C[call]]
  <2>5. ASSUME NEW call \in Call, Level(call) <= m
        PROVE  D[call] = Step(g, D, call)
    <3>1. ASSUME NEW d \in Call, d.depth = call.depth + 1
          PROVE  C[d] = D[d]
      <4>1. Level(d) # m
        <5>1. Level(d) < Level(call) /\ Level(d) \in Nat /\ Level(call) \in Nat
          BY <1>1, <3>1
        <5> HIDE DEF T, Solved, Solves
        <5> QED BY <2>3, <2>5, <5>1
      <4> HIDE DEF Here
      <4> QED BY <4>1
    <3>2. D[call] = Here(call)
      <4>1. CASE Level(call) = m
        <5> HIDE DEF Here
        <5> QED BY <4>1
      <4>2. CASE Level(call) # m
        <5>1. Level(call) < m
          <6>1. Level(call) \in Nat
            BY <1>1
          <6> HIDE DEF T, Solved, Solves
          <6> QED BY <2>3, <2>5, <4>2, <6>1
        <5>2. C[call] = Here(call)
          BY <2>4, <5>1
        <5> HIDE DEF Here
        <5> QED BY <4>2, <5>2
      <4> QED BY <4>1, <4>2
    <3> HIDE DEF D
    <3> QED BY <3>1, <3>2, StepAgrees
  <2>6. D = [call \in Call |-> D[call]]
    OBVIOUS
  <2> HIDE DEF D
  <2>7. Solves(D, m)
    BY <2>5
  <2> HIDE DEF Solves
  <2> QED BY <2>3, <2>6, <2>7, Zenon
<1>3. Solved(max_depth)
  <2>1. max_depth \in Nat
    BY CascadeAssumption
  <2> HIDE DEF Solved
  <2> QED BY <1>2, <2>1
<1>4. PICK C : C = [call \in Call |-> C[call]] /\ Solves(C, max_depth)
  BY <1>3, Zenon
<1>5. \A call \in Call : C[call] = Step(g, C, call)
  BY <1>1, <1>4
<1>6. C = [call \in Call |-> Step(g, C, call)]
  BY <1>4, <1>5
<1> DEFINE table == compute_cascade(g)
<1>7. table = CHOOSE D : D = [call \in Call |-> Step(g, D, call)]
  BY CascadeReads DEF CascadeOf, Step
<1> HIDE DEF table
<1>8. table = [call \in Call |-> Step(g, table, call)]
  BY <1>6, <1>7, Zenon
<1>9. \A call \in Call : table[call] = Step(g, table, call)
  BY <1>8, Zenon
<1> QED BY <1>9 DEF table

\* What a call returns is in proportion to its window.
Fits(r, w) ==
  /\ r.propagated \in Nat /\ r.self_blame \in Nat
  /\ r.propagated + r.self_blame <= duration(w)

Exact(r, w) == r.propagated + r.self_blame = duration(w)

LEMMA DurationNat ==
  ASSUME NEW w \in TimeWindow
  PROVE  duration(w) \in Nat /\ duration(w) = w.end - w.start /\ w.start \in Nat /\ w.end \in Nat
                             /\ w.start <= w.end
BY TimeWindows DEF duration, Windows

LEMMA WaitersCounted ==
  ASSUME NEW g, g \subseteq Edge, NEW target, NEW window
  PROVE  WaitersOf(Waiting(g), target, window) \in Nat \ {0}
<1> DEFINE waiters == {e.src : e \in {f \in Waiting(g) : f.dst = target /\ Overlaps(f.window, window)}}
<1>1. waiters \subseteq Node
  BY DEF Waiting, Edge
<1>2. IsFiniteSet(Node)
  BY CascadeAssumption, FS_AddElement DEF Node
<1>3. Cardinality(waiters) \in Nat
  BY <1>1, <1>2, FS_Subset, FS_CardinalityType
<1>4. WaitersOf(Waiting(g), target, window) = Max({1, Cardinality(waiters)})
  BY DEF WaitersOf
<1> HIDE DEF waiters
<1> QED BY <1>3, <1>4, MaxMinOfTwo

LEMMA TransferFits ==
  ASSUME NEW a \in Nat, NEW d \in Nat, a <= d, NEW n \in Nat \ {0}, NEW w \in Nat \ {0}
  PROVE  Transfer(a, n, w) \in Nat /\ Transfer(a, n, w) <= d \div n
<1>1. a \div n \in Nat /\ a \div n <= d \div n
  OBVIOUS
<1>2. (a \div n) \div w \in Nat /\ (a \div n) \div w <= a \div n
  BY <1>1
<1> QED BY <1>1, <1>2 DEF Transfer

\* What an interval pushes is at most as long as it, and exactly as long if its
\* one target, with one waiter, explains all of it.
LEMMA PushedFits ==
  ASSUME NEW g, g \subseteq Edge, NEW call \in Call, ~Leaf(g, call), NEW C,
         \A d \in Call : d.depth = call.depth + 1 => Fits(C[d], d.window),
         NEW i \in sweep_line_partition(g, call.current, call.window)
  PROVE  /\ PushedBy(Waiting(g), C, call, i) \in Nat
         /\ PushedBy(Waiting(g), C, call, i) <= duration(i.window)
<1> DEFINE to == [next \in i.targets |-> PushedTo(Waiting(g), C, call, next, i)]
           n == Cardinality(i.targets)
           d == duration(i.window)
<1>1. call.window \in TimeWindow
  BY DEF Call
<1>2. i.window \in TimeWindow /\ i.targets # {} /\ IsFiniteSet(i.targets)
  BY <1>1, PartitionInside
<1>3. d \in Nat /\ n \in Nat \ {0}
  BY <1>2, DurationNat, FS_CardinalityType, FS_EmptySet
<1>4. ASSUME NEW next \in i.targets
      PROVE  PushedTo(Waiting(g), C, call, next, i) \in Nat
               /\ PushedTo(Waiting(g), C, call, next, i) <= d \div n
  <2> DEFINE child == C[ChildCall(call, next, i)]
             w == WaitersOf(Waiting(g), next, i.window)
  <2>1. Fits(child, i.window)
    BY ChildIsCall
  <2>2. Absorbed(child) \in Nat /\ Absorbed(child) <= d
    BY <2>1 DEF Fits, Absorbed
  <2>3. w \in Nat \ {0}
    BY WaitersCounted
  <2>4. PushedTo(Waiting(g), C, call, next, i) = Transfer(Absorbed(child), n, w)
    BY DEF PushedTo
  <2> HIDE DEF child, w, n, d
  <2> QED BY <1>3, <2>2, <2>3, <2>4, TransferFits
<1>5. PushedBy(Waiting(g), C, call, i) = SumFunctionOnSet(to, i.targets)
  BY DEF PushedBy, SumFunction
<1>6. \A next \in i.targets : to[next] \in Nat /\ to[next] <= d \div n
  BY <1>4
<1> HIDE DEF to, n, d
<1>7. d \div n \in Nat /\ n * (d \div n) <= d /\ n * (d \div n) \in Nat
  BY <1>3
<1>8. SumFunctionOnSet(to, i.targets) \in Nat /\ SumFunctionOnSet(to, i.targets) <= n * (d \div n)
  BY <1>2, <1>6, <1>7, SumNat, SumBounded DEF n
<1>9. SumFunctionOnSet(to, i.targets) <= d
  BY <1>3, <1>7, <1>8
<1> QED BY <1>5, <1>8, <1>9 DEF d

LEMMA StepFits ==
  ASSUME NEW g, g \subseteq Edge, NEW call \in Call, NEW C,
         \A d \in Call : d.depth = call.depth + 1 => Fits(C[d], d.window)
  PROVE  Fits(Step(g, C, call), call.window)
<1> DEFINE P == sweep_line_partition(g, call.current, call.window)
           pushed == [i \in P |-> PushedBy(Waiting(g), C, call, i)]
           lasts == [i \in P |-> duration(i.window)]
<1>1. /\ call.window \in TimeWindow /\ duration(call.window) \in Nat
      /\ duration(call.window) = call.window.end - call.window.start
      /\ call.window.start \in Nat /\ call.window.end \in Nat /\ call.window.start <= call.window.end
  BY DurationNat DEF Call
<1>2. CASE Leaf(g, call)
  <2>1. Step(g, C, call) = [propagated |-> 0, self_blame |-> duration(call.window)]
    BY <1>2, StepIs, Zenon
  <2>2. Step(g, C, call).propagated = 0 /\ Step(g, C, call).self_blame = duration(call.window)
    BY <2>1
  <2> QED BY <1>1, <2>2 DEF Fits
<1>3. CASE ~Leaf(g, call)
  <2>1. Step(g, C, call) = [propagated |-> SumFunction(pushed),
                            self_blame |-> duration(call.window) - SumFunction(lasts)]
    BY <1>3, StepIs, Zenon
  <2>2. IsFiniteSet(P)
    BY <1>1, PartitionFinite
  <2>3. \A i \in P : /\ i.window.start \in Nat /\ i.window.end \in Nat
                     /\ call.window.start <= i.window.start /\ i.window.start < i.window.end
                     /\ i.window.end <= call.window.end
    BY <1>1, PartitionInside
  <2>4. \A i, j \in P : i # j => i.window.end <= j.window.start \/ j.window.end <= i.window.start
    BY <1>1, PartitionDisjoint
  <2>5. \A i \in P : pushed[i] \in Nat /\ pushed[i] <= duration(i.window)
    BY <1>3, PushedFits
  <2>6. SumFunction(pushed) = SumFunctionOnSet(pushed, P) /\ SumFunction(lasts) = SumFunctionOnSet(lasts, P)
    BY DEF SumFunction
  <2>7. \A i \in P : lasts[i] = i.window.end - i.window.start
    BY DEF duration
  <2>8. \A i \in P : lasts[i] \in Nat /\ pushed[i] <= lasts[i]
    BY <2>3, <2>5, <2>7
  <2> HIDE DEF P, pushed, lasts
  <2>9. SumFunctionOnSet(pushed, P) \in Nat /\ SumFunctionOnSet(lasts, P) \in Nat
    BY <2>2, <2>5, <2>8, SumNat
  <2>10. SumFunctionOnSet(pushed, P) <= SumFunctionOnSet(lasts, P)
    BY <2>2, <2>5, <2>8, SumMonotone
  <2>11. SumFunctionOnSet(lasts, P) <= call.window.end - call.window.start
    BY <1>1, <2>2, <2>3, <2>4, <2>7, DurationsFit
  <2> DEFINE x == SumFunctionOnSet(pushed, P)
             y == SumFunctionOnSet(lasts, P)
             z == duration(call.window)
  <2>12. /\ Step(g, C, call).propagated = x /\ Step(g, C, call).self_blame = z - y
    BY <2>1, <2>6
  <2>13. x \in Nat /\ y \in Nat /\ z \in Nat /\ x <= y /\ y <= z
    BY <1>1, <2>9, <2>10, <2>11
  <2> HIDE DEF x, y, z
  <2>14. z - y \in Nat /\ x + (z - y) <= z
    BY <2>13
  <2> QED BY <2>12, <2>13, <2>14 DEF Fits, z
<1> QED BY <1>2, <1>3

LEMMA CascadeFits ==
  ASSUME NEW g, g \subseteq Edge
  PROVE  \A call \in Call : Fits(compute_cascade(g)[call], call.window)
<1> DEFINE C == compute_cascade(g)
           Bad == {call \in Call : ~Fits(C[call], call.window)}
           Levels == {max_depth - call.depth : call \in Bad}
<1>1. \A call \in Call : max_depth - call.depth \in Nat
  BY CascadeAssumption DEF Call
<1>2. \A call \in Call : C[call] = Step(g, C, call)
  BY CascadeExists
<1> HIDE DEF C
<1>3. Bad = {}
  <2>1. SUFFICES ASSUME Bad # {} PROVE FALSE
    OBVIOUS
  <2>2. PICK m \in Levels : \A k \in Levels : m <= k
    <3>1. Levels \subseteq Nat /\ Levels # {}
      BY <1>1, <2>1
    <3> HIDE DEF Levels
    <3> QED BY <3>1, LeastNat, Zenon
  <2>3. PICK call \in Bad : m = max_depth - call.depth
    BY <2>2
  <2>4. ASSUME NEW d \in Call, d.depth = call.depth + 1
        PROVE  Fits(C[d], d.window)
    <3>1. SUFFICES ASSUME d \in Bad PROVE FALSE
      OBVIOUS
    <3>2. max_depth - d.depth \in Levels
      BY <3>1
    <3>3. max_depth - call.depth <= max_depth - d.depth
      <4> HIDE DEF Levels
      <4> QED BY <2>2, <2>3, <3>2
    <3> QED BY <2>3, <2>4, <3>3, CascadeAssumption DEF Call
  <2>5. call \in Call /\ ~Fits(C[call], call.window)
    BY <2>3
  <2>6. Fits(Step(g, C, call), call.window)
    BY <2>4, <2>5, StepFits
  <2> QED BY <1>2, <2>5, <2>6
<1> QED BY <1>3 DEF C

\* When nothing is scaled, it is exactly the window.
UnscaledIn(g) ==
  \A e, f \in {h \in g : h.kind = "Normal"} :
    Overlaps(e.window, f.window) => (e.src = f.src <=> e.dst = f.dst)

LEMMA OverlapsIff ==
  ASSUME NEW w \in Windows, NEW v \in Windows
  PROVE  Overlaps(w, v) <=> /\ w.start < w.end /\ v.start < v.end
                            /\ w.start < v.end /\ v.start < w.end
<1>1. w.start \in Nat /\ v.start \in Nat /\ w.end \in Nat /\ v.end \in Nat
  BY DEF Windows
<1> DEFINE s == Max({w.start, v.start})
           e == Min({w.end, v.end})
<1>2. /\ s \in {w.start, v.start} /\ s >= w.start /\ s >= v.start
      /\ e \in {w.end, v.end} /\ e <= w.end /\ e <= v.end
  BY <1>1, MaxMinOfTwo
<1>3. Overlaps(w, v) <=> s < e
  BY DEF Overlaps
<1> HIDE DEF s, e
<1> QED BY <1>1, <1>2, <1>3

\* A target of an interval is waited for during all of it.
LEMMA IntervalWait ==
  ASSUME NEW g, g \subseteq Edge, NEW node, NEW window \in TimeWindow,
         NEW i \in sweep_line_partition(g, node, window), NEW t \in i.targets
  PROVE  \E e \in g : /\ e.kind = "Normal" /\ e.src = node /\ e.dst = t
                      /\ e.window.start <= i.window.start /\ i.window.end <= e.window.end
<1> DEFINE clipped == Clipped(g, node, window)
<1>1. PICK a, b : Consecutive(Points(clipped), a, b) /\ i = Interval(clipped, a, b)
  BY PartitionIs
<1>2. i.window.start = a /\ i.window.end = b /\ i.targets = Active(clipped, a, b)
  BY <1>1 DEF Interval
<1>3. a \in Nat /\ b \in Nat
  BY <1>2, PartitionInside
<1>4. PICK c \in clipped : c.target = t /\ c.window.start <= a /\ c.window.end >= b
  BY <1>2 DEF Active
<1>5. PICK e \in g : /\ e \in Traversed(g) /\ e.src = node
                     /\ c = [window |-> overlap(window, e.window), target |-> e.dst]
  BY <1>4 DEF Clipped, Traversed
<1>6. e.kind = "Normal" /\ e.dst = t
  BY <1>4, <1>5 DEF Traversed, Edge
<1>7. e.window \in Windows /\ window \in Windows
  BY TimeWindows DEF Edge
<1>8. window.start \in Nat /\ window.end \in Nat /\ e.window.start \in Nat /\ e.window.end \in Nat
  BY <1>7 DEF Windows
<1> DEFINE s == Max({window.start, e.window.start})
           f == Min({window.end, e.window.end})
<1>9. s \in Nat /\ f \in Nat /\ s >= e.window.start /\ f <= e.window.end
  BY <1>8, MaxMinOfTwo
<1>10. c.window.start = s /\ c.window.end = f
  BY <1>5 DEF overlap
<1> HIDE DEF s, f
<1>11. e.window.start <= a /\ b <= e.window.end
  BY <1>3, <1>4, <1>8, <1>9, <1>10
<1> QED BY <1>2, <1>5, <1>6, <1>11

LEMMA OneTargetOneWaiter ==
  ASSUME NEW g, g \subseteq Edge, UnscaledIn(g), NEW node, NEW window \in TimeWindow,
         NEW i \in sweep_line_partition(g, node, window), NEW t \in i.targets
  PROVE  i.targets = {t} /\ WaitersOf(Waiting(g), t, i.window) = 1
<1>1. /\ i.window \in TimeWindow /\ i.window.start < i.window.end
      /\ i.window.start \in Nat /\ i.window.end \in Nat
  BY PartitionInside
<1>2. i.window \in Windows /\ \A e \in g : e.window \in Windows
  BY <1>1, TimeWindows DEF Edge
<1>3. PICK e \in g : /\ e.kind = "Normal" /\ e.src = node /\ e.dst = t
                     /\ e.window.start <= i.window.start /\ i.window.end <= e.window.end
  BY IntervalWait
<1>4. e.window.start \in Nat /\ e.window.end \in Nat
  BY <1>2 DEF Windows
<1>5. ASSUME NEW u \in i.targets
      PROVE  u = t
  <2>1. PICK f \in g : /\ f.kind = "Normal" /\ f.src = node /\ f.dst = u
                       /\ f.window.start <= i.window.start /\ i.window.end <= f.window.end
    BY IntervalWait
  <2>2. f.window.start \in Nat /\ f.window.end \in Nat
    BY <1>2 DEF Windows
  <2>3. Overlaps(e.window, f.window)
    BY <1>1, <1>2, <1>3, <1>4, <2>1, <2>2, OverlapsIff
  <2> QED BY <1>3, <2>1, <2>3 DEF UnscaledIn
<1> DEFINE waiters == {f.src : f \in {h \in Waiting(g) : h.dst = t /\ Overlaps(h.window, i.window)}}
<1>6. node \in waiters
  <2>1. e \in Waiting(g)
    BY <1>3 DEF Waiting
  <2>2. Overlaps(e.window, i.window)
    BY <1>1, <1>2, <1>3, <1>4, OverlapsIff
  <2> QED BY <1>3, <2>1, <2>2
<1>7. ASSUME NEW f \in Waiting(g), f.dst = t, Overlaps(f.window, i.window)
      PROVE  f.src = node
  <2>1. f \in g /\ f.kind = "Normal"
    BY DEF Waiting, Edge
  <2>2. f.window.start \in Nat /\ f.window.end \in Nat
    BY <1>2, <2>1 DEF Windows
  <2>3. /\ f.window.start < f.window.end /\ f.window.start < i.window.end
        /\ i.window.start < f.window.end
    BY <1>2, <1>7, <2>1, OverlapsIff
  <2>4. Overlaps(e.window, f.window)
    BY <1>1, <1>2, <1>3, <1>4, <2>1, <2>2, <2>3, OverlapsIff
  <2> QED BY <1>3, <1>7, <2>1, <2>4 DEF UnscaledIn
<1>8. waiters = {node}
  BY <1>6, <1>7
<1>9. Cardinality(waiters) = 1
  BY <1>8, FS_Singleton
<1>10. WaitersOf(Waiting(g), t, i.window) = Max({1, Cardinality(waiters)})
  BY DEF WaitersOf
<1> HIDE DEF waiters
<1>11. WaitersOf(Waiting(g), t, i.window) = 1
  BY <1>9, <1>10, MaxMinOfTwo
<1> QED BY <1>5, <1>11

LEMMA StepExact ==
  ASSUME NEW g, g \subseteq Edge, UnscaledIn(g), NEW call \in Call, NEW C,
         \A d \in Call : d.depth = call.depth + 1 => Fits(C[d], d.window) /\ Exact(C[d], d.window)
  PROVE  Exact(Step(g, C, call), call.window)
<1> DEFINE P == sweep_line_partition(g, call.current, call.window)
           pushed == [i \in P |-> PushedBy(Waiting(g), C, call, i)]
           lasts == [i \in P |-> duration(i.window)]
<1>1. call.window \in TimeWindow /\ duration(call.window) \in Nat
  BY DurationNat DEF Call
<1>2. CASE Leaf(g, call)
  <2>1. Step(g, C, call) = [propagated |-> 0, self_blame |-> duration(call.window)]
    BY <1>2, StepIs, Zenon
  <2>2. Step(g, C, call).propagated = 0 /\ Step(g, C, call).self_blame = duration(call.window)
    BY <2>1
  <2> QED BY <1>1, <2>2 DEF Exact
<1>3. CASE ~Leaf(g, call)
  <2>1. Step(g, C, call) = [propagated |-> SumFunction(pushed),
                            self_blame |-> duration(call.window) - SumFunction(lasts)]
    BY <1>3, StepIs, Zenon
  <2>2. ASSUME NEW i \in P
        PROVE  duration(i.window) \in Nat /\ PushedBy(Waiting(g), C, call, i) = duration(i.window)
    <3> DEFINE to == [next \in i.targets |-> PushedTo(Waiting(g), C, call, next, i)]
    <3>1. i.window \in TimeWindow /\ i.targets # {}
      BY <1>1, PartitionInside
    <3>2. duration(i.window) \in Nat
      BY <3>1, DurationNat
    <3>3. PICK t \in i.targets : TRUE
      BY <3>1
    <3>4. i.targets = {t} /\ WaitersOf(Waiting(g), t, i.window) = 1
      BY <1>1, OneTargetOneWaiter
    <3>5. Cardinality(i.targets) = 1
      BY <3>4, FS_Singleton
    <3>6. Absorbed(C[ChildCall(call, t, i)]) = duration(i.window)
      BY <1>3, ChildIsCall DEF Exact, Absorbed
    <3>7. PushedTo(Waiting(g), C, call, t, i) = Transfer(duration(i.window), 1, 1)
      BY <3>4, <3>5, <3>6 DEF PushedTo
    <3>8. Transfer(duration(i.window), 1, 1) = duration(i.window)
      BY <3>2 DEF Transfer
    <3>9. \A x \in {t} : to[x] \in Nat
      BY <3>2, <3>3, <3>7, <3>8
    <3>10. PushedBy(Waiting(g), C, call, i) = SumFunctionOnSet(to, {t})
      BY <3>4 DEF PushedBy, SumFunction
    <3>11. to[t] = duration(i.window)
      BY <3>7, <3>8
    <3> HIDE DEF to
    <3>12. IsFiniteSet({t}) /\ {t} \ {t} = {}
      BY FS_Singleton
    <3>13. SumFunctionOnSet(to, {t}) = to[t] + SumFunctionOnSet(to, {t} \ {t})
      BY <3>9, <3>12, SumRemove
    <3>14. SumFunctionOnSet(to, {}) = 0
      BY <3>12, SumChosen
    <3> QED BY <3>2, <3>10, <3>11, <3>12, <3>13, <3>14
  <2>3. pushed = lasts
    BY <2>2
  <2>4. SumFunction(lasts) \in Nat
    <3>1. IsFiniteSet(P)
      BY <1>1, PartitionFinite
    <3>2. \A i \in P : lasts[i] \in Nat
      BY <2>2
    <3>3. DOMAIN lasts = P
      OBVIOUS
    <3> HIDE DEF P, lasts
    <3> QED BY <3>1, <3>2, <3>3, SumNat DEF SumFunction
  <2> HIDE DEF pushed, lasts
  <2>5. /\ Step(g, C, call).propagated = SumFunction(lasts)
        /\ Step(g, C, call).self_blame = duration(call.window) - SumFunction(lasts)
    BY <2>1, <2>3
  <2> QED BY <1>1, <2>4, <2>5 DEF Exact
<1> QED BY <1>2, <1>3

LEMMA CascadeExact ==
  ASSUME NEW g, g \subseteq Edge, UnscaledIn(g)
  PROVE  \A call \in Call : Exact(compute_cascade(g)[call], call.window)
<1> DEFINE C == compute_cascade(g)
           Bad == {call \in Call : ~Exact(C[call], call.window)}
           Levels == {max_depth - call.depth : call \in Bad}
<1>1. \A call \in Call : max_depth - call.depth \in Nat
  BY CascadeAssumption DEF Call
<1>2. \A call \in Call : C[call] = Step(g, C, call) /\ Fits(C[call], call.window)
  BY CascadeExists, CascadeFits
<1> HIDE DEF C
<1>3. Bad = {}
  <2>1. SUFFICES ASSUME Bad # {} PROVE FALSE
    OBVIOUS
  <2>2. PICK m \in Levels : \A k \in Levels : m <= k
    <3>1. Levels \subseteq Nat /\ Levels # {}
      BY <1>1, <2>1
    <3> HIDE DEF Levels
    <3> QED BY <3>1, LeastNat, Zenon
  <2>3. PICK call \in Bad : m = max_depth - call.depth
    BY <2>2
  <2>4. ASSUME NEW d \in Call, d.depth = call.depth + 1
        PROVE  Exact(C[d], d.window)
    <3>1. SUFFICES ASSUME d \in Bad PROVE FALSE
      OBVIOUS
    <3>2. max_depth - d.depth \in Levels
      BY <3>1
    <3>3. max_depth - call.depth <= max_depth - d.depth
      <4> HIDE DEF Levels
      <4> QED BY <2>2, <2>3, <3>2
    <3> QED BY <2>3, <2>4, <3>3, CascadeAssumption DEF Call
  <2>5. call \in Call /\ ~Exact(C[call], call.window)
    BY <2>3
  <2>6. Exact(Step(g, C, call), call.window)
    BY <1>2, <2>4, <2>5, StepExact
  <2> QED BY <1>2, <2>5, <2>6
<1> QED BY <1>3 DEF C

\* The call for an edge is a call, so that the engine attributes a wait no more
\* than it lasted, and all of it if nothing was pushed on.
LEMMA EdgeCall ==
  ASSUME NEW g, g \subseteq Edge, NEW e \in Edge
  PROVE  /\ [current |-> e.dst, window |-> e.window, depth |-> 1, path |-> {e.src}] \in Call
         /\ Fits(Cascaded(g, e), e.window)
         /\ Attribution(g, e) = duration(e.window) - Cascaded(g, e).propagated
         /\ UnscaledIn(g) => Exact(Cascaded(g, e), e.window)
<1> DEFINE call == [current |-> e.dst, window |-> e.window, depth |-> 1, path |-> {e.src}]
<1>1. call \in Call /\ call.window = e.window
  BY CascadeAssumption DEF Call, Edge
<1>2. Cascaded(g, e) = compute_cascade(g)[call]
  BY DEF Cascaded
<1> HIDE DEF call
<1>3. Fits(Cascaded(g, e), e.window)
  BY <1>1, <1>2, CascadeFits
<1>4. UnscaledIn(g) => Exact(Cascaded(g, e), e.window)
  BY <1>1, <1>2, CascadeExact
<1> DEFINE d == duration(e.window)
           p == Cascaded(g, e).propagated
           b == Cascaded(g, e).self_blame
<1>5. d \in Nat
  BY DurationNat DEF Edge
<1>6. p \in Nat /\ b \in Nat /\ p + b <= d
  BY <1>3 DEF Fits
<1>7. Attribution(g, e) = d - Min({d, p})
  BY DEF Attribution
<1> HIDE DEF d, p, b
<1>8. Min({d, p}) \in {d, p} /\ Min({d, p}) <= p /\ p <= d
  BY <1>5, <1>6, MaxMinOfTwo
<1>9. Min({d, p}) = p
  BY <1>5, <1>6, <1>8
<1> QED BY <1>1, <1>3, <1>4, <1>7, <1>9 DEF call, d, p
-----------------------------------------------------------------------------
(***************************************************************************)
(* Reachability and the super-nodes                                        *)
(***************************************************************************)
\* Reach is reflexive and transitive, and holds the edges.
LEMMA ReachCloses ==
  ASSUME NEW g, g.edge \subseteq g.node \X g.node
  PROVE  /\ \A t \in g.node : t \in Reach(g, t)
         /\ \A t \in g.node : Reach(g, t) \subseteq g.node /\ Closed(g, Reach(g, t))
         /\ \A t, u \in g.node : u \in Reach(g, t) => Reach(g, u) \subseteq Reach(g, t)
         /\ \A t, u \in g.node : <<t, u>> \in g.edge => u \in Reach(g, t)
<1>1. \A t \in g.node : t \in Reach(g, t) /\ Reach(g, t) \subseteq g.node
  BY DEF Reach
<1>2. ASSUME NEW t \in g.node
      PROVE  Closed(g, Reach(g, t))
  <2>1. ASSUME NEW p \in g.edge, p[1] \in Reach(g, t)
        PROVE  p[2] \in Reach(g, t)
    <3>1. p[2] \in g.node
      OBVIOUS
    <3>2. ASSUME NEW s \in SUBSET g.node, t \in s, Closed(g, s)
          PROVE  p[2] \in s
      <4>1. p[1] \in s
        BY <2>1, <3>2 DEF Reach
      <4> QED BY <3>2, <4>1 DEF Closed
    <3> QED BY <3>1, <3>2 DEF Reach
  <2> QED BY <2>1 DEF Closed
<1>3. ASSUME NEW t \in g.node, NEW u \in g.node, u \in Reach(g, t)
      PROVE  Reach(g, u) \subseteq Reach(g, t)
  <2>1. Reach(g, t) \in SUBSET g.node /\ Closed(g, Reach(g, t))
    BY <1>1, <1>2
  <2>2. ASSUME NEW v \in Reach(g, u)
        PROVE  v \in Reach(g, t)
    <3>1. \A s \in SUBSET g.node : u \in s /\ Closed(g, s) => v \in s
      BY DEF Reach
    <3> QED BY <1>3, <2>1, <3>1
  <2> QED BY <2>2
<1>4. ASSUME NEW t \in g.node, NEW u \in g.node, <<t, u>> \in g.edge
      PROVE  u \in Reach(g, t)
  BY <1>1, <1>2, <1>4 DEF Closed
<1> QED BY <1>1, <1>2, <1>3, <1>4

\* The super-node of t
Same(g, t) == {u \in g.node : u \in Reach(g, t) /\ t \in Reach(g, u)}

\* The super-nodes partition the nodes.
LEMMA SuperNodes ==
  ASSUME NEW g, g.edge \subseteq g.node \X g.node
  PROVE  /\ tarjan_scc(g) = {Same(g, t) : t \in g.node}
         /\ \A t \in g.node : t \in Same(g, t) /\ Same(g, t) \in tarjan_scc(g)
         /\ \A s \in tarjan_scc(g) : s \subseteq g.node /\ s # {} /\ \A t \in s : s = Same(g, t)
<1> DEFINE reach == [t \in g.node |-> Reach(g, t)]
<1>1. \A t \in g.node : {u \in g.node : u \in reach[t] /\ t \in reach[u]} = Same(g, t)
  BY DEF Same
<1>2. tarjan_scc(g) = {Same(g, t) : t \in g.node}
  BY <1>1 DEF tarjan_scc
<1>3. \A t \in g.node : t \in Same(g, t)
  BY ReachCloses DEF Same
<1>4. ASSUME NEW t \in g.node, NEW u \in Same(g, t)
      PROVE  Same(g, t) = Same(g, u)
  <2>1. u \in g.node /\ u \in Reach(g, t) /\ t \in Reach(g, u)
    BY DEF Same
  <2>2. Reach(g, u) = Reach(g, t)
    BY <2>1, ReachCloses
  <2>3. \A v \in g.node : t \in Reach(g, v) <=> u \in Reach(g, v)
    BY <2>1, ReachCloses
  <2> QED BY <2>2, <2>3 DEF Same
<1>5. \A t \in g.node : Same(g, t) \subseteq g.node
  BY DEF Same
<1> QED BY <1>2, <1>3, <1>4, <1>5

\* A DAG edge leads from each of its members to each of the other end's, and
\* never back.
LEMMA CrossLeads ==
  ASSUME graph \subseteq Edge, NEW p \in Cross(tarjan_scc(Wfg))
  PROVE  /\ p[1] \in tarjan_scc(Wfg) /\ p[2] \in tarjan_scc(Wfg) /\ p[1] # p[2]
         /\ \A t \in p[1], u \in p[2] : u \in Reach(Wfg, t) /\ t \notin Reach(Wfg, u)
<1> DEFINE sccs == tarjan_scc(Wfg)
<1>1. Wfg.edge \subseteq Wfg.node \X Wfg.node
  BY DEF Wfg
<1>2. /\ p[1] \in sccs /\ p[2] \in sccs /\ p[1] # p[2]
  BY DEF Cross
<1>3. PICK e \in graph : e.src \in p[1] /\ e.dst \in p[2]
  BY DEF Cross, Joining
<1>4. e.src \in Wfg.node /\ e.dst \in Wfg.node /\ <<e.src, e.dst>> \in Wfg.edge
  BY DEF Wfg
<1>5. e.dst \in Reach(Wfg, e.src)
  BY <1>1, <1>4, ReachCloses
<1>6. ASSUME NEW t \in p[1], NEW u \in p[2]
      PROVE  u \in Reach(Wfg, t) /\ t \notin Reach(Wfg, u)
  <2>1. /\ t \in Wfg.node /\ u \in Wfg.node
        /\ p[1] = Same(Wfg, t) /\ p[2] = Same(Wfg, u)
    BY <1>1, <1>2, SuperNodes
  <2>2. e.src \in Reach(Wfg, t) /\ u \in Reach(Wfg, e.dst)
    BY <1>3, <2>1 DEF Same
  <2>3. u \in Reach(Wfg, t)
    BY <1>1, <1>4, <1>5, <2>1, <2>2, ReachCloses
  <2>4. t \in Reach(Wfg, u) => u \in Same(Wfg, t)
    BY <2>1, <2>3 DEF Same
  <2>5. u \in Same(Wfg, t) => p[1] = p[2]
    BY <1>1, <1>2, <2>1, SuperNodes
  <2> QED BY <1>2, <2>3, <2>4, <2>5
<1> QED BY <1>2, <1>6

LEMMA SuperNodesFinite ==
  ASSUME graph \subseteq Edge
  PROVE  IsFiniteSet(Wfg.node) /\ IsFiniteSet(tarjan_scc(Wfg))
<1>1. Wfg.node \subseteq Node
  BY DEF Wfg, Edge
<1>2. IsFiniteSet(Node)
  BY CascadeAssumption, FS_AddElement DEF Node
<1>3. IsFiniteSet(Wfg.node)
  BY <1>1, <1>2, FS_Subset
<1>4. tarjan_scc(Wfg) \subseteq SUBSET Wfg.node
  BY SuperNodes DEF Wfg
<1>5. IsFiniteSet(SUBSET Wfg.node)
  BY <1>3, FS_SUBSET
<1> QED BY <1>3, <1>4, <1>5, FS_Subset

\* The DAG has no cycle: of any super-nodes, some have no predecessor among
\* them.
LEMMA CondensationIsAcyclic ==
  ASSUME graph \subseteq Edge, NEW some, some \subseteq tarjan_scc(Wfg), some # {}
  PROVE  \E v \in some : \A p \in Cross(tarjan_scc(Wfg)) : p[2] = v => p[1] \notin some
<1> DEFINE Leads(s, d) == \E t \in s, u \in d : u \in Reach(Wfg, t)
           Before(d) == {s \in some : Leads(s, d)}
           Sizes == {Cardinality(Before(d)) : d \in some}
<1>1. Wfg.edge \subseteq Wfg.node \X Wfg.node
  BY DEF Wfg
<1>2. IsFiniteSet(some)
  BY SuperNodesFinite, FS_Subset
<1>3. \A d : IsFiniteSet(Before(d)) /\ Cardinality(Before(d)) \in Nat
  BY <1>2, FS_Subset, FS_CardinalityType
<1>4. \A s \in some : s # {} /\ s \subseteq Wfg.node /\ \A t \in s : s = Same(Wfg, t)
  BY <1>1, SuperNodes
<1>5. PICK v \in some : \A d \in some : Cardinality(Before(v)) <= Cardinality(Before(d))
  <2>1. Sizes \subseteq Nat /\ Sizes # {}
    BY <1>3
  <2>2. PICK n \in Sizes : \A k \in Sizes : n <= k
    <3> HIDE DEF Sizes
    <3> QED BY <2>1, LeastNat, Zenon
  <2>3. PICK d \in some : n = Cardinality(Before(d))
    BY <2>2
  <2>4. \A c \in some : Cardinality(Before(c)) \in Sizes
    OBVIOUS
  <2> HIDE DEF Before, Sizes
  <2> QED BY <2>2, <2>3, <2>4
<1>6. ASSUME NEW p \in Cross(tarjan_scc(Wfg)), p[2] = v, p[1] \in some
      PROVE  FALSE
  <2>1. \A t \in p[1], u \in v : u \in Reach(Wfg, t) /\ t \notin Reach(Wfg, u)
    BY <1>6, CrossLeads
  <2>2. ASSUME NEW s \in some, Leads(s, p[1])
        PROVE  Leads(s, v)
    <3>1. PICK t \in s, u \in p[1] : u \in Reach(Wfg, t)
      BY <2>2
    <3>2. PICK w \in v : TRUE
      BY <1>4
    <3>3. w \in Reach(Wfg, u)
      BY <2>1
    <3>4. t \in Wfg.node /\ u \in Wfg.node
      BY <1>4, <1>6
    <3>5. w \in Reach(Wfg, t)
      BY <1>1, <3>1, <3>3, <3>4, ReachCloses
    <3> QED BY <3>5
  <2>3. v \in Before(v)
    <3>1. PICK w \in v : w \in Wfg.node
      BY <1>4
    <3>2. w \in Reach(Wfg, w)
      BY <1>1, <3>1, ReachCloses
    <3> QED BY <3>1, <3>2
  <2>4. v \notin Before(p[1])
    BY <2>1
  <2>5. Before(p[1]) \subseteq Before(v)
    BY <2>2
  <2> HIDE DEF Before
  <2>6. Cardinality(Before(p[1])) < Cardinality(Before(v))
    <3>1. Before(p[1]) # Before(v)
      BY <2>3, <2>4
    <3>2. /\ Cardinality(Before(p[1])) <= Cardinality(Before(v))
          /\ Cardinality(Before(p[1])) = Cardinality(Before(v)) => Before(p[1]) = Before(v)
      BY <1>3, <2>5, FS_Subset
    <3>3. Cardinality(Before(p[1])) \in Nat /\ Cardinality(Before(v)) \in Nat
      BY <1>3
    <3> QED BY <3>1, <3>2, <3>3
  <2>7. Cardinality(Before(v)) <= Cardinality(Before(p[1]))
    BY <1>5, <1>6
  <2>8. Cardinality(Before(p[1])) \in Nat /\ Cardinality(Before(v)) \in Nat
    BY <1>3
  <2> QED BY <2>6, <2>7, <2>8
<1> QED BY <1>6

(***************************************************************************)
(* A super-node without a way out, that is neither a thread that waits for *)
(* nobody nor kernel threads only, is a trap, and every trap is in one.    *)
(***************************************************************************)
Trapped(t) ==
  /\ \E e \in graph : e.src = t /\ t \in Reach(Wfg, e.dst)
  /\ \A u \in Reach(Wfg, t) : t \in Reach(Wfg, u)
  /\ \E u \in Reach(Wfg, t) : u \notin KernelThread

LEMMA SinkIsClosed ==
  ASSUME graph \subseteq Edge, dag = [node |-> tarjan_scc(Wfg), edge |-> Cross(tarjan_scc(Wfg))],
         NEW s \in Sinks
  PROVE  \A t \in s : Reach(Wfg, t) \subseteq s
<1>1. Wfg.edge \subseteq Wfg.node \X Wfg.node
  BY DEF Wfg
<1>2. s \in tarjan_scc(Wfg) /\ \A p \in Cross(tarjan_scc(Wfg)) : p[1] # s
  BY DEF Sinks
<1>3. s \subseteq Wfg.node
  BY <1>1, <1>2, SuperNodes
<1>4. ASSUME NEW e \in graph, e.src \in s
      PROVE  e.dst \in s
  <2>1. e.dst \in Wfg.node
    BY DEF Wfg
  <2>2. e.dst \in Same(Wfg, e.dst) /\ Same(Wfg, e.dst) \in tarjan_scc(Wfg)
    BY <1>1, <2>1, SuperNodes
  <2>3. s # Same(Wfg, e.dst) => <<s, Same(Wfg, e.dst)>> \in Cross(tarjan_scc(Wfg))
    BY <1>2, <1>4, <2>2 DEF Cross, Joining
  <2> QED BY <1>2, <2>2, <2>3
<1>5. Closed(Wfg, s)
  BY <1>4 DEF Closed, Wfg
<1> QED BY <1>3, <1>5 DEF Reach

LEMMA KnotsAreTheTraps ==
  ASSUME graph \subseteq Edge, dag = [node |-> tarjan_scc(Wfg), edge |-> Cross(tarjan_scc(Wfg))]
  PROVE  UNION {s \in dag.node : IsKnot(s)} = {t \in Wfg.node : Trapped(t)}
<1>1. Wfg.edge \subseteq Wfg.node \X Wfg.node
  BY DEF Wfg
<1>2. \A e \in graph : /\ e.src \in Wfg.node /\ e.dst \in Wfg.node
                       /\ e.dst \in Reach(Wfg, e.src)
  <2>1. \A e \in graph : e.src \in Wfg.node /\ e.dst \in Wfg.node /\ <<e.src, e.dst>> \in Wfg.edge
    BY DEF Wfg
  <2> QED BY <1>1, <2>1, ReachCloses
<1>3. ASSUME NEW s \in dag.node, IsKnot(s), NEW t \in s
      PROVE  t \in Wfg.node /\ Trapped(t)
  <2>1. s \in tarjan_scc(Wfg) /\ s \in Sinks
    BY <1>3 DEF IsKnot
  <2>2. s \subseteq Wfg.node /\ s = Same(Wfg, t)
    BY <1>1, <2>1, SuperNodes
  <2>3. Reach(Wfg, t) \subseteq s
    BY <2>1, SinkIsClosed
  <2>4. \A u \in s : t \in Reach(Wfg, u)
    BY <2>2 DEF Same
  <2>5. \E e \in graph : e.src = t /\ t \in Reach(Wfg, e.dst)
    <3>1. CASE s = {t}
      <4>1. \E u \in s : has_self_loop(u)
        BY <1>3, <3>1, FS_Singleton DEF IsKnot
      <4> QED BY <2>4, <3>1, <4>1 DEF has_self_loop
    <3>2. CASE s # {t}
      <4>1. PICK u \in s : u # t
        BY <3>2
      <4>2. u \in Reach(Wfg, t)
        BY <2>2, <4>1 DEF Same
      <4>3. \E e \in graph : e.src = t
        <5>1. SUFFICES ASSUME \A e \in graph : e.src # t PROVE FALSE
          OBVIOUS
        <5>2. Closed(Wfg, {t}) /\ {t} \subseteq Wfg.node
          BY <2>2, <5>1 DEF Closed, Wfg
        <5> QED BY <4>1, <4>2, <5>2 DEF Reach
      <4>4. PICK e \in graph : e.src = t
        BY <4>3
      <4>5. e.dst \in s
        BY <1>2, <2>3, <4>4
      <4> QED BY <2>4, <4>4, <4>5
    <3> QED BY <3>1, <3>2
  <2>6. \E u \in Reach(Wfg, t) : u \notin KernelThread
    <3>1. PICK u \in s : u \notin KernelThread
      BY <1>3 DEF IsKnot, is_pure_kernel_scc
    <3>2. u \in Reach(Wfg, t)
      BY <2>2, <3>1 DEF Same
    <3> QED BY <3>1, <3>2
  <2> QED BY <2>2, <2>3, <2>4, <2>5, <2>6 DEF Trapped
<1>4. ASSUME NEW t \in Wfg.node, Trapped(t)
      PROVE  \E s \in dag.node : IsKnot(s) /\ t \in s
  <2> DEFINE s == Same(Wfg, t)
  <2>1. t \in s /\ s \in tarjan_scc(Wfg) /\ s \subseteq Wfg.node
    BY <1>1, SuperNodes
  <2>2. \A u \in Reach(Wfg, t) : u \in Wfg.node => u \in s
    BY <1>4 DEF Trapped, Same
  <2>3. ASSUME NEW e \in graph, e.src \in s
        PROVE  e.dst \in s
    <3>1. e.src \in Reach(Wfg, t)
      BY <2>3 DEF Same
    <3>2. e.dst \in Reach(Wfg, t)
      BY <1>1, <1>2, <3>1, ReachCloses
    <3> QED BY <1>2, <2>2, <3>2
  <2>4. ASSUME NEW p \in dag.edge, p[1] = s
        PROVE  FALSE
    <3>1. p[2] \in tarjan_scc(Wfg) /\ p[1] # p[2]
      BY CrossLeads
    <3>2. PICK e \in graph : e.src \in p[1] /\ e.dst \in p[2]
      BY DEF Cross, Joining
    <3>3. e.dst \in s /\ e.dst \in p[2]
      BY <2>3, <2>4, <3>2
    <3>4. p[2] = Same(Wfg, e.dst) /\ s = Same(Wfg, e.dst)
      BY <1>1, <2>1, <3>1, <3>3, SuperNodes
    <3> QED BY <2>4, <3>1, <3>4
  <2>5. s \in Sinks
    BY <2>1, <2>4 DEF Sinks
  <2>6. Cardinality(s) = 1 => \E u \in s : has_self_loop(u)
    <3>1. SUFFICES ASSUME Cardinality(s) = 1 PROVE \E u \in s : has_self_loop(u)
      OBVIOUS
    <3>2. IsFiniteSet(s)
      BY <2>1, SuperNodesFinite, FS_Subset
    <3>3. s = {t}
      BY <2>1, <3>1, <3>2, FS_Singleton
    <3>4. PICK e \in graph : e.src = t
      BY <1>4 DEF Trapped
    <3>5. e.dst = t
      BY <2>1, <2>3, <3>3, <3>4
    <3> QED BY <2>1, <3>4, <3>5 DEF has_self_loop
  <2>7. \E u \in s : u \notin KernelThread
    <3>1. PICK u \in Reach(Wfg, t) : u \notin KernelThread
      BY <1>4 DEF Trapped
    <3>2. u \in Wfg.node
      BY <3>1 DEF Reach
    <3> QED BY <2>2, <3>1, <3>2
  <2> HIDE DEF s
  <2>8. IsKnot(s)
    BY <2>5, <2>6, <2>7 DEF IsKnot, is_pure_kernel_scc
  <2> QED BY <2>1, <2>8
<1> QED BY <1>3, <1>4
-----------------------------------------------------------------------------
(***************************************************************************)
(* The inductive invariant: the graph has only edges; what the engine and  *)
(* each later step leave behind is what it computed from the graph.        *)
(***************************************************************************)
Condensed == [node |-> tarjan_scc(Wfg), edge |-> Cross(tarjan_scc(Wfg))]

GraphOfEdges == graph \subseteq Edge

GraphFinite == IsFiniteSet(graph)

\* Threads wait for the disk, and only a return edge leaves it.
DiskEnds ==
  \A e \in graph : /\ e.src = Disk => e.kind = "SyntheticClosureReturn"
                   /\ e.dst = Disk => e.kind = "Normal"

EngineRead == phase # "building" => attributed = [e \in graph |-> Attribution(graph, e)]

SentinelSilent == phase # "InvariantError"

CondensedKept == phase \notin {"building", "cascaded"} => dag = Condensed

TopoOfNodes == phase = "dp" => topo \subseteq dag.node

KnotsKept == phase = "knots" => knots = {s \in dag.node : IsKnot(s)}

\* The waits for the disk
IoWaits == {e \in graph : e.dst = Disk /\ e.kind # "SyntheticClosureReturn"}

RatioKept ==
  phase = "done" =>
    io_ratio = Ratio(TotalDelay(IoWaits), SumFunction([e \in IoWaits |-> duration(e.window)]))

AnalysisInv ==
  /\ GraphOfEdges /\ GraphFinite /\ DiskEnds
  /\ EngineRead /\ SentinelSilent
  /\ CondensedKept /\ TopoOfNodes /\ KnotsKept /\ RatioKept

\* The disk waits for nobody: a wait for it is attributed in full.
LEMMA DiskAttributed ==
  ASSUME graph \subseteq Edge, DiskEnds, NEW e \in Edge, e.dst = Disk
  PROVE  Attribution(graph, e) = duration(e.window)
<1> DEFINE call == [current |-> e.dst, window |-> e.window, depth |-> 1, path |-> {e.src}]
           d == duration(e.window)
<1>1. call \in Call /\ Attribution(graph, e) = d - Cascaded(graph, e).propagated
  BY EdgeCall
<1>2. d \in Nat
  BY DurationNat DEF Edge
<1>3. Cascaded(graph, e) = compute_cascade(graph)[call]
  BY DEF Cascaded
<1>4. Clipped(graph, Disk, e.window) = {}
  BY DEF Clipped, Traversed, DiskEnds
<1>5. sweep_line_partition(graph, Disk, e.window) = {}
  BY <1>4 DEF sweep_line_partition
<1>6. Leaf(graph, call)
  BY <1>5 DEF Leaf
<1> HIDE DEF call
<1>7. compute_cascade(graph)[call] = Step(graph, compute_cascade(graph), call)
  BY <1>1, CascadeExists
<1>8. Step(graph, compute_cascade(graph), call).propagated = 0
  <2>1. Step(graph, compute_cascade(graph), call)
          = [propagated |-> 0, self_blame |-> duration(call.window)]
    BY <1>6, StepIs, Zenon
  <2> QED BY <2>1
<1>9. Cascaded(graph, e).propagated = 0
  BY <1>3, <1>7, <1>8
<1> HIDE DEF d
<1>10. Attribution(graph, e) = d
  BY <1>1, <1>2, <1>9
<1> QED BY <1>10 DEF d

\* verify_engine_postconditions finds nothing to object to.
LEMMA PostconditionsHold ==
  ASSUME graph \subseteq Edge
  PROVE  verify_engine_postconditions(graph, [e \in graph |-> Attribution(graph, e)])
<1> DEFINE result == [e \in graph |-> Attribution(graph, e)]
<1>1. DOMAIN result = graph /\ \A e \in graph : result[e] = Attribution(graph, e)
  BY Zenon
<1> HIDE DEF result
<1>2. ASSUME NEW e \in graph PROVE result[e] <= duration(e.window)
  <2> DEFINE d == duration(e.window)
             p == Cascaded(graph, e).propagated
  <2>1. e \in Edge /\ d \in Nat
    BY DurationNat DEF Edge
  <2>2. result[e] = d - p /\ Fits(Cascaded(graph, e), e.window)
    BY <1>1, <2>1, EdgeCall
  <2>3. p \in Nat
    BY <2>2 DEF Fits
  <2> HIDE DEF d, p
  <2>4. result[e] <= d
    BY <2>1, <2>2, <2>3
  <2> QED BY <2>4 DEF d
<1>3. verify_engine_postconditions(graph, result)
  BY <1>1, <1>2 DEF verify_engine_postconditions
<1> QED BY <1>3 DEF result

LEMMA CascadeKeeps ==
  ASSUME AnalysisInv, CascadeSteps
  PROVE  AnalysisInv'
<1> USE DEF AnalysisInv
<1>1. CASE \E src, dst \in Thread, window \in TimeWindow : AddWait(src, dst, window)
  <2> PICK src \in Thread, dst \in Thread, window \in TimeWindow : AddWait(src, dst, window)
    BY <1>1
  <2> DEFINE e == [src |-> src, dst |-> dst, window |-> window, kind |-> "Normal"]
  <2>1. phase = "building" /\ phase' = "building" /\ graph' = graph \union {e}
    BY DEF AddWait
  <2>2. e \in Edge /\ e.src # Disk /\ e.dst # Disk
    BY CascadeAssumption DEF Edge, Node
  <2> HIDE DEF e
  <2>3. GraphOfEdges' /\ DiskEnds'
    BY <2>1, <2>2 DEF GraphOfEdges, DiskEnds
  <2>4. GraphFinite'
    BY <2>1, FS_AddElement DEF GraphFinite
  <2> QED BY <2>1, <2>3, <2>4
          DEF EngineRead, SentinelSilent, CondensedKept, TopoOfNodes, KnotsKept, RatioKept
<1>2. CASE \E user \in Thread, window \in TimeWindow : AddIo(user, window)
  <2> PICK user \in Thread, window \in TimeWindow : AddIo(user, window)
    BY <1>2
  <2> DEFINE e == [src |-> user, dst |-> Disk, window |-> window, kind |-> "Normal"]
             f == [src |-> Disk, dst |-> user, window |-> window, kind |-> "SyntheticClosureReturn"]
  <2>1. phase = "building" /\ phase' = "building" /\ graph' = graph \union {e, f}
    BY DEF AddIo
  <2>2. /\ e \in Edge /\ e.src # Disk /\ e.kind = "Normal"
        /\ f \in Edge /\ f.dst # Disk /\ f.kind = "SyntheticClosureReturn"
    BY CascadeAssumption DEF Edge, Node
  <2> HIDE DEF e, f
  <2>3. GraphOfEdges' /\ DiskEnds'
    BY <2>1, <2>2 DEF GraphOfEdges, DiskEnds
  <2>4. GraphFinite'
    <3>1. graph' = (graph \union {e}) \union {f}
      BY <2>1
    <3> QED BY <3>1, FS_AddElement DEF GraphFinite
  <2> QED BY <2>1, <2>3, <2>4
          DEF EngineRead, SentinelSilent, CondensedKept, TopoOfNodes, KnotsKept, RatioKept
<1>3. CASE cascade_engine
  <2>1. attributed' = [e \in graph |-> Attribution(graph, e)] /\ graph' = graph
    BY <1>3 DEF cascade_engine
  <2>2. verify_engine_postconditions(graph, attributed')
    BY <2>1, PostconditionsHold DEF GraphOfEdges
  <2>3. phase' = "cascaded"
    BY <1>3, <2>2 DEF cascade_engine
  <2>4. EngineRead'
    BY <2>1, Zenon DEF EngineRead
  <2> QED BY <2>1, <2>3, <2>4
          DEF GraphOfEdges, GraphFinite, DiskEnds, SentinelSilent, CondensedKept, TopoOfNodes,
              KnotsKept, RatioKept
<1> QED BY <1>1, <1>2, <1>3 DEF CascadeSteps, CascadeNext

LEMMA CondensedStays ==
  ASSUME graph' = graph
  PROVE  Condensed' = Condensed
<1>1. Wfg' = Wfg
  BY DEF Wfg
<1>2. \A sccs : (Cross(sccs))' = Cross(sccs)
  BY DEF Cross, Joining
<1> QED BY <1>1, <1>2 DEF Condensed

\* The later steps leave the graph and what the engine made of it alone.
LEMMA EngineStays ==
  ASSUME AnalysisInv, graph' = graph, attributed' = attributed,
         phase # "building", phase' \notin {"building", "InvariantError"}
  PROVE  GraphOfEdges' /\ GraphFinite' /\ DiskEnds' /\ EngineRead' /\ SentinelSilent'
<1>1. EngineRead'
  <2>1. attributed = [e \in graph |-> Attribution(graph, e)]
    BY DEF AnalysisInv, EngineRead
  <2> QED BY <2>1, Zenon DEF EngineRead
<1> QED BY <1>1 DEF AnalysisInv, GraphOfEdges, GraphFinite, DiskEnds, SentinelSilent

LEMMA AnalysisInvariant == AnalysisSpec => []AnalysisInv
<1>1. AnalysisInit => AnalysisInv
  BY FS_EmptySet DEF AnalysisInit, CascadeInit, AnalysisInv, GraphOfEdges, GraphFinite, DiskEnds,
     EngineRead, SentinelSilent, CondensedKept, TopoOfNodes, KnotsKept, RatioKept
<1>2. ASSUME AnalysisInv, [AnalysisNext]_vars
      PROVE  AnalysisInv'
  <2> USE <1>2 DEF AnalysisInv
  <2>1. CASE CascadeSteps
    BY <2>1, CascadeKeeps
  <2>2. CASE build_condensation
    <3>1. /\ graph' = graph /\ attributed' = attributed /\ phase = "cascaded" /\ phase' = "condensed"
          /\ dag' = Condensed
      BY <2>2 DEF build_condensation, Condensed
    <3>2. CondensedKept'
      BY <3>1, CondensedStays DEF CondensedKept
    <3> QED BY <3>1, <3>2, EngineStays DEF TopoOfNodes, KnotsKept, RatioKept
  <2>3. CASE apply_max_heuristic \/ critical_path_dp \/ FindEnd
    <3>1. /\ graph' = graph /\ attributed' = attributed /\ dag' = dag
          /\ phase \notin {"building", "cascaded"}
          /\ phase' \in {"weighed", "dp", "trace"}
      BY <2>3 DEF apply_max_heuristic, critical_path_dp, FindEnd
    <3>2. phase' = "dp" => topo' = dag'.node
      BY <2>3 DEF apply_max_heuristic, critical_path_dp, FindEnd
    <3>3. CondensedKept'
      BY <3>1, CondensedStays DEF CondensedKept
    <3>4. TopoOfNodes'
      BY <3>2 DEF TopoOfNodes
    <3> QED BY <3>1, <3>3, <3>4, EngineStays DEF KnotsKept, RatioKept
  <2>4. CASE TraceBack \/ \E v \in dag.node : Relax(v)
    <3>1. /\ graph' = graph /\ attributed' = attributed /\ dag' = dag
          /\ phase \in {"trace", "dp"} /\ phase' = phase
          /\ phase = "dp" => topo' \subseteq topo
      BY <2>4 DEF TraceBack, Relax
    <3>2. CondensedKept'
      BY <3>1, CondensedStays DEF CondensedKept
    <3>3. TopoOfNodes'
      BY <3>1 DEF TopoOfNodes
    <3> QED BY <3>1, <3>2, <3>3, EngineStays DEF KnotsKept, RatioKept
  <2>5. CASE detect_knots
    <3>1. /\ graph' = graph /\ attributed' = attributed /\ dag' = dag
          /\ phase \in {"weighed", "trace"} /\ phase' = "knots"
          /\ knots' = {s \in dag.node : IsKnot(s)}
      BY <2>5 DEF detect_knots, PathFound
    <3>2. CondensedKept'
      BY <3>1, CondensedStays DEF CondensedKept
    <3>3. \A s : IsKnot(s)' <=> IsKnot(s)
      BY <3>1 DEF IsKnot, Sinks, has_self_loop, is_pure_kernel_scc
    <3>4. KnotsKept'
      BY <3>1, <3>3 DEF KnotsKept
    <3> QED BY <3>1, <3>2, <3>4, EngineStays DEF TopoOfNodes, RatioKept
  <2>6. CASE compute_io_attributed_delay_ratio
    <3>1. /\ graph' = graph /\ attributed' = attributed /\ dag' = dag
          /\ phase = "knots" /\ phase' = "done"
          /\ io_ratio' = Ratio(TotalDelay(IoWaits), SumFunction([e \in IoWaits |-> duration(e.window)]))
      BY <2>6, Zenon DEF compute_io_attributed_delay_ratio, IoWaits
    <3>2. CondensedKept'
      BY <3>1, CondensedStays DEF CondensedKept
    <3>3. RatioKept'
      BY <3>1, Zenon DEF RatioKept, IoWaits, TotalDelay
    <3> QED BY <3>1, <3>2, <3>3, EngineStays DEF TopoOfNodes, KnotsKept
  <2>7. CASE UNCHANGED vars
    <3>1. /\ graph' = graph /\ attributed' = attributed /\ phase' = phase
          /\ dag' = dag /\ topo' = topo /\ knots' = knots /\ io_ratio' = io_ratio
      BY <2>7 DEF vars, cascadeVars, dpVars
    <3>2. CondensedKept'
      BY <3>1, CondensedStays DEF CondensedKept
    <3>3. \A s : IsKnot(s)' <=> IsKnot(s)
      BY <3>1 DEF IsKnot, Sinks, has_self_loop, is_pure_kernel_scc
    <3>4. KnotsKept'
      BY <3>1, <3>3 DEF KnotsKept
    <3>5. RatioKept'
      BY <3>1, Zenon DEF RatioKept, IoWaits, TotalDelay
    <3>6. EngineRead'
      BY <3>1, Zenon DEF EngineRead
    <3> QED BY <3>1, <3>2, <3>4, <3>5, <3>6
            DEF GraphOfEdges, GraphFinite, DiskEnds, SentinelSilent, TopoOfNodes
  <2> QED BY <2>1, <2>2, <2>3, <2>4, <2>5, <2>6, <2>7 DEF AnalysisNext
<1> QED BY <1>1, <1>2, PTL DEF AnalysisSpec
-----------------------------------------------------------------------------
(***************************************************************************)
(* sweep_line_partition loses and doubles no millisecond of a wait, for    *)
(* every graph the correlator can build: see SweepIsPointwise.             *)
(***************************************************************************)
THEOREM SweepIsPointwiseHolds == AnalysisSpec => []SweepIsPointwise
<1>1. AnalysisInv => SweepIsPointwise
  <2>1. SUFFICES ASSUME GraphOfEdges, NEW node \in Node, NEW window \in TimeWindow, NEW ms \in 0..MaxMs
        PROVE  LET hit == {i \in sweep_line_partition(graph, node, window) :
                             i.window.start <= ms /\ ms < i.window.end}
                   expected == IF window.start <= ms /\ ms < window.end THEN WaitsFor(node, ms) ELSE {}
               IN  /\ {i.targets : i \in hit} = (IF expected = {} THEN {} ELSE {expected})
                   /\ Cardinality(hit) <= 1
    BY DEF AnalysisInv, SweepIsPointwise
  <2>2. graph \subseteq Edge /\ ms \in Nat
    BY <2>1 DEF GraphOfEdges
  <2>3. WaitsFor(node, ms) =
          {e.dst : e \in {f \in graph : /\ f.kind = "Normal" /\ f.src = node
                                        /\ f.window.start <= ms /\ ms < f.window.end}}
    BY DEF WaitsFor
  <2>4. Expected(graph, node, window, ms)
          = IF window.start <= ms /\ ms < window.end THEN WaitsFor(node, ms) ELSE {}
    BY <2>3, Zenon DEF Expected
  <2>5. LET hit == Hit(graph, node, window, ms)
            expected == Expected(graph, node, window, ms)
        IN  /\ {i.targets : i \in hit} = (IF expected = {} THEN {} ELSE {expected})
            /\ Cardinality(hit) <= 1
    BY <2>1, <2>2, PartitionIsPointwise, Zenon
  <2> QED BY <2>4, <2>5, Zenon DEF Hit
<1> QED BY <1>1, AnalysisInvariant, PTL

(***************************************************************************)
(* cascade_engine attributes a real wait what it would attribute it in the *)
(* graph without the return edges: see ClosureEdgesInert.                  *)
(***************************************************************************)
THEOREM ClosureEdgesInertHolds == AnalysisSpec => []ClosureEdgesInert
<1>1. AnalysisInv => ClosureEdgesInert
  <2> DEFINE waits == {e \in graph : e.kind = "Normal"}
  <2>1. SUFFICES ASSUME AnalysisInv, phase = "cascaded", NEW e \in waits
        PROVE  attributed[e] = Attribution(waits, e)
    BY DEF ClosureEdgesInert
  <2>2. \A f \in graph : f.kind = "Normal" \/ f.kind = "SyntheticClosureReturn"
    BY <2>1 DEF AnalysisInv, GraphOfEdges, Edge
  <2>3. Traversed(graph) = Traversed(waits) /\ Waiting(graph) = Waiting(waits)
    BY <2>2 DEF Traversed, Waiting
  <2>4. Attribution(graph, e) = Attribution(waits, e)
    <3> HIDE DEF waits
    <3> QED BY <2>3, AttributionReads
  <2>5. attributed = [f \in graph |-> Attribution(graph, f)] /\ e \in graph
    BY <2>1 DEF AnalysisInv, EngineRead
  <2>6. attributed[e] = Attribution(graph, e)
    BY <2>5, Zenon
  <2> QED BY <2>4, <2>6
<1> QED BY <1>1, AnalysisInvariant, PTL

(***************************************************************************)
(* compute_cascade explains no millisecond of a wait twice, so that        *)
(* verify_engine_postconditions never fails, for every graph, max_depth    *)
(* and clock: see PropagatedFitsWait.                                      *)
(***************************************************************************)
THEOREM PropagatedFitsWaitHolds == AnalysisSpec => []PropagatedFitsWait
<1>1. AnalysisInv => PropagatedFitsWait
  <2>1. SUFFICES ASSUME AnalysisInv, NEW e \in graph
        PROVE  Cascaded(graph, e).propagated + Cascaded(graph, e).self_blame <= duration(e.window)
    BY DEF AnalysisInv, SentinelSilent, PropagatedFitsWait
  <2>2. graph \subseteq Edge /\ e \in Edge
    BY <2>1 DEF AnalysisInv, GraphOfEdges
  <2> QED BY <2>2, EdgeCall DEF Fits
<1> QED BY <1>1, AnalysisInvariant, PTL

(***************************************************************************)
(* When no node waits for two at once and nobody is waited for by two at   *)
(* once, compute_cascade accounts for every millisecond: see               *)
(* UnscaledIsExact.                                                        *)
(***************************************************************************)
THEOREM UnscaledIsExactHolds == AnalysisSpec => []UnscaledIsExact
<1>1. AnalysisInv => UnscaledIsExact
  <2>1. SUFFICES ASSUME AnalysisInv, Unscaled, NEW e \in graph
        PROVE  Cascaded(graph, e).propagated + Cascaded(graph, e).self_blame = duration(e.window)
    BY DEF UnscaledIsExact
  <2>2. graph \subseteq Edge /\ e \in Edge
    BY <2>1 DEF AnalysisInv, GraphOfEdges
  <2>3. UnscaledIn(graph)
    BY <2>1 DEF Unscaled, UnscaledIn
  <2> QED BY <2>2, <2>3, EdgeCall DEF Exact
<1> QED BY <1>1, AnalysisInvariant, PTL

(***************************************************************************)
(* The condensation is acyclic, so that toposort finds its order and       *)
(* critical_path_dp never panics: see ToposortSucceeds.                    *)
(***************************************************************************)
THEOREM ToposortSucceedsHolds == AnalysisSpec => []ToposortSucceeds
<1>1. AnalysisInv => ToposortSucceeds
  <2>1. SUFFICES ASSUME AnalysisInv, phase = "dp", topo # {}
        PROVE  \E v \in topo : Ready(v)
    BY DEF ToposortSucceeds
  <2>2. graph \subseteq Edge /\ dag = Condensed /\ topo \subseteq dag.node
    BY <2>1 DEF AnalysisInv, GraphOfEdges, CondensedKept, TopoOfNodes
  <2>3. dag.node = tarjan_scc(Wfg) /\ dag.edge = Cross(tarjan_scc(Wfg))
    BY <2>2 DEF Condensed
  <2>4. PICK v \in topo : \A p \in Cross(tarjan_scc(Wfg)) : p[2] = v => p[1] \notin topo
    <3>1. topo \subseteq tarjan_scc(Wfg)
      BY <2>2, <2>3
    <3> QED BY <2>1, <2>2, <3>1, CondensationIsAcyclic, Zenon
  <2> QED BY <2>3, <2>4 DEF Ready
<1> QED BY <1>1, AnalysisInvariant, PTL

(***************************************************************************)
(* detect_knots reports exactly the threads that waiting never gets out    *)
(* of, kernel threads among themselves aside, whatever the graph and       *)
(* whichever of its threads are the kernel's: see KnotsAreTraps.           *)
(***************************************************************************)
THEOREM KnotsAreTrapsHolds == AnalysisSpec => []KnotsAreTraps
<1>1. AnalysisInv => KnotsAreTraps
  <2> DEFINE reach == [t \in Wfg.node |-> Reach(Wfg, t)]
             Traps == {t \in Wfg.node : /\ \E e \in graph : e.src = t /\ t \in reach[e.dst]
                                        /\ \A u \in reach[t] : t \in reach[u]
                                        /\ \E u \in reach[t] : u \notin KernelThread}
  <2>1. SUFFICES ASSUME AnalysisInv, phase = "knots"
        PROVE  UNION knots = Traps
    BY DEF KnotsAreTraps
  <2>2. /\ graph \subseteq Edge /\ dag = Condensed /\ knots = {s \in dag.node : IsKnot(s)}
    BY <2>1 DEF AnalysisInv, GraphOfEdges, CondensedKept, KnotsKept
  <2>3. UNION knots = {t \in Wfg.node : Trapped(t)}
    BY <2>2, KnotsAreTheTraps DEF Condensed
  <2>4. /\ \A e \in graph : e.dst \in Wfg.node
        /\ \A t \in Wfg.node : Reach(Wfg, t) \subseteq Wfg.node
    BY ReachCloses DEF Wfg
  <2>5. {t \in Wfg.node : Trapped(t)} = Traps
    BY <2>4 DEF Trapped
  <2> QED BY <2>3, <2>5
<1> QED BY <1>1, AnalysisInvariant, PTL

(***************************************************************************)
(* The disk waits for nobody, so that a wait for it is attributed in full  *)
(* and the ratio compute_io_attributed_delay_ratio reports is one whenever *)
(* it is defined: see IoRatioMeetsGate.                                    *)
(***************************************************************************)
THEOREM IoRatioMeetsGateHolds == AnalysisSpec => []IoRatioMeetsGate
<1>1. AnalysisInv => IoRatioMeetsGate
  <2>1. SUFFICES ASSUME AnalysisInv, phase = "done"
        PROVE  /\ (io_ratio # None) <=> (\E e \in graph : e.dst = Disk /\ duration(e.window) > 0)
               /\ io_ratio # None => /\ io_ratio[2] > 0 /\ 10 * io_ratio[1] >= 7 * io_ratio[2]
                                      /\ io_ratio[1] <= io_ratio[2]
    BY DEF IoRatioMeetsGate
  <2> DEFINE raw == [e \in IoWaits |-> duration(e.window)]
             a == TotalDelay(IoWaits)
             r == SumFunction(raw)
  <2>2. /\ graph \subseteq Edge /\ IsFiniteSet(graph) /\ DiskEnds
        /\ io_ratio = Ratio(a, r)
    BY <2>1 DEF AnalysisInv, GraphOfEdges, GraphFinite, RatioKept
  <2>3. attributed = [e \in graph |-> Attribution(graph, e)]
    BY <2>1 DEF AnalysisInv, EngineRead
  <2>4. /\ IsFiniteSet(IoWaits)
        /\ \A e : e \in IoWaits <=> e \in graph /\ e.dst = Disk
    <3>1. IoWaits \subseteq graph
      BY DEF IoWaits
    <3>2. \A e \in graph : e.dst = Disk => e.kind # "SyntheticClosureReturn"
      BY <2>2 DEF DiskEnds
    <3> QED BY <2>2, <3>1, <3>2, FS_Subset DEF IoWaits
  <2>5. DOMAIN raw = IoWaits /\ \A e \in IoWaits : raw[e] = duration(e.window)
    BY Zenon
  <2>6. \A e \in IoWaits : raw[e] \in Nat /\ attributed[e] = raw[e]
    <3> TAKE e \in IoWaits
    <3>1. e \in graph /\ e \in Edge /\ e.dst = Disk
      BY <2>2, <2>4
    <3>2. attributed[e] = Attribution(graph, e)
      BY <2>3, <3>1, Zenon
    <3>3. Attribution(graph, e) = duration(e.window)
      BY <2>2, <3>1, DiskAttributed
    <3>4. duration(e.window) \in Nat
      BY <3>1, DurationNat DEF Edge
    <3> QED BY <2>5, <3>2, <3>3, <3>4
  <2> HIDE DEF raw
  <2>7. r = SumFunctionOnSet(raw, IoWaits) /\ a = SumFunctionOnSet(attributed, IoWaits)
    <3>1. r = SumFunctionOnSet(raw, DOMAIN raw)
      BY DEF SumFunction
    <3> QED BY <2>5, <3>1, Zenon DEF TotalDelay
  <2>8. r \in Nat /\ a = r
    <3>1. \A e \in IoWaits : attributed[e] \in Nat
      BY <2>6
    <3> QED BY <2>4, <2>6, <2>7, <3>1, SumEqual, SumNat
  <2>9. r > 0 <=> \E e \in graph : e.dst = Disk /\ duration(e.window) > 0
    <3>1. r > 0 <=> \E e \in IoWaits : raw[e] > 0
      BY <2>4, <2>6, <2>7, SumPositive
    <3> QED BY <2>4, <2>5, <3>1
  <2> HIDE DEF a, r
  <2>10. CASE r = 0
    <3>1. io_ratio = None
      BY <2>2, <2>10 DEF Ratio
    <3> QED BY <2>9, <2>10, <3>1
  <2>11. CASE r # 0
    <3>1. io_ratio = <<r, r>>
      BY <2>2, <2>8, <2>11 DEF Ratio
    <3>2. r > 0 /\ 10 * r >= 7 * r /\ r <= r
      BY <2>8, <2>11
    <3>3. io_ratio # None
      BY <2>8, <3>1, NoneAssumption
    <3>4. io_ratio[1] = r /\ io_ratio[2] = r
      BY <3>1
    <3> QED BY <2>9, <3>2, <3>3, <3>4
  <2> QED BY <2>10, <2>11
<1> QED BY <1>1, AnalysisInvariant, PTL
-----------------------------------------------------------------------------
(***************************************************************************)
(* critical_path_dp: the table it fills and the chain it reads off it      *)
(***************************************************************************)
WeightsTyped ==
  phase \notin {"building", "cascaded"} =>
    weight \in [dag.node -> Nat] /\ edge_w \in [dag.edge -> Nat]

DistTyped ==
  /\ dist \in [dag.node -> Nat] /\ pred \in [dag.node -> dag.node \union {None}]
  /\ topo \subseteq dag.node

\* The DP follows the edges: a super-node is done after those before it.
DoneFirst == \A a, b \in dag.node : <<a, b>> \in dag.edge /\ b \notin topo => a \notin topo

\* What is done has been relaxed, and stays so.
Relaxed ==
  \A a, b \in dag.node :
    <<a, b>> \in dag.edge /\ a \notin topo => dist[a] + edge_w[<<a, b>>] + weight[b] <= dist[b]

\* A distance is that of the path that pred leads back along.
DistOfPred ==
  \A u \in dag.node :
    /\ weight[u] <= dist[u]
    /\ pred[u] = None => dist[u] = weight[u]
    /\ pred[u] # None => /\ <<pred[u], u>> \in dag.edge /\ pred[u] \notin topo
                         /\ dist[u] = dist[pred[u]] + edge_w[<<pred[u], u>>] + weight[u]

DpTable == phase \in {"dp", "trace"} => DistTyped /\ DoneFirst /\ Relaxed /\ DistOfPred

\* The chain goes back along pred from an end of the greatest distance.
ChainOfPred ==
  phase = "trace" =>
    /\ topo = {} /\ chain \in Seq(dag.node) /\ chain # << >>
    /\ \A i \in 1..(Len(chain) - 1) : pred[chain[i + 1]] = chain[i]
    /\ \A v \in dag.node : dist[v] <= dist[chain[Len(chain)]]

DpInv == WeightsTyped /\ DpTable /\ ChainOfPred

LEMMA MaxDelayNat ==
  ASSUME AnalysisInv, phase # "building", NEW edges, edges \subseteq graph
  PROVE  MaxDelay(edges) \in Nat
<1> DEFINE T == {0} \union {attributed[e] : e \in edges}
<1>1. ASSUME NEW e \in edges
      PROVE  attributed[e] \in Nat /\ attributed[e] <= MaxMs
  <2> DEFINE d == duration(e.window)
             q == Cascaded(graph, e).propagated
             b == Cascaded(graph, e).self_blame
  <2>1. e \in graph /\ e \in Edge /\ graph \subseteq Edge
    BY DEF AnalysisInv, GraphOfEdges
  <2>2. attributed = [f \in graph |-> Attribution(graph, f)]
    BY DEF AnalysisInv, EngineRead
  <2>3. attributed[e] = Attribution(graph, e)
    BY <2>1, <2>2, Zenon
  <2>4. Attribution(graph, e) = d - q /\ Fits(Cascaded(graph, e), e.window)
    BY <2>1, EdgeCall
  <2>5. d \in Nat /\ d <= MaxMs
    BY <2>1, CascadeAssumption DEF Edge, TimeWindow, duration
  <2>6. q \in Nat /\ b \in Nat /\ q + b <= d
    BY <2>4 DEF Fits
  <2> HIDE DEF d, q, b
  <2> QED BY <2>3, <2>4, <2>5, <2>6, CascadeAssumption
<1>2. T \subseteq Nat /\ T # {} /\ \A y \in T : y <= MaxMs
  BY <1>1, CascadeAssumption
<1>3. MaxDelay(edges) = CHOOSE x \in T : \A y \in T : x >= y
  BY DEF MaxDelay, Max
<1> HIDE DEF T
<1>4. \E x \in T : \A y \in T : y <= x
  BY <1>2, CascadeAssumption, GreatestNat
<1>5. \E x \in T : \A y \in T : x >= y
  BY <1>2, <1>4
<1> QED BY <1>2, <1>3, <1>5

\* The DAG is what its construction says, whatever the phase after it.
LEMMA DagIs ==
  ASSUME AnalysisInv, phase \notin {"building", "cascaded"}
  PROVE  /\ IsFiniteSet(dag.node) /\ None \notin dag.node
         /\ dag.edge \subseteq dag.node \X dag.node
         /\ \A v : <<v, v>> \notin dag.edge
         /\ \A some \in SUBSET dag.node :
              some # {} => \E v \in some : \A a \in some : <<a, v>> \notin dag.edge
<1>1. graph \subseteq Edge /\ dag = Condensed
  BY DEF AnalysisInv, GraphOfEdges, CondensedKept
<1>2. dag.node = tarjan_scc(Wfg) /\ dag.edge = Cross(tarjan_scc(Wfg))
  BY <1>1 DEF Condensed
<1>3. None \notin dag.node
  <2>1. Wfg.node \subseteq Node
    BY <1>1 DEF Wfg, Edge
  <2>2. dag.node \subseteq SUBSET Node
    BY <1>2, <2>1 DEF tarjan_scc
  <2> QED BY <2>2, NoneAssumption
<1>4. dag.edge \subseteq dag.node \X dag.node /\ \A v : <<v, v>> \notin dag.edge
  BY <1>2 DEF Cross
<1>5. ASSUME NEW some \in SUBSET dag.node, some # {}
      PROVE  \E v \in some : \A a \in some : <<a, v>> \notin dag.edge
  <2>1. some \subseteq tarjan_scc(Wfg)
    BY <1>2
  <2>2. PICK v \in some : \A p \in Cross(tarjan_scc(Wfg)) : p[2] = v => p[1] \notin some
    BY <1>1, <1>5, <2>1, CondensationIsAcyclic, Zenon
  <2>3. \A a \in some : <<a, v>> \in dag.edge => a \notin some
    BY <1>2, <2>2
  <2> QED BY <2>3
<1> QED BY <1>1, <1>2, <1>3, <1>4, <1>5, SuperNodesFinite

\* One turn of the loop keeps the table right.
LEMMA RelaxKeeps ==
  ASSUME AnalysisInv, DpInv, NEW v \in dag.node, Relax(v)
  PROVE  DistTyped' /\ DoneFirst' /\ Relaxed' /\ DistOfPred'
<1> DEFINE better == {u \in dag.node : <<v, u>> \in dag.edge /\ Candidate(v, u) > dist[u]}
<1>1. /\ phase = "dp" /\ v \in topo /\ topo' = topo \ {v}
      /\ \A a : <<a, v>> \in dag.edge => a \notin topo
      /\ dist' = [u \in dag.node |-> IF u \in better THEN Candidate(v, u) ELSE dist[u]]
      /\ pred' = [u \in dag.node |-> IF u \in better THEN v ELSE pred[u]]
      /\ dag' = dag /\ edge_w' = edge_w /\ weight' = weight
  BY DEF Relax, Ready
<1>2. /\ weight \in [dag.node -> Nat] /\ edge_w \in [dag.edge -> Nat]
      /\ DistTyped /\ DoneFirst /\ Relaxed /\ DistOfPred
  BY <1>1 DEF DpInv, WeightsTyped, DpTable
<1>3. None \notin dag.node /\ dag.edge \subseteq dag.node \X dag.node /\ <<v, v>> \notin dag.edge
  BY <1>1, DagIs
<1>4. dist \in [dag.node -> Nat] /\ pred \in [dag.node -> dag.node \union {None}]
  BY <1>2 DEF DistTyped
<1>5. \A u \in dag.node : weight[u] \in Nat /\ dist[u] \in Nat
  BY <1>2, <1>4
<1>6. \A a, b \in dag.node : <<a, b>> \in dag.edge => edge_w[<<a, b>>] \in Nat
  BY <1>2
<1>7. ASSUME NEW u \in dag.node
      PROVE  /\ u \in better => /\ <<v, u>> \in dag.edge /\ u \in topo \ {v}
                                /\ dist'[u] = dist[v] + edge_w[<<v, u>>] + weight[u]
                                /\ dist'[u] > dist[u] /\ pred'[u] = v
             /\ u \notin better => /\ dist'[u] = dist[u] /\ pred'[u] = pred[u]
                                   /\ <<v, u>> \in dag.edge =>
                                        dist[v] + edge_w[<<v, u>>] + weight[u] <= dist[u]
             /\ dist'[u] \in Nat /\ dist'[u] >= dist[u]
  <2>1. CASE u \in better
    <3>1. <<v, u>> \in dag.edge /\ Candidate(v, u) > dist[u] /\ u # v
      BY <1>3, <2>1
    <3>2. u \in topo
      BY <1>1, <1>2, <3>1 DEF DoneFirst
    <3>3. dist'[u] = Candidate(v, u) /\ pred'[u] = v
      <4> HIDE DEF better
      <4> QED BY <1>1, <2>1, Zenon
    <3>4. Candidate(v, u) = dist[v] + edge_w[<<v, u>>] + weight[u]
      BY DEF Candidate
    <3>5. dist[v] \in Nat /\ edge_w[<<v, u>>] \in Nat /\ weight[u] \in Nat /\ dist[u] \in Nat
      BY <1>5, <1>6, <3>1
    <3>6. Candidate(v, u) \in Nat
      BY <3>4, <3>5
    <3> HIDE DEF better
    <3> QED BY <2>1, <3>1, <3>2, <3>3, <3>4, <3>5, <3>6
  <2>2. CASE u \notin better
    <3>1. <<v, u>> \in dag.edge => ~(Candidate(v, u) > dist[u])
      BY <2>2
    <3>2. dist'[u] = dist[u] /\ pred'[u] = pred[u]
      <4> HIDE DEF better
      <4> QED BY <1>1, <2>2, Zenon
    <3>3. ASSUME <<v, u>> \in dag.edge
          PROVE  dist[v] + edge_w[<<v, u>>] + weight[u] <= dist[u]
      <4>1. ~(dist[v] + edge_w[<<v, u>>] + weight[u] > dist[u])
        BY <3>1, <3>3 DEF Candidate
      <4>2. dist[v] \in Nat /\ edge_w[<<v, u>>] \in Nat /\ weight[u] \in Nat /\ dist[u] \in Nat
        BY <1>5, <1>6, <3>3
      <4> QED BY <4>1, <4>2
    <3>4. dist[u] \in Nat
      BY <1>5
    <3> HIDE DEF better
    <3> QED BY <2>2, <3>2, <3>3, <3>4
  <2> QED BY <2>1, <2>2
<1>8. v \notin better
  BY <1>3
<1>9. \A u \in dag.node : u \notin topo => u \notin better /\ dist'[u] = dist[u]
  BY <1>7
<1>10. DOMAIN dist' = dag.node /\ DOMAIN pred' = dag.node
       /\ dist' = [u \in dag.node |-> dist'[u]] /\ pred' = [u \in dag.node |-> pred'[u]]
  <2> HIDE DEF better
  <2> QED BY <1>1
<1> HIDE DEF better
<1>11. DistTyped'
  <2>1. \A u \in dag.node : pred'[u] \in dag.node \union {None}
    BY <1>4, <1>7
  <2>2. \A u \in dag.node : dist'[u] \in Nat
    BY <1>7
  <2>3. dist' \in [dag.node -> Nat] /\ pred' \in [dag.node -> dag.node \union {None}]
    BY <1>10, <2>1, <2>2
  <2> QED BY <1>1, <1>2, <2>3 DEF DistTyped
<1>12. DoneFirst'
  BY <1>1, <1>2 DEF DoneFirst
<1>13. Relaxed'
  <2>1. SUFFICES ASSUME NEW a \in dag.node, NEW b \in dag.node, <<a, b>> \in dag.edge, a \notin topo \ {v}
        PROVE  dist'[a] + edge_w[<<a, b>>] + weight[b] <= dist'[b]
    BY <1>1 DEF Relaxed
  <2>2. /\ dist[a] \in Nat /\ dist[b] \in Nat /\ dist'[b] \in Nat /\ weight[b] \in Nat
        /\ edge_w[<<a, b>>] \in Nat /\ dist'[b] >= dist[b]
    BY <1>5, <1>6, <1>7, <2>1
  <2>3. dist'[a] = dist[a]
    BY <1>7, <1>8, <1>9, <2>1
  <2>4. CASE a = v
    <3>1. CASE b \in better
      <4>1. dist'[b] = dist[v] + edge_w[<<v, b>>] + weight[b]
        BY <1>7, <3>1
      <4> QED BY <2>2, <2>3, <2>4, <4>1
    <3>2. CASE b \notin better
      <4>1. dist[v] + edge_w[<<v, b>>] + weight[b] <= dist[b]
        BY <1>7, <2>1, <2>4, <3>2
      <4> QED BY <2>2, <2>3, <2>4, <4>1
    <3> QED BY <3>1, <3>2
  <2>5. CASE a # v
    <3>1. dist[a] + edge_w[<<a, b>>] + weight[b] <= dist[b]
      BY <1>2, <2>1, <2>5 DEF Relaxed
    <3> QED BY <2>2, <2>3, <3>1
  <2> QED BY <2>4, <2>5
<1>14. DistOfPred'
  <2>1. SUFFICES ASSUME NEW u \in dag.node
        PROVE  /\ weight[u] <= dist'[u]
               /\ pred'[u] = None => dist'[u] = weight[u]
               /\ pred'[u] # None =>
                    /\ <<pred'[u], u>> \in dag.edge /\ pred'[u] \notin topo'
                    /\ dist'[u] = dist'[pred'[u]] + edge_w[<<pred'[u], u>>] + weight[u]
    BY <1>1 DEF DistOfPred
  <2>2. /\ weight[u] <= dist[u]
        /\ pred[u] = None => dist[u] = weight[u]
        /\ pred[u] # None => /\ <<pred[u], u>> \in dag.edge /\ pred[u] \notin topo
                             /\ dist[u] = dist[pred[u]] + edge_w[<<pred[u], u>>] + weight[u]
    BY <1>2 DEF DistOfPred
  <2>3. weight[u] \in Nat /\ dist[u] \in Nat /\ dist'[u] \in Nat /\ dist'[u] >= dist[u]
    BY <1>5, <1>7
  <2>4. weight[u] <= dist'[u]
    BY <2>2, <2>3
  <2>5. CASE u \in better
    <3>1. /\ <<v, u>> \in dag.edge /\ pred'[u] = v
          /\ dist'[u] = dist[v] + edge_w[<<v, u>>] + weight[u]
      BY <1>7, <2>5
    <3>2. v # None /\ v \notin topo' /\ dist'[v] = dist[v]
      BY <1>1, <1>3, <1>7, <1>8
    <3> QED BY <2>4, <3>1, <3>2
  <2>6. CASE u \notin better
    <3>1. dist'[u] = dist[u] /\ pred'[u] = pred[u]
      BY <1>7, <2>6
    <3>2. ASSUME pred[u] # None
          PROVE  dist'[pred[u]] = dist[pred[u]] /\ pred[u] \notin topo'
      <4>1. pred[u] \in dag.node /\ pred[u] \notin topo
        BY <1>4, <2>2, <3>2
      <4> QED BY <1>1, <1>9, <4>1
    <3> QED BY <2>2, <2>4, <3>1, <3>2
  <2> QED BY <2>5, <2>6
<1> QED BY <1>11, <1>12, <1>13, <1>14

\* The weights are the greatest delay of some edges of the graph.
LEMMA WeightsKept ==
  ASSUME AnalysisInv, DpInv, build_condensation \/ apply_max_heuristic
  PROVE  weight' \in [dag'.node -> Nat] /\ edge_w' \in [dag'.edge -> Nat]
<1>1. phase # "building"
  BY DEF build_condensation, apply_max_heuristic
<1>2. \A s, d : Joining(s, d) \subseteq graph
  BY DEF Joining
<1>3. CASE build_condensation
  <2> DEFINE sccs == tarjan_scc(Wfg)
  <2>1. /\ dag' = [node |-> sccs, edge |-> Cross(sccs)]
        /\ edge_w' = [p \in Cross(sccs) |-> MaxDelay(Joining(p[1], p[2]))]
        /\ weight' = [s \in sccs |-> 0]
    BY <1>3 DEF build_condensation
  <2>2. \A p \in Cross(sccs) : MaxDelay(Joining(p[1], p[2])) \in Nat
    BY <1>1, <1>2, MaxDelayNat
  <2> HIDE DEF sccs
  <2> QED BY <2>1, <2>2
<1>4. CASE apply_max_heuristic
  <2>1. /\ dag' = dag /\ edge_w' = edge_w /\ phase = "condensed"
        /\ weight' = [s \in dag.node |-> MaxDelay(Weighing(s))]
    BY <1>4 DEF apply_max_heuristic
  <2>2. \A s : Weighing(s) \subseteq graph
    BY <1>2 DEF Weighing
  <2>3. \A s \in dag.node : MaxDelay(Weighing(s)) \in Nat
    BY <1>1, <2>2, MaxDelayNat
  <2>4. edge_w \in [dag.edge -> Nat]
    BY <2>1 DEF DpInv, WeightsTyped
  <2> QED BY <2>1, <2>3, <2>4
<1> QED BY <1>3, <1>4

LEMMA ChainOfOne ==
  ASSUME NEW S, NEW t \in S
  PROVE  <<t>> \in Seq(S) /\ <<t>> # << >> /\ Len(<<t>>) = 1 /\ <<t>>[1] = t
OBVIOUS

\* c is s with t before it.
Prepends(c, t, s, S) ==
  /\ c \in Seq(S) /\ c # << >> /\ Len(c) = Len(s) + 1 /\ c[1] = t
  /\ \A i \in 1..Len(s) : c[i + 1] = s[i]

LEMMA ChainPrepended ==
  ASSUME NEW S, NEW s \in Seq(S), NEW t \in S
  PROVE  Prepends(<<t>> \o s, t, s, S)
<1> DEFINE c == <<t>> \o s
<1>1. <<t>> \in Seq(S) /\ Len(<<t>>) = 1 /\ <<t>>[1] = t
  BY ChainOfOne
<1>2. c \in Seq(S) /\ Len(c) = 1 + Len(s)
  BY <1>1
<1>3. \A i \in 1..Len(c) : c[i] = IF i <= 1 THEN <<t>>[i] ELSE s[i - 1]
  BY <1>1
<1> HIDE DEF c
<1>4. c # << >> /\ Len(c) = Len(s) + 1 /\ c[1] = t /\ \A i \in 1..Len(s) : c[i + 1] = s[i]
  BY <1>1, <1>2, <1>3
<1>5. Prepends(c, t, s, S)
  BY <1>2, <1>4 DEF Prepends
<1> QED BY <1>5 DEF c

LEMMA TraceBackKeeps ==
  ASSUME DpInv, TraceBack
  PROVE  ChainOfPred'
<1> DEFINE before == pred[Head(chain)]
           nodes == dag.node
<1>1. /\ phase = "trace" /\ phase' = "trace" /\ topo' = topo /\ dag' = dag
      /\ dist' = dist /\ pred' = pred /\ before # None /\ chain' = <<before>> \o chain
  BY DEF TraceBack
<1>2. /\ topo = {} /\ chain \in Seq(nodes) /\ chain # << >>
      /\ \A i \in 1..(Len(chain) - 1) : pred[chain[i + 1]] = chain[i]
      /\ \A v \in dag.node : dist[v] <= dist[chain[Len(chain)]]
  BY <1>1 DEF DpInv, ChainOfPred
<1>3. Head(chain) = chain[1] /\ chain[1] \in nodes /\ Len(chain) \in Nat \ {0}
  BY <1>2
<1>4. before \in nodes
  BY <1>1, <1>3 DEF DpInv, DpTable, DistTyped
<1>5. before = pred[chain[1]]
  BY <1>3
<1> HIDE DEF before, nodes
<1>6. Prepends(<<before>> \o chain, before, chain, nodes)
  BY <1>2, <1>4, ChainPrepended, Zenon
<1>7. /\ chain' \in Seq(nodes) /\ chain' # << >> /\ Len(chain') = Len(chain) + 1
      /\ chain'[1] = before /\ \A i \in 1..Len(chain) : chain'[i + 1] = chain[i]
  BY <1>1, <1>6, Zenon DEF Prepends
<1>8. \A i \in 1..(Len(chain') - 1) : pred[chain'[i + 1]] = chain'[i]
  <2> TAKE i \in 1..(Len(chain') - 1)
  <2>1. i \in 1..Len(chain) /\ chain'[i + 1] = chain[i]
    BY <1>3, <1>7
  <2>2. CASE i = 1
    BY <1>5, <1>7, <2>1, <2>2
  <2>3. CASE i # 1
    <3>1. i - 1 \in 1..(Len(chain) - 1) /\ i - 1 \in 1..Len(chain)
      BY <1>3, <2>1, <2>3
    <3>2. pred[chain[(i - 1) + 1]] = chain[i - 1] /\ chain'[(i - 1) + 1] = chain[i - 1]
      BY <1>2, <1>7, <3>1
    <3>3. (i - 1) + 1 = i
      BY <3>1
    <3> QED BY <2>1, <3>2, <3>3
  <2> QED BY <2>2, <2>3
<1>9. chain'[Len(chain')] = chain[Len(chain)]
  BY <1>3, <1>7
<1> QED BY <1>1, <1>2, <1>7, <1>8, <1>9 DEF ChainOfPred, nodes

LEMMA DpInvariant == AnalysisSpec => []DpInv
<1>1. AnalysisInit => DpInv
  BY DEF AnalysisInit, CascadeInit, DpInv, WeightsTyped, DpTable, ChainOfPred
<1>2. ASSUME AnalysisInv, DpInv, [AnalysisNext]_vars
      PROVE  DpInv'
  <2> USE <1>2 DEF DpInv
  <2>1. CASE CascadeSteps
    <3>1. phase = "building"
      BY <2>1 DEF CascadeSteps, CascadeNext, AddWait, AddIo, cascade_engine
    <3>2. phase' \in {"building", "cascaded", "InvariantError"}
      BY <2>1 DEF CascadeSteps, CascadeNext, AddWait, AddIo, cascade_engine
    <3>3. phase' # "InvariantError"
      BY <2>1, CascadeKeeps DEF AnalysisInv, SentinelSilent
    <3> QED BY <3>2, <3>3 DEF WeightsTyped, DpTable, ChainOfPred
  <2>2. CASE build_condensation \/ apply_max_heuristic
    <3>1. phase' \in {"condensed", "weighed"}
      BY <2>2 DEF build_condensation, apply_max_heuristic
    <3> QED BY <2>2, <3>1, WeightsKept DEF WeightsTyped, DpTable, ChainOfPred
  <2>3. CASE critical_path_dp
    <3>1. /\ phase = "weighed" /\ phase' = "dp" /\ dag' = dag /\ edge_w' = edge_w /\ weight' = weight
          /\ dist' = weight /\ pred' = [s \in dag.node |-> None] /\ topo' = dag.node
      BY <2>3 DEF critical_path_dp
    <3>2. weight \in [dag.node -> Nat] /\ edge_w \in [dag.edge -> Nat]
      BY <3>1 DEF WeightsTyped
    <3>3. \A s \in dag.node : pred'[s] = None /\ weight[s] <= weight[s]
      BY <3>1, <3>2
    <3>4. DistTyped' /\ DoneFirst' /\ Relaxed'
      BY <3>1, <3>2 DEF DistTyped, DoneFirst, Relaxed
    <3>5. DistOfPred'
      BY <3>1, <3>3 DEF DistOfPred
    <3> QED BY <3>1, <3>2, <3>4, <3>5 DEF WeightsTyped, DpTable, ChainOfPred
  <2>4. ASSUME NEW v \in dag.node, Relax(v)
        PROVE  DpInv'
    <3>1. phase = "dp" /\ phase' = "dp" /\ dag' = dag /\ edge_w' = edge_w /\ weight' = weight
      BY <2>4 DEF Relax
    <3>2. DistTyped' /\ DoneFirst' /\ Relaxed' /\ DistOfPred'
      BY <2>4, RelaxKeeps
    <3> QED BY <3>1, <3>2 DEF WeightsTyped, DpTable, ChainOfPred
  <2>5. CASE FindEnd
    <3>1. /\ phase = "dp" /\ phase' = "trace" /\ topo = {} /\ topo' = topo /\ dag' = dag
          /\ edge_w' = edge_w /\ weight' = weight /\ dist' = dist /\ pred' = pred
      BY <2>5 DEF FindEnd
    <3>2. PICK end \in dag.node : (\A v \in dag.node : dist[v] <= dist[end]) /\ chain' = <<end>>
      BY <2>5 DEF FindEnd
    <3>3. WeightsTyped' /\ DpTable'
      BY <3>1 DEF WeightsTyped, DpTable, DistTyped, DoneFirst, Relaxed, DistOfPred
    <3>4. /\ chain' \in Seq(dag.node) /\ chain' # << >> /\ Len(chain') = 1 /\ chain'[1] = end
      BY <3>2, ChainOfOne
    <3>5. ChainOfPred'
      BY <3>1, <3>2, <3>4 DEF ChainOfPred
    <3> QED BY <3>3, <3>5
  <2>6. CASE TraceBack
    <3>1. /\ phase = "trace" /\ phase' = "trace" /\ topo' = topo /\ dag' = dag
          /\ edge_w' = edge_w /\ weight' = weight /\ dist' = dist /\ pred' = pred
      BY <2>6 DEF TraceBack
    <3>2. WeightsTyped' /\ DpTable'
      BY <3>1 DEF WeightsTyped, DpTable, DistTyped, DoneFirst, Relaxed, DistOfPred
    <3> QED BY <2>6, <3>2, TraceBackKeeps
  <2>7. CASE detect_knots \/ compute_io_attributed_delay_ratio
    <3>1. /\ phase' \in {"knots", "done"} /\ phase \notin {"building", "cascaded"}
          /\ dag' = dag /\ edge_w' = edge_w /\ weight' = weight
      BY <2>7 DEF detect_knots, PathFound, compute_io_attributed_delay_ratio
    <3> QED BY <3>1 DEF WeightsTyped, DpTable, ChainOfPred
  <2>8. CASE UNCHANGED vars
    BY <2>8 DEF vars, cascadeVars, dpVars, WeightsTyped, DpTable, DistTyped, DoneFirst, Relaxed,
       DistOfPred, ChainOfPred
  <2> QED BY <2>1, <2>2, <2>3, <2>4, <2>5, <2>6, <2>7, <2>8 DEF AnalysisNext
<1> QED BY <1>1, <1>2, AnalysisInvariant, PTL DEF AnalysisSpec

(***************************************************************************)
(* The weight of a path, one super-node after the other                    *)
(***************************************************************************)
NodesOf(p) == [i \in DOMAIN p |-> weight[p[i]]]

EdgesOf(p) == [i \in 1..(Len(p) - 1) |-> edge_w[<<p[i], p[i + 1]>>]]

WeightTo(p, k) == SumFunctionOnSet(NodesOf(p), 1..k) + SumFunctionOnSet(EdgesOf(p), 1..(k - 1))

IsPath(p) ==
  /\ p \in Seq(dag.node) /\ p # << >>
  /\ \A i \in 1..(Len(p) - 1) : <<p[i], p[i + 1]>> \in dag.edge

\* The last of k numbers and the others
LEMMA SumOfLast ==
  ASSUME NEW k \in Nat \ {0}, NEW f, \A x \in 1..k : f[x] \in Nat
  PROVE  SumFunctionOnSet(f, 1..k) = f[k] + SumFunctionOnSet(f, 1..(k - 1))
<1> DEFINE S == 1..k
<1>1. IsFiniteSet(S)
  <2>1. k \in Int /\ 1 \in Int
    OBVIOUS
  <2> QED BY <2>1, FS_Interval
<1>2. k \in S /\ S \ {k} = 1..(k - 1) /\ \A x \in S : f[x] \in Nat
  OBVIOUS
<1> HIDE DEF S
<1>3. SumFunctionOnSet(f, S) = f[k] + SumFunctionOnSet(f, S \ {k})
  BY <1>1, <1>2, SumRemove
<1> QED BY <1>2, <1>3 DEF S

LEMMA WeightOfPath ==
  ASSUME NEW p, IsPath(p), weight \in [dag.node -> Nat], edge_w \in [dag.edge -> Nat]
  PROVE  /\ Len(p) \in Nat \ {0} /\ PathWeight(p) = WeightTo(p, Len(p))
         /\ \A k \in 1..Len(p) : p[k] \in dag.node
         /\ WeightTo(p, 1) = weight[p[1]]
         /\ \A k \in 1..(Len(p) - 1) :
              WeightTo(p, k + 1) = WeightTo(p, k) + edge_w[<<p[k], p[k + 1]>>] + weight[p[k + 1]]
         /\ \A k \in 1..Len(p) : WeightTo(p, k) \in Nat
<1> DEFINE N == NodesOf(p)
           E == EdgesOf(p)
           n == Len(p)
<1>1. n \in Nat \ {0} /\ DOMAIN p = 1..n /\ \A k \in 1..n : p[k] \in dag.node
  BY DEF IsPath
<1>2. /\ DOMAIN N = 1..n /\ DOMAIN E = 1..(n - 1)
      /\ \A k \in 1..n : N[k] = weight[p[k]]
      /\ \A k \in 1..(n - 1) : E[k] = edge_w[<<p[k], p[k + 1]>>]
  BY <1>1 DEF NodesOf, EdgesOf
<1>3. PathWeight(p) = SumFunction(N) + SumFunction(E)
  BY DEF PathWeight, NodesOf, EdgesOf
<1>4. SumFunction(N) = SumFunctionOnSet(N, 1..n) /\ SumFunction(E) = SumFunctionOnSet(E, 1..(n - 1))
  <2> HIDE DEF N, E
  <2> QED BY <1>2, Zenon DEF SumFunction
<1>5. \A k \in 1..n : N[k] \in Nat
  BY <1>1, <1>2
<1>6. \A k \in 1..(n - 1) : E[k] \in Nat
  BY <1>2 DEF IsPath
<1>7. \A k : WeightTo(p, k) = SumFunctionOnSet(N, 1..k) + SumFunctionOnSet(E, 1..(k - 1))
  BY DEF WeightTo
<1> HIDE DEF N, E, n
<1>8. ASSUME NEW k \in 1..n
      PROVE  /\ IsFiniteSet(1..k) /\ SumFunctionOnSet(N, 1..k) \in Nat
             /\ IsFiniteSet(1..(k - 1)) /\ SumFunctionOnSet(E, 1..(k - 1)) \in Nat
  <2>1. IsFiniteSet(1..k) /\ IsFiniteSet(1..(k - 1))
    <3>1. k \in Int /\ k - 1 \in Int /\ 1 \in Int
      BY <1>1
    <3> QED BY <3>1, FS_Interval
  <2>2. (\A x \in 1..k : N[x] \in Nat) /\ (\A x \in 1..(k - 1) : E[x] \in Nat)
    BY <1>1, <1>5, <1>6
  <2> QED BY <2>1, <2>2, SumNat
<1>9. \A k \in 1..n : WeightTo(p, k) \in Nat
  <2> TAKE k \in 1..n
  <2>1. SumFunctionOnSet(N, 1..k) \in Nat /\ SumFunctionOnSet(E, 1..(k - 1)) \in Nat
    BY <1>8
  <2>2. WeightTo(p, k) = SumFunctionOnSet(N, 1..k) + SumFunctionOnSet(E, 1..(k - 1))
    BY <1>7
  <2> DEFINE a == SumFunctionOnSet(N, 1..k)
             b == SumFunctionOnSet(E, 1..(k - 1))
  <2>3. WeightTo(p, k) = a + b /\ a \in Nat /\ b \in Nat
    BY <2>1, <2>2
  <2> HIDE DEF a, b
  <2> QED BY <2>3
<1>10. WeightTo(p, 1) = weight[p[1]]
  <2>1. 1 \in 1..n /\ 1 \in 1..1 /\ (1..1) \ {1} = {} /\ 1..(1 - 1) = {} /\ IsFiniteSet({})
    BY <1>1, FS_EmptySet
  <2>2. \A x \in 1..1 : N[x] \in Nat
    BY <1>1, <1>5
  <2>8. IsFiniteSet(1..1)
    BY <1>8, <2>1
  <2>3. SumFunctionOnSet(N, 1..1) = N[1] + SumFunctionOnSet(N, {})
    <3>1. SumFunctionOnSet(N, 1..1) = N[1] + SumFunctionOnSet(N, (1..1) \ {1})
      BY <2>1, <2>2, <2>8, SumRemove
    <3> QED BY <2>1, <3>1
  <2>4. SumFunctionOnSet(N, {}) = 0 /\ SumFunctionOnSet(E, {}) = 0
    BY <2>1, SumChosen
  <2>5. N[1] = weight[p[1]] /\ N[1] \in Nat
    BY <1>2, <1>5, <2>1
  <2>6. WeightTo(p, 1) = SumFunctionOnSet(N, 1..1) + SumFunctionOnSet(E, {})
    BY <1>7, <2>1
  <2> QED BY <2>3, <2>4, <2>5, <2>6
<1>11. ASSUME NEW k \in 1..(n - 1)
       PROVE  WeightTo(p, k + 1) = WeightTo(p, k) + edge_w[<<p[k], p[k + 1]>>] + weight[p[k + 1]]
  <2>1. /\ k \in 1..n /\ k + 1 \in 1..n /\ (k + 1) - 1 = k
        /\ (1..(k + 1)) \ {k + 1} = 1..k /\ (1..k) \ {k} = 1..(k - 1)
        /\ k + 1 \in 1..(k + 1) /\ k \in 1..k
    BY <1>1
  <2>2. (\A x \in 1..(k + 1) : N[x] \in Nat) /\ (\A x \in 1..k : E[x] \in Nat)
    BY <1>1, <1>5, <1>6
  <2>3. SumFunctionOnSet(N, 1..(k + 1)) = N[k + 1] + SumFunctionOnSet(N, 1..k)
    <3>1. k + 1 \in Nat \ {0}
      BY <1>1
    <3>2. SumFunctionOnSet(N, 1..(k + 1)) = N[k + 1] + SumFunctionOnSet(N, 1..((k + 1) - 1))
      BY <2>2, <3>1, SumOfLast
    <3> QED BY <2>1, <3>2
  <2>4. SumFunctionOnSet(E, 1..k) = E[k] + SumFunctionOnSet(E, 1..(k - 1))
    <3>1. k \in Nat \ {0}
      BY <1>1
    <3> QED BY <2>2, <3>1, SumOfLast
  <2>5. /\ N[k + 1] = weight[p[k + 1]] /\ E[k] = edge_w[<<p[k], p[k + 1]>>]
        /\ N[k + 1] \in Nat /\ E[k] \in Nat
    BY <1>2, <1>5, <1>6, <2>1
  <2>6. WeightTo(p, k + 1) = SumFunctionOnSet(N, 1..(k + 1)) + SumFunctionOnSet(E, 1..k)
    BY <1>7, <2>1
  <2>7. /\ WeightTo(p, k) = SumFunctionOnSet(N, 1..k) + SumFunctionOnSet(E, 1..(k - 1))
        /\ SumFunctionOnSet(N, 1..k) \in Nat /\ SumFunctionOnSet(E, 1..(k - 1)) \in Nat
    BY <1>7, <1>8, <2>1
  <2> QED BY <2>3, <2>4, <2>5, <2>6, <2>7
<1> QED BY <1>1, <1>3, <1>4, <1>7, <1>9, <1>10, <1>11 DEF n

\* No path is heavier than the distance of its end, and the one that pred leads
\* back along is as heavy.
LEMMA DistBoundsPaths ==
  ASSUME DpInv, phase = "trace", NEW p, IsPath(p)
  PROVE  PathWeight(p) <= dist[p[Len(p)]]
<1> DEFINE n == Len(p)
           Bad == {k \in 1..n : ~(WeightTo(p, k) <= dist[p[k]])}
<1>1. /\ weight \in [dag.node -> Nat] /\ edge_w \in [dag.edge -> Nat] /\ dist \in [dag.node -> Nat]
      /\ topo = {} /\ Relaxed /\ DistOfPred
  BY DEF DpInv, WeightsTyped, DpTable, DistTyped, ChainOfPred
<1>2. /\ n \in Nat \ {0} /\ PathWeight(p) = WeightTo(p, n)
      /\ \A k \in 1..n : p[k] \in dag.node
      /\ WeightTo(p, 1) = weight[p[1]]
      /\ \A k \in 1..(n - 1) :
           WeightTo(p, k + 1) = WeightTo(p, k) + edge_w[<<p[k], p[k + 1]>>] + weight[p[k + 1]]
      /\ \A k \in 1..n : WeightTo(p, k) \in Nat
  BY <1>1, WeightOfPath
<1>3. \A k \in 1..(n - 1) : <<p[k], p[k + 1]>> \in dag.edge
  BY DEF IsPath
<1> HIDE DEF n
<1>4. Bad = {}
  <2>1. SUFFICES ASSUME Bad # {} PROVE FALSE
    OBVIOUS
  <2>2. PICK k \in Bad : \A j \in Bad : k <= j
    <3>1. Bad \subseteq Nat
      BY <1>2
    <3> HIDE DEF Bad
    <3> QED BY <2>1, <3>1, LeastNat, Zenon
  <2>3. k \in 1..n /\ ~(WeightTo(p, k) <= dist[p[k]])
    BY <2>2
  <2>4. CASE k = 1
    <3>1. weight[p[1]] <= dist[p[1]]
      BY <1>1, <1>2, <2>3, <2>4 DEF DistOfPred
    <3> QED BY <1>2, <2>3, <2>4, <3>1
  <2>5. CASE k # 1
    <3> DEFINE j == k - 1
    <3>1. j \in 1..(n - 1) /\ j \in 1..n /\ j + 1 = k /\ ~(k <= j)
      BY <1>2, <2>3, <2>5
    <3> HIDE DEF j
    <3>2. WeightTo(p, j) <= dist[p[j]]
      BY <2>2, <3>1
    <3>3. WeightTo(p, k) = WeightTo(p, j) + edge_w[<<p[j], p[k]>>] + weight[p[k]]
      BY <1>2, <3>1
    <3>4. p[j] \in dag.node /\ p[k] \in dag.node /\ <<p[j], p[k]>> \in dag.edge
      BY <1>2, <1>3, <2>3, <3>1
    <3>5. dist[p[j]] + edge_w[<<p[j], p[k]>>] + weight[p[k]] <= dist[p[k]]
      BY <1>1, <3>4 DEF Relaxed
    <3>6. /\ dist[p[j]] \in Nat /\ dist[p[k]] \in Nat /\ weight[p[k]] \in Nat
          /\ edge_w[<<p[j], p[k]>>] \in Nat /\ WeightTo(p, j) \in Nat /\ WeightTo(p, k) \in Nat
      BY <1>1, <1>2, <2>3, <3>1, <3>4
    <3>7. WeightTo(p, k) <= dist[p[k]]
      BY <3>2, <3>3, <3>5, <3>6
    <3> QED BY <2>3, <3>7
  <2> QED BY <2>4, <2>5
<1>5. n \in 1..n
  BY <1>2
<1>6. WeightTo(p, n) <= dist[p[n]]
  BY <1>4, <1>5
<1> QED BY <1>2, <1>6 DEF n

LEMMA ChainIsPath ==
  ASSUME AnalysisInv, DpInv, phase = "trace"
  PROVE  IsPath(chain) /\ Len(chain) <= Cardinality(dag.node)
<1> DEFINE n == Len(chain)
           c == chain
<1>1. /\ c \in Seq(dag.node) /\ c # << >> /\ n \in Nat \ {0} /\ DOMAIN c = 1..n
      /\ \A i \in 1..n : c[i] \in dag.node
      /\ \A i \in 1..(n - 1) : pred[c[i + 1]] = c[i]
  BY DEF DpInv, ChainOfPred
<1>2. /\ DistOfPred
      /\ IsFiniteSet(dag.node) /\ None \notin dag.node
      /\ \A some \in SUBSET dag.node :
           some # {} => \E v \in some : \A a \in some : <<a, v>> \notin dag.edge
  BY DagIs DEF DpInv, DpTable
<1> HIDE DEF n, c
<1>3. \A i \in 1..(n - 1) : <<c[i], c[i + 1]>> \in dag.edge
  <2> TAKE i \in 1..(n - 1)
  <2>1. i \in 1..n /\ i + 1 \in 1..n
    BY <1>1
  <2>2. c[i] \in dag.node /\ c[i + 1] \in dag.node /\ pred[c[i + 1]] = c[i]
    BY <1>1, <2>1
  <2> QED BY <1>2, <2>2 DEF DistOfPred
\* A super-node that came twice would close a cycle of the DAG.
<1>4. \A i, j \in 1..n : i < j => c[i] # c[j]
  <2> SUFFICES ASSUME NEW i \in 1..n, NEW j \in 1..n, i < j, c[i] = c[j]
               PROVE  FALSE
    OBVIOUS
  <2> DEFINE some == {c[k] : k \in (i + 1)..j}
  <2>1. some \in SUBSET dag.node /\ c[j] \in some
    <3>1. (i + 1)..j \subseteq 1..n /\ j \in (i + 1)..j
      BY <1>1
    <3> QED BY <1>1, <3>1
  <2>2. PICK v \in some : \A a \in some : <<a, v>> \notin dag.edge
    <3>1. some # {}
      BY <2>1
    <3> HIDE DEF some
    <3> QED BY <1>2, <2>1, <3>1
  <2>3. PICK k \in (i + 1)..j : v = c[k]
    BY <2>2
  <2>4. k - 1 \in 1..(n - 1) /\ (k - 1) + 1 = k /\ (k - 1 = i \/ k - 1 \in (i + 1)..j)
    BY <1>1, <2>3
  <2>5. c[k - 1] \in some
    BY <2>1, <2>4
  <2>6. <<c[k - 1], c[k]>> \in dag.edge
    BY <1>3, <2>4
  <2> HIDE DEF some
  <2> QED BY <2>2, <2>3, <2>5, <2>6
<1>5. n <= Cardinality(dag.node)
  <2>1. c \in Injection(1..n, dag.node)
    <3>1. c \in [1..n -> dag.node]
      BY <1>1
    <3>2. \A i, j \in 1..n : c[i] = c[j] => i = j
      <4> TAKE i \in 1..n, j \in 1..n
      <4>1. i < j \/ j < i \/ i = j
        BY <1>1
      <4> QED BY <1>4, <4>1
    <3> QED BY <3>1, <3>2 DEF Injection, IsInjective
  <2>2. IsFiniteSet(1..n) /\ Cardinality(1..n) = n
    BY <1>1, FS_Interval
  <2>3. Cardinality(1..n) <= Cardinality(dag.node)
    BY <1>2, <2>1, <2>2, FS_Injection
  <2> QED BY <2>2, <2>3
<1> QED BY <1>1, <1>3, <1>5 DEF IsPath, n, c

LEMMA ChainWeighs ==
  ASSUME AnalysisInv, DpInv, phase = "trace", pred[Head(chain)] = None
  PROVE  PathWeight(chain) = dist[chain[Len(chain)]]
<1> DEFINE n == Len(chain)
           p == chain
           Bad == {k \in 1..n : WeightTo(p, k) # dist[p[k]]}
<1>1. /\ weight \in [dag.node -> Nat] /\ edge_w \in [dag.edge -> Nat] /\ dist \in [dag.node -> Nat]
      /\ DistOfPred /\ IsPath(p) /\ pred[p[1]] = None
      /\ \A i \in 1..(n - 1) : pred[p[i + 1]] = p[i]
  <2>1. chain \in Seq(dag.node) /\ chain # << >>
    BY DEF DpInv, ChainOfPred
  <2>2. Head(chain) = chain[1]
    BY <2>1
  <2> QED BY <2>2, ChainIsPath DEF DpInv, WeightsTyped, DpTable, DistTyped, ChainOfPred
<1>2. /\ n \in Nat \ {0} /\ PathWeight(p) = WeightTo(p, n)
      /\ \A k \in 1..n : p[k] \in dag.node
      /\ WeightTo(p, 1) = weight[p[1]]
      /\ \A k \in 1..(n - 1) :
           WeightTo(p, k + 1) = WeightTo(p, k) + edge_w[<<p[k], p[k + 1]>>] + weight[p[k + 1]]
      /\ \A k \in 1..n : WeightTo(p, k) \in Nat
  BY <1>1, WeightOfPath
<1>3. None \notin dag.node
  BY DagIs
<1> HIDE DEF n, p
<1>4. Bad = {}
  <2>1. SUFFICES ASSUME Bad # {} PROVE FALSE
    OBVIOUS
  <2>2. PICK k \in Bad : \A j \in Bad : k <= j
    <3>1. Bad \subseteq Nat
      BY <1>2
    <3> HIDE DEF Bad
    <3> QED BY <2>1, <3>1, LeastNat, Zenon
  <2>3. k \in 1..n /\ WeightTo(p, k) # dist[p[k]]
    BY <2>2
  <2>4. CASE k = 1
    <3>1. dist[p[1]] = weight[p[1]]
      BY <1>1, <1>2, <2>3, <2>4 DEF DistOfPred
    <3> QED BY <1>2, <2>3, <2>4, <3>1
  <2>5. CASE k # 1
    <3> DEFINE j == k - 1
    <3>1. j \in 1..(n - 1) /\ j \in 1..n /\ j + 1 = k /\ ~(k <= j)
      BY <1>2, <2>3, <2>5
    <3> HIDE DEF j
    <3>2. WeightTo(p, j) = dist[p[j]]
      BY <2>2, <3>1
    <3>3. WeightTo(p, k) = WeightTo(p, j) + edge_w[<<p[j], p[k]>>] + weight[p[k]]
      BY <1>2, <3>1
    <3>4. p[j] \in dag.node /\ p[k] \in dag.node /\ pred[p[k]] = p[j] /\ pred[p[k]] # None
      BY <1>1, <1>2, <1>3, <2>3, <3>1
    <3>5. dist[p[k]] = dist[p[j]] + edge_w[<<p[j], p[k]>>] + weight[p[k]]
      BY <1>1, <3>4 DEF DistOfPred
    <3> QED BY <2>3, <3>2, <3>3, <3>5
  <2> QED BY <2>4, <2>5
<1>5. n \in 1..n
  BY <1>2
<1>6. WeightTo(p, n) = dist[p[n]]
  BY <1>4, <1>5
<1> QED BY <1>2, <1>6 DEF n, p

(***************************************************************************)
(* critical_path_dp returns a heaviest path of the condensation, with its  *)
(* weight, for every DAG, every order toposort may give and every end      *)
(* max_by_key may pick: see CriticalPathIsLongest.                         *)
(***************************************************************************)
THEOREM CriticalPathIsLongestHolds == AnalysisSpec => []CriticalPathIsLongest
<1>1. AnalysisInv /\ DpInv => CriticalPathIsLongest
  <2>1. SUFFICES ASSUME AnalysisInv, DpInv, phase = "trace", pred[Head(chain)] = None
        PROVE  /\ chain \in DagPath
               /\ PathWeight(chain) = dist[Last(chain)]
               /\ \A p \in DagPath : PathWeight(p) <= PathWeight(chain)
    BY DEF CriticalPathIsLongest
  <2>2. IsPath(chain) /\ Len(chain) <= Cardinality(dag.node)
    BY <2>1, ChainIsPath
  <2>3. PathWeight(chain) = dist[chain[Len(chain)]] /\ Last(chain) = chain[Len(chain)]
    BY <2>1, ChainWeighs DEF Last
  <2>4. chain \in DagPath
    <3>1. IsFiniteSet(dag.node)
      BY <2>1, DagIs
    <3>2. Cardinality(dag.node) \in Nat
      BY <3>1, FS_CardinalityType
    <3>3. Len(chain) \in 1..Cardinality(dag.node) /\ chain \in [1..Len(chain) -> dag.node]
      BY <2>2, <3>2 DEF IsPath
    <3> QED BY <2>2, <3>3 DEF DagPath, IsPath
  <2>5. ASSUME NEW p \in DagPath
        PROVE  PathWeight(p) <= PathWeight(chain)
    <3>1. PICK n \in 1..Cardinality(dag.node) : p \in [1..n -> dag.node]
      BY DEF DagPath
    <3>2. n \in Nat \ {0}
      OBVIOUS
    <3>3. p \in Seq(dag.node) /\ Len(p) = n
      BY <3>1, <3>2
    <3>4. IsPath(p)
      BY <3>2, <3>3 DEF IsPath, DagPath
    <3>5. PathWeight(p) <= dist[p[Len(p)]]
      BY <2>1, <3>4, DistBoundsPaths
    <3>6. p[Len(p)] \in dag.node
      BY <3>1, <3>2, <3>3
    <3>7. dist[p[Len(p)]] <= dist[chain[Len(chain)]]
      BY <2>1, <3>6 DEF DpInv, ChainOfPred
    <3>8. dist[p[Len(p)]] \in Nat /\ dist[chain[Len(chain)]] \in Nat
      <4>1. dist \in [dag.node -> Nat]
        BY <2>1 DEF DpInv, DpTable, DistTyped
      <4>2. chain[Len(chain)] \in dag.node
        BY <2>2 DEF IsPath
      <4> QED BY <3>6, <4>1, <4>2
    <3>9. PathWeight(p) \in Nat
      BY <2>1, <3>4, WeightOfPath DEF DpInv, WeightsTyped
    <3> QED BY <2>3, <3>5, <3>7, <3>8, <3>9
  <2> QED BY <2>3, <2>4, <2>5
<1> QED BY <1>1, AnalysisInvariant, DpInvariant, PTL
=============================================================================
