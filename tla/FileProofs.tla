----------------------------- MODULE FileProofs -----------------------------
(***************************************************************************)
(* Proofs about the .wperf file, from the bytes of a number to what a      *)
(* reader gets after a crash (WprfFile), and about the report made of it   *)
(* (Report).                                                               *)
(***************************************************************************)
EXTENDS Report, WprfFile, FiniteSetTheorems, WellFoundedInduction, TLAPS

\* A set of numbers that is not empty has a least one: inductions over numbers
\* are proved by their least counterexample.
LEMMA LeastNat ==
  ASSUME NEW T, T \subseteq Nat, T # {}
  PROVE  \E x \in T : \A y \in T : x <= y
<1>1. PICK x \in T : \A y \in T : ~(<<y, x>> \in OpToRel(<, Nat))
  BY NatLessThanWellFounded, WFMin, Zenon
<1>2. \A y \in T : ~(y < x)
  BY <1>1 DEF OpToRel
<1> QED BY <1>2
-----------------------------------------------------------------------------
(***************************************************************************)
(* Numbers as bytes                                                        *)
(***************************************************************************)
LEMMA NatProduct ==
  ASSUME NEW x \in Nat
  PROVE  Base * x \in Nat
BY LayoutAssumption

\* The body of the loop of from_le_bytes
FromByte(b, f, i) == IF i > Len(b) THEN 0 ELSE b[i] + Base * f[i + 1]

LEMMA FromBytesExists ==
  ASSUME NEW b \in Seq(Nat)
  PROVE  \E f : f = [i \in 1 .. Len(b) + 1 |-> FromByte(b, f, i)]
<1> DEFINE n == Len(b)
           From(k) == n + 1 - k .. n + 1
           Solved(k) == \E f \in [From(k) -> Nat] :
                          f = [i \in From(k) |-> FromByte(b, f, i)]
           T == {k \in 0 .. n : ~Solved(k)}
<1>1. n \in Nat
  OBVIOUS
<1>2. T = {}
  <2>1. SUFFICES ASSUME T # {} PROVE FALSE
    OBVIOUS
  <2>2. T \subseteq Nat
    BY <1>1
  <2>3. PICK m \in T : \A k \in T : m <= k
    <3> HIDE DEF T
    <3> QED BY <2>1, <2>2, LeastNat, Zenon
  <2>4. m \in 0 .. n /\ ~Solved(m)
    BY <2>3
  <2>5. CASE m = 0
    <3> DEFINE f == [i \in From(0) |-> 0]
    <3>1. \A i \in From(0) : i = n + 1
      BY <1>1
    <3>2. f \in [From(0) -> Nat] /\ f = [i \in From(0) |-> FromByte(b, f, i)]
      BY <1>1, <3>1 DEF FromByte
    <3> HIDE DEF f
    <3> QED BY <2>4, <2>5, <3>2
  <2>6. CASE m # 0
    <3>1. m - 1 \in 0 .. n /\ m - 1 < m
      BY <1>1, <2>4, <2>6
    <3>2. Solved(m - 1)
      <4> HIDE DEF Solved
      <4> QED BY <2>3, <3>1
    <3>3. PICK f \in [From(m - 1) -> Nat] :
            f = [i \in From(m - 1) |-> FromByte(b, f, i)]
      BY <3>2
    <3> DEFINE j == n + 1 - m
               g == [i \in From(m) |-> IF i = j THEN b[j] + Base * f[j + 1] ELSE f[i]]
    <3>4. /\ j \in 1 .. n /\ From(m) = j .. n + 1 /\ From(m - 1) = j + 1 .. n + 1
          /\ b[j] \in Nat
      BY <1>1, <2>4, <2>6
    <3> HIDE DEF From, j
    <3>5. f[j + 1] \in Nat
      <4>1. j + 1 \in From(m - 1)
        BY <1>1, <3>4
      <4> QED BY <3>3, <4>1
    <3>6. b[j] + Base * f[j + 1] \in Nat
      <4>1. Base * f[j + 1] \in Nat
        BY <3>5, NatProduct
      <4> QED BY <3>4, <4>1
    <3>7. g \in [From(m) -> Nat]
      <4>1. \A i \in From(m) : i # j => i \in From(m - 1)
        BY <1>1, <3>4
      <4> QED BY <3>3, <3>6, <4>1
    <3>8. ASSUME NEW i \in From(m)
          PROVE  g[i] = FromByte(b, g, i)
      <4>1. CASE i = j
        <5>1. g[j + 1] = f[j + 1] /\ ~(j > n)
          BY <1>1, <3>4
        <5> QED BY <3>4, <4>1, <5>1 DEF FromByte
      <4>2. CASE i # j
        <5>1. i \in From(m - 1) /\ g[i] = f[i]
          BY <1>1, <3>4, <4>2
        <5>2. g[i] = FromByte(b, f, i)
          BY <3>3, <5>1, Zenon
        <5>3. i <= n => g[i + 1] = f[i + 1]
          BY <1>1, <3>4, <4>2
        <5>4. i \in Nat
          BY <3>4
        <5> HIDE DEF g
        <5> QED BY <1>1, <5>2, <5>3, <5>4 DEF FromByte
      <4> QED BY <4>1, <4>2
    <3>9. g = [i \in From(m) |-> FromByte(b, g, i)]
      <4>1. g = [i \in From(m) |-> g[i]]
        OBVIOUS
      <4> HIDE DEF g, From
      <4> QED BY <3>8, <4>1
    <3> HIDE DEF g
    <3> QED BY <2>4, <3>7, <3>9
  <2> QED BY <2>5, <2>6
<1>3. Solved(n)
  <2> HIDE DEF Solved
  <2> QED BY <1>1, <1>2
<1>4. From(n) = 1 .. Len(b) + 1
  BY <1>1
<1> HIDE DEF From
<1> QED BY <1>3, <1>4

\* from_le_bytes gives a number.
LEMMA FromBytesNat ==
  ASSUME NEW b \in Seq(Nat)
  PROVE  from_le_bytes(b) \in Nat
<1> DEFINE n == Len(b)
           from == CHOOSE f : f = [i \in 1 .. n + 1 |-> FromByte(b, f, i)]
           T == {k \in 0 .. n : from[n + 1 - k] \notin Nat}
<1>1. n \in Nat
  OBVIOUS
<1>2. from = [i \in 1 .. n + 1 |-> FromByte(b, from, i)]
  BY FromBytesExists
<1>3. from_le_bytes(b) = from[1]
  BY DEF from_le_bytes, FromByte
<1> HIDE DEF from
<1>4. T = {}
  <2>1. SUFFICES ASSUME T # {} PROVE FALSE
    OBVIOUS
  <2>2. T \subseteq Nat
    BY <1>1
  <2>3. PICK m \in T : \A k \in T : m <= k
    <3> HIDE DEF T
    <3> QED BY <2>1, <2>2, LeastNat, Zenon
  <2> DEFINE j == n + 1 - m
  <2>4. j \in 1 .. n + 1 /\ m \in 0 .. n /\ from[j] \notin Nat
    BY <1>1, <2>3
  <2>5. from[j] = FromByte(b, from, j)
    BY <1>2, <2>4, Zenon
  <2>6. j <= n /\ from[j] = b[j] + Base * from[j + 1]
    BY <1>1, <2>4, <2>5 DEF FromByte
  <2>7. m - 1 \in 0 .. n /\ n + 1 - (m - 1) = j + 1 /\ m - 1 < m
    BY <1>1, <2>4, <2>6
  <2>8. from[j + 1] \in Nat
    <3>1. m - 1 \notin T
      <4> HIDE DEF T
      <4> QED BY <2>3, <2>4, <2>7
    <3>2. from[n + 1 - (m - 1)] \in Nat
      BY <2>7, <3>1
    <3> QED BY <2>7, <3>2
  <2>9. b[j] \in Nat
    BY <2>4, <2>6
  <2> HIDE DEF j
  <2>10. Base * from[j + 1] \in Nat
    BY <2>8, NatProduct
  <2> QED BY <2>4, <2>6, <2>9, <2>10
<1>5. n \in 0 .. n /\ n + 1 - n = 1
  BY <1>1
<1> QED BY <1>3, <1>4, <1>5


\* The bodies of the recursions of Limit and to_le_bytes
LimitStep(f, i) == IF i = 0 THEN 1 ELSE Base * f[i - 1]
RestStep(v, f, i) == IF i = 0 THEN v ELSE f[i - 1] \div Base

Limits(w) == CHOOSE f : f = [i \in 0 .. w |-> LimitStep(f, i)]
Rests(v, w) == CHOOSE f : f = [i \in 0 .. w |-> RestStep(v, f, i)]

LEMMA LimitsExist ==
  ASSUME NEW w \in Nat
  PROVE  \E f : f = [i \in 0 .. w |-> LimitStep(f, i)]
<1> DEFINE Solved(k) == \E f : f = [i \in 0 .. k |-> LimitStep(f, i)]
           T == {k \in Nat : ~Solved(k)}
<1>1. T = {}
  <2>1. SUFFICES ASSUME T # {} PROVE FALSE
    OBVIOUS
  <2>2. PICK m \in T : \A k \in T : m <= k
    <3> HIDE DEF T
    <3>1. T \subseteq Nat
      BY DEF T
    <3> QED BY <2>1, <3>1, LeastNat, Zenon
  <2>3. m \in Nat /\ ~Solved(m)
    BY <2>2
  <2>4. CASE m = 0
    <3> DEFINE f == [i \in 0 .. 0 |-> 1]
    <3>1. f = [i \in 0 .. 0 |-> LimitStep(f, i)]
      BY DEF LimitStep
    <3> HIDE DEF f
    <3> QED BY <2>3, <2>4, <3>1
  <2>5. CASE m # 0
    <3>1. m - 1 \in Nat /\ m - 1 < m
      BY <2>3, <2>5
    <3>2. Solved(m - 1)
      <4> HIDE DEF Solved
      <4> QED BY <2>2, <3>1
    <3>3. PICK f : f = [i \in 0 .. m - 1 |-> LimitStep(f, i)]
      BY <3>2
    <3> DEFINE g == [i \in 0 .. m |-> IF i = m THEN Base * f[m - 1] ELSE f[i]]
    <3>4. ASSUME NEW i \in 0 .. m
          PROVE  g[i] = LimitStep(g, i)
      <4>1. CASE i = m
        <5>1. g[m] = Base * f[m - 1] /\ g[m - 1] = f[m - 1]
          BY <2>3, <2>5
        <5> QED BY <2>5, <4>1, <5>1 DEF LimitStep
      <4>2. CASE i # m
        <5>1. g[i] = f[i] /\ i \in 0 .. m - 1 /\ (i # 0 => g[i - 1] = f[i - 1])
          BY <2>3, <4>2
        <5>2. f[i] = LimitStep(f, i)
          BY <3>3, <5>1, Zenon
        <5> HIDE DEF g
        <5> QED BY <5>1, <5>2 DEF LimitStep
      <4> QED BY <4>1, <4>2
    <3>5. g = [i \in 0 .. m |-> LimitStep(g, i)]
      <4>1. g = [i \in 0 .. m |-> g[i]]
        OBVIOUS
      <4> HIDE DEF g
      <4> QED BY <3>4, <4>1
    <3> HIDE DEF g
    <3> QED BY <2>3, <3>5
  <2> QED BY <2>4, <2>5
<1> HIDE DEF Solved
<1>2. Solved(w)
  BY <1>1
<1> QED BY <1>2 DEF Solved

LEMMA RestsExist ==
  ASSUME NEW v, NEW w \in Nat
  PROVE  \E f : f = [i \in 0 .. w |-> RestStep(v, f, i)]
<1> DEFINE Solved(k) == \E f : f = [i \in 0 .. k |-> RestStep(v, f, i)]
           T == {k \in Nat : ~Solved(k)}
<1>1. T = {}
  <2>1. SUFFICES ASSUME T # {} PROVE FALSE
    OBVIOUS
  <2>2. PICK m \in T : \A k \in T : m <= k
    <3> HIDE DEF T
    <3>1. T \subseteq Nat
      BY DEF T
    <3> QED BY <2>1, <3>1, LeastNat, Zenon
  <2>3. m \in Nat /\ ~Solved(m)
    BY <2>2
  <2>4. CASE m = 0
    <3> DEFINE f == [i \in 0 .. 0 |-> v]
    <3>1. f = [i \in 0 .. 0 |-> RestStep(v, f, i)]
      BY DEF RestStep
    <3> HIDE DEF f
    <3> QED BY <2>3, <2>4, <3>1
  <2>5. CASE m # 0
    <3>1. m - 1 \in Nat /\ m - 1 < m
      BY <2>3, <2>5
    <3>2. Solved(m - 1)
      <4> HIDE DEF Solved
      <4> QED BY <2>2, <3>1
    <3>3. PICK f : f = [i \in 0 .. m - 1 |-> RestStep(v, f, i)]
      BY <3>2
    <3> DEFINE g == [i \in 0 .. m |-> IF i = m THEN f[m - 1] \div Base ELSE f[i]]
    <3>4. ASSUME NEW i \in 0 .. m
          PROVE  g[i] = RestStep(v, g, i)
      <4>1. CASE i = m
        <5>1. g[m] = f[m - 1] \div Base /\ g[m - 1] = f[m - 1]
          BY <2>3, <2>5
        <5> QED BY <2>5, <4>1, <5>1 DEF RestStep
      <4>2. CASE i # m
        <5>1. g[i] = f[i] /\ i \in 0 .. m - 1 /\ (i # 0 => g[i - 1] = f[i - 1])
          BY <2>3, <4>2
        <5>2. f[i] = RestStep(v, f, i)
          BY <3>3, <5>1, Zenon
        <5> HIDE DEF g
        <5> QED BY <5>1, <5>2 DEF RestStep
      <4> QED BY <4>1, <4>2
    <3>5. g = [i \in 0 .. m |-> RestStep(v, g, i)]
      <4>1. g = [i \in 0 .. m |-> g[i]]
        OBVIOUS
      <4> HIDE DEF g
      <4> QED BY <3>4, <4>1
    <3> HIDE DEF g
    <3> QED BY <2>3, <3>5
  <2> QED BY <2>4, <2>5
<1> HIDE DEF Solved
<1>2. Solved(w)
  BY <1>1
<1> QED BY <1>2 DEF Solved

LEMMA LimitsAre ==
  ASSUME NEW w \in Nat
  PROVE  /\ Limit(w) = Limits(w)[w] /\ Limits(w)[0] = 1
         /\ \A i \in 1 .. w : Limits(w)[i] = Base * Limits(w)[i - 1]
<1> DEFINE L == Limits(w)
<1>1. Limit(w) = L[w]
  BY DEF Limit, Limits, LimitStep
<1>2. L = [i \in 0 .. w |-> LimitStep(L, i)]
  BY LimitsExist, Zenon DEF Limits
<1> HIDE DEF L
<1>3. \A i \in 0 .. w : L[i] = LimitStep(L, i)
  BY <1>2, Zenon
<1>4. L[0] = 1 /\ \A i \in 1 .. w : L[i] = Base * L[i - 1]
  BY <1>3 DEF LimitStep
<1> QED BY <1>1, <1>4 DEF L

LEMMA RestsAre ==
  ASSUME NEW v, NEW w \in Nat
  PROVE  /\ to_le_bytes(v, w) = [i \in 1 .. w |-> Rests(v, w)[i - 1] % Base]
         /\ Rests(v, w)[0] = v
         /\ \A i \in 1 .. w : Rests(v, w)[i] = Rests(v, w)[i - 1] \div Base
<1> DEFINE R == Rests(v, w)
<1>1. to_le_bytes(v, w) = [i \in 1 .. w |-> R[i - 1] % Base]
  BY DEF to_le_bytes, Rests, RestStep
<1>2. R = [i \in 0 .. w |-> RestStep(v, R, i)]
  BY RestsExist, Zenon DEF Rests
<1> HIDE DEF R
<1>3. \A i \in 0 .. w : R[i] = RestStep(v, R, i)
  BY <1>2, Zenon
<1>4. R[0] = v /\ \A i \in 1 .. w : R[i] = R[i - 1] \div Base
  BY <1>3 DEF RestStep
<1> QED BY <1>1, <1>4 DEF R

\* What division by Base does
LEMMA Division ==
  ASSUME NEW v \in Nat
  PROVE  /\ v \div Base \in Nat /\ v % Base \in Byte
         /\ v = (v % Base) + Base * (v \div Base)
         /\ \A x \in Nat : v < Base * x => v \div Base < x
<1>1. Base \in Nat /\ Base > 7
  BY LayoutAssumption
<1>2. v \div Base \in Nat /\ v % Base \in Byte
  BY <1>1 DEF Byte
<1>3. v = (v % Base) + Base * (v \div Base)
  BY <1>1
<1>4. ASSUME NEW x \in Nat, v < Base * x, v \div Base >= x
      PROVE  FALSE
  <2> DEFINE q == v \div Base
  <2>1. q \in Nat /\ q >= x /\ Base * q <= v
    BY <1>1, <1>2, <1>3, <1>4 DEF Byte
  <2> HIDE DEF q
  <2>2. Base * x <= Base * q
    <3>1. Base * q = Base * x + Base * (q - x) /\ Base * (q - x) >= 0
      BY <1>1, <2>1
    <3>2. Base * x \in Nat /\ Base * q \in Nat /\ Base * (q - x) \in Int
      BY <1>1, <2>1
    <3> QED BY <3>1, <3>2
  <2> QED BY <1>1, <1>4, <2>1, <2>2
<1> QED BY <1>2, <1>3, <1>4

LEMMA BytesAreNumbers ==
  ASSUME NEW b \in Seq(Byte)
  PROVE  b \in Seq(Nat) /\ Len(b) \in Nat /\ \A i \in 1 .. Len(b) : b[i] \in Byte
<1>1. Byte \subseteq Nat
  BY LayoutAssumption DEF Byte
<1>2. Len(b) \in Nat /\ b \in [1 .. Len(b) -> Byte]
  OBVIOUS
<1>3. b \in [1 .. Len(b) -> Nat]
  BY <1>1, <1>2
<1>4. b \in Seq(Nat)
  BY <1>2, <1>3
<1> QED BY <1>2, <1>4

\* The bytes of a number, whether or not it fits
LEMMA BytesOf ==
  ASSUME NEW v \in Nat, NEW w \in Nat
  PROVE  /\ to_le_bytes(v, w) \in Seq(Byte) /\ Len(to_le_bytes(v, w)) = w
         /\ \A i \in 0 .. w : Rests(v, w)[i] \in Nat
<1> DEFINE R == Rests(v, w)
           b == to_le_bytes(v, w)
           T == {i \in 0 .. w : R[i] \notin Nat}
<1>1. /\ b = [i \in 1 .. w |-> R[i - 1] % Base] /\ R[0] = v
      /\ \A i \in 1 .. w : R[i] = R[i - 1] \div Base
  BY RestsAre
<1> HIDE DEF R, b
<1>2. T = {}
  <2>1. SUFFICES ASSUME T # {} PROVE FALSE
    OBVIOUS
  <2>2. T \subseteq Nat
    OBVIOUS
  <2>3. PICK m \in T : \A k \in T : m <= k
    <3> HIDE DEF T
    <3> QED BY <2>1, <2>2, LeastNat, Zenon
  <2>4. m \in 1 .. w /\ R[m] \notin Nat
    BY <1>1, <2>3
  <2>5. m - 1 \in 0 .. w /\ m - 1 < m
    BY <2>4
  <2>6. R[m - 1] \in Nat
    BY <2>3, <2>5
  <2>7. R[m] = R[m - 1] \div Base
    BY <1>1, <2>4
  <2> QED BY <2>4, <2>6, <2>7, Division
<1>3. \A i \in 0 .. w : R[i] \in Nat
  BY <1>2
<1>4. \A i \in 1 .. w : b[i] \in Byte
  <2>1. ASSUME NEW i \in 1 .. w PROVE b[i] \in Byte
    <3>1. i - 1 \in 0 .. w /\ b[i] = R[i - 1] % Base
      BY <1>1
    <3>2. R[i - 1] \in Nat
      BY <1>3, <3>1
    <3> QED BY <3>1, <3>2, Division
  <2> QED BY <2>1
<1>5. DOMAIN b = 1 .. w /\ b = [i \in 1 .. w |-> b[i]]
  BY <1>1
<1>6. b \in Seq(Byte) /\ Len(b) = w
  BY <1>4, <1>5
<1> QED BY <1>3, <1>6 DEF R, b

\* A number that fits comes back from its bytes.
LEMMA RoundTrip ==
  ASSUME NEW w \in Nat, NEW v \in Nat, v < Limit(w)
  PROVE  from_le_bytes(to_le_bytes(v, w)) = v
<1> DEFINE L == Limits(w)
           R == Rests(v, w)
           b == to_le_bytes(v, w)
           F == CHOOSE f : f = [i \in 1 .. Len(b) + 1 |-> FromByte(b, f, i)]
<1>1. /\ L[0] = 1 /\ \A i \in 1 .. w : L[i] = Base * L[i - 1]
      /\ v < L[w]
  BY LimitsAre
<1>2. /\ b = [i \in 1 .. w |-> R[i - 1] % Base] /\ R[0] = v
      /\ \A i \in 1 .. w : R[i] = R[i - 1] \div Base
      /\ \A i \in 0 .. w : R[i] \in Nat
      /\ b \in Seq(Byte) /\ Len(b) = w
  BY RestsAre, BytesOf
<1>3. b \in Seq(Nat)
  BY <1>2, BytesAreNumbers
<1>4. from_le_bytes(b) = F[1]
  BY DEF from_le_bytes, FromByte
<1>5. F = [i \in 1 .. Len(b) + 1 |-> FromByte(b, F, i)]
  BY <1>3, FromBytesExists
<1> HIDE DEF L, R, b, F
<1>6. \A i \in 1 .. w + 1 : F[i] = FromByte(b, F, i)
  BY <1>2, <1>5, Zenon
<1>7. \A i \in 0 .. w : L[i] \in Nat
  <2> DEFINE T == {i \in 0 .. w : L[i] \notin Nat}
  <2>1. SUFFICES ASSUME T # {} PROVE FALSE
    OBVIOUS
  <2>2. T \subseteq Nat
    OBVIOUS
  <2>3. PICK m \in T : \A k \in T : m <= k
    <3> HIDE DEF T
    <3> QED BY <2>1, <2>2, LeastNat, Zenon
  <2>4. m \in 1 .. w /\ m - 1 \in 0 .. w /\ m - 1 < m /\ L[m] \notin Nat
    BY <1>1, <2>3
  <2>5. L[m - 1] \in Nat /\ L[m] = Base * L[m - 1]
    BY <1>1, <2>3, <2>4
  <2> QED BY <2>4, <2>5, NatProduct
<1>8. \A i \in 0 .. w : R[i] < L[w - i]
  <2> DEFINE T == {i \in 0 .. w : ~(R[i] < L[w - i])}
  <2>1. SUFFICES ASSUME T # {} PROVE FALSE
    OBVIOUS
  <2>2. T \subseteq Nat
    OBVIOUS
  <2>3. PICK m \in T : \A k \in T : m <= k
    <3> HIDE DEF T
    <3> QED BY <2>1, <2>2, LeastNat, Zenon
  <2>4. m \in 1 .. w /\ m - 1 \in 0 .. w /\ m - 1 < m /\ ~(R[m] < L[w - m])
    BY <1>1, <1>2, <2>3
  <2>5. R[m - 1] < L[w - (m - 1)]
    BY <2>3, <2>4
  <2>6. w - (m - 1) \in 1 .. w /\ w - (m - 1) - 1 = w - m /\ w - m \in 0 .. w
    BY <2>4
  <2>7. L[w - (m - 1)] = Base * L[w - m]
    BY <1>1, <2>6
  <2>8. R[m - 1] < Base * L[w - m] /\ R[m] = R[m - 1] \div Base
    BY <1>2, <2>4, <2>5, <2>7
  <2>9. R[m - 1] \in Nat /\ L[w - m] \in Nat
    BY <1>2, <1>7, <2>4, <2>6
  <2>10. R[m - 1] \div Base < L[w - m]
    BY <2>8, <2>9, Division
  <2> QED BY <2>4, <2>8, <2>10
<1>9. R[w] = 0
  <2>1. w - w = 0 /\ w \in 0 .. w
    OBVIOUS
  <2>2. R[w] < 1 /\ R[w] \in Nat
    BY <1>1, <1>2, <1>8, <2>1
  <2> QED BY <2>2
<1>10. \A k \in 0 .. w : F[w + 1 - k] = R[w - k]
  <2> DEFINE T == {k \in 0 .. w : F[w + 1 - k] # R[w - k]}
  <2>1. SUFFICES ASSUME T # {} PROVE FALSE
    OBVIOUS
  <2>2. T \subseteq Nat
    OBVIOUS
  <2>3. PICK m \in T : \A k \in T : m <= k
    <3> HIDE DEF T
    <3> QED BY <2>1, <2>2, LeastNat, Zenon
  <2>4. m \in 0 .. w /\ F[w + 1 - m] # R[w - m]
    BY <2>3
  <2>5. m # 0
    <3>1. w + 1 \in 1 .. w + 1 /\ w + 1 > Len(b)
      BY <1>2
    <3>2. F[w + 1] = 0
      BY <1>6, <3>1 DEF FromByte
    <3> QED BY <1>9, <2>4, <3>2
  <2> DEFINE i == w + 1 - m
  <2>6. i \in 1 .. w /\ i - 1 = w - m /\ i + 1 = w + 1 - (m - 1) /\ i = w - (m - 1)
        /\ m - 1 \in 0 .. w /\ m - 1 < m /\ i - 1 \in 0 .. w /\ i \in 1 .. w + 1
    BY <2>4, <2>5
  <2>7. F[w + 1 - (m - 1)] = R[w - (m - 1)]
    BY <2>3, <2>6
  <2> HIDE DEF i
  <2>8. F[i + 1] = R[i] /\ R[i] = R[i - 1] \div Base /\ R[i - 1] \in Nat
    BY <1>2, <2>6, <2>7
  <2>9. F[i] = b[i] + Base * F[i + 1]
    <3>1. F[i] = FromByte(b, F, i)
      BY <1>6, <2>6
    <3>2. ~(i > Len(b))
      BY <1>2, <2>6
    <3> QED BY <3>1, <3>2 DEF FromByte
  <2>10. b[i] = R[i - 1] % Base
    BY <1>2, <2>6
  <2>11. F[i] = (R[i - 1] % Base) + Base * (R[i - 1] \div Base)
    BY <2>8, <2>9, <2>10, Zenon
  <2>12. F[i] = R[i - 1]
    BY <2>8, <2>11, Division
  <2> QED BY <2>4, <2>6, <2>12 DEF i
<1>11. F[1] = R[0]
  <2>1. w \in 0 .. w /\ w + 1 - w = 1 /\ w - w = 0
    OBVIOUS
  <2> QED BY <1>10, <2>1
<1> QED BY <1>2, <1>4, <1>11 DEF b
-----------------------------------------------------------------------------
(***************************************************************************)
(* Bytes s at an offset of a file                                          *)
(***************************************************************************)
Has(d, at, s) == at + Len(s) <= Len(d) /\ \A k \in 1 .. Len(s) : d[at + k] = s[k]

LEMMA HasConcat ==
  ASSUME NEW d, NEW at \in Nat, NEW s \in Seq(Byte), NEW t \in Seq(Byte),
         Len(d) \in Nat, Has(d, at, s \o t)
  PROVE  Has(d, at, s) /\ Has(d, at + Len(s), t)
<1>1. Len(s) \in Nat /\ Len(t) \in Nat /\ Len(s \o t) = Len(s) + Len(t)
  OBVIOUS
<1>2. /\ \A k \in 1 .. Len(s) : (s \o t)[k] = s[k]
      /\ \A k \in 1 .. Len(t) : (s \o t)[Len(s) + k] = t[k]
  OBVIOUS
<1>3. at + (Len(s) + Len(t)) <= Len(d) /\ \A k \in 1 .. Len(s) + Len(t) : d[at + k] = (s \o t)[k]
  BY <1>1 DEF Has
<1>4. Has(d, at, s)
  BY <1>1, <1>2, <1>3 DEF Has
<1>5. ASSUME NEW k \in 1 .. Len(t) PROVE d[(at + Len(s)) + k] = t[k]
  <2>1. Len(s) + k \in 1 .. Len(s) + Len(t) /\ (at + Len(s)) + k = at + (Len(s) + k)
    BY <1>1
  <2> QED BY <1>2, <1>3, <2>1
<1>6. (at + Len(s)) + Len(t) <= Len(d)
  BY <1>1, <1>3
<1> QED BY <1>4, <1>5, <1>6 DEF Has

LEMMA HasWhole ==
  ASSUME NEW s \in Seq(Byte)
  PROVE  Has(s, 0, s)
BY DEF Has

\* A slice is what the file has there.
LEMMA SliceHas ==
  ASSUME NEW d \in Seq(Byte), NEW at \in Nat, NEW s \in Seq(Byte), Has(d, at, s)
  PROVE  Slice(d, at, at + Len(s)) = s
<1>1. Len(s) \in Nat /\ Len(d) \in Nat /\ at + Len(s) <= Len(d)
  BY DEF Has
<1>2. /\ Len(SubSeq(d, at + 1, at + Len(s))) = Len(s)
      /\ SubSeq(d, at + 1, at + Len(s)) \in Seq(Byte)
      /\ \A k \in 1 .. Len(s) : SubSeq(d, at + 1, at + Len(s))[k] = d[at + k]
  BY <1>1
<1>3. \A k \in 1 .. Len(s) : SubSeq(d, at + 1, at + Len(s))[k] = s[k]
  BY <1>2 DEF Has
<1> QED BY <1>2, <1>3 DEF Slice

LEMMA NumberHas ==
  ASSUME NEW d \in Seq(Byte), NEW at \in Nat, NEW w \in Nat, NEW v \in Unsigned(w),
         Limit(w) \in Nat, Has(d, at, to_le_bytes(v, w))
  PROVE  Number(d, at, at + w) = v
<1>1. v \in Nat /\ v < Limit(w)
  BY DEF Unsigned
<1>2. to_le_bytes(v, w) \in Seq(Byte) /\ Len(to_le_bytes(v, w)) = w
  BY <1>1, BytesOf
<1>3. Slice(d, at, at + w) = to_le_bytes(v, w)
  BY <1>2, SliceHas
<1> QED BY <1>1, <1>3, RoundTrip DEF Number

LEMMA LimitNat ==
  ASSUME NEW w \in Nat
  PROVE  /\ Limit(w) \in Nat
         /\ w >= 1 => Limit(w) >= Base
         /\ w >= 2 => Limit(w) >= Base * Base
         /\ w >= 3 => Limit(w) >= Base * (Base * Base)
<1> DEFINE L == Limits(w)
           Good(i) == /\ L[i] \in Nat
                      /\ i >= 0 => L[i] >= 1
                      /\ i >= 1 => L[i] >= Base
                      /\ i >= 2 => L[i] >= Base * Base
                      /\ i >= 3 => L[i] >= Base * (Base * Base)
           T == {i \in 0 .. w : ~Good(i)}
<1>0. Base \in Nat /\ Base > 7
  BY LayoutAssumption
<1>1. Limit(w) = L[w] /\ L[0] = 1 /\ \A i \in 1 .. w : L[i] = Base * L[i - 1]
  BY LimitsAre
<1> HIDE DEF L
<1>2. ASSUME NEW a \in Nat, NEW b \in Nat, a >= b
      PROVE  Base * a >= Base * b /\ Base * a \in Nat /\ Base * a >= a
  <2>1. Base * a = Base * b + Base * (a - b) /\ Base * (a - b) >= 0
    BY <1>0, <1>2
  <2>2. Base * b \in Nat /\ Base * a \in Nat /\ Base * (a - b) \in Nat
    BY <1>0, <1>2, NatProduct
  <2>3. Base * a = a + (Base - 1) * a /\ (Base - 1) * a >= 0
    BY <1>0
  <2>4. (Base - 1) * a \in Int
    BY <1>0
  <2> QED BY <2>1, <2>2, <2>3, <2>4
<1>3. T = {}
  <2>1. SUFFICES ASSUME T # {} PROVE FALSE
    OBVIOUS
  <2>2. T \subseteq Nat
    OBVIOUS
  <2>3. PICK m \in T : \A k \in T : m <= k
    <3> HIDE DEF T
    <3> QED BY <2>1, <2>2, LeastNat, Zenon
  <2>4. m \in 0 .. w /\ ~Good(m)
    BY <2>3
  <2>5. m # 0
    BY <1>1, <2>4
  <2>6. m - 1 \in 0 .. w /\ m - 1 < m /\ m \in 1 .. w
    BY <2>4, <2>5
  <2>7. Good(m - 1)
    <3> HIDE DEF Good
    <3> QED BY <2>3, <2>6
  <2>8. L[m] = Base * L[m - 1] /\ L[m - 1] \in Nat
    BY <1>1, <2>6, <2>7
  <2>9. L[m] \in Nat /\ L[m] >= Base * 1
    BY <1>2, <2>6, <2>7, <2>8
  <2>10. m >= 2 => L[m] >= Base * Base
    BY <1>0, <1>2, <2>6, <2>7, <2>8
  <2>11. Base * Base \in Nat
    BY <1>0, NatProduct
  <2>12. m >= 3 => L[m] >= Base * (Base * Base)
    BY <1>0, <1>2, <2>6, <2>7, <2>8, <2>11
  <2> QED BY <1>0, <2>4, <2>9, <2>10, <2>12
<1>4. Good(w)
  BY <1>3
<1> QED BY <1>1, <1>4

\* The numbers the code writes as they are
LEMMA Fits ==
  /\ \A v \in 0 .. 63 : v \in Unsigned(2) /\ v \in Unsigned(4) /\ v \in Unsigned(8)
  /\ MAX_PAYLOAD_SIZE \in Nat /\ MAX_PAYLOAD_SIZE >= 512
<1>0. Base \in Nat /\ Base > 7
  BY LayoutAssumption
<1>1. Base * Base >= 64 /\ Base * Base \in Nat
  BY <1>0
<1>2. Base * (Base * Base) >= 512 /\ Base * (Base * Base) \in Nat
  <2> DEFINE q == Base * Base
  <2>1. q >= 64 /\ q \in Nat
    BY <1>1
  <2> HIDE DEF q
  <2>2. Base * q >= 512 /\ Base * q \in Nat
    BY <1>0, <2>1
  <2> QED BY <2>2 DEF q
<1>3. /\ Limit(2) \in Nat /\ Limit(2) >= Base * Base
      /\ Limit(4) \in Nat /\ Limit(4) >= Base * Base
      /\ Limit(8) \in Nat /\ Limit(8) >= Base * Base
      /\ Limit(3) \in Nat /\ Limit(3) >= Base * (Base * Base)
  BY LimitNat
<1>4. /\ Limit(2) >= 64 /\ Limit(4) >= 64 /\ Limit(8) >= 64 /\ Limit(3) >= 512
  BY <1>1, <1>2, <1>3
<1> QED BY <1>3, <1>4 DEF Unsigned, MAX_PAYLOAD_SIZE
-----------------------------------------------------------------------------
(***************************************************************************)
(* An event, the header and the footer come back from their bytes.         *)
(***************************************************************************)
LEMMA Joined ==
  ASSUME NEW s \in Seq(Byte), NEW t \in Seq(Byte)
  PROVE  /\ s \o t \in Seq(Byte) /\ Len(s \o t) = Len(s) + Len(t)
         /\ \A k \in 1 .. Len(s) : (s \o t)[k] = s[k]
         /\ \A k \in 1 .. Len(t) : (s \o t)[Len(s) + k] = t[k]
OBVIOUS

LEMMA JoinedThree ==
  ASSUME NEW s \in Seq(Byte), NEW t \in Seq(Byte), NEW u \in Seq(Byte)
  PROVE  (s \o t) \o u = s \o (t \o u)
OBVIOUS

\* The bytes of a number that fits
LEMMA NumberBytes ==
  ASSUME NEW w \in Nat, NEW v \in Unsigned(w)
  PROVE  /\ v \in Nat /\ to_le_bytes(v, w) \in Seq(Byte)
         /\ Len(to_le_bytes(v, w)) = w
<1>1. v \in Nat
  BY LimitNat DEF Unsigned
<1> QED BY <1>1, BytesOf

\* A number behind s
IsBehind(s, w, v) ==
  /\ s \o to_le_bytes(v, w) \in Seq(Byte)
  /\ Len(s \o to_le_bytes(v, w)) = Len(s) + w
  /\ \A d \in Seq(Byte), at \in Nat :
       Has(d, at, s \o to_le_bytes(v, w)) =>
         Has(d, at, s) /\ Number(d, at + Len(s), at + Len(s) + w) = v

LEMMA NumberBehind ==
  ASSUME NEW s \in Seq(Byte), NEW w \in Nat, NEW v \in Unsigned(w)
  PROVE  IsBehind(s, w, v)
<1> DEFINE t == to_le_bytes(v, w)
<1>1. t \in Seq(Byte) /\ Limit(w) \in Nat /\ Len(t) = w
  BY NumberBytes, LimitNat
<1>2. ASSUME NEW d \in Seq(Byte), NEW at \in Nat, Has(d, at, s \o t)
      PROVE  Has(d, at, s) /\ Number(d, at + Len(s), at + Len(s) + w) = v
  <2>1. Len(d) \in Nat /\ Len(s) \in Nat
    OBVIOUS
  <2>2. Has(d, at, s) /\ Has(d, at + Len(s), t)
    <3> HIDE DEF t
    <3> QED BY <1>1, <1>2, <2>1, HasConcat
  <2>3. at + Len(s) \in Nat
    BY <2>1
  <2>4. Number(d, at + Len(s), at + Len(s) + w) = v
    BY <1>1, <2>2, <2>3, NumberHas
  <2> QED BY <2>2, <2>4
<1>3. s \o t \in Seq(Byte) /\ Len(s \o t) = Len(s) + w
  <2> HIDE DEF t
  <2> QED BY <1>1
<1> QED BY <1>2, <1>3 DEF IsBehind

\* WperfEvent::to_bytes and from_bytes
LEMMA EventRoundTrip ==
  ASSUME NEW e \in WperfEvent
  PROVE  /\ to_bytes(e) \in Seq(Byte) /\ Len(to_bytes(e)) = 40
         /\ \A d \in Seq(Byte) : Has(d, 0, to_bytes(e)) => from_bytes(d) = e
<1> DEFINE s0 == to_le_bytes(e.timestamp_ns, 8)
           s1 == s0 \o to_le_bytes(e.pid, 4)
           s2 == s1 \o to_le_bytes(e.tid, 4)
           s3 == s2 \o to_le_bytes(e.prev_tid, 4)
           s4 == s3 \o to_le_bytes(e.next_tid, 4)
           s5 == s4 \o to_le_bytes(e.prev_pid, 4)
           s6 == s5 \o to_le_bytes(e.next_pid, 4)
           s7 == s6 \o to_le_bytes(e.cpu, 2)
           two == <<e.event_type, e.prev_state>>
           s8 == s7 \o two
           s9 == s8 \o to_le_bytes(e.flags, 4)
<1>1. to_bytes(e) = s9
  BY DEF to_bytes
<1>2. /\ e.timestamp_ns \in Unsigned(8) /\ e.pid \in Unsigned(4)
      /\ e.tid \in Unsigned(4) /\ e.prev_tid \in Unsigned(4)
      /\ e.next_tid \in Unsigned(4) /\ e.prev_pid \in Unsigned(4)
      /\ e.next_pid \in Unsigned(4) /\ e.cpu \in Unsigned(2)
      /\ e.event_type \in Byte /\ e.prev_state \in Byte /\ e.flags \in Unsigned(4)
  BY DEF WperfEvent
<1>3. two \in Seq(Byte) /\ Len(two) = 2 /\ two[1] = e.event_type /\ two[2] = e.prev_state
  BY <1>2
<1>4. s0 \in Seq(Byte) /\ Len(s0) = 8
  BY <1>2, NumberBytes
<1> HIDE DEF s0, two
<1>5. /\ s1 \in Seq(Byte) /\ Len(s1) = 12
      /\ \A d \in Seq(Byte) : Has(d, 0, s1) =>
           Has(d, 0, s0) /\ Number(d, 8, 12) = e.pid
  <2>1. e.pid \in Unsigned(4) /\ 4 \in Nat /\ s0 \in Seq(Byte) /\ Len(s0) = 8
    BY <1>2, <1>4
  <2>2. /\ s1 \in Seq(Byte) /\ Len(s1) = Len(s0) + 4
        /\ \A d \in Seq(Byte), at \in Nat : Has(d, at, s1) =>
             /\ Has(d, at, s0)
             /\ Number(d, at + Len(s0), at + Len(s0) + 4) = e.pid
    BY <2>1, NumberBehind, Zenon DEF IsBehind, s1
  <2> HIDE DEF s1
  <2> QED BY <2>1, <2>2
<1> HIDE DEF s1
<1>6. /\ s2 \in Seq(Byte) /\ Len(s2) = 16
      /\ \A d \in Seq(Byte) : Has(d, 0, s2) =>
           Has(d, 0, s1) /\ Number(d, 12, 16) = e.tid
  <2>1. e.tid \in Unsigned(4) /\ 4 \in Nat /\ s1 \in Seq(Byte) /\ Len(s1) = 12
    BY <1>2, <1>5
  <2>2. /\ s2 \in Seq(Byte) /\ Len(s2) = Len(s1) + 4
        /\ \A d \in Seq(Byte), at \in Nat : Has(d, at, s2) =>
             /\ Has(d, at, s1)
             /\ Number(d, at + Len(s1), at + Len(s1) + 4) = e.tid
    BY <2>1, NumberBehind, Zenon DEF IsBehind, s2
  <2> HIDE DEF s2
  <2> QED BY <2>1, <2>2
<1> HIDE DEF s2
<1>7. /\ s3 \in Seq(Byte) /\ Len(s3) = 20
      /\ \A d \in Seq(Byte) : Has(d, 0, s3) =>
           Has(d, 0, s2) /\ Number(d, 16, 20) = e.prev_tid
  <2>1. e.prev_tid \in Unsigned(4) /\ 4 \in Nat /\ s2 \in Seq(Byte) /\ Len(s2) = 16
    BY <1>2, <1>6
  <2>2. /\ s3 \in Seq(Byte) /\ Len(s3) = Len(s2) + 4
        /\ \A d \in Seq(Byte), at \in Nat : Has(d, at, s3) =>
             /\ Has(d, at, s2)
             /\ Number(d, at + Len(s2), at + Len(s2) + 4) = e.prev_tid
    BY <2>1, NumberBehind, Zenon DEF IsBehind, s3
  <2> HIDE DEF s3
  <2> QED BY <2>1, <2>2
<1> HIDE DEF s3
<1>8. /\ s4 \in Seq(Byte) /\ Len(s4) = 24
      /\ \A d \in Seq(Byte) : Has(d, 0, s4) =>
           Has(d, 0, s3) /\ Number(d, 20, 24) = e.next_tid
  <2>1. e.next_tid \in Unsigned(4) /\ 4 \in Nat /\ s3 \in Seq(Byte) /\ Len(s3) = 20
    BY <1>2, <1>7
  <2>2. /\ s4 \in Seq(Byte) /\ Len(s4) = Len(s3) + 4
        /\ \A d \in Seq(Byte), at \in Nat : Has(d, at, s4) =>
             /\ Has(d, at, s3)
             /\ Number(d, at + Len(s3), at + Len(s3) + 4) = e.next_tid
    BY <2>1, NumberBehind, Zenon DEF IsBehind, s4
  <2> HIDE DEF s4
  <2> QED BY <2>1, <2>2
<1> HIDE DEF s4
<1>9. /\ s5 \in Seq(Byte) /\ Len(s5) = 28
      /\ \A d \in Seq(Byte) : Has(d, 0, s5) =>
           Has(d, 0, s4) /\ Number(d, 24, 28) = e.prev_pid
  <2>1. e.prev_pid \in Unsigned(4) /\ 4 \in Nat /\ s4 \in Seq(Byte) /\ Len(s4) = 24
    BY <1>2, <1>8
  <2>2. /\ s5 \in Seq(Byte) /\ Len(s5) = Len(s4) + 4
        /\ \A d \in Seq(Byte), at \in Nat : Has(d, at, s5) =>
             /\ Has(d, at, s4)
             /\ Number(d, at + Len(s4), at + Len(s4) + 4) = e.prev_pid
    BY <2>1, NumberBehind, Zenon DEF IsBehind, s5
  <2> HIDE DEF s5
  <2> QED BY <2>1, <2>2
<1> HIDE DEF s5
<1>10. /\ s6 \in Seq(Byte) /\ Len(s6) = 32
      /\ \A d \in Seq(Byte) : Has(d, 0, s6) =>
           Has(d, 0, s5) /\ Number(d, 28, 32) = e.next_pid
  <2>1. e.next_pid \in Unsigned(4) /\ 4 \in Nat /\ s5 \in Seq(Byte) /\ Len(s5) = 28
    BY <1>2, <1>9
  <2>2. /\ s6 \in Seq(Byte) /\ Len(s6) = Len(s5) + 4
        /\ \A d \in Seq(Byte), at \in Nat : Has(d, at, s6) =>
             /\ Has(d, at, s5)
             /\ Number(d, at + Len(s5), at + Len(s5) + 4) = e.next_pid
    BY <2>1, NumberBehind, Zenon DEF IsBehind, s6
  <2> HIDE DEF s6
  <2> QED BY <2>1, <2>2
<1> HIDE DEF s6
<1>11. /\ s7 \in Seq(Byte) /\ Len(s7) = 34
      /\ \A d \in Seq(Byte) : Has(d, 0, s7) =>
           Has(d, 0, s6) /\ Number(d, 32, 34) = e.cpu
  <2>1. e.cpu \in Unsigned(2) /\ 2 \in Nat /\ s6 \in Seq(Byte) /\ Len(s6) = 32
    BY <1>2, <1>10
  <2>2. /\ s7 \in Seq(Byte) /\ Len(s7) = Len(s6) + 2
        /\ \A d \in Seq(Byte), at \in Nat : Has(d, at, s7) =>
             /\ Has(d, at, s6)
             /\ Number(d, at + Len(s6), at + Len(s6) + 2) = e.cpu
    BY <2>1, NumberBehind, Zenon DEF IsBehind, s7
  <2> HIDE DEF s7
  <2> QED BY <2>1, <2>2
<1> HIDE DEF s7
<1>12. /\ s8 \in Seq(Byte) /\ Len(s8) = 36
       /\ \A d \in Seq(Byte) : Has(d, 0, s8) => Has(d, 0, s7) /\ Has(d, 34, two)
  <2>1. s8 \in Seq(Byte) /\ Len(s8) = 36
    <3>1. s8 \in Seq(Byte) /\ Len(s8) = Len(s7) + Len(two)
      BY <1>3, <1>11, Joined, Zenon DEF s8
    <3> QED BY <1>3, <1>11, <3>1
  <2>2. ASSUME NEW d \in Seq(Byte), Has(d, 0, s8)
        PROVE  Has(d, 0, s7) /\ Has(d, 34, two)
    <3>1. Len(d) \in Nat /\ 0 \in Nat /\ s7 \in Seq(Byte) /\ two \in Seq(Byte)
      BY <1>3, <1>11
    <3>2. Has(d, 0, s7) /\ Has(d, 0 + Len(s7), two)
      BY <2>2, <3>1, HasConcat DEF s8
    <3> QED BY <1>11, <3>2
  <2> QED BY <2>1, <2>2
<1> HIDE DEF s8
<1>13. /\ s9 \in Seq(Byte) /\ Len(s9) = 40
      /\ \A d \in Seq(Byte) : Has(d, 0, s9) =>
           Has(d, 0, s8) /\ Number(d, 36, 40) = e.flags
  <2>1. e.flags \in Unsigned(4) /\ 4 \in Nat /\ s8 \in Seq(Byte) /\ Len(s8) = 36
    BY <1>2, <1>12
  <2>2. /\ s9 \in Seq(Byte) /\ Len(s9) = Len(s8) + 4
        /\ \A d \in Seq(Byte), at \in Nat : Has(d, at, s9) =>
             /\ Has(d, at, s8)
             /\ Number(d, at + Len(s8), at + Len(s8) + 4) = e.flags
    BY <2>1, NumberBehind, Zenon DEF IsBehind, s9
  <2> HIDE DEF s9
  <2> QED BY <2>1, <2>2
<1> HIDE DEF s9
<1>14. ASSUME NEW d \in Seq(Byte), Has(d, 0, s9)
       PROVE  from_bytes(d) = e
  <2>1. Has(d, 0, s8) /\ Number(d, 36, 40) = e.flags
    BY <1>13, <1>14
  <2>2. Has(d, 0, s7) /\ Has(d, 34, two)
    BY <1>12, <2>1
  <2>3. d[35] = e.event_type /\ d[36] = e.prev_state
    BY <1>3, <2>2 DEF Has
  <2>4. Has(d, 0, s6) /\ Number(d, 32, 34) = e.cpu
    BY <1>11, <2>2
  <2>5. Has(d, 0, s5) /\ Number(d, 28, 32) = e.next_pid
    BY <1>10, <2>4
  <2>6. Has(d, 0, s4) /\ Number(d, 24, 28) = e.prev_pid
    BY <1>9, <2>5
  <2>7. Has(d, 0, s3) /\ Number(d, 20, 24) = e.next_tid
    BY <1>8, <2>6
  <2>8. Has(d, 0, s2) /\ Number(d, 16, 20) = e.prev_tid
    BY <1>7, <2>7
  <2>9. Has(d, 0, s1) /\ Number(d, 12, 16) = e.tid
    BY <1>6, <2>8
  <2>10. Has(d, 0, s0) /\ Number(d, 8, 12) = e.pid
    BY <1>5, <2>9
  <2>11. Number(d, 0, 8) = e.timestamp_ns
    <3>1. Limit(8) \in Nat
      BY LimitNat
    <3>2. Number(d, 0, 0 + 8) = e.timestamp_ns
      BY <1>2, <2>10, <3>1, NumberHas DEF s0
    <3> QED BY <3>2
  <2>12. from_bytes(d) = [timestamp_ns |-> e.timestamp_ns, pid |-> e.pid,
           tid |-> e.tid, prev_tid |-> e.prev_tid, next_tid |-> e.next_tid,
           prev_pid |-> e.prev_pid, next_pid |-> e.next_pid, cpu |-> e.cpu,
           event_type |-> e.event_type, prev_state |-> e.prev_state, flags |-> e.flags]
    BY <2>1, <2>3, <2>4, <2>5, <2>6, <2>7, <2>8, <2>9, <2>10, <2>11, Zenon DEF from_bytes
  <2> QED BY <2>12 DEF WperfEvent
<1> QED BY <1>1, <1>13, <1>14

LEMMA HasJoin ==
  ASSUME NEW d, NEW at \in Nat, NEW s \in Seq(Byte), NEW t \in Seq(Byte),
         Len(d) \in Nat, Has(d, at, s), Has(d, at + Len(s), t)
  PROVE  Has(d, at, s \o t)
<1>1. Len(s) \in Nat /\ Len(t) \in Nat /\ Len(s \o t) = Len(s) + Len(t)
  OBVIOUS
<1>2. /\ \A k \in 1 .. Len(s) : (s \o t)[k] = s[k]
      /\ \A k \in 1 .. Len(t) : (s \o t)[Len(s) + k] = t[k]
  OBVIOUS
<1>3. at + (Len(s) + Len(t)) <= Len(d)
  BY <1>1 DEF Has
<1>4. ASSUME NEW k \in 1 .. Len(s) + Len(t)
      PROVE  d[at + k] = (s \o t)[k]
  <2>1. CASE k <= Len(s)
    BY <1>1, <1>2, <2>1 DEF Has
  <2>2. CASE k > Len(s)
    <3>1. k - Len(s) \in 1 .. Len(t) /\ Len(s) + (k - Len(s)) = k
          /\ (at + Len(s)) + (k - Len(s)) = at + k
      BY <1>1, <2>2
    <3>2. d[(at + Len(s)) + (k - Len(s))] = t[k - Len(s)]
      BY <3>1 DEF Has
    <3> QED BY <1>2, <3>1, <3>2
  <2> QED BY <1>1, <2>1, <2>2
<1> QED BY <1>1, <1>3, <1>4 DEF Has

\* The header of a TLV record
TlvHead == <<REC_TYPE_SCHED_EVENT>> \o to_le_bytes(EVENT_SIZE, 4)

LEMMA SmallBytes ==
  /\ 0 \in Byte /\ 1 \in Byte /\ 2 \in Byte /\ 3 \in Byte
  /\ 4 \in Byte /\ 5 \in Byte /\ 6 \in Byte /\ 7 \in Byte
BY LayoutAssumption DEF Byte

LEMMA TlvHeadRead ==
  /\ TlvHead \in Seq(Byte) /\ Len(TlvHead) = 5
  /\ read_tlv_header(TlvHead) = [rec_type |-> REC_TYPE_SCHED_EVENT, length |-> EVENT_SIZE]
<1> DEFINE one == <<REC_TYPE_SCHED_EVENT>>
           bytes == to_le_bytes(40, 4)
<1>1. one \in Seq(Byte) /\ Len(one) = 1 /\ one[1] = REC_TYPE_SCHED_EVENT
  BY SmallBytes DEF REC_TYPE_SCHED_EVENT
<1>2. 40 \in Unsigned(4) /\ 4 \in Nat /\ 40 \in 0 .. 63
  BY Fits
<1>3. TlvHead = one \o bytes
  BY DEF TlvHead, EVENT_SIZE
<1> HIDE DEF one
<1>4. /\ one \o bytes \in Seq(Byte) /\ Len(one \o bytes) = Len(one) + 4
      /\ \A d \in Seq(Byte), at \in Nat : Has(d, at, one \o bytes) =>
           Has(d, at, one) /\ Number(d, at + Len(one), at + Len(one) + 4) = 40
  BY <1>1, <1>2, NumberBehind, Zenon DEF IsBehind
<1> HIDE DEF bytes
<1>5. TlvHead \in Seq(Byte) /\ Len(TlvHead) = 5
  BY <1>1, <1>3, <1>4
<1>6. Has(TlvHead, 0, one) /\ Number(TlvHead, 0 + Len(one), 0 + Len(one) + 4) = 40
  <2>1. Has(TlvHead, 0, one \o bytes)
    BY <1>3, <1>5, HasWhole
  <2>2. 0 \in Nat
    OBVIOUS
  <2> QED BY <1>4, <1>5, <2>1, <2>2, Zenon
<1>7. TlvHead[1] = REC_TYPE_SCHED_EVENT
  BY <1>1, <1>6 DEF Has
<1>8. Number(TlvHead, 1, 5) = 40
  BY <1>1, <1>6
<1> QED BY <1>5, <1>7, <1>8 DEF read_tlv_header, EVENT_SIZE

\* A record: its header, and an event
LEMMA RecordRead ==
  ASSUME NEW e \in WperfEvent
  PROVE  /\ tlv_record(to_bytes(e)) \in Seq(Byte) /\ Len(tlv_record(to_bytes(e))) = 45
         /\ tlv_record(to_bytes(e)) = TlvHead \o to_bytes(e)
         /\ from_bytes(to_bytes(e)) = e
<1> DEFINE b == to_bytes(e)
<1>1. b \in Seq(Byte) /\ Len(b) = 40
  BY EventRoundTrip
<1>2. from_bytes(b) = e
  BY <1>1, HasWhole, EventRoundTrip
<1> HIDE DEF b
<1>3. tlv_record(b) = TlvHead \o b
  BY DEF tlv_record, TlvHead
<1>4. TlvHead \o b \in Seq(Byte) /\ Len(TlvHead \o b) = Len(TlvHead) + Len(b)
  BY <1>1, TlvHeadRead, Joined, Zenon
<1>5. Len(TlvHead \o b) = 45
  BY <1>1, <1>4, TlvHeadRead
<1> QED BY <1>2, <1>3, <1>4, <1>5 DEF b
-----------------------------------------------------------------------------
\* The header with the data ending at x and a section table at t, and its bytes
HeaderOf(x, t, bit) ==
  [version |-> VERSION, endianness |-> ENDIAN_LE, host_arch |-> 0,
   data_section_end_offset |-> x, section_table_offset |-> t,
   feature_bitmap |-> [i \in 1 .. 32 |-> IF i = 1 THEN bit ELSE 0]]
HeadBytes(x, t, bit) == header_to_bytes(HeaderOf(x, t, bit))

HeadStart == MAGIC \o <<VERSION, ENDIAN_LE, 0, 0>>
HeadRest(bit) ==
  [i \in 1 .. 32 |-> IF i = 1 THEN bit ELSE 0] \o [i \in 1 .. 8 |-> 0]

LEMMA HeadParts ==
  ASSUME NEW bit \in {0, 1}
  PROVE  /\ MAGIC \in Seq(Byte) /\ Len(MAGIC) = 4
         /\ HeadStart \in Seq(Byte) /\ Len(HeadStart) = 8
         /\ \A k \in 1 .. 4 : HeadStart[k] = MAGIC[k]
         /\ HeadStart[5] = VERSION
         /\ HeadRest(bit) \in Seq(Byte) /\ Len(HeadRest(bit)) = 40
<1>1. MAGIC \in Seq(Byte) /\ Len(MAGIC) = 4
  BY SmallBytes DEF MAGIC
<1>2. /\ <<VERSION, ENDIAN_LE, 0, 0>> \in Seq(Byte)
      /\ Len(<<VERSION, ENDIAN_LE, 0, 0>>) = 4
  BY SmallBytes DEF VERSION, ENDIAN_LE
<1>3. /\ HeadStart \in Seq(Byte) /\ Len(HeadStart) = 8
      /\ \A k \in 1 .. 4 : HeadStart[k] = MAGIC[k]
      /\ HeadStart[5] = VERSION
  <2> DEFINE f == <<VERSION, ENDIAN_LE, 0, 0>>
  <2>1. f[1] = VERSION
    OBVIOUS
  <2> HIDE DEF f
  <2>2. /\ MAGIC \o f \in Seq(Byte) /\ Len(MAGIC \o f) = Len(MAGIC) + Len(f)
        /\ \A k \in 1 .. Len(MAGIC) : (MAGIC \o f)[k] = MAGIC[k]
        /\ \A k \in 1 .. Len(f) : (MAGIC \o f)[Len(MAGIC) + k] = f[k]
    BY <1>1, <1>2, Joined, Zenon DEF f
  <2>3. HeadStart = MAGIC \o f
    BY DEF HeadStart, f
  <2>4. Len(f) = 4 /\ 1 \in 1 .. Len(f) /\ Len(MAGIC) + 1 = 5
    BY <1>1, <1>2 DEF f
  <2>5. HeadStart[5] = VERSION
    BY <2>1, <2>2, <2>3, <2>4
  <2> QED BY <1>1, <2>2, <2>3, <2>4, <2>5
<1> DEFINE m == [i \in 1 .. 32 |-> IF i = 1 THEN bit ELSE 0]
           z == [i \in 1 .. 8 |-> 0]
<1>4. m \in Seq(Byte) /\ Len(m) = 32 /\ z \in Seq(Byte) /\ Len(z) = 8
  <2>1. \A i \in 1 .. 32 : m[i] \in Byte
    BY SmallBytes
  <2>2. \A i \in 1 .. 8 : z[i] \in Byte
    BY SmallBytes
  <2> QED BY <2>1, <2>2
<1>5. HeadRest(bit) = m \o z
  BY DEF HeadRest
<1> HIDE DEF m, z
<1>6. HeadRest(bit) \in Seq(Byte) /\ Len(HeadRest(bit)) = 40
  <2>1. m \o z \in Seq(Byte) /\ Len(m \o z) = Len(m) + Len(z)
    BY <1>4, Joined, Zenon
  <2> QED BY <1>4, <1>5, <2>1
<1> QED BY <1>1, <1>3, <1>6

\* A header has four parts.
LEMMA HeadIs ==
  ASSUME NEW x \in Unsigned(8), NEW t \in Unsigned(8), NEW bit \in {0, 1}
  PROVE  /\ HeadBytes(x, t, bit) \in Seq(Byte) /\ Len(HeadBytes(x, t, bit)) = 64
         /\ \A d \in Seq(Byte) : Has(d, 0, HeadBytes(x, t, bit)) <=>
              /\ Has(d, 0, HeadStart) /\ Has(d, 8, to_le_bytes(x, 8))
              /\ Has(d, 16, to_le_bytes(t, 8)) /\ Has(d, 24, HeadRest(bit))
<1> DEFINE x8 == to_le_bytes(x, 8)
           t8 == to_le_bytes(t, 8)
           rest == HeadRest(bit)
           m == [i \in 1 .. 32 |-> IF i = 1 THEN bit ELSE 0]
           z == [i \in 1 .. 8 |-> 0]
<1>1. x8 \in Seq(Byte) /\ Len(x8) = 8 /\ t8 \in Seq(Byte) /\ Len(t8) = 8
  BY NumberBytes
<1>2. /\ HeadStart \in Seq(Byte) /\ Len(HeadStart) = 8
      /\ rest \in Seq(Byte) /\ Len(rest) = 40
  BY HeadParts
<1>3. HeadBytes(x, t, bit) = (((HeadStart \o x8) \o t8) \o m) \o z /\ rest = m \o z
  BY DEF HeadBytes, header_to_bytes, HeaderOf, HeadStart, HeadRest
<1>4. m \in Seq(Byte) /\ z \in Seq(Byte)
  <2>1. \A i \in 1 .. 32 : m[i] \in Byte
    BY SmallBytes
  <2>2. \A i \in 1 .. 8 : z[i] \in Byte
    BY SmallBytes
  <2> QED BY <2>1, <2>2
<1> HIDE DEF x8, t8, rest, m, z
<1> DEFINE p == HeadStart \o x8
           q == p \o t8
<1>5. p \in Seq(Byte) /\ Len(p) = 16
  <2>1. p \in Seq(Byte) /\ Len(p) = Len(HeadStart) + Len(x8)
    BY <1>1, <1>2, Joined, Zenon
  <2> QED BY <1>1, <1>2, <2>1
<1> HIDE DEF p
<1>6. q \in Seq(Byte) /\ Len(q) = 24
  <2>1. q \in Seq(Byte) /\ Len(q) = Len(p) + Len(t8)
    BY <1>1, <1>5, Joined, Zenon
  <2> QED BY <1>1, <1>5, <2>1
<1> HIDE DEF q
<1>7. HeadBytes(x, t, bit) = q \o rest
  <2>1. HeadBytes(x, t, bit) = (q \o m) \o z
    BY <1>3 DEF p, q
  <2>2. (q \o m) \o z = q \o (m \o z)
    BY <1>4, <1>6, JoinedThree, Zenon
  <2> QED BY <1>3, <2>1, <2>2, Zenon
<1>8. q \o rest \in Seq(Byte) /\ Len(q \o rest) = 64
  <2>1. q \o rest \in Seq(Byte) /\ Len(q \o rest) = Len(q) + Len(rest)
    BY <1>2, <1>6, Joined, Zenon
  <2> QED BY <1>2, <1>6, <2>1
<1>9. ASSUME NEW d \in Seq(Byte)
      PROVE  Has(d, 0, q \o rest) <=> /\ Has(d, 0, HeadStart) /\ Has(d, 8, x8)
                                      /\ Has(d, 16, t8) /\ Has(d, 24, rest)
  <2>1. /\ Len(d) \in Nat /\ 0 \in Nat /\ 0 + Len(HeadStart) = 8
        /\ 0 + Len(p) = 16 /\ 0 + Len(q) = 24
    BY <1>2, <1>5, <1>6
  <2>2. Has(d, 0, q \o rest) <=> Has(d, 0, q) /\ Has(d, 24, rest)
    <3>1. Has(d, 0, q \o rest) <=> Has(d, 0, q) /\ Has(d, 0 + Len(q), rest)
      BY <1>2, <1>6, <2>1, HasConcat, HasJoin, Zenon
    <3> QED BY <2>1, <3>1
  <2>3. Has(d, 0, q) <=> Has(d, 0, p) /\ Has(d, 16, t8)
    <3>1. Has(d, 0, p \o t8) <=> Has(d, 0, p) /\ Has(d, 0 + Len(p), t8)
      BY <1>1, <1>5, <2>1, HasConcat, HasJoin, Zenon
    <3> QED BY <2>1, <3>1 DEF q
  <2>4. Has(d, 0, p) <=> Has(d, 0, HeadStart) /\ Has(d, 8, x8)
    <3>1. Has(d, 0, HeadStart \o x8) <=> Has(d, 0, HeadStart) /\ Has(d, 0 + Len(HeadStart), x8)
      BY <1>1, <1>2, <2>1, HasConcat, HasJoin, Zenon
    <3> QED BY <2>1, <3>1 DEF p
  <2> QED BY <2>2, <2>3, <2>4
<1> QED BY <1>7, <1>8, <1>9 DEF x8, t8, rest

\* What open and the reader make of it
LEMMA HeadRead ==
  ASSUME NEW x \in Unsigned(8), NEW t \in Unsigned(8), NEW bit \in {0, 1},
         NEW d \in Seq(Byte), Has(d, 0, HeadBytes(x, t, bit))
  PROVE  /\ Opens(d) /\ Len(d) >= 64
         /\ header_from_bytes(d).data_section_end_offset = x
         /\ header_from_bytes(d).section_table_offset = t
<1> DEFINE h == HeadBytes(x, t, bit)
<1>1. h \in Seq(Byte) /\ Len(h) = 64 /\ Limit(8) \in Nat
  BY HeadIs, LimitNat
<1>2. /\ Has(d, 0, HeadStart) /\ Has(d, 8, to_le_bytes(x, 8))
      /\ Has(d, 16, to_le_bytes(t, 8))
  BY HeadIs
<1>3. Has(h, 0, HeadStart)
  BY <1>1, HasWhole, HeadIs
<1> HIDE DEF h
<1>4. Slice(d, 0, 64) = h /\ Len(d) >= 64
  <2>1. Has(d, 0, h) /\ 0 \in Nat
    BY DEF h
  <2>2. Slice(d, 0, 0 + Len(h)) = h
    BY <1>1, <2>1, SliceHas
  <2> QED BY <1>1, <2>1, <2>2 DEF Has
<1>5. Slice(h, 0, 4) = MAGIC /\ h[5] = VERSION
  <2>1. /\ MAGIC \in Seq(Byte) /\ Len(MAGIC) = 4
        /\ HeadStart \in Seq(Byte) /\ Len(HeadStart) = 8
        /\ \A k \in 1 .. 4 : HeadStart[k] = MAGIC[k]
        /\ HeadStart[5] = VERSION
    BY HeadParts
  <2>2. h[5] = VERSION /\ Has(h, 0, MAGIC)
    BY <1>3, <2>1 DEF Has
  <2>3. Slice(h, 0, 0 + Len(MAGIC)) = MAGIC
    BY <1>1, <2>1, <2>2, SliceHas
  <2> QED BY <2>1, <2>2, <2>3
<1>6. Opens(d)
  BY <1>4, <1>5 DEF Opens, BadHeader, HEADER_SIZE
<1>7. Number(d, 8, 16) = x /\ Number(d, 16, 24) = t
  <2>1. Number(d, 8, 8 + 8) = x
    BY <1>1, <1>2, NumberHas
  <2>2. Number(d, 16, 16 + 8) = t
    BY <1>1, <1>2, NumberHas
  <2> QED BY <2>1, <2>2
<1> QED BY <1>4, <1>6, <1>7 DEF header_from_bytes
-----------------------------------------------------------------------------
\* An entry of the section table
LEMMA SectionRead ==
  ASSUME NEW off \in Unsigned(8), NEW size \in Unsigned(8)
  PROVE  /\ section_entry(SECTION_ID_METADATA, off, size) \in Seq(Byte)
         /\ Len(section_entry(SECTION_ID_METADATA, off, size)) = 20
         /\ read_section_entry(section_entry(SECTION_ID_METADATA, off, size))
              = [id |-> SECTION_ID_METADATA, offset |-> off, size |-> size]
<1> DEFINE s0 == to_le_bytes(3, 4)
           s1 == s0 \o to_le_bytes(off, 8)
           s2 == s1 \o to_le_bytes(size, 8)
<1>1. section_entry(SECTION_ID_METADATA, off, size) = s2
  BY DEF section_entry, SECTION_ID_METADATA
<1>2. 3 \in Unsigned(4) /\ 3 \in 0 .. 63 /\ 8 \in Nat /\ 4 \in Nat /\ 0 \in Nat
  BY Fits
<1>3. s0 \in Seq(Byte) /\ Len(s0) = 4
  BY <1>2, NumberBytes
<1>4. \A d \in Seq(Byte) : Has(d, 0, s0) => Number(d, 0, 4) = 3
  <2>1. Limit(4) \in Nat /\ 0 + 4 = 4
    BY LimitNat
  <2> QED BY <1>2, <2>1, NumberHas
<1> HIDE DEF s0
<1>5. /\ s1 \in Seq(Byte) /\ Len(s1) = 12
      /\ \A d \in Seq(Byte) : Has(d, 0, s1) => Has(d, 0, s0) /\ Number(d, 4, 12) = off
  <2>1. /\ s1 \in Seq(Byte) /\ Len(s1) = Len(s0) + 8
        /\ \A d \in Seq(Byte), at \in Nat : Has(d, at, s1) =>
             Has(d, at, s0) /\ Number(d, at + Len(s0), at + Len(s0) + 8) = off
    <3>1. IsBehind(s0, 8, off)
      BY <1>2, <1>3, NumberBehind, Zenon
    <3> QED BY <3>1, Zenon DEF IsBehind
  <2> HIDE DEF s1
  <2> QED BY <1>3, <2>1
<1> HIDE DEF s1
<1>6. /\ s2 \in Seq(Byte) /\ Len(s2) = 20
      /\ \A d \in Seq(Byte) : Has(d, 0, s2) => Has(d, 0, s1) /\ Number(d, 12, 20) = size
  <2>1. s1 \in Seq(Byte) /\ 8 \in Nat
    BY <1>5
  <2>2. /\ s2 \in Seq(Byte) /\ Len(s2) = Len(s1) + 8
        /\ \A d \in Seq(Byte), at \in Nat : Has(d, at, s2) =>
             Has(d, at, s1) /\ Number(d, at + Len(s1), at + Len(s1) + 8) = size
    <3>1. IsBehind(s1, 8, size)
      BY <2>1, NumberBehind, Zenon
    <3> QED BY <3>1, Zenon DEF IsBehind
  <2> HIDE DEF s2
  <2> QED BY <1>5, <2>2
<1> HIDE DEF s2
<1>7. Number(s2, 0, 4) = 3 /\ Number(s2, 4, 12) = off /\ Number(s2, 12, 20) = size
  BY <1>4, <1>5, <1>6, HasWhole
<1> QED BY <1>1, <1>6, <1>7 DEF read_section_entry, SECTION_ID_METADATA

\* An entry of the metadata whose value is a u64
LEMMA MetaEntryRead ==
  ASSUME NEW key \in Seq(Byte), Len(key) \in 0 .. 63, NEW v \in Unsigned(8)
  PROVE  /\ write_meta_entry(key, to_le_bytes(v, 8)) \in Seq(Byte)
         /\ Len(write_meta_entry(key, to_le_bytes(v, 8))) = Len(key) + 12
         /\ \A d \in Seq(Byte), at \in Nat :
              Has(d, at, write_meta_entry(key, to_le_bytes(v, 8))) =>
                /\ Number(d, at, at + 2) = Len(key)
                /\ Slice(d, at + 2, at + 2 + Len(key)) = key
                /\ Number(d, at + 2 + Len(key), at + 4 + Len(key)) = 8
                /\ Number(d, at + 4 + Len(key), at + 12 + Len(key)) = v
<1> DEFINE n == Len(key)
           s0 == to_le_bytes(n, 2)
           s1 == s0 \o key
           s2 == s1 \o to_le_bytes(8, 2)
           s3 == s2 \o to_le_bytes(v, 8)
<1>1. write_meta_entry(key, to_le_bytes(v, 8)) = s3
  <2>1. Len(to_le_bytes(v, 8)) = 8
    BY NumberBytes
  <2> QED BY <2>1, Zenon DEF write_meta_entry
<1>2. n \in Unsigned(2) /\ 8 \in Unsigned(2) /\ 8 \in 0 .. 63 /\ n \in Nat
  <2>1. n \in 0 .. 63 /\ 8 \in 0 .. 63 /\ n \in Nat
    OBVIOUS
  <2> HIDE DEF n
  <2> QED BY <2>1, Fits
<1>3. s0 \in Seq(Byte) /\ Len(s0) = 2
  BY <1>2, NumberBytes
<1>4. \A d \in Seq(Byte), at \in Nat : Has(d, at, s0) => Number(d, at, at + 2) = n
  <2>1. Limit(2) \in Nat
    BY LimitNat
  <2> HIDE DEF n
  <2> QED BY <1>2, <2>1, NumberHas
<1> HIDE DEF s0
<1>5. /\ s1 \in Seq(Byte) /\ Len(s1) = 2 + n
      /\ \A d \in Seq(Byte), at \in Nat : Has(d, at, s1) =>
           Has(d, at, s0) /\ Slice(d, at + 2, at + 2 + n) = key
  <2>1. s1 \in Seq(Byte) /\ Len(s1) = Len(s0) + n
    BY <1>3, Joined, Zenon
  <2>2. ASSUME NEW d \in Seq(Byte), NEW at \in Nat, Has(d, at, s1)
        PROVE  Has(d, at, s0) /\ Slice(d, at + 2, at + 2 + n) = key
    <3>1. Len(d) \in Nat /\ at + Len(s0) \in Nat /\ at + Len(s0) = at + 2
      BY <1>3
    <3>2. Has(d, at, s0) /\ Has(d, at + Len(s0), key)
      BY <1>3, <2>2, <3>1, HasConcat, Zenon
    <3>3. Slice(d, at + Len(s0), at + Len(s0) + n) = key
      BY <3>1, <3>2, SliceHas, Zenon
    <3> QED BY <3>1, <3>2, <3>3
  <2> HIDE DEF n, s1
  <2> QED BY <1>3, <2>1, <2>2
<1> HIDE DEF s1
<1>6. /\ s2 \in Seq(Byte) /\ Len(s2) = 4 + n
      /\ \A d \in Seq(Byte), at \in Nat : Has(d, at, s2) =>
           Has(d, at, s1) /\ Number(d, at + 2 + n, at + 4 + n) = 8
  <2>1. 2 \in Nat /\ s1 \in Seq(Byte) /\ 8 \in Unsigned(2)
    BY <1>2, <1>5
  <2>2. /\ s2 \in Seq(Byte) /\ Len(s2) = Len(s1) + 2
        /\ \A d \in Seq(Byte), at \in Nat : Has(d, at, s2) =>
             Has(d, at, s1) /\ Number(d, at + Len(s1), at + Len(s1) + 2) = 8
    <3>1. IsBehind(s1, 2, 8)
      BY <2>1, NumberBehind
    <3> QED BY <3>1, Zenon DEF IsBehind
  <2>3. \A at \in Nat : at + Len(s1) = at + 2 + n /\ at + Len(s1) + 2 = at + 4 + n
    BY <1>2, <1>5
  <2> HIDE DEF s2, n
  <2> QED BY <1>2, <1>5, <2>2, <2>3
<1> HIDE DEF s2
<1>7. /\ s3 \in Seq(Byte) /\ Len(s3) = 12 + n
      /\ \A d \in Seq(Byte), at \in Nat : Has(d, at, s3) =>
           Has(d, at, s2) /\ Number(d, at + 4 + n, at + 12 + n) = v
  <2>1. 8 \in Nat /\ s2 \in Seq(Byte)
    BY <1>6
  <2>2. /\ s3 \in Seq(Byte) /\ Len(s3) = Len(s2) + 8
        /\ \A d \in Seq(Byte), at \in Nat : Has(d, at, s3) =>
             Has(d, at, s2) /\ Number(d, at + Len(s2), at + Len(s2) + 8) = v
    <3>1. IsBehind(s2, 8, v)
      BY <2>1, NumberBehind
    <3> QED BY <3>1, Zenon DEF IsBehind
  <2>3. \A at \in Nat : at + Len(s2) = at + 4 + n /\ at + Len(s2) + 8 = at + 12 + n
    BY <1>2, <1>6
  <2> HIDE DEF s3, n
  <2> QED BY <1>2, <1>6, <2>2, <2>3
<1> HIDE DEF s3
<1> QED BY <1>1, <1>4, <1>5, <1>6, <1>7

\* The body of the loop of parse_metadata
EntryStep(data, f, at) ==
  LET at_val  == at + 2 + Number(data, at, at + 2)
      val_len == Number(data, at_val, at_val + 2)
      end     == at_val + 2 + val_len
      value(key, later) ==
        IF later # Missing THEN later
        ELSE IF Slice(data, at + 2, at_val) = key /\ val_len = 8
             THEN Number(data, at_val + 2, end) ELSE Missing
  IN  IF at + 4 > Len(data) THEN NoMetadata
      ELSE IF at_val + 2 > Len(data) THEN NoMetadata
      ELSE IF end > Len(data) THEN NoMetadata
      ELSE [event_count |-> value(EVENT_COUNT, f[end].event_count),
            drop_count  |-> value(DROP_COUNT, f[end].drop_count)]

LEMMA SliceNumber ==
  ASSUME NEW d \in Seq(Byte), NEW x \in Nat, NEW y \in Nat, x <= y, y <= Len(d)
  PROVE  Number(d, x, y) \in Nat
<1>1. d \in Seq(Nat)
  BY BytesAreNumbers
<1>2. Slice(d, x, y) \in Seq(Nat)
  BY <1>1 DEF Slice
<1> QED BY <1>2, FromBytesNat DEF Number

\* It goes on further in the payload only.
LEMMA EntryStepAgrees ==
  ASSUME NEW data \in Seq(Byte), NEW at \in 0 .. Len(data), NEW f, NEW g,
         \A to \in 0 .. Len(data) : at < to => f[to] = g[to]
  PROVE  EntryStep(data, f, at) = EntryStep(data, g, at)
<1> DEFINE at_val  == at + 2 + Number(data, at, at + 2)
           val_len == Number(data, at_val, at_val + 2)
           end     == at_val + 2 + val_len
<1>1. Len(data) \in Nat /\ at \in Nat
  OBVIOUS
<1>2. CASE at + 4 > Len(data)
  BY <1>2, Zenon DEF EntryStep
<1>3. CASE ~(at + 4 > Len(data)) /\ at_val + 2 > Len(data)
  BY <1>3, Zenon DEF EntryStep
<1>4. CASE ~(at + 4 > Len(data)) /\ ~(at_val + 2 > Len(data)) /\ end > Len(data)
  BY <1>4, Zenon DEF EntryStep
<1>5. CASE ~(at + 4 > Len(data)) /\ ~(at_val + 2 > Len(data)) /\ ~(end > Len(data))
  <2>1. at_val \in Nat /\ at_val >= at + 2
    <3>1. Number(data, at, at + 2) \in Nat
      BY <1>1, <1>5, SliceNumber
    <3> QED BY <1>1, <3>1
  <2>2. val_len \in Nat
    <3> HIDE DEF at_val
    <3>1. at_val + 2 \in Nat /\ at_val + 2 <= Len(data)
      BY <1>1, <1>5, <2>1
    <3> QED BY <2>1, <3>1, SliceNumber
  <2>3. end \in 0 .. Len(data) /\ at < end
    <3> HIDE DEF at_val, val_len
    <3> QED BY <1>1, <1>5, <2>1, <2>2
  <2>4. f[end] = g[end]
    <3> HIDE DEF end
    <3> QED BY <2>3
  <2> QED BY <1>5, <2>4, Zenon DEF EntryStep
<1> QED BY <1>2, <1>3, <1>4, <1>5

LEMMA EntriesExist ==
  ASSUME NEW data \in Seq(Byte)
  PROVE  \E f : f = [at \in 0 .. Len(data) |-> EntryStep(data, f, at)]
<1> DEFINE n == Len(data)
           Solves(f, k) == \A at \in 0 .. n : at + k >= n =>
                             f[at] = EntryStep(data, f, at)
           Solved(k) == \E f : f = [at \in 0 .. n |-> f[at]] /\ Solves(f, k)
           T == {k \in 0 .. n : ~Solved(k)}
<1>0. n \in Nat
  OBVIOUS
<1>1. T = {}
  <2>1. SUFFICES ASSUME T # {} PROVE FALSE
    OBVIOUS
  <2>2. T \subseteq Nat
    OBVIOUS
  <2>3. PICK m \in T : \A k \in T : m <= k
    <3> HIDE DEF T
    <3> QED BY <2>1, <2>2, LeastNat, Zenon
  <2>4. ~Solved(m)
    BY <2>3
  <2>5. m \in Nat /\ m \in 0 .. n
    BY <2>3
  <2>6. CASE m = 0
    <3> DEFINE f == [at \in 0 .. n |-> EntryStep(data, << >>, at)]
    <3>1. ASSUME NEW at \in 0 .. n, at + 0 >= n
          PROVE  f[at] = EntryStep(data, f, at)
      <4>1. \A to \in 0 .. n : ~(at < to)
        BY <1>0, <3>1
      <4>2. f[at] = EntryStep(data, << >>, at)
        BY Zenon
      <4> HIDE DEF f
      <4> QED BY <4>1, <4>2, EntryStepAgrees
    <3>2. f = [at \in 0 .. n |-> f[at]]
      OBVIOUS
    <3> HIDE DEF f, n
    <3> QED BY <2>4, <2>6, <3>1, <3>2, Zenon
  <2>7. CASE m # 0
    <3>1. m - 1 \in 0 .. n /\ m - 1 < m
      BY <2>7, <2>5
    <3>2. Solved(m - 1)
      <4> HIDE DEF Solved
      <4> QED BY <2>3, <2>5, <3>1
    <3>3. PICK f : f = [at \in 0 .. n |-> f[at]] /\ Solves(f, m - 1)
      BY <3>2, Zenon
    <3> DEFINE Here(at) == EntryStep(data, f, at)
               g == [at \in 0 .. n |-> IF at + m = n THEN Here(at) ELSE f[at]]
    <3>4. ASSUME NEW at \in 0 .. n, at + m >= n
          PROVE  g[at] = EntryStep(data, g, at)
      <4>1. ASSUME NEW to \in 0 .. n, at < to
            PROVE  f[to] = g[to]
        <5>1. to + m # n
          BY <1>0, <2>5, <3>4, <4>1
        <5> HIDE DEF Here
        <5> QED BY <5>1
      <4>2. g[at] = Here(at)
        <5>1. CASE at + m = n
          <6> HIDE DEF Here
          <6> QED BY <5>1
        <5>2. CASE at + m # n
          <6>1. at + (m - 1) >= n
            <7> HIDE DEF T, Solved, Solves
            <7> QED BY <1>0, <2>5, <3>4, <5>2
          <6>2. f[at] = Here(at)
            BY <3>3, <6>1
          <6> HIDE DEF Here
          <6> QED BY <5>2, <6>2
        <5> QED BY <5>1, <5>2
      <4> HIDE DEF g
      <4> QED BY <4>1, <4>2, EntryStepAgrees
    <3>5. g = [at \in 0 .. n |-> g[at]]
      OBVIOUS
    <3> HIDE DEF g
    <3>6. Solves(g, m)
      BY <3>4
    <3> HIDE DEF Solves, n
    <3> QED BY <2>4, <3>5, <3>6, Zenon
  <2> QED BY <2>6, <2>7
<1>2. Solved(n)
  <2> HIDE DEF Solved
  <2> QED BY <1>0, <1>1
<1>3. PICK f : f = [at \in 0 .. n |-> f[at]] /\ Solves(f, n)
  BY <1>2, Zenon
<1>4. \A at \in 0 .. n : f[at] = EntryStep(data, f, at)
  <2>1. \A at \in 0 .. n : at + n >= n
    BY <1>0
  <2> QED BY <1>3, <2>1
<1>5. f = [at \in 0 .. n |-> EntryStep(data, f, at)]
  BY <1>3, <1>4
<1> QED BY <1>5, Zenon

\* The metadata comes back from its bytes.
LEMMA MetadataRead ==
  ASSUME NEW v \in Unsigned(8), NEW w \in Unsigned(8)
  PROVE  /\ build_metadata(v, w) \in Seq(Byte) /\ Len(build_metadata(v, w)) = 29
         /\ parse_metadata(build_metadata(v, w)) = [event_count |-> v, drop_count |-> w]
<1> DEFINE a == write_meta_entry(EVENT_COUNT, to_le_bytes(v, 8))
           b == write_meta_entry(DROP_COUNT, to_le_bytes(w, 8))
           m == build_metadata(v, w)
           F == CHOOSE f : f = [at \in 0 .. Len(m) |-> EntryStep(m, f, at)]
<1>1. EVENT_COUNT \in Seq(Byte) /\ Len(EVENT_COUNT) = 3
  BY SmallBytes DEF EVENT_COUNT
<1>2. DROP_COUNT \in Seq(Byte) /\ Len(DROP_COUNT) = 2
  BY SmallBytes DEF DROP_COUNT
<1>3. v \in Nat /\ w \in Nat /\ v # Missing /\ w # Missing
  BY NumberBytes, LayoutAssumption
<1>4. /\ a \in Seq(Byte) /\ Len(a) = 15
      /\ \A d \in Seq(Byte) : Has(d, 0, a) =>
           /\ Number(d, 0, 2) = 3 /\ Slice(d, 2, 5) = EVENT_COUNT
           /\ Number(d, 5, 7) = 8 /\ Number(d, 7, 15) = v
  <2>1. Len(EVENT_COUNT) \in 0 .. 63
    BY <1>1
  <2>2. /\ a \in Seq(Byte) /\ Len(a) = Len(EVENT_COUNT) + 12
        /\ \A d \in Seq(Byte), at \in Nat : Has(d, at, a) =>
                /\ Number(d, at, at + 2) = Len(EVENT_COUNT)
                /\ Slice(d, at + 2, at + 2 + Len(EVENT_COUNT)) = EVENT_COUNT
                /\ Number(d, at + 2 + Len(EVENT_COUNT), at + 4 + Len(EVENT_COUNT)) = 8
                /\ Number(d, at + 4 + Len(EVENT_COUNT), at + 12 + Len(EVENT_COUNT)) = v
    BY <1>1, <2>1, MetaEntryRead, Zenon
  <2> HIDE DEF a
  <2> QED BY <1>1, <2>2
<1>5. /\ b \in Seq(Byte) /\ Len(b) = 14
      /\ \A d \in Seq(Byte) : Has(d, 15, b) =>
           /\ Number(d, 15, 17) = 2 /\ Slice(d, 17, 19) = DROP_COUNT
           /\ Number(d, 19, 21) = 8 /\ Number(d, 21, 29) = w
  <2>1. Len(DROP_COUNT) \in 0 .. 63
    BY <1>2
  <2>2. /\ b \in Seq(Byte) /\ Len(b) = Len(DROP_COUNT) + 12
        /\ \A d \in Seq(Byte), at \in Nat : Has(d, at, b) =>
                /\ Number(d, at, at + 2) = Len(DROP_COUNT)
                /\ Slice(d, at + 2, at + 2 + Len(DROP_COUNT)) = DROP_COUNT
                /\ Number(d, at + 2 + Len(DROP_COUNT), at + 4 + Len(DROP_COUNT)) = 8
                /\ Number(d, at + 4 + Len(DROP_COUNT), at + 12 + Len(DROP_COUNT)) = w
    BY <1>2, <2>1, MetaEntryRead, Zenon
  <2> HIDE DEF b
  <2> QED BY <1>2, <2>2
<1>6. m = a \o b
  BY DEF build_metadata
<1> HIDE DEF a, b, m
<1>7. m \in Seq(Byte) /\ Len(m) = 29
  <2>1. m \in Seq(Byte) /\ Len(m) = Len(a) + Len(b)
    <3>1. a \in Seq(Byte) /\ b \in Seq(Byte)
      BY <1>4, <1>5
    <3> QED BY <1>6, <3>1, Joined, Zenon
  <2> QED BY <1>4, <1>5, <2>1
<1>8. Has(m, 0, a) /\ Has(m, 15, b)
  <2>1. Has(m, 0, a \o b) /\ Len(m) \in Nat /\ 0 \in Nat /\ a \in Seq(Byte) /\ b \in Seq(Byte)
    <3>1. Has(m, 0, m)
      BY <1>7, HasWhole
    <3>2. Len(m) \in Nat /\ 0 \in Nat /\ a \in Seq(Byte) /\ b \in Seq(Byte)
      BY <1>4, <1>5, <1>7
    <3> QED BY <1>6, <3>1, <3>2, Zenon
  <2>2. Has(m, 0, a) /\ Has(m, 0 + Len(a), b)
    BY <2>1, HasConcat, Zenon
  <2> QED BY <1>4, <2>2
<1>9. /\ Number(m, 0, 2) = 3 /\ Slice(m, 2, 5) = EVENT_COUNT
      /\ Number(m, 5, 7) = 8 /\ Number(m, 7, 15) = v
  BY <1>4, <1>7, <1>8
<1>10. /\ Number(m, 15, 17) = 2 /\ Slice(m, 17, 19) = DROP_COUNT
       /\ Number(m, 19, 21) = 8 /\ Number(m, 21, 29) = w
  BY <1>5, <1>7, <1>8
<1>11. parse_metadata(m) = F[0]
  BY Zenon DEF parse_metadata, EntryStep
<1>12. F = [at \in 0 .. Len(m) |-> EntryStep(m, F, at)]
  BY <1>7, EntriesExist, Zenon
<1> HIDE DEF F
<1>13. F[0] = EntryStep(m, F, 0) /\ F[15] = EntryStep(m, F, 15) /\ F[29] = EntryStep(m, F, 29)
  <2>1. 0 \in 0 .. Len(m) /\ 15 \in 0 .. Len(m) /\ 29 \in 0 .. Len(m)
    BY <1>7
  <2> QED BY <1>12, <2>1, Zenon
<1>14. F[29] = NoMetadata
  BY <1>7, <1>13 DEF EntryStep
<1>15. DROP_COUNT # EVENT_COUNT
  BY <1>1, <1>2
<1>16. F[15] = [event_count |-> Missing, drop_count |-> w]
  <2>1. 15 + 2 + 2 = 19 /\ 19 + 2 + 8 = 29 /\ ~(15 + 4 > 29) /\ ~(19 + 2 > 29)
        /\ ~(29 > 29) /\ 15 + 2 = 17 /\ 19 + 2 = 21
    OBVIOUS
  <2>2. F[29].event_count = Missing /\ F[29].drop_count = Missing
    BY <1>14 DEF NoMetadata
  <2>3. /\ Number(m, 15, 15 + 2) = 2 /\ Number(m, 19, 19 + 2) = 8
        /\ Slice(m, 15 + 2, 19) = DROP_COUNT /\ Number(m, 19 + 2, 29) = w
    BY <1>10
  <2> QED BY <1>7, <1>13, <1>15, <2>1, <2>2, <2>3 DEF EntryStep
<1>17. F[0] = [event_count |-> v, drop_count |-> w]
  <2>1. 0 + 2 + 3 = 5 /\ 5 + 2 + 8 = 15 /\ ~(0 + 4 > 29) /\ ~(5 + 2 > 29)
        /\ ~(15 > 29) /\ 0 + 2 = 2 /\ 5 + 2 = 7
    OBVIOUS
  <2>2. F[15].event_count = Missing /\ F[15].drop_count = w
    BY <1>16
  <2>3. /\ Number(m, 0, 0 + 2) = 3 /\ Number(m, 5, 5 + 2) = 8
        /\ Slice(m, 0 + 2, 5) = EVENT_COUNT /\ Number(m, 5 + 2, 15) = v
    BY <1>9
  <2> QED BY <1>3, <1>7, <1>13, <2>1, <2>2, <2>3 DEF EntryStep
<1> QED BY <1>7, <1>11, <1>17 DEF m
-----------------------------------------------------------------------------
(***************************************************************************)
(* One step of read_all_events in any file.  The loop is a recursive       *)
(* function: that it has a solution is shown by the least distance from    *)
(* its end at which there would be none.                                   *)
(***************************************************************************)
\* What from_bytes makes of any bytes
ReadEvent ==
  [timestamp_ns : Nat, pid : Nat, tid : Nat, prev_tid : Nat, next_tid : Nat,
   prev_pid : Nat, next_pid : Nat, cpu : Nat, event_type : Nat,
   prev_state : Nat, flags : Nat]

LEMMA NumberNat ==
  ASSUME NEW b \in Seq(Nat), NEW x \in Nat, NEW y \in Nat,
         x <= y, y <= Len(b)
  PROVE  Number(b, x, y) \in Nat
<1>1. Slice(b, x, y) \in Seq(Nat)
  BY DEF Slice
<1> QED BY <1>1, FromBytesNat DEF Number

LEMMA SliceOf ==
  ASSUME NEW d \in Seq(Nat), NEW x \in Nat, NEW y \in Nat, x <= y, y <= Len(d)
  PROVE  Slice(d, x, y) \in Seq(Nat) /\ Len(Slice(d, x, y)) = y - x
BY DEF Slice

\* WperfEvent::from_bytes
LEMMA EventOfBytes ==
  ASSUME NEW b \in Seq(Nat), Len(b) = EVENT_SIZE
  PROVE  from_bytes(b) \in ReadEvent
<1>1. Len(b) = 40
  BY DEF EVENT_SIZE
<1> DEFINE Field(x, y) == Number(b, x, y)
<1>2. ASSUME NEW x \in 0 .. 40, NEW y \in 0 .. 40, x <= y
      PROVE  Field(x, y) \in Nat
  <2>1. x \in Nat /\ y \in Nat /\ x <= y /\ y <= Len(b)
    BY <1>1, <1>2
  <2> QED BY <2>1, NumberNat
<1> HIDE DEF Field
<1>3. /\ Field(0, 8) \in Nat /\ Field(8, 12) \in Nat /\ Field(12, 16) \in Nat
      /\ Field(16, 20) \in Nat /\ Field(20, 24) \in Nat /\ Field(24, 28) \in Nat
      /\ Field(28, 32) \in Nat /\ Field(32, 34) \in Nat /\ Field(36, 40) \in Nat
  BY <1>2
<1>4. b[35] \in Nat /\ b[36] \in Nat
  <2>1. 35 \in 1 .. Len(b) /\ 36 \in 1 .. Len(b)
    BY <1>1
  <2>2. \A i \in 1 .. Len(b) : b[i] \in Nat
    OBVIOUS
  <2> QED BY <2>1, <2>2
<1> QED BY <1>3, <1>4 DEF from_bytes, ReadEvent, Field

LEMMA DataEndInFile ==
  ASSUME NEW d \in Seq(Nat), Len(d) >= HEADER_SIZE
  PROVE  DataEnd(d) \in Nat /\ DataEnd(d) <= Len(d)
<1>1. Len(d) >= 64 /\ Len(d) \in Nat
  BY DEF HEADER_SIZE
<1>2. header_from_bytes(d).data_section_end_offset \in Nat
  BY <1>1, NumberNat DEF header_from_bytes
<1> QED BY <1>1, <1>2 DEF DataEnd

\* The body of the loop of read_all_events, with rest for what comes after
NextEvent(d, data_end, rest, at) ==
  LET payload_at  == at + TLV_HEADER_SIZE
      tlv         == read_tlv_header(Slice(d, at, payload_at))
      payload_end == payload_at + tlv.length
  IN  CASE payload_at > data_end -> << >>
        [] payload_at <= data_end /\ payload_at > Len(d) -> <<ReaderError>>
        [] OTHER ->
             IF tlv.length > MAX_PAYLOAD_SIZE THEN <<ReaderError>>
             ELSE IF payload_end > data_end THEN << >>
             ELSE IF tlv.rec_type # REC_TYPE_SCHED_EVENT
                  THEN rest[Skipped(payload_at, tlv.length)]
             ELSE IF tlv.length # EVENT_SIZE \/ payload_end > Len(d)
                  THEN <<ReaderError>>
             ELSE <<from_bytes(Slice(d, payload_at, payload_end))>>
                    \o rest[payload_end]

\* What a turn of the loop does: it ends with q, passes over a record, or gives
\* an event, and goes on from there.
Ends(d, data_end, at, q) == \A f : NextEvent(d, data_end, f, at) = q
Passes(d, data_end, at, to) == \A f : NextEvent(d, data_end, f, at) = f[to]
Gives(d, data_end, at, e, to) ==
  \A f : NextEvent(d, data_end, f, at) = <<e>> \o f[to]

\* It goes on further in the file only, and while there is more.
LEMMA NextEventStep ==
  ASSUME NEW d \in Seq(Nat), NEW data_end \in Nat, data_end <= Len(d), NEW at \in Nat
  PROVE  \/ Ends(d, data_end, at, << >>) \/ Ends(d, data_end, at, <<ReaderError>>)
         \/ /\ at < data_end
            /\ \E to \in Nat : at < to /\ Passes(d, data_end, at, to)
         \/ /\ at < data_end
            /\ \E to \in Nat, e \in ReadEvent :
                 at < to /\ Gives(d, data_end, at, e, to)
<1> DEFINE payload_at  == at + TLV_HEADER_SIZE
           tlv         == read_tlv_header(Slice(d, at, payload_at))
           payload_end == payload_at + tlv.length
<1>1. payload_at \in Nat /\ payload_at = at + 5 /\ Len(d) \in Nat
  BY DEF TLV_HEADER_SIZE
<1> HIDE DEF payload_at
<1>2. CASE payload_at > data_end
  <2>1. Ends(d, data_end, at, << >>)
    BY <1>1, <1>2 DEF Ends, NextEvent, payload_at
  <2> QED BY <2>1
<1>3. CASE ~(payload_at > data_end)
  <2>1. payload_at <= Len(d) /\ at < data_end
    BY <1>1, <1>3
  <2>2. tlv.length \in Nat
    <3>1. payload_at - at = 5 /\ at <= payload_at
      BY <1>1
    <3>2. Slice(d, at, payload_at) \in Seq(Nat) /\ Len(Slice(d, at, payload_at)) = 5
      BY <1>1, <2>1, <3>1, SliceOf
    <3>3. 1 \in Nat /\ 5 \in Nat /\ 1 <= 5 /\ 5 <= 5
      OBVIOUS
    <3>4. Number(Slice(d, at, payload_at), 1, 5) \in Nat
      BY <3>2, <3>3, NumberNat
    <3> QED BY <3>4 DEF read_tlv_header
  <2> HIDE DEF tlv
  <2>3. payload_end \in Nat /\ payload_end > at
    BY <1>1, <2>2
  <2> HIDE DEF payload_end
  <2>4. ASSUME NEW f
        PROVE  NextEvent(d, data_end, f, at) =
                 IF tlv.length > MAX_PAYLOAD_SIZE THEN <<ReaderError>>
                 ELSE IF payload_end > data_end THEN << >>
                 ELSE IF tlv.rec_type # REC_TYPE_SCHED_EVENT THEN f[payload_end]
                 ELSE IF tlv.length # EVENT_SIZE \/ payload_end > Len(d)
                      THEN <<ReaderError>>
                 ELSE <<from_bytes(Slice(d, payload_at, payload_end))>>
                        \o f[payload_end]
    <3>1. ~(payload_at <= data_end /\ payload_at > Len(d))
      BY <1>1, <2>1
    <3> QED BY <1>3, <3>1, Zenon DEF NextEvent, Skipped, payload_at, payload_end, tlv
  <2>5. CASE tlv.length > MAX_PAYLOAD_SIZE
    BY <2>4, <2>5, Zenon DEF Ends
  <2>6. CASE ~(tlv.length > MAX_PAYLOAD_SIZE) /\ payload_end > data_end
    BY <2>4, <2>6, Zenon DEF Ends
  <2>7. CASE /\ ~(tlv.length > MAX_PAYLOAD_SIZE) /\ ~(payload_end > data_end)
             /\ tlv.rec_type # REC_TYPE_SCHED_EVENT
    <3>1. Passes(d, data_end, at, payload_end)
      BY <2>4, <2>7, Zenon DEF Passes
    <3> QED BY <2>1, <2>3, <3>1
  <2>8. CASE /\ ~(tlv.length > MAX_PAYLOAD_SIZE) /\ ~(payload_end > data_end)
             /\ tlv.rec_type = REC_TYPE_SCHED_EVENT
    <3>1. CASE tlv.length # EVENT_SIZE \/ payload_end > Len(d)
      BY <2>4, <2>8, <3>1, Zenon DEF Ends
    <3>2. CASE ~(tlv.length # EVENT_SIZE \/ payload_end > Len(d))
      <4> DEFINE e == from_bytes(Slice(d, payload_at, payload_end))
      <4>1. payload_end - payload_at = EVENT_SIZE /\ payload_at <= payload_end
        BY <1>1, <2>2, <3>2 DEF payload_end, EVENT_SIZE
      <4>2. /\ Slice(d, payload_at, payload_end) \in Seq(Nat)
            /\ Len(Slice(d, payload_at, payload_end)) = EVENT_SIZE
        <5>1. payload_end <= Len(d)
          BY <1>1, <2>3, <3>2
        <5> QED BY <1>1, <2>3, <4>1, <5>1, SliceOf
      <4>3. e \in ReadEvent
        BY <4>2, EventOfBytes
      <4>4. Gives(d, data_end, at, e, payload_end)
        BY <2>4, <2>8, <3>2, Zenon DEF Gives
      <4> HIDE DEF e
      <4> QED BY <2>1, <2>3, <4>3, <4>4
    <3> QED BY <3>1, <3>2
  <2> QED BY <2>5, <2>6, <2>7, <2>8
<1> QED BY <1>2, <1>3

LEMMA NextEventAgrees ==
  ASSUME NEW d \in Seq(Nat), NEW data_end \in Nat, data_end <= Len(d), NEW at \in Nat,
         NEW f, NEW g,
         at < data_end => \A to \in Nat : at < to => f[to] = g[to]
  PROVE  NextEvent(d, data_end, f, at) = NextEvent(d, data_end, g, at)
<1>1. CASE \E q : Ends(d, data_end, at, q)
  BY <1>1, Zenon DEF Ends
<1>2. ASSUME at < data_end, NEW to \in Nat, at < to, Passes(d, data_end, at, to)
      PROVE  NextEvent(d, data_end, f, at) = NextEvent(d, data_end, g, at)
  <2>1. f[to] = g[to]
    BY <1>2, Zenon
  <2> QED BY <1>2, <2>1, Zenon DEF Passes
<1>3. ASSUME at < data_end, NEW to \in Nat, NEW e \in ReadEvent, at < to,
             Gives(d, data_end, at, e, to)
      PROVE  NextEvent(d, data_end, f, at) = NextEvent(d, data_end, g, at)
  <2>1. f[to] = g[to]
    BY <1>3, Zenon
  <2> QED BY <1>3, <2>1, Zenon DEF Gives
<1> QED BY <1>1, <1>2, <1>3, NextEventStep

LEMMA NextEventExists ==
  ASSUME NEW d \in Seq(Nat), NEW data_end \in Nat, data_end <= Len(d)
  PROVE  \E f : f = [at \in Nat |-> NextEvent(d, data_end, f, at)]
<1> DEFINE Solves(f, k) == \A at \in Nat : at + k >= data_end =>
                             f[at] = NextEvent(d, data_end, f, at)
           Solved(k) == \E f : f = [at \in Nat |-> f[at]] /\ Solves(f, k)
           T == {k \in 0 .. data_end : ~Solved(k)}
<1>1. T = {}
  <2>1. SUFFICES ASSUME T # {} PROVE FALSE
    OBVIOUS
  <2>2. T \subseteq Nat
    OBVIOUS
  <2>3. PICK m \in T : \A k \in T : m <= k
    <3> HIDE DEF T
    <3> QED BY <2>1, <2>2, LeastNat, Zenon
  <2>4. ~Solved(m)
    BY <2>3
  <2>5. m \in Nat /\ m \in 0 .. data_end
    BY <2>3
  <2>6. CASE m = 0
    <3> DEFINE f == [at \in Nat |-> NextEvent(d, data_end, << >>, at)]
    <3>1. ASSUME NEW at \in Nat, at + 0 >= data_end
          PROVE  f[at] = NextEvent(d, data_end, f, at)
      <4>1. ~(at < data_end)
        BY <3>1
      <4>2. f[at] = NextEvent(d, data_end, << >>, at)
        BY Zenon
      <4> HIDE DEF f
      <4> QED BY <4>1, <4>2, NextEventAgrees
    <3>2. f = [at \in Nat |-> f[at]]
      OBVIOUS
    <3> HIDE DEF f
    <3> QED BY <2>4, <2>6, <3>1, <3>2, Zenon
  <2>7. CASE m # 0
    <3>1. m - 1 \in 0 .. data_end /\ m - 1 < m
      BY <2>7, <2>5
    <3>2. Solved(m - 1)
      <4> HIDE DEF Solved
      <4> QED BY <2>3, <2>5, <3>1
    <3>3. PICK f : f = [at \in Nat |-> f[at]] /\ Solves(f, m - 1)
      BY <3>2, Zenon
    <3> DEFINE Here(at) == NextEvent(d, data_end, f, at)
               g == [at \in Nat |-> IF at + m = data_end THEN Here(at) ELSE f[at]]
    <3>4. ASSUME NEW at \in Nat, at + m >= data_end
          PROVE  g[at] = NextEvent(d, data_end, g, at)
      <4>1. ASSUME NEW to \in Nat, at < to
            PROVE  f[to] = g[to]
        <5>1. to + m # data_end
          BY <2>5, <3>4, <4>1
        <5> HIDE DEF Here
        <5> QED BY <5>1
      <4>2. g[at] = Here(at)
        <5>1. CASE at + m = data_end
          <6> HIDE DEF Here
          <6> QED BY <5>1
        <5>2. CASE at + m # data_end
          <6>1. at + (m - 1) >= data_end
            <7> HIDE DEF T, Solved, Solves
            <7> QED BY <2>5, <3>4, <5>2
          <6>2. f[at] = Here(at)
            BY <3>3, <6>1
          <6> HIDE DEF Here
          <6> QED BY <5>2, <6>2
        <5> QED BY <5>1, <5>2
      <4> HIDE DEF g
      <4> QED BY <4>1, <4>2, NextEventAgrees
    <3>5. g = [at \in Nat |-> g[at]]
      OBVIOUS
    <3> HIDE DEF g
    <3>6. Solves(g, m)
      BY <3>4
    <3> HIDE DEF Solves
    <3> QED BY <2>4, <3>5, <3>6, Zenon
  <2> QED BY <2>6, <2>7
<1>2. Solved(data_end)
  <2> HIDE DEF Solved
  <2> QED BY <1>1
<1>3. PICK f : f = [at \in Nat |-> f[at]] /\ Solves(f, data_end)
  BY <1>2, Zenon
<1>4. \A at \in Nat : f[at] = NextEvent(d, data_end, f, at)
  <2>1. \A at \in Nat : at + data_end >= data_end
    OBVIOUS
  <2> QED BY <1>3, <2>1
<1>5. f = [at \in Nat |-> NextEvent(d, data_end, f, at)]
  BY <1>3, <1>4
<1> QED BY <1>5, Zenon
-----------------------------------------------------------------------------
(***************************************************************************)
(* What the reader makes of a file that holds the records of the trace, as *)
(* far as it goes                                                          *)
(***************************************************************************)
\* Whatever d has behind an offset is what s begins with.
At(d, at, s) == \A k \in 1 .. Len(s) : at + k <= Len(d) => d[at + k] = s[k]

LEMMA AtHas ==
  ASSUME NEW d, NEW at \in Nat, NEW s, At(d, at, s), Len(d) \in Nat,
         NEW n \in Nat, Len(s) = n, at + n <= Len(d)
  PROVE  Has(d, at, s)
BY DEF At, Has

LEMMA AtConcat ==
  ASSUME NEW d, NEW at \in Nat, NEW s \in Seq(Byte), NEW t \in Seq(Byte),
         Len(d) \in Nat, At(d, at, s \o t)
  PROVE  At(d, at, s) /\ At(d, at + Len(s), t)
<1>1. Len(s) \in Nat /\ Len(t) \in Nat /\ Len(s \o t) = Len(s) + Len(t)
  OBVIOUS
<1>2. /\ \A k \in 1 .. Len(s) : (s \o t)[k] = s[k]
      /\ \A k \in 1 .. Len(t) : (s \o t)[Len(s) + k] = t[k]
  OBVIOUS
<1>3. \A k \in 1 .. Len(s) + Len(t) : at + k <= Len(d) => d[at + k] = (s \o t)[k]
  BY <1>1 DEF At
<1>4. At(d, at, s)
  BY <1>1, <1>2, <1>3 DEF At
<1>5. ASSUME NEW k \in 1 .. Len(t), (at + Len(s)) + k <= Len(d)
      PROVE  d[(at + Len(s)) + k] = t[k]
  <2>1. Len(s) + k \in 1 .. Len(s) + Len(t) /\ (at + Len(s)) + k = at + (Len(s) + k)
    BY <1>1
  <2> QED BY <1>2, <1>3, <1>5, <2>1
<1> QED BY <1>4, <1>5 DEF At

\* One turn of next_event at a record
LEMMA RecordTurn ==
  ASSUME NEW d \in Seq(Byte), NEW data_end \in Nat, data_end <= Len(d),
         NEW at \in Nat, NEW e \in WperfEvent, At(d, at, tlv_record(to_bytes(e)))
  PROVE  /\ at + 45 <= data_end => Gives(d, data_end, at, e, at + 45)
         /\ data_end < at + 45 => Ends(d, data_end, at, << >>)
<1> DEFINE b == to_bytes(e)
           tlv == read_tlv_header(Slice(d, at, at + 5))
<1>1. Len(d) \in Nat
  OBVIOUS
<1>2. b \in Seq(Byte) /\ Len(b) = 40 /\ from_bytes(b) = e
  BY EventRoundTrip, RecordRead
<1>3. At(d, at, TlvHead) /\ At(d, at + 5, b)
  <2> HIDE DEF b
  <2>1. At(d, at, TlvHead \o b)
    BY RecordRead DEF b
  <2>2. At(d, at, TlvHead) /\ At(d, at + Len(TlvHead), b)
    BY <1>1, <1>2, <2>1, TlvHeadRead, AtConcat
  <2> QED BY <2>2, TlvHeadRead
<1> HIDE DEF b
<1>4. ASSUME data_end < at + 5
      PROVE  Ends(d, data_end, at, << >>)
  <2> DEFINE payload_at == at + TLV_HEADER_SIZE
  <2>1. payload_at > data_end /\ payload_at \in Nat
    BY <1>4 DEF TLV_HEADER_SIZE
  <2> HIDE DEF payload_at
  <2> QED BY <2>1 DEF Ends, NextEvent, payload_at
<1>5. ASSUME at + 5 <= data_end
      PROVE  /\ tlv.rec_type = REC_TYPE_SCHED_EVENT /\ tlv.length = EVENT_SIZE
             /\ \A f : NextEvent(d, data_end, f, at) =
                  IF at + 45 > data_end THEN << >>
                  ELSE <<from_bytes(Slice(d, at + 5, at + 45))>> \o f[at + 45]
  <2>1. Slice(d, at, at + 5) = TlvHead
    <3>1. Has(d, at, TlvHead)
      BY <1>1, <1>3, <1>5, TlvHeadRead DEF At, Has
    <3>2. Slice(d, at, at + Len(TlvHead)) = TlvHead
      BY <3>1, TlvHeadRead, SliceHas
    <3> QED BY <3>2, TlvHeadRead
  <2>2. tlv.rec_type = REC_TYPE_SCHED_EVENT /\ tlv.length = EVENT_SIZE
    BY <2>1, TlvHeadRead
  <2> HIDE DEF tlv
  <2>3. /\ at + TLV_HEADER_SIZE = at + 5 /\ at + 5 + tlv.length = at + 45
        /\ ~(at + 5 > data_end) /\ ~(at + 5 <= data_end /\ at + 5 > Len(d))
        /\ ~(tlv.length > MAX_PAYLOAD_SIZE) /\ ~(tlv.rec_type # REC_TYPE_SCHED_EVENT)
        /\ at + 45 <= data_end => ~(tlv.length # EVENT_SIZE \/ at + 45 > Len(d))
    <3>1. tlv.length = 40
      BY <2>2 DEF EVENT_SIZE
    <3>2. ~(tlv.length > MAX_PAYLOAD_SIZE)
      BY <3>1, Fits
    <3>3. at + TLV_HEADER_SIZE = at + 5 /\ at + 5 + tlv.length = at + 45
      BY <3>1 DEF TLV_HEADER_SIZE
    <3>4. /\ ~(at + 5 > data_end) /\ ~(at + 5 <= data_end /\ at + 5 > Len(d))
          /\ at + 45 <= data_end => ~(at + 45 > Len(d))
      BY <1>1, <1>5
    <3> QED BY <2>2, <3>2, <3>3, <3>4
  <2>4. ASSUME NEW f
        PROVE  NextEvent(d, data_end, f, at) =
                 IF at + 45 > data_end THEN << >>
                 ELSE <<from_bytes(Slice(d, at + 5, at + 45))>> \o f[at + 45]
    <3>1. NextEvent(d, data_end, f, at) =
            IF tlv.length > MAX_PAYLOAD_SIZE THEN <<ReaderError>>
            ELSE IF at + 45 > data_end THEN << >>
            ELSE IF tlv.rec_type # REC_TYPE_SCHED_EVENT
                 THEN f[Skipped(at + 5, tlv.length)]
            ELSE IF tlv.length # EVENT_SIZE \/ at + 45 > Len(d)
                 THEN <<ReaderError>>
            ELSE <<from_bytes(Slice(d, at + 5, at + 45))>> \o f[at + 45]
      BY <2>3, Zenon DEF NextEvent, tlv
    <3>2. CASE at + 45 > data_end
      BY <2>3, <3>1, <3>2, Zenon
    <3>3. CASE ~(at + 45 > data_end)
      <4>1. at + 45 <= data_end
        BY <3>3
      <4> QED BY <2>3, <3>1, <3>3, <4>1, Zenon
    <3> QED BY <3>2, <3>3
  <2> QED BY <2>2, <2>4
<1>6. ASSUME at + 45 <= data_end
      PROVE  Gives(d, data_end, at, e, at + 45)
  <2>1. at + 5 <= data_end /\ ~(at + 45 > data_end)
    BY <1>6
  <2>2. Slice(d, at + 5, at + 45) = b
    <3>1. Has(d, at + 5, b) /\ at + 5 \in Nat /\ at + 5 + Len(b) = at + 45
      <4>1. at + 5 \in Nat /\ 40 \in Nat /\ (at + 5) + 40 = at + 45 /\ (at + 5) + 40 <= Len(d)
        BY <1>1, <1>6
      <4>2. Has(d, at + 5, b)
        BY <1>1, <1>2, <1>3, <4>1, AtHas
      <4> QED BY <1>2, <4>1, <4>2
    <3>2. Slice(d, at + 5, at + 5 + Len(b)) = b
      BY <1>2, <3>1, SliceHas
    <3> QED BY <3>1, <3>2
  <2>3. \A f : NextEvent(d, data_end, f, at) =
          <<from_bytes(Slice(d, at + 5, at + 45))>> \o f[at + 45]
    BY <1>5, <2>1, Zenon
  <2> QED BY <1>2, <2>2, <2>3, Zenon DEF Gives
<1>7. ASSUME data_end < at + 45
      PROVE  Ends(d, data_end, at, << >>)
  <2>1. CASE at + 5 <= data_end
    <3>1. at + 45 > data_end
      BY <1>7
    <3> QED BY <1>5, <2>1, <3>1, Zenon DEF Ends
  <2>2. CASE ~(at + 5 <= data_end)
    BY <1>4, <2>2
  <2> QED BY <2>1, <2>2
<1> QED BY <1>6, <1>7

\* d holds the records of the first n events, as far as it goes.
HoldsRecords(d, n) == \A i \in 1 .. n : At(d, 64 + 45 * (i - 1), Record(i))

\* Offsets of the file fit in eight bytes.
LEMMA OffsetsFit ==
  /\ Len(Trace) \in Nat /\ \A i \in 1 .. Len(Trace) : Trace[i] \in WperfEvent
  /\ \A x \in Nat : x <= 113 + 45 * Len(Trace) => x \in Unsigned(8)
<1>1. /\ Len(Trace) \in Nat /\ \A i \in 1 .. Len(Trace) : Trace[i] \in WperfEvent
      /\ FileLimit \in Unsigned(8)
  BY WprfFileAssumption
<1>2. 0 \in Unsigned(8) /\ Limit(8) \in Nat
  <2>1. 0 \in 0 .. 63
    OBVIOUS
  <2> QED BY <2>1, Fits, LimitNat
<1>3. Len(build_metadata(0, 0)) = 29
  BY <1>2, MetadataRead
<1>4. FileLimit = 113 + 45 * Len(Trace)
  <2> DEFINE len == Len(Trace)
  <2>1. FileLimit = 64 + len * (5 + 40) + 29 + 20
    BY <1>3 DEF FileLimit, HEADER_SIZE, TLV_HEADER_SIZE, EVENT_SIZE, SECTION_ENTRY_SIZE
  <2>2. len \in Nat
    BY <1>1
  <2> HIDE DEF len
  <2>3. FileLimit = 113 + 45 * len
    BY <2>1, <2>2
  <2> QED BY <2>3 DEF len
<1>5. ASSUME NEW x \in Nat, x <= 113 + 45 * Len(Trace)
      PROVE  x \in Unsigned(8)
  <2>1. 113 + 45 * Len(Trace) < Limit(8)
    BY <1>1, <1>2, <1>4 DEF Unsigned
  <2> QED BY <1>1, <1>2, <1>5, <2>1 DEF Unsigned
<1> QED BY <1>1, <1>5

\* A reader gets the events of the records that are complete before the bookmark.
LEMMA JoinedSeq ==
  ASSUME NEW S, NEW s \in Seq(S), NEW t \in Seq(S)
  PROVE  /\ s \o t \in Seq(S) /\ Len(s \o t) = Len(s) + Len(t)
         /\ \A k \in 1 .. Len(s) : (s \o t)[k] = s[k]
         /\ \A k \in 1 .. Len(t) : (s \o t)[Len(s) + k] = t[k]
OBVIOUS

LEMMA SubSeqFirst ==
  ASSUME NEW S, NEW s \in Seq(S), NEW m \in Nat, m <= Len(s), NEW i \in 1 .. m
  PROVE  <<s[i]>> \o SubSeq(s, i + 1, m) = SubSeq(s, i, m)
<1> DEFINE t == SubSeq(s, i + 1, m)
           u == SubSeq(s, i, m)
           f == <<s[i]>>
<1>1. Len(s) \in Nat /\ i \in Nat /\ i >= 1 /\ i <= m /\ i \in 1 .. Len(s)
  OBVIOUS
<1>2. u \in Seq(S) /\ Len(u) = m - i + 1
  BY <1>1
<1>3. \A k \in 1 .. m - i + 1 : u[k] = s[i + k - 1]
  BY <1>1
<1>4. t \in Seq(S)
  BY <1>1
<1>5. Len(t) = m - i
  BY <1>1
<1>6. \A k \in 1 .. m - i : t[k] = s[i + k]
  BY <1>1
<1>7. f \in Seq(S) /\ Len(f) = 1 /\ f[1] = s[i]
  BY <1>1
<1> HIDE DEF t, u, f
<1> DEFINE z == f \o t
<1>8. /\ z \in Seq(S) /\ Len(z) = 1 + Len(t)
      /\ z[1] = f[1] /\ \A k \in 1 .. Len(t) : z[1 + k] = t[k]
  <2>1. f \in Seq(S) /\ t \in Seq(S)
    BY <1>4, <1>7
  <2>2. /\ z \in Seq(S) /\ Len(z) = Len(f) + Len(t)
        /\ \A k \in 1 .. Len(f) : z[k] = f[k]
        /\ \A k \in 1 .. Len(t) : z[Len(f) + k] = t[k]
    <3>1. \A g, h \in Seq(S) :
            /\ g \o h \in Seq(S) /\ Len(g \o h) = Len(g) + Len(h)
            /\ \A k \in 1 .. Len(g) : (g \o h)[k] = g[k]
            /\ \A k \in 1 .. Len(h) : (g \o h)[Len(g) + k] = h[k]
      BY JoinedSeq
    <3> QED BY <2>1, <3>1, Zenon
  <2> HIDE DEF z
  <2>3. 1 \in 1 .. Len(f)
    BY <1>7
  <2> QED BY <1>7, <2>2, <2>3
<1> HIDE DEF z
<1>9. Len(z) = Len(u)
  BY <1>1, <1>2, <1>5, <1>8
<1>10. ASSUME NEW k \in 1 .. Len(u)
       PROVE  z[k] = u[k]
  <2>1. k \in 1 .. m - i + 1 /\ u[k] = s[i + k - 1]
    BY <1>2, <1>3
  <2>2. CASE k = 1
    <3>1. i + k - 1 = i
      BY <1>1, <2>2
    <3> QED BY <1>7, <1>8, <2>1, <2>2, <3>1
  <2>3. CASE k # 1
    <3> DEFINE h == k - 1
    <3>1. h \in 1 .. m - i /\ 1 + h = k /\ i + h = i + k - 1
      BY <1>1, <2>1, <2>3
    <3> HIDE DEF h
    <3>2. h \in 1 .. Len(t)
      BY <1>5, <3>1
    <3>3. z[1 + h] = t[h] /\ t[h] = s[i + h]
      BY <1>6, <1>8, <3>1, <3>2
    <3> QED BY <2>1, <3>1, <3>3
  <2> QED BY <2>2, <2>3
<1>11. z = u
  BY <1>2, <1>8, <1>9, <1>10
<1> QED BY <1>11 DEF z, u, f, t

LEMMA ReadsPrefix ==
  ASSUME NEW n \in 0 .. Len(Trace), NEW j \in 0 .. n, NEW t \in Unsigned(8),
         NEW bit \in {0, 1}, NEW d \in Seq(Byte),
         Has(d, 0, HeadBytes(64 + 45 * j, t, bit)), HoldsRecords(d, n)
  PROVE  \E J \in 0 .. j : /\ read_all_events(d) = Events(J)
                           /\ 64 + 45 * j <= Len(d) => J = j
<1> DEFINE data_end == DataEnd(d)
           F == CHOOSE f : f = [at \in Nat |-> NextEvent(d, data_end, f, at)]
<1>1. /\ Len(Trace) \in Nat /\ n \in Nat /\ j \in Nat /\ j <= n /\ n <= Len(Trace)
      /\ Len(d) \in Nat /\ d \in Seq(Nat)
  BY OffsetsFit, BytesAreNumbers
<1>2. 64 + 45 * j \in Unsigned(8) /\ 64 + 45 * j \in Nat
  BY <1>1, OffsetsFit
<1>3. Len(d) >= 64 /\ header_from_bytes(d).data_section_end_offset = 64 + 45 * j
  BY <1>2, HeadRead
<1>4. /\ data_end \in Nat /\ data_end <= Len(d) /\ data_end >= 64
      /\ data_end = IF 64 + 45 * j <= Len(d) THEN 64 + 45 * j ELSE Len(d)
  BY <1>1, <1>2, <1>3 DEF DataEnd
<1>5. read_all_events(d) = F[64]
  BY Zenon DEF read_all_events, NextEvent, HEADER_SIZE
<1>6. F = [at \in Nat |-> NextEvent(d, data_end, F, at)]
  <2> HIDE DEF data_end
  <2> QED BY <1>1, <1>4, NextEventExists, Zenon
<1> HIDE DEF data_end, F
<1>7. \A at \in Nat : F[at] = NextEvent(d, data_end, F, at)
  BY <1>6, Zenon
<1>8. PICK J \in 0 .. j : /\ 64 + 45 * J <= data_end
                          /\ 64 + 45 * j <= Len(d) => J = j
                          /\ J = j => data_end = 64 + 45 * J
                          /\ J < j => data_end < 64 + 45 * J + 45
  <2>1. CASE 64 + 45 * j <= Len(d)
    <3>1. j \in 0 .. j
      BY <1>1
    <3> QED BY <1>1, <1>4, <2>1, <3>1
  <2>2. CASE ~(64 + 45 * j <= Len(d))
    <3> DEFINE y == Len(d) - 64
               q == y \div 45
    <3>1. q \in Nat /\ 45 * q <= Len(d) - 64 /\ Len(d) - 64 < 45 * q + 45
      <4>1. y \in Nat
        BY <1>1, <1>3
      <4> HIDE DEF y
      <4>2. q \in Nat /\ 45 * q <= y /\ y < 45 * q + 45
        BY <4>1
      <4> QED BY <4>2 DEF y
    <3> HIDE DEF q
    <3>2. q \in 0 .. j /\ q # j
      BY <1>1, <2>2, <3>1
    <3> QED BY <1>1, <1>4, <2>2, <3>1, <3>2
  <2> QED BY <2>1, <2>2
<1>9. ASSUME NEW i \in 1 .. n
      PROVE  /\ Trace[i] \in WperfEvent /\ 64 + 45 * (i - 1) \in Nat
             /\ At(d, 64 + 45 * (i - 1), tlv_record(to_bytes(Trace[i])))
  BY <1>1, OffsetsFit DEF HoldsRecords, Record
<1>10. F[64 + 45 * J] = << >>
  <2> DEFINE at == 64 + 45 * J
  <2>1. at \in Nat /\ at <= data_end
    BY <1>1, <1>8
  <2>2. CASE J = j
    <3> DEFINE payload_at == at + TLV_HEADER_SIZE
    <3>1. payload_at > data_end /\ payload_at \in Nat
      BY <1>8, <2>1, <2>2 DEF TLV_HEADER_SIZE
    <3> HIDE DEF payload_at
    <3> HIDE DEF at
    <3>2. NextEvent(d, data_end, F, at) = << >>
      BY <1>1, <1>4, <3>1 DEF NextEvent, payload_at
    <3>3. F[at] = << >>
      BY <1>7, <2>1, <3>2
    <3> QED BY <3>3 DEF at
  <2>3. CASE J < j
    <3>1. J + 1 \in 1 .. n /\ 64 + 45 * ((J + 1) - 1) = at /\ data_end < at + 45
      BY <1>1, <1>8, <2>3
    <3> HIDE DEF at
    <3>2. Trace[J + 1] \in WperfEvent /\ At(d, at, tlv_record(to_bytes(Trace[J + 1])))
      BY <1>9, <3>1
    <3>3. Ends(d, data_end, at, << >>)
      BY <1>4, <2>1, <3>1, <3>2, RecordTurn
    <3>4. F[at] = << >>
      BY <1>7, <2>1, <3>3, Zenon DEF Ends
    <3> QED BY <3>4 DEF at
  <2> QED BY <1>1, <2>2, <2>3
<1>11. ASSUME NEW i \in 1 .. J
       PROVE  F[64 + 45 * (i - 1)] = <<Trace[i]>> \o F[64 + 45 * i]
  <2> DEFINE at == 64 + 45 * (i - 1)
  <2>1. i \in 1 .. n /\ at \in Nat /\ at + 45 = 64 + 45 * i /\ at + 45 <= data_end
    <3>1. i \in Nat /\ J \in Nat /\ i >= 1 /\ i <= J /\ J <= j
      BY <1>1, <1>8
    <3>2. at \in Nat /\ at + 45 = 64 + 45 * i /\ i \in 1 .. n
      BY <1>1, <3>1
    <3>3. 64 + 45 * i <= 64 + 45 * J /\ 64 + 45 * J <= data_end
      BY <1>8, <3>1
    <3> QED BY <1>4, <3>1, <3>2, <3>3
  <2>2. Trace[i] \in WperfEvent /\ At(d, at, tlv_record(to_bytes(Trace[i])))
    BY <1>9, <2>1
  <2> HIDE DEF at
  <2>3. Gives(d, data_end, at, Trace[i], at + 45)
    BY <1>4, <2>1, <2>2, RecordTurn
  <2>4. F[at] = <<Trace[i]>> \o F[at + 45]
    BY <1>7, <2>1, <2>3, Zenon DEF Gives
  <2> QED BY <2>1, <2>4 DEF at
<1>12. \A k \in 0 .. J : F[64 + 45 * (J - k)] = SubSeq(Trace, J - k + 1, J)
  <2> DEFINE T == {k \in 0 .. J : F[64 + 45 * (J - k)] # SubSeq(Trace, J - k + 1, J)}
  <2>1. SUFFICES ASSUME T # {} PROVE FALSE
    OBVIOUS
  <2>2. T \subseteq Nat
    OBVIOUS
  <2>3. PICK m \in T : \A k \in T : m <= k
    <3> HIDE DEF T
    <3> QED BY <2>1, <2>2, LeastNat, Zenon
  <2>4. m \in 0 .. J /\ F[64 + 45 * (J - m)] # SubSeq(Trace, J - m + 1, J)
    BY <2>3
  <2>5. J \in Nat /\ J <= Len(Trace) /\ Trace \in Seq(WperfEvent)
    BY <1>1, <1>8, WprfFileAssumption
  <2>6. m # 0
    <3>1. SubSeq(Trace, J + 1, J) = << >>
      BY <2>5
    <3>2. J - 0 = J
      BY <2>5
    <3> QED BY <1>10, <2>4, <3>1, <3>2
  <2> DEFINE i == J - m + 1
  <2>7. i \in 1 .. J /\ J - m = i - 1 /\ J - (m - 1) = i /\ m - 1 \in 0 .. J /\ m - 1 < m
    BY <2>4, <2>5, <2>6
  <2>8. F[64 + 45 * (J - (m - 1))] = SubSeq(Trace, J - (m - 1) + 1, J)
    <3>1. m - 1 \notin T
      <4> HIDE DEF T
      <4> QED BY <2>3, <2>4, <2>7
    <3> QED BY <2>7, <3>1
  <2> HIDE DEF i
  <2>9. F[64 + 45 * i] = SubSeq(Trace, i + 1, J)
    BY <2>7, <2>8
  <2>10. F[64 + 45 * (i - 1)] = <<Trace[i]>> \o SubSeq(Trace, i + 1, J)
    BY <1>11, <2>7, <2>9
  <2>11. <<Trace[i]>> \o SubSeq(Trace, i + 1, J) = SubSeq(Trace, i, J)
    <3>1. i \in 1 .. Len(Trace)
      BY <2>5, <2>7
    <3> QED BY <2>5, <2>7, <3>1, SubSeqFirst
  <2> QED BY <2>4, <2>7, <2>10, <2>11 DEF i
<1>13. F[64] = SubSeq(Trace, 1, J)
  <2>1. J \in 0 .. J /\ 64 + 45 * (J - J) = 64 /\ J - J + 1 = 1
    BY <1>8
  <2> QED BY <1>12, <2>1
<1> QED BY <1>5, <1>8, <1>13 DEF Events

\* d holds the footer of a file of n events, as far as it goes.
Section(n) == section_entry(SECTION_ID_METADATA, 64 + 45 * n, 29)
HoldsFooter(d, n, v) ==
  At(d, 64 + 45 * n, build_metadata(n, v)) /\ At(d, 93 + 45 * n, Section(n))

\* The entry of the section table that names the metadata
Table(d) == header_from_bytes(d).section_table_offset
Entry(d, k) ==
  read_section_entry(Slice(d, Table(d) + k * SECTION_ENTRY_SIZE,
                           Table(d) + (k + 1) * SECTION_ENTRY_SIZE))
Found(d) == {k \in 0 .. Len(d) : /\ Table(d) + (k + 1) * SECTION_ENTRY_SIZE <= Len(d)
                                 /\ Entry(d, k).id = SECTION_ID_METADATA}

\* read_metadata, with and without one
LEMMA MetadataIs ==
  ASSUME NEW d
  PROVE  /\ Table(d) = 0 \/ Found(d) = {} => read_metadata(d) = NoMetadata
         /\ \A e \in [id : Nat, offset : Nat, size : Nat] :
              /\ Table(d) # 0 /\ Found(d) # {} /\ e = Entry(d, Min(Found(d)))
              /\ ~(e.size > MAX_PAYLOAD_SIZE) /\ ~(e.offset + e.size > Len(d))
              => read_metadata(d) = parse_metadata(Slice(d, e.offset, e.offset + e.size))
<1> DEFINE P(e) ==
        IF e.size > MAX_PAYLOAD_SIZE \/ e.offset + e.size > Len(d) THEN ReaderError
        ELSE parse_metadata(Slice(d, e.offset, e.offset + e.size))
           payload == [e \in [id : Nat, offset : Nat, size : Nat] |-> P(e)]
<1>1. read_metadata(d) =
        IF Table(d) = 0 \/ Found(d) = {} THEN NoMetadata
        ELSE payload[Entry(d, Min(Found(d)))]
  BY Zenon DEF read_metadata, Table, Entry, Found
<1>2. ASSUME NEW e \in [id : Nat, offset : Nat, size : Nat],
             ~(e.size > MAX_PAYLOAD_SIZE), ~(e.offset + e.size > Len(d))
      PROVE  payload[e] = parse_metadata(Slice(d, e.offset, e.offset + e.size))
  <2>1. payload[e] = P(e)
    BY Zenon
  <2> QED BY <1>2, <2>1, Zenon
<1> HIDE DEF payload
<1> QED BY <1>1, <1>2, Zenon

LEMMA NoFooterRead ==
  ASSUME NEW x \in Unsigned(8), NEW bit \in {0, 1}, NEW d \in Seq(Byte),
         Has(d, 0, HeadBytes(x, 0, bit))
  PROVE  read_metadata(d) = NoMetadata
<1>1. 0 \in Unsigned(8)
  <2>1. 0 \in 0 .. 63
    OBVIOUS
  <2> QED BY <2>1, Fits
<1>2. Table(d) = 0
  BY <1>1, HeadRead DEF Table
<1> QED BY <1>2, MetadataIs

LEMMA FooterRead ==
  ASSUME NEW n \in 0 .. Len(Trace), NEW v \in Unsigned(8), NEW x \in Unsigned(8),
         NEW bit \in {0, 1}, NEW d \in Seq(Byte),
         Has(d, 0, HeadBytes(x, 93 + 45 * n, bit)), HoldsFooter(d, n, v)
  PROVE  /\ 113 + 45 * n <= Len(d) =>
              read_metadata(d) = [event_count |-> n, drop_count |-> v]
         /\ ~(113 + 45 * n <= Len(d)) => read_metadata(d) = NoMetadata
<1> DEFINE table == 93 + 45 * n
           e == [id |-> SECTION_ID_METADATA, offset |-> 64 + 45 * n, size |-> 29]
<1>1. /\ Len(Trace) \in Nat /\ n \in Nat /\ n <= Len(Trace) /\ Len(d) \in Nat
      /\ n \in Unsigned(8) /\ table \in Unsigned(8) /\ table \in Nat /\ table # 0
      /\ 64 + 45 * n \in Unsigned(8) /\ 64 + 45 * n \in Nat
  <2>1. Len(Trace) \in Nat /\ n \in Nat /\ n <= Len(Trace) /\ Len(d) \in Nat
    BY OffsetsFit
  <2>2. /\ n <= 113 + 45 * Len(Trace) /\ table <= 113 + 45 * Len(Trace)
        /\ 64 + 45 * n <= 113 + 45 * Len(Trace)
        /\ table \in Nat /\ table # 0 /\ 64 + 45 * n \in Nat
    BY <2>1
  <2> HIDE DEF table
  <2> QED BY <2>1, <2>2, OffsetsFit
<1>2. Table(d) = table
  BY <1>1, HeadRead DEF Table
<1>3. ASSUME ~(113 + 45 * n <= Len(d))
      PROVE  read_metadata(d) = NoMetadata
  <2>1. ASSUME NEW k \in 0 .. Len(d)
        PROVE  ~(Table(d) + (k + 1) * SECTION_ENTRY_SIZE <= Len(d))
    BY <1>1, <1>2, <1>3 DEF SECTION_ENTRY_SIZE
  <2>2. Found(d) = {}
    BY <2>1 DEF Found
  <2> QED BY <2>2, MetadataIs
<1>4. ASSUME 113 + 45 * n <= Len(d)
      PROVE  read_metadata(d) = [event_count |-> n, drop_count |-> v]
  <2>1. 29 \in Unsigned(8) /\ 29 \in 0 .. 63
    BY Fits
  <2>2. Section(n) \in Seq(Byte) /\ Len(Section(n)) = 20 /\ read_section_entry(Section(n)) = e
    BY <1>1, <2>1, SectionRead DEF Section
  <2>3. /\ build_metadata(n, v) \in Seq(Byte) /\ Len(build_metadata(n, v)) = 29
        /\ parse_metadata(build_metadata(n, v)) = [event_count |-> n, drop_count |-> v]
    BY <1>1, MetadataRead
  <2>4. Slice(d, table, table + 20) = Section(n)
    <3>1. At(d, table, Section(n)) /\ table + 20 <= Len(d)
      BY <1>1, <1>4 DEF HoldsFooter
    <3> HIDE DEF table
    <3>2. Has(d, table, Section(n))
      BY <1>1, <2>2, <3>1, AtHas
    <3>3. Slice(d, table, table + Len(Section(n))) = Section(n)
      BY <1>1, <2>2, <3>2, SliceHas
    <3> QED BY <2>2, <3>3
  <2>5. Slice(d, 64 + 45 * n, 64 + 45 * n + 29) = build_metadata(n, v)
    <3> DEFINE at == 64 + 45 * n
    <3>1. At(d, at, build_metadata(n, v)) /\ at + 29 <= Len(d) /\ at \in Nat
      BY <1>1, <1>4 DEF HoldsFooter
    <3> HIDE DEF at
    <3>2. Has(d, at, build_metadata(n, v))
      BY <1>1, <2>3, <3>1, AtHas
    <3>3. Slice(d, at, at + Len(build_metadata(n, v))) = build_metadata(n, v)
      BY <2>3, <3>1, <3>2, SliceHas
    <3>4. Slice(d, at, at + 29) = build_metadata(n, v)
      BY <2>3, <3>3
    <3> QED BY <3>4 DEF at
  <2>6. Entry(d, 0) = e /\ Table(d) + (0 + 1) * SECTION_ENTRY_SIZE <= Len(d)
    <3>1. /\ Table(d) + 0 * SECTION_ENTRY_SIZE = table
          /\ Table(d) + (0 + 1) * SECTION_ENTRY_SIZE = table + 20 /\ table + 20 <= Len(d)
      BY <1>1, <1>2, <1>4 DEF SECTION_ENTRY_SIZE
    <3> HIDE DEF table, e
    <3>2. Entry(d, 0) = e
      BY <2>2, <2>4, <3>1, Zenon DEF Entry
    <3> QED BY <3>1, <3>2
  <2>7. 0 \in Found(d)
    <3>1. 0 \in 0 .. Len(d) /\ e.id = SECTION_ID_METADATA
      BY <1>1
    <3> HIDE DEF e
    <3> QED BY <2>6, <3>1 DEF Found
  <2>8. Min(Found(d)) = 0
    <3>1. \A k \in Found(d) : 0 <= k /\ k \in Nat
      BY DEF Found
    <3>2. \E k \in Found(d) : \A y \in Found(d) : k <= y
      BY <2>7, <3>1
    <3>3. Min(Found(d)) \in Found(d) /\ \A y \in Found(d) : Min(Found(d)) <= y
      BY <3>2, Zenon DEF Min
    <3> QED BY <2>7, <3>1, <3>3
  <2>10. /\ e \in [id : Nat, offset : Nat, size : Nat]
         /\ e.size = 29 /\ e.offset = 64 + 45 * n
    BY <1>1 DEF SECTION_ID_METADATA
  <2> HIDE DEF e
  <2>11. ~(e.size > MAX_PAYLOAD_SIZE) /\ ~(e.offset + e.size > Len(d))
    <3>1. ~(29 > MAX_PAYLOAD_SIZE)
      BY Fits
    <3>2. ~(64 + 45 * n + 29 > Len(d))
      BY <1>1, <1>4
    <3> QED BY <2>10, <3>1, <3>2, Zenon
  <2>12. e = Entry(d, Min(Found(d))) /\ Table(d) # 0 /\ Found(d) # {}
    BY <1>1, <1>2, <2>6, <2>7, <2>8
  <2>13. read_metadata(d) = parse_metadata(Slice(d, e.offset, e.offset + e.size))
    BY <2>10, <2>11, <2>12, MetadataIs, Zenon
  <2> QED BY <2>3, <2>5, <2>10, <2>13
<1> QED BY <1>3, <1>4
-----------------------------------------------------------------------------
(***************************************************************************)
(* The inductive invariant.  While the writer appends, the file and what   *)
(* is buffered make one sequence: a header, the records accepted so far    *)
(* and, from finish on, the footer.  It is not disturbed by a flush, which *)
(* moves the place where the two meet.  When a bookmark or the last header *)
(* is written, the buffer holds those bytes only.                          *)
(***************************************************************************)
\* d holds the records of n events, and the footer behind them.
Written(d, n, v) ==
  /\ d \in Seq(Byte)
  /\ HoldsRecords(d, n)
  /\ Len(d) > 64 + 45 * n => v \in Drops /\ HoldsFooter(d, n, v)

\* A header without a footer, whose bookmark names the first j events
Begins(d, j) == Has(d, 0, HeadBytes(64 + 45 * j, 0, 0))

\* Of n events the bookmark names j, all but late of those it should.
Fresh(j, n, late) ==
  j \in 0 .. n /\ j >= (n \div BookmarkEvery) * BookmarkEvery - late

\* Nothing is written of an empty file; otherwise all the bookmark names is there.
InFile(j, d) == IF d = << >> THEN j = 0 ELSE 64 + 45 * j <= Len(d)

Appending(late) ==
  /\ pos = Len(disk)
  /\ Written(disk \o buf, event_count, drops)
  /\ \E j \in Nat : /\ Begins(disk \o buf, j)
                    /\ Fresh(j, event_count, late) /\ InFile(j, disk)

AppendedTo(end) == Len(disk) + Len(buf) = end

Bookmarking ==
  /\ Len(disk) = 64 + 45 * event_count
  /\ Written(disk, event_count, drops)
  /\ \/ /\ pos = 8 /\ buf = to_le_bytes(64 + 45 * event_count, 8)
        /\ \E j \in Nat : Begins(disk, j) /\ Fresh(j, event_count, BookmarkEvery)
     \/ buf = << >> /\ Begins(disk, event_count)

FinalHead(n) == HeadBytes(64 + 45 * n, 93 + 45 * n, 1)

Sealing ==
  /\ Len(disk) = 113 + 45 * event_count
  /\ Written(disk, event_count, drops)
  /\ \/ /\ pos = 0 /\ buf = FinalHead(event_count)
        /\ \E j \in Nat : Begins(disk, j) /\ Fresh(j, event_count, 0)
     \/ buf = << >> /\ Has(disk, 0, FinalHead(event_count))

\* Every header the file ever had names events that were accepted, and a footer
\* only when the whole footer is in the file.
OldHeader(h, n, len) ==
  \/ \E j \in 0 .. n : h = HeadBytes(64 + 45 * j, 0, 0)
  \/ h = FinalHead(n) /\ len >= 113 + 45 * n

Common ==
  /\ buf \in Seq(Byte) /\ disk \in Seq(Byte)
  /\ event_count \in 0 .. Len(Trace)
  /\ \A h \in old_headers : OldHeader(h, event_count, Len(disk))
  /\ disk = << >> => old_headers = {}
  /\ disk # << >> => Len(disk) >= 64 /\ Slice(disk, 0, 64) \in old_headers

Shape ==
  \/ /\ stage \in {"ready", "append"}
     /\ stage = "append" => event_count < Len(Trace)
     /\ Appending(0) /\ AppendedTo(64 + 45 * event_count)
     /\ \E x \in Nat : header = HeaderOf(x, 0, 0)
  \/ /\ stage = "bookmark"
     /\ Appending(BookmarkEvery) /\ AppendedTo(64 + 45 * event_count)
     /\ \E x \in Nat : header = HeaderOf(x, 0, 0)
  \/ /\ stage = "bookmark_written" /\ Bookmarking
     /\ header = HeaderOf(64 + 45 * event_count, 0, 0)
  \/ /\ stage = "finish" /\ drops \in Drops
     /\ Appending(0) /\ AppendedTo(64 + 45 * event_count)
     /\ \E x \in Nat : header = HeaderOf(x, 0, 0)
  \/ /\ stage = "metadata"
     /\ Appending(0) /\ AppendedTo(93 + 45 * event_count)
     /\ header = HeaderOf(64 + 45 * event_count, 0, 0)
  \/ /\ stage = "section_table"
     /\ Appending(0) /\ AppendedTo(113 + 45 * event_count)
     /\ header = HeaderOf(64 + 45 * event_count, 93 + 45 * event_count, 0)
  \/ stage \in {"header", "finished"} /\ Sealing
  \/ stage = "failed" /\ (Appending(BookmarkEvery) \/ Bookmarking \/ Sealing)

FileInv == Common /\ Shape
-----------------------------------------------------------------------------
\* p is as d is, behind the header and as far as it goes.
TailOf(p, d) == Len(p) <= Len(d) /\ \A q \in 65 .. Len(p) : p[q] = d[q]

LEMMA WrittenTail ==
  ASSUME NEW d, NEW n \in 0 .. Len(Trace), NEW v, Written(d, n, v),
         NEW p \in Seq(Byte), TailOf(p, d)
  PROVE  Written(p, n, v)
<1>1. d \in Seq(Byte) /\ Len(d) \in Nat /\ Len(p) \in Nat /\ n \in Nat
  BY OffsetsFit DEF Written
<1>2. ASSUME NEW at \in Nat, at >= 64, NEW u, At(d, at, u)
      PROVE  At(p, at, u)
  <2>1. ASSUME NEW k \in 1 .. Len(u), at + k <= Len(p)
        PROVE  p[at + k] = u[k]
    <3>1. k \in Nat /\ at + k \in 65 .. Len(p) /\ at + k <= Len(d)
      BY <1>1, <1>2, <2>1 DEF TailOf
    <3>2. p[at + k] = d[at + k]
      BY <3>1 DEF TailOf
    <3> QED BY <1>2, <3>1, <3>2 DEF At
  <2> QED BY <2>1 DEF At
<1>3. HoldsRecords(p, n)
  <2>1. ASSUME NEW i \in 1 .. n
        PROVE  At(p, 64 + 45 * (i - 1), Record(i))
    <3>1. 64 + 45 * (i - 1) \in Nat /\ 64 + 45 * (i - 1) >= 64
      BY <1>1
    <3>2. At(d, 64 + 45 * (i - 1), Record(i))
      BY DEF Written, HoldsRecords
    <3> QED BY <1>2, <3>1, <3>2
  <2> QED BY <2>1 DEF HoldsRecords
<1>4. ASSUME Len(p) > 64 + 45 * n
      PROVE  v \in Drops /\ HoldsFooter(p, n, v)
  <2>1. Len(d) > 64 + 45 * n
    BY <1>1, <1>4 DEF TailOf
  <2>2. v \in Drops /\ HoldsFooter(d, n, v)
    BY <2>1 DEF Written
  <2>3. /\ 64 + 45 * n \in Nat /\ 64 + 45 * n >= 64
        /\ 93 + 45 * n \in Nat /\ 93 + 45 * n >= 64
    BY <1>1
  <2> QED BY <1>2, <2>2, <2>3 DEF HoldsFooter
<1> QED BY <1>3, <1>4 DEF Written

LEMMA AtAppend ==
  ASSUME NEW d \in Seq(Byte), NEW s \in Seq(Byte)
  PROVE  At(d \o s, Len(d), s)
<1>1. /\ Len(d) \in Nat /\ Len(s) \in Nat
      /\ \A k \in 1 .. Len(s) : (d \o s)[Len(d) + k] = s[k]
  OBVIOUS
<1> QED BY <1>1 DEF At

LEMMA AtKept ==
  ASSUME NEW d \in Seq(Byte), NEW s \in Seq(Byte), NEW at \in Nat, NEW u,
         At(d, at, u), NEW n \in Nat, Len(u) = n, at + n <= Len(d)
  PROVE  At(d \o s, at, u)
<1>1. /\ Len(d) \in Nat
      /\ \A k \in 1 .. Len(d) : (d \o s)[k] = d[k]
  OBVIOUS
<1>2. ASSUME NEW k \in 1 .. Len(u)
      PROVE  (d \o s)[at + k] = u[k]
  <2>1. at + k \in 1 .. Len(d) /\ at + k <= Len(d)
    BY <1>1
  <2> QED BY <1>1, <2>1 DEF At
<1> QED BY <1>2 DEF At

\* The next record
LEMMA WrittenRecord ==
  ASSUME NEW d, NEW n \in 0 .. Len(Trace), n < Len(Trace), NEW v, Written(d, n, v),
         Len(d) = 64 + 45 * n
  PROVE  /\ Written(d \o Record(n + 1), n + 1, v)
         /\ Len(d \o Record(n + 1)) = 64 + 45 * (n + 1)
<1> DEFINE r == Record(n + 1)
           e == d \o r
<1>1. d \in Seq(Byte) /\ HoldsRecords(d, n) /\ n \in Nat /\ Len(Trace) \in Nat
  BY OffsetsFit DEF Written
<1>2. \A i \in 1 .. Len(Trace) : Record(i) \in Seq(Byte) /\ Len(Record(i)) = 45
  BY OffsetsFit, RecordRead DEF Record
<1>3. n + 1 \in 1 .. Len(Trace)
  BY <1>1
<1>4. r \in Seq(Byte) /\ Len(r) = 45
  BY <1>2, <1>3
<1> HIDE DEF r
<1>5. e \in Seq(Byte) /\ Len(e) = Len(d) + Len(r)
  BY <1>1, <1>4, Joined, Zenon
<1>6. At(e, Len(d), r)
  BY <1>1, <1>4, AtAppend, Zenon
<1> HIDE DEF e
<1>7. Len(e) = 64 + 45 * (n + 1)
  BY <1>1, <1>4, <1>5
<1>8. ASSUME NEW i \in 1 .. n + 1
      PROVE  At(e, 64 + 45 * (i - 1), Record(i))
  <2>1. CASE i = n + 1
    <3>1. 64 + 45 * (i - 1) = Len(d)
      BY <1>1, <2>1
    <3> QED BY <1>6, <2>1, <3>1 DEF r
  <2>2. CASE i # n + 1
    <3> DEFINE at == 64 + 45 * (i - 1)
    <3>1. i \in 1 .. n /\ i \in 1 .. Len(Trace) /\ at \in Nat /\ at + 45 <= Len(d)
      BY <1>1, <2>2
    <3>2. At(d, at, Record(i)) /\ Len(Record(i)) = 45
      BY <1>1, <1>2, <3>1 DEF HoldsRecords
    <3> HIDE DEF at
    <3>3. At(e, at, Record(i))
      <4>1. 45 \in Nat
        OBVIOUS
      <4> QED BY <1>1, <1>4, <3>1, <3>2, <4>1, AtKept, Zenon DEF e
    <3> QED BY <3>3 DEF at
  <2> QED BY <2>1, <2>2
<1>9. ~(Len(e) > 64 + 45 * (n + 1))
  BY <1>1, <1>7
<1>10. Written(e, n + 1, v)
  BY <1>5, <1>8, <1>9 DEF Written, HoldsRecords
<1> QED BY <1>7, <1>10 DEF e, r

\* The metadata, and the section table
LEMMA WrittenFooter ==
  ASSUME NEW d, NEW n \in 0 .. Len(Trace), NEW v \in Drops, Written(d, n, v)
  PROVE  /\ Len(d) = 64 + 45 * n =>
              /\ Written(d \o build_metadata(n, v), n, v)
              /\ Len(d \o build_metadata(n, v)) = 93 + 45 * n
              /\ build_metadata(n, v) \in Seq(Byte)
         /\ Len(d) = 93 + 45 * n =>
              /\ Written(d \o Section(n), n, v)
              /\ Len(d \o Section(n)) = 113 + 45 * n
              /\ Section(n) \in Seq(Byte)
<1> DEFINE m == build_metadata(n, v)
           s == Section(n)
<1>1. d \in Seq(Byte) /\ HoldsRecords(d, n) /\ n \in Nat /\ Len(Trace) \in Nat
  BY OffsetsFit DEF Written
<1>2. n \in Unsigned(8) /\ v \in Unsigned(8) /\ 64 + 45 * n \in Unsigned(8) /\ 29 \in Unsigned(8)
  <2>1. 29 \in 0 .. 63 /\ 64 + 45 * n \in Nat /\ n <= 113 + 45 * Len(Trace)
        /\ 64 + 45 * n <= 113 + 45 * Len(Trace)
    BY <1>1
  <2> QED BY <1>1, <2>1, OffsetsFit, Fits, WprfFileAssumption
<1>3. m \in Seq(Byte) /\ Len(m) = 29 /\ s \in Seq(Byte) /\ Len(s) = 20
  BY <1>2, MetadataRead, SectionRead DEF Section
<1>4. \A i \in 1 .. Len(Trace) : Len(Record(i)) = 45
  BY OffsetsFit, RecordRead DEF Record
<1> HIDE DEF m, s
<1>5. ASSUME NEW u \in Seq(Byte), Len(d) >= 64 + 45 * n
      PROVE  HoldsRecords(d \o u, n)
  <2>1. ASSUME NEW i \in 1 .. n
        PROVE  At(d \o u, 64 + 45 * (i - 1), Record(i))
    <3> DEFINE at == 64 + 45 * (i - 1)
    <3>1. i \in 1 .. Len(Trace) /\ at \in Nat /\ at + 45 <= Len(d)
      BY <1>1, <1>5
    <3>2. At(d, at, Record(i)) /\ Len(Record(i)) = 45
      BY <1>1, <1>4, <3>1 DEF HoldsRecords
    <3> HIDE DEF at
    <3>3. At(d \o u, at, Record(i))
      <4>1. 45 \in Nat
        OBVIOUS
      <4> QED BY <1>1, <3>1, <3>2, <4>1, AtKept, Zenon
    <3> QED BY <3>3 DEF at
  <2> QED BY <2>1 DEF HoldsRecords
<1>6. ASSUME Len(d) = 64 + 45 * n
      PROVE  Written(d \o m, n, v) /\ Len(d \o m) = 93 + 45 * n
  <2>1. d \o m \in Seq(Byte) /\ Len(d \o m) = Len(d) + Len(m)
    BY <1>1, <1>3, Joined, Zenon
  <2>2. Len(d \o m) = 93 + 45 * n
    BY <1>1, <1>3, <1>6, <2>1
  <2>3. HoldsRecords(d \o m, n)
    BY <1>1, <1>3, <1>5, <1>6
  <2>4. At(d \o m, 64 + 45 * n, m)
    BY <1>1, <1>3, <1>6, AtAppend
  <2>5. At(d \o m, 93 + 45 * n, s)
    BY <1>1, <1>3, <2>2 DEF At
  <2> QED BY <2>1, <2>2, <2>3, <2>4, <2>5 DEF Written, HoldsFooter, m, s
<1>7. ASSUME Len(d) = 93 + 45 * n
      PROVE  Written(d \o s, n, v) /\ Len(d \o s) = 113 + 45 * n
  <2>1. d \o s \in Seq(Byte) /\ Len(d \o s) = Len(d) + Len(s)
    BY <1>1, <1>3, Joined, Zenon
  <2>2. Len(d \o s) = 113 + 45 * n
    BY <1>1, <1>3, <1>7, <2>1
  <2>3. HoldsRecords(d \o s, n)
    BY <1>1, <1>3, <1>5, <1>7
  <2>4. At(d \o s, 64 + 45 * n, m)
    <3> DEFINE at == 64 + 45 * n
    <3>1. at \in Nat /\ at + 29 <= Len(d) /\ Len(d) > 64 + 45 * n
      BY <1>1, <1>7
    <3>2. At(d, at, m)
      BY <3>1 DEF Written, HoldsFooter, m
    <3> HIDE DEF at
    <3>3. At(d \o s, at, m)
      <4>1. 29 \in Nat
        OBVIOUS
      <4> QED BY <1>1, <1>3, <3>1, <3>2, <4>1, AtKept, Zenon
    <3> QED BY <3>3 DEF at
  <2>5. At(d \o s, 93 + 45 * n, s)
    BY <1>1, <1>3, <1>7, AtAppend
  <2> QED BY <2>1, <2>2, <2>3, <2>4, <2>5 DEF Written, HoldsFooter, m, s
<1> QED BY <1>3, <1>6, <1>7 DEF m, s
-----------------------------------------------------------------------------
LEMMA Splits ==
  ASSUME NEW s \in Seq(Byte), NEW m \in 0 .. Len(s)
  PROVE  /\ SubSeq(s, 1, m) \in Seq(Byte) /\ Len(SubSeq(s, 1, m)) = m
         /\ SubSeq(s, m + 1, Len(s)) \in Seq(Byte)
         /\ Len(SubSeq(s, m + 1, Len(s))) = Len(s) - m
         /\ SubSeq(s, 1, m) \o SubSeq(s, m + 1, Len(s)) = s
<1> DEFINE a == SubSeq(s, 1, m)
           c == SubSeq(s, m + 1, Len(s))
<1>1. Len(s) \in Nat /\ m \in Nat /\ m <= Len(s)
  OBVIOUS
<1>2. a \in Seq(Byte) /\ Len(a) = m /\ \A k \in 1 .. m : a[k] = s[k]
  BY <1>1
<1>3. c \in Seq(Byte)
  BY <1>1
<1>4. Len(c) = Len(s) - m
  BY <1>1
<1>5. \A k \in 1 .. Len(s) - m : c[k] = s[m + k]
  BY <1>1
<1> HIDE DEF a, c
<1> DEFINE z == a \o c
<1>6. /\ z \in Seq(Byte) /\ Len(z) = Len(a) + Len(c)
      /\ \A k \in 1 .. Len(a) : z[k] = a[k]
      /\ \A k \in 1 .. Len(c) : z[Len(a) + k] = c[k]
  BY <1>2, <1>3, Joined, Zenon
<1> HIDE DEF z
<1>7. Len(z) = Len(s)
  BY <1>1, <1>2, <1>4, <1>6
<1>8. ASSUME NEW k \in 1 .. Len(s)
      PROVE  z[k] = s[k]
  <2>1. CASE k <= m
    <3>1. k \in 1 .. m /\ k \in 1 .. Len(a)
      BY <1>1, <1>2, <2>1
    <3> QED BY <1>2, <1>6, <3>1
  <2>2. CASE ~(k <= m)
    <3> DEFINE i == k - m
    <3>1. i \in 1 .. Len(s) - m /\ m + i = k
      BY <1>1, <2>2
    <3> HIDE DEF i
    <3>2. i \in 1 .. Len(c) /\ Len(a) + i = k
      BY <1>2, <1>4, <3>1
    <3>3. z[Len(a) + i] = c[i] /\ c[i] = s[m + i]
      BY <1>5, <1>6, <3>1, <3>2
    <3> QED BY <3>1, <3>2, <3>3
  <2> QED BY <2>1, <2>2
<1>9. z = s
  BY <1>6, <1>7, <1>8
<1> QED BY <1>2, <1>3, <1>4, <1>9 DEF a, c, z

LEMMA WrittenAtEnd ==
  ASSUME NEW d \in Seq(Byte), NEW b \in Seq(Byte)
  PROVE  SubSeq(d, 1, Len(d)) \o b \o SubSeq(d, Len(d) + Len(b) + 1, Len(d)) = d \o b
<1>1. SubSeq(d, 1, Len(d)) = d
  OBVIOUS
<1>2. SubSeq(d, Len(d) + Len(b) + 1, Len(d)) = << >>
  <2>1. Len(d) + Len(b) + 1 > Len(d) /\ Len(d) + Len(b) + 1 \in Nat
    OBVIOUS
  <2> QED BY <2>1
<1>3. (d \o b) \o << >> = d \o b
  OBVIOUS
<1> QED BY <1>1, <1>2, <1>3, Zenon

\* o is as d is, but for what lies between lo and hi.
SameOutside(o, d, lo, hi) ==
  \A q \in 1 .. Len(d) : q <= lo \/ q > hi => o[q] = d[q]

LEMMA WrittenInside ==
  ASSUME NEW d \in Seq(Byte), NEW b \in Seq(Byte), NEW at \in Nat,
         at + Len(b) <= Len(d), NEW o,
         o = SubSeq(d, 1, at) \o b \o SubSeq(d, at + Len(b) + 1, Len(d))
  PROVE  /\ o \in Seq(Byte) /\ Len(o) = Len(d) /\ Has(o, at, b)
         /\ SameOutside(o, d, at, at + Len(b))
<1> DEFINE x == SubSeq(d, 1, at)
           y == SubSeq(d, at + Len(b) + 1, Len(d))
<1>1. /\ Len(d) \in Nat /\ Len(b) \in Nat
      /\ x \in Seq(Byte) /\ Len(x) = at /\ \A q \in 1 .. at : x[q] = d[q]
  OBVIOUS
<1>2. /\ y \in Seq(Byte) /\ Len(y) = Len(d) - (at + Len(b))
      /\ \A q \in 1 .. Len(y) : y[q] = d[at + Len(b) + q]
  OBVIOUS
<1>3. o = (x \o b) \o y
  OBVIOUS
<1> HIDE DEF x, y
<1> DEFINE z == x \o b
<1>4. /\ z \in Seq(Byte) /\ Len(z) = Len(x) + Len(b)
      /\ \A k \in 1 .. Len(x) : z[k] = x[k]
      /\ \A k \in 1 .. Len(b) : z[Len(x) + k] = b[k]
  BY <1>1, Joined, Zenon
<1> HIDE DEF z
<1>5. /\ z \o y \in Seq(Byte) /\ Len(z \o y) = Len(z) + Len(y)
      /\ \A k \in 1 .. Len(z) : (z \o y)[k] = z[k]
      /\ \A k \in 1 .. Len(y) : (z \o y)[Len(z) + k] = y[k]
  <2>1. z \in Seq(Byte) /\ y \in Seq(Byte)
    BY <1>2, <1>4
  <2> QED BY <2>1, Joined, Zenon
<1>6. o = z \o y
  BY <1>3 DEF z
<1> DEFINE lb == Len(b)
           ld == Len(d)
           lz == Len(z)
           ly == Len(y)
<1>x. /\ lb \in Nat /\ ld \in Nat /\ lz \in Nat /\ ly \in Nat /\ lz = at + lb
      /\ ly = ld - (at + lb) /\ at + lb <= ld
  BY <1>1, <1>2, <1>4
<1> HIDE DEF lb, ld, lz, ly
<1>y. ld = lz + ly
  BY <1>x
<1>7. o \in Seq(Byte) /\ Len(o) = Len(d)
  <2>1. o \in Seq(Byte) /\ Len(o) = lz + ly
    BY <1>5, <1>6, Zenon DEF lz, ly
  <2> QED BY <1>y, <2>1 DEF ld
<1>8. Has(o, at, b)
  <2>1. ASSUME NEW k \in 1 .. Len(b) PROVE o[at + k] = b[k]
    <3>1. at + k \in 1 .. Len(z)
      <4>1. k \in 1 .. lb
        BY DEF lb
      <4>2. at + k \in 1 .. lz
        BY <1>x, <4>1
      <4> QED BY <4>2 DEF lz
    <3>2. o[at + k] = z[at + k]
      BY <1>5, <1>6, <3>1
    <3> QED BY <1>1, <1>4, <3>2
  <2> QED BY <1>7, <2>1 DEF Has
<1>9. ASSUME NEW q \in 1 .. Len(d), q <= at
      PROVE  o[q] = d[q]
  <2>1. q \in 1 .. Len(z) /\ q \in 1 .. Len(x) /\ q \in 1 .. at
    BY <1>1, <1>4, <1>9
  <2>2. o[q] = z[q] /\ z[q] = x[q] /\ x[q] = d[q]
    BY <1>1, <1>4, <1>5, <1>6, <2>1
  <2> QED BY <2>2
<1>10. ASSUME NEW q \in 1 .. Len(d), q > at + Len(b)
       PROVE  o[q] = d[q]
  <2> DEFINE k == q - (at + Len(b))
  <2>1. k \in 1 .. Len(y) /\ Len(z) + k = q /\ at + Len(b) + k = q
    <3>1. q \in 1 .. ld /\ q > at + lb /\ k = q - (at + lb)
      BY <1>10 DEF ld, lb
    <3>2. k \in 1 .. ly /\ lz + k = q /\ at + lb + k = q
      BY <1>x, <3>1
    <3> QED BY <3>2 DEF ly, lz, lb
  <2> HIDE DEF k
  <2>2. (z \o y)[Len(z) + k] = y[k] /\ y[k] = d[at + Len(b) + k]
    BY <1>2, <1>5, <2>1
  <2> QED BY <1>6, <2>1, <2>2
<1>11. SameOutside(o, d, at, at + Len(b))
  BY <1>9, <1>10 DEF SameOutside
<1> QED BY <1>7, <1>8, <1>11

\* The head of a longer or a shorter file
LEMMA SameHead ==
  ASSUME NEW h, Len(h) = 64, NEW d \in Seq(Byte), NEW p \in Seq(Byte), Len(p) >= 64,
         \A q \in 1 .. 64 : p[q] = d[q], Has(d, 0, h)
  PROVE  Has(p, 0, h)
<1>1. ASSUME NEW k \in 1 .. 64
      PROVE  d[0 + k] = h[k] /\ 0 + k = k
  <2>1. k \in 1 .. Len(h)
    OBVIOUS
  <2>2. d[0 + k] = h[k]
    BY <2>1 DEF Has
  <2> QED BY <2>2
<1>2. \A k \in 1 .. 64 : p[0 + k] = h[k]
  BY <1>1
<1> QED BY <1>2 DEF Has

\* Headers that occur
LEMMA Heads ==
  ASSUME NEW n \in 0 .. Len(Trace)
  PROVE  /\ \A j \in 0 .. n : /\ 64 + 45 * j \in Unsigned(8)
                              /\ HeadBytes(64 + 45 * j, 0, 0) \in Seq(Byte)
                              /\ Len(HeadBytes(64 + 45 * j, 0, 0)) = 64
         /\ 0 \in Unsigned(8) /\ 64 + 45 * n \in Unsigned(8) /\ 93 + 45 * n \in Unsigned(8)
         /\ FinalHead(n) \in Seq(Byte) /\ Len(FinalHead(n)) = 64
<1>1. n \in Nat /\ Len(Trace) \in Nat /\ n <= Len(Trace)
  BY OffsetsFit
<1>2. 0 \in Unsigned(8)
  <2>1. 0 \in 0 .. 63
    OBVIOUS
  <2> QED BY <2>1, Fits
<1>3. ASSUME NEW j \in 0 .. n
      PROVE  64 + 45 * j \in Unsigned(8) /\ 93 + 45 * j \in Unsigned(8)
  <2>1. /\ 64 + 45 * j \in Nat /\ 64 + 45 * j <= 113 + 45 * Len(Trace)
        /\ 93 + 45 * j \in Nat /\ 93 + 45 * j <= 113 + 45 * Len(Trace)
    BY <1>1
  <2> QED BY <2>1, OffsetsFit
<1>4. ASSUME NEW j \in 0 .. n
      PROVE  /\ HeadBytes(64 + 45 * j, 0, 0) \in Seq(Byte)
             /\ Len(HeadBytes(64 + 45 * j, 0, 0)) = 64
  <2>1. 64 + 45 * j \in Unsigned(8) /\ 0 \in {0, 1}
    BY <1>3
  <2> QED BY <1>2, <2>1, HeadIs
<1>5. n \in 0 .. n /\ 1 \in {0, 1}
  BY <1>1
<1>6. FinalHead(n) \in Seq(Byte) /\ Len(FinalHead(n)) = 64
  BY <1>3, <1>5, HeadIs DEF FinalHead
<1> QED BY <1>2, <1>3, <1>4, <1>5, <1>6
-----------------------------------------------------------------------------
\* A flush writes part of the buffer, and all that fits into the page.
LEMMA FlushTaken ==
  ASSUME buf \in Seq(Byte), disk \in Seq(Byte), pos \in Nat, FlushPage
  PROVE  \E m \in 1 .. Len(buf) :
           /\ disk' = Overwritten(pos, SubSeq(buf, 1, m))
           /\ buf' = SubSeq(buf, m + 1, Len(buf))
           /\ pos' = pos + m
           /\ old_headers' = old_headers \cup {Slice(disk', 0, 64)}
           /\ pos + Len(buf) <= 64 => m = Len(buf)
           /\ pos = 0 /\ Len(buf) >= 64 => m >= 64
<1> DEFINE off == pos % PageBytes
           room == PageBytes - off
           m == IF Len(buf) < room THEN Len(buf) ELSE room
<1>1. PageBytes \in Nat /\ PageBytes >= 64 /\ Len(buf) \in Nat
  BY WprfFileAssumption DEF HEADER_SIZE
<1>2. buf # << >> => Len(buf) > 0
  OBVIOUS
<1>3. Len(buf) > 0
  BY <1>2 DEF FlushPage
<1>4. off \in 0 .. PageBytes - 1
  BY <1>1
<1>5. pos < PageBytes => off = pos
  BY <1>1
<1>6. /\ disk' = Overwritten(pos, SubSeq(buf, 1, m))
      /\ buf' = SubSeq(buf, m + 1, Len(buf))
      /\ pos' = pos + m
      /\ old_headers' = old_headers \cup {Slice(disk', 0, 64)}
  BY DEF FlushPage, HEADER_SIZE
<1> HIDE DEF off
<1>7. room \in Nat /\ room > 0 /\ (pos = 0 => room >= 64)
      /\ (pos + Len(buf) <= 64 => Len(buf) <= room)
  BY <1>1, <1>3, <1>4, <1>5
<1> HIDE DEF room
<1>8. /\ m \in 1 .. Len(buf)
      /\ pos + Len(buf) <= 64 => m = Len(buf)
      /\ pos = 0 /\ Len(buf) >= 64 => m >= 64
  BY <1>1, <1>3, <1>7
<1> HIDE DEF m
<1> QED BY <1>6, <1>8

LEMMA CommonGrows ==
  ASSUME Common, disk' \in Seq(Byte), buf' \in Seq(Byte), event_count' = event_count,
         Len(disk') >= Len(disk), NEW h \in Seq(Byte), Len(h) = 64, Has(disk', 0, h),
         OldHeader(h, event_count, Len(disk')),
         old_headers' = old_headers \cup {Slice(disk', 0, 64)}
  PROVE  Common'
<1>1. Len(disk) \in Nat /\ Len(disk') \in Nat /\ event_count \in Nat
  BY OffsetsFit DEF Common
<1>2. Slice(disk', 0, 64) = h
  <2>1. Slice(disk', 0, 0 + Len(h)) = h
    BY SliceHas
  <2>2. 0 + Len(h) = 64
    OBVIOUS
  <2> QED BY <2>1, <2>2, Zenon
<1>3. Len(disk') >= 64
  BY DEF Has
<1>4. ASSUME NEW g \in old_headers'
      PROVE  OldHeader(g, event_count', Len(disk'))
  <2>1. CASE g \in old_headers
    <3>1. OldHeader(g, event_count, Len(disk))
      BY <2>1 DEF Common
    <3> QED BY <1>1, <3>1 DEF OldHeader
  <2>2. CASE g = h
    BY <2>2
  <2> QED BY <1>2, <2>1, <2>2
<1>5. disk' # << >>
  BY <1>3
<1>6. h \in old_headers'
  BY <1>2
<1> QED BY <1>2, <1>3, <1>4, <1>5, <1>6 DEF Common

\* A flush moves the place where file and buffer meet.
Moves(j) ==
  /\ Begins(disk \o buf, j) /\ InFile(j, disk) /\ InFile(j, disk')
  /\ disk' \o buf' = disk \o buf

LEMMA FlushAppending ==
  ASSUME Common, NEW late, Appending(late), FlushPage,
         event_count' = event_count, drops' = drops
  PROVE  /\ Common' /\ Appending(late)'
         /\ \A end \in Nat : AppendedTo(end) => AppendedTo(end)'
         /\ \E j \in 0 .. event_count : Moves(j)
<1>1. /\ buf \in Seq(Byte) /\ disk \in Seq(Byte) /\ pos = Len(disk) /\ pos \in Nat
      /\ event_count \in 0 .. Len(Trace)
      /\ Len(disk) \in Nat /\ Len(buf) \in Nat /\ event_count \in Nat
  BY OffsetsFit DEF Common, Appending
<1>2. PICK m \in 1 .. Len(buf) :
           /\ disk' = Overwritten(pos, SubSeq(buf, 1, m))
           /\ buf' = SubSeq(buf, m + 1, Len(buf))
           /\ pos' = pos + m
           /\ old_headers' = old_headers \cup {Slice(disk', 0, 64)}
           /\ pos + Len(buf) <= 64 => m = Len(buf)
           /\ pos = 0 /\ Len(buf) >= 64 => m >= 64
  BY <1>1, FlushTaken
<1> DEFINE a == SubSeq(buf, 1, m)
           c == SubSeq(buf, m + 1, Len(buf))
<1>3. m \in 0 .. Len(buf) /\ m \in Nat /\ m >= 1 /\ m <= Len(buf)
  BY <1>1
<1>4. /\ a \in Seq(Byte) /\ Len(a) = m /\ c \in Seq(Byte) /\ Len(c) = Len(buf) - m
      /\ a \o c = buf
  BY <1>1, <1>3, Splits
<1> HIDE DEF a, c
<1>5. buf' = c /\ disk' = Overwritten(pos, a)
  BY <1>2 DEF a, c
<1>6. disk' = disk \o a
  <2>1. disk' = SubSeq(disk, 1, Len(disk)) \o a \o SubSeq(disk, Len(disk) + Len(a) + 1, Len(disk))
    BY <1>1, <1>5 DEF Overwritten
  <2> QED BY <1>1, <1>4, <2>1, WrittenAtEnd, Zenon
<1>7. disk' \o buf' = disk \o buf
  <2>1. (disk \o a) \o c = disk \o (a \o c)
    BY <1>1, <1>4, JoinedThree, Zenon
  <2> QED BY <1>4, <1>5, <1>6, <2>1, Zenon
<1>8. /\ disk \o a \in Seq(Byte) /\ Len(disk \o a) = Len(disk) + Len(a)
      /\ \A k \in 1 .. Len(disk) : (disk \o a)[k] = disk[k]
      /\ \A k \in 1 .. Len(a) : (disk \o a)[Len(disk) + k] = a[k]
  BY <1>1, <1>4, Joined, Zenon
<1>9. disk' \in Seq(Byte) /\ Len(disk') = Len(disk) + m /\ buf' \in Seq(Byte)
      /\ Len(buf') = Len(buf) - m
  BY <1>4, <1>5, <1>6, <1>8, Zenon
<1>10. pos' = Len(disk') /\ Len(disk') + Len(buf') = Len(disk) + Len(buf)
       /\ Len(disk') >= Len(disk) /\ disk' # << >>
  <2> DEFINE ld == Len(disk)
             lb == Len(buf)
             nd == Len(disk')
             nb == Len(buf')
  <2>1. pos' = ld + m /\ nd = ld + m /\ nb = lb - m
    BY <1>1, <1>2, <1>9
  <2>2. ld \in Nat /\ lb \in Nat
    BY <1>1
  <2>3. disk' = << >> => nd = 0
    OBVIOUS
  <2> HIDE DEF ld, lb, nd, nb
  <2>4. pos' = nd /\ nd + nb = ld + lb /\ nd >= ld /\ nd > 0
    BY <1>3, <2>1, <2>2
  <2>5. disk' # << >>
    BY <2>3, <2>4
  <2> QED BY <2>4, <2>5 DEF ld, lb, nd, nb
<1>11. PICK j \in Nat : /\ Begins(disk \o buf, j)
                        /\ Fresh(j, event_count, late) /\ InFile(j, disk)
  BY DEF Appending
<1>12. Written(disk' \o buf', event_count', drops') /\ Begins(disk' \o buf', j)
       /\ Fresh(j, event_count', late)
  BY <1>7, <1>11, Zenon DEF Appending
<1> DEFINE H == HeadBytes(64 + 45 * j, 0, 0)
           d == disk \o buf
<1>13. j \in 0 .. event_count /\ H \in Seq(Byte) /\ Len(H) = 64 /\ Has(d, 0, H)
  BY <1>1, <1>11, Heads DEF Fresh, Begins
<1>14. 64 + 45 * j <= Len(disk') /\ Len(disk') >= 64
  <2>1. CASE disk = << >>
    <3>1. disk \o buf = buf /\ Len(disk) = 0 /\ j = 0
      BY <1>1, <1>11, <2>1 DEF InFile
    <3>2. Has(buf, 0, H)
      BY <1>13, <3>1
    <3>3. Len(buf) >= 64
      <4>1. 0 + Len(H) <= Len(buf)
        BY <3>2 DEF Has
      <4> HIDE DEF H
      <4> QED BY <1>1, <1>13, <4>1
    <3>4. m >= 64
      BY <1>1, <1>2, <3>1, <3>3
    <3>5. Len(disk') = m
      BY <1>3, <1>9, <3>1
    <3> HIDE DEF H, d
    <3> QED BY <3>1, <3>4, <3>5
  <2>2. CASE disk # << >>
    BY <1>1, <1>9, <1>11, <2>2 DEF InFile
  <2> QED BY <2>1, <2>2
<1>15. InFile(j, disk')
  BY <1>10, <1>14 DEF InFile
<1>16. Appending(late)'
  BY <1>10, <1>11, <1>12, <1>15 DEF Appending
<1>17. Has(disk', 0, H)
  <2>1. /\ disk' \o buf' \in Seq(Byte)
        /\ \A k \in 1 .. Len(disk') : (disk' \o buf')[k] = disk'[k]
    BY <1>9, Joined, Zenon
  <2>2. d \in Seq(Byte) /\ \A k \in 1 .. Len(disk') : d[k] = disk'[k]
    BY <1>7, <2>1
  <2> HIDE DEF d, H
  <2>3. Len(disk') \in Nat
    BY <1>9
  <2>4. \A k \in 1 .. 64 : k \in 1 .. Len(disk')
    BY <1>14, <2>3
  <2>5. \A k \in 1 .. 64 : disk'[k] = d[k]
    BY <2>2, <2>4
  <2> QED BY <1>9, <1>13, <1>14, <2>2, <2>5, SameHead
<1>18. OldHeader(H, event_count, Len(disk'))
  BY <1>13 DEF OldHeader
<1>21. Moves(j)
  BY <1>7, <1>11, <1>15 DEF Moves
<1> HIDE DEF H, d
<1>19. Common'
  BY <1>2, <1>9, <1>10, <1>13, <1>17, <1>18, CommonGrows
<1>20. \A end \in Nat : AppendedTo(end) => AppendedTo(end)'
  BY <1>10 DEF AppendedTo
<1> QED BY <1>13, <1>16, <1>19, <1>20, <1>21

LEMMA KeptHas ==
  ASSUME NEW d \in Seq(Byte), NEW o \in Seq(Byte), Len(o) = Len(d),
         NEW lo \in Nat, NEW hi \in Nat,
         SameOutside(o, d, lo, hi),
         NEW at \in Nat, NEW w \in Nat, NEW u, Len(u) = w, Has(d, at, u),
         at + w <= lo \/ at >= hi
  PROVE  Has(o, at, u)
<1>1. Len(d) \in Nat /\ at + w <= Len(d)
  BY DEF Has
<1>2. ASSUME NEW k \in 1 .. w PROVE o[at + k] = u[k]
  <2>1. at + k \in 1 .. Len(d) /\ (at + k <= lo \/ at + k > hi) /\ k \in 1 .. Len(u)
    BY <1>1
  <2>2. d[at + k] = u[k]
    BY <2>1 DEF Has
  <2> QED BY <2>1, <2>2 DEF SameOutside
<1> QED BY <1>1, <1>2 DEF Has

\* The whole buffer is written over a part of the file.
LEMMA FlushInside ==
  ASSUME Common, FlushPage, pos \in Nat, pos + Len(buf) <= 64, Len(disk) >= 64
  PROVE  /\ disk' \in Seq(Byte) /\ Len(disk') = Len(disk) /\ buf' = << >>
         /\ Has(disk', pos, buf)
         /\ SameOutside(disk', disk, pos, pos + Len(buf))
         /\ TailOf(disk', disk)
         /\ old_headers' = old_headers \cup {Slice(disk', 0, 64)}
<1>1. buf \in Seq(Byte) /\ disk \in Seq(Byte) /\ Len(disk) \in Nat /\ Len(buf) \in Nat
  BY DEF Common
<1>2. PICK m \in 1 .. Len(buf) :
           /\ disk' = Overwritten(pos, SubSeq(buf, 1, m))
           /\ buf' = SubSeq(buf, m + 1, Len(buf))
           /\ pos' = pos + m
           /\ old_headers' = old_headers \cup {Slice(disk', 0, 64)}
           /\ pos + Len(buf) <= 64 => m = Len(buf)
           /\ pos = 0 /\ Len(buf) >= 64 => m >= 64
  BY <1>1, FlushTaken
<1>3. m = Len(buf)
  BY <1>2
<1>4. SubSeq(buf, 1, Len(buf)) = buf /\ SubSeq(buf, Len(buf) + 1, Len(buf)) = << >>
  BY <1>1
<1>5. buf' = << >> /\ disk' = Overwritten(pos, buf)
  BY <1>2, <1>3, <1>4, Zenon
<1>6. pos + Len(buf) <= Len(disk)
  BY <1>1
<1>7. /\ disk' \in Seq(Byte) /\ Len(disk') = Len(disk) /\ Has(disk', pos, buf)
      /\ SameOutside(disk', disk, pos, pos + Len(buf))
  <2>1. disk' = SubSeq(disk, 1, pos) \o buf \o SubSeq(disk, pos + Len(buf) + 1, Len(disk))
    BY <1>5 DEF Overwritten
  <2> QED BY <1>1, <1>6, <2>1, WrittenInside, Zenon
<1>8. TailOf(disk', disk)
  <2>1. ASSUME NEW q \in 65 .. Len(disk') PROVE disk'[q] = disk[q]
    <3>1. q \in 1 .. Len(disk) /\ q > pos + Len(buf)
      BY <1>1, <1>7
    <3> QED BY <1>7, <3>1 DEF SameOutside
  <2>2. Len(disk') <= Len(disk)
    BY <1>1, <1>7
  <2> QED BY <2>1, <2>2 DEF TailOf
<1> QED BY <1>2, <1>5, <1>7, <1>8

LEMMA FlushBookmarking ==
  ASSUME Common, Bookmarking, FlushPage, event_count' = event_count, drops' = drops
  PROVE  Common' /\ Bookmarking' /\ buf' = << >> /\ Begins(disk', event_count)
<1> DEFINE n == event_count
           x8 == to_le_bytes(64 + 45 * n, 8)
           z8 == to_le_bytes(0, 8)
<1>1. n \in 0 .. Len(Trace) /\ n \in Nat /\ disk \in Seq(Byte) /\ buf \in Seq(Byte)
      /\ Len(disk) = 64 + 45 * n /\ Written(disk, n, drops)
  BY OffsetsFit DEF Common, Bookmarking
<1>2. pos = 8 /\ buf = x8 /\ \E j \in Nat : Begins(disk, j) /\ Fresh(j, n, BookmarkEvery)
  BY DEF Bookmarking, FlushPage
<1>3. 64 + 45 * n \in Unsigned(8) /\ 0 \in Unsigned(8) /\ 0 \in {0, 1} /\ n \in 0 .. n
  BY <1>1, Heads
<1>4. Len(x8) = 8 /\ Len(z8) = 8 /\ Len(HeadStart) = 8 /\ Len(HeadRest(0)) = 40
  <2>1. Len(x8) = 8 /\ Len(z8) = 8
    BY <1>3, NumberBytes
  <2> QED BY <2>1, HeadParts
<1>5. Len(disk) >= 64 /\ pos \in Nat /\ pos + Len(buf) = 16
  <2>1. Len(buf) = 8
    BY <1>2, <1>4
  <2>2. Len(disk) = 64 + 45 * n /\ n \in Nat /\ pos = 8
    BY <1>1, <1>2
  <2> HIDE DEF x8, z8
  <2> QED BY <2>1, <2>2
<1>6. /\ disk' \in Seq(Byte) /\ Len(disk') = Len(disk) /\ buf' = << >>
      /\ Has(disk', 8, x8)
      /\ SameOutside(disk', disk, 8, 16)
      /\ TailOf(disk', disk)
      /\ old_headers' = old_headers \cup {Slice(disk', 0, 64)}
  <2> HIDE DEF x8
  <2>1. pos + Len(buf) <= 64
    BY <1>5
  <2> QED BY <1>2, <1>5, <2>1, FlushInside
<1>7. /\ Has(disk, 0, HeadStart) /\ Has(disk, 16, z8) /\ Has(disk, 24, HeadRest(0))
  <2>1. PICK j \in Nat : Begins(disk, j) /\ j \in 0 .. n
    BY <1>2 DEF Fresh
  <2>2. 64 + 45 * j \in Unsigned(8)
    BY <1>1, <2>1, Heads
  <2> QED BY <1>1, <1>3, <2>1, <2>2, HeadIs DEF Begins
<1>8. Has(disk', 0, HeadStart) /\ Has(disk', 16, z8) /\ Has(disk', 24, HeadRest(0))
  <2> HIDE DEF z8
  <2>1. /\ 0 \in Nat /\ 8 \in Nat /\ 16 \in Nat /\ 24 \in Nat /\ 40 \in Nat
        /\ 0 + 8 <= 8 /\ 16 >= 16 /\ 24 >= 16
    OBVIOUS
  <2>2. disk \in Seq(Byte) /\ disk' \in Seq(Byte) /\ Len(disk') = Len(disk)
        /\ SameOutside(disk', disk, 8, 16)
    BY <1>1, <1>6
  <2>3. ASSUME NEW at \in Nat, NEW w \in Nat, NEW u, Len(u) = w, Has(disk, at, u),
               at + w <= 8 \/ at >= 16
        PROVE  Has(disk', at, u)
    <3> DEFINE lo == 8
               hi == 16
    <3>1. lo \in Nat /\ hi \in Nat /\ SameOutside(disk', disk, lo, hi)
          /\ (at + w <= lo \/ at >= hi)
      BY <2>2, <2>3
    <3> HIDE DEF lo, hi
    <3> QED BY <2>2, <2>3, <3>1, KeptHas, Zenon
  <2>4. Has(disk', 0, HeadStart)
    BY <1>4, <1>7, <2>1, <2>3
  <2>5. Has(disk', 16, z8)
    BY <1>4, <1>7, <2>1, <2>3
  <2>6. Has(disk', 24, HeadRest(0))
    BY <1>4, <1>7, <2>1, <2>3
  <2> QED BY <2>4, <2>5, <2>6
<1>9. Begins(disk', n)
  BY <1>3, <1>6, <1>8, HeadIs DEF Begins
<1>10. Written(disk', n, drops)
  BY <1>1, <1>6, WrittenTail
<1>11. Bookmarking'
  BY <1>1, <1>6, <1>9, <1>10 DEF Bookmarking
<1>12. Common'
  <2> DEFINE H == HeadBytes(64 + 45 * n, 0, 0)
  <2>1. H \in Seq(Byte) /\ Len(H) = 64 /\ Has(disk', 0, H)
    BY <1>1, <1>3, <1>9, Heads DEF Begins
  <2>2. OldHeader(H, event_count, Len(disk'))
    BY <1>3 DEF OldHeader
  <2> HIDE DEF H
  <2>3. buf' \in Seq(Byte) /\ Len(disk') >= Len(disk)
    <3>1. Len(disk) \in Nat
      BY <1>1
    <3> QED BY <1>6, <3>1
  <2> QED BY <1>6, <2>1, <2>2, <2>3, CommonGrows
<1> QED BY <1>6, <1>9, <1>11, <1>12

LEMMA FlushSealing ==
  ASSUME Common, Sealing, FlushPage, event_count' = event_count, drops' = drops
  PROVE  Common' /\ Sealing' /\ buf' = << >> /\ Has(disk', 0, FinalHead(event_count))
<1> DEFINE n == event_count
           H == FinalHead(n)
<1>1. n \in 0 .. Len(Trace) /\ n \in Nat /\ disk \in Seq(Byte) /\ buf \in Seq(Byte)
      /\ Len(disk) = 113 + 45 * n /\ Written(disk, n, drops)
  BY OffsetsFit DEF Common, Sealing
<1>2. pos = 0 /\ buf = H
  BY DEF Sealing, FlushPage
<1>3. H \in Seq(Byte) /\ Len(H) = 64
  BY <1>1, Heads
<1> HIDE DEF H
<1>5. Len(disk) >= 64 /\ pos \in Nat /\ pos + Len(buf) = 64
  BY <1>1, <1>2, <1>3
<1>6. /\ disk' \in Seq(Byte) /\ Len(disk') = Len(disk) /\ buf' = << >>
      /\ Has(disk', 0, H)
      /\ TailOf(disk', disk)
      /\ old_headers' = old_headers \cup {Slice(disk', 0, 64)}
  <2>1. pos + Len(buf) <= 64
    BY <1>5
  <2> QED BY <1>2, <1>5, <2>1, FlushInside
<1>10. Written(disk', n, drops)
  BY <1>1, <1>6, WrittenTail
<1>11. Sealing'
  BY <1>1, <1>6, <1>10 DEF Sealing, H
<1>12. Common'
  <2>1. OldHeader(H, event_count, Len(disk'))
    BY <1>1, <1>6 DEF OldHeader, H
  <2>3. buf' \in Seq(Byte) /\ Len(disk') >= Len(disk)
    <3>1. Len(disk) \in Nat
      BY <1>1
    <3> QED BY <1>6, <3>1
  <2> QED BY <1>3, <1>6, <2>1, <2>3, CommonGrows
<1> QED BY <1>6, <1>11, <1>12 DEF H
-----------------------------------------------------------------------------
\* The number of bookmarks due grows by one when the count comes to a multiple.
LEMMA BookmarksDue ==
  ASSUME NEW n \in Nat, NEW B \in Nat \ {0}
  PROVE  /\ (n \div B) * B \in Nat /\ ((n + 1) \div B) * B \in Nat
         /\ (n \div B) * B <= n
         /\ ((n + 1) \div B) * B <= (n \div B) * B + B
         /\ (n + 1) % B # 0 => ((n + 1) \div B) * B = (n \div B) * B
<1> DEFINE q == n \div B
           r == n % B
           q1 == (n + 1) \div B
           r1 == (n + 1) % B
<1>1. q \in Nat /\ r \in Nat /\ r < B /\ n = r + B * q
  OBVIOUS
<1>2. q1 \in Nat /\ r1 \in Nat /\ r1 < B /\ n + 1 = r1 + B * q1
  OBVIOUS
<1> HIDE DEF q, r, q1, r1
<1>3. B * q \in Nat /\ B * q1 \in Nat /\ B \in Nat /\ B > 0
  BY <1>1, <1>2
<1>4. q1 <= q + 1
  <2>1. CASE q1 >= q + 2
    <3>1. B * q1 = B * q + (B + B) + B * (q1 - (q + 2))
      BY <1>1, <1>2
    <3>2. B * (q1 - (q + 2)) >= 0 /\ B * (q1 - (q + 2)) \in Int
      <4>1. q1 - (q + 2) \in Nat
        BY <1>1, <1>2, <2>1
      <4> QED BY <1>3, <4>1
    <3> QED BY <1>1, <1>2, <1>3, <3>1, <3>2
  <2> QED BY <1>1, <1>2, <2>1
<1>5. q1 >= q
  <2>1. CASE q1 + 1 <= q
    <3>1. B * q = B * q1 + B + B * (q - (q1 + 1))
      BY <1>1, <1>2
    <3>2. B * (q - (q1 + 1)) >= 0 /\ B * (q - (q1 + 1)) \in Int
      <4>1. q - (q1 + 1) \in Nat
        BY <1>1, <1>2, <2>1
      <4> QED BY <1>3, <4>1
    <3> QED BY <1>1, <1>2, <1>3, <3>1, <3>2
  <2> QED BY <1>1, <1>2, <2>1
<1>6. CASE q1 = q
  <2>1. B * q1 = B * q /\ q * B = B * q /\ q1 * B = B * q1
    BY <1>1, <1>2, <1>6
  <2> QED BY <1>1, <1>3, <2>1 DEF q, q1
<1>7. CASE q1 = q + 1
  <2>1. B * q1 = B * q + B /\ q * B = B * q /\ q1 * B = B * q1
    BY <1>1, <1>2, <1>7
  <2>2. r1 = 0
    BY <1>1, <1>2, <1>3, <2>1
  <2> QED BY <1>1, <1>3, <2>1, <2>2 DEF q, q1, r1
<1> QED BY <1>1, <1>2, <1>4, <1>5, <1>6, <1>7

LEMMA FreshKept ==
  ASSUME NEW n \in Nat, NEW j
  PROVE  /\ Fresh(j, n, 0) => /\ Fresh(j, n, BookmarkEvery)
                              /\ Fresh(j, n + 1, BookmarkEvery)
                              /\ (n + 1) % BookmarkEvery # 0 => Fresh(j, n + 1, 0)
         /\ Fresh(n, n, 0)
<1> DEFINE a == (n \div BookmarkEvery) * BookmarkEvery
           b == ((n + 1) \div BookmarkEvery) * BookmarkEvery
           B == BookmarkEvery
<1>1. B \in Nat \ {0} /\ B \in Nat
  BY WprfFileAssumption
<1>2. /\ a \in Nat /\ b \in Nat /\ a <= n /\ b <= a + B
      /\ (n + 1) % B # 0 => b = a
  BY <1>1, BookmarksDue
<1>3. \A late : /\ Fresh(j, n, late) <=> j \in 0 .. n /\ j >= a - late
                /\ Fresh(j, n + 1, late) <=> j \in 0 .. n + 1 /\ j >= b - late
                /\ Fresh(n, n, late) <=> n \in 0 .. n /\ n >= a - late
  BY DEF Fresh
<1> HIDE DEF a, b
<1>4. ASSUME j \in 0 .. n, j >= a - 0
      PROVE  /\ j \in 0 .. n + 1 /\ j >= a - B /\ j >= b - B
             /\ b = a => j >= b - 0
  BY <1>1, <1>2, <1>4
<1>5. n \in 0 .. n /\ n >= a - 0
  BY <1>2
<1> HIDE DEF B
<1>6. Fresh(n, n, 0)
  BY <1>3, <1>5
<1>7. ASSUME Fresh(j, n, 0)
      PROVE  /\ Fresh(j, n, B) /\ Fresh(j, n + 1, B)
             /\ (n + 1) % B # 0 => Fresh(j, n + 1, 0)
  <2>1. j \in 0 .. n /\ j >= a - 0
    BY <1>3, <1>7
  <2> QED BY <1>2, <1>3, <1>4, <2>1
<1> QED BY <1>6, <1>7 DEF B

LEMMA AppendingLate ==
  ASSUME Common, Appending(0)
  PROVE  Appending(BookmarkEvery)
<1>1. event_count \in Nat
  BY OffsetsFit DEF Common
<1> QED BY <1>1, FreshKept DEF Appending

LEMMA BeginsKept ==
  ASSUME NEW d \in Seq(Byte), NEW t \in Seq(Byte), NEW n \in 0 .. Len(Trace),
         NEW j \in 0 .. n, Begins(d, j)
  PROVE  Begins(d \o t, j)
<1> DEFINE H == HeadBytes(64 + 45 * j, 0, 0)
           e == d \o t
<1>1. Len(H) = 64 /\ Has(d, 0, H)
  BY Heads DEF Begins
<1> HIDE DEF H
<1>2. Len(d) \in Nat /\ Len(t) \in Nat /\ Len(d) >= 64
  <2>1. 0 + Len(H) <= Len(d)
    BY <1>1 DEF Has
  <2> QED BY <1>1, <2>1
<1>3. /\ e \in Seq(Byte) /\ Len(e) = Len(d) + Len(t)
      /\ \A k \in 1 .. Len(d) : e[k] = d[k]
  BY Joined, Zenon
<1> HIDE DEF e
<1>4. Len(e) >= 64
  BY <1>2, <1>3
<1>5. \A k \in 1 .. 64 : k \in 1 .. Len(d)
  BY <1>2
<1>6. \A k \in 1 .. 64 : e[k] = d[k]
  BY <1>3, <1>5
<1>7. Has(e, 0, H)
  BY <1>1, <1>3, <1>4, <1>6, SameHead
<1> QED BY <1>7 DEF Begins, H, e

LEMMA RecordAccepted ==
  ASSUME Common, Appending(0), AppendedTo(64 + 45 * event_count),
         event_count < Len(Trace), buf' = buf \o Record(event_count + 1),
         pos' = pos, disk' = disk, old_headers' = old_headers,
         event_count' = event_count + 1, drops' = drops
  PROVE  /\ Common' /\ AppendedTo(64 + 45 * event_count)'
         /\ Appending(BookmarkEvery)'
         /\ (event_count + 1) % BookmarkEvery # 0 => Appending(0)'
<1> DEFINE n == event_count
           r == Record(n + 1)
           d == disk \o buf
<1>1. /\ buf \in Seq(Byte) /\ disk \in Seq(Byte) /\ n \in 0 .. Len(Trace) /\ n \in Nat
      /\ Len(Trace) \in Nat /\ Len(disk) \in Nat /\ Len(buf) \in Nat
      /\ Len(disk) + Len(buf) = 64 + 45 * n
  BY OffsetsFit DEF Common, AppendedTo
<1>2. r \in Seq(Byte) /\ Len(r) = 45
  <2>1. \A i \in 1 .. Len(Trace) : Record(i) \in Seq(Byte) /\ Len(Record(i)) = 45
    BY OffsetsFit, RecordRead DEF Record
  <2>2. n + 1 \in 1 .. Len(Trace)
    BY <1>1
  <2> QED BY <2>1, <2>2
<1>3. d \in Seq(Byte) /\ Len(d) = Len(disk) + Len(buf)
  BY <1>1, Joined, Zenon
<1>4. Written(d, n, drops) /\ Len(d) = 64 + 45 * n
  BY <1>1, <1>3 DEF Appending
<1>5. /\ Written(d \o r, n + 1, drops) /\ Len(d \o r) = 64 + 45 * (n + 1)
  <2> HIDE DEF d
  <2> QED BY <1>1, <1>4, WrittenRecord
<1> HIDE DEF r
<1>6. disk' \o buf' = d \o r
  <2>1. (disk \o buf) \o r = disk \o (buf \o r)
    BY <1>1, <1>2, JoinedThree, Zenon
  <2>2. buf' = buf \o r
    BY DEF r
  <2> QED BY <2>1, <2>2, Zenon
<1>7. buf' \in Seq(Byte) /\ Len(buf') = Len(buf) + Len(r)
  <2>1. buf' = buf \o r
    BY DEF r
  <2>2. buf \o r \in Seq(Byte) /\ Len(buf \o r) = Len(buf) + Len(r)
    BY <1>1, <1>2, Joined, Zenon
  <2> QED BY <2>1, <2>2, Zenon
<1>8. AppendedTo(64 + 45 * event_count)'
  <2>1. Len(disk') = Len(disk) /\ Len(buf') = Len(buf) + 45
    BY <1>2, <1>7
  <2> DEFINE ld == Len(disk)
             lb == Len(buf)
             nb == Len(buf')
  <2>2. /\ ld \in Nat /\ lb \in Nat /\ ld + lb = 64 + 45 * event_count
        /\ nb = lb + 45 /\ event_count \in Nat
    BY <1>1, <2>1
  <2> HIDE DEF ld, lb, nb
  <2>3. ld + nb = 64 + 45 * (event_count + 1)
    BY <2>2
  <2>4. Len(disk') + Len(buf') = 64 + 45 * event_count'
    BY <2>1, <2>3 DEF ld, nb
  <2> QED BY <2>4 DEF AppendedTo
<1>9. Common'
  <2>1. ASSUME NEW h \in old_headers
        PROVE  OldHeader(h, n + 1, Len(disk))
    <3>1. OldHeader(h, n, Len(disk))
      BY DEF Common
    <3>2. ~(Len(disk) >= 113 + 45 * n)
      BY <1>1
    <3>3. PICK j \in 0 .. n : h = HeadBytes(64 + 45 * j, 0, 0)
      BY <3>1, <3>2 DEF OldHeader
    <3>4. j \in 0 .. n + 1
      BY <1>1
    <3> QED BY <3>3, <3>4 DEF OldHeader
  <2>2. n + 1 \in 0 .. Len(Trace)
    BY <1>1
  <2> QED BY <1>7, <2>1, <2>2 DEF Common
<1>10. PICK j \in Nat : /\ Begins(d, j) /\ Fresh(j, n, 0) /\ InFile(j, disk)
  BY DEF Appending
<1> HIDE DEF d
<1>11. Begins(d \o r, j)
  <2>1. j \in 0 .. n
    BY <1>10 DEF Fresh
  <2> QED BY <1>1, <1>2, <1>3, <1>10, <2>1, BeginsKept
<1>12. /\ Fresh(j, n + 1, BookmarkEvery)
       /\ (n + 1) % BookmarkEvery # 0 => Fresh(j, n + 1, 0)
  BY <1>1, <1>10, FreshKept
<1>13. \A late : Fresh(j, n + 1, late) => Appending(late)'
  <2>1. pos' = Len(disk')
    BY DEF Appending
  <2> QED BY <1>5, <1>6, <1>10, <1>11, <2>1, Zenon DEF Appending
<1> QED BY <1>8, <1>9, <1>12, <1>13

LEMMA FooterAppended ==
  ASSUME Common, Appending(0), buf = << >>, buf' \in Seq(Byte),
         Written(disk \o buf', event_count, drops),
         pos' = pos, disk' = disk, old_headers' = old_headers,
         event_count' = event_count, drops' = drops
  PROVE  Common' /\ Appending(0)'
<1>1. disk \in Seq(Byte) /\ event_count \in 0 .. Len(Trace) /\ disk \o << >> = disk
  BY DEF Common
<1>2. PICK j \in Nat : /\ Begins(disk, j) /\ Fresh(j, event_count, 0) /\ InFile(j, disk)
  BY <1>1 DEF Appending
<1>3. Begins(disk \o buf', j)
  <2>1. j \in 0 .. event_count
    BY <1>2 DEF Fresh
  <2> QED BY <1>1, <1>2, <2>1, BeginsKept
<1>4. Appending(0)'
  <2>1. pos' = Len(disk')
    BY DEF Appending
  <2> QED BY <1>2, <1>3, <2>1, Zenon DEF Appending
<1>5. Common'
  BY DEF Common
<1> QED BY <1>4, <1>5

LEMMA FileInvInit == FileInit => FileInv
<1> SUFFICES ASSUME FileInit PROVE FileInv
  OBVIOUS
<1> DEFINE H == HeadBytes(64 + 45 * 0, 0, 0)
<1>1. header = HeaderOf(64, 0, 0)
  <2>1. [i \in 1 .. 32 |-> 0] = [i \in 1 .. 32 |-> IF i = 1 THEN 0 ELSE 0]
    OBVIOUS
  <2> QED BY <2>1 DEF FileInit, header_new, HeaderOf, HEADER_SIZE
<1>2. buf = H /\ 64 + 45 * 0 = 64
  BY <1>1 DEF FileInit, HeadBytes
<1>3. Len(Trace) \in Nat /\ 0 \in 0 .. Len(Trace) /\ 0 \in 0 .. 0 /\ 0 \in Nat
  BY OffsetsFit
<1>4. H \in Seq(Byte) /\ Len(H) = 64
  BY <1>3, Heads
<1> HIDE DEF H
<1>5. disk = << >> /\ disk \o buf = buf /\ Len(disk) = 0 /\ Len(buf) = 64
  BY <1>2, <1>4 DEF FileInit
<1>6. Begins(disk \o buf, 0)
  <2>1. Has(H, 0, H)
    BY <1>4, HasWhole
  <2> QED BY <1>2, <1>5, <2>1 DEF Begins, H
<1>7. Written(disk \o buf, event_count, drops)
  <2>1. event_count = 0 /\ buf \in Seq(Byte)
    BY <1>2, <1>4 DEF FileInit
  <2>2. HoldsRecords(buf, 0)
    BY DEF HoldsRecords
  <2>3. ~(Len(buf) > 64 + 45 * 0)
    BY <1>5
  <2> QED BY <1>5, <2>1, <2>2, <2>3 DEF Written
<1>8. Fresh(0, 0, 0) /\ InFile(0, disk)
  BY <1>3, <1>5, FreshKept DEF InFile
<1>9. Appending(0)
  BY <1>3, <1>5, <1>6, <1>7, <1>8 DEF FileInit, Appending
<1>10. AppendedTo(64 + 45 * event_count)
  BY <1>5 DEF AppendedTo, FileInit
<1>11. Common
  BY <1>2, <1>3, <1>4, <1>5 DEF Common, FileInit
<1> QED BY <1>1, <1>9, <1>10, <1>11 DEF FileInit, FileInv, Shape
-----------------------------------------------------------------------------
Records == Appending(0) /\ AppendedTo(64 + 45 * event_count)

\* The buffer is flushed: the file is what was written.
LEMMA AllInFile ==
  ASSUME Common, NEW late, Appending(late), buf = << >>, NEW end \in Nat, AppendedTo(end)
  PROVE  /\ disk \in Seq(Byte) /\ disk \o buf = disk /\ Len(disk) = end /\ pos = end
         /\ Written(disk, event_count, drops)
         /\ \E j \in Nat : Begins(disk, j) /\ Fresh(j, event_count, late)
         /\ event_count \in 0 .. Len(Trace) /\ event_count \in Nat
<1>1. disk \in Seq(Byte) /\ disk \o buf = disk /\ Len(buf) = 0 /\ Len(disk) \in Nat
      /\ event_count \in 0 .. Len(Trace) /\ event_count \in Nat
  BY OffsetsFit DEF Common
<1>2. Len(disk) + Len(buf) = end /\ pos = Len(disk)
  BY DEF AppendedTo, Appending
<1>3. Len(disk) = end
  BY <1>1, <1>2
<1> QED BY <1>1, <1>2, <1>3 DEF Appending

LEMMA HeaderSet ==
  /\ \A x, y, t, bit :
       [HeaderOf(x, t, bit) EXCEPT !.data_section_end_offset = y] = HeaderOf(y, t, bit)
  /\ \A x, y, t, bit :
       [HeaderOf(x, t, bit) EXCEPT !.section_table_offset = y] = HeaderOf(x, y, bit)
  /\ \A x, t : [HeaderOf(x, t, 0) EXCEPT !.feature_bitmap[1] = 1] = HeaderOf(x, t, 1)
<1>1. ASSUME NEW x, NEW y, NEW t, NEW bit
      PROVE  [HeaderOf(x, t, bit) EXCEPT !.data_section_end_offset = y] = HeaderOf(y, t, bit)
  <2> DEFINE f == [i \in 1 .. 32 |-> IF i = 1 THEN bit ELSE 0]
  <2> HIDE DEF f
  <2>1. /\ HeaderOf(x, t, bit) = [version |-> VERSION, endianness |-> ENDIAN_LE, host_arch |-> 0,
             data_section_end_offset |-> x, section_table_offset |-> t, feature_bitmap |-> f]
        /\ HeaderOf(y, t, bit) = [version |-> VERSION, endianness |-> ENDIAN_LE, host_arch |-> 0,
             data_section_end_offset |-> y, section_table_offset |-> t, feature_bitmap |-> f]
    BY DEF HeaderOf, f
  <2> QED BY <2>1
<1>2. ASSUME NEW x, NEW y, NEW t, NEW bit
      PROVE  [HeaderOf(x, t, bit) EXCEPT !.section_table_offset = y] = HeaderOf(x, y, bit)
  <2> DEFINE f == [i \in 1 .. 32 |-> IF i = 1 THEN bit ELSE 0]
  <2> HIDE DEF f
  <2>1. /\ HeaderOf(x, t, bit) = [version |-> VERSION, endianness |-> ENDIAN_LE, host_arch |-> 0,
             data_section_end_offset |-> x, section_table_offset |-> t, feature_bitmap |-> f]
        /\ HeaderOf(x, y, bit) = [version |-> VERSION, endianness |-> ENDIAN_LE, host_arch |-> 0,
             data_section_end_offset |-> x, section_table_offset |-> y, feature_bitmap |-> f]
    BY DEF HeaderOf, f
  <2> QED BY <2>1
<1>3. ASSUME NEW x, NEW t
      PROVE  [HeaderOf(x, t, 0) EXCEPT !.feature_bitmap[1] = 1] = HeaderOf(x, t, 1)
  <2> DEFINE f == [i \in 1 .. 32 |-> IF i = 1 THEN 0 ELSE 0]
             g == [i \in 1 .. 32 |-> IF i = 1 THEN 1 ELSE 0]
  <2>1. [f EXCEPT ![1] = 1] = g
    OBVIOUS
  <2> HIDE DEF f, g
  <2>2. /\ HeaderOf(x, t, 0) = [version |-> VERSION, endianness |-> ENDIAN_LE, host_arch |-> 0,
             data_section_end_offset |-> x, section_table_offset |-> t, feature_bitmap |-> f]
        /\ HeaderOf(x, t, 1) = [version |-> VERSION, endianness |-> ENDIAN_LE, host_arch |-> 0,
             data_section_end_offset |-> x, section_table_offset |-> t, feature_bitmap |-> g]
    BY DEF HeaderOf, f, g
  <2> QED BY <2>1, <2>2
<1> QED BY <1>1, <1>2, <1>3

LEMMA WriteEventInv ==
  ASSUME FileInv, write_event \/ write_event_after_flush
  PROVE  FileInv'
<1>1. /\ Common /\ Records /\ \E x \in Nat : header = HeaderOf(x, 0, 0)
  BY DEF FileInv, Shape, Records, write_event, write_event_after_flush
<1>2. ASSUME write_event, stage' = "append",
             UNCHANGED <<buf, pos, disk, header, event_count, drops, old_headers>>
      PROVE  FileInv'
  <2>1. event_count < Len(Trace)
    BY <1>2 DEF write_event
  <2> QED BY <1>1, <1>2, <2>1 DEF FileInv, Shape, Common, Records, Appending, AppendedTo
<1>3. ASSUME buf' = buf \o Record(event_count + 1), Accepted, event_count < Len(Trace)
      PROVE  FileInv'
  <2>1. /\ Common' /\ AppendedTo(64 + 45 * event_count)'
        /\ Appending(BookmarkEvery)'
        /\ (event_count + 1) % BookmarkEvery # 0 => Appending(0)'
    BY <1>1, <1>3, RecordAccepted DEF Records, Accepted
  <2>2. \E x \in Nat : header' = HeaderOf(x, 0, 0)
    BY <1>1, <1>3 DEF Accepted
  <2>3. CASE (event_count + 1) % BookmarkEvery = 0
    <3>1. stage' = "bookmark"
      BY <1>3, <2>3 DEF Accepted
    <3> QED BY <2>1, <2>2, <3>1 DEF FileInv, Shape
  <2>4. CASE (event_count + 1) % BookmarkEvery # 0
    <3>1. stage' = "ready"
      BY <1>3, <2>4 DEF Accepted
    <3> QED BY <2>1, <2>2, <2>4, <3>1 DEF FileInv, Shape
  <2> QED BY <2>3, <2>4
<1>4. CASE write_event
  BY <1>2, <1>3, <1>4 DEF write_event
<1>5. CASE write_event_after_flush
  <2>0. event_count < Len(Trace)
    BY <1>5 DEF FileInv, Shape, write_event_after_flush
  <2>1. buf' = buf \o Record(event_count + 1)
    <3>1. buf = << >> /\ buf' = Record(event_count + 1)
      BY <1>5 DEF write_event_after_flush
    <3> DEFINE r == Record(event_count + 1)
    <3>2. r \in Seq(Byte)
      <4>1. event_count + 1 \in 1 .. Len(Trace)
        BY <2>0, <1>1, OffsetsFit DEF Common
      <4> QED BY <4>1, OffsetsFit, RecordRead DEF Record
    <3> HIDE DEF r
    <3>3. << >> \o r = r
      BY <3>2
    <3> QED BY <3>1, <3>3 DEF r
  <2> QED BY <1>3, <1>5, <2>0, <2>1 DEF write_event_after_flush
<1> QED BY <1>4, <1>5

LEMMA BookmarkInv ==
  ASSUME FileInv, update_data_offset \/ update_data_offset_returns
  PROVE  FileInv'
<1> DEFINE n == event_count
<1>1. CASE update_data_offset
  <2>1. /\ Common /\ Appending(BookmarkEvery) /\ AppendedTo(64 + 45 * n)
        /\ buf = << >> /\ \E x \in Nat : header = HeaderOf(x, 0, 0)
    BY <1>1 DEF FileInv, Shape, update_data_offset
  <2>2. n \in Nat /\ 64 + 45 * n \in Nat
    BY <2>1, OffsetsFit DEF Common
  <2>3. /\ Len(disk) = 64 + 45 * n /\ pos = 64 + 45 * n
        /\ Written(disk, n, drops)
        /\ \E j \in Nat : Begins(disk, j) /\ Fresh(j, n, BookmarkEvery)
        /\ n \in 0 .. Len(Trace)
    BY <2>1, <2>2, AllInFile
  <2>4. header' = HeaderOf(64 + 45 * n, 0, 0)
    <3>1. PICK x \in Nat : header = HeaderOf(x, 0, 0)
      BY <2>1
    <3>2. header' = [header EXCEPT !.data_section_end_offset = 64 + 45 * n]
      BY <1>1, <2>3 DEF update_data_offset
    <3> QED BY <3>1, <3>2, HeaderSet
  <2>5. buf' \in Seq(Byte)
    <3>1. 64 + 45 * n \in Unsigned(8) /\ 8 \in Nat
      BY <2>3, Heads
    <3> QED BY <1>1, <2>3, <3>1, NumberBytes DEF update_data_offset
  <2>6. Bookmarking'
    BY <1>1, <2>3 DEF update_data_offset, Bookmarking
  <2>7. Common'
    BY <1>1, <2>1, <2>5 DEF update_data_offset, Common
  <2> QED BY <1>1, <2>4, <2>6, <2>7 DEF update_data_offset, FileInv, Shape
<1>2. CASE update_data_offset_returns
  <2>1. /\ Common /\ Bookmarking /\ header = HeaderOf(64 + 45 * n, 0, 0) /\ buf = << >>
    BY <1>2 DEF FileInv, Shape, update_data_offset_returns
  <2>2. /\ n \in Nat /\ n \in 0 .. Len(Trace) /\ disk \in Seq(Byte) /\ disk \o buf = disk
        /\ Len(disk) = 64 + 45 * n /\ Len(buf) = 0 /\ Written(disk, n, drops)
    BY <2>1, OffsetsFit DEF Common, Bookmarking
  <2>3. Begins(disk, n)
    <3>1. Len(to_le_bytes(64 + 45 * n, 8)) = 8
      <4>1. 64 + 45 * n \in Unsigned(8) /\ 8 \in Nat
        BY <2>2, Heads
      <4> QED BY <4>1, NumberBytes
    <3> DEFINE b == to_le_bytes(64 + 45 * n, 8)
    <3> HIDE DEF b
    <3>2. Len(b) = 8
      BY <3>1 DEF b
    <3>3. buf # b
      <4>1. Len(buf) = 0
        BY <2>2
      <4>2. buf = b => Len(buf) = Len(b)
        BY Zenon
      <4> QED BY <3>2, <4>1, <4>2
    <3> QED BY <2>1, <3>3 DEF Bookmarking, b
  <2>4. pos' = Len(disk)
    BY <1>2, <2>1, <2>2 DEF update_data_offset_returns, HeaderOf
  <2>5. Fresh(n, n, 0) /\ InFile(n, disk)
    BY <2>2, FreshKept DEF InFile
  <2>6. Appending(0)' /\ AppendedTo(64 + 45 * event_count)'
    BY <1>2, <2>2, <2>3, <2>4, <2>5 DEF update_data_offset_returns, Appending, AppendedTo
  <2>7. Common'
    BY <1>2, <2>1 DEF update_data_offset_returns, Common
  <2>8. 64 + 45 * n \in Nat
    BY <2>2
  <2> QED BY <1>2, <2>1, <2>6, <2>7, <2>8 DEF update_data_offset_returns, FileInv, Shape
<1> QED BY <1>1, <1>2

LEMMA FinishInv ==
  ASSUME FileInv,
         finish \/ finish_metadata \/ finish_section_table \/ finish_header \/ finish_returns
  PROVE  FileInv'
<1> DEFINE n == event_count
<1>0. /\ n \in 0 .. Len(Trace) /\ n \in Nat /\ disk \in Seq(Byte) /\ buf \in Seq(Byte)
      /\ Common /\ 64 + 45 * n \in Nat /\ 93 + 45 * n \in Nat /\ 113 + 45 * n \in Nat
  <2>1. n \in 0 .. Len(Trace) /\ n \in Nat /\ disk \in Seq(Byte) /\ buf \in Seq(Byte) /\ Common
    BY OffsetsFit DEF FileInv, Common
  <2> QED BY <2>1
<1>1. CASE finish
  <2>1. Appending(0) /\ AppendedTo(64 + 45 * n) /\ \E x \in Nat : header = HeaderOf(x, 0, 0)
    BY <1>1 DEF FileInv, Shape, finish
  <2>2. Len(disk \o buf) = Len(disk) + Len(buf) /\ Len(disk) + Len(buf) = 64 + 45 * n
    <3>1. Len(disk \o buf) = Len(disk) + Len(buf)
      BY <1>0, Joined, Zenon
    <3> QED BY <2>1, <3>1 DEF AppendedTo
  <2>3. ~(Len(disk \o buf) > 64 + 45 * n)
    BY <1>0, <2>2
  <2>4. Written(disk \o buf, n, drops')
    BY <2>1, <2>3 DEF Appending, Written
  <2>5. Appending(0)' /\ AppendedTo(64 + 45 * event_count)' /\ Common'
    BY <1>0, <1>1, <2>1, <2>4 DEF finish, Appending, AppendedTo, Common
  <2> QED BY <1>1, <2>1, <2>5 DEF finish, FileInv, Shape
<1>2. CASE finish_metadata
  <2>1. /\ Appending(0) /\ AppendedTo(64 + 45 * n) /\ buf = << >> /\ drops \in Drops
        /\ \E x \in Nat : header = HeaderOf(x, 0, 0)
    BY <1>2 DEF FileInv, Shape, finish_metadata
  <2>2. Len(disk) = 64 + 45 * n /\ pos = 64 + 45 * n /\ Written(disk, n, drops)
    BY <1>0, <2>1, AllInFile
  <2>3. header' = HeaderOf(64 + 45 * n, 0, 0)
    <3>1. PICK x \in Nat : header = HeaderOf(x, 0, 0)
      BY <2>1
    <3>2. header' = [header EXCEPT !.data_section_end_offset = 64 + 45 * n]
      BY <1>2, <2>2 DEF finish_metadata
    <3> QED BY <3>1, <3>2, HeaderSet
  <2>4. /\ Written(disk \o buf', n, drops) /\ Len(disk \o buf') = 93 + 45 * n
        /\ buf' \in Seq(Byte)
    BY <1>0, <1>2, <2>1, <2>2, WrittenFooter DEF finish_metadata
  <2>5. Common' /\ Appending(0)'
    BY <1>0, <1>2, <2>1, <2>4, FooterAppended DEF finish_metadata
  <2>6. AppendedTo(93 + 45 * event_count)'
    <3>1. Len(disk \o buf') = Len(disk) + Len(buf')
      BY <1>0, <2>4, Joined, Zenon
    <3> QED BY <1>2, <2>4, <3>1 DEF finish_metadata, AppendedTo
  <2> QED BY <1>2, <2>3, <2>5, <2>6 DEF finish_metadata, FileInv, Shape
<1>3. CASE finish_section_table
  <2>1. /\ Appending(0) /\ AppendedTo(93 + 45 * n) /\ buf = << >>
        /\ header = HeaderOf(64 + 45 * n, 0, 0)
    BY <1>3 DEF FileInv, Shape, finish_section_table
  <2>2. Len(disk) = 93 + 45 * n /\ pos = 93 + 45 * n /\ Written(disk, n, drops)
    BY <1>0, <2>1, AllInFile
  <2>3. header' = HeaderOf(64 + 45 * n, 93 + 45 * n, 0)
    <3>1. header' = [header EXCEPT !.section_table_offset = 93 + 45 * n]
      BY <1>3, <2>2 DEF finish_section_table
    <3> QED BY <2>1, <3>1, HeaderSet
  <2>4. buf' = Section(n)
    <3>1. header.data_section_end_offset = 64 + 45 * n
      BY <2>1 DEF HeaderOf
    <3>2. pos - header.data_section_end_offset = 29
      BY <1>0, <2>2, <3>1
    <3> QED BY <1>3, <3>1, <3>2 DEF finish_section_table, Section
  <2>5. drops \in Drops
    <3>1. Len(disk) > 64 + 45 * n
      BY <1>0, <2>2
    <3> QED BY <2>2, <3>1 DEF Written
  <2>6. /\ Written(disk \o buf', n, drops) /\ Len(disk \o buf') = 113 + 45 * n
        /\ buf' \in Seq(Byte)
    BY <1>0, <2>2, <2>4, <2>5, WrittenFooter
  <2>7. Common' /\ Appending(0)'
    BY <1>0, <1>3, <2>1, <2>6, FooterAppended DEF finish_section_table
  <2>8. AppendedTo(113 + 45 * event_count)'
    <3>1. Len(disk \o buf') = Len(disk) + Len(buf')
      BY <1>0, <2>6, Joined, Zenon
    <3> QED BY <1>3, <2>6, <3>1 DEF finish_section_table, AppendedTo
  <2> QED BY <1>3, <2>3, <2>7, <2>8 DEF finish_section_table, FileInv, Shape
<1>4. CASE finish_header
  <2>1. /\ Appending(0) /\ AppendedTo(113 + 45 * n) /\ buf = << >>
        /\ header = HeaderOf(64 + 45 * n, 93 + 45 * n, 0)
    BY <1>4 DEF FileInv, Shape, finish_header
  <2>2. /\ Len(disk) = 113 + 45 * n /\ Written(disk, n, drops)
        /\ \E j \in Nat : Begins(disk, j) /\ Fresh(j, n, 0)
    BY <1>0, <2>1, AllInFile
  <2>3. buf' = FinalHead(n) /\ pos' = 0
    <3>1. [header EXCEPT !.feature_bitmap[1] = 1] = HeaderOf(64 + 45 * n, 93 + 45 * n, 1)
      BY <2>1, HeaderSet
    <3> QED BY <1>4, <3>1 DEF finish_header, FinalHead, HeadBytes
  <2>4. buf' \in Seq(Byte)
    BY <1>0, <2>3, Heads
  <2>5. Sealing' /\ Common'
    BY <1>0, <1>4, <2>2, <2>3, <2>4 DEF finish_header, Sealing, Common
  <2> QED BY <1>4, <2>5 DEF finish_header, FileInv, Shape
<1>5. CASE finish_returns
  <2>1. Sealing /\ buf = << >>
    BY <1>5 DEF FileInv, Shape, finish_returns
  <2>2. Has(disk, 0, FinalHead(n))
    <3> DEFINE b == FinalHead(n)
    <3>1. Len(b) = 64
      BY <1>0, Heads
    <3> HIDE DEF b
    <3>2. Len(buf) = 0
      BY <2>1
    <3>3. buf = b => Len(buf) = Len(b)
      BY Zenon
    <3>4. buf # b
      BY <3>1, <3>2, <3>3
    <3> QED BY <2>1, <3>4 DEF Sealing, b
  <2>3. Sealing' /\ Common'
    BY <1>0, <1>5, <2>1, <2>2 DEF finish_returns, Sealing, Common
  <2> QED BY <1>5, <2>3 DEF finish_returns, FileInv, Shape
<1> QED BY <1>1, <1>2, <1>3, <1>4, <1>5

LEMMA FlushInv ==
  ASSUME FileInv, Flush \/ DropFlushes
  PROVE  FileInv'
<1>1. /\ FlushPage /\ Common /\ stage' = stage /\ header' = header
      /\ event_count' = event_count /\ drops' = drops
  BY DEF Flush, DropFlushes, FileInv
<1>2. event_count \in Nat /\ 64 + 45 * event_count \in Nat /\ 93 + 45 * event_count \in Nat
      /\ 113 + 45 * event_count \in Nat
  <2>1. event_count \in Nat
    BY <1>1, OffsetsFit DEF Common
  <2> QED BY <2>1
<1>3. ASSUME NEW late, Appending(late)
      PROVE  /\ Common' /\ Appending(late)'
             /\ AppendedTo(64 + 45 * event_count) => AppendedTo(64 + 45 * event_count)'
             /\ AppendedTo(93 + 45 * event_count) => AppendedTo(93 + 45 * event_count)'
             /\ AppendedTo(113 + 45 * event_count) => AppendedTo(113 + 45 * event_count)'
  <2>1. /\ Common' /\ Appending(late)'
        /\ \A end \in Nat : AppendedTo(end) => AppendedTo(end)'
    BY <1>1, <1>3, FlushAppending
  <2> QED BY <1>1, <1>2, <2>1 DEF AppendedTo
<1>5. Bookmarking => Common' /\ Bookmarking'
  BY <1>1, FlushBookmarking
<1>6. Sealing => Common' /\ Sealing'
  BY <1>1, FlushSealing
<1>7. Appending(0) => Common' /\ Appending(0)'
  BY <1>3
<1>8. Appending(BookmarkEvery) => Common' /\ Appending(BookmarkEvery)'
  BY <1>3
<1> QED BY <1>1, <1>3, <1>5, <1>6, <1>7, <1>8 DEF FileInv, Shape

LEMMA WriteFailsInv ==
  ASSUME FileInv, WriteFails
  PROVE  FileInv'
<1>1. Common' /\ stage' = "failed"
  BY DEF FileInv, Common, WriteFails
<1>2. Appending(BookmarkEvery) \/ Bookmarking \/ Sealing
  BY AppendingLate DEF FileInv, Shape, WriteFails, Flushing
<1>3. (Appending(BookmarkEvery) \/ Bookmarking \/ Sealing)'
  BY <1>2 DEF WriteFails, Appending, Bookmarking, Sealing
<1> QED BY <1>1, <1>3 DEF FileInv, Shape

LEMMA FileInvNext == FileInv /\ [FileNext]_fileVars => FileInv'
<1> SUFFICES ASSUME FileInv, [FileNext]_fileVars PROVE FileInv'
  OBVIOUS
<1>1. CASE UNCHANGED fileVars
  BY <1>1 DEF fileVars, FileInv, Common, Shape, Appending, AppendedTo, Bookmarking, Sealing
<1>2. CASE write_event \/ write_event_after_flush
  BY <1>2, WriteEventInv
<1>3. CASE update_data_offset \/ update_data_offset_returns
  BY <1>3, BookmarkInv
<1>4. CASE finish \/ finish_metadata \/ finish_section_table \/ finish_header \/ finish_returns
  BY <1>4, FinishInv
<1>5. CASE Flush \/ DropFlushes
  BY <1>5, FlushInv
<1>6. CASE WriteFails
  BY <1>6, WriteFailsInv
<1> QED BY <1>1, <1>2, <1>3, <1>4, <1>5, <1>6 DEF FileNext

\* The inductive invariant of the writer: the file and the buffer together always
\* hold a header, the records of the accepted events and, from finish on, the
\* footer, and a bookmark or the last header is written over what they replace.
THEOREM FileInvariant == FileSpec => []FileInv
<1>1. FileInit => FileInv
  BY FileInvInit
<1>2. FileInv /\ [FileNext]_fileVars => FileInv'
  BY FileInvNext
<1> QED BY <1>1, <1>2, PTL DEF FileSpec
-----------------------------------------------------------------------------
(***************************************************************************)
(* What a reader makes of such a file                                      *)
(***************************************************************************)
HasFooter(d) == Opens(d) /\ header_from_bytes(d).section_table_offset # 0

LEMMA EventsLen ==
  ASSUME NEW n \in 0 .. Len(Trace)
  PROVE  Len(Events(n)) = n /\ (n = 0 => Events(n) = << >>)
<1>1. Trace \in Seq(WperfEvent) /\ n \in Nat /\ n <= Len(Trace) /\ Len(Trace) \in Nat
  BY OffsetsFit, WprfFileAssumption
<1>2. Len(SubSeq(Trace, 1, n)) = n
  BY <1>1
<1>3. n = 0 => SubSeq(Trace, 1, n) = << >>
  BY <1>1
<1> QED BY <1>2, <1>3 DEF Events

LEMMA Metas ==
  ASSUME NEW n \in Nat, NEW v
  PROVE  /\ NoMetadata # ReaderError
         /\ [event_count |-> n, drop_count |-> v] \notin {NoMetadata, ReaderError}
<1>1. [event_count |-> n, drop_count |-> v] # NoMetadata
  <2>1. n # Missing
    BY LayoutAssumption
  <2>2. [event_count |-> n, drop_count |-> v].event_count = n /\ NoMetadata.event_count = Missing
    BY DEF NoMetadata
  <2> QED BY <2>1, <2>2, Zenon
<1>2. \A a, b : DOMAIN [event_count |-> a, drop_count |-> b] = {"event_count", "drop_count"}
  OBVIOUS
<1>3. DOMAIN ReaderError = {"error"}
  BY DEF ReaderError
<1>4. "error" \notin {"event_count", "drop_count"}
  OBVIOUS
<1>5. \A a, b : [event_count |-> a, drop_count |-> b] # ReaderError
  <2> SUFFICES ASSUME NEW a, NEW b, [event_count |-> a, drop_count |-> b] = ReaderError
               PROVE  FALSE
    OBVIOUS
  <2>1. DOMAIN [event_count |-> a, drop_count |-> b] = DOMAIN ReaderError
    BY Zenon
  <2>2. {"event_count", "drop_count"} = {"error"}
    BY <1>2, <1>3, <2>1, Zenon
  <2> QED BY <1>4, <2>2
<1>6. NoMetadata # ReaderError
  BY <1>5 DEF NoMetadata
<1> QED BY <1>1, <1>5, <1>6

\* A header without a footer, and all it names in the file
LEMMA RecordsView ==
  ASSUME NEW d \in Seq(Byte), NEW n \in 0 .. Len(Trace), NEW v, Written(d, n, v),
         NEW j \in 0 .. n, Begins(d, j), 64 + 45 * j <= Len(d)
  PROVE  Recovered(d) = Events(j) /\ Opens(d) /\ ~HasFooter(d)
<1>1. 64 + 45 * j \in Unsigned(8) /\ 0 \in Unsigned(8) /\ 0 \in {0, 1}
  BY Heads
<1>2. Has(d, 0, HeadBytes(64 + 45 * j, 0, 0)) /\ HoldsRecords(d, n)
  BY DEF Begins, Written
<1>3. Opens(d) /\ header_from_bytes(d).section_table_offset = 0
  BY <1>1, <1>2, HeadRead
<1>4. read_all_events(d) = Events(j)
  BY <1>1, <1>2, ReadsPrefix
<1> QED BY <1>3, <1>4 DEF Recovered, HasFooter

LEMMA EmptyView ==
  Recovered(<< >>) = Events(0) /\ ~Opens(<< >>) /\ ~HasFooter(<< >>)
<1>1. Len(<< >>) = 0 /\ 0 \in 0 .. Len(Trace)
  BY OffsetsFit
<1>2. ~Opens(<< >>)
  BY <1>1 DEF Opens, HEADER_SIZE
<1>3. Events(0) = << >>
  BY <1>1, EventsLen
<1> QED BY <1>2, <1>3 DEF Recovered, HasFooter

\* While the writer appends, the reader sees what the bookmark names.
LEMMA AppendingView ==
  ASSUME NEW d \in Seq(Byte), NEW b \in Seq(Byte), NEW n \in 0 .. Len(Trace), NEW v,
         Written(d \o b, n, v), NEW j \in 0 .. n, Begins(d \o b, j), InFile(j, d)
  PROVE  Recovered(d) = Events(j) /\ ~HasFooter(d) /\ Written(d, n, v)
<1> DEFINE e == d \o b
<1>1. /\ e \in Seq(Byte) /\ Len(e) = Len(d) + Len(b)
      /\ \A k \in 1 .. Len(d) : e[k] = d[k]
  BY Joined, Zenon
<1>2. Written(e, n, v) /\ Begins(e, j)
  OBVIOUS
<1> HIDE DEF e
<1>3. Len(d) \in Nat /\ Len(b) \in Nat /\ Len(d) <= Len(e) /\ n \in Nat /\ j \in Nat
  BY <1>1, OffsetsFit
<1>4. TailOf(d, e)
  <2>1. \A q \in 65 .. Len(d) : q \in 1 .. Len(d)
    BY <1>3
  <2> QED BY <1>1, <1>3, <2>1 DEF TailOf
<1>5. Written(d, n, v)
  BY <1>2, <1>4, WrittenTail
<1>6. CASE d = << >>
  <2>1. j = 0
    BY <1>6 DEF InFile
  <2> QED BY <1>5, <1>6, <2>1, EmptyView
<1>7. CASE d # << >>
  <2>1. 64 + 45 * j <= Len(d)
    BY <1>7 DEF InFile
  <2>2. Len(d) >= 64
    BY <1>3, <2>1
  <2> DEFINE H == HeadBytes(64 + 45 * j, 0, 0)
  <2>3. Len(H) = 64 /\ Has(e, 0, H)
    BY <1>2, Heads DEF Begins
  <2> HIDE DEF H
  <2>4. \A k \in 1 .. 64 : k \in 1 .. Len(d)
    BY <1>3, <2>2
  <2>5. \A k \in 1 .. 64 : d[k] = e[k]
    BY <1>1, <2>4
  <2>6. Has(d, 0, H)
    BY <1>1, <2>2, <2>3, <2>5, SameHead
  <2>7. Begins(d, j)
    BY <2>6 DEF Begins, H
  <2> QED BY <1>5, <2>1, <2>7, RecordsView
<1> QED BY <1>6, <1>7

LEMMA SealedView ==
  ASSUME NEW d \in Seq(Byte), NEW n \in 0 .. Len(Trace), NEW v, Written(d, n, v),
         Has(d, 0, FinalHead(n)), 113 + 45 * n <= Len(d)
  PROVE  /\ Recovered(d) = Events(n) /\ HasFooter(d)
         /\ read_metadata(d) = [event_count |-> n, drop_count |-> v]
<1>1. /\ 64 + 45 * n \in Unsigned(8) /\ 93 + 45 * n \in Unsigned(8) /\ 1 \in {0, 1}
      /\ n \in Nat /\ n \in 0 .. n /\ Len(d) \in Nat
  BY Heads, OffsetsFit
<1>2. Has(d, 0, HeadBytes(64 + 45 * n, 93 + 45 * n, 1)) /\ HoldsRecords(d, n)
  BY DEF FinalHead, Written
<1>3. Opens(d) /\ header_from_bytes(d).section_table_offset = 93 + 45 * n
  BY <1>1, <1>2, HeadRead
<1>4. 93 + 45 * n # 0 /\ 64 + 45 * n <= Len(d) /\ Len(d) > 64 + 45 * n
  BY <1>1
<1>5. read_all_events(d) = Events(n)
  BY <1>1, <1>2, <1>4, ReadsPrefix
<1>6. v \in Unsigned(8) /\ HoldsFooter(d, n, v)
  BY <1>4, WprfFileAssumption DEF Written
<1>7. read_metadata(d) = [event_count |-> n, drop_count |-> v]
  BY <1>1, <1>2, <1>6, FooterRead
<1> QED BY <1>3, <1>4, <1>5, <1>7 DEF Recovered, HasFooter

\* A header the file once had, before the rest of the file or part of it
LEMMA DamagedView ==
  ASSUME NEW d \in Seq(Byte), NEW n \in 0 .. Len(Trace), NEW v, Written(d, n, v),
         NEW h, NEW len, Has(d, 0, h), OldHeader(h, n, len),
         len >= 113 + 45 * n => v \in Drops
  PROVE  /\ Opens(d)
         /\ \E J \in 0 .. n :
              /\ read_all_events(d) = Events(J)
              /\ read_metadata(d) # NoMetadata =>
                   J = n /\ read_metadata(d) = [event_count |-> n, drop_count |-> v]
<1>1. n \in Nat /\ Len(d) \in Nat /\ HoldsRecords(d, n)
  BY OffsetsFit DEF Written
<1>2. CASE \E j \in 0 .. n : h = HeadBytes(64 + 45 * j, 0, 0)
  <2>1. PICK j \in 0 .. n : h = HeadBytes(64 + 45 * j, 0, 0)
    BY <1>2
  <2>2. 64 + 45 * j \in Unsigned(8) /\ 0 \in Unsigned(8) /\ 0 \in {0, 1}
    BY Heads
  <2>3. Opens(d)
    BY <2>1, <2>2, HeadRead
  <2>4. PICK J \in 0 .. j : read_all_events(d) = Events(J)
    BY <1>1, <2>1, <2>2, ReadsPrefix
  <2>5. J \in 0 .. n
    BY <1>1
  <2>6. read_metadata(d) = NoMetadata
    BY <2>1, <2>2, NoFooterRead
  <2> QED BY <2>3, <2>4, <2>5, <2>6
<1>3. CASE h = FinalHead(n) /\ len >= 113 + 45 * n
  <2>1. /\ 64 + 45 * n \in Unsigned(8) /\ 93 + 45 * n \in Unsigned(8) /\ 1 \in {0, 1}
        /\ n \in 0 .. n
    BY <1>1, Heads
  <2>2. Has(d, 0, HeadBytes(64 + 45 * n, 93 + 45 * n, 1))
    BY <1>3 DEF FinalHead
  <2>3. Opens(d)
    BY <2>1, <2>2, HeadRead
  <2>4. PICK J \in 0 .. n : /\ read_all_events(d) = Events(J)
                            /\ 64 + 45 * n <= Len(d) => J = n
    BY <1>1, <2>1, <2>2, ReadsPrefix
  <2>5. v \in Unsigned(8)
    BY <1>3, WprfFileAssumption
  <2>6. HoldsFooter(d, n, v)
    <3>1. CASE Len(d) > 64 + 45 * n
      BY <3>1 DEF Written
    <3>2. CASE ~(Len(d) > 64 + 45 * n)
      <4>1. \A k \in Nat : k >= 1 => ~(64 + 45 * n + k <= Len(d)) /\ ~(93 + 45 * n + k <= Len(d))
        BY <1>1, <3>2
      <4>2. \A s : \A k \in 1 .. Len(s) : k \in Nat /\ k >= 1
        OBVIOUS
      <4> QED BY <4>1, <4>2 DEF HoldsFooter, At
    <3> QED BY <3>1, <3>2
  <2>7. CASE 113 + 45 * n <= Len(d)
    <3>1. read_metadata(d) = [event_count |-> n, drop_count |-> v]
      BY <2>1, <2>2, <2>5, <2>6, <2>7, FooterRead
    <3>2. 64 + 45 * n <= Len(d)
      BY <1>1, <2>7
    <3> QED BY <2>3, <2>4, <3>1, <3>2
  <2>8. CASE ~(113 + 45 * n <= Len(d))
    <3>1. read_metadata(d) = NoMetadata
      BY <2>1, <2>2, <2>5, <2>6, <2>8, FooterRead
    <3> QED BY <2>3, <2>4, <3>1
  <2> QED BY <2>7, <2>8
<1> QED BY <1>2, <1>3 DEF OldHeader

HeaderBytes(h) == h \in Seq(Byte) /\ Len(h) = 64

LEMMA OldHeaderBytes ==
  ASSUME NEW h, NEW n \in 0 .. Len(Trace), NEW len, OldHeader(h, n, len)
  PROVE  HeaderBytes(h)
BY Heads DEF OldHeader, HeaderBytes

LEMMA PowerLossFile ==
  ASSUME NEW d \in Seq(Byte), Len(d) >= 64, NEW h, HeaderBytes(h), NEW m \in 0 .. Len(d)
  PROVE  /\ h \o Slice(d, HEADER_SIZE, m) \in Seq(Byte)
         /\ TailOf(h \o Slice(d, HEADER_SIZE, m), d)
         /\ Has(h \o Slice(d, HEADER_SIZE, m), 0, h)
<1> DEFINE t == Slice(d, HEADER_SIZE, m)
           p == h \o t
           l == IF m >= 64 THEN m - 64 ELSE 0
<1>1. Len(d) \in Nat /\ m \in Nat /\ m <= Len(d) /\ HEADER_SIZE = 64
  BY DEF HEADER_SIZE
<1>2. t = SubSeq(d, 65, m)
  BY <1>1 DEF Slice
<1>3. t \in Seq(Byte)
  <2>1. CASE m < 65
    <3>1. SubSeq(d, 65, m) = << >>
      BY <1>1, <2>1
    <3> QED BY <1>2, <3>1
  <2>2. CASE m >= 65
    <3>1. SubSeq(d, 65, m) \in Seq(Byte)
      BY <1>1, <2>2
    <3> QED BY <1>2, <3>1
  <2> QED BY <1>1, <2>1, <2>2
<1>4. Len(t) = l
  BY <1>1, <1>2
<1>5. \A q \in 1 .. l : t[q] = d[64 + q]
  BY <1>1, <1>2
<1> HIDE DEF t
<1>6. /\ p \in Seq(Byte) /\ Len(p) = Len(h) + Len(t)
      /\ \A k \in 1 .. Len(h) : p[k] = h[k]
      /\ \A k \in 1 .. Len(t) : p[Len(h) + k] = t[k]
  <2>1. h \in Seq(Byte) /\ t \in Seq(Byte)
    BY <1>3 DEF HeaderBytes
  <2> QED BY <2>1, Joined, Zenon
<1> HIDE DEF p
<1>7. l \in Nat /\ 64 + l <= Len(d)
  BY <1>1
<1> HIDE DEF l
<1>0. Len(h) = 64
  BY DEF HeaderBytes
<1>8. Len(p) = 64 + l
  BY <1>0, <1>4, <1>6, <1>7
<1>9. ASSUME NEW q \in 65 .. Len(p)
      PROVE  p[q] = d[q]
  <2> DEFINE k == q - 64
  <2>1. k \in 1 .. l /\ 64 + k = q
    BY <1>7, <1>8
  <2> HIDE DEF k
  <2>2. k \in 1 .. Len(t) /\ Len(h) + k = q
    BY <1>0, <1>4, <2>1
  <2>3. p[Len(h) + k] = t[k] /\ t[k] = d[64 + k]
    BY <1>5, <1>6, <2>1, <2>2
  <2> QED BY <2>1, <2>2, <2>3
<1>10. TailOf(p, d)
  <2>1. Len(p) <= Len(d)
    BY <1>7, <1>8
  <2> QED BY <1>9, <2>1 DEF TailOf
<1>11. Has(p, 0, h)
  <2>1. ASSUME NEW k \in 1 .. Len(h) PROVE p[0 + k] = h[k]
    <3>1. 0 + k = k
      OBVIOUS
    <3> QED BY <1>6, <3>1
  <2>2. 0 + Len(h) <= Len(p)
    BY <1>0, <1>7, <1>8
  <2> QED BY <2>1, <2>2 DEF Has
<1> QED BY <1>6, <1>10, <1>11 DEF p, t

\* What FileInv says of the file itself
LEMMA FileView ==
  ASSUME FileInv
  PROVE  /\ event_count \in 0 .. Len(Trace) /\ event_count \in Nat
         /\ Written(disk, event_count, drops)
         /\ \E j \in 0 .. event_count :
              /\ Recovered(disk) = Events(j) /\ Fresh(j, event_count, BookmarkEvery)
         /\ Sealed => read_metadata(disk) = [event_count |-> event_count, drop_count |-> drops]
<1> DEFINE n == event_count
<1>1. Common /\ disk \in Seq(Byte) /\ buf \in Seq(Byte) /\ n \in 0 .. Len(Trace) /\ n \in Nat
      /\ Len(disk) \in Nat
  BY OffsetsFit DEF FileInv, Common
<1>2. Sealed <=> HasFooter(disk)
  BY DEF Sealed, HasFooter
<1>3. CASE Appending(BookmarkEvery)
  <2>1. PICK j \in Nat : /\ Begins(disk \o buf, j) /\ Fresh(j, n, BookmarkEvery) /\ InFile(j, disk)
    BY <1>3 DEF Appending
  <2>2. j \in 0 .. n /\ Written(disk \o buf, n, drops)
    BY <1>3, <2>1 DEF Fresh, Appending
  <2>3. Recovered(disk) = Events(j) /\ ~HasFooter(disk) /\ Written(disk, n, drops)
    BY <1>1, <2>1, <2>2, AppendingView
  <2> QED BY <1>1, <1>2, <2>1, <2>2, <2>3
<1>4. CASE Bookmarking
  <2>1. Len(disk) = 64 + 45 * n /\ Written(disk, n, drops)
    BY <1>4 DEF Bookmarking
  <2>2. PICK j \in Nat : Begins(disk, j) /\ Fresh(j, n, BookmarkEvery)
    BY <1>1, <1>4, FreshKept DEF Bookmarking
  <2>3. j \in 0 .. n
    BY <2>2 DEF Fresh
  <2>4. 64 + 45 * j <= Len(disk)
    BY <1>1, <2>1, <2>3
  <2>5. Recovered(disk) = Events(j) /\ ~HasFooter(disk)
    BY <1>1, <2>1, <2>2, <2>3, <2>4, RecordsView
  <2> QED BY <1>1, <1>2, <2>1, <2>2, <2>3, <2>5
<1>5. CASE Sealing
  <2>1. Len(disk) = 113 + 45 * n /\ Written(disk, n, drops)
    BY <1>5 DEF Sealing
  <2>2. CASE \E j \in Nat : Begins(disk, j) /\ Fresh(j, n, 0)
    <3>1. PICK j \in Nat : Begins(disk, j) /\ Fresh(j, n, BookmarkEvery)
      BY <1>1, <2>2, FreshKept
    <3>2. j \in 0 .. n
      BY <3>1 DEF Fresh
    <3>3. 64 + 45 * j <= Len(disk)
      BY <1>1, <2>1, <3>2
    <3>4. Recovered(disk) = Events(j) /\ ~HasFooter(disk)
      BY <1>1, <2>1, <3>1, <3>2, <3>3, RecordsView
    <3> QED BY <1>1, <1>2, <2>1, <3>1, <3>2, <3>4
  <2>3. CASE Has(disk, 0, FinalHead(n))
    <3>1. 113 + 45 * n <= Len(disk)
      BY <1>1, <2>1
    <3>2. /\ Recovered(disk) = Events(n)
          /\ read_metadata(disk) = [event_count |-> n, drop_count |-> drops]
      BY <1>1, <2>1, <2>3, <3>1, SealedView
    <3>3. Fresh(n, n, BookmarkEvery) /\ n \in 0 .. n
      BY <1>1, FreshKept
    <3> QED BY <1>1, <2>1, <3>2, <3>3
  <2> QED BY <1>5, <2>2, <2>3 DEF Sealing
<1> QED BY <1>1, <1>3, <1>4, <1>5, AppendingLate DEF FileInv, Shape

LEMMA KillView == FileInv => KillRecoversPrefix
<1> SUFFICES ASSUME FileInv PROVE KillRecoversPrefix
  OBVIOUS
<1> DEFINE n == event_count
           B == BookmarkEvery
           q == n \div B
<1>1. PICK j \in 0 .. n : Recovered(disk) = Events(j) /\ Fresh(j, n, B)
  BY FileView
<1>2. n \in Nat /\ n \in 0 .. Len(Trace) /\ Len(Trace) \in Nat /\ B \in Nat \ {0}
  BY FileView, OffsetsFit, WprfFileAssumption
<1>3. j \in 0 .. Len(Trace) /\ j \in Nat /\ j <= n
  BY <1>2
<1>4. Len(Recovered(disk)) = j
  BY <1>1, <1>3, EventsLen
<1>5. j >= q * B - B
  BY <1>1 DEF Fresh
<1>6. q \in Nat
  BY <1>2
<1> HIDE DEF q
<1>7. (q - 1) * B = q * B - B
  BY <1>2, <1>6
<1> QED BY <1>1, <1>3, <1>4, <1>5, <1>7 DEF KillRecoversPrefix, q

\* Such a file begins with a header that was in the file once.
LEMMA PowerLossHeader ==
  ASSUME FileInv, NEW d \in AfterPowerLoss \cup {disk}, d # << >>
  PROVE  /\ Written(d, event_count, drops)
         /\ \E h : Has(d, 0, h) /\ OldHeader(h, event_count, Len(disk))
<1> DEFINE n == event_count
<1>1. /\ Common /\ disk \in Seq(Byte) /\ n \in 0 .. Len(Trace) /\ n \in Nat
      /\ Len(disk) \in Nat /\ Written(disk, n, drops)
  BY FileView DEF FileInv, Common
<1>3. CASE d = disk
  <2> DEFINE h == Slice(disk, 0, 64)
  <2>1. Len(disk) >= 64 /\ h \in old_headers
    BY <1>1, <1>3 DEF Common
  <2>2. OldHeader(h, n, Len(disk))
    BY <1>1, <2>1 DEF Common
  <2>3. Has(disk, 0, h)
    <3>1. Len(h) = 64 /\ \A k \in 1 .. 64 : h[k] = disk[0 + k]
      BY <1>1, <2>1 DEF Slice
    <3> HIDE DEF h
    <3>2. 0 + Len(h) <= Len(disk)
      BY <1>1, <2>1, <3>1
    <3>3. ASSUME NEW k \in 1 .. Len(h) PROVE disk[0 + k] = h[k]
      <4>1. k \in 1 .. 64
        BY <3>1
      <4> QED BY <3>1, <4>1
    <3> QED BY <3>2, <3>3 DEF Has
  <2> HIDE DEF h
  <2> QED BY <1>1, <1>3, <2>2, <2>3
<1>4. CASE d \in AfterPowerLoss
  <2>1. PICK h \in old_headers, m \in 0 .. Len(disk) : d = h \o Slice(disk, HEADER_SIZE, m)
    BY <1>4 DEF AfterPowerLoss
  <2>2. Len(disk) >= 64 /\ OldHeader(h, n, Len(disk))
    BY <1>1, <2>1 DEF Common
  <2>3. HeaderBytes(h)
    BY <1>1, <2>2, OldHeaderBytes
  <2>4. d \in Seq(Byte) /\ TailOf(d, disk) /\ Has(d, 0, h)
    BY <1>1, <2>1, <2>2, <2>3, PowerLossFile
  <2>5. Written(d, n, drops)
    BY <1>1, <2>4, WrittenTail
  <2> QED BY <2>2, <2>4, <2>5
<1> QED BY <1>3, <1>4

LEMMA PowerLossView ==
  ASSUME FileInv, NEW d \in AfterPowerLoss \cup {disk}, d # << >>
  PROVE  /\ Opens(d)
         /\ \E J \in 0 .. event_count :
              /\ read_all_events(d) = Events(J)
              /\ read_metadata(d) # NoMetadata =>
                   /\ J = event_count
                   /\ read_metadata(d) = [event_count |-> event_count, drop_count |-> drops]
<1> DEFINE n == event_count
<1>1. n \in 0 .. Len(Trace) /\ n \in Nat /\ Len(disk) \in Nat /\ Written(disk, n, drops)
  BY FileView DEF FileInv, Common
<1>2. Len(disk) >= 113 + 45 * n => drops \in Drops
  <2>1. Len(disk) >= 113 + 45 * n => Len(disk) > 64 + 45 * n
    BY <1>1
  <2> QED BY <1>1, <2>1 DEF Written
<1>3. PICK h : Written(d, n, drops) /\ Has(d, 0, h) /\ OldHeader(h, n, Len(disk))
  BY PowerLossHeader
<1>4. d \in Seq(Byte)
  BY <1>3 DEF Written
<1> QED BY <1>1, <1>2, <1>3, <1>4, DamagedView

LEMMA PowerLossPrefix == FileInv => PowerLossRecoversPrefix
<1> SUFFICES ASSUME FileInv, NEW d \in AfterPowerLoss
             PROVE  /\ Recovered(d) = Events(Len(Recovered(d)))
                    /\ Len(Recovered(d)) <= event_count
  BY DEF PowerLossRecoversPrefix
<1>1. event_count \in Nat /\ event_count \in 0 .. Len(Trace) /\ Len(Trace) \in Nat
  BY FileView, OffsetsFit
<1>2. CASE d = << >>
  <2>1. Recovered(d) = Events(0) /\ 0 \in 0 .. Len(Trace)
    BY <1>1, <1>2, EmptyView
  <2>2. Len(Events(0)) = 0
    BY <2>1, EventsLen
  <2> QED BY <1>1, <2>1, <2>2
<1>3. CASE d # << >>
  <2>1. PICK J \in 0 .. event_count : Opens(d) /\ read_all_events(d) = Events(J)
    BY <1>3, PowerLossView
  <2>2. Recovered(d) = Events(J) /\ J \in 0 .. Len(Trace) /\ J \in Nat /\ J <= event_count
    BY <1>1, <2>1 DEF Recovered
  <2>3. Len(Events(J)) = J
    BY <2>2, EventsLen
  <2> QED BY <2>2, <2>3
<1> QED BY <1>2, <1>3

LEMMA MetadataView == FileInv => MetadataIsTrue
<1> SUFFICES ASSUME FileInv PROVE MetadataIsTrue
  OBVIOUS
<1>1. event_count \in Nat /\ event_count \in 0 .. Len(Trace)
  BY FileView
<1>2. ASSUME NEW d \in AfterPowerLoss \cup {disk}, Opens(d),
             read_metadata(d) \notin {NoMetadata, ReaderError}
      PROVE  /\ read_metadata(d) = [event_count |-> Len(read_all_events(d)), drop_count |-> drops]
             /\ read_metadata(d).event_count = event_count
  <2>1. d # << >>
    BY <1>2, EmptyView
  <2>2. /\ read_all_events(d) = Events(event_count)
        /\ read_metadata(d) = [event_count |-> event_count, drop_count |-> drops]
    BY <1>2, <2>1, PowerLossView
  <2>3. Len(read_all_events(d)) = event_count
    BY <1>1, <2>2, EventsLen
  <2> QED BY <2>2, <2>3
<1>3. Sealed => read_metadata(disk) \notin {NoMetadata, ReaderError}
  BY <1>1, FileView, Metas
<1> QED BY <1>2, <1>3 DEF MetadataIsTrue

\* After a kill at any moment a reader of the file gets the first events written,
\* each with all its fields, at least those up to the bookmark before the last
\* one due: for every trace, page size, buffer size and bookmark interval.
THEOREM KillRecoversPrefixHolds == FileSpec => []KillRecoversPrefix
BY FileInvariant, KillView, PTL

\* After a power failure that keeps any header the file ever had and cuts the
\* file anywhere, a reader gets a prefix of the events.
THEOREM PowerLossRecoversPrefixHolds == FileSpec => []PowerLossRecoversPrefix
BY FileInvariant, PowerLossPrefix, PTL

\* Metadata that is found counts the events that are found and gives the drop
\* count passed to finish, also after a power failure; a header that names the
\* section table always leads to it.
THEOREM MetadataIsTrueHolds == FileSpec => []MetadataIsTrue
BY FileInvariant, MetadataView, PTL
-----------------------------------------------------------------------------
(***************************************************************************)
(* The file implements the log.                                            *)
(***************************************************************************)
Seen == Len(Recovered(disk))
SealedAt == IF Sealed THEN event_count ELSE Missing

LEMMA SameFile ==
  ASSUME disk' = disk
  PROVE  /\ Seen' = Seen /\ (Sealed' <=> Sealed)
         /\ event_count' = event_count => SealedAt' = SealedAt
BY DEF Seen, Sealed, SealedAt

LEMMA FlushLog ==
  ASSUME FileInv, Flush \/ DropFlushes
  PROVE  \/ Log!Persist \/ Log!Seal \/ UNCHANGED Log!logVars
<1> DEFINE n == event_count
<1>1. /\ FlushPage /\ Common /\ event_count' = n /\ drops' = drops
      /\ n \in 0 .. Len(Trace) /\ n \in Nat /\ disk \in Seq(Byte) /\ buf \in Seq(Byte)
      /\ Len(disk) \in Nat /\ Len(Trace) \in Nat
  BY OffsetsFit DEF Flush, DropFlushes, FileInv, Common
<1>2. \A j \in 0 .. n : j \in 0 .. Len(Trace) /\ j \in Nat /\ j <= n /\ Len(Events(j)) = j
  <2>1. \A j \in 0 .. n : j \in 0 .. Len(Trace) /\ j \in Nat /\ j <= n
    BY <1>1
  <2> QED BY <2>1, EventsLen
<1>3. ASSUME NEW late, Appending(late)
      PROVE  UNCHANGED Log!logVars
  <2>1. /\ Common' /\ Appending(late)' /\ \E j \in 0 .. n : Moves(j)
    BY <1>1, <1>3, FlushAppending
  <2>2. PICK j \in 0 .. n : Moves(j)
    BY <2>1
  <2>3. Written(disk \o buf, n, drops) /\ disk' \in Seq(Byte) /\ buf' \in Seq(Byte)
    BY <1>3, <2>1 DEF Appending, Common
  <2>4. Recovered(disk) = Events(j) /\ ~HasFooter(disk)
    BY <1>1, <2>2, <2>3, AppendingView DEF Moves
  <2>5. Written(disk' \o buf', n, drops) /\ Begins(disk' \o buf', j)
    BY <2>2, <2>3, Zenon DEF Moves
  <2>6. Recovered(disk') = Events(j) /\ ~HasFooter(disk')
    BY <1>1, <2>2, <2>3, <2>5, AppendingView DEF Moves
  <2>7. ~Sealed /\ ~Sealed'
    BY <2>4, <2>6 DEF Sealed, HasFooter
  <2> QED BY <1>1, <2>4, <2>6, <2>7 DEF Log!logVars
<1>4. ASSUME Bookmarking
      PROVE  Log!Persist \/ UNCHANGED Log!logVars
  <2>1. Common' /\ Bookmarking' /\ Begins(disk', n)
    BY <1>1, <1>4, FlushBookmarking
  <2>2. /\ Len(disk) = 64 + 45 * n /\ Written(disk, n, drops)
        /\ Len(disk') = 64 + 45 * n /\ Written(disk', n, drops) /\ disk' \in Seq(Byte)
    BY <1>1, <1>4, <2>1 DEF Bookmarking, Common
  <2>3. PICK j \in Nat : Begins(disk, j) /\ Fresh(j, n, BookmarkEvery)
    BY <1>1, <1>4, FreshKept DEF Bookmarking
  <2>4. j \in 0 .. n /\ n \in 0 .. n
    BY <1>1, <2>3 DEF Fresh
  <2>5. 64 + 45 * j <= Len(disk) /\ 64 + 45 * n <= Len(disk')
    BY <1>1, <2>2, <2>4
  <2>6. Recovered(disk) = Events(j) /\ ~HasFooter(disk)
    BY <1>1, <2>2, <2>3, <2>4, <2>5, RecordsView
  <2>7. Recovered(disk') = Events(n) /\ ~HasFooter(disk')
    BY <1>1, <2>1, <2>2, <2>4, <2>5, RecordsView
  <2>8. ~Sealed /\ ~Sealed'
    BY <2>6, <2>7 DEF Sealed, HasFooter
  <2>9. Len(Recovered(disk)) = j /\ Len(Recovered(disk')) = n
    BY <1>2, <2>4, <2>6, <2>7
  <2>10. CASE j = n
    BY <1>1, <2>8, <2>9, <2>10 DEF Log!logVars
  <2>11. CASE j # n
    <3>1. n \in j + 1 .. n
      BY <1>1, <2>4, <2>11
    <3> QED BY <1>1, <2>8, <2>9, <3>1 DEF Log!Persist
  <2> QED BY <2>10, <2>11
<1>5. ASSUME Sealing
      PROVE  Log!Seal
  <2>1. Common' /\ Sealing' /\ Has(disk', 0, FinalHead(n))
    BY <1>1, <1>5, FlushSealing
  <2>2. /\ Len(disk) = 113 + 45 * n /\ Written(disk, n, drops)
        /\ Len(disk') = 113 + 45 * n /\ Written(disk', n, drops) /\ disk' \in Seq(Byte)
    BY <1>1, <1>5, <2>1 DEF Sealing, Common
  <2>3. PICK j \in Nat : Begins(disk, j) /\ Fresh(j, n, 0)
    BY <1>1, <1>5 DEF Sealing, FlushPage
  <2>4. j \in 0 .. n /\ n \in 0 .. n
    BY <1>1, <2>3 DEF Fresh
  <2>5. 64 + 45 * j <= Len(disk) /\ 113 + 45 * n <= Len(disk')
    BY <1>1, <2>2, <2>4
  <2>6. ~HasFooter(disk)
    BY <1>1, <2>2, <2>3, <2>4, <2>5, RecordsView
  <2>7. Recovered(disk') = Events(n) /\ HasFooter(disk')
    BY <1>1, <2>1, <2>2, <2>5, SealedView
  <2>8. ~Sealed /\ Sealed'
    BY <2>6, <2>7 DEF Sealed, HasFooter
  <2>9. Len(Recovered(disk')) = n
    BY <1>2, <2>4, <2>7
  <2> QED BY <1>1, <2>8, <2>9 DEF Log!Seal
<1> QED BY <1>3, <1>4, <1>5 DEF FileInv, Shape

LEMMA WriteLog ==
  ASSUME FileInv, write_event \/ write_event_after_flush
  PROVE  Log!Accept \/ UNCHANGED Log!logVars
<1>1. disk' = disk
  BY DEF write_event, write_event_after_flush, Accepted
<1>2. Seen' = Seen /\ (Sealed' <=> Sealed)
  BY <1>1, SameFile
<1>3. /\ stage \in {"ready", "append"} /\ event_count < Len(Trace)
  BY DEF FileInv, Shape, write_event, write_event_after_flush
<1>4. ~Sealed
  <2>1. Common /\ Appending(0)
    BY <1>3 DEF FileInv, Shape
  <2>2. PICK j \in Nat : /\ Begins(disk \o buf, j) /\ Fresh(j, event_count, 0) /\ InFile(j, disk)
    BY <2>1 DEF Appending
  <2>3. /\ j \in 0 .. event_count /\ Written(disk \o buf, event_count, drops)
        /\ event_count \in 0 .. Len(Trace) /\ disk \in Seq(Byte) /\ buf \in Seq(Byte)
    BY <2>1, <2>2 DEF Fresh, Appending, Common
  <2>4. ~HasFooter(disk)
    BY <2>2, <2>3, AppendingView
  <2> QED BY <2>4 DEF Sealed, HasFooter
<1>5. CASE event_count' = event_count
  BY <1>2, <1>4, <1>5 DEF Log!logVars, Seen
<1>6. CASE event_count' = event_count + 1
  BY <1>2, <1>3, <1>4, <1>6 DEF Log!Accept, Seen
<1> QED BY <1>5, <1>6 DEF write_event, write_event_after_flush, Accepted

LEMMA LogStep == FileInv /\ [FileNext]_fileVars => [Log!Next]_Log!logVars
<1> SUFFICES ASSUME FileInv, [FileNext]_fileVars PROVE [Log!Next]_Log!logVars
  OBVIOUS
<1>1. CASE write_event \/ write_event_after_flush
  BY <1>1, WriteLog DEF Log!Next
<1>2. CASE Flush \/ DropFlushes
  BY <1>2, FlushLog DEF Log!Next
<1>3. CASE \/ update_data_offset \/ update_data_offset_returns \/ finish \/ finish_metadata
           \/ finish_section_table \/ finish_header \/ finish_returns \/ WriteFails
           \/ UNCHANGED fileVars
  <2>1. disk' = disk /\ event_count' = event_count
    BY <1>3 DEF update_data_offset, update_data_offset_returns, finish, finish_metadata,
                finish_section_table, finish_header, finish_returns, WriteFails, fileVars
  <2>2. Seen' = Seen /\ SealedAt' = SealedAt
    BY <2>1, SameFile
  <2> QED BY <2>1, <2>2 DEF Log!logVars, Seen, SealedAt
<1> QED BY <1>1, <1>2, <1>3 DEF FileNext

\* A reader that looks at the file again and again sees a log that only grows, of
\* which it gets a prefix, and that is sealed once, with all its events: a flush
\* of a bookmark persists events, the flush of the last header seals the log, and
\* no other flush, torn or not, changes what the reader gets.
THEOREM FileImplementsLog == FileSpec => LogSpec
<1>1. FileInit => Log!Init
  <2> SUFFICES ASSUME FileInit PROVE Log!Init
    OBVIOUS
  <2>1. disk = << >> /\ event_count = 0 /\ 0 \in 0 .. Len(Trace)
    BY OffsetsFit DEF FileInit
  <2>2. Recovered(disk) = Events(0) /\ ~Sealed
    BY <2>1, EmptyView DEF Sealed
  <2>3. Len(Recovered(disk)) = 0
    BY <2>1, <2>2, EventsLen
  <2> QED BY <2>1, <2>2, <2>3 DEF Log!Init
<1>2. FileInv /\ [FileNext]_fileVars => [Log!Next]_Log!logVars
  BY LogStep
<1> QED BY <1>1, <1>2, FileInvariant, PTL DEF FileSpec, LogSpec, Log!Spec

-----------------------------------------------------------------------------
(***************************************************************************)
(* Sorting by a key with LexLess                                           *)
(***************************************************************************)

\* Two different keys of the same width are ordered.
LEMMA LexTotal ==
  ASSUME NEW w \in Nat, NEW a \in [1 .. w -> Int], NEW b \in [1 .. w -> Int], a # b
  PROVE  LexLess(a, b) \/ LexLess(b, a)
<1> DEFINE D == {i \in 1 .. w : a[i] # b[i]}
<1>1. D # {}
  OBVIOUS
<1>2. D \subseteq Nat
  OBVIOUS
<1>3. PICK i \in D : \A j \in D : i <= j
  BY <1>1, <1>2, LeastNat, Zenon
<1>4. \A j \in 1 .. i - 1 : a[j] = b[j]
  BY <1>3
<1>5. a[i] < b[i] \/ b[i] < a[i]
  BY <1>3
<1> QED BY <1>3, <1>4, <1>5 DEF LexLess

\* LexLess is transitive.
LEMMA LexTransitive ==
  ASSUME NEW w \in Nat, NEW a \in [1 .. w -> Int], NEW b \in [1 .. w -> Int],
         NEW c \in [1 .. w -> Int], LexLess(a, b), LexLess(b, c)
  PROVE  LexLess(a, c)
<1>1. PICK i \in 1 .. w : a[i] < b[i] /\ \A j \in 1 .. i - 1 : a[j] = b[j]
  BY DEF LexLess
<1>2. PICK k \in 1 .. w : b[k] < c[k] /\ \A j \in 1 .. k - 1 : b[j] = c[j]
  BY DEF LexLess
<1>3. CASE i <= k
  <2>1. a[i] < c[i]
    BY <1>1, <1>2, <1>3
  <2>2. \A j \in 1 .. i - 1 : a[j] = c[j]
    BY <1>1, <1>2, <1>3
  <2> QED BY <2>1, <2>2 DEF LexLess
<1>4. CASE k < i
  <2>1. a[k] < c[k]
    BY <1>1, <1>2, <1>4
  <2>2. \A j \in 1 .. k - 1 : a[j] = c[j]
    BY <1>1, <1>2, <1>4
  <2> QED BY <2>1, <2>2 DEF LexLess
<1> QED BY <1>3, <1>4

\* p puts the keys in order.
Ordered(n, key, p) ==
  \A i, j \in 1 .. n : i < j => ~LexLess(key[p[j]], key[p[i]])

\* Two permutations that put the keys in order agree on the key of every place:
\* otherwise the keys up to the smaller one would fill i places in one order
\* and fewer than i in the other.
LEMMA OrderedNotLess ==
  ASSUME NEW n \in Nat, NEW w \in Nat, NEW key \in [1 .. n -> [1 .. w -> Int]],
         NEW p \in Bijection(1 .. n, 1 .. n), NEW q \in Bijection(1 .. n, 1 .. n),
         Ordered(n, key, p), Ordered(n, key, q), NEW i \in 1 .. n
  PROVE  ~LexLess(key[p[i]], key[q[i]])
<1>1. SUFFICES ASSUME LexLess(key[p[i]], key[q[i]])
               PROVE  FALSE
  OBVIOUS
<1>2. /\ p \in [1 .. n -> 1 .. n] /\ q \in [1 .. n -> 1 .. n]
      /\ \A j, k \in 1 .. n : p[j] = p[k] => j = k
      /\ \A j \in 1 .. n : \E k \in 1 .. n : q[k] = j
  BY DEF Bijection, Injection, Surjection, IsInjective
<1>3. ASSUME NEW j \in 1 .. n, NEW k \in 1 .. n, j <= i, i <= k
      PROVE  q[k] # p[j]
  <2>1. key[p[j]] = key[p[i]] \/ LexLess(key[p[j]], key[p[i]])
    <3>1. ~LexLess(key[p[i]], key[p[j]]) \/ j = i
      BY <1>3 DEF Ordered
    <3>2. key[p[i]] \in [1 .. w -> Int] /\ key[p[j]] \in [1 .. w -> Int]
      BY <1>2
    <3> QED BY <3>1, <3>2, LexTotal
  <2>2. key[q[k]] = key[q[i]] \/ LexLess(key[q[i]], key[q[k]])
    <3>1. ~LexLess(key[q[k]], key[q[i]]) \/ k = i
      BY <1>3 DEF Ordered
    <3>2. key[q[i]] \in [1 .. w -> Int] /\ key[q[k]] \in [1 .. w -> Int]
      BY <1>2
    <3> QED BY <3>1, <3>2, LexTotal
  <2>3. /\ key[p[i]] \in [1 .. w -> Int] /\ key[p[j]] \in [1 .. w -> Int]
        /\ key[q[i]] \in [1 .. w -> Int] /\ key[q[k]] \in [1 .. w -> Int]
    BY <1>2
  <2>4. LexLess(key[p[j]], key[q[i]])
    BY <1>1, <2>1, <2>3, LexTransitive
  <2>5. LexLess(key[p[j]], key[q[k]])
    BY <2>4, <2>2, <2>3, LexTransitive
  <2>6. ~LexLess(key[p[j]], key[p[j]])
    BY <2>3 DEF LexLess
  <2> QED BY <2>5, <2>6
<1> DEFINE f == [j \in 1 .. i |-> CHOOSE k \in 1 .. n : q[k] = p[j]]
<1>4. ASSUME NEW j \in 1 .. i
      PROVE  f[j] \in 1 .. n /\ q[f[j]] = p[j] /\ f[j] < i
  <2>1. p[j] \in 1 .. n /\ j \in 1 .. n /\ j <= i
    BY <1>2
  <2>2. \E k \in 1 .. n : q[k] = p[j]
    BY <1>2, <2>1
  <2>3. f[j] \in 1 .. n /\ q[f[j]] = p[j]
    BY <2>2
  <2>4. ~(i <= f[j])
    BY <1>3, <2>1, <2>3
  <2> QED BY <2>3, <2>4
<1>5. f \in [1 .. i -> 1 .. i - 1]
  <2>1. \A j \in 1 .. i : f[j] \in 1 .. i - 1
    BY <1>4
  <2> QED BY <2>1
<1>6. /\ IsFiniteSet(1 .. i) /\ Cardinality(1 .. i) = i
      /\ IsFiniteSet(1 .. i - 1) /\ Cardinality(1 .. i - 1) = i - 1
  <2>1. i \in Int /\ i - 1 \in Int /\ 1 \in Int /\ i >= 1
    OBVIOUS
  <2> QED BY <2>1, FS_Interval
<1>7. Cardinality(1 .. i - 1) < Cardinality(1 .. i)
  BY <1>6
<1>8. PICK j, k \in 1 .. i : j # k /\ f[j] = f[k]
  <2> HIDE DEF f
  <2> QED BY <1>5, <1>6, <1>7, FS_PigeonHole
<1>9. p[j] = p[k] /\ j \in 1 .. n /\ k \in 1 .. n
  <2> HIDE DEF f
  <2>1. q[f[j]] = p[j] /\ q[f[k]] = p[k]
    BY <1>4
  <2> QED BY <2>1, <1>8
<1> QED BY <1>2, <1>8, <1>9

LEMMA OrderedSameKeys ==
  ASSUME NEW n \in Nat, NEW w \in Nat, NEW key \in [1 .. n -> [1 .. w -> Int]],
         NEW p \in Bijection(1 .. n, 1 .. n), NEW q \in Bijection(1 .. n, 1 .. n),
         Ordered(n, key, p), Ordered(n, key, q), NEW i \in 1 .. n
  PROVE  key[p[i]] = key[q[i]]
<1>1. ~LexLess(key[p[i]], key[q[i]])
  BY OrderedNotLess, Zenon
<1>2. ~LexLess(key[q[i]], key[p[i]])
  BY OrderedNotLess, Zenon
<1>3. p[i] \in 1 .. n /\ q[i] \in 1 .. n
  BY DEF Bijection, Injection
<1>4. key[p[i]] \in [1 .. w -> Int] /\ key[q[i]] \in [1 .. w -> Int]
  BY <1>3
<1> QED BY <1>1, <1>2, <1>4, LexTotal

\* Things with the same key are the same.
KeyTells(n, s, key) == \A i, j \in 1 .. n : key[i] = key[j] => s[i] = s[j]

\* s then has one sorting.
LEMMA OneSorting ==
  ASSUME NEW n \in Nat, NEW w \in Nat, NEW s, DOMAIN s = 1 .. n,
         NEW key \in [1 .. n -> [1 .. w -> Int]],
         KeyTells(n, s, key),
         NEW a \in Sortings(s, key), NEW b \in Sortings(s, key)
  PROVE  a = b
<1>1. PICK p \in Bijection(1 .. n, 1 .. n) :
        Ordered(n, key, p) /\ a = [i \in 1 .. n |-> s[p[i]]]
  BY DEF Sortings, Ordered
<1>2. PICK q \in Bijection(1 .. n, 1 .. n) :
        Ordered(n, key, q) /\ b = [i \in 1 .. n |-> s[q[i]]]
  BY DEF Sortings, Ordered
<1>3. ASSUME NEW i \in 1 .. n
      PROVE  s[p[i]] = s[q[i]]
  <2>1. key[p[i]] = key[q[i]]
    BY <1>1, <1>2, OrderedSameKeys
  <2>2. p[i] \in 1 .. n /\ q[i] \in 1 .. n
    BY DEF Bijection, Injection
  <2> QED BY <2>1, <2>2 DEF KeyTells
<1> QED BY <1>1, <1>2, <1>3

\* A sorting of the reversed sequence is a sorting of the sequence.
LEMMA SortingOfReverse ==
  ASSUME NEW X, NEW s \in Seq(X), NEW key,
         NEW a \in Sortings(Reverse(s),
                            [i \in DOMAIN Reverse(s) |-> key[Len(s) - i + 1]])
  PROVE  a \in Sortings(s, key)
<1> DEFINE n == Len(s)
           r == [i \in 1 .. n |-> n - i + 1]
<1>1. n \in Nat /\ DOMAIN s = 1 .. n /\ DOMAIN Reverse(s) = 1 .. n
  BY DEF Reverse
<1>2. \A i \in 1 .. n : Reverse(s)[i] = s[r[i]]
  BY DEF Reverse
<1>3. PICK q \in Bijection(1 .. n, 1 .. n) :
        /\ \A i, j \in 1 .. n : i < j => ~LexLess(key[r[q[j]]], key[r[q[i]]])
        /\ a = [i \in 1 .. n |-> Reverse(s)[q[i]]]
  <2>1. PICK q \in Bijection(1 .. n, 1 .. n) :
          /\ \A i, j \in 1 .. n : i < j =>
               ~LexLess([k \in 1 .. n |-> key[n - k + 1]][q[j]],
                        [k \in 1 .. n |-> key[n - k + 1]][q[i]])
          /\ a = [i \in 1 .. n |-> Reverse(s)[q[i]]]
    BY <1>1 DEF Sortings
  <2>2. \A i \in 1 .. n :
          q[i] \in 1 .. n /\ [k \in 1 .. n |-> key[n - k + 1]][q[i]] = key[r[q[i]]]
    BY DEF Bijection, Injection
  <2> QED BY <2>1, <2>2
<1> DEFINE p == [i \in 1 .. n |-> r[q[i]]]
<1>4. /\ q \in [1 .. n -> 1 .. n]
      /\ \A j, k \in 1 .. n : q[j] = q[k] => j = k
      /\ \A j \in 1 .. n : \E k \in 1 .. n : q[k] = j
  BY DEF Bijection, Injection, Surjection, IsInjective
<1>5. p \in Bijection(1 .. n, 1 .. n)
  <2>1. \A i \in 1 .. n : r[i] \in 1 .. n /\ r[r[i]] = i
    BY <1>1
  <2> HIDE DEF r, n
  <2>2. p \in [1 .. n -> 1 .. n]
    BY <1>4, <2>1
  <2>3. IsInjective(p)
    <3>1. SUFFICES ASSUME NEW x \in 1 .. n, NEW y \in 1 .. n, p[x] = p[y]
                   PROVE  x = y
      BY DEF IsInjective
    <3>2. q[x] \in 1 .. n /\ q[y] \in 1 .. n /\ r[q[x]] = r[q[y]]
      BY <1>4, <3>1
    <3>3. q[x] = q[y]
      BY <2>1, <3>2
    <3> QED BY <1>4, <3>3
  <2>4. ASSUME NEW t \in 1 .. n
        PROVE  \E i \in 1 .. n : p[i] = t
    <3>1. r[t] \in 1 .. n /\ r[r[t]] = t
      BY <2>1
    <3>2. PICK i \in 1 .. n : q[i] = r[t]
      BY <1>4, <3>1
    <3> QED BY <3>1, <3>2
  <2> QED BY <2>2, <2>3, <2>4 DEF Bijection, Injection, Surjection
<1>6. a = [i \in 1 .. n |-> s[p[i]]]
  BY <1>2, <1>3, <1>4
<1>7. \A i, j \in 1 .. n : i < j => ~LexLess(key[p[j]], key[p[i]])
  BY <1>3
<1> QED
  <2> HIDE DEF p, r
  <2> QED BY <1>1, <1>5, <1>6, <1>7 DEF Sortings

LEMMA EventKeys ==
  ASSUME NEW e \in ReadEvent
  PROVE  /\ EventKey(e) \in [1 .. 11 -> Int]
         /\ \A f \in ReadEvent : EventKey(e) = EventKey(f) => e = f
<1>1. EventKey(e) \in [1 .. 11 -> Int]
  BY DEF EventKey, ReadEvent
<1>2. ASSUME NEW f \in ReadEvent, EventKey(e) = EventKey(f)
      PROVE  e = f
  <2>1. /\ e.timestamp_ns = f.timestamp_ns /\ e.pid = f.pid /\ e.tid = f.tid
        /\ e.prev_tid = f.prev_tid /\ e.next_tid = f.next_tid
        /\ e.prev_pid = f.prev_pid /\ e.next_pid = f.next_pid /\ e.cpu = f.cpu
        /\ e.event_type = f.event_type /\ e.prev_state = f.prev_state
        /\ e.flags = f.flags
    BY <1>2 DEF EventKey
  <2> QED BY <2>1 DEF ReadEvent
<1> QED BY <1>1, <1>2

LEMMA EdgeKeys ==
  ASSUME NEW e \in EdgeOutput
  PROVE  /\ EdgeKey(e) \in [1 .. 4 -> Int]
         /\ \A f \in EdgeOutput : EdgeKey(e) = EdgeKey(f) => e = f
<1>1. EdgeKey(e) \in [1 .. 4 -> Int]
  BY DEF EdgeKey, EdgeOutput
<1>2. ASSUME NEW f \in EdgeOutput, EdgeKey(e) = EdgeKey(f)
      PROVE  e = f
  <2>1. /\ e.src = f.src /\ e.dst = f.dst /\ e.raw_wait_ms = f.raw_wait_ms
        /\ e.attributed_delay_ms = f.attributed_delay_ms
    BY <1>2 DEF EdgeKey
  <2> QED BY <2>1 DEF EdgeOutput
<1> QED BY <1>1, <1>2

LEMMA ReverseSeq ==
  ASSUME NEW X, NEW s \in Seq(X)
  PROVE  /\ Reverse(s) \in Seq(X) /\ Len(Reverse(s)) = Len(s)
         /\ \A i \in 1 .. Len(s) : Reverse(s)[i] = s[Len(s) - i + 1]
         /\ Reverse(Reverse(s)) = s
<1>1. /\ Reverse(s) \in Seq(X) /\ Len(Reverse(s)) = Len(s)
      /\ \A i \in 1 .. Len(s) : Reverse(s)[i] = s[Len(s) - i + 1]
  BY DEF Reverse
<1>2. Reverse(Reverse(s)) = [i \in 1 .. Len(s) |-> Reverse(s)[Len(s) - i + 1]]
  BY <1>1 DEF Reverse
<1>3. \A i \in 1 .. Len(s) : Reverse(s)[Len(s) - i + 1] = s[i]
  BY <1>1
<1>4. s = [i \in 1 .. Len(s) |-> s[i]]
  OBVIOUS
<1> QED BY <1>1, <1>2, <1>3, <1>4

\* events.sort_unstable() gives one order only, whatever the order it is given.
LEMMA EventsSortOneWay ==
  ASSUME NEW s \in Seq(ReadEvent), NEW a \in SortedEvents(s)
  PROVE  SortedEvents(s) \cup SortedEvents(Reverse(s)) = {a}
<1> DEFINE key == [i \in 1 .. Len(s) |-> EventKey(s[i])]
<1>1. /\ DOMAIN s = 1 .. Len(s) /\ Len(s) \in Nat
      /\ \A i \in 1 .. Len(s) : s[i] \in ReadEvent
  OBVIOUS
<1>2. SortedEvents(s) = Sortings(s, key)
  BY <1>1 DEF SortedEvents
<1>3. ASSUME NEW b \in Sortings(s, key)
      PROVE  b = a
  <2>1. key \in [1 .. Len(s) -> [1 .. 11 -> Int]]
    BY <1>1, EventKeys
  <2>2. KeyTells(Len(s), s, key)
    BY <1>1, EventKeys DEF KeyTells
  <2>3. a \in Sortings(s, key) /\ 11 \in Nat
    BY <1>2
  <2> HIDE DEF key
  <2> QED BY <1>1, <1>3, <2>1, <2>2, <2>3, OneSorting, Zenon
<1>4. ASSUME NEW b \in SortedEvents(Reverse(s))
      PROVE  b \in Sortings(s, key)
  <2>1. [i \in DOMAIN Reverse(s) |-> EventKey(Reverse(s)[i])]
          = [i \in DOMAIN Reverse(s) |-> key[Len(s) - i + 1]]
    BY <1>1, ReverseSeq
  <2>2. b \in Sortings(Reverse(s), [i \in DOMAIN Reverse(s) |-> key[Len(s) - i + 1]])
    BY <1>4, <2>1, Zenon DEF SortedEvents
  <2> HIDE DEF key
  <2> QED BY <2>2, SortingOfReverse
<1> QED BY <1>2, <1>3, <1>4

\* In the same way for the edges of a graph
LEMMA EdgesOfReverse ==
  ASSUME NEW s \in Seq(EdgeOutput)
  PROVE  SortedEdges(Reverse(s)) \subseteq SortedEdges(s)
<1> DEFINE key == [i \in 1 .. Len(s) |-> EdgeKey(s[i])]
<1>1. DOMAIN s = 1 .. Len(s) /\ Len(s) \in Nat
  OBVIOUS
<1>2. SortedEdges(s) = Sortings(s, key)
  BY <1>1 DEF SortedEdges
<1>3. SUFFICES ASSUME NEW b \in SortedEdges(Reverse(s))
               PROVE  b \in Sortings(s, key)
  BY <1>2
<1>4. [i \in DOMAIN Reverse(s) |-> EdgeKey(Reverse(s)[i])]
        = [i \in DOMAIN Reverse(s) |-> key[Len(s) - i + 1]]
  BY <1>1, ReverseSeq
<1>5. b \in Sortings(Reverse(s), [i \in DOMAIN Reverse(s) |-> key[Len(s) - i + 1]])
  BY <1>3, <1>4, Zenon DEF SortedEdges
<1> HIDE DEF key
<1> QED BY <1>5, SortingOfReverse

LEMMA EdgesSortOneWay ==
  ASSUME NEW s \in Seq(EdgeOutput), NEW a \in SortedEdges(s)
  PROVE  SortedEdges(s) = {a} /\ SortedEdges(Reverse(s)) = {a}
<1> DEFINE key == [i \in 1 .. Len(s) |-> EdgeKey(s[i])]
<1>1. /\ DOMAIN s = 1 .. Len(s) /\ Len(s) \in Nat
      /\ \A i \in 1 .. Len(s) : s[i] \in EdgeOutput
  OBVIOUS
<1>2. SortedEdges(s) = Sortings(s, key)
  BY <1>1 DEF SortedEdges
<1>3. ASSUME NEW b \in Sortings(s, key)
      PROVE  b = a
  <2>1. key \in [1 .. Len(s) -> [1 .. 4 -> Int]]
    BY <1>1, EdgeKeys
  <2>2. KeyTells(Len(s), s, key)
    BY <1>1, EdgeKeys DEF KeyTells
  <2>3. a \in Sortings(s, key) /\ 4 \in Nat
    BY <1>2
  <2> HIDE DEF key
  <2> QED BY <1>1, <1>3, <2>1, <2>2, <2>3, OneSorting, Zenon
<1>4. SortedEdges(s) = {a}
  BY <1>2, <1>3
<1>5. SortedEdges(Reverse(s)) \subseteq SortedEdges(s)
  BY EdgesOfReverse
<1>6. SortedEdges(s) \subseteq SortedEdges(Reverse(s))
  BY EdgesOfReverse, ReverseSeq
<1> QED BY <1>4, <1>5, <1>6

\* A graph has finitely many nodes, and as many when its edges are reversed.
LEMMA NodesFinite ==
  ASSUME NEW g \in Seq(EdgeOutput)
  PROVE  IsFiniteSet(Nodes(g)) /\ Nodes(g) \subseteq Int
<1> DEFINE n == Len(g)
           f == [k \in 1 .. n + n |-> IF k <= n THEN g[k].src ELSE g[k - n].dst]
<1>1. /\ n \in Nat /\ DOMAIN g = 1 .. n
      /\ \A i \in 1 .. n : g[i].src \in Int /\ g[i].dst \in Int
  <2>1. \A e \in EdgeOutput : e.src \in Int /\ e.dst \in Int
    BY DEF EdgeOutput
  <2>2. n \in Nat /\ DOMAIN g = 1 .. n /\ \A i \in 1 .. n : g[i] \in EdgeOutput
    OBVIOUS
  <2> QED BY <2>1, <2>2
<1>2. ASSUME NEW x \in Nodes(g)
      PROVE  x \in Int /\ \E k \in 1 .. n + n : f[k] = x
  <2>1. PICK i \in 1 .. n : x = g[i].src \/ x = g[i].dst
    BY <1>1, <1>2 DEF Nodes
  <2>2. i \in 1 .. n + n /\ i + n \in 1 .. n + n
    BY <1>1
  <2>3. f[i] = g[i].src /\ f[i + n] = g[i].dst
    BY <1>1, <2>2
  <2> QED BY <1>1, <2>1, <2>2, <2>3
<1>3. ASSUME NEW k \in 1 .. n + n
      PROVE  f[k] \in Nodes(g)
  <2>1. CASE k <= n
    BY <1>1, <2>1 DEF Nodes
  <2>2. CASE ~(k <= n)
    <3>1. k - n \in 1 .. n /\ f[k] = g[k - n].dst
      BY <1>1, <2>2
    <3> QED BY <1>1, <3>1 DEF Nodes
  <2> QED BY <2>1, <2>2
<1>4. f \in Surjection(1 .. n + n, Nodes(g))
  <2>1. f \in [1 .. n + n -> Nodes(g)]
    BY <1>3
  <2> HIDE DEF f
  <2> QED BY <1>2, <2>1 DEF Surjection
<1>5. IsFiniteSet(1 .. n + n)
  BY <1>1, FS_Interval
<1> HIDE DEF f, n
<1> QED BY <1>2, <1>4, <1>5, FS_Surjection

LEMMA NodesOfReverse ==
  ASSUME NEW g \in Seq(EdgeOutput)
  PROVE  Nodes(Reverse(g)) = Nodes(g)
<1> DEFINE n == Len(g)
<1>1. /\ n \in Nat /\ DOMAIN g = 1 .. n /\ DOMAIN Reverse(g) = 1 .. n
      /\ \A i \in 1 .. n : Reverse(g)[i] = g[n - i + 1] /\ g[i] = Reverse(g)[n - i + 1]
  <2>1. Reverse(g) \in Seq(EdgeOutput) /\ Len(Reverse(g)) = n
    BY ReverseSeq
  <2>2. \A i \in 1 .. n : Reverse(g)[i] = g[n - i + 1]
    BY ReverseSeq
  <2>3. \A i \in 1 .. n : g[i] = Reverse(g)[n - i + 1]
    BY <2>2
  <2> QED BY <2>1, <2>2, <2>3
<1>2. \A i \in 1 .. n : n - i + 1 \in 1 .. n
  BY <1>1
<1> HIDE DEF n
<1>3. \A x \in Nodes(Reverse(g)) : x \in Nodes(g)
  BY <1>1, <1>2 DEF Nodes
<1>4. \A x \in Nodes(g) : x \in Nodes(Reverse(g))
  BY <1>1, <1>2 DEF Nodes
<1> QED BY <1>3, <1>4

LEMMA NodesSortOneWay ==
  ASSUME NEW g \in Seq(EdgeOutput), NEW a \in SortedNodes(g)
  PROVE  /\ SortedNodes(g) = {a}
         /\ a \in Seq({a[i] : i \in DOMAIN a})
<1> DEFINE ids == SetToSeq(Nodes(g))
           n == Cardinality(Nodes(g))
           key == [i \in 1 .. n |-> <<ids[i]>>]
<1>1. IsFiniteSet(Nodes(g)) /\ Nodes(g) \subseteq Int
  BY NodesFinite
<1>2. n \in Nat
  BY <1>1, FS_CardinalityType
<1>3. ids \in [1 .. n -> Nodes(g)]
  <2>1. \E f : f \in Bijection(1 .. n, Nodes(g))
    BY <1>1, FS_CardinalityType DEF ExistsBijection
  <2>2. \E f \in [1 .. n -> Nodes(g)] : IsInjective(f)
    BY <2>1 DEF Bijection, Injection
  <2> QED BY <2>2 DEF SetToSeq
<1>4. SortedNodes(g) = Sortings(ids, key)
  <2>1. DOMAIN ids = 1 .. n
    BY <1>3
  <2> HIDE DEF ids, n
  <2>2. SortedNodes(g) = Sortings(ids, [i \in DOMAIN ids |-> <<ids[i]>>])
    BY DEF SortedNodes, ids
  <2> QED BY <2>1, <2>2
<1>5. DOMAIN ids = 1 .. n /\ \A i \in 1 .. n : ids[i] \in Int
  BY <1>1, <1>3
<1>6. key \in [1 .. n -> [1 .. 1 -> Int]]
  <2> HIDE DEF ids, n
  <2>1. \A i \in 1 .. n : <<ids[i]>> \in [1 .. 1 -> Int]
    BY <1>5
  <2> QED BY <2>1
<1>7. KeyTells(n, ids, key)
  <2> HIDE DEF ids, n
  <2> QED BY <1>5 DEF KeyTells
<1> HIDE DEF ids, n, key
<1>8. ASSUME NEW b \in Sortings(ids, key)
      PROVE  b = a
  <2>1. a \in Sortings(ids, key) /\ 1 \in Nat
    BY <1>4
  <2> QED BY <1>2, <1>5, <1>6, <1>7, <1>8, <2>1, OneSorting, Zenon
<1>9. DOMAIN a = 1 .. n
  BY <1>4, <1>5 DEF Sortings
<1>10. a \in Seq({a[i] : i \in DOMAIN a})
  <2>1. \E p : a = [i \in 1 .. n |-> ids[p[i]]]
    BY <1>4, <1>5 DEF Sortings
  <2> QED BY <1>2, <1>9, <2>1
<1> QED BY <1>4, <1>8, <1>10

\* A text is a sequence of lines.
IsText(t) == t \in Seq(ToSet(t))

\* A graph has one DOT text, whatever the order of its edges.
LEMMA DotTextIsOne ==
  ASSUME NEW g \in Seq(EdgeOutput), NEW doc \in render_dot(g)
  PROVE  IsText(doc) /\ render_dot(Reverse(g)) = {doc}
<1> DEFINE Text(ids, sorted) ==
             [i \in DOMAIN ids |-> NodeLine(ids[i])]
               \o [i \in DOMAIN sorted |-> EdgeLine(sorted[i])]
<1>1. PICK ids \in SortedNodes(g), sorted \in SortedEdges(g) :
        doc = Text(ids, sorted)
  <2>1. render_dot(g) = {Text(a, b) : a \in SortedNodes(g), b \in SortedEdges(g)}
    BY DEF render_dot
  <2> HIDE DEF Text
  <2> QED BY <2>1
<1>2. /\ SortedNodes(Reverse(g)) = {ids}
      /\ ids \in Seq({ids[i] : i \in DOMAIN ids})
  BY NodesSortOneWay, NodesOfReverse, Zenon DEF SortedNodes
<1>3. SortedEdges(Reverse(g)) = {sorted}
  BY EdgesSortOneWay
<1>4. render_dot(Reverse(g)) = {doc}
  <2>1. render_dot(Reverse(g)) =
          {Text(a, b) : a \in SortedNodes(Reverse(g)), b \in SortedEdges(Reverse(g))}
    BY DEF render_dot
  <2> HIDE DEF Text
  <2> QED BY <1>1, <1>2, <1>3, <2>1
<1>5. DOMAIN sorted = 1 .. Len(g)
  BY DEF SortedEdges, Sortings
<1>6. IsText(doc)
  <2> DEFINE x == [i \in DOMAIN ids |-> NodeLine(ids[i])]
             y == [i \in DOMAIN sorted |-> EdgeLine(sorted[i])]
             X == {x[i] : i \in DOMAIN ids}
             Y == {y[i] : i \in DOMAIN sorted}
  <2>1. x \in Seq(X \cup Y) /\ y \in Seq(X \cup Y)
    <3>1. DOMAIN ids = 1 .. Len(ids) /\ Len(ids) \in Nat /\ Len(g) \in Nat
      BY <1>2
    <3>2. x \in [1 .. Len(ids) -> X \cup Y] /\ y \in [1 .. Len(g) -> X \cup Y]
      BY <1>5, <3>1
    <3> HIDE DEF x, y, X, Y
    <3> QED BY <3>1, <3>2
  <2>2. doc = x \o y
    BY <1>1
  <2> HIDE DEF x, y, X, Y
  <2>3. doc \in Seq(X \cup Y)
    BY <2>1, <2>2
  <2>4. \A i \in 1 .. Len(doc) : doc[i] \in ToSet(doc)
    BY <2>3 DEF ToSet
  <2> QED BY <2>3, <2>4 DEF IsText
<1> QED BY <1>4, <1>6
-----------------------------------------------------------------------------
(***************************************************************************)
(* What the reader makes of any file that opens                            *)
(***************************************************************************)
\* Events, and an error at the end if anywhere
EventsThenError ==
  {q \in Seq(ReadEvent \cup {ReaderError}) :
     \A i \in 1 .. Len(q) - 1 : q[i] \in ReadEvent}

LEMMA EventsThenErrorClosed ==
  /\ << >> \in EventsThenError
  /\ <<ReaderError>> \in EventsThenError
  /\ \A e \in ReadEvent, q \in EventsThenError : <<e>> \o q \in EventsThenError
<1>1. << >> \in EventsThenError /\ <<ReaderError>> \in EventsThenError
  BY DEF EventsThenError
<1>2. ASSUME NEW e \in ReadEvent, NEW q \in EventsThenError
      PROVE  <<e>> \o q \in EventsThenError
  <2>1. /\ q \in Seq(ReadEvent \cup {ReaderError})
        /\ \A i \in 1 .. Len(q) - 1 : q[i] \in ReadEvent
    BY DEF EventsThenError
  <2>2. <<e>> \o q \in Seq(ReadEvent \cup {ReaderError})
    BY <2>1
  <2>3. /\ Len(<<e>> \o q) = Len(q) + 1 /\ Len(q) \in Nat
        /\ \A i \in 1 .. Len(q) + 1 :
             (<<e>> \o q)[i] = IF i = 1 THEN e ELSE q[i - 1]
    BY <2>1
  <2>4. \A i \in 1 .. Len(<<e>> \o q) - 1 : (<<e>> \o q)[i] \in ReadEvent
    BY <2>1, <2>3
  <2> QED BY <2>2, <2>4 DEF EventsThenError
<1> QED BY <1>1, <1>2

\* read_all_events gives events, and an error at the end if anywhere.
LEMMA ReadsEvents ==
  ASSUME NEW d \in Seq(Nat), Len(d) >= HEADER_SIZE
  PROVE  read_all_events(d) \in EventsThenError
<1> DEFINE data_end == DataEnd(d)
           f == CHOOSE g : g = [at \in Nat |-> NextEvent(d, data_end, g, at)]
           T == {k \in 0 .. data_end :
                   \E at \in Nat : at + k >= data_end /\ f[at] \notin EventsThenError}
<1>1. data_end \in Nat /\ data_end <= Len(d)
  BY DataEndInFile
<1>2. f = [at \in Nat |-> NextEvent(d, data_end, f, at)]
  <2> HIDE DEF data_end
  <2> QED BY <1>1, NextEventExists, Zenon
<1>3. read_all_events(d) = f[HEADER_SIZE]
  BY Zenon DEF read_all_events, NextEvent
<1> HIDE DEF f, data_end
<1>4. T = {}
  <2>1. SUFFICES ASSUME T # {} PROVE FALSE
    OBVIOUS
  <2>2. T \subseteq Nat
    BY <1>1
  <2>3. PICK m \in T : \A k \in T : m <= k
    <3> HIDE DEF T
    <3> QED BY <2>1, <2>2, LeastNat, Zenon
  <2>4. PICK at \in Nat : at + m >= data_end /\ f[at] \notin EventsThenError
    BY <2>3
  <2>5. m \in 0 .. data_end
    BY <2>3
  <2>6. f[at] = NextEvent(d, data_end, f, at)
    BY <1>2, Zenon
  <2>7. ASSUME NEW to \in Nat, at < to, at < data_end
        PROVE  f[to] \in EventsThenError
    <3>1. m # 0
      BY <1>1, <2>4, <2>7
    <3>2. m - 1 \in 0 .. data_end /\ m - 1 < m /\ to + (m - 1) >= data_end
      BY <1>1, <2>4, <2>5, <2>7, <3>1
    <3>3. m - 1 \notin T
      <4> HIDE DEF T
      <4> QED BY <2>3, <2>5, <3>2
    <3> QED BY <3>2, <3>3
  <2>8. NextEvent(d, data_end, f, at) \in EventsThenError
    <3>1. ASSUME NEW q \in EventsThenError, Ends(d, data_end, at, q)
          PROVE  NextEvent(d, data_end, f, at) \in EventsThenError
      BY <3>1, Zenon DEF Ends
    <3>2. ASSUME at < data_end, NEW to \in Nat, at < to, Passes(d, data_end, at, to)
          PROVE  NextEvent(d, data_end, f, at) \in EventsThenError
      BY <2>7, <3>2, Zenon DEF Passes
    <3>3. ASSUME at < data_end, NEW to \in Nat, NEW e \in ReadEvent, at < to,
                 Gives(d, data_end, at, e, to)
          PROVE  NextEvent(d, data_end, f, at) \in EventsThenError
      BY <2>7, <3>3, EventsThenErrorClosed, Zenon DEF Gives
    <3> QED BY <1>1, <3>1, <3>2, <3>3, NextEventStep, EventsThenErrorClosed
  <2> QED BY <2>4, <2>6, <2>8
<1>5. data_end \in 0 .. data_end /\ HEADER_SIZE \in Nat /\ HEADER_SIZE + data_end >= data_end
  BY <1>1 DEF HEADER_SIZE
<1> QED BY <1>3, <1>4, <1>5
-----------------------------------------------------------------------------
(***************************************************************************)
(* The inductive invariant of the process                                  *)
(***************************************************************************)
Analysing == {"open", "parse", "sort", "metadata", "cascade", "render"}
Rendering == {"wait", "join"}
Writing   == {"write", "written"}
Ending    == {"failed", "exited"}

ReportTypeOK ==
  /\ input \in Files /\ format \in {"Json", "Dot", "Svg"}
  /\ pc \in Analysing \cup Rendering \cup Writing \cup Ending
  /\ exit_code \in {"none", "SUCCESS", "FAILURE"}
  /\ cascade \in Seq(EdgeOutput)
  /\ IsText(document)
  /\ writer \in {"none", "writing", "Ok", "BrokenPipe"}
  /\ child \in {"none", "running", "reads", "prints", "warns", "success", "failure",
               "lost"}
  /\ out \in [pipe : Nat, total : Nat]
  /\ output \in Seq({"svg"} \X Nat)

\* The events to be sorted are events, and are sorted next.
EventsKept ==
  /\ pc = "parse" => Opens(input.bytes)
  /\ pc = "sort" => read_order \in Seq(ReadEvent) /\ events = read_order
  /\ pc = "metadata" =>
       read_order \in Seq(ReadEvent) /\ events \in SortedEvents(read_order)

\* An error ends the report, and nothing else makes it fail.
ErrorsEnd ==
  /\ pc \notin Ending => error = "none"
  /\ pc = "failed" => error # "none"
  /\ (exit_code = "none" <=> pc # "exited")
  /\ exit_code = "SUCCESS" => error = "none"

\* `dot` and the thread that feeds it: there from spawn on, for an SVG.  When
\* `dot` has exited and its output is collected, nothing of it is left.
DotKept ==
  /\ pc \in Analysing \/ format # "Svg" => child = "none" /\ writer = "none"
  /\ pc \in Rendering => format = "Svg" /\ child # "none"
  /\ pc = "join" => Exited /\ out.pipe = 0
  /\ pc \notin Ending => child # "lost"
  /\ writer = "none" => child = "none"
  /\ writer = "Ok" => dot_input = << >>
  /\ Len(output) + out.pipe = out.total
  /\ pc \in Ending => /\ child \in {"none", "success", "failure", "lost"}
                      /\ (child = "failure" <=> error = "GraphvizFailed")

\* What is written is the DOT text of the graph, or all that `dot` printed.
DocumentKept ==
  /\ pc = "write" /\ format = "Dot" => document \in render_dot(cascade)
  /\ (pc \in Writing \/ exit_code = "SUCCESS") /\ format = "Svg" =>
       child = "success" /\ writer = "Ok" /\ out.pipe = 0 /\ document = output

\* stdout is a prefix of the document until it is all of it.
StdoutKept ==
  /\ pc \in Analysing \cup Rendering => stdout = << >>
  /\ pc = "write" => /\ stdout \in Seq(ToSet(document))
                     /\ Len(stdout) <= Len(document)
                     /\ \A i \in 1 .. Len(stdout) : stdout[i] = document[i]
  /\ pc = "written" \/ exit_code = "SUCCESS" => stdout = document

ReportInv ==
  ReportTypeOK /\ EventsKept /\ ErrorsEnd /\ DotKept /\ DocumentKept /\ StdoutKept

\* What the events of a file that opens are, unless the reading fails
LEMMA ParsedEvents ==
  ASSUME input \in Files, Opens(input.bytes),
         NEW got, got = read_all_events(input.bytes),
         ~(got # << >> /\ Last(got) = ReaderError)
  PROVE  got \in Seq(ReadEvent)
<1>1. input.bytes \in Seq(Nat) /\ Len(input.bytes) >= HEADER_SIZE
  <2>1. input.bytes \in Seq(0 .. Base - 1)
    BY ReportAssumption
  <2>2. 0 .. Base - 1 \subseteq Nat
    BY LayoutAssumption
  <2>3. Len(input.bytes) >= HEADER_SIZE
    BY DEF Opens
  <2> DEFINE d == input.bytes
  <2>4. d \in Seq(Nat)
    <3>1. d \in Seq(0 .. Base - 1)
      BY <2>1
    <3> DEFINE B == 0 .. Base - 1
    <3> HIDE DEF d, B
    <3>2. d \in Seq(B) /\ B \subseteq Nat
      BY <2>2, <3>1 DEF B
    <3>3. Len(d) \in Nat /\ d \in [1 .. Len(d) -> B]
      BY <3>2
    <3>4. d \in [1 .. Len(d) -> Nat]
      BY <3>2, <3>3, Zenon
    <3> QED BY <3>3, <3>4
  <2> QED BY <2>3, <2>4
<1>2. got \in EventsThenError
  BY <1>1, ReadsEvents
<1>3. /\ got \in Seq(ReadEvent \cup {ReaderError})
      /\ \A i \in 1 .. Len(got) - 1 : got[i] \in ReadEvent
  BY <1>2 DEF EventsThenError
<1>4. \A i \in 1 .. Len(got) : got[i] \in ReadEvent
  <2>1. SUFFICES ASSUME NEW i \in 1 .. Len(got)
                 PROVE  got[i] \in ReadEvent
    OBVIOUS
  <2>2. CASE i = Len(got)
    BY <1>3, <2>2 DEF Last
  <2>3. CASE i # Len(got)
    BY <1>3, <2>3
  <2> QED BY <2>2, <2>3
<1> QED BY <1>3, <1>4

\* A line goes into a pipe, or out of it.
LEMMA PipeCounts ==
  ASSUME NEW p \in [pipe : Nat, total : Nat]
  PROVE  /\ Filled(p) \in [pipe : Nat, total : Nat]
         /\ Filled(p).pipe = p.pipe + 1 /\ Filled(p).total = p.total + 1
         /\ p.pipe > 0 => /\ Drained(p) \in [pipe : Nat, total : Nat]
                          /\ Drained(p).pipe = p.pipe - 1
                          /\ Drained(p).total = p.total
BY DEF Filled, Drained

LEMMA ReportInvInit == Init => ReportInv
<1> SUFFICES ASSUME Init PROVE ReportInv
  OBVIOUS
<1> USE DEF Init, Analysing, Rendering, Writing, Ending
<1>1. ReportTypeOK
  BY DEF ReportTypeOK, IsText
<1>2. EventsKept /\ ErrorsEnd /\ DotKept
  BY DEF EventsKept, ErrorsEnd, DotKept
<1>3. DocumentKept /\ StdoutKept
  BY DEF DocumentKept, StdoutKept
<1> QED BY <1>1, <1>2, <1>3 DEF ReportInv

LEMMA ReportInvNext == ReportInv /\ [Next]_vars => ReportInv'
<1> SUFFICES ASSUME ReportInv, [Next]_vars
             PROVE  ReportInv'
  OBVIOUS
<1> USE DEF ReportInv
<1> USE DEF Analysing, Rendering, Writing, Ending, Fails, Goes, Exited, args,
            reportVars, dotVars, PipelineError
<1>1. CASE open
  <2>1. ReportTypeOK'
    BY <1>1 DEF open, ReportTypeOK
  <2>2. EventsKept'
    BY <1>1 DEF open, EventsKept, ReportTypeOK
  <2>3. ErrorsEnd'
    BY <1>1 DEF open, ErrorsEnd, ReportTypeOK
  <2>4. DotKept'
    BY <1>1 DEF open, DotKept, ReportTypeOK, ErrorsEnd
  <2>5. DocumentKept'
    BY <1>1 DEF open, DocumentKept, ReportTypeOK, ErrorsEnd, DotKept
  <2>6. StdoutKept'
    BY <1>1 DEF open, StdoutKept, ReportTypeOK, ErrorsEnd
  <2> QED BY <2>1, <2>2, <2>3, <2>4, <2>5, <2>6
<1>2. CASE parse
  <2>1. ReportTypeOK'
    BY <1>2 DEF parse, ReportTypeOK
  <2>2. EventsKept'
    <3> DEFINE got == read_all_events(input.bytes)
    <3>1. CASE got # << >> /\ Last(got) = ReaderError
      BY <1>2, <3>1 DEF parse, EventsKept, ReportTypeOK
    <3>2. CASE ~(got # << >> /\ Last(got) = ReaderError)
      <4>1. pc' = "sort" /\ events' = got /\ read_order' = got
        BY <1>2, <3>2, Zenon DEF parse
      <4>2. input \in Files /\ Opens(input.bytes)
        BY <1>2 DEF parse, EventsKept, ReportTypeOK
      <4>3. got \in Seq(ReadEvent)
        BY <3>2, <4>2, ParsedEvents, Zenon
      <4> HIDE DEF got
      <4> QED BY <4>1, <4>3 DEF EventsKept
    <3> QED BY <3>1, <3>2
  <2>3. ErrorsEnd'
    BY <1>2 DEF parse, ErrorsEnd, ReportTypeOK
  <2>4. DotKept'
    BY <1>2 DEF parse, DotKept, ReportTypeOK, ErrorsEnd
  <2>5. DocumentKept'
    BY <1>2 DEF parse, DocumentKept, ReportTypeOK, ErrorsEnd, DotKept
  <2>6. StdoutKept'
    BY <1>2 DEF parse, StdoutKept, ReportTypeOK, ErrorsEnd
  <2> QED BY <2>1, <2>2, <2>3, <2>4, <2>5, <2>6
<1>3. CASE sort
  <2>1. ReportTypeOK'
    BY <1>3 DEF sort, ReportTypeOK
  <2>2. EventsKept'
    BY <1>3 DEF sort, EventsKept, ReportTypeOK
  <2>3. ErrorsEnd'
    BY <1>3 DEF sort, ErrorsEnd, ReportTypeOK
  <2>4. DotKept'
    BY <1>3 DEF sort, DotKept, ReportTypeOK, ErrorsEnd
  <2>5. DocumentKept'
    BY <1>3 DEF sort, DocumentKept, ReportTypeOK, ErrorsEnd, DotKept
  <2>6. StdoutKept'
    BY <1>3 DEF sort, StdoutKept, ReportTypeOK, ErrorsEnd
  <2> QED BY <2>1, <2>2, <2>3, <2>4, <2>5, <2>6
<1>4. CASE metadata
  <2>1. ReportTypeOK'
    BY <1>4 DEF metadata, ReportTypeOK
  <2>2. EventsKept'
    BY <1>4 DEF metadata, EventsKept, ReportTypeOK
  <2>3. ErrorsEnd'
    BY <1>4 DEF metadata, ErrorsEnd, ReportTypeOK
  <2>4. DotKept'
    BY <1>4 DEF metadata, DotKept, ReportTypeOK, ErrorsEnd
  <2>5. DocumentKept'
    BY <1>4 DEF metadata, DocumentKept, ReportTypeOK, ErrorsEnd, DotKept
  <2>6. StdoutKept'
    BY <1>4 DEF metadata, StdoutKept, ReportTypeOK, ErrorsEnd
  <2> QED BY <2>1, <2>2, <2>3, <2>4, <2>5, <2>6
<1>5. CASE analyse
  <2>1. ReportTypeOK'
    BY <1>5, ReportAssumption DEF analyse, ReportTypeOK, IsText
  <2>2. EventsKept'
    BY <1>5 DEF analyse, EventsKept, ReportTypeOK
  <2>3. ErrorsEnd'
    BY <1>5 DEF analyse, ErrorsEnd, ReportTypeOK
  <2>4. DotKept'
    BY <1>5 DEF analyse, DotKept, ReportTypeOK, ErrorsEnd
  <2>5. DocumentKept'
    BY <1>5 DEF analyse, DocumentKept, ReportTypeOK, ErrorsEnd, DotKept
  <2>6. StdoutKept'
    BY <1>5 DEF analyse, StdoutKept, ReportTypeOK, ErrorsEnd
  <2> QED BY <2>1, <2>2, <2>3, <2>4, <2>5, <2>6
<1>6. CASE render_json
  <2>1. ReportTypeOK'
    <3>1. IsText(document')
      <4>1. document' = <<ReportOutput>>
        BY <1>6 DEF render_json
      <4> QED BY <4>1 DEF IsText, ToSet
    <3> QED BY <1>6, <3>1 DEF render_json, ReportTypeOK, IsText
  <2>2. EventsKept'
    BY <1>6 DEF render_json, EventsKept, ReportTypeOK
  <2>3. ErrorsEnd'
    BY <1>6 DEF render_json, ErrorsEnd, ReportTypeOK
  <2>4. DotKept'
    BY <1>6 DEF render_json, DotKept, ReportTypeOK, ErrorsEnd
  <2>5. DocumentKept'
    BY <1>6 DEF render_json, DocumentKept, ReportTypeOK, ErrorsEnd, DotKept
  <2>6. StdoutKept'
    BY <1>6 DEF render_json, StdoutKept, ReportTypeOK, ErrorsEnd
  <2> QED BY <2>1, <2>2, <2>3, <2>4, <2>5, <2>6
<1>7. CASE render_to_dot
  <2>1. ReportTypeOK'
    <3>1. IsText(document')
      BY <1>7, DotTextIsOne DEF render_to_dot, ReportTypeOK
    <3> QED BY <1>7, <3>1 DEF render_to_dot, ReportTypeOK, IsText
  <2>2. EventsKept'
    BY <1>7 DEF render_to_dot, EventsKept, ReportTypeOK
  <2>3. ErrorsEnd'
    BY <1>7 DEF render_to_dot, ErrorsEnd, ReportTypeOK
  <2>4. DotKept'
    BY <1>7 DEF render_to_dot, DotKept, ReportTypeOK, ErrorsEnd
  <2>5. DocumentKept'
    BY <1>7 DEF render_to_dot, DocumentKept, ReportTypeOK, ErrorsEnd, DotKept
  <2>6. StdoutKept'
    BY <1>7 DEF render_to_dot, StdoutKept, ReportTypeOK, ErrorsEnd
  <2> QED BY <2>1, <2>2, <2>3, <2>4, <2>5, <2>6
<1>8. CASE spawn
  <2>1. ReportTypeOK'
    BY <1>8 DEF spawn, ReportTypeOK
  <2>2. EventsKept'
    BY <1>8 DEF spawn, EventsKept, ReportTypeOK
  <2>3. ErrorsEnd'
    BY <1>8 DEF spawn, ErrorsEnd, ReportTypeOK
  <2>4. DotKept'
    BY <1>8 DEF spawn, DotKept, ReportTypeOK, ErrorsEnd
  <2>5. DocumentKept'
    BY <1>8 DEF spawn, DocumentKept, ReportTypeOK, ErrorsEnd, DotKept
  <2>6. StdoutKept'
    BY <1>8 DEF spawn, StdoutKept, ReportTypeOK, ErrorsEnd
  <2> QED BY <2>1, <2>2, <2>3, <2>4, <2>5, <2>6
<1>9. CASE wait_with_output
  <2>1. \/ /\ out.pipe > 0 /\ out' = Drained(out) /\ pc' = pc
           /\ output' = Append(output, <<"svg", Len(output) + 1>>)
        \/ out' = out /\ output' = output /\ pc' = pc
        \/ Exited /\ out.pipe = 0 /\ out' = out /\ output' = output
    BY <1>9 DEF read2, wait_with_output
  <2>2. /\ out' \in [pipe : Nat, total : Nat] /\ output' \in Seq({"svg"} \X Nat)
        /\ Len(output') + out'.pipe = out'.total
    <3>1. /\ out \in [pipe : Nat, total : Nat] /\ output \in Seq({"svg"} \X Nat)
          /\ Len(output) + out.pipe = out.total /\ out.pipe \in Nat
      BY DEF ReportTypeOK, DotKept
    <3>2. CASE out.pipe > 0 /\ out' = Drained(out)
               /\ output' = Append(output, <<"svg", Len(output) + 1>>)
      <4>1. /\ out' \in [pipe : Nat, total : Nat]
            /\ out'.pipe = out.pipe - 1 /\ out'.total = out.total
        BY <3>1, <3>2, PipeCounts
      <4>2. /\ output' \in Seq({"svg"} \X Nat) /\ Len(output') = Len(output) + 1
            /\ Len(output) \in Nat
        BY <3>1, <3>2
      <4> QED BY <3>1, <4>1, <4>2
    <3> QED BY <2>1, <3>1, <3>2
  <2>3. ReportTypeOK'
    BY <1>9, <2>2 DEF read2, wait_with_output, ReportTypeOK, IsText
  <2>4. EventsKept'
    BY <1>9 DEF read2, wait_with_output, EventsKept, ReportTypeOK
  <2>5. ErrorsEnd'
    BY <1>9 DEF read2, wait_with_output, ErrorsEnd, ReportTypeOK
  <2>6. DotKept'
    <3>1. /\ pc = "wait" /\ UNCHANGED <<args, dot_input, writer>>
          /\ \/ UNCHANGED <<pc, error, child>>
             \/ Exited /\ out.pipe = 0 /\ out' = out /\ pc' = "join" /\ UNCHANGED <<error, child>>
             \/ Exited /\ pc' = "failed" /\ error' = "Io" /\ child' = "lost"
      BY <1>9 DEF read2, wait_with_output
    <3> QED BY <2>2, <3>1 DEF DotKept, ErrorsEnd
  <2>7. DocumentKept'
    BY <1>9 DEF read2, wait_with_output, DocumentKept, ReportTypeOK, ErrorsEnd, DotKept
  <2>8. StdoutKept'
    BY <1>9 DEF read2, wait_with_output, StdoutKept, ReportTypeOK, ErrorsEnd
  <2> QED BY <2>3, <2>4, <2>5, <2>6, <2>7, <2>8
<1>10. CASE join
  <2>1. ReportTypeOK'
    <3>1. IsText(output)
      <4>1. output \in Seq({"svg"} \X Nat)
        BY DEF ReportTypeOK
      <4>2. \A i \in 1 .. Len(output) : output[i] \in ToSet(output)
        BY <4>1 DEF ToSet
      <4> QED BY <4>1, <4>2 DEF IsText
    <3> QED BY <1>10, <3>1 DEF join, ReportTypeOK, IsText
  <2>2. EventsKept'
    BY <1>10 DEF join, SvgError, EventsKept, ReportTypeOK
  <2>3. ErrorsEnd'
    BY <1>10 DEF join, SvgError, ErrorsEnd, ReportTypeOK
  <2>4. DotKept'
    BY <1>10 DEF join, SvgError, DotKept, ReportTypeOK, ErrorsEnd
  <2>5. DocumentKept'
    BY <1>10 DEF join, SvgError, DocumentKept, ReportTypeOK, ErrorsEnd, DotKept
  <2>6. StdoutKept'
    BY <1>10 DEF join, SvgError, StdoutKept, ReportTypeOK, ErrorsEnd
  <2> QED BY <2>1, <2>2, <2>3, <2>4, <2>5, <2>6
<1>11. CASE write_stdout
  <2>1. ReportTypeOK'
    BY <1>11 DEF write_stdout, ReportTypeOK
  <2>2. EventsKept'
    BY <1>11 DEF write_stdout, EventsKept, ReportTypeOK
  <2>3. ErrorsEnd'
    BY <1>11 DEF write_stdout, ErrorsEnd, ReportTypeOK
  <2>4. DotKept'
    <3>1. /\ pc = "write" /\ UNCHANGED <<args, dotVars>>
          /\ \/ pc' \in Writing
             \/ pc' = "failed" /\ error' = "Io"
      BY <1>11 DEF write_stdout
    <3>2. child \in {"none", "success"}
      BY <3>1 DEF DotKept, DocumentKept
    <3> QED BY <3>1, <3>2 DEF DotKept
  <2>5. DocumentKept'
    BY <1>11 DEF write_stdout, DocumentKept, ReportTypeOK, ErrorsEnd, DotKept
  <2>6. StdoutKept'
    <3> DEFINE S == ToSet(document)
    <3>1. /\ pc = "write" /\ document' = document /\ exit_code' = exit_code
          /\ exit_code = "none" /\ document \in Seq(S)
          /\ stdout \in Seq(S) /\ Len(stdout) <= Len(document)
          /\ \A i \in 1 .. Len(stdout) : stdout[i] = document[i]
      BY <1>11 DEF write_stdout, ErrorsEnd, StdoutKept, ReportTypeOK, IsText
    <3> HIDE DEF S
    <3>2. CASE /\ Len(stdout) < Len(document) /\ pc' = pc
               /\ stdout' = Append(stdout, document[Len(stdout) + 1])
      <4>1. Len(stdout) + 1 \in 1 .. Len(document) /\ document[Len(stdout) + 1] \in S
        BY <3>1, <3>2
      <4>2. /\ stdout' \in Seq(S) /\ Len(stdout') = Len(stdout) + 1
            /\ \A i \in 1 .. Len(stdout) + 1 : stdout'[i] = document[i]
        BY <3>1, <3>2, <4>1
      <4>3. Len(stdout') <= Len(document')
        BY <3>1, <3>2, <4>1, <4>2
      <4> QED BY <3>1, <3>2, <4>2, <4>3 DEF StdoutKept, S
    <3>3. CASE pc' = "failed"
      BY <3>1, <3>3 DEF StdoutKept
    <3>4. CASE Len(stdout) = Len(document) /\ pc' = "written" /\ stdout' = stdout
      <4>1. stdout = document
        BY <3>1, <3>4
      <4> QED BY <3>1, <3>4, <4>1 DEF StdoutKept
    <3> QED BY <1>11, <3>2, <3>3, <3>4 DEF write_stdout
  <2> QED BY <2>1, <2>2, <2>3, <2>4, <2>5, <2>6
<1>12. CASE main
  <2>1. ReportTypeOK'
    BY <1>12 DEF main, ReportTypeOK
  <2>2. EventsKept'
    BY <1>12 DEF main, EventsKept, ReportTypeOK
  <2>3. ErrorsEnd'
    BY <1>12 DEF main, ErrorsEnd, ReportTypeOK
  <2>4. DotKept'
    BY <1>12 DEF main, DotKept, DocumentKept, ReportTypeOK, ErrorsEnd
  <2>5. DocumentKept'
    BY <1>12 DEF main, DocumentKept, ReportTypeOK, ErrorsEnd, DotKept
  <2>6. StdoutKept'
    BY <1>12 DEF main, StdoutKept, ReportTypeOK, ErrorsEnd
  <2> QED BY <2>1, <2>2, <2>3, <2>4, <2>5, <2>6
<1>13. CASE write_stdin
  <2>1. ReportTypeOK'
    BY <1>13 DEF write_stdin, ReportTypeOK
  <2>2. EventsKept'
    BY <1>13 DEF write_stdin, EventsKept, ReportTypeOK
  <2>3. ErrorsEnd'
    BY <1>13 DEF write_stdin, ErrorsEnd, ReportTypeOK
  <2>4. DotKept'
    BY <1>13 DEF write_stdin, DotKept, ReportTypeOK, ErrorsEnd
  <2>5. DocumentKept'
    BY <1>13 DEF write_stdin, DocumentKept, ReportTypeOK, ErrorsEnd, DotKept
  <2>6. StdoutKept'
    BY <1>13 DEF write_stdin, StdoutKept, ReportTypeOK, ErrorsEnd
  <2> QED BY <2>1, <2>2, <2>3, <2>4, <2>5, <2>6
<1>14. CASE DotDecides
  <2>1. ReportTypeOK'
    BY <1>14 DEF DotDecides, ReportTypeOK
  <2>2. EventsKept'
    BY <1>14 DEF DotDecides, EventsKept, ReportTypeOK
  <2>3. ErrorsEnd'
    BY <1>14 DEF DotDecides, ErrorsEnd, ReportTypeOK
  <2>4. DotKept'
    BY <1>14 DEF DotDecides, DotKept, ReportTypeOK, ErrorsEnd
  <2>5. DocumentKept'
    BY <1>14 DEF DotDecides, DocumentKept, ReportTypeOK, ErrorsEnd, DotKept
  <2>6. StdoutKept'
    BY <1>14 DEF DotDecides, StdoutKept, ReportTypeOK, ErrorsEnd
  <2> QED BY <2>1, <2>2, <2>3, <2>4, <2>5, <2>6
<1>15. CASE DotActs
  <2>1. /\ out' \in [pipe : Nat, total : Nat]
        /\ Len(output) + out'.pipe = out'.total
    <3>1. /\ out \in [pipe : Nat, total : Nat] /\ Len(output) + out.pipe = out.total
          /\ out.pipe \in Nat /\ out.total \in Nat /\ Len(output) \in Nat
      BY DEF ReportTypeOK, DotKept
    <3>2. CASE out' = Filled(out)
      BY <3>1, <3>2, PipeCounts
    <3> QED BY <1>15, <3>1, <3>2 DEF DotActs
  <2>2. pc = "wait" /\ UNCHANGED <<args, pc, exit_code, error, dot_input, writer, output>>
    BY <1>15 DEF DotActs, DotKept, DocumentKept, ReportTypeOK
  <2>3. ReportTypeOK'
    BY <1>15, <2>1 DEF DotActs, ReportTypeOK, IsText
  <2>4. EventsKept'
    BY <1>15 DEF DotActs, EventsKept, ReportTypeOK
  <2>5. ErrorsEnd'
    BY <1>15 DEF DotActs, ErrorsEnd, ReportTypeOK
  <2>6. DotKept'
    BY <1>15, <2>1, <2>2 DEF DotActs, DotKept
  <2>7. DocumentKept'
    BY <1>15 DEF DotActs, DocumentKept, ReportTypeOK, ErrorsEnd, DotKept
  <2>8. StdoutKept'
    BY <1>15 DEF DotActs, StdoutKept, ReportTypeOK, ErrorsEnd
  <2> QED BY <2>3, <2>4, <2>5, <2>6, <2>7, <2>8
<1>16. CASE UNCHANGED vars
  BY <1>16 DEF vars, ReportTypeOK, EventsKept, ErrorsEnd, DotKept, DocumentKept,
               StdoutKept, IsText
<1> QED
  BY <1>1, <1>2, <1>3, <1>4, <1>5, <1>6, <1>7, <1>8, <1>9, <1>10, <1>11, <1>12,
     <1>13, <1>14, <1>15, <1>16 DEF Next, Main

\* However the main thread, the writer thread and `dot` interleave, the events
\* are the ones read, only an error ends the report early, what is collected and
\* what is in the pipe make up what `dot` printed, and stdout is a prefix of the
\* document.
THEOREM ReportInvariant == Spec => []ReportInv
<1>1. Init => ReportInv
  BY ReportInvInit
<1>2. ReportInv /\ [Next]_vars => ReportInv'
  BY ReportInvNext
<1> QED BY <1>1, <1>2, PTL DEF Spec
-----------------------------------------------------------------------------
(***************************************************************************)
(* Theorems                                                                *)
(***************************************************************************)

\* For every file and every graph: correlate_events is given one order of the
\* events, whatever their order in the file and whatever sort_unstable does
\* with equal ones, and the DOT text of the graph is one, whatever the order of
\* the edges.
THEOREM ReportIsReproducibleHolds == Spec => []ReportIsReproducible
<1>1. ReportInv => ReportIsReproducible
  <2> SUFFICES ASSUME ReportInv PROVE ReportIsReproducible
    OBVIOUS
  <2>1. ASSUME pc = "metadata"
        PROVE  SortedEvents(read_order) \cup SortedEvents(Reverse(read_order))
                 = {events}
    BY <2>1, EventsSortOneWay DEF ReportInv, EventsKept
  <2>2. ASSUME pc = "write", format = "Dot"
        PROVE  render_dot(Reverse(cascade)) = {document}
    BY <2>2, DotTextIsOne DEF ReportInv, ReportTypeOK, DocumentKept
  <2> QED BY <2>1, <2>2 DEF ReportIsReproducible
<1> QED BY <1>1, ReportInvariant, PTL

\* Whatever `dot` does with its pipes and its status, SUCCESS means that all of
\* the document is on stdout, and of an SVG all that `dot` printed after it took
\* all of the graph; a failure of `dot` is always reported as one.
THEOREM OutcomeIsTrueHolds == Spec => []OutcomeIsTrue
<1>1. ReportInv => OutcomeIsTrue
  <2> SUFFICES ASSUME ReportInv PROVE OutcomeIsTrue
    OBVIOUS
  <2> USE DEF ReportInv
  <2>1. ASSUME exit_code = "SUCCESS"
        PROVE  stdout = document
    BY <2>1 DEF StdoutKept
  <2>2. ASSUME exit_code = "SUCCESS", format = "Svg"
        PROVE  dot_input = << >> /\ child = "success" /\ Len(stdout) = out.total
    <3>1. /\ child = "success" /\ writer = "Ok" /\ out.pipe = 0
          /\ document = output
      BY <2>2 DEF DocumentKept
    <3>2. dot_input = << >> /\ Len(output) + 0 = out.total
      BY <3>1 DEF DotKept
    <3>3. Len(output) \in Nat
      BY DEF ReportTypeOK
    <3> QED BY <2>1, <2>2, <3>1, <3>2, <3>3
  <2>3. ASSUME exit_code # "none"
        PROVE  child = "failure" <=> error = "GraphvizFailed"
    BY <2>3 DEF ErrorsEnd, DotKept, Ending
  <2> QED BY <2>1, <2>2, <2>3 DEF OutcomeIsTrue
<1> QED BY <1>1, ReportInvariant, PTL
-----------------------------------------------------------------------------
(***************************************************************************)
(* The report is of what was recorded                                      *)
(***************************************************************************)

\* A sorting has every element as often as what is sorted.
LEMMA SortingCounts ==
  ASSUME NEW X, NEW s \in Seq(X), NEW key, NEW a \in Sortings(s, key), NEW e
  PROVE  Len(a) = Len(s) /\ Times(a, e) = Times(s, e)
<1> DEFINE n == Len(s)
           from == {i \in 1 .. n : a[i] = e}
           to   == {i \in 1 .. n : s[i] = e}
<1>1. n \in Nat /\ DOMAIN s = 1 .. n
  OBVIOUS
<1>2. PICK p \in Bijection(1 .. n, 1 .. n) : a = [i \in 1 .. n |-> s[p[i]]]
  BY <1>1 DEF Sortings
<1>3. /\ p \in [1 .. n -> 1 .. n]
      /\ \A j, k \in 1 .. n : p[j] = p[k] => j = k
      /\ \A j \in 1 .. n : \E k \in 1 .. n : p[k] = j
  BY DEF Bijection, Injection, Surjection, IsInjective
<1>4. DOMAIN a = 1 .. n /\ Len(a) = n
  <2>1. s \in [1 .. n -> X]
    BY <1>1
  <2> HIDE DEF n
  <2>2. a \in [1 .. n -> X]
    BY <1>2, <1>3, <2>1
  <2>3. a \in Seq(X) /\ DOMAIN a = 1 .. n
    BY <1>1, <2>2
  <2> QED BY <1>1, <2>3
<1> DEFINE b == [i \in from |-> p[i]]
<1>5. b \in Bijection(from, to)
  <2> HIDE DEF n
  <2>1. \A i \in 1 .. n : a[i] = s[p[i]] /\ p[i] \in 1 .. n
    BY <1>2, <1>3
  <2>2. b \in [from -> to]
    BY <2>1
  <2>3. IsInjective(b)
    BY <1>3 DEF IsInjective
  <2>4. ASSUME NEW j \in to
        PROVE  \E i \in from : b[i] = j
    <3>1. PICK i \in 1 .. n : p[i] = j
      BY <1>3
    <3>2. i \in from /\ b[i] = j
      BY <2>1, <3>1
    <3> QED BY <3>2
  <2> QED BY <2>2, <2>3, <2>4 DEF Bijection, Injection, Surjection
<1>6. IsFiniteSet(1 .. n)
  BY <1>1, FS_Interval
<1>7. IsFiniteSet(from)
  <2> HIDE DEF n
  <2> QED BY <1>6, FS_Subset
<1>8. Cardinality(from) = Cardinality(to)
  <2>1. ExistsBijection(from, to)
    BY <1>5 DEF ExistsBijection
  <2> HIDE DEF from, to
  <2> QED BY <1>7, <2>1, FS_Bijection
<1> QED BY <1>1, <1>4, <1>8 DEF Times

ReadFails(f) ==
  LET got == read_all_events(f.bytes) IN got # << >> /\ Last(got) = ReaderError

\* WperfReader cannot open the file f, or finds that it breaks the format.
Rejects(f) ==
  ~Opens(f.bytes) \/ ReadFails(f) \/ read_metadata(f.bytes) = ReaderError

\* All that the reader finds in the input is read, and its events are the ones
\* to be analysed.
ReadWhole ==
  /\ input.left # "absent" /\ ~Rejects(input)
  /\ events \in SortedEvents(read_all_events(input.bytes))
  /\ drop_count = read_metadata(input.bytes).drop_count

Read == {"cascade", "render"} \cup Rendering \cup Writing

\* The report goes on only with what it has read, is on stdout only when all is
\* read, and blames only a file that the reader rejects.
WholeInv ==
  /\ pc \in {"parse", "sort", "metadata"} => input.left # "absent" /\ Opens(input.bytes)
  /\ pc \in {"sort", "metadata"} =>
       read_order = read_all_events(input.bytes) /\ ~ReadFails(input)
  /\ pc \in Read \/ exit_code = "SUCCESS" \/ stdout # << >> => ReadWhole
  /\ error = PipelineError => input.left # "absent" /\ Rejects(input)

LEMMA WholeInvNext == ReportInv /\ WholeInv /\ [Next]_vars => WholeInv'
<1> SUFFICES ASSUME ReportInv, WholeInv, [Next]_vars
             PROVE  WholeInv'
  OBVIOUS
<1>1. /\ pc \in Analysing \cup Rendering => stdout = << >>
      /\ exit_code = "none" <=> pc # "exited"
      /\ pc \notin Ending => error = "none"
      /\ pc = "failed" => error # "none"
      /\ pc = "sort" => events = read_order
      /\ pc = "metadata" => events \in SortedEvents(read_order)
  BY Zenon DEF ReportInv, StdoutKept, ErrorsEnd, EventsKept
<1> USE DEF Analysing, Rendering, Writing, Ending, Fails, Goes, Read, args, reportVars,
            PipelineError
\* The steps that leave what was read alone
<1>2. ASSUME UNCHANGED <<input, events, read_order, drop_count>>,
             pc' \notin {"parse", "sort", "metadata"},
             pc' \in Read => pc \in Read,
             exit_code' = "SUCCESS" => exit_code = "SUCCESS" \/ pc \in Read,
             stdout' # << >> => stdout # << >> \/ pc \in Read,
             error' = PipelineError => error = PipelineError
      PROVE  WholeInv'
  <2>1. ReadWhole => ReadWhole'
    BY <1>2 DEF ReadWhole, Rejects, ReadFails
  <2>2. Rejects(input) => Rejects(input)'
    BY <1>2 DEF Rejects, ReadFails
  <2> QED BY <1>2, <2>1, <2>2 DEF WholeInv
<1>3. CASE open
  <2>1. UNCHANGED input /\ exit_code' = "none" /\ stdout' = << >>
    BY <1>1, <1>3 DEF open
  <2>2. pc' \in {"failed", "parse"}
    BY <1>3 DEF open
  <2>3. pc' = "parse" => input.left # "absent" /\ Opens(input.bytes)
    BY <1>3 DEF open
  <2>4. error' = PipelineError => input.left # "absent" /\ Rejects(input)
    BY <1>1, <1>3 DEF open, Rejects
  <2> QED BY <2>1, <2>2, <2>3, <2>4 DEF WholeInv, Rejects, ReadFails
<1>4. CASE parse
  <2>1. UNCHANGED input /\ exit_code' = "none" /\ stdout' = << >>
    BY <1>1, <1>4 DEF parse
  <2>2. input.left # "absent" /\ Opens(input.bytes) /\ error = "none"
    BY <1>1, <1>4 DEF parse, WholeInv
  <2>3. CASE ReadFails(input)
    <3>1. pc' = "failed"
      BY <1>4, <2>3, Zenon DEF parse, ReadFails
    <3>2. Rejects(input)
      BY <2>3 DEF Rejects
    <3> QED BY <2>1, <2>2, <3>1, <3>2 DEF WholeInv, Rejects, ReadFails
  <2>4. CASE ~ReadFails(input)
    <3>1. pc' = "sort" /\ read_order' = read_all_events(input.bytes) /\ error' = error
      BY <1>4, <2>4, Zenon DEF parse, ReadFails
    <3> QED BY <2>1, <2>2, <2>4, <3>1 DEF WholeInv, ReadFails
  <2> QED BY <2>3, <2>4
<1>5. CASE sort
  <2>1. /\ UNCHANGED <<input, read_order>> /\ exit_code' = "none" /\ stdout' = << >>
        /\ pc' = "metadata" /\ error' = "none"
    BY <1>1, <1>5 DEF sort
  <2>2. /\ input.left # "absent" /\ Opens(input.bytes)
        /\ read_order = read_all_events(input.bytes) /\ ~ReadFails(input)
    BY <1>5 DEF sort, WholeInv
  <2> QED BY <2>1, <2>2 DEF WholeInv, ReadFails
<1>6. CASE metadata
  <2>1. /\ UNCHANGED <<input, events>> /\ exit_code' = "none" /\ stdout' = << >>
    BY <1>1, <1>6 DEF metadata
  <2>2. /\ input.left # "absent" /\ Opens(input.bytes) /\ error = "none"
        /\ read_order = read_all_events(input.bytes) /\ ~ReadFails(input)
    BY <1>1, <1>6 DEF metadata, WholeInv
  <2>3. events \in SortedEvents(read_all_events(input.bytes))
    BY <1>1, <1>6, <2>2, Zenon DEF metadata
  <2>4. CASE read_metadata(input.bytes) = ReaderError
    <3>1. pc' = "failed"
      BY <1>6, <2>4, Zenon DEF metadata
    <3>2. Rejects(input)
      BY <2>4 DEF Rejects
    <3> QED BY <2>1, <2>2, <3>1, <3>2 DEF WholeInv, Rejects, ReadFails
  <2>5. CASE read_metadata(input.bytes) # ReaderError
    <3>1. /\ pc' = "cascade" /\ drop_count' = read_metadata(input.bytes).drop_count
          /\ error' = error
      BY <1>6, <2>5, Zenon DEF metadata
    <3>2. ReadWhole'
      BY <2>1, <2>2, <2>3, <2>5, <3>1, Zenon DEF ReadWhole, Rejects, ReadFails
    <3> QED BY <2>1, <2>2, <3>1, <3>2 DEF WholeInv, Rejects, ReadFails
  <2> QED BY <2>4, <2>5
<1>7. CASE analyse
  BY <1>2, <1>7 DEF analyse
<1>8. CASE render_json \/ render_to_dot
  BY <1>2, <1>8 DEF render_json, render_to_dot
<1>9. CASE spawn
  BY <1>2, <1>9 DEF spawn
<1>10. CASE wait_with_output
  BY <1>2, <1>10 DEF wait_with_output, read2
<1>11. CASE join
  BY <1>2, <1>11 DEF join, SvgError
<1>12. CASE write_stdout
  BY <1>2, <1>12 DEF write_stdout
<1>13. CASE main
  BY <1>1, <1>2, <1>13 DEF main
<1>14. ASSUME UNCHANGED <<args, pc, reportVars, stdout, error, exit_code>>
       PROVE  WholeInv'
  <2>1. ReadWhole => ReadWhole'
    BY <1>14 DEF ReadWhole, Rejects, ReadFails
  <2> QED BY <1>14, <2>1 DEF WholeInv, Rejects, ReadFails
<1>15. CASE write_stdin \/ DotDecides \/ DotActs
  BY <1>14, <1>15 DEF write_stdin, DotDecides, DotActs
<1>16. CASE UNCHANGED vars
  BY <1>14, <1>16 DEF vars
<1> QED
  BY <1>3, <1>4, <1>5, <1>6, <1>7, <1>8, <1>9, <1>10, <1>11, <1>12, <1>13, <1>15,
     <1>16 DEF Next, Main

LEMMA WholeInvariant == Spec => []WholeInv
<1>1. Init => WholeInv
  BY DEF Init, WholeInv, Read, Rendering, Writing, PipelineError
<1> QED BY <1>1, ReportInvariant, WholeInvNext, PTL DEF Spec

(***************************************************************************)
(* What may be left of a file                                              *)
(***************************************************************************)

\* A header the writer may have left before n records: it names the first j of
\* them, or all and the footer with the drop count v.
LeftHeader(h, n, v) ==
  \/ \E j \in 0 .. n : h = HeadBytes(64 + 45 * j, 0, 0)
  \/ h = FinalHead(n) /\ v \in Drops

\* d is what a crash left of n records and perhaps a footer: it is cut anywhere,
\* and its header may be any the file ever had.
Left(d, n, v) ==
  /\ d \in Seq(Byte)
  /\ Len(d) >= HEADER_SIZE =>
       Written(d, n, v) /\ \E h : LeftHeader(h, n, v) /\ Has(d, 0, h)

\* d has n records, the footer, and the last header.
Whole(d, n, v) ==
  /\ d \in Seq(Byte) /\ Written(d, n, v)
  /\ Has(d, 0, FinalHead(n)) /\ 113 + 45 * n <= Len(d)

\* The input holds what it is said to hold: that much of its trace is in the
\* file, and a malformed file does not begin as one of this version.
IsTrue(f) ==
  \/ f.left = "absent"
  \/ f.left = "malformed" /\ ~Opens(f.bytes)
  \/ \E n \in 0 .. Len(Trace) :
       /\ f.trace = Events(n)
       /\ \/ f.left = "cut" /\ Left(f.bytes, n, f.drops)
          \/ f.left = "whole" /\ Whole(f.bytes, n, f.drops)

\* What the reader makes of the file d: the first J of n events, and the
\* metadata only with all of them
ReadsFirst(d, n, v, J) ==
  /\ Opens(d) /\ read_all_events(d) = Events(J)
  /\ read_metadata(d) # NoMetadata =>
       J = n /\ read_metadata(d) = [event_count |-> n, drop_count |-> v]

LEMMA LeftRead ==
  ASSUME NEW d, NEW n \in 0 .. Len(Trace), NEW v, Left(d, n, v), Len(d) >= HEADER_SIZE
  PROVE  \E J \in 0 .. n : ReadsFirst(d, n, v, J)
<1> DEFINE len == IF v \in Drops THEN 113 + 45 * n ELSE 0
<1>1. PICK h : LeftHeader(h, n, v) /\ Has(d, 0, h)
  BY DEF Left
<1>2. d \in Seq(Byte) /\ Written(d, n, v) /\ n \in Nat
  BY OffsetsFit DEF Left
<1>3. OldHeader(h, n, len)
  BY <1>1, <1>2 DEF LeftHeader, OldHeader
<1>4. len >= 113 + 45 * n => v \in Drops
  BY <1>2
<1> HIDE DEF len
<1> QED BY <1>1, <1>2, <1>3, <1>4, DamagedView DEF ReadsFirst

LEMMA WholeRead ==
  ASSUME NEW d, NEW n \in 0 .. Len(Trace), NEW v, Whole(d, n, v)
  PROVE  /\ ReadsFirst(d, n, v, n)
         /\ read_metadata(d) = [event_count |-> n, drop_count |-> v]
<1>1. /\ Recovered(d) = Events(n) /\ HasFooter(d)
      /\ read_metadata(d) = [event_count |-> n, drop_count |-> v]
  BY SealedView DEF Whole
<1> QED BY <1>1 DEF ReadsFirst, Recovered, HasFooter

\* The reader does not reject such a file, and its drop count is v or none.
LEMMA FirstAccepted ==
  ASSUME NEW f, NEW n \in 0 .. Len(Trace), NEW J \in 0 .. n,
         ReadsFirst(f.bytes, n, f.drops, J)
  PROVE  /\ ~Rejects(f)
         /\ read_metadata(f.bytes).drop_count # Missing =>
              J = n /\ read_metadata(f.bytes).drop_count = f.drops
<1> DEFINE got == read_all_events(f.bytes)
           meta == read_metadata(f.bytes)
<1>1. /\ n \in Nat /\ J \in Nat /\ J \in 0 .. Len(Trace) /\ Trace \in Seq(WperfEvent)
      /\ J <= Len(Trace)
  BY OffsetsFit, WprfFileAssumption
<1>2. Opens(f.bytes) /\ got = Events(J)
  BY DEF ReadsFirst
<1>3. ~(got # << >> /\ Last(got) = ReaderError)
  <2>1. Len(Events(J)) = J /\ (J = 0 => Events(J) = << >>)
    BY <1>1, EventsLen
  <2>2. CASE J = 0
    BY <1>2, <2>1, <2>2
  <2>3. CASE J # 0
    <3>1. Last(Events(J)) = Trace[J]
      BY <1>1, <2>1, <2>3 DEF Last, Events
    <3>2. Trace[J] \in WperfEvent
      BY <1>1, <2>3
    <3>3. ReaderError \notin WperfEvent
      BY DEF ReaderError, WperfEvent
    <3> QED BY <1>2, <3>1, <3>2, <3>3
  <2> QED BY <2>2, <2>3
<1>4. meta # NoMetadata =>
        J = n /\ meta = [event_count |-> n, drop_count |-> f.drops]
  BY DEF ReadsFirst
<1>5. meta # ReaderError
  BY <1>1, <1>4, Metas
<1>6. NoMetadata.drop_count = Missing
  BY DEF NoMetadata
<1> HIDE DEF got, meta
<1>7. meta.drop_count # Missing => J = n /\ meta.drop_count = f.drops
  BY <1>4, <1>6
<1> QED BY <1>2, <1>3, <1>5, <1>7 DEF Rejects, ReadFails, got, meta

\* A cut of a trace that was itself cut later
LEMMA FirstOfFirst ==
  ASSUME NEW n \in 0 .. Len(Trace), NEW J \in 0 .. n
  PROVE  SubSeq(Events(n), 1, J) = Events(J)
<1>1. /\ Trace \in Seq(WperfEvent) /\ n \in Nat /\ J \in Nat /\ Len(Trace) \in Nat
      /\ n <= Len(Trace) /\ J <= n
  BY OffsetsFit, WprfFileAssumption
<1>2. SubSeq(SubSeq(Trace, 1, n), 1, J) = SubSeq(Trace, 1, J)
  BY <1>1
<1> QED BY <1>2 DEF Events

LEMMA RecordedReported ==
  ASSUME \A f \in Files : IsTrue(f), ReportInv, WholeInv
  PROVE  ReportedIsRecorded
<1>1. input \in Files /\ IsTrue(input)
  BY DEF ReportInv, ReportTypeOK
<1>2. input.left \notin {"whole", "cut"} => input.left = "absent" \/ Rejects(input)
  BY <1>1 DEF IsTrue, Rejects
<1>3. input.left \notin {"whole", "cut"} => stdout = << >>
  BY <1>2, Zenon DEF WholeInv, ReadWhole
\* What the reader makes of a file that is whole or cut
<1>4. ASSUME input.left \in {"whole", "cut"}, Len(input.bytes) >= HEADER_SIZE
      PROVE  \E n \in 0 .. Len(Trace) : \E J \in 0 .. n :
               /\ input.trace = Events(n) /\ ReadsFirst(input.bytes, n, input.drops, J)
               /\ input.left = "whole" =>
                    /\ J = n
                    /\ read_metadata(input.bytes) =
                         [event_count |-> n, drop_count |-> input.drops]
  <2>1. PICK n \in 0 .. Len(Trace) :
          /\ input.trace = Events(n)
          /\ \/ input.left = "cut" /\ Left(input.bytes, n, input.drops)
             \/ input.left = "whole" /\ Whole(input.bytes, n, input.drops)
    BY <1>1, <1>4 DEF IsTrue
  <2>2. n \in Nat /\ n \in 0 .. n
    BY OffsetsFit
  <2>3. CASE input.left = "cut"
    <3>1. \E J \in 0 .. n : ReadsFirst(input.bytes, n, input.drops, J)
      BY <1>4, <2>1, <2>3, LeftRead
    <3> QED BY <2>1, <2>3, <3>1
  <2>4. CASE input.left = "whole"
    BY <2>1, <2>2, <2>4, WholeRead
  <2> QED BY <1>4, <2>3, <2>4
<1>5. ASSUME error = PipelineError
      PROVE  input.left = "malformed" \/ Len(input.bytes) < HEADER_SIZE
  <2> SUFFICES ASSUME input.left # "malformed", Len(input.bytes) >= HEADER_SIZE
               PROVE  FALSE
    <3>1. Len(input.bytes) \in Nat
      BY <1>1, ReportAssumption
    <3> QED BY <3>1 DEF HEADER_SIZE
  <2>1. input.left # "absent" /\ Rejects(input)
    BY <1>5 DEF WholeInv
  <2>2. input.left \in {"whole", "cut"}
    BY <1>1, <2>1 DEF IsTrue
  <2>3. ~Rejects(input)
    BY <1>4, <2>2, FirstAccepted, Zenon
  <2> QED BY <2>1, <2>3
<1>6. ASSUME exit_code = "SUCCESS"
      PROVE  /\ input.left \in {"whole", "cut"}
             /\ Len(events) <= Len(input.trace)
             /\ SameEvents(events, SubSeq(input.trace, 1, Len(events)))
             /\ drop_count # Missing \/ input.left = "whole" =>
                  Len(events) = Len(input.trace) /\ drop_count = input.drops
  <2> DEFINE got == read_all_events(input.bytes)
             key == [i \in DOMAIN got |-> EventKey(got[i])]
  <2>1. ReadWhole
    BY <1>6, Zenon DEF WholeInv
  <2>2. /\ input.left # "absent" /\ ~Rejects(input)
        /\ events \in SortedEvents(got) /\ drop_count = read_metadata(input.bytes).drop_count
    BY <2>1, Zenon DEF ReadWhole
  <2>3. input.left \in {"whole", "cut"}
    BY <1>2, <2>2
  <2>4. Opens(input.bytes) /\ ~(got # << >> /\ Last(got) = ReaderError)
    BY <2>2, Zenon DEF Rejects, ReadFails
  <2>5. Len(input.bytes) >= HEADER_SIZE
    BY <2>4 DEF Opens
  <2>6. PICK n \in 0 .. Len(Trace) : \E J \in 0 .. n :
          /\ input.trace = Events(n) /\ ReadsFirst(input.bytes, n, input.drops, J)
          /\ input.left = "whole" =>
               /\ J = n
               /\ read_metadata(input.bytes) =
                    [event_count |-> n, drop_count |-> input.drops]
    BY <1>4, <2>3, <2>5
  <2>7. PICK J \in 0 .. n :
          /\ input.trace = Events(n) /\ ReadsFirst(input.bytes, n, input.drops, J)
          /\ input.left = "whole" =>
               /\ J = n
               /\ read_metadata(input.bytes) =
                    [event_count |-> n, drop_count |-> input.drops]
    BY <2>6
  <2>8. /\ got = Events(J) /\ n \in Nat /\ J \in Nat /\ J <= n /\ J \in 0 .. Len(Trace)
    BY <2>7, OffsetsFit DEF ReadsFirst
  <2>9. Len(Events(J)) = J /\ Len(Events(n)) = n /\ SubSeq(Events(n), 1, J) = Events(J)
    BY <2>8, EventsLen, FirstOfFirst
  <2>10. got \in Seq(ReadEvent)
    BY <1>1, <2>4, ParsedEvents, Zenon
  <2>11. events \in Sortings(got, key)
    BY <2>2, Zenon DEF SortedEvents
  <2>12. drop_count # Missing \/ input.left = "whole" =>
           J = n /\ drop_count = input.drops
    <3>1. drop_count # Missing => J = n /\ drop_count = input.drops
      BY <2>2, <2>7, FirstAccepted
    <3>2. input.left = "whole" => J = n /\ drop_count = input.drops
      BY <2>2, <2>7
    <3> QED BY <3>1, <3>2
  <2> HIDE DEF got, key
  <2>13. ASSUME NEW e
         PROVE  Len(events) = Len(got) /\ Times(events, e) = Times(got, e)
    BY <2>10, <2>11, SortingCounts
  <2>14. Len(events) = J /\ SubSeq(input.trace, 1, Len(events)) = got
    BY <2>7, <2>8, <2>9, <2>13
  <2>15. SameEvents(events, got)
    BY <2>13, Zenon DEF SameEvents
  <2> QED BY <2>3, <2>7, <2>8, <2>9, <2>12, <2>14, <2>15
<1> QED BY <1>3, <1>5, <1>6, Zenon DEF ReportedIsRecorded

\* When each file is whole, or cut anywhere behind any header it ever had, or
\* not a file of this version, or absent, a report that ends with SUCCESS has the
\* first events that were recorded, each as often, of a whole file all; it has
\* the recorder's drop count or none, and then of all events; and what it does
\* not report it refuses, but never a file the recorder made that has a header.
THEOREM ReportedIsRecordedHolds ==
  ASSUME \A f \in Files : IsTrue(f) PROVE Spec => []ReportedIsRecorded
<1>1. ReportInv /\ WholeInv => ReportedIsRecorded
  BY RecordedReported
<1> QED BY <1>1, ReportInvariant, WholeInvariant, PTL

LEMMA LeftAfterLoss ==
  ASSUME FileInv, NEW d \in AfterPowerLoss \cup {disk}
  PROVE  Left(d, event_count, drops)
<1> DEFINE n == event_count
<1>1. disk \in Seq(Byte) /\ Len(disk) \in Nat /\ Written(disk, n, drops) /\ n \in Nat
  BY FileView DEF FileInv, Common
<1>2. CASE d = << >>
  BY <1>2 DEF Left, HEADER_SIZE
<1>3. CASE d # << >>
  <2>1. PICK h : Written(d, n, drops) /\ Has(d, 0, h) /\ OldHeader(h, n, Len(disk))
    BY <1>3, PowerLossHeader
  <2>2. Len(disk) >= 113 + 45 * n => drops \in Drops
    <3>1. Len(disk) >= 113 + 45 * n => Len(disk) > 64 + 45 * n
      BY <1>1
    <3> QED BY <1>1, <3>1 DEF Written
  <2>3. LeftHeader(h, n, drops)
    BY <2>1, <2>2 DEF OldHeader, LeftHeader
  <2> QED BY <2>1, <2>3 DEF Left, Written
<1> QED BY <1>2, <1>3

LEMMA WholeWhenSealed ==
  ASSUME FileInv, Sealed
  PROVE  Whole(disk, event_count, drops)
<1> DEFINE n == event_count
<1>1. disk \in Seq(Byte) /\ Written(disk, n, drops) /\ n \in 0 .. Len(Trace)
  BY FileView DEF FileInv, Common
<1>2. disk # << >> /\ Opens(disk) /\ header_from_bytes(disk).section_table_offset # 0
  BY EmptyView DEF Sealed
<1>3. PICK h : Has(disk, 0, h) /\ OldHeader(h, n, Len(disk))
  BY <1>2, PowerLossHeader
<1>4. ASSUME NEW j \in 0 .. n, h = HeadBytes(64 + 45 * j, 0, 0)
      PROVE  FALSE
  <2>1. 64 + 45 * j \in Unsigned(8) /\ 0 \in Unsigned(8) /\ 0 \in {0, 1}
    BY <1>1, Heads
  <2>2. header_from_bytes(disk).section_table_offset = 0
    BY <1>1, <1>3, <1>4, <2>1, HeadRead
  <2> QED BY <1>2, <2>2
<1>5. h = FinalHead(n) /\ Len(disk) >= 113 + 45 * n
  BY <1>3, <1>4 DEF OldHeader
<1>6. 113 + 45 * n <= Len(disk)
  BY <1>1, <1>5, OffsetsFit
<1> QED BY <1>1, <1>3, <1>5, <1>6 DEF Whole

\* A recording stopped, killed, failed or cut by a power failure at any moment
\* leaves a file of which ReportedIsRecordedHolds speaks: one that is whole once
\* it is sealed, and cut before.
THEOREM RecordingLeaves ==
  FileSpec => [](/\ \A d \in AfterPowerLoss \cup {disk} : Left(d, event_count, drops)
                 /\ Sealed => Whole(disk, event_count, drops))
<1>1. FileInv => /\ \A d \in AfterPowerLoss \cup {disk} : Left(d, event_count, drops)
                 /\ Sealed => Whole(disk, event_count, drops)
  BY LeftAfterLoss, WholeWhenSealed
<1> QED BY <1>1, FileInvariant, PTL
=============================================================================
