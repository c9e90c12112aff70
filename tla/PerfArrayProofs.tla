-------------------------- MODULE PerfArrayProofs ---------------------------
(***************************************************************************)
(* ReorderBuf for every window, every number of events and every           *)
(* timestamp, on its own and behind perf buffers of any number of CPUs.    *)
(***************************************************************************)
EXTENDS PerfArray, FiniteSetTheorems, WellFoundedInduction, TLAPS

\* A set of numbers that is not empty has a least one: inductions over numbers
\* are proved by their least counterexample.
LEMMA LeastNat ==
  ASSUME NEW T, T \subseteq Nat, T # {}
  PROVE  \E x \in T : \A y \in T : x <= y
<1>1. PICK x \in T : \A y \in T : ~(<<y, x>> \in OpToRel(<, Nat))
  BY NatLessThanWellFounded, WFMin, Zenon
<1>2. \A y \in T : ~(y < x)
  BY <1>1 DEF OpToRel
<1> QED BY <1>2
-----------------------------------------------------------------------------
(***************************************************************************)
(* Sums over the CPUs                                                      *)
(***************************************************************************)
\* The body of the recursion of SumTo
SumStep(f, S, i) == IF i = 0 THEN 0 ELSE S[i - 1] + f[i]

LEMMA SumExists ==
  ASSUME NEW n \in Nat, NEW f \in [1 .. n -> Nat]
  PROVE  \E S \in [0 .. n -> Nat] : S = [i \in 0 .. n |-> SumStep(f, S, i)]
<1> DEFINE Solved(k) == \E S \in [0 .. k -> Nat] : S = [i \in 0 .. k |-> SumStep(f, S, i)]
           T == {k \in 0 .. n : ~Solved(k)}
<1>1. T = {}
  <2>1. SUFFICES ASSUME T # {} PROVE FALSE
    OBVIOUS
  <2>2. T \subseteq Nat
    OBVIOUS
  <2>3. PICK m \in T : \A k \in T : m <= k
    <3> HIDE DEF T
    <3> QED BY <2>1, <2>2, LeastNat, Zenon
  <2>4. m \in 0 .. n /\ ~Solved(m)
    BY <2>3
  <2>5. CASE m = 0
    <3> DEFINE S == [i \in 0 .. 0 |-> 0]
    <3>1. S \in [0 .. 0 -> Nat] /\ S = [i \in 0 .. 0 |-> SumStep(f, S, i)]
      BY DEF SumStep
    <3> HIDE DEF S
    <3> QED BY <2>4, <2>5, <3>1
  <2>6. CASE m # 0
    <3>1. m - 1 \in 0 .. n /\ m - 1 < m /\ m \in Nat
      BY <2>4, <2>6
    <3>2. Solved(m - 1)
      <4> HIDE DEF Solved
      <4> QED BY <2>3, <3>1
    <3>3. PICK S \in [0 .. m - 1 -> Nat] : S = [i \in 0 .. m - 1 |-> SumStep(f, S, i)]
      BY <3>2
    <3> DEFINE R == [i \in 0 .. m |-> IF i = m THEN S[m - 1] + f[m] ELSE S[i]]
    <3>4. S[m - 1] \in Nat /\ f[m] \in Nat
      BY <2>4, <3>1, <3>3
    <3>5. \A i \in 0 .. m : i # m => i \in 0 .. m - 1
      BY <3>1
    <3>6. R \in [0 .. m -> Nat]
      <4>1. \A i \in 0 .. m - 1 : S[i] \in Nat
        BY <3>3
      <4>2. \A i \in 0 .. m : (IF i = m THEN S[m - 1] + f[m] ELSE S[i]) \in Nat
        BY <3>4, <3>5, <4>1
      <4> QED BY <4>2
    <3>7. ASSUME NEW i \in 0 .. m
          PROVE  R[i] = SumStep(f, R, i)
      <4>1. CASE i = m
        BY <2>6, <3>1, <4>1 DEF SumStep
      <4>2. CASE i # m
        <5>1. R[i] = S[i] /\ i \in 0 .. m - 1 /\ (i # 0 => R[i - 1] = S[i - 1])
          BY <3>1, <3>5, <4>2
        <5>2. S[i] = SumStep(f, S, i)
          BY <3>3, <5>1, Zenon
        <5> HIDE DEF R
        <5> QED BY <5>1, <5>2 DEF SumStep
      <4> QED BY <4>1, <4>2
    <3>8. R = [i \in 0 .. m |-> SumStep(f, R, i)]
      <4>1. R = [i \in 0 .. m |-> R[i]]
        OBVIOUS
      <4> HIDE DEF R
      <4> QED BY <3>7, <4>1
    <3> HIDE DEF R
    <3> QED BY <2>4, <3>6, <3>8
  <2> QED BY <2>5, <2>6
<1> HIDE DEF Solved
<1>2. Solved(n)
  BY <1>1
<1> QED BY <1>2 DEF Solved

\* The partial sums
Partial(f, n) == CHOOSE S : S = [i \in 0 .. n |-> SumStep(f, S, i)]

LEMMA PartialSums ==
  ASSUME NEW n \in Nat, NEW f \in [1 .. n -> Nat]
  PROVE  /\ SumTo(f, n) = Partial(f, n)[n]
         /\ Partial(f, n)[0] = 0
         /\ \A i \in 1 .. n : Partial(f, n)[i] = Partial(f, n)[i - 1] + f[i]
<1> DEFINE P == Partial(f, n)
<1>1. SumTo(f, n) = P[n]
  BY DEF SumTo, Partial, SumStep
<1>2. \E S : S = [i \in 0 .. n |-> SumStep(f, S, i)]
  BY SumExists
<1>3. P = [i \in 0 .. n |-> SumStep(f, P, i)]
  BY <1>2, Zenon DEF Partial
<1> HIDE DEF P
<1>4. \A i \in 0 .. n : P[i] = SumStep(f, P, i)
  BY <1>3, Zenon
<1>5. P[0] = 0 /\ \A i \in 1 .. n : P[i] = P[i - 1] + f[i]
  BY <1>4 DEF SumStep
<1> QED BY <1>1, <1>5 DEF P

\* A sum is a number, and changes as its one term that changes.
LEMMA SumChange ==
  ASSUME NEW n \in Nat, NEW f \in [1 .. n -> Nat], NEW g \in [1 .. n -> Nat],
         NEW c \in 1 .. n, \A d \in 1 .. n : d # c => g[d] = f[d]
  PROVE  /\ SumTo(f, n) \in Nat /\ SumTo(g, n) \in Nat
         /\ SumTo(g, n) + f[c] = SumTo(f, n) + g[c]
<1> DEFINE F == Partial(f, n)
           G == Partial(g, n)
           Good(i) == /\ F[i] \in Nat /\ G[i] \in Nat
                      /\ i < c => G[i] = F[i]
                      /\ i >= c => G[i] + f[c] = F[i] + g[c]
           T == {i \in 0 .. n : ~Good(i)}
<1>1. /\ F[0] = 0 /\ \A i \in 1 .. n : F[i] = F[i - 1] + f[i]
      /\ G[0] = 0 /\ \A i \in 1 .. n : G[i] = G[i - 1] + g[i]
  BY PartialSums
<1>2. /\ SumTo(f, n) = F[n] /\ SumTo(g, n) = G[n]
      /\ \A i \in 1 .. n : f[i] \in Nat /\ g[i] \in Nat
  BY PartialSums
<1> HIDE DEF F, G
<1>3. T = {}
  <2>1. SUFFICES ASSUME T # {} PROVE FALSE
    OBVIOUS
  <2>2. T \subseteq Nat
    OBVIOUS
  <2>3. PICK m \in T : \A k \in T : m <= k
    <3> HIDE DEF T
    <3> QED BY <2>1, <2>2, LeastNat, Zenon
  <2>4. m \in 0 .. n /\ ~Good(m)
    BY <2>3
  <2>5. m # 0
    BY <1>1, <2>4
  <2>6. m - 1 \in 0 .. n /\ m - 1 < m /\ m \in 1 .. n
    BY <2>4, <2>5
  <2>7. Good(m - 1)
    <3> HIDE DEF Good
    <3> QED BY <2>3, <2>6
  <2>8. /\ F[m] = F[m - 1] + f[m] /\ f[m] \in Nat
        /\ G[m] = G[m - 1] + g[m] /\ g[m] \in Nat
    BY <1>1, <1>2, <2>6
  <2>9. CASE m < c
    <3>1. g[m] = f[m] /\ G[m - 1] = F[m - 1]
      BY <2>6, <2>7, <2>9
    <3> QED BY <2>4, <2>6, <2>7, <2>8, <2>9, <3>1
  <2>10. CASE m = c
    <3>1. G[m - 1] = F[m - 1]
      BY <2>6, <2>7, <2>10
    <3> QED BY <2>4, <2>6, <2>7, <2>8, <2>10, <3>1
  <2>11. CASE m > c
    <3>1. g[m] = f[m] /\ G[m - 1] + f[c] = F[m - 1] + g[c]
      BY <2>6, <2>7, <2>11
    <3>2. f[c] \in Nat /\ g[c] \in Nat /\ F[m - 1] \in Nat /\ G[m - 1] \in Nat
      BY <1>2, <2>7
    <3>3. G[m] + f[c] = F[m] + g[c] /\ F[m] \in Nat /\ G[m] \in Nat
      <4>1. G[m] = G[m - 1] + f[m] /\ F[m] = F[m - 1] + f[m] /\ f[m] \in Nat
        BY <2>8, <3>1
      <4>2. (G[m - 1] + f[m]) + f[c] = (F[m - 1] + f[m]) + g[c]
        <5> DEFINE a == G[m - 1]
                   b == F[m - 1]
                   x == f[c]
                   y == g[c]
                   d == f[m]
        <5>1. a + x = b + y /\ a \in Nat /\ b \in Nat /\ x \in Nat /\ y \in Nat /\ d \in Nat
          BY <3>1, <3>2, <4>1
        <5> HIDE DEF a, b, x, y, d
        <5>2. (a + d) + x = (b + d) + y
          BY <5>1
        <5> QED BY <5>2 DEF a, b, x, y, d
      <4>3. G[m] \in Nat /\ F[m] \in Nat
        BY <2>6, <3>2, <4>1
      <4> QED BY <4>1, <4>2, <4>3
    <3>4. ~(m < c)
      BY <2>6, <2>11
    <3> QED BY <2>4, <3>3, <3>4
  <2> QED BY <2>6, <2>9, <2>10, <2>11
<1>4. Good(n) /\ n >= c
  BY <1>3
<1> QED BY <1>2, <1>4

LEMMA SumZero ==
  ASSUME NEW n \in Nat, NEW f \in [1 .. n -> Nat], \A d \in 1 .. n : f[d] = 0
  PROVE  SumTo(f, n) = 0
<1> DEFINE F == Partial(f, n)
           T == {i \in 0 .. n : F[i] # 0}
<1>1. F[0] = 0 /\ \A i \in 1 .. n : F[i] = F[i - 1] + f[i]
  BY PartialSums
<1>2. SumTo(f, n) = F[n]
  BY PartialSums
<1> HIDE DEF F
<1>3. T = {}
  <2>1. SUFFICES ASSUME T # {} PROVE FALSE
    OBVIOUS
  <2>2. T \subseteq Nat
    OBVIOUS
  <2>3. PICK m \in T : \A k \in T : m <= k
    <3> HIDE DEF T
    <3> QED BY <2>1, <2>2, LeastNat, Zenon
  <2>4. m \in 1 .. n /\ m - 1 \in 0 .. n /\ m - 1 < m
    BY <1>1, <2>3
  <2>5. F[m - 1] = 0
    BY <2>3, <2>4
  <2> QED BY <1>1, <2>3, <2>4, <2>5
<1> QED BY <1>2, <1>3
-----------------------------------------------------------------------------
(***************************************************************************)
(* The order of the output, whoever pushes, and whether or not the         *)
(* callback keeps the event it is given.                                   *)
(***************************************************************************)
\* What keeps the output sorted: everything handed on is at most as new as what
\* is held back, and, as long as events are pushed, at most as new as the
\* cutoff, which an event that comes in time cannot be older than.
OutputBelow ==
  /\ \A i \in DOMAIN out : \A e \in heap : out[i].ts <= e.ts
  /\ mode \in {"idle", "flush"} => \A i \in DOMAIN out : out[i].ts <= Cutoff

BufTypeOK ==
  /\ heap \subseteq Event
  /\ newest_ts \in Ts
  /\ mode \in {"idle", "flush", "drain", "drained"}
  /\ out \in Seq(Event)
  /\ late \in BOOLEAN

OrderInv == BufTypeOK /\ (~late => Sorted(out) /\ OutputBelow)

\* The fields of an event are numbers.
LEMMA EventFields == \A e \in Event : e.ts \in Nat /\ e.id \in Nat
BY ReorderBufAssumption DEF Event, Ts

\* The elements of a sequence that one element was appended to
LEMMA AppendElements ==
  ASSUME NEW S, NEW s \in Seq(S), NEW x \in S
  PROVE  /\ Append(s, x) \in Seq(S)
         /\ DOMAIN Append(s, x) = DOMAIN s \cup {Len(s) + 1}
         /\ Append(s, x)[Len(s) + 1] = x
         /\ \A i \in DOMAIN s : i <= Len(s) /\ Append(s, x)[i] = s[i]
         /\ DOMAIN s \subseteq Nat /\ Len(s) \in Nat
OBVIOUS

\* Appending an element that is not smaller than the others keeps the order.
LEMMA AppendSorted ==
  ASSUME NEW s \in Seq(Event), NEW e \in Event, Sorted(s),
         \A i \in DOMAIN s : s[i].ts <= e.ts
  PROVE  Sorted(Append(s, e))
<1> USE AppendElements
<1> SUFFICES ASSUME NEW i \in DOMAIN Append(s, e), NEW j \in DOMAIN Append(s, e),
                    i < j
             PROVE  Append(s, e)[i].ts <= Append(s, e)[j].ts
  BY DEF Sorted
<1>1. i \in DOMAIN s
  BY SMT
<1>2. CASE j \in DOMAIN s
  BY <1>1, <1>2 DEF Sorted
<1>3. CASE j = Len(s) + 1
  BY <1>1, <1>3
<1> QED BY <1>2, <1>3

\* A new ReorderBuf
LEMMA InitOrder == ReorderInit => OrderInv
<1> SUFFICES ASSUME ReorderInit PROVE OrderInv
  OBVIOUS
<1>1. /\ heap \subseteq Event /\ newest_ts \in Ts
      /\ mode \in {"idle", "flush", "drain", "drained"} /\ out \in Seq(Event)
  BY ReorderBufAssumption DEF ReorderInit, Ts
<1>2. late \in BOOLEAN
  BY Zenon DEF ReorderInit
<1>3. DOMAIN out = {} /\ heap = {}
  BY DEF ReorderInit
<1> QED BY <1>1, <1>2, <1>3 DEF OrderInv, BufTypeOK, Sorted, OutputBelow

\* A pop of one of the oldest events, by flush_expired or by drain
LEMMA PopOrder ==
  ASSUME OrderInv, NEW e \in heap, flush_expired(e) \/ drain_pop(e),
         out' = Append(out, e) \/ out' = out
  PROVE  OrderInv'
<1>0. e \in Event /\ out \in Seq(Event)
  BY DEF OrderInv, BufTypeOK
<1> USE AppendElements, <1>0
<1>a. /\ Oldest(e) /\ heap' = heap \ {e}
      /\ newest_ts' = newest_ts /\ mode' = mode /\ late' = late
      /\ mode = "flush" => e.ts <= Cutoff
      /\ mode # "idle"
  BY DEF flush_expired, drain_pop
<1>1. BufTypeOK'
  BY <1>a DEF OrderInv, BufTypeOK
<1>2. ASSUME ~late' PROVE Sorted(out)' /\ OutputBelow'
  <2>1. Sorted(out) /\ OutputBelow
    BY <1>a, <1>2 DEF OrderInv
  <2>2. Sorted(out')
    BY <1>a, <2>1, AppendSorted DEF OutputBelow
  <2>3. \A i \in DOMAIN out' : \A f \in heap' : out'[i].ts <= f.ts
    BY <1>a, <2>1 DEF OutputBelow, Oldest
  <2>4. ASSUME mode' \in {"idle", "flush"}, NEW i \in DOMAIN out'
        PROVE  out'[i].ts <= Cutoff'
    BY <1>a, <2>1, <2>4 DEF OutputBelow, Cutoff
  <2> QED BY <2>2, <2>3, <2>4 DEF OutputBelow, Sorted
<1> QED BY <1>1, <1>2 DEF OrderInv

\* push
LEMMA PushOrder ==
  ASSUME OrderInv, NEW e \in Event, push(e), UNCHANGED out
  PROVE  OrderInv'
<1> USE ReorderBufAssumption
<1>1. /\ newest_ts \in Nat /\ e.ts \in Nat /\ out \in Seq(Event) /\ heap \subseteq Event
  BY DEF OrderInv, BufTypeOK, Event, Ts
<1>2. \A i \in DOMAIN out : out[i] \in Event
  BY <1>1
<1>3. BufTypeOK'
  <2>1. newest_ts' \in Ts
    BY DEF push, OrderInv, BufTypeOK, Event, Ts
  <2>2. late' \in BOOLEAN
    BY Zenon DEF push
  <2> QED BY <2>1, <2>2 DEF push, OrderInv, BufTypeOK
<1>4. ASSUME ~late' PROVE Sorted(out)' /\ OutputBelow'
  <2>1. ~late /\ ~(e.ts + window_ns < newest_ts)
    BY <1>4, Zenon DEF push
  <2>2. ~late /\ newest_ts <= e.ts + window_ns
    BY <1>1, <2>1
  <2>3. Sorted(out) /\ OutputBelow
    BY <2>2 DEF OrderInv
  <2>4. \A i \in DOMAIN out : out[i].ts \in Nat
    BY <1>2, EventFields
  <2>5. mode = "idle" /\ mode' = "flush"
    BY DEF push
  <2>6. \A i \in DOMAIN out : out[i].ts <= Cutoff
    BY <2>3, <2>5 DEF OutputBelow
  <2>7. Cutoff <= e.ts /\ Cutoff <= Cutoff' /\ Cutoff \in Nat /\ Cutoff' \in Nat
    BY <1>1, <2>2 DEF push, Cutoff
  <2>8. \A i \in DOMAIN out : out[i].ts <= e.ts /\ out[i].ts <= Cutoff'
    BY <1>1, <2>4, <2>6, <2>7
  <2>9. heap' = heap \cup {e} /\ out' = out
    BY DEF push
  <2> QED BY <2>3, <2>8, <2>9 DEF OutputBelow, Sorted
<1> QED BY <1>3, <1>4 DEF OrderInv

\* The ends of flush_expired and drain, and the start of drain
LEMMA DoneOrder ==
  ASSUME OrderInv, UNCHANGED out,
         flush_done \/ drain \/ drain_done \/ UNCHANGED bufVars
  PROVE  OrderInv'
<1>1. CASE flush_done \/ drain \/ UNCHANGED bufVars
  BY <1>1 DEF flush_done, drain, bufVars, OrderInv, BufTypeOK, OutputBelow, Sorted, Cutoff
<1>2. CASE drain_done
  BY <1>2, ReorderBufAssumption
     DEF drain_done, OrderInv, BufTypeOK, OutputBelow, Sorted, Ts
<1> QED BY <1>1, <1>2
-----------------------------------------------------------------------------
(***************************************************************************)
(* ReorderBuf on its own: an event is named by the number of its push.     *)
(***************************************************************************)
Numbered ==
  /\ \A e \in heap : e.id <= pushed
  /\ \A i \in DOMAIN out : out[i].id <= pushed

ReorderInv ==
  OrderInv /\ pushed \in 0 .. MaxEvents /\ Numbered /\ HeldOrHandedOn

\* push, every pop of flush_expired and drain, and their ends keep it.
LEMMA NextReorderInv == ReorderInv /\ [ReorderNext]_reorderVars => ReorderInv'
<1> SUFFICES ASSUME ReorderInv, [ReorderNext]_reorderVars PROVE ReorderInv'
  OBVIOUS
<1> USE ReorderBufAssumption
<1>0. OrderInv /\ Numbered /\ HeldOrHandedOn /\ pushed \in 0 .. MaxEvents
  BY DEF ReorderInv
<1>a. out \in Seq(Event) /\ heap \subseteq Event /\ pushed \in Nat
  BY <1>0 DEF OrderInv, BufTypeOK
<1>1. ASSUME NEW ts \in Ts, pushed < MaxEvents,
             push([ts |-> ts, id |-> pushed + 1]), UNCHANGED out
      PROVE  ReorderInv'
  <2> DEFINE e == [ts |-> ts, id |-> pushed + 1]
  <2>1. e \in Event
    BY <1>a, <1>1 DEF Event
  <2>2. e.id = pushed + 1
    OBVIOUS
  <2>3. push(e)
    BY <1>1
  <2> HIDE DEF e
  <2>4. heap' = heap \cup {e} /\ out' = out /\ pushed' = pushed + 1
    BY <1>1, <2>3 DEF push
  <2>5. \A i \in DOMAIN out : out[i] \in Event
    BY <1>a
  <2>6. /\ \A f \in heap : f.id \in Int
        /\ \A i \in DOMAIN out : out[i].id \in Int
    BY <1>a, <2>5, EventFields
  <2>7. Numbered' /\ HeldOrHandedOn'
    BY <1>a, <1>0, <2>2, <2>4, <2>6 DEF Numbered, HeldOrHandedOn
  <2>8. OrderInv'
    BY <1>0, <1>1, <2>1, <2>3, PushOrder
  <2>9. pushed' \in 0 .. MaxEvents
    BY <1>a, <1>1, <2>4
  <2> QED BY <2>7, <2>8, <2>9 DEF ReorderInv
<1>2. ASSUME NEW e \in heap, flush_expired(e) \/ drain_pop(e), out' = Append(out, e)
      PROVE  ReorderInv'
  <2>0. heap' = heap \ {e} /\ pushed' = pushed /\ e \in Event
    BY <1>a, <1>2 DEF flush_expired, drain_pop
  <2>1. OrderInv'
    BY <1>0, <1>2, PopOrder
  <2> USE AppendElements, <1>a, <2>0
  <2>2. Numbered'
    BY <1>0, <1>2 DEF Numbered
  <2>3. \A i \in DOMAIN out' : out'[i] \notin heap'
    BY <1>0, <1>2 DEF HeldOrHandedOn
  <2>4. ASSUME NEW i \in DOMAIN out', NEW j \in DOMAIN out', i # j
        PROVE  out'[i] # out'[j]
    BY <1>0, <1>2, <2>4 DEF HeldOrHandedOn
  <2> QED BY <1>0, <2>1, <2>2, <2>3, <2>4 DEF HeldOrHandedOn, ReorderInv
<1>3. ASSUME flush_done \/ drain \/ drain_done \/ UNCHANGED bufVars, UNCHANGED out
      PROVE  ReorderInv'
  <2>1. heap' = heap /\ pushed' = pushed
    BY <1>3 DEF flush_done, drain, drain_done, bufVars
  <2>2. OrderInv'
    BY <1>0, <1>3, DoneOrder
  <2> QED BY <1>0, <1>3, <2>1, <2>2 DEF ReorderInv, Numbered, HeldOrHandedOn
<1> QED BY <1>1, <1>2, <1>3 DEF ReorderNext, reorderVars

\* The inductive invariant of push, flush_expired and drain
THEOREM ReorderInvariant == ReorderSpec => []ReorderInv
<1>1. ReorderInit => ReorderInv
  <2> SUFFICES ASSUME ReorderInit PROVE ReorderInv
    OBVIOUS
  <2>1. pushed \in 0 .. MaxEvents /\ DOMAIN out = {} /\ heap = {}
    BY ReorderBufAssumption DEF ReorderInit
  <2> QED BY <2>1, InitOrder DEF ReorderInv, Numbered, HeldOrHandedOn
<1> QED BY <1>1, NextReorderInv, PTL DEF ReorderSpec

\* Events that are pushed no more than window_ns behind the newest one come out
\* of push and drain in timestamp order, whatever the window.
THEOREM ReorderBufSorts == ReorderSpec => []InWindowMeansSorted
<1>1. ReorderInv => InWindowMeansSorted
  BY DEF ReorderInv, OrderInv, InWindowMeansSorted
<1> QED BY <1>1, ReorderInvariant, PTL

\* push and drain hand an event on at most once, and never keep one they have
\* handed on.
THEOREM ReorderBufKeepsApart == ReorderSpec => []HeldOrHandedOn
<1>1. ReorderInv => HeldOrHandedOn
  BY DEF ReorderInv
<1> QED BY <1>1, ReorderInvariant, PTL

\* The buffer keeps its types, and takes no more events than were pushed.
THEOREM ReorderBufTyped == ReorderSpec => []ReorderTypeOK
<1>1. ReorderInv => ReorderTypeOK
  BY DEF ReorderInv, OrderInv, BufTypeOK, ReorderTypeOK
<1> QED BY <1>1, ReorderInvariant, PTL
-----------------------------------------------------------------------------
(***************************************************************************)
(* Behind the perf buffers an event is named by the number of its firing,  *)
(* and the numbers come in any order.  They stay apart because every step  *)
(* takes an event out of the place it puts it into the next one from.      *)
(***************************************************************************)
Ids(s) == {s[i].id : i \in DOMAIN s}
NoRepeats(s) == \A i, j \in DOMAIN s : i # j => s[i].id # s[j].id

ProbeIds(c) == IF stamped[c] = NoEvent THEN {} ELSE {stamped[c].id}
BufferIds(c) == Ids(cpu_buf[c].samples)
HeapIds == {e.id : e \in heap}

PerfTypeOK ==
  /\ now \in Ts
  /\ stamped \in [Cpu -> Event \cup {NoEvent}]
  /\ cpu_buf \in [Cpu -> [samples : Seq(Event), lost : Nat, records : Nat]]
  /\ kernel_lost \in [Cpu -> Nat]
  /\ happened \in 0 .. MaxEvents
  /\ pending \in Seq(Event)
  /\ lost_count \in Nat
  /\ discarded \in Nat
  /\ IsFiniteSet(heap)

\* No event is twice in one place ...
ApartInside ==
  /\ \A c \in Cpu : NoRepeats(cpu_buf[c].samples)
  /\ NoRepeats(pending)
  /\ \A e, f \in heap : e.id = f.id => e = f
  /\ NoRepeats(out)

\* ... or in two places.
ApartBetween ==
  /\ \A c \in Cpu : ProbeIds(c) \cap BufferIds(c) = {}
  /\ \A c, d \in Cpu : c # d => /\ ProbeIds(c) \cap ProbeIds(d) = {}
                                /\ ProbeIds(c) \cap BufferIds(d) = {}
                                /\ BufferIds(c) \cap BufferIds(d) = {}
  /\ \A c \in Cpu : /\ ProbeIds(c) \cap Ids(pending) = {}
                    /\ ProbeIds(c) \cap HeapIds = {}
                    /\ ProbeIds(c) \cap Ids(out) = {}
                    /\ BufferIds(c) \cap Ids(pending) = {}
                    /\ BufferIds(c) \cap HeapIds = {}
                    /\ BufferIds(c) \cap Ids(out) = {}
  /\ Ids(pending) \cap HeapIds = {}
  /\ Ids(pending) \cap Ids(out) = {}
  /\ HeapIds \cap Ids(out) = {}

Fired ==
  /\ \A c \in Cpu : ProbeIds(c) \cup BufferIds(c) \subseteq 1 .. happened
  /\ Ids(pending) \cup HeapIds \cup Ids(out) \subseteq 1 .. happened

PerfInv ==
  OrderInv /\ PerfTypeOK /\ ApartInside /\ ApartBetween /\ Fired
    /\ PerfEventsAccounted

LEMMA AppendIds ==
  ASSUME NEW s \in Seq(Event), NEW e \in Event, NoRepeats(s), e.id \notin Ids(s)
  PROVE  /\ NoRepeats(Append(s, e)) /\ Ids(Append(s, e)) = Ids(s) \cup {e.id}
         /\ Append(s, e) \in Seq(Event) /\ Len(Append(s, e)) = Len(s) + 1
<1> DEFINE a == Append(s, e)
           n == Len(s) + 1
<1>1. /\ a \in Seq(Event) /\ DOMAIN a = DOMAIN s \cup {n} /\ a[n] = e
      /\ \A i \in DOMAIN s : a[i] = s[i]
      /\ n \notin DOMAIN s /\ Len(a) = Len(s) + 1
  BY AppendElements
<1> HIDE DEF a, n
<1>2. NoRepeats(a) /\ Ids(a) = Ids(s) \cup {e.id}
  BY <1>1 DEF NoRepeats, Ids
<1> QED BY <1>1, <1>2 DEF a

LEMMA ConcatIds ==
  ASSUME NEW s \in Seq(Event), NEW t \in Seq(Event), NoRepeats(s), NoRepeats(t),
         Ids(s) \cap Ids(t) = {}
  PROVE  /\ NoRepeats(s \o t) /\ Ids(s \o t) = Ids(s) \cup Ids(t)
         /\ s \o t \in Seq(Event) /\ Len(s \o t) = Len(s) + Len(t)
<1> DEFINE u == s \o t
<1>1. /\ u \in Seq(Event) /\ Len(u) = Len(s) + Len(t)
      /\ \A i \in 1 .. Len(s) : u[i] = s[i]
      /\ \A i \in 1 .. Len(t) : u[Len(s) + i] = t[i]
      /\ \A i \in Len(s) + 1 .. Len(u) : u[i] = t[i - Len(s)]
      /\ Len(s) \in Nat /\ Len(t) \in Nat
  OBVIOUS
<1>2. DOMAIN s = 1 .. Len(s) /\ DOMAIN t = 1 .. Len(t) /\ DOMAIN u = 1 .. Len(u)
  BY <1>1
<1> HIDE DEF u
<1>3. \A i \in DOMAIN u : \/ i \in DOMAIN s /\ u[i] = s[i]
                          \/ i - Len(s) \in DOMAIN t /\ u[i] = t[i - Len(s)]
  BY <1>1, <1>2
<1>4. NoRepeats(u)
  <2> SUFFICES ASSUME NEW i \in DOMAIN u, NEW j \in DOMAIN u, i # j, u[i].id = u[j].id
               PROVE  FALSE
    BY DEF NoRepeats
  <2>1. i \in Int /\ j \in Int /\ Len(s) \in Int
    BY <1>1, <1>2
  <2>2. CASE i \in DOMAIN s /\ u[i] = s[i] /\ j \in DOMAIN s /\ u[j] = s[j]
    BY <2>2 DEF NoRepeats
  <2>3. CASE i \in DOMAIN s /\ u[i] = s[i] /\ j - Len(s) \in DOMAIN t /\ u[j] = t[j - Len(s)]
    BY <2>3 DEF Ids
  <2>4. CASE j \in DOMAIN s /\ u[j] = s[j] /\ i - Len(s) \in DOMAIN t /\ u[i] = t[i - Len(s)]
    BY <2>4 DEF Ids
  <2>5. CASE /\ i - Len(s) \in DOMAIN t /\ u[i] = t[i - Len(s)]
             /\ j - Len(s) \in DOMAIN t /\ u[j] = t[j - Len(s)]
    <3>1. i - Len(s) # j - Len(s)
      BY <2>1
    <3> QED BY <2>5, <3>1 DEF NoRepeats
  <2> QED BY <1>3, <2>2, <2>3, <2>4, <2>5
<1>5. Ids(u) = Ids(s) \cup Ids(t)
  <2>1. Ids(u) \subseteq Ids(s) \cup Ids(t)
    BY <1>3 DEF Ids
  <2>2. \A i \in DOMAIN s : i \in DOMAIN u /\ u[i] = s[i]
    BY <1>1, <1>2
  <2>3. \A i \in DOMAIN t : Len(s) + i \in DOMAIN u /\ u[Len(s) + i] = t[i]
    BY <1>1, <1>2
  <2>4. Ids(s) \subseteq Ids(u)
    BY <2>2 DEF Ids
  <2>5. Ids(t) \subseteq Ids(u)
    BY <2>3 DEF Ids
  <2> QED BY <2>1, <2>4, <2>5
<1> QED BY <1>1, <1>4, <1>5 DEF u

LEMMA TailIds ==
  ASSUME NEW s \in Seq(Event), NoRepeats(s), s # << >>
  PROVE  /\ NoRepeats(Tail(s)) /\ Ids(s) = Ids(Tail(s)) \cup {Head(s).id}
         /\ Head(s).id \notin Ids(Tail(s)) /\ Tail(s) \in Seq(Event)
         /\ Head(s) \in Event /\ Len(s) = Len(Tail(s)) + 1
<1> DEFINE t == Tail(s)
           h == Head(s)
<1>1. /\ t \in Seq(Event) /\ h \in Event /\ h = s[1] /\ Len(s) = Len(t) + 1
      /\ \A i \in 1 .. Len(t) : t[i] = s[i + 1]
      /\ Len(t) \in Nat
  OBVIOUS
<1>2. DOMAIN t = 1 .. Len(t) /\ DOMAIN s = 1 .. Len(t) + 1
  BY <1>1
<1> HIDE DEF t, h
<1>3. /\ \A i \in DOMAIN t : i + 1 \in DOMAIN s /\ t[i] = s[i + 1] /\ i \in Int /\ i + 1 # 1
      /\ \A i \in DOMAIN s : i = 1 \/ (i - 1 \in DOMAIN t /\ t[i - 1] = s[i])
      /\ 1 \in DOMAIN s
  BY <1>1, <1>2
<1>4. NoRepeats(t)
  <2> SUFFICES ASSUME NEW i \in DOMAIN t, NEW j \in DOMAIN t, i # j PROVE t[i].id # t[j].id
    BY DEF NoRepeats
  <2>1. /\ i + 1 # j + 1 /\ i + 1 \in DOMAIN s /\ j + 1 \in DOMAIN s
        /\ t[i] = s[i + 1] /\ t[j] = s[j + 1]
    BY <1>3
  <2>2. s[i + 1].id # s[j + 1].id
    BY <2>1, Zenon DEF NoRepeats
  <2> QED BY <2>1, <2>2, Zenon
<1>5. Ids(s) = Ids(t) \cup {h.id}
  <2>1. Ids(s) \subseteq Ids(t) \cup {h.id}
    BY <1>1, <1>3 DEF Ids
  <2>2. Ids(t) \subseteq Ids(s)
    BY <1>3 DEF Ids
  <2>3. h.id \in Ids(s)
    BY <1>1, <1>3 DEF Ids
  <2> QED BY <2>1, <2>2, <2>3
<1>6. h.id \notin Ids(t)
  <2>1. \A i \in DOMAIN t : s[1].id # t[i].id
    BY <1>3 DEF NoRepeats
  <2> QED BY <1>1, <2>1 DEF Ids
<1> QED BY <1>1, <1>4, <1>5, <1>6 DEF t, h
-----------------------------------------------------------------------------
LEMMA RecorderSumNat ==
  PerfTypeOK /\ OrderInv =>
    /\ RecorderSum \in Nat /\ Len(pending) \in Nat /\ Cardinality(heap) \in Nat
    /\ Len(out) \in Nat /\ discarded \in Nat /\ lost_count \in Nat
BY FS_CardinalityType DEF PerfTypeOK, OrderInv, BufTypeOK, RecorderSum

LEMMA CpuTypes ==
  ASSUME PerfTypeOK, NEW c \in Cpu
  PROVE  /\ cpu_buf[c].samples \in Seq(Event) /\ cpu_buf[c].lost \in Nat
         /\ cpu_buf[c].records \in Nat /\ kernel_lost[c] \in Nat
         /\ stamped[c] = NoEvent \/ stamped[c] \in Event
         /\ Len(cpu_buf[c].samples) \in Nat /\ InKernel(c) \in Nat
         /\ cpu_buf[c] = [samples |-> cpu_buf[c].samples, lost |-> cpu_buf[c].lost,
                          records |-> cpu_buf[c].records]
<1>1. /\ cpu_buf[c] \in [samples : Seq(Event), lost : Nat, records : Nat]
      /\ kernel_lost[c] \in Nat /\ stamped[c] \in Event \cup {NoEvent}
  BY DEF PerfTypeOK
<1>2. /\ cpu_buf[c].samples \in Seq(Event) /\ cpu_buf[c].lost \in Nat
      /\ cpu_buf[c].records \in Nat
      /\ cpu_buf[c] = [samples |-> cpu_buf[c].samples, lost |-> cpu_buf[c].lost,
                       records |-> cpu_buf[c].records]
  BY <1>1
<1>3. Len(cpu_buf[c].samples) \in Nat
  BY <1>2
<1> QED BY <1>1, <1>2, <1>3 DEF InKernel

LEMMA KernelNat == PerfTypeOK => \A d \in Cpu : InKernel(d) \in Nat
BY CpuTypes

LEMMA KernelSame ==
  ASSUME \A d \in Cpu : InKernel(d)' = InKernel(d)
  PROVE  KernelSum' = KernelSum
BY DEF KernelSum, Cpu

\* A step of one CPU changes the sum as much as its own events.
LEMMA KernelChange ==
  ASSUME PerfTypeOK, PerfTypeOK', NEW c \in Cpu,
         \A d \in Cpu : d # c => InKernel(d)' = InKernel(d)
  PROVE  /\ KernelSum \in Nat /\ KernelSum' \in Nat
         /\ KernelSum' + InKernel(c) = KernelSum + InKernel(c)'
         /\ InKernel(c) \in Nat /\ InKernel(c)' \in Nat
<1> DEFINE f == [d \in 1 .. NumCpus |-> InKernel(d)]
           g == [d \in 1 .. NumCpus |-> InKernel(d)']
<1>1. \A d \in 1 .. NumCpus : InKernel(d) \in Nat /\ InKernel(d)' \in Nat
  <2>1. \A d \in Cpu : InKernel(d) \in Nat
    BY KernelNat
  <2>2. (\A d \in Cpu : InKernel(d) \in Nat)'
    BY KernelNat, PTL
  <2> QED BY <2>1, <2>2 DEF Cpu
<1>2. /\ f \in [1 .. NumCpus -> Nat] /\ g \in [1 .. NumCpus -> Nat]
      /\ \A d \in 1 .. NumCpus : d # c => g[d] = f[d]
      /\ c \in 1 .. NumCpus /\ f[c] = InKernel(c) /\ g[c] = InKernel(c)'
  BY <1>1 DEF Cpu
<1>3. KernelSum = SumTo(f, NumCpus) /\ KernelSum' = SumTo(g, NumCpus)
  BY DEF KernelSum, Cpu
<1>4. NumCpus \in Nat
  BY PerfArrayAssumption
<1> HIDE DEF f, g
<1>5. /\ SumTo(f, NumCpus) \in Nat /\ SumTo(g, NumCpus) \in Nat
      /\ SumTo(g, NumCpus) + f[c] = SumTo(f, NumCpus) + g[c]
  BY <1>2, <1>4, SumChange
<1> QED BY <1>1, <1>2, <1>3, <1>5
-----------------------------------------------------------------------------
\* A probe fires: its number is new.
LEMMA StampPerfInv ==
  ASSUME PerfInv, NEW c \in Cpu, Stamp(c)
  PROVE  PerfInv'
<1> DEFINE e == [ts |-> now, id |-> happened + 1]
<1>0. OrderInv /\ PerfTypeOK /\ ApartInside /\ ApartBetween /\ Fired /\ PerfEventsAccounted
  BY DEF PerfInv
<1>1. /\ happened \in Nat /\ happened < MaxEvents /\ happened' = happened + 1 /\ stamped[c] = NoEvent
      /\ stamped' = [stamped EXCEPT ![c] = e]
      /\ heap' = heap /\ out' = out /\ pending' = pending /\ now' = now
      /\ cpu_buf' = cpu_buf /\ kernel_lost' = kernel_lost
      /\ lost_count' = lost_count /\ discarded' = discarded
      /\ UNCHANGED bufVars
  BY <1>0 DEF Stamp, PerfTypeOK, reorderVars, bufVars, pollVars
<1>2. e \in Event /\ e.id = happened + 1 /\ e # NoEvent
  BY <1>0, <1>1, ReorderBufAssumption, PerfArrayAssumption DEF PerfTypeOK, Event
<1> HIDE DEF e
<1>3. OrderInv'
  BY <1>0, <1>1, DoneOrder
<1>4. PerfTypeOK'
  BY <1>0, <1>1, <1>2, ReorderBufAssumption DEF PerfTypeOK
<1>5. stamped'[c] = e /\ \A d \in Cpu : d # c => stamped'[d] = stamped[d]
  BY <1>0, <1>1 DEF PerfTypeOK
<1>6. /\ ProbeIds(c) = {} /\ ProbeIds(c)' = {happened + 1}
      /\ \A d \in Cpu : d # c => ProbeIds(d)' = ProbeIds(d)
      /\ \A d \in Cpu : BufferIds(d)' = BufferIds(d)
      /\ Ids(pending)' = Ids(pending) /\ Ids(out)' = Ids(out) /\ HeapIds' = HeapIds
  BY <1>1, <1>2, <1>5 DEF ProbeIds, BufferIds, HeapIds
<1>7. ApartInside'
  BY <1>0, <1>1 DEF ApartInside
<1>8. Fired'
  BY <1>0, <1>1, <1>6 DEF Fired
<1>9. ApartBetween'
  <2>1. happened + 1 \notin 1 .. happened
    BY <1>1
  <2>2. /\ \A d \in Cpu : happened + 1 \notin ProbeIds(d) /\ happened + 1 \notin BufferIds(d)
        /\ happened + 1 \notin Ids(pending) /\ happened + 1 \notin HeapIds /\ happened + 1 \notin Ids(out)
    BY <1>0, <2>1 DEF Fired
  <2> QED BY <1>0, <1>6, <2>2 DEF ApartBetween
<1>10. PerfEventsAccounted'
  <2>1. InKernel(c)' = InKernel(c) + 1
    <3> DEFINE n == Len(cpu_buf[c].samples)
               l == cpu_buf[c].lost
               k == kernel_lost[c]
    <3>1. n \in Nat /\ l \in Nat /\ k \in Nat
      BY <1>0, CpuTypes
    <3>2. InKernel(c) = k + 0 + l + n /\ InKernel(c)' = k + 1 + l + n
      BY <1>1, <1>2, <1>5 DEF InKernel
    <3> HIDE DEF n, l, k
    <3> QED BY <3>1, <3>2
  <2>2. \A d \in Cpu : d # c => InKernel(d)' = InKernel(d)
    BY <1>1, <1>5 DEF InKernel
  <2>3. /\ KernelSum \in Nat /\ KernelSum' \in Nat
        /\ KernelSum' + InKernel(c) = KernelSum + InKernel(c)'
        /\ InKernel(c) \in Nat
    BY <1>0, <1>4, <2>2, KernelChange
  <2>4. KernelSum' = KernelSum + 1
    BY <2>1, <2>3
  <2>5. RecorderSum' = RecorderSum /\ RecorderSum \in Nat
    BY <1>0, <1>1, RecorderSumNat DEF RecorderSum
  <2> QED BY <1>0, <1>1, <2>3, <2>4, <2>5 DEF PerfEventsAccounted
<1> QED BY <1>3, <1>4, <1>7, <1>8, <1>9, <1>10 DEF PerfInv

\* The event goes into the buffer, or into the count of lost ones.
LEMMA OutputPerfInv ==
  ASSUME PerfInv, NEW c \in Cpu, Output(c)
  PROVE  PerfInv'
<1> DEFINE records == cpu_buf[c].records + (IF kernel_lost[c] > 0 THEN 2 ELSE 1)
           filled  == [samples |-> Append(cpu_buf[c].samples, stamped[c]),
                       lost    |-> cpu_buf[c].lost + kernel_lost[c],
                       records |-> records]
<1>0. OrderInv /\ PerfTypeOK /\ ApartInside /\ ApartBetween /\ Fired /\ PerfEventsAccounted
  BY DEF PerfInv
<1>1. /\ stamped[c] # NoEvent /\ stamped' = [stamped EXCEPT ![c] = NoEvent]
      /\ heap' = heap /\ out' = out /\ pending' = pending /\ now' = now
      /\ lost_count' = lost_count /\ discarded' = discarded /\ happened' = happened
      /\ UNCHANGED bufVars
  BY DEF Output, reorderVars, bufVars, pollVars
<1>2. \/ /\ cpu_buf' = [cpu_buf EXCEPT ![c] = filled]
         /\ kernel_lost' = [kernel_lost EXCEPT ![c] = 0]
      \/ /\ cpu_buf' = cpu_buf
         /\ kernel_lost' = [kernel_lost EXCEPT ![c] = @ + 1]
  BY DEF Output
<1>3. /\ cpu_buf[c].samples \in Seq(Event) /\ cpu_buf[c].lost \in Nat
      /\ records \in Nat /\ kernel_lost[c] \in Nat /\ stamped[c] \in Event
      /\ Len(cpu_buf[c].samples) \in Nat
  <2>1. /\ cpu_buf[c].samples \in Seq(Event) /\ cpu_buf[c].lost \in Nat
        /\ cpu_buf[c].records \in Nat /\ kernel_lost[c] \in Nat
        /\ stamped[c] = NoEvent \/ stamped[c] \in Event
        /\ Len(cpu_buf[c].samples) \in Nat
    BY <1>0, CpuTypes
  <2>2. records \in Nat
    BY <2>1
  <2> HIDE DEF records
  <2> QED BY <1>1, <2>1, <2>2
<1>4. stamped[c].id \notin Ids(cpu_buf[c].samples) /\ NoRepeats(cpu_buf[c].samples)
  BY <1>0, <1>1 DEF ApartBetween, ApartInside, ProbeIds, BufferIds
<1>5. /\ NoRepeats(filled.samples) /\ filled.samples \in Seq(Event)
      /\ Ids(filled.samples) = Ids(cpu_buf[c].samples) \cup {stamped[c].id}
      /\ Len(filled.samples) = Len(cpu_buf[c].samples) + 1
      /\ filled.lost = cpu_buf[c].lost + kernel_lost[c]
      /\ filled.lost \in Nat
      /\ filled \in [samples : Seq(Event), lost : Nat, records : Nat]
  <2> DEFINE a == Append(cpu_buf[c].samples, stamped[c])
  <2>1. /\ NoRepeats(a) /\ a \in Seq(Event)
        /\ Ids(a) = Ids(cpu_buf[c].samples) \cup {stamped[c].id}
        /\ Len(a) = Len(cpu_buf[c].samples) + 1
    BY <1>3, <1>4, AppendIds
  <2>2. filled.samples = a /\ filled.lost = cpu_buf[c].lost + kernel_lost[c]
    OBVIOUS
  <2> HIDE DEF a, records
  <2>3. filled \in [samples : Seq(Event), lost : Nat, records : Nat]
    BY <1>3, <2>1 DEF a
  <2> HIDE DEF filled
  <2> QED BY <1>3, <2>1, <2>2, <2>3
<1> HIDE DEF filled, records
<1>6. OrderInv'
  BY <1>0, <1>1, DoneOrder
<1>7. /\ stamped'[c] = NoEvent
      /\ \A d \in Cpu : d # c => /\ stamped'[d] = stamped[d] /\ cpu_buf'[d] = cpu_buf[d]
                                  /\ kernel_lost'[d] = kernel_lost[d]
      /\ \/ cpu_buf'[c] = filled /\ kernel_lost'[c] = 0
         \/ cpu_buf'[c] = cpu_buf[c] /\ kernel_lost'[c] = kernel_lost[c] + 1
  BY <1>0, <1>1, <1>2 DEF PerfTypeOK
<1>8. PerfTypeOK'
  <2>1. stamped' \in [Cpu -> Event \cup {NoEvent}]
    BY <1>0, <1>1 DEF PerfTypeOK
  <2>2. cpu_buf' \in [Cpu -> [samples : Seq(Event), lost : Nat, records : Nat]]
    BY <1>0, <1>2, <1>5 DEF PerfTypeOK
  <2>3. kernel_lost' \in [Cpu -> Nat]
    <3>1. kernel_lost \in [Cpu -> Nat] /\ kernel_lost[c] + 1 \in Nat
      BY <1>0, <1>3 DEF PerfTypeOK
    <3> QED BY <1>2, <3>1
  <2> QED BY <1>0, <1>1, <2>1, <2>2, <2>3 DEF PerfTypeOK
<1>9. /\ ProbeIds(c) = {stamped[c].id} /\ ProbeIds(c)' = {}
      /\ BufferIds(c)' = BufferIds(c) \/ BufferIds(c)' = BufferIds(c) \cup ProbeIds(c)
      /\ \A d \in Cpu : d # c => ProbeIds(d)' = ProbeIds(d) /\ BufferIds(d)' = BufferIds(d)
      /\ Ids(pending)' = Ids(pending) /\ Ids(out)' = Ids(out) /\ HeapIds' = HeapIds
  BY <1>1, <1>5, <1>7 DEF ProbeIds, BufferIds, HeapIds
<1>10. ApartInside'
  BY <1>0, <1>1, <1>5, <1>7 DEF ApartInside
<1>11. Fired'
  BY <1>0, <1>1, <1>9 DEF Fired
<1>12. ApartBetween'
  BY <1>0, <1>9 DEF ApartBetween
<1>13. PerfEventsAccounted'
  <2>1. InKernel(c)' = InKernel(c)
    <3> DEFINE n == Len(cpu_buf[c].samples)
               l == cpu_buf[c].lost
               k == kernel_lost[c]
    <3>1. InKernel(c) = k + 1 + l + n
      BY <1>1 DEF InKernel
    <3>2. \/ InKernel(c)' = 0 + 0 + (l + k) + (n + 1)
          \/ InKernel(c)' = (k + 1) + 0 + l + n
      BY <1>5, <1>7 DEF InKernel
    <3>3. n \in Nat /\ l \in Nat /\ k \in Nat
      BY <1>3
    <3> HIDE DEF n, l, k
    <3> QED BY <3>1, <3>2, <3>3
  <2>2. \A d \in Cpu : InKernel(d)' = InKernel(d)
    BY <1>7, <2>1 DEF InKernel
  <2>3. KernelSum' = KernelSum
    BY <2>2, KernelSame
  <2>4. RecorderSum' = RecorderSum
    BY <1>1 DEF RecorderSum
  <2> QED BY <1>0, <1>1, <2>3, <2>4 DEF PerfEventsAccounted
<1> QED BY <1>6, <1>8, <1>10, <1>11, <1>12, <1>13 DEF PerfInv

\* A buffer is read: its samples go to pending, its lost events to the count.
LEMMA ReadCpuPerfInv ==
  ASSUME PerfInv, NEW c \in Cpu, ReadCpu(c)
  PROVE  PerfInv'
<1> DEFINE b == cpu_buf[c]
<1>0. OrderInv /\ PerfTypeOK /\ ApartInside /\ ApartBetween /\ Fired /\ PerfEventsAccounted
  BY DEF PerfInv
<1>1. /\ pending' = pending \o b.samples /\ lost_count' = lost_count + b.lost
      /\ cpu_buf' = [cpu_buf EXCEPT ![c] = EmptyBuffer]
      /\ heap' = heap /\ out' = out /\ stamped' = stamped /\ now' = now
      /\ kernel_lost' = kernel_lost /\ discarded' = discarded /\ happened' = happened
      /\ UNCHANGED bufVars
  BY DEF ReadCpu, reorderVars, bufVars
<1>2. /\ b.samples \in Seq(Event) /\ b.lost \in Nat /\ kernel_lost[c] \in Nat
      /\ Len(b.samples) \in Nat /\ pending \in Seq(Event) /\ lost_count \in Nat
  BY <1>0, CpuTypes DEF PerfTypeOK
<1>3. /\ EmptyBuffer \in [samples : Seq(Event), lost : Nat, records : Nat]
      /\ EmptyBuffer.lost = 0 /\ Len(EmptyBuffer.samples) = 0
      /\ NoRepeats(EmptyBuffer.samples) /\ Ids(EmptyBuffer.samples) = {}
  BY DEF EmptyBuffer, NoRepeats, Ids
<1>4. /\ cpu_buf'[c] = EmptyBuffer
      /\ \A d \in Cpu : d # c => cpu_buf'[d] = cpu_buf[d]
  BY <1>0, <1>1 DEF PerfTypeOK
<1>5. /\ NoRepeats(pending') /\ Ids(pending') = Ids(pending) \cup Ids(b.samples)
      /\ pending' \in Seq(Event) /\ Len(pending') = Len(pending) + Len(b.samples)
  <2>1. NoRepeats(pending) /\ NoRepeats(b.samples) /\ Ids(pending) \cap Ids(b.samples) = {}
    BY <1>0 DEF ApartInside, ApartBetween, BufferIds
  <2> HIDE DEF b
  <2> QED BY <1>1, <1>2, <2>1, ConcatIds
<1>6. OrderInv'
  BY <1>0, <1>1, DoneOrder
<1>7. PerfTypeOK'
  <2>1. cpu_buf' \in [Cpu -> [samples : Seq(Event), lost : Nat, records : Nat]]
    BY <1>0, <1>1, <1>3 DEF PerfTypeOK
  <2>2. lost_count' \in Nat
    BY <1>1, <1>2
  <2> QED BY <1>0, <1>1, <1>5, <2>1, <2>2 DEF PerfTypeOK
<1>8. /\ BufferIds(c)' = {} /\ Ids(pending)' = Ids(pending) \cup BufferIds(c)
      /\ \A d \in Cpu : d # c => BufferIds(d)' = BufferIds(d)
      /\ \A d \in Cpu : ProbeIds(d)' = ProbeIds(d)
      /\ Ids(out)' = Ids(out) /\ HeapIds' = HeapIds
  BY <1>1, <1>3, <1>4, <1>5 DEF ProbeIds, BufferIds, HeapIds
<1>9. ApartInside'
  BY <1>0, <1>1, <1>3, <1>4, <1>5 DEF ApartInside
<1>10. Fired'
  BY <1>0, <1>1, <1>8 DEF Fired
<1>11. ApartBetween'
  BY <1>0, <1>8 DEF ApartBetween
<1>12. PerfEventsAccounted'
  <2> DEFINE n == Len(b.samples)
             l == b.lost
             k == kernel_lost[c] + (IF stamped[c] = NoEvent THEN 0 ELSE 1)
  <2>1. InKernel(c) = k + l + n /\ InKernel(c)' = k + 0 + 0
    BY <1>1, <1>3, <1>4 DEF InKernel
  <2>2. n \in Nat /\ l \in Nat /\ k \in Nat
    BY <1>2
  <2>3. \A d \in Cpu : d # c => InKernel(d)' = InKernel(d)
    BY <1>1, <1>4 DEF InKernel
  <2>4. /\ KernelSum \in Nat /\ KernelSum' \in Nat
        /\ KernelSum' + InKernel(c) = KernelSum + InKernel(c)'
    BY <1>0, <1>7, <2>3, KernelChange
  <2>5. /\ Len(pending) \in Nat /\ Cardinality(heap) \in Nat
        /\ Len(out) \in Nat /\ discarded \in Nat /\ lost_count \in Nat
    BY <1>0, RecorderSumNat
  <2>6. Len(pending') = Len(pending) + n /\ lost_count' = lost_count + l
    BY <1>1, <1>5
  <2> HIDE DEF n, l, k
  <2>7. KernelSum = KernelSum' + l + n
    <3> DEFINE K == KernelSum
               M == KernelSum'
    <3>1. M + (k + l + n) = K + (k + 0 + 0) /\ K \in Nat /\ M \in Nat
      BY <2>1, <2>4
    <3> HIDE DEF K, M
    <3>2. K = M + l + n
      BY <2>2, <3>1
    <3> QED BY <3>2 DEF K, M
  <2>8. RecorderSum' = RecorderSum + l + n
    <3> DEFINE p == Len(pending)
               w == Cardinality(heap)
               o == Len(out)
    <3>1. RecorderSum = p + w + o + discarded + lost_count
      BY DEF RecorderSum
    <3>2. RecorderSum' = (p + n) + w + o + discarded + (lost_count + l)
      BY <1>1, <2>6, Zenon DEF RecorderSum
    <3>3. p \in Nat /\ w \in Nat /\ o \in Nat
      BY <2>5
    <3> HIDE DEF p, w, o
    <3>4. (p + n) + w + o + discarded + (lost_count + l)
            = p + w + o + discarded + lost_count + l + n
      BY <2>2, <2>5, <3>3
    <3> QED BY <3>1, <3>2, <3>4, Zenon
  <2>9. RecorderSum \in Nat
    BY <1>0, RecorderSumNat
  <2>10. happened' = KernelSum + RecorderSum
    BY <1>0, <1>1 DEF PerfEventsAccounted
  <2>11. KernelSum + RecorderSum = KernelSum' + RecorderSum'
    <3> DEFINE K == KernelSum
               M == KernelSum'
               R == RecorderSum
               Q == RecorderSum'
    <3>1. K = M + l + n /\ M \in Nat /\ Q = R + l + n /\ R \in Nat
      BY <2>4, <2>7, <2>8, <2>9
    <3> HIDE DEF K, M, R, Q
    <3>2. K + R = M + Q
      BY <2>2, <3>1
    <3> QED BY <3>2 DEF K, M, R, Q
  <2> QED BY <2>10, <2>11 DEF PerfEventsAccounted
<1> QED BY <1>6, <1>7, <1>9, <1>10, <1>11, <1>12 DEF PerfInv

\* The first pending event is pushed.
LEMMA PushPerfInv ==
  ASSUME PerfInv, PushPending
  PROVE  PerfInv'
<1> DEFINE e == Head(pending)
<1>0. OrderInv /\ PerfTypeOK /\ ApartInside /\ ApartBetween /\ Fired /\ PerfEventsAccounted
  BY DEF PerfInv
<1>1. /\ pending # << >> /\ push(e) /\ pending' = Tail(pending) /\ heap' = heap \cup {e}
      /\ out' = out /\ stamped' = stamped /\ cpu_buf' = cpu_buf /\ now' = now
      /\ kernel_lost' = kernel_lost /\ discarded' = discarded /\ happened' = happened
      /\ lost_count' = lost_count
  BY DEF PushPending, push, perfKernelVars
<1>2. pending \in Seq(Event) /\ NoRepeats(pending)
  BY <1>0 DEF PerfTypeOK, ApartInside
<1>3. /\ NoRepeats(pending') /\ Ids(pending) = Ids(pending') \cup {e.id}
      /\ e.id \notin Ids(pending') /\ pending' \in Seq(Event)
      /\ e \in Event /\ Len(pending) = Len(pending') + 1
  BY <1>1, <1>2, TailIds
<1> HIDE DEF e
<1>4. e.id \notin HeapIds
  BY <1>0, <1>3 DEF ApartBetween
<1>5. e \notin heap /\ \A f \in heap : f.id # e.id
  BY <1>4 DEF HeapIds
<1>6. /\ IsFiniteSet(heap') /\ Cardinality(heap') = Cardinality(heap) + 1
  BY <1>0, <1>1, <1>5, FS_AddElement DEF PerfTypeOK
<1>7. OrderInv'
  BY <1>0, <1>1, <1>3, PushOrder
<1>8. PerfTypeOK'
  BY <1>0, <1>1, <1>3, <1>6 DEF PerfTypeOK
<1>9. /\ HeapIds' = HeapIds \cup {e.id} /\ Ids(pending)' = Ids(pending')
      /\ \A d \in Cpu : BufferIds(d)' = BufferIds(d) /\ ProbeIds(d)' = ProbeIds(d)
      /\ Ids(out)' = Ids(out)
  <2>1. Ids(pending)' = Ids(pending') /\ Ids(out)' = Ids(out)
    BY <1>1
  <2>2. HeapIds' = HeapIds \cup {e.id}
    BY <1>1 DEF HeapIds
  <2>3. \A d \in Cpu : BufferIds(d)' = BufferIds(d) /\ ProbeIds(d)' = ProbeIds(d)
    BY <1>1 DEF BufferIds, ProbeIds
  <2> QED BY <2>1, <2>2, <2>3
<1>10. ApartInside'
  BY <1>0, <1>1, <1>3, <1>5 DEF ApartInside
<1>11. Fired'
  BY <1>0, <1>1, <1>3, <1>9 DEF Fired
<1>12. ApartBetween'
  BY <1>0, <1>3, <1>9 DEF ApartBetween
<1>13. PerfEventsAccounted'
  <2>1. KernelSum' = KernelSum
    <3>1. \A d \in Cpu : InKernel(d)' = InKernel(d)
      BY <1>1 DEF InKernel
    <3> QED BY <3>1, KernelSame
  <2>2. /\ Len(pending) \in Nat /\ Cardinality(heap) \in Nat
        /\ Len(out) \in Nat /\ discarded \in Nat /\ lost_count \in Nat
    BY <1>0, RecorderSumNat
  <2>3. Len(pending') \in Nat
    BY <1>3
  <2>4. RecorderSum' = RecorderSum
    BY <1>1, <1>3, <1>6, <2>2, <2>3 DEF RecorderSum
  <2> QED BY <1>0, <1>1, <2>1, <2>4 DEF PerfEventsAccounted
<1> QED BY <1>7, <1>8, <1>10, <1>11, <1>12, <1>13 DEF PerfInv

\* An event is popped, and written or, after a failed write, discarded.
LEMMA PopPerfInv ==
  ASSUME PerfInv, NEW e \in heap, flush_expired(e) \/ drain_pop(e), write_cb(e),
         UNCHANGED <<perfKernelVars, pollVars>>
  PROVE  PerfInv'
<1>0. OrderInv /\ PerfTypeOK /\ ApartInside /\ ApartBetween /\ Fired /\ PerfEventsAccounted
  BY DEF PerfInv
<1>1. /\ heap' = heap \ {e} /\ pending' = pending
      /\ stamped' = stamped /\ cpu_buf' = cpu_buf /\ now' = now
      /\ kernel_lost' = kernel_lost /\ happened' = happened /\ lost_count' = lost_count
  BY DEF flush_expired, drain_pop, perfKernelVars, pollVars
<1>2. \/ out' = Append(out, e) /\ discarded' = discarded
      \/ out' = out /\ discarded' = discarded + 1
  BY DEF write_cb
<1>3. e \in Event /\ out \in Seq(Event)
  BY <1>0 DEF OrderInv, BufTypeOK
<1>4. e.id \in HeapIds
  BY DEF HeapIds
<1>5. e.id \notin Ids(out) /\ NoRepeats(out)
  BY <1>0, <1>4 DEF ApartBetween, ApartInside
<1>6. /\ NoRepeats(out') /\ Ids(out') \subseteq Ids(out) \cup {e.id}
      /\ Len(out') + discarded' = Len(out) + discarded + 1
      /\ Len(out) \in Nat /\ Len(out') \in Nat /\ discarded \in Nat /\ discarded' \in Nat
  <2>1. /\ NoRepeats(Append(out, e)) /\ Ids(Append(out, e)) = Ids(out) \cup {e.id}
        /\ Len(Append(out, e)) = Len(out) + 1
    BY <1>3, <1>5, AppendIds
  <2>2. Len(out) \in Nat /\ discarded \in Nat
    BY <1>0, RecorderSumNat
  <2>3. CASE out' = Append(out, e) /\ discarded' = discarded
    BY <2>1, <2>2, <2>3
  <2>4. CASE out' = out /\ discarded' = discarded + 1
    BY <1>5, <2>2, <2>4
  <2> QED BY <1>2, <2>3, <2>4
<1>7. /\ IsFiniteSet(heap') /\ Cardinality(heap') = Cardinality(heap) - 1
      /\ Cardinality(heap) \in Nat /\ Cardinality(heap') \in Nat
  <2>1. IsFiniteSet(heap)
    BY <1>0 DEF PerfTypeOK
  <2>2. IsFiniteSet(heap') /\ Cardinality(heap') = Cardinality(heap) - 1
    BY <1>1, <2>1, FS_RemoveElement
  <2> QED BY <2>1, <2>2, FS_CardinalityType
<1>8. OrderInv'
  BY <1>0, <1>2, PopOrder
<1>9. PerfTypeOK'
  BY <1>0, <1>1, <1>6, <1>7 DEF PerfTypeOK
<1>10. /\ HeapIds' \subseteq HeapIds \ {e.id} /\ Ids(out)' \subseteq Ids(out) \cup {e.id}
       /\ \A d \in Cpu : BufferIds(d)' = BufferIds(d) /\ ProbeIds(d)' = ProbeIds(d)
       /\ Ids(pending)' = Ids(pending)
  <2>1. Ids(pending)' = Ids(pending) /\ Ids(out)' = Ids(out')
    BY <1>1
  <2>2. HeapIds' \subseteq HeapIds \ {e.id}
    BY <1>0, <1>1 DEF HeapIds, ApartInside
  <2>3. \A d \in Cpu : BufferIds(d)' = BufferIds(d) /\ ProbeIds(d)' = ProbeIds(d)
    BY <1>1 DEF BufferIds, ProbeIds
  <2> QED BY <1>6, <2>1, <2>2, <2>3
<1>11. ApartInside'
  BY <1>0, <1>1, <1>6 DEF ApartInside
<1>12. Fired'
  BY <1>0, <1>1, <1>4, <1>10 DEF Fired
<1>13. ApartBetween'
  BY <1>0, <1>4, <1>10 DEF ApartBetween
<1>14. PerfEventsAccounted'
  <2>1. KernelSum' = KernelSum
    <3>1. \A d \in Cpu : InKernel(d)' = InKernel(d)
      BY <1>1 DEF InKernel
    <3> QED BY <3>1, KernelSame
  <2>2. Len(pending) \in Nat /\ lost_count \in Nat
    BY <1>0, RecorderSumNat
  <2>3. RecorderSum' = RecorderSum
    <3> DEFINE p == Len(pending)
               h == Cardinality(heap)
               o == Len(out)
               q == Len(out')
               x == discarded
               y == discarded'
    <3>1. /\ RecorderSum = p + h + o + x + lost_count
          /\ RecorderSum' = p + (h - 1) + q + y + lost_count
          /\ q + y = o + x + 1 /\ p \in Nat /\ h \in Nat /\ o \in Nat /\ q \in Nat
          /\ x \in Nat /\ y \in Nat
      BY <1>1, <1>6, <1>7, <2>2 DEF RecorderSum
    <3> HIDE DEF p, h, o, q, x, y
    <3> QED BY <2>2, <3>1
  <2> QED BY <1>0, <1>1, <2>1, <2>3 DEF PerfEventsAccounted
<1> QED BY <1>8, <1>9, <1>11, <1>12, <1>13, <1>14 DEF PerfInv

\* The steps that move no event
LEMMA StillPerfInv ==
  ASSUME PerfInv, now' \in Ts,
         flush_done \/ drain \/ drain_done \/ UNCHANGED bufVars,
         UNCHANGED <<out, stamped, cpu_buf, kernel_lost, happened, pending, lost_count, discarded>>
  PROVE  PerfInv'
<1>0. OrderInv /\ PerfTypeOK /\ ApartInside /\ ApartBetween /\ Fired /\ PerfEventsAccounted
  BY DEF PerfInv
<1>1. heap' = heap
  BY DEF flush_done, drain, drain_done, bufVars
<1>2. OrderInv'
  BY <1>0, DoneOrder
<1>3. PerfTypeOK'
  BY <1>0, <1>1 DEF PerfTypeOK
<1>4. ApartInside'
  BY <1>0, <1>1 DEF ApartInside
<1>5. /\ HeapIds' = HeapIds /\ Ids(out)' = Ids(out) /\ Ids(pending)' = Ids(pending)
      /\ \A d \in Cpu : BufferIds(d)' = BufferIds(d) /\ ProbeIds(d)' = ProbeIds(d)
      /\ \A d \in Cpu : InKernel(d)' = InKernel(d)
  BY <1>1 DEF HeapIds, BufferIds, ProbeIds, InKernel
<1>6. ApartBetween' /\ Fired'
  BY <1>0, <1>5 DEF ApartBetween, Fired
<1>7. KernelSum' = KernelSum /\ RecorderSum' = RecorderSum
  BY <1>1, <1>5, KernelSame DEF RecorderSum
<1>8. PerfEventsAccounted'
  BY <1>0, <1>7 DEF PerfEventsAccounted
<1> QED BY <1>2, <1>3, <1>4, <1>6, <1>8 DEF PerfInv

LEMMA InitPerfInv == PerfInit => PerfInv
<1> SUFFICES ASSUME PerfInit PROVE PerfInv
  OBVIOUS
<1>1. OrderInv
  BY InitOrder DEF PerfInit
<1>2. /\ heap = {} /\ out = << >> /\ pending = << >> /\ happened = 0
      /\ \A c \in Cpu : /\ stamped[c] = NoEvent /\ cpu_buf[c].samples = << >>
                        /\ cpu_buf[c].lost = 0 /\ kernel_lost[c] = 0
  BY DEF PerfInit, ReorderInit, EmptyBuffer
<1>3. PerfTypeOK
  <2>1. EmptyBuffer \in [samples : Seq(Event), lost : Nat, records : Nat]
    BY DEF EmptyBuffer
  <2>2. IsFiniteSet(heap)
    BY <1>2, FS_EmptySet
  <2> QED BY <2>1, <2>2, ReorderBufAssumption DEF PerfInit, PerfTypeOK, Ts
<1>4. /\ HeapIds = {} /\ Ids(out) = {} /\ Ids(pending) = {}
      /\ \A c \in Cpu : ProbeIds(c) = {} /\ BufferIds(c) = {}
  BY <1>2 DEF HeapIds, Ids, ProbeIds, BufferIds
<1>5. ApartInside
  BY <1>2 DEF ApartInside, NoRepeats
<1>6. ApartBetween /\ Fired
  BY <1>4 DEF ApartBetween, Fired
<1>7. PerfEventsAccounted
  <2> DEFINE f == [c \in 1 .. NumCpus |-> InKernel(c)]
  <2>1. \A c \in Cpu : InKernel(c) = 0
    <3>1. \A c \in Cpu : Len(cpu_buf[c].samples) = 0
      BY <1>2
    <3> QED BY <1>2, <3>1 DEF InKernel
  <2>2. f \in [1 .. NumCpus -> Nat] /\ \A c \in 1 .. NumCpus : f[c] = 0
    BY <2>1 DEF Cpu
  <2>3. KernelSum = SumTo(f, NumCpus)
    BY DEF KernelSum, Cpu
  <2> HIDE DEF f
  <2>4. KernelSum = 0
    BY <2>2, <2>3, SumZero, PerfArrayAssumption
  <2>5. Len(pending) = 0 /\ Len(out) = 0 /\ Cardinality(heap) = 0
    BY <1>2, FS_EmptySet
  <2>6. RecorderSum = 0
    BY <2>5 DEF RecorderSum, PerfInit
  <2> QED BY <1>2, <2>4, <2>6 DEF PerfEventsAccounted
<1> QED BY <1>1, <1>3, <1>5, <1>6, <1>7 DEF PerfInv

LEMMA NextPerfInv == PerfInv /\ [PerfNext]_perfVars => PerfInv'
<1> SUFFICES ASSUME PerfInv, [PerfNext]_perfVars PROVE PerfInv'
  OBVIOUS
<1>0. now \in Ts
  BY DEF PerfInv, PerfTypeOK
<1>1. CASE Tick
  <2>1. now' \in Ts
    BY <1>0, <1>1, ReorderBufAssumption DEF Tick, Ts
  <2> QED BY <1>1, <2>1, StillPerfInv DEF Tick, reorderVars, pollVars
<1>2. ASSUME NEW c \in Cpu, Stamp(c) \/ Output(c) \/ ReadCpu(c)
      PROVE  PerfInv'
  BY <1>2, StampPerfInv, OutputPerfInv, ReadCpuPerfInv
<1>3. CASE Stop \/ PerfCheckStop \/ PerfPoll \/ PollReturns \/ LoopTurn \/ PerfFinish \/ UNCHANGED perfVars
  BY <1>0, <1>3, StillPerfInv
     DEF Stop, PerfCheckStop, PerfPoll, PollReturns, LoopTurn, PerfFinish, perfVars, reorderVars,
         perfKernelVars, pollVars
<1>4. CASE PushPending
  BY <1>4, PushPerfInv
<1>5. CASE Reorder
  <2>1. ASSUME NEW e \in heap, flush_expired(e) \/ drain_pop(e), write_cb(e)
        PROVE  PerfInv'
    BY <1>5, <2>1, PopPerfInv DEF Reorder
  <2>2. CASE (flush_done \/ drain_done) /\ UNCHANGED <<out, perf_write_err, discarded>>
    BY <1>0, <1>5, <2>2, StillPerfInv DEF Reorder, perfKernelVars, pollVars
  <2> QED BY <1>5, <2>1, <2>2 DEF Reorder
<1>6. CASE FinalDrain
  BY <1>0, <1>6, StillPerfInv DEF FinalDrain, perfKernelVars
<1> QED BY <1>1, <1>2, <1>3, <1>4, <1>5, <1>6 DEF PerfNext

\* The inductive invariant of the perf-buffer transport
THEOREM PerfInvariant == PerfSpec => []PerfInv
BY InitPerfInv, NextPerfInv, PTL DEF PerfSpec

\* Every event that fires is in exactly one place - a probe, a buffer or a count
\* of lost events of its CPU, pending, the heap, the file, or counted as lost or
\* discarded - for every number of CPUs, events and records a buffer holds.
THEOREM PerfEventsAccountedHolds == PerfSpec => []PerfEventsAccounted
<1>1. PerfInv => PerfEventsAccounted
  BY DEF PerfInv
<1> QED BY <1>1, PerfInvariant, PTL

\* Also behind the perf buffers, and whatever writes fail, the file is in
\* timestamp order unless an event is pushed too late for the window.
THEOREM PerfOutputSorted == PerfSpec => []InWindowMeansSorted
<1>1. PerfInv => InWindowMeansSorted
  BY DEF PerfInv, OrderInv, InWindowMeansSorted
<1> QED BY <1>1, PerfInvariant, PTL

\* ... and holds no event twice, nor one that is still held back.
THEOREM PerfOutputApart == PerfSpec => []HeldOrHandedOn
<1>1. ASSUME PerfInv PROVE HeldOrHandedOn
  <2>1. HeapIds \cap Ids(out) = {} /\ NoRepeats(out)
    BY <1>1 DEF PerfInv, ApartBetween, ApartInside
  <2> QED BY <2>1 DEF HeldOrHandedOn, HeapIds, Ids, NoRepeats
<1> QED BY <1>1, PerfInvariant, PTL
=============================================================================
