--------------------------- MODULE RecorderProofs ---------------------------
(***************************************************************************)
(* Recorder for every number of contexts, every ring and every number of   *)
(* events.                                                                 *)
(***************************************************************************)
EXTENDS Recorder, TLAPS

Record == [by : Context, ts : Nat \cup {None}, busy : BOOLEAN]

RecorderTypeOK ==
  /\ clock \in Nat
  /\ ring \in Seq(Record)
  /\ probe \in [Context -> {"idle", "reserved", "stamped"}]
  /\ drop_counter \in Nat
  /\ fired \in Nat
  /\ pc \in {"check", "consume", "sleep", "final", "finish", "done", "failed"}
  /\ written \in Seq(Record)
  /\ footer \in {None} \cup [events : Nat, drops : Nat]

\* The probe of a context holds exactly one record while it runs, and none when
\* it is idle; that record is the newest of its context, and only it may be
\* without a timestamp.
ProbeHoldsOne ==
  /\ \A c \in Context : probe[c] # "idle" =>
       \E i \in DOMAIN ring : ring[i].by = c /\ ring[i].busy
  /\ \A i \in DOMAIN ring : ring[i].busy => probe[ring[i].by] # "idle"
  /\ \A i \in DOMAIN ring :
       ring[i].ts = None => ring[i].busy /\ probe[ring[i].by] = "reserved"
  /\ \A i \in DOMAIN ring :
       ring[i].busy /\ probe[ring[i].by] = "reserved" => ring[i].ts = None
  /\ \A i, j \in DOMAIN ring :
       i < j /\ ring[i].by = ring[j].by => ~ring[i].busy

\* No record is from the future.
StampedInThePast ==
  /\ \A i \in DOMAIN ring : ring[i].ts # None => ring[i].ts <= clock
  /\ \A i \in DOMAIN written : written[i].ts <= clock

\* The stamped records of a context are in order, in the ring, in the file, and
\* across the two.
StampsInOrder ==
  /\ \A i, j \in DOMAIN ring :
       i < j /\ ring[i].by = ring[j].by /\ ring[j].ts # None
         => ring[i].ts < ring[j].ts
  /\ \A i \in DOMAIN written, j \in DOMAIN ring :
       written[i].by = ring[j].by /\ ring[j].ts # None
         => written[i].ts < ring[j].ts
  /\ \A i, j \in DOMAIN written :
       i < j /\ written[i].by = written[j].by => written[i].ts < written[j].ts

WrittenIsComplete ==
  \A i \in DOMAIN written : written[i].ts # None /\ ~written[i].busy

OrderInv ==
  ProbeHoldsOne /\ StampedInThePast /\ StampsInOrder /\ WrittenIsComplete

\* What a footer says, but for the events it does not count
FooterInv ==
  /\ (footer # None) <=> (pc = "done")
  /\ write_err => pc \in {"consume", "final", "failed"}
  /\ footer # None => /\ footer.events = Len(written)
                      /\ footer.drops <= drop_counter

RecorderInv ==
  RecorderTypeOK /\ OrderInv /\ EveryEventAccounted /\ FooterInv
-----------------------------------------------------------------------------
\* The fields of a record
LEMMA RecordFields ==
  \A r \in Record : /\ r.by \in Context /\ r.ts \in Nat \cup {None}
                    /\ r.busy \in BOOLEAN
BY DEF Record

\* The elements of a ring without its first record, which a probe that holds a
\* record in it still holds
LEMMA TailElements ==
  ASSUME NEW S, NEW s \in Seq(S), s # << >>
  PROVE  /\ Tail(s) \in Seq(S) /\ Head(s) = s[1] /\ s[1] \in S
         /\ Len(s) \in Nat /\ Len(s) >= 1 /\ Len(Tail(s)) = Len(s) - 1
         /\ DOMAIN s = 1 .. Len(s) /\ DOMAIN Tail(s) = 1 .. (Len(s) - 1)
         /\ \A i \in DOMAIN Tail(s) : i + 1 \in DOMAIN s /\ Tail(s)[i] = s[i + 1]
OBVIOUS

LEMMA AppendElements ==
  ASSUME NEW S, NEW s \in Seq(S), NEW x \in S
  PROVE  /\ Append(s, x) \in Seq(S)
         /\ DOMAIN Append(s, x) = DOMAIN s \cup {Len(s) + 1}
         /\ Append(s, x)[Len(s) + 1] = x
         /\ Len(Append(s, x)) = Len(s) + 1
         /\ \A i \in DOMAIN s : i <= Len(s) /\ Append(s, x)[i] = s[i]
         /\ DOMAIN s \subseteq Nat /\ Len(s) \in Nat
OBVIOUS

\* A probe that runs finds its record: the last of its context in the ring.
LEMMA MineIsLast ==
  ASSUME RecorderTypeOK, ProbeHoldsOne, NEW c \in Context, probe[c] # "idle"
  PROVE  /\ Mine(c) \in DOMAIN ring
         /\ ring[Mine(c)].by = c /\ ring[Mine(c)].busy
         /\ \A i \in DOMAIN ring :
              ring[i].by = c /\ i # Mine(c) => i < Mine(c) /\ ~ring[i].busy
<1>1. \E i \in DOMAIN ring : ring[i].by = c /\ ring[i].busy
  BY DEF ProbeHoldsOne
<1>2. /\ Mine(c) \in DOMAIN ring
      /\ ring[Mine(c)].by = c /\ ring[Mine(c)].busy
  BY <1>1, Zenon DEF Mine
<1>3. ASSUME NEW i \in DOMAIN ring, ring[i].by = c, i # Mine(c)
      PROVE  i < Mine(c) /\ ~ring[i].busy
  <2>1. i \in Nat /\ Mine(c) \in Nat
    BY <1>2 DEF RecorderTypeOK
  <2>2. i < Mine(c) \/ Mine(c) < i
    BY <1>3, <2>1
  <2>3. ~(Mine(c) < i)
    BY <1>2, <1>3, Zenon DEF ProbeHoldsOne
  <2>4. i < Mine(c)
    BY <2>2, <2>3
  <2> QED BY <1>2, <1>3, <2>4, Zenon DEF ProbeHoldsOne
<1> QED BY <1>2, <1>3

\* Ring r is ring s, but for a field of its record k that is not its context.
SameButFor(s, r, k) ==
  /\ r \in Seq(Record) /\ Len(r) = Len(s) /\ DOMAIN r = DOMAIN s
  /\ r[k].by = s[k].by
  /\ \A i \in DOMAIN s : i # k => r[i] = s[i]

\* Stamping a record leaves the rest of the ring alone.
LEMMA StampElements ==
  ASSUME NEW s \in Seq(Record), NEW k \in DOMAIN s, NEW v \in Nat
  PROVE  LET r == [s EXCEPT ![k].ts = v]
         IN  SameButFor(s, r, k) /\ r[k].ts = v /\ r[k].busy = s[k].busy
<1>1. s[k] \in Record
  OBVIOUS
<1>2. [s[k] EXCEPT !.ts = v] \in Record
  BY <1>1 DEF Record
<1> QED BY <1>1, <1>2 DEF Record, SameButFor

\* So does submitting one.
LEMMA SubmitElements ==
  ASSUME NEW s \in Seq(Record), NEW k \in DOMAIN s
  PROVE  LET r == [s EXCEPT ![k].busy = FALSE]
         IN  SameButFor(s, r, k) /\ r[k].busy = FALSE /\ r[k].ts = s[k].ts
<1>1. s[k] \in Record
  OBVIOUS
<1>2. [s[k] EXCEPT !.busy = FALSE] \in Record
  BY <1>1 DEF Record
<1> QED BY <1>1, <1>2 DEF Record, SameButFor
-----------------------------------------------------------------------------
LEMMA LengthsAreNumbers ==
  RecorderTypeOK => Len(ring) \in Nat /\ Len(written) \in Nat
BY DEF RecorderTypeOK

LEMMA FooterFields ==
  RecorderTypeOK /\ footer # None => footer.events \in Nat /\ footer.drops \in Nat
BY DEF RecorderTypeOK

\* The events a footer does not count are the ones the ring still holds and the
\* drops that came after drop_counter was read.
LEMMA FooterCounts == RecorderInv => FooterIsTrue
<1> SUFFICES ASSUME RecorderInv PROVE FooterIsTrue
  OBVIOUS
<1>1. RecorderTypeOK /\ EveryEventAccounted /\ FooterInv
  BY DEF RecorderInv
<1>2. ASSUME footer # None
      PROVE  fired - footer.events - footer.drops
               = Len(ring) + (drop_counter - footer.drops)
  <2>1. ~write_err
    BY <1>1, <1>2 DEF FooterInv
  <2>2. fired = drop_counter + Len(ring) + Len(written)
    BY <1>1, <2>1, LengthsAreNumbers DEF EveryEventAccounted, RecorderTypeOK
  <2> QED BY <1>1, <1>2, <2>2, LengthsAreNumbers, FooterFields
          DEF FooterInv, RecorderTypeOK
<1> QED BY <1>1, <1>2 DEF FooterIsTrue, FooterInv

\* A recording starts in the invariant.
LEMMA InitRecorderInv == Init => RecorderInv
<1> SUFFICES ASSUME Init PROVE RecorderInv
  OBVIOUS
<1>1. /\ clock = 0 /\ ring = << >> /\ written = << >> /\ footer = None
      /\ drop_counter = 0 /\ fired = 0 /\ pc = "check" /\ ~write_err
      /\ probe = [c \in Context |-> "idle"]
  BY Zenon DEF Init
<1>2. RecorderTypeOK
  BY <1>1 DEF RecorderTypeOK
<1>3. DOMAIN ring = {} /\ DOMAIN written = {} /\ Len(ring) = 0 /\ Len(written) = 0
  BY <1>1
<1>4. OrderInv
  BY <1>1, <1>3 DEF OrderInv, ProbeHoldsOne, StampedInThePast, StampsInOrder,
                    WrittenIsComplete
<1>5. EveryEventAccounted /\ FooterInv
  BY <1>1, <1>3 DEF EveryEventAccounted, FooterInv
<1> QED BY <1>2, <1>4, <1>5 DEF RecorderInv

\* A probe reserves a record at the end of the ring, or counts a drop.
LEMMA ReserveRecorderInv ==
  ASSUME RecorderInv, NEW c \in Context, reserve_buf(c)
  PROVE  RecorderInv'
<1> DEFINE r == [by |-> c, ts |-> None, busy |-> TRUE]
<1>0. /\ RecorderTypeOK /\ OrderInv /\ EveryEventAccounted /\ FooterInv
      /\ probe[c] = "idle" /\ fired' = fired + 1
      /\ UNCHANGED <<clock, pc, written, write_err, footer>>
  BY DEF RecorderInv, reserve_buf, userVars
<1>1. CASE Len(ring) < RingCap
  <2>1. /\ ring' = Append(ring, r)
        /\ probe' = [probe EXCEPT ![c] = "reserved"]
        /\ drop_counter' = drop_counter
    BY <1>1 DEF reserve_buf
  <2>2. r \in Record /\ ring \in Seq(Record) /\ written \in Seq(Record)
    BY <1>0 DEF RecorderTypeOK, Record
  <2>3. /\ ring' \in Seq(Record) /\ DOMAIN ring' = DOMAIN ring \cup {Len(ring) + 1}
        /\ ring'[Len(ring) + 1] = r /\ Len(ring') = Len(ring) + 1
        /\ \A i \in DOMAIN ring : i <= Len(ring) /\ ring'[i] = ring[i]
        /\ DOMAIN ring \subseteq Nat /\ Len(ring) \in Nat
    BY <2>1, <2>2, AppendElements
  <2>4. RecorderTypeOK'
    BY <1>0, <2>1, <2>3 DEF RecorderTypeOK
  <2>5. r.by = c /\ r.ts = None /\ r.busy
    OBVIOUS
  <2>6. /\ \A d \in Context : d # c => probe'[d] = probe[d]
        /\ probe'[c] = "reserved"
    BY <1>0, <2>1 DEF RecorderTypeOK
  <2>7. \A i \in DOMAIN ring : ring[i] \in Record /\ ring[i].by \in Context
    BY <2>2, RecordFields
  <2>8. ProbeHoldsOne'
    <3> USE <1>0, <2>3, <2>5, <2>6, <2>7 DEF OrderInv, ProbeHoldsOne
    <3>0. \A i \in DOMAIN ring : ring[i].by = c => ~ring[i].busy
      OBVIOUS
    <3>1. \A d \in Context : probe'[d] # "idle" =>
            \E i \in DOMAIN ring' : ring'[i].by = d /\ ring'[i].busy
      OBVIOUS
    <3>2. \A i \in DOMAIN ring' : ring'[i].busy => probe'[ring'[i].by] # "idle"
      OBVIOUS
    <3>3. \A i \in DOMAIN ring' :
            ring'[i].ts = None => ring'[i].busy /\ probe'[ring'[i].by] = "reserved"
      OBVIOUS
    <3>4. \A i \in DOMAIN ring' :
            ring'[i].busy /\ probe'[ring'[i].by] = "reserved" => ring'[i].ts = None
      BY <3>0
    <3>5. \A i, j \in DOMAIN ring' :
            i < j /\ ring'[i].by = ring'[j].by => ~ring'[i].busy
      BY <3>0
    <3> QED BY <3>1, <3>2, <3>3, <3>4, <3>5
  <2>9. StampedInThePast' /\ StampsInOrder' /\ WrittenIsComplete'
    BY <1>0, <2>3, <2>5
       DEF OrderInv, StampedInThePast, StampsInOrder, WrittenIsComplete
  <2>10. EveryEventAccounted'
    BY <1>0, <2>1, <2>3, LengthsAreNumbers DEF EveryEventAccounted, RecorderTypeOK
  <2>11. FooterInv'
    BY <1>0, <2>1 DEF FooterInv
  <2> QED BY <2>4, <2>8, <2>9, <2>10, <2>11 DEF RecorderInv, OrderInv
<1>2. CASE ~(Len(ring) < RingCap)
  <2>1. drop_counter' = drop_counter + 1 /\ UNCHANGED <<ring, probe>>
    BY <1>2 DEF reserve_buf
  <2>2. RecorderTypeOK'
    BY <1>0, <2>1 DEF RecorderTypeOK
  <2>3. OrderInv'
    BY <1>0, <2>1 DEF OrderInv, ProbeHoldsOne, StampedInThePast, StampsInOrder,
                      WrittenIsComplete
  <2>4. EveryEventAccounted'
    BY <1>0, <2>1, LengthsAreNumbers DEF EveryEventAccounted, RecorderTypeOK
  <2>5. FooterInv'
    BY <1>0, <2>1, FooterFields DEF FooterInv, RecorderTypeOK
  <2> QED BY <2>2, <2>3, <2>4, <2>5 DEF RecorderInv
<1> QED BY <1>1, <1>2

\* A probe stamps its record with a time later than any before it.
LEMMA FillRecorderInv ==
  ASSUME RecorderInv, NEW c \in Context, fill_timestamp_and_cpu(c)
  PROVE  RecorderInv'
<1> DEFINE k == Mine(c)
<1>0. /\ RecorderTypeOK /\ OrderInv /\ EveryEventAccounted /\ FooterInv
      /\ probe[c] = "reserved" /\ clock' = clock + 1
      /\ ring' = [ring EXCEPT ![k].ts = clock + 1]
      /\ probe' = [probe EXCEPT ![c] = "stamped"]
      /\ UNCHANGED <<drop_counter, fired, pc, written, write_err, footer>>
  BY DEF RecorderInv, fill_timestamp_and_cpu, userVars
<1>1. ProbeHoldsOne /\ StampedInThePast /\ StampsInOrder /\ WrittenIsComplete
  BY <1>0 DEF OrderInv
<1>2. /\ k \in DOMAIN ring /\ ring[k].by = c /\ ring[k].busy
      /\ \A i \in DOMAIN ring : ring[i].by = c /\ i # k => i < k /\ ~ring[i].busy
  BY <1>0, <1>1, MineIsLast
<1>3. SameButFor(ring, ring', k) /\ ring'[k].ts = clock' /\ ring'[k].busy
  <2>1. ring \in Seq(Record) /\ clock + 1 \in Nat
    BY <1>0 DEF RecorderTypeOK
  <2> HIDE DEF k
  <2> QED BY <1>0, <1>2, <2>1, StampElements, Zenon
<1>4. /\ ring' \in Seq(Record) /\ Len(ring') = Len(ring) /\ DOMAIN ring' = DOMAIN ring
      /\ ring'[k].by = c /\ \A i \in DOMAIN ring : i # k => ring'[i] = ring[i]
  BY <1>2, <1>3 DEF SameButFor
<1>5. RecorderTypeOK'
  BY <1>0, <1>4 DEF RecorderTypeOK
<1>6. /\ \A d \in Context : d # c => probe'[d] = probe[d]
      /\ probe'[c] = "stamped"
  BY <1>0 DEF RecorderTypeOK
<1>7. /\ clock \in Nat /\ DOMAIN ring \subseteq Nat /\ clock' # None
      /\ \A i \in DOMAIN ring : ring[i].by \in Context /\ ring[i].ts \in Nat \cup {None}
      /\ \A i \in DOMAIN written : written[i].ts \in Nat \cup {None}
  BY <1>0, RecordFields, RecorderAssumption DEF RecorderTypeOK
<1>8. ProbeHoldsOne'
  <2> USE <1>1, <1>2, <1>3, <1>4, <1>6, <1>7 DEF ProbeHoldsOne
  <2>1. \A d \in Context : probe'[d] # "idle" =>
          \E i \in DOMAIN ring' : ring'[i].by = d /\ ring'[i].busy
    OBVIOUS
  <2>2. \A i \in DOMAIN ring' : ring'[i].busy => probe'[ring'[i].by] # "idle"
    OBVIOUS
  <2>3. \A i \in DOMAIN ring' :
          ring'[i].ts = None => ring'[i].busy /\ probe'[ring'[i].by] = "reserved"
    OBVIOUS
  <2>4. \A i \in DOMAIN ring' :
          ring'[i].busy /\ probe'[ring'[i].by] = "reserved" => ring'[i].ts = None
    OBVIOUS
  <2>5. \A i, j \in DOMAIN ring' :
          i < j /\ ring'[i].by = ring'[j].by => ~ring'[i].busy
    OBVIOUS
  <2> QED BY <2>1, <2>2, <2>3, <2>4, <2>5
<1>9. StampedInThePast'
  BY <1>0, <1>1, <1>3, <1>4, <1>7 DEF StampedInThePast, WrittenIsComplete
<1>10. StampsInOrder'
  <2> USE <1>0, <1>1, <1>2, <1>3, <1>4, <1>7
  <2>1. \A i, j \in DOMAIN ring' :
          i < j /\ ring'[i].by = ring'[j].by /\ ring'[j].ts # None
            => ring'[i].ts < ring'[j].ts
    <3> SUFFICES ASSUME NEW i \in DOMAIN ring, NEW j \in DOMAIN ring, i < j,
                        ring'[i].by = ring'[j].by, ring'[j].ts # None
                 PROVE  ring'[i].ts < ring'[j].ts
      OBVIOUS
    <3>1. i # k
      OBVIOUS
    <3>2. CASE j = k
      <4>1. ring[i].ts # None
        BY <3>1, <3>2 DEF ProbeHoldsOne
      <4> QED BY <3>1, <3>2, <4>1 DEF StampedInThePast
    <3>3. CASE j # k
      BY <3>1, <3>3 DEF StampsInOrder
    <3> QED BY <3>2, <3>3
  <2>2. \A i \in DOMAIN written, j \in DOMAIN ring' :
          written[i].by = ring'[j].by /\ ring'[j].ts # None
            => written[i].ts < ring'[j].ts
    BY DEF StampsInOrder, StampedInThePast, WrittenIsComplete
  <2> QED BY <2>1, <2>2 DEF StampsInOrder
<1>11. WrittenIsComplete' /\ EveryEventAccounted' /\ FooterInv'
  BY <1>0, <1>1, <1>4 DEF WrittenIsComplete, EveryEventAccounted, FooterInv
<1> QED BY <1>5, <1>8, <1>9, <1>10, <1>11 DEF RecorderInv, OrderInv

\* A probe submits the record it stamped.
LEMMA SubmitRecorderInv ==
  ASSUME RecorderInv, NEW c \in Context, submit_buf(c)
  PROVE  RecorderInv'
<1> DEFINE k == Mine(c)
<1>0. /\ RecorderTypeOK /\ OrderInv /\ EveryEventAccounted /\ FooterInv
      /\ probe[c] = "stamped"
      /\ ring' = [ring EXCEPT ![k].busy = FALSE]
      /\ probe' = [probe EXCEPT ![c] = "idle"]
      /\ UNCHANGED <<clock, drop_counter, fired, pc, written, write_err, footer>>
  BY DEF RecorderInv, submit_buf, userVars
<1>1. ProbeHoldsOne /\ StampedInThePast /\ StampsInOrder /\ WrittenIsComplete
  BY <1>0 DEF OrderInv
<1>2. /\ k \in DOMAIN ring /\ ring[k].by = c /\ ring[k].busy
      /\ \A i \in DOMAIN ring : ring[i].by = c /\ i # k => i < k /\ ~ring[i].busy
  BY <1>0, <1>1, MineIsLast
<1>3. SameButFor(ring, ring', k) /\ ring'[k].ts = ring[k].ts /\ ~ring'[k].busy
  BY <1>0, <1>2, SubmitElements DEF RecorderTypeOK
<1>4. /\ ring' \in Seq(Record) /\ Len(ring') = Len(ring) /\ DOMAIN ring' = DOMAIN ring
      /\ ring'[k].by = c /\ \A i \in DOMAIN ring : i # k => ring'[i] = ring[i]
  BY <1>2, <1>3 DEF SameButFor
<1>5. RecorderTypeOK'
  BY <1>0, <1>4 DEF RecorderTypeOK
<1>6. /\ \A d \in Context : d # c => probe'[d] = probe[d]
      /\ probe'[c] = "idle"
  BY <1>0 DEF RecorderTypeOK
<1>7. /\ DOMAIN ring \subseteq Nat
      /\ \A i \in DOMAIN ring : ring[i].by \in Context
  BY <1>0, RecordFields DEF RecorderTypeOK
<1>8. ProbeHoldsOne'
  <2> USE <1>0, <1>1, <1>2, <1>3, <1>4, <1>6, <1>7 DEF ProbeHoldsOne
  <2>1. \A d \in Context : probe'[d] # "idle" =>
          \E i \in DOMAIN ring' : ring'[i].by = d /\ ring'[i].busy
    OBVIOUS
  <2>2. \A i \in DOMAIN ring' : ring'[i].busy => probe'[ring'[i].by] # "idle"
    OBVIOUS
  <2>3. \A i \in DOMAIN ring' :
          ring'[i].ts = None => ring'[i].busy /\ probe'[ring'[i].by] = "reserved"
    OBVIOUS
  <2>4. \A i \in DOMAIN ring' :
          ring'[i].busy /\ probe'[ring'[i].by] = "reserved" => ring'[i].ts = None
    OBVIOUS
  <2>5. \A i, j \in DOMAIN ring' :
          i < j /\ ring'[i].by = ring'[j].by => ~ring'[i].busy
    OBVIOUS
  <2> QED BY <2>1, <2>2, <2>3, <2>4, <2>5
<1>9. \A i \in DOMAIN ring : ring'[i].ts = ring[i].ts /\ ring'[i].by = ring[i].by
  BY <1>2, <1>3, <1>4
<1>10. StampedInThePast' /\ StampsInOrder'
  BY <1>0, <1>1, <1>4, <1>9 DEF StampedInThePast, StampsInOrder
<1>11. WrittenIsComplete' /\ EveryEventAccounted' /\ FooterInv'
  BY <1>0, <1>1, <1>4 DEF WrittenIsComplete, EveryEventAccounted, FooterInv
<1> QED BY <1>5, <1>8, <1>10, <1>11 DEF RecorderInv, OrderInv

\* The consumer takes the first record, which its probe has submitted: what is
\* left of the ring still has the record of every probe that runs.
LEMMA TailOrder ==
  ASSUME RecorderTypeOK, ProbeHoldsOne, StampedInThePast, StampsInOrder, Ready,
         ring' = Tail(ring), UNCHANGED <<clock, probe>>
  PROVE  /\ ProbeHoldsOne'
         /\ ring' \in Seq(Record) /\ Len(ring') = Len(ring) - 1
         /\ DOMAIN ring' \subseteq Nat
         /\ Head(ring) = ring[1] /\ Head(ring) \in Record /\ 1 \in DOMAIN ring
         /\ Head(ring).ts \in Nat /\ ~Head(ring).busy
         /\ \A i \in DOMAIN ring' : i + 1 \in DOMAIN ring /\ ring'[i] = ring[i + 1]
<1>1. ring \in Seq(Record) /\ ring # << >> /\ ~Head(ring).busy
  BY DEF RecorderTypeOK, Ready
<1>2. /\ ring' \in Seq(Record) /\ Head(ring) = ring[1] /\ ring[1] \in Record
      /\ Len(ring) \in Nat /\ Len(ring) >= 1 /\ Len(ring') = Len(ring) - 1
      /\ DOMAIN ring = 1 .. Len(ring) /\ DOMAIN ring' = 1 .. (Len(ring) - 1)
      /\ \A i \in DOMAIN ring' : i + 1 \in DOMAIN ring /\ ring'[i] = ring[i + 1]
  BY <1>1, TailElements
<1>3. 1 \in DOMAIN ring /\ ~ring[1].busy
  BY <1>1, <1>2
<1>4. ring[1].ts \in Nat
  BY <1>2, <1>3, RecordFields DEF ProbeHoldsOne
<1>5. ProbeHoldsOne'
  <2> USE <1>2 DEF ProbeHoldsOne
  <2>1. ASSUME NEW c \in Context, probe'[c] # "idle"
        PROVE  \E i \in DOMAIN ring' : ring'[i].by = c /\ ring'[i].busy
    <3>1. PICK i \in DOMAIN ring : ring[i].by = c /\ ring[i].busy
      BY <2>1
    <3>2. i # 1
      BY <1>3, <3>1
    <3>3. i - 1 \in DOMAIN ring' /\ ring'[i - 1] = ring[i]
      BY <3>1, <3>2
    <3> QED BY <3>1, <3>3
  <2>2. \A i \in DOMAIN ring' : ring'[i].busy => probe'[ring'[i].by] # "idle"
    OBVIOUS
  <2>3. \A i \in DOMAIN ring' :
          ring'[i].ts = None => ring'[i].busy /\ probe'[ring'[i].by] = "reserved"
    OBVIOUS
  <2>4. \A i \in DOMAIN ring' :
          ring'[i].busy /\ probe'[ring'[i].by] = "reserved" => ring'[i].ts = None
    OBVIOUS
  <2>5. \A i, j \in DOMAIN ring' :
          i < j /\ ring'[i].by = ring'[j].by => ~ring'[i].busy
    OBVIOUS
  <2> QED BY <2>1, <2>2, <2>3, <2>4, <2>5
<1> QED BY <1>1, <1>2, <1>3, <1>4, <1>5

\* The callback writes the first record.
LEMMA ConsumeRecorderInv ==
  ASSUME RecorderInv, ConsumeRecord
  PROVE  RecorderInv'
<1> DEFINE h == Head(ring)
<1>0. /\ RecorderTypeOK /\ OrderInv /\ EveryEventAccounted /\ FooterInv
      /\ pc \in {"consume", "final"} /\ ~write_err /\ Ready
      /\ written' = Append(written, h) /\ ring' = Tail(ring)
      /\ UNCHANGED <<clock, probe, drop_counter, fired, pc, write_err, footer>>
  BY DEF RecorderInv, ConsumeRecord
<1>1. ProbeHoldsOne /\ StampedInThePast /\ StampsInOrder /\ WrittenIsComplete
  BY <1>0 DEF OrderInv
<1>2. /\ ProbeHoldsOne'
      /\ ring' \in Seq(Record) /\ Len(ring') = Len(ring) - 1
      /\ DOMAIN ring' \subseteq Nat
      /\ h = ring[1] /\ h \in Record /\ 1 \in DOMAIN ring
      /\ h.ts \in Nat /\ ~h.busy
      /\ \A i \in DOMAIN ring' : i + 1 \in DOMAIN ring /\ ring'[i] = ring[i + 1]
  BY <1>0, <1>1, TailOrder
<1>3. /\ written' \in Seq(Record) /\ Len(written') = Len(written) + 1
      /\ DOMAIN written' = DOMAIN written \cup {Len(written) + 1}
      /\ written'[Len(written) + 1] = h
      /\ \A i \in DOMAIN written : i <= Len(written) /\ written'[i] = written[i]
      /\ DOMAIN written \subseteq Nat /\ Len(written) \in Nat
  BY <1>0, <1>2, AppendElements DEF RecorderTypeOK
<1> HIDE DEF h
<1>4. RecorderTypeOK'
  BY <1>0, <1>2, <1>3 DEF RecorderTypeOK
<1>5. h.ts # None /\ h.ts <= clock
  BY <1>1, <1>2, RecorderAssumption DEF StampedInThePast
<1>6. StampedInThePast' /\ WrittenIsComplete'
  BY <1>0, <1>1, <1>2, <1>3, <1>5 DEF StampedInThePast, WrittenIsComplete
<1>7. StampsInOrder'
  <2> USE <1>1, <1>2, <1>3, <1>5 DEF StampsInOrder
  <2>1. ASSUME NEW i \in DOMAIN ring', NEW j \in DOMAIN ring', i < j,
               ring'[i].by = ring'[j].by, ring'[j].ts # None
        PROVE  ring'[i].ts < ring'[j].ts
    <3>1. i + 1 \in DOMAIN ring /\ j + 1 \in DOMAIN ring /\ i + 1 < j + 1
      BY <2>1
    <3> QED BY <2>1, <3>1
  <2>2. ASSUME NEW i \in DOMAIN written', NEW j \in DOMAIN ring',
               written'[i].by = ring'[j].by, ring'[j].ts # None
        PROVE  written'[i].ts < ring'[j].ts
    <3>1. CASE i \in DOMAIN written
      BY <2>2, <3>1
    <3>2. CASE i = Len(written) + 1
      <4>1. 1 < j + 1
        OBVIOUS
      <4> QED BY <2>2, <3>2, <4>1
    <3> QED BY <3>1, <3>2
  <2>3. ASSUME NEW i \in DOMAIN written', NEW j \in DOMAIN written', i < j,
               written'[i].by = written'[j].by
        PROVE  written'[i].ts < written'[j].ts
    <3>1. i \in DOMAIN written
      BY <2>3
    <3>2. CASE j \in DOMAIN written
      BY <2>3, <3>1, <3>2
    <3>3. CASE j = Len(written) + 1
      BY <2>3, <3>1, <3>3
    <3> QED BY <3>2, <3>3
  <2> QED BY <2>1, <2>2, <2>3
<1>8. EveryEventAccounted'
  BY <1>0, <1>2, <1>3, LengthsAreNumbers DEF EveryEventAccounted, RecorderTypeOK
<1>9. FooterInv'
  BY <1>0 DEF FooterInv
<1> QED BY <1>2, <1>4, <1>6, <1>7, <1>8, <1>9 DEF RecorderInv, OrderInv

\* The callback fails: the record is gone and the error is kept.
LEMMA ConsumeFailsRecorderInv ==
  ASSUME RecorderInv, ConsumeFails
  PROVE  RecorderInv'
<1>0. /\ RecorderTypeOK /\ OrderInv /\ EveryEventAccounted /\ FooterInv
      /\ pc \in {"consume", "final"} /\ ~write_err /\ Ready
      /\ ring' = Tail(ring) /\ write_err'
      /\ UNCHANGED <<clock, probe, drop_counter, fired, written, pc, footer>>
  BY Zenon DEF RecorderInv, ConsumeFails
<1>1. ProbeHoldsOne /\ StampedInThePast /\ StampsInOrder /\ WrittenIsComplete
  BY <1>0 DEF OrderInv
<1>2. /\ ProbeHoldsOne'
      /\ ring' \in Seq(Record) /\ Len(ring') = Len(ring) - 1
      /\ DOMAIN ring' \subseteq Nat
      /\ \A i \in DOMAIN ring' : i + 1 \in DOMAIN ring /\ ring'[i] = ring[i + 1]
  BY <1>0, <1>1, TailOrder
<1>3. RecorderTypeOK'
  BY <1>0, <1>2 DEF RecorderTypeOK
<1>4. StampedInThePast' /\ WrittenIsComplete' /\ StampsInOrder'
  BY <1>0, <1>1, <1>2 DEF StampedInThePast, WrittenIsComplete, StampsInOrder
<1>5. EveryEventAccounted'
  BY <1>0, <1>2, LengthsAreNumbers DEF EveryEventAccounted, RecorderTypeOK
<1>6. FooterInv'
  BY <1>0 DEF FooterInv
<1> QED BY <1>2, <1>3, <1>4, <1>5, <1>6 DEF RecorderInv, OrderInv

\* The loop itself moves between its states and touches neither ring nor file.
LEMMA LoopRecorderInv ==
  ASSUME RecorderInv,
         UNCHANGED <<kernelVars, written, write_err>>,
         \/ pc' = pc /\ footer' = footer
         \/ /\ pc' \in {"check", "consume", "sleep", "final", "finish", "failed"}
            /\ pc # "done" /\ footer' = footer /\ ~write_err
         \/ pc \in {"consume", "final"} /\ pc' = "failed" /\ footer' = footer
         \/ /\ pc = "finish" /\ pc' = "done"
            /\ footer' = [events |-> Len(written), drops |-> drop_counter]
  PROVE  RecorderInv'
<1>0. /\ RecorderTypeOK /\ OrderInv /\ EveryEventAccounted /\ FooterInv
      /\ UNCHANGED <<clock, ring, probe, drop_counter, fired>>
  BY DEF RecorderInv, kernelVars
<1>1. RecorderTypeOK'
  BY <1>0, LengthsAreNumbers DEF RecorderTypeOK
<1>2. OrderInv'
  BY <1>0 DEF OrderInv, ProbeHoldsOne, StampedInThePast, StampsInOrder,
              WrittenIsComplete
<1>3. EveryEventAccounted'
  BY <1>0 DEF EveryEventAccounted
<1>4. FooterInv'
  <2>1. CASE /\ pc = "finish" /\ pc' = "done"
             /\ footer' = [events |-> Len(written), drops |-> drop_counter]
    <3>1. footer' # None
      BY <1>0, <2>1, LengthsAreNumbers, RecorderAssumption DEF RecorderTypeOK
    <3> QED BY <1>0, <2>1, <3>1 DEF FooterInv, RecorderTypeOK
  <2> QED BY <1>0, <2>1 DEF FooterInv
<1> QED BY <1>1, <1>2, <1>3, <1>4 DEF RecorderInv

\* Every step of the probes and of the recorder keeps the invariant.
LEMMA NextRecorderInv == RecorderInv /\ [Next]_vars => RecorderInv'
<1> SUFFICES ASSUME RecorderInv, [Next]_vars PROVE RecorderInv'
  OBVIOUS
<1>0. pc \in {"check", "consume", "sleep", "final", "finish", "done", "failed"}
  BY DEF RecorderInv, RecorderTypeOK
<1>00. write_err => pc \in {"consume", "final", "failed"}
  BY DEF RecorderInv, FooterInv
<1>1. ASSUME NEW c \in Context, reserve_buf(c) PROVE RecorderInv'
  BY <1>1, ReserveRecorderInv
<1>2. ASSUME NEW c \in Context, fill_timestamp_and_cpu(c) PROVE RecorderInv'
  BY <1>2, FillRecorderInv
<1>3. ASSUME NEW c \in Context, submit_buf(c) PROVE RecorderInv'
  BY <1>3, SubmitRecorderInv
<1>4. CASE Signal
  BY <1>4, LoopRecorderInv DEF Signal
<1>5. CASE DeadlinePasses
  BY <1>5, LoopRecorderInv DEF DeadlinePasses
<1>6. CASE CheckStop
  BY <1>00, <1>6, LoopRecorderInv DEF CheckStop
<1>7. CASE ConsumeRecord
  BY <1>7, ConsumeRecorderInv
<1>8. CASE ConsumeFails
  BY <1>8, ConsumeFailsRecorderInv
<1>9. CASE ConsumeReturns
  <2>1. CASE write_err
    <3>1. /\ pc \in {"consume", "final"} /\ pc' = "failed"
          /\ UNCHANGED <<kernelVars, written, write_err, footer>>
      BY <1>9, <2>1 DEF ConsumeReturns
    <3> QED BY <3>1, LoopRecorderInv
  <2>2. CASE ~write_err
    <3>1. /\ pc' \in {"finish", "check", "sleep"} /\ pc # "done"
          /\ UNCHANGED <<kernelVars, written, write_err, footer>>
      BY <1>9, <2>2 DEF ConsumeReturns
    <3> QED BY <2>2, <3>1, LoopRecorderInv
  <2> QED BY <2>1, <2>2
<1>10. CASE Sleep
  BY <1>00, <1>10, LoopRecorderInv DEF Sleep
<1>11. CASE Finish
  BY <1>11, LoopRecorderInv DEF Finish
<1>12. CASE FinishFails
  BY <1>00, <1>12, LoopRecorderInv DEF FinishFails
<1>13. CASE UNCHANGED vars
  BY <1>13, LoopRecorderInv DEF vars, kernelVars, userVars
<1> QED
  BY <1>1, <1>2, <1>3, <1>4, <1>5, <1>6, <1>7, <1>8, <1>9, <1>10, <1>11, <1>12,
     <1>13
     DEF Next, Probes, Poll, Consume

LEMMA RecorderInvariant == Spec => []RecorderInv
<1> QED BY InitRecorderInv, NextRecorderInv, PTL DEF Spec
-----------------------------------------------------------------------------
\* Whatever the probes and the recorder interleave, every event that fired is
\* counted as dropped, in the ring, in the file, or the one whose write failed.
THEOREM EveryEventAccountedHolds == Spec => []EveryEventAccounted
<1>1. RecorderInv => EveryEventAccounted
  BY DEF RecorderInv
<1> QED BY <1>1, RecorderInvariant, PTL

\* The file has complete records only, and the events of a context in the order
\* in which they happened, however the probes of other contexts interleave with
\* it and wherever the consumer stopped.
THEOREM ContextOrderHolds == Spec => []ContextOrder
<1>1. RecorderInv => ContextOrder
  <2> SUFFICES ASSUME RecorderInv PROVE ContextOrder
    OBVIOUS
  <2>1. /\ RecorderTypeOK /\ ProbeHoldsOne /\ StampsInOrder /\ WrittenIsComplete
    BY DEF RecorderInv, OrderInv
  <2> QED BY <2>1
          DEF ContextOrder, ProbeHoldsOne, StampsInOrder, WrittenIsComplete
<1> QED BY <1>1, RecorderInvariant, PTL

\* poll_ringbuf and record_impl write a footer exactly when they end without an
\* error, and it counts what is in the file.
THEOREM FooterIsTrueHolds == Spec => []FooterIsTrue
<1> QED BY FooterCounts, RecorderInvariant, PTL
=============================================================================
