--------------------------- MODULE AnamTraceProof ---------------------------
(***************************************************************************)
(* Machine-checked facts about AnamTrace, for every number of threads,     *)
(* every ring size and every way in which the disk may fail.               *)
(***************************************************************************)
EXTENDS AnamTrace, Residues, TLAPS, SequenceTheorems

\* Wrapping at IndexMod does not change the position in the ring.
LEMMA IdxWrap ==
  ASSUME NEW x \in Int
  PROVE  Idx(x % IndexMod) = Idx(x)
<1>0. IndexMod \in Nat \ {0} /\ BufferSize \in Nat \ {0} /\ IndexMod % BufferSize = 0
  BY TraceAssumption
<1>1. PICK q \in Int, r \in Int : x = IndexMod * q + r /\ 0 <= r /\ r < IndexMod /\ r = x % IndexMod
  BY <1>0, Euclid
<1>2. PICK p \in Int, s \in Int : /\ IndexMod = BufferSize * p + s /\ 0 <= s /\ s < BufferSize
                                  /\ s = IndexMod % BufferSize
  BY <1>0, Euclid
<1>3. PICK d \in Int : d = x - r
  BY <1>1
<1>4. d = (q * p) * BufferSize /\ q * p \in Int
  <2>1. IndexMod = BufferSize * p
    BY <1>0, <1>2
  <2>2. d = IndexMod * q
    <3>1. x = IndexMod * q + r /\ IndexMod \in Int
      BY <1>0, <1>1
    <3> QED
      BY <1>3, <3>1
  <2>3. q * p \in Int /\ BufferSize \in Int
    BY <1>0
  <2>4. (BufferSize * p) * q = (q * p) * BufferSize
    BY <2>3
  <2> QED
    BY <2>1, <2>2, <2>3, <2>4, Zenon
<1>5. Multiple(d, BufferSize)
  BY <1>4 DEF Multiple
<1>6. x % BufferSize = r % BufferSize
  BY <1>0, <1>3, <1>5, Congruent
<1> QED
  BY <1>1, <1>6 DEF Idx
-----------------------------------------------------------------------------
(* The ring of one thread *)

\* What a cell of t's ring may hold, and t's ring.
Cells(t) == {NoEntry} \cup {Entry(t, n) : n \in 1 .. MaxRecord[t]}

RingBuffer(t) ==
  [entries : [0 .. BufferSize - 1 -> Cells(t)], head : 0 .. IndexMod - 1, tail : 0 .. IndexMod - 1,
   overflow_count : Nat, entries_written : Nat, thread_id : 0 .. IdMod - 1]

\* The last BufferSize of the w entries stored in b are where their number says,
\* and they are the latest of t's L events.
Stored(t, b, L, w) ==
  \A p \in 1 .. w : w - p < BufferSize => b.entries[Idx(p - 1)] = Entry(t, L - w + p)

\* b is t's ring after L events, of which none after F has been taken out by a
\* flush: head and tail are the w stored entries and the w - (L - F) of them that
\* are done with, modulo IndexMod.
RingCore(t, b, L, F) ==
  /\ b \in RingBuffer(t)
  /\ L \in Nat /\ F \in Nat /\ F <= L /\ L <= MaxRecord[t]
  /\ L - F <= b.entries_written /\ b.entries_written <= L
  /\ b.overflow_count <= b.entries_written
  /\ IsRem(b.head, b.entries_written, IndexMod)
  /\ IsRem(b.tail, b.entries_written - (L - F), IndexMod)
  /\ Stored(t, b, L, b.entries_written)

\* A thread with a working disk and a ring that is not too small.
Safe(t) == t \notin Faulty /\ BufferSize >= 8

\* Between two calls: a ring that runs over has been noticed, if the counter cannot
\* have wrapped, and the ring of a safe thread never runs over.
RingOK(t, b, L, F) ==
  /\ RingCore(t, b, L, F)
  /\ MaxRecord[t] < IndexMod /\ b.overflow_count = 0 => L - F < BufferSize
  /\ Safe(t) => L - F <= BufferSize - 2

\* A new ring is empty.
LEMMA CreateCore ==
  ASSUME next_thread_id \in Nat, NEW t \in Thread, NEW L \in Nat, L <= MaxRecord[t]
  PROVE  RingOK(t, anam_trace_buffer_create, L, L)
<1> DEFINE b == anam_trace_buffer_create
<1>1. next_thread_id % IdMod \in 0 .. IdMod - 1
  BY TraceAssumption
<1>2. 0 \in 0 .. IndexMod - 1 /\ 0 % IndexMod = 0
  BY TraceAssumption
<1>3. b \in RingBuffer(t)
  BY <1>1, <1>2 DEF RingBuffer, Cells, anam_trace_buffer_create
<1>4. /\ b.head = 0 /\ b.tail = 0 /\ b.entries_written = 0 /\ b.overflow_count = 0
  BY DEF anam_trace_buffer_create
<1>5. MaxRecord[t] \in Nat /\ BufferSize \in Nat \ {0}
  BY TraceAssumption
<1>6. Stored(t, b, L, 0)
  BY DEF Stored
<1> HIDE DEF b
<1>7. L - L = 0 /\ 0 - (L - L) = 0
  OBVIOUS
<1>8. RingCore(t, b, L, L)
  BY <1>2, <1>3, <1>4, <1>5, <1>6, <1>7 DEF RingCore, IsRem
<1> QED
  BY <1>4, <1>5, <1>7, <1>8 DEF RingOK, Safe, b

\* The distance of head and tail, and their positions in the ring.
LEMMA Positions ==
  ASSUME NEW t \in Thread, NEW b, NEW L, NEW F, RingCore(t, b, L, F),
         NEW w, w = b.entries_written, NEW d, d = L - F
  PROVE  /\ w \in Nat /\ d \in Nat /\ d <= w
         /\ Distance(b) = d % IndexMod /\ Idx(Distance(b)) = d % BufferSize
         /\ Idx(b.head) = w % BufferSize /\ Idx(b.tail) = (w - d) % BufferSize
         /\ b.head \in Nat /\ b.tail \in Nat
<1>1. /\ w \in Nat /\ d \in Nat /\ d <= w /\ b.head \in Int /\ b.tail \in Int
      /\ b.head \in Nat /\ b.tail \in Nat
  BY TraceAssumption DEF RingCore, RingBuffer
<1>2. IndexMod \in Nat \ {0}
  BY TraceAssumption
<1>3. PICK v \in Int : v = w - d
  BY <1>1
<1>4. IsRem(b.head, w, IndexMod) /\ IsRem(b.tail, v, IndexMod)
  BY <1>3 DEF RingCore
<1>5. (b.head - b.tail) % IndexMod = (w - v) % IndexMod
  BY <1>1, <1>2, <1>4, ModDiff
<1>6. w - v = d
  BY <1>1, <1>3
<1>7. Distance(b) = d % IndexMod
  BY <1>5, <1>6 DEF Distance
<1>8. Idx(d % IndexMod) = Idx(d) /\ Idx(w % IndexMod) = Idx(w) /\ Idx(v % IndexMod) = Idx(v)
  BY <1>1, IdxWrap
<1>9. Idx(b.head) = Idx(w) /\ Idx(b.tail) = Idx(v)
  BY <1>4, <1>8 DEF IsRem
<1> QED
  BY <1>1, <1>3, <1>7, <1>8, <1>9 DEF Idx

\* What Store does to the fields of a ring.
LEMMA StoreFields ==
  ASSUME NEW t \in Thread, NEW b \in RingBuffer(t), NEW n \in 1 .. MaxRecord[t],
         NEW s, s = Store(b, Entry(t, n))
  PROVE  /\ s \in RingBuffer(t)
         /\ s.entries = [b.entries EXCEPT ![Idx(b.head)] = Entry(t, n)]
         /\ s.head = (b.head + 1) % IndexMod
         /\ s.tail = b.tail /\ s.overflow_count = b.overflow_count
         /\ s.entries_written = b.entries_written + 1
         /\ s.thread_id = b.thread_id
<1>1. Entry(t, n) \in Cells(t)
  BY DEF Cells
<1>2. PICK h \in Int : h = b.head
  BY TraceAssumption DEF RingBuffer
<1>3. (h + 1) % IndexMod \in 0 .. IndexMod - 1 /\ Idx(h) \in 0 .. BufferSize - 1
  BY TraceAssumption DEF Idx
<1>4. PICK next : next = (h + 1) % IndexMod
  OBVIOUS
<1>5. PICK E : E = [b.entries EXCEPT ![Idx(h)] = Entry(t, n)]
  OBVIOUS
<1>6. E \in [0 .. BufferSize - 1 -> Cells(t)]
  BY <1>1, <1>5 DEF RingBuffer
<1>7. s = [b EXCEPT !.entries = E, !.head = next, !.entries_written = @ + 1]
  BY <1>2, <1>4, <1>5 DEF Store
<1>8. next \in 0 .. IndexMod - 1
  BY <1>3, <1>4
<1> DEFINE Entries == [0 .. BufferSize - 1 -> Cells(t)]
           Index == 0 .. IndexMod - 1
           Ids == 0 .. IdMod - 1
<1>9. /\ s \in RingBuffer(t) /\ s.entries = E /\ s.head = next
      /\ s.tail = b.tail /\ s.overflow_count = b.overflow_count
      /\ s.entries_written = b.entries_written + 1
      /\ s.thread_id = b.thread_id
  <2>1. E \in Entries /\ next \in Index
    BY <1>6, <1>8
  <2>2. RingBuffer(t) = [entries : Entries, head : Index, tail : Index,
                         overflow_count : Nat, entries_written : Nat, thread_id : Ids]
    BY DEF RingBuffer
  <2> HIDE DEF Entries, Index, Ids
  <2>3. PICK v \in Nat : v = b.entries_written + 1
    BY <2>2
  <2>4. s = [b EXCEPT !.entries = E, !.head = next, !.entries_written = v]
    BY <1>7, <2>3
  <2>5. s = [entries |-> E, head |-> next, tail |-> b.tail, overflow_count |-> b.overflow_count,
             entries_written |-> v, thread_id |-> b.thread_id]
    <3>1. b = [entries |-> b.entries, head |-> b.head, tail |-> b.tail,
               overflow_count |-> b.overflow_count,
               entries_written |-> b.entries_written, thread_id |-> b.thread_id]
      BY <2>2
    <3>2. PICK x1, x2, x3, x4, x5, x6 :
            b = [entries |-> x1, head |-> x2, tail |-> x3,
               overflow_count |-> x4, entries_written |-> x5, thread_id |-> x6]
      BY <3>1
    <3> QED
      BY <3>2, <2>4
  <2> QED
    BY <2>1, <2>2, <2>3, <2>5
<1> QED
  BY <1>2, <1>4, <1>5, <1>9

\* Recording an event makes it the latest one in the ring.
LEMMA StoreCore ==
  ASSUME NEW t \in Thread, NEW b, NEW L, NEW F, RingCore(t, b, L, F), L < MaxRecord[t],
         NEW s, s = Store(b, Entry(t, L + 1))
  PROVE  /\ RingCore(t, s, L + 1, F)
         /\ s.thread_id = b.thread_id /\ s.overflow_count = b.overflow_count
         /\ s.entries_written = b.entries_written + 1
<1> DEFINE w == b.entries_written
<1>1. /\ b \in RingBuffer(t) /\ L \in Nat /\ F \in Nat /\ F <= L /\ L <= MaxRecord[t]
      /\ L - F <= w /\ w <= L /\ b.overflow_count <= w
      /\ w \in Nat /\ b.head \in Int /\ b.overflow_count \in Nat
      /\ b.entries \in [0 .. BufferSize - 1 -> Cells(t)]
      /\ MaxRecord[t] \in Nat
  BY TraceAssumption DEF RingCore, RingBuffer
<1>2. L + 1 \in 1 .. MaxRecord[t]
  BY <1>1
<1>3. /\ s \in RingBuffer(t)
      /\ s.entries = [b.entries EXCEPT ![Idx(b.head)] = Entry(t, L + 1)]
      /\ s.head = (b.head + 1) % IndexMod
      /\ s.tail = b.tail /\ s.overflow_count = b.overflow_count
      /\ s.entries_written = w + 1 /\ s.thread_id = b.thread_id
  BY <1>1, <1>2, StoreFields
<1>4. IndexMod \in Nat \ {0} /\ BufferSize \in Nat \ {0}
  BY TraceAssumption
<1>5. IsRem(s.head, w + 1, IndexMod)
  <2>1. PICK h \in Int, v \in Int : h = b.head /\ v = w
    BY <1>1
  <2>2. IsRem(h, v, IndexMod)
    BY <2>1 DEF RingCore
  <2>3. (h + 1) % IndexMod = (v + 1) % IndexMod
    BY <1>4, <2>2, ModSucc
  <2> QED
    BY <1>3, <2>1, <2>3 DEF IsRem
<1>6. IsRem(s.tail, (w + 1) - (L + 1 - F), IndexMod)
  <2>1. IsRem(b.tail, w - (L - F), IndexMod)
    BY DEF RingCore
  <2>2. (w + 1) - (L + 1 - F) = w - (L - F)
    BY <1>1
  <2> QED
    BY <1>3, <2>1, <2>2 DEF IsRem
<1>7. Stored(t, s, L + 1, w + 1)
  <2> SUFFICES ASSUME NEW p \in 1 .. w + 1, (w + 1) - p < BufferSize
               PROVE  s.entries[Idx(p - 1)] = Entry(t, (L + 1) - (w + 1) + p)
    BY DEF Stored
  <2> HIDE DEF w
  <2>1. Idx(b.head) = Idx(w)
    <3>1. Idx(w % IndexMod) = Idx(w)
      BY <1>1, IdxWrap
    <3> QED
      BY <3>1 DEF RingCore, IsRem, w
  <2>2. Idx(p - 1) \in 0 .. BufferSize - 1 /\ p \in Int /\ p - 1 \in Int
    BY <1>1, <1>4 DEF Idx
  <2>3. CASE p = w + 1
    <3>1. p - 1 = w /\ (L + 1) - (w + 1) + p = L + 1
      BY <1>1, <2>3
    <3> QED
      BY <1>1, <1>3, <2>1, <2>2, <3>1
  <2>4. CASE p # w + 1
    <3>0. w \in Nat /\ L \in Nat /\ BufferSize \in Nat
      BY <1>1, <1>4
    <3>1. p \in 1 .. w /\ w - p < BufferSize /\ (L + 1) - (w + 1) + p = L - w + p
      BY <2>4, <3>0
    <3>2. b.entries[Idx(p - 1)] = Entry(t, L - w + p)
      BY <3>1 DEF RingCore, Stored, w
    <3>3. PICK u \in Int : u = p - 1
      BY <2>2
    <3>4. u < w /\ w < u + BufferSize /\ w \in Int
      BY <1>1, <1>4, <2>2, <2>4, <3>3
    <3>5. w % BufferSize # u % BufferSize
      BY <1>4, <3>4, ModDistinct
    <3>6. Idx(u) # Idx(w)
      BY <3>5 DEF Idx
    <3> QED
      BY <1>1, <1>3, <2>1, <2>2, <3>1, <3>2, <3>3, <3>6
  <2> QED
    BY <2>3, <2>4
<1>8. L + 1 \in Nat /\ F <= L + 1 /\ L + 1 <= MaxRecord[t] /\ (L + 1) - F <= w + 1 /\ w + 1 <= L + 1
      /\ b.overflow_count <= w + 1
  BY <1>1
<1> HIDE DEF w
<1>9. RingCore(t, s, L + 1, F)
  BY <1>1, <1>3, <1>5, <1>6, <1>7, <1>8 DEF RingCore
<1> QED
  BY <1>3, <1>9 DEF w

\* Where the p-th stored entry is.
LEMMA RingAt ==
  ASSUME NEW t \in Thread, NEW b, NEW L, NEW F, RingCore(t, b, L, F),
         NEW w, w = b.entries_written, NEW p \in 1 .. w, w - p < BufferSize,
         NEW i \in 0 .. BufferSize - 1, NEW z \in Int, z = (p - 1) - i, Multiple(z, BufferSize)
  PROVE  b.entries[i] = Entry(t, L - w + p)
<1>1. w \in Nat /\ BufferSize \in Nat \ {0}
  BY TraceAssumption DEF RingCore, RingBuffer
<1>2. PICK u \in Int : u = p - 1
  BY <1>1
<1>3. u % BufferSize = i % BufferSize
  <2>1. i \in Int /\ z = u - i
    BY <1>1, <1>2
  <2> QED
    BY <1>1, <2>1, Congruent
<1>4. i % BufferSize = i
  BY <1>1
<1>5. Idx(p - 1) = i
  BY <1>2, <1>3, <1>4 DEF Idx
<1>6. b.entries[Idx(p - 1)] = Entry(t, L - w + p)
  BY DEF RingCore, Stored
<1> QED
  BY <1>5, <1>6

-----------------------------------------------------------------------------
(* What a flush takes out of the ring *)

\* n events of t in a row, after the a-th.
Run(t, a, n) == [k \in 1 .. n |-> Entry(t, a + k)]

\* The number of entries a flush writes is the number of the unwritten events up to
\* a multiple of the ring's size, and never more than there are.
LEMMA CountFacts ==
  ASSUME NEW t \in Thread, NEW b, NEW L, NEW F, RingCore(t, b, L, F),
         NEW d, d = L - F, NEW c, c = FlushCount(b), b.head # b.tail, c # 0
  PROVE  /\ d \in Nat /\ c \in 1 .. BufferSize /\ c <= d
         /\ Multiple(d - c, BufferSize)
         /\ d < BufferSize => c = d
<1>1. PICK w : w = b.entries_written
  OBVIOUS
<1>2. /\ w \in Nat /\ d \in Nat /\ d <= w
      /\ Idx(Distance(b)) = d % BufferSize
  BY <1>1, Positions
<1>3. BufferSize \in Nat \ {0}
  BY TraceAssumption
<1>4. d # 0
  <2> SUFFICES ASSUME d = 0 PROVE FALSE
    OBVIOUS
  <2>1. IsRem(b.head, w, IndexMod) /\ IsRem(b.tail, w - d, IndexMod)
    BY <1>1 DEF RingCore
  <2>2. w - d = w
    BY <1>2
  <2> QED
    BY <2>1, <2>2 DEF IsRem
<1>5. PICK q \in Int, r \in Int :
        d = BufferSize * q + r /\ 0 <= r /\ r < BufferSize /\ r = d % BufferSize
  <2>1. d \in Int
    BY <1>2
  <2> QED
    BY <1>3, <2>1, Euclid
<1>6. d < BufferSize => r = d
  BY <1>2, <1>3, <1>5
<1>7. r <= d
  BY <1>2, <1>3, <1>5
<1>8. c = r \/ (r = 0 /\ c = BufferSize)
  BY <1>2, <1>5 DEF FlushCount
<1>9. d = BufferSize * q + r
  BY <1>5
<1>10. CASE c = r
  <2>1. d - c = q * BufferSize
    BY <1>2, <1>3, <1>9, <1>10
  <2>2. Multiple(d - c, BufferSize)
    BY <2>1 DEF Multiple
  <2> QED
    BY <1>2, <1>3, <1>5, <1>6, <1>7, <1>10, <2>2
<1>11. CASE r = 0 /\ c = BufferSize
  <2>1. d - c = (q - 1) * BufferSize /\ q - 1 \in Int
    BY <1>2, <1>3, <1>9, <1>11
  <2>2. Multiple(d - c, BufferSize)
    BY <2>1 DEF Multiple
  <2>3. ~(d < BufferSize)
    BY <1>4, <1>6, <1>11
  <2> QED
    BY <1>2, <1>3, <1>11, <2>2, <2>3
<1> QED
  BY <1>8, <1>10, <1>11

\* A flush writes the last c events, in one block or, around the end of the ring, two.
LEMMA BlocksAre ==
  ASSUME NEW t \in Thread, NEW b, NEW L, NEW F, RingCore(t, b, L, F),
         NEW c, c = FlushCount(b), b.head # b.tail, c # 0
  PROVE  \E c1 \in Nat, c2 \in Nat :
           c1 + c2 = c /\ Blocks(b) = <<Run(t, L - c, c1), Run(t, L - c2, c2)>>
<1>1. PICK w, d : w = b.entries_written /\ d = L - F
  OBVIOUS
<1>2. /\ w \in Nat /\ d \in Nat /\ d <= w
      /\ Idx(b.head) = w % BufferSize /\ Idx(b.tail) = (w - d) % BufferSize
  BY <1>1, Positions
<1>3. c \in 1 .. BufferSize /\ c <= d /\ Multiple(d - c, BufferSize)
  BY <1>1, CountFacts
<1>4. BufferSize \in Nat \ {0} /\ c \in Nat /\ L \in Nat /\ w <= L
  BY <1>1, <1>3, TraceAssumption DEF RingCore
<1>5. PICK q \in Int, h \in Int :
        w = BufferSize * q + h /\ 0 <= h /\ h < BufferSize /\ h = w % BufferSize
  <2>1. w \in Int /\ BufferSize \in Nat \ {0}
    BY <1>2, <1>4
  <2> QED
    BY <2>1, Euclid
<1>6. PICK x \in Int, tl \in Int : x = w - d /\ tl = x % BufferSize /\ tl = Idx(b.tail)
  BY <1>2, <1>4
<1>7. w - h = q * BufferSize
  <2>1. w = BufferSize * q + h
    BY <1>5
  <2> QED
    BY <1>2, <1>4, <2>1
<1>8. PICK j \in Int : d - c = j * BufferSize
  BY <1>3 DEF Multiple
<1>9. ASSUME NEW p \in 1 .. w, w - p < BufferSize, NEW i \in 0 .. BufferSize - 1,
             p - 1 - i = w - h \/ p - 1 - i = w - h - BufferSize
      PROVE  b.entries[i] = Entry(t, L - w + p)
  <2>1. PICK z \in Int : z = (p - 1) - i
    BY <1>2, <1>4
  <2>2. z = q * BufferSize \/ z = (q - 1) * BufferSize
    BY <1>2, <1>4, <1>7, <1>9, <2>1
  <2>3. Multiple(z, BufferSize)
    <3>1. q - 1 \in Int
      OBVIOUS
    <3> QED
      BY <2>2, <3>1 DEF Multiple
  <2> QED
    BY <1>1, <1>9, <2>1, <2>3, RingAt
<1>10. PICK y \in Int : /\ y = (IF h >= c THEN h - c ELSE h - c + BufferSize)
                        /\ y \in 0 .. BufferSize - 1
  BY <1>3, <1>4, <1>5
<1>11. tl = y
  <2>1. PICK z \in Int : z = x - y
    OBVIOUS
  <2>2. z = (q - j) * BufferSize \/ z = (q - j - 1) * BufferSize
    <3>1. z = (w - h) - (d - c) \/ z = (w - h) - (d - c) - BufferSize
      BY <1>2, <1>4, <1>6, <1>10, <2>1
    <3>2. w - h \in Int /\ d - c \in Int /\ BufferSize \in Int
      BY <1>2, <1>4
    <3>3. (q - j) * BufferSize = q * BufferSize - j * BufferSize
      BY <3>2
    <3>4. (q - j - 1) * BufferSize = q * BufferSize - j * BufferSize - BufferSize
      BY <3>2
    <3> QED
      BY <1>7, <1>8, <3>1, <3>2, <3>3, <3>4
  <2>3. Multiple(z, BufferSize)
    <3>1. q - j \in Int /\ q - j - 1 \in Int
      OBVIOUS
    <3> QED
      BY <2>2, <3>1 DEF Multiple
  <2>4. x % BufferSize = y % BufferSize
    BY <1>4, <2>1, <2>3, Congruent
  <2>5. y % BufferSize = y
    BY <1>4, <1>10
  <2> QED
    BY <1>6, <2>4, <2>5
<1>12. Idx(b.head) = h /\ Idx(b.tail) = y
  BY <1>2, <1>5, <1>6, <1>11
<1>15. /\ w \in Int /\ L \in Int /\ c \in Int /\ BufferSize \in Int
       /\ 1 <= c /\ c <= w /\ c <= BufferSize /\ 0 <= h /\ h < BufferSize
  BY <1>2, <1>3, <1>4, <1>5
<1>16. h <= w
  BY <1>2, <1>4, <1>5
<1>13. CASE h >= c
  <2>1. y = h - c /\ y < h
    BY <1>4, <1>3, <1>10, <1>13
  <2>2. Blocks(b) = <<Block(b, y, c), <<>>>>
    BY <1>12, <2>1 DEF Blocks
  <2>3. \A k \in 1 .. c : b.entries[y + k - 1] = Entry(t, (L - c) + k)
    <3> SUFFICES ASSUME NEW k \in 1 .. c PROVE b.entries[y + k - 1] = Entry(t, (L - c) + k)
      OBVIOUS
    <3>1. PICK p \in Int, i \in Int : p = w - c + k /\ i = y + k - 1
      BY <1>2, <1>4
    <3>2. /\ p \in 1 .. w /\ w - p < BufferSize /\ i \in 0 .. BufferSize - 1
          /\ p - 1 - i = w - h /\ L - w + p = (L - c) + k
      BY <1>13, <1>15, <2>1, <3>1
    <3> QED
      BY <1>9, <3>1, <3>2
  <2>4. Block(b, y, c) = Run(t, L - c, c)
    BY <2>3 DEF Block, Run
  <2>5. <<>> = Run(t, L - 0, 0)
    BY DEF Run
  <2>6. c + 0 = c /\ 0 \in Nat
    BY <1>4
  <2> QED
    BY <1>4, <2>2, <2>4, <2>5, <2>6
<1>14. CASE ~(h >= c)
  <2>1. y = h - c + BufferSize /\ ~(y < h) /\ BufferSize - y = c - h /\ c - (c - h) = h
    BY <1>4, <1>3, <1>5, <1>10, <1>14
  <2>2. Blocks(b) = <<Block(b, y, c - h), Block(b, 0, h)>>
    BY <1>12, <2>1 DEF Blocks
  <2>3. \A k \in 1 .. c - h : b.entries[y + k - 1] = Entry(t, (L - c) + k)
    <3> SUFFICES ASSUME NEW k \in 1 .. c - h PROVE b.entries[y + k - 1] = Entry(t, (L - c) + k)
      OBVIOUS
    <3>1. PICK p \in Int, i \in Int : p = w - c + k /\ i = y + k - 1
      BY <1>2, <1>4
    <3>2. y = h - c + BufferSize
      BY <2>1
    <3>3. 1 <= k /\ k <= c - h
      BY <1>15
    <3>4. 1 <= p /\ p <= w /\ w - p < BufferSize /\ L - w + p = (L - c) + k
      BY <1>15, <3>1, <3>3
    <3>5. 0 <= i /\ i <= BufferSize - 1 /\ p - 1 - i = w - h - BufferSize
      BY <1>15, <3>1, <3>2, <3>3
    <3>6. p \in 1 .. w /\ i \in 0 .. BufferSize - 1
      BY <1>15, <3>4, <3>5
    <3> QED
      BY <1>9, <3>1, <3>4, <3>5, <3>6
  <2>4. \A k \in 1 .. h : b.entries[0 + k - 1] = Entry(t, (L - h) + k)
    <3> SUFFICES ASSUME NEW k \in 1 .. h PROVE b.entries[0 + k - 1] = Entry(t, (L - h) + k)
      OBVIOUS
    <3>1. PICK p \in Int, i \in Int : p = w - h + k /\ i = 0 + k - 1
      BY <1>2, <1>4
    <3>2. /\ p \in 1 .. w /\ w - p < BufferSize /\ i \in 0 .. BufferSize - 1
          /\ p - 1 - i = w - h /\ L - w + p = (L - h) + k
      BY <1>14, <1>15, <1>16, <3>1
    <3> QED
      BY <1>9, <3>1, <3>2
  <2>5. Block(b, y, c - h) = Run(t, L - c, c - h) /\ Block(b, 0, h) = Run(t, L - h, h)
    BY <2>3, <2>4 DEF Block, Run
  <2>6. c - h \in Nat /\ h \in Nat /\ (c - h) + h = c
    BY <1>4, <1>5, <1>14
  <2> QED
    BY <2>2, <2>5, <2>6
<1> QED
  BY <1>13, <1>14

\* A ring that has not run over is flushed completely.
LEMMA WholeCount ==
  ASSUME NEW t \in Thread, NEW b, NEW L, NEW F, RingCore(t, b, L, F), L - F < BufferSize
  PROVE  /\ Distance(b) = L - F /\ Idx(Distance(b)) = L - F
         /\ b.head = b.tail <=> L = F
         /\ L # F => FlushCount(b) = L - F
<1>1. PICK w, d : w = b.entries_written /\ d = L - F
  OBVIOUS
<1>2. /\ w \in Nat /\ d \in Nat /\ Distance(b) = d % IndexMod /\ Idx(Distance(b)) = d % BufferSize
      /\ b.head \in Nat /\ b.tail \in Nat
  BY <1>1, Positions
<1>3. /\ BufferSize \in Nat \ {0} /\ IndexMod \in Nat \ {0} /\ BufferSize < IndexMod
      /\ L \in Nat /\ F \in Nat
  BY TraceAssumption DEF RingCore
<1>4. d % IndexMod = d /\ d % BufferSize = d
  BY <1>1, <1>2, <1>3
<1>5. L # F => d # 0
  BY <1>1, <1>3
<1>6. b.head = b.tail => d = 0
  BY <1>2, <1>3, <1>4 DEF Distance
<1>7. L = F => b.head = b.tail
  <2> SUFFICES ASSUME L = F PROVE b.head = b.tail
    OBVIOUS
  <2>1. w - (L - F) = w
    BY <1>2, <1>3
  <2> QED
    BY <1>1, <2>1 DEF RingCore, IsRem
<1>8. L # F => FlushCount(b) = d
  BY <1>2, <1>4, <1>5 DEF FlushCount
<1> QED
  BY <1>1, <1>2, <1>4, <1>5, <1>6, <1>7, <1>8

\* A part of a run from its start is a run.
LEMMA RunPart ==
  ASSUME NEW t, NEW a \in Int, NEW n \in Nat, NEW m \in 0 .. n
  PROVE  Len(Run(t, a, n)) = n /\ SubSeq(Run(t, a, n), 1, m) = Run(t, a, m)
<1> DEFINE r == Run(t, a, n)
<1>1. PICK S : Len(r) = n /\ r \in Seq(S)
  <2>1. PICK S : S = {Entry(t, a + k) : k \in 1 .. n}
    OBVIOUS
  <2>2. \A k \in 1 .. n : Entry(t, a + k) \in S
    BY <2>1
  <2>3. Len(r) = n /\ r \in Seq(S)
    BY <2>2 DEF Run
  <2> QED
    BY <2>3
<1>2. \A k \in 1 .. n : r[k] = Entry(t, a + k)
  BY DEF Run
<1> HIDE DEF r
<1>3. SubSeq(r, 1, m) = [k \in 1 .. m |-> r[1 + k - 1]]
  BY <1>1
<1>4. \A k \in 1 .. m : r[1 + k - 1] = Entry(t, a + k)
  BY <1>2
<1> QED
  BY <1>1, <1>3, <1>4 DEF r, Run

\* An open fails only for a thread whose disk is not working, and what fwrite puts
\* into a file is a part of the block.
LEMMA WrittenIs ==
  ASSUME NEW t \in Thread, NEW a \in Int, NEW n \in Nat, NEW o \in Written(t, Run(t, a, n))
  PROVE  \E m \in 0 .. n : o = Run(t, a, m) /\ (t \notin Faulty => m = n)
<1>1. n \in 0 .. n
  OBVIOUS
<1>2. CASE "short" \in FaultsOf(t)
  <2>1. PICK m \in 0 .. n : o = SubSeq(Run(t, a, n), 1, m)
    <3>1. Len(Run(t, a, n)) = n
      BY <1>1, RunPart
    <3> QED
      BY <1>2, <3>1 DEF Written
  <2>2. o = Run(t, a, m)
    BY <2>1, RunPart
  <2> QED
    BY <1>2, <2>2 DEF FaultsOf
<1>3. CASE "short" \notin FaultsOf(t)
  <2>1. o = Run(t, a, n)
    BY <1>3 DEF Written
  <2> QED
    BY <1>1, <2>1
<1> QED
  BY <1>2, <1>3

\* o is two runs of events of t after the F-th and up to the L-th, with gaps only
\* if not everything has been written.
TwoRuns(t, o, F, L, all) ==
  \E a \in Nat, b \in Nat, m \in Nat, n \in Nat :
    /\ o = Run(t, a, m) \o Run(t, b, n)
    /\ F <= a /\ a + m <= b /\ b + n <= L
    /\ all => a = F /\ a + m = b /\ b + n = L

\* The outcomes of a flush: nothing happens, which a safe thread with unwritten events
\* never meets, or events after the F-th go to the file, all of them if nothing fails.
LEMMA FlushIs ==
  ASSUME NEW t \in Thread, NEW b, NEW L, NEW F, RingCore(t, b, L, F), NEW f \in Flushes(t, b),
         NEW all, all = (t \notin Faulty /\ L - F < BufferSize)
  PROVE  \/ f = Nothing(b) /\ (all => L = F)
         \/ f.tail = b.head /\ TwoRuns(t, f.out, F, L, all)
<1>1. /\ L \in Nat /\ F \in Nat /\ F <= L /\ BufferSize \in Nat
  BY TraceAssumption DEF RingCore
<1>2. CASE b.head = b.tail \/ FlushCount(b) = 0
  <2>1. f = Nothing(b)
    BY <1>2 DEF Flushes
  <2>2. all => L = F
    <3> SUFFICES ASSUME L - F < BufferSize, L # F PROVE FALSE
      OBVIOUS
    <3>1. b.head # b.tail /\ FlushCount(b) = L - F
      BY WholeCount
    <3> QED
      BY <1>1, <1>2, <3>1
  <2> QED
    BY <2>1, <2>2
<1>3. CASE ~(b.head = b.tail \/ FlushCount(b) = 0)
  <2>1. CASE f \in {Nothing(b) : x \in FaultsOf(t) \cap {"open"}}
    BY <2>1 DEF FaultsOf
  <2>2. CASE f \in {[out |-> w1 \o w2, tail |-> b.head] :
                      w1 \in Written(t, Blocks(b)[1]), w2 \in Written(t, Blocks(b)[2])}
    <3>1. PICK c, d : c = FlushCount(b) /\ d = L - F
      OBVIOUS
    <3>2. PICK c1 \in Nat, c2 \in Nat :
            c1 + c2 = c /\ Blocks(b) = <<Run(t, L - c, c1), Run(t, L - c2, c2)>>
      BY <1>3, <3>1, BlocksAre
    <3>3. d \in Nat /\ c \in 1 .. BufferSize /\ c <= d /\ (d < BufferSize => c = d)
      BY <1>3, <3>1, CountFacts
    <3>4. PICK w1 \in Written(t, Run(t, L - c, c1)), w2 \in Written(t, Run(t, L - c2, c2)) :
            f = [out |-> w1 \o w2, tail |-> b.head]
      <4>1. Blocks(b)[1] = Run(t, L - c, c1) /\ Blocks(b)[2] = Run(t, L - c2, c2)
        BY <3>2
      <4>2. \E w1 \in Written(t, Blocks(b)[1]), w2 \in Written(t, Blocks(b)[2]) :
              f = [out |-> w1 \o w2, tail |-> b.head]
        BY <2>2
      <4> QED
        BY <4>1, <4>2
    <3>5. L - c \in Nat /\ L - c2 \in Nat
      BY <1>1, <3>1, <3>2, <3>3
    <3>6. PICK m \in 0 .. c1 : w1 = Run(t, L - c, m) /\ (t \notin Faulty => m = c1)
      BY <3>5, WrittenIs
    <3>7. PICK n \in 0 .. c2 : w2 = Run(t, L - c2, n) /\ (t \notin Faulty => n = c2)
      BY <3>5, WrittenIs
    <3>8. /\ f.out = Run(t, L - c, m) \o Run(t, L - c2, n) /\ f.tail = b.head
      BY <3>4, <3>6, <3>7
    <3>9. /\ m \in Nat /\ n \in Nat
          /\ F <= L - c /\ (L - c) + m <= L - c2 /\ (L - c2) + n <= L
      BY <1>1, <3>1, <3>2, <3>3
    <3>10. all => L - c = F /\ (L - c) + m = L - c2 /\ (L - c2) + n = L
      <4> SUFFICES ASSUME all
                   PROVE  L - c = F /\ (L - c) + m = L - c2 /\ (L - c2) + n = L
        OBVIOUS
      <4>1. c = d /\ m = c1 /\ n = c2
        BY <3>1, <3>3, <3>6, <3>7
      <4> QED
        BY <1>1, <3>1, <3>2, <4>1
    <3> QED
      BY <3>5, <3>8, <3>9, <3>10 DEF TwoRuns
  <2> QED
    BY <1>3, <2>1, <2>2 DEF Flushes
<1> QED
  BY <1>2, <1>3

\* What a change of tail or of overflow_count does to the fields of a ring.
LEMMA RingFields ==
  ASSUME NEW t \in Thread, NEW s \in RingBuffer(t)
  PROVE  /\ \A x \in 0 .. IndexMod - 1 : LET u == [s EXCEPT !.tail = x] IN
              /\ u \in RingBuffer(t) /\ u.tail = x /\ u.head = s.head /\ u.entries = s.entries
              /\ u.overflow_count = s.overflow_count /\ u.thread_id = s.thread_id
              /\ u.entries_written = s.entries_written
         /\ \A x \in Nat : LET u == [s EXCEPT !.overflow_count = x] IN
              /\ u \in RingBuffer(t) /\ u.overflow_count = x /\ u.head = s.head /\ u.tail = s.tail
              /\ u.entries = s.entries /\ u.thread_id = s.thread_id
              /\ u.entries_written = s.entries_written
         /\ [s EXCEPT !.tail = s.tail] = s
<1> DEFINE Entries == [0 .. BufferSize - 1 -> Cells(t)]
           Index == 0 .. IndexMod - 1
           Ids == 0 .. IdMod - 1
<1>1. RingBuffer(t) = [entries : Entries, head : Index, tail : Index,
                       overflow_count : Nat, entries_written : Nat, thread_id : Ids]
  BY DEF RingBuffer
<1> HIDE DEF Entries, Index, Ids
<1>2. /\ s = [entries |-> s.entries, head |-> s.head, tail |-> s.tail,
              overflow_count |-> s.overflow_count,
              entries_written |-> s.entries_written, thread_id |-> s.thread_id]
      /\ s.entries \in Entries /\ s.head \in Index /\ s.tail \in Index /\ s.overflow_count \in Nat
      /\ s.entries_written \in Nat /\ s.thread_id \in Ids
  BY <1>1
<1>3. PICK x1 \in Entries, x2 \in Index, x3 \in Index, x4 \in Nat, x5 \in Nat, x6 \in Ids :
        s = [entries |-> x1, head |-> x2, tail |-> x3,
             overflow_count |-> x4, entries_written |-> x5, thread_id |-> x6]
  BY <1>2
<1>4. \A x : [s EXCEPT !.tail = x] = [entries |-> x1, head |-> x2, tail |-> x,
               overflow_count |-> x4, entries_written |-> x5, thread_id |-> x6]
  BY <1>3
<1>5. \A x : [s EXCEPT !.overflow_count = x] = [entries |-> x1, head |-> x2, tail |-> x3,
               overflow_count |-> x, entries_written |-> x5, thread_id |-> x6]
  BY <1>3
<1>6. \A x \in Index : LET u == [s EXCEPT !.tail = x] IN
              /\ u \in RingBuffer(t) /\ u.tail = x /\ u.head = s.head /\ u.entries = s.entries
              /\ u.overflow_count = s.overflow_count /\ u.thread_id = s.thread_id
              /\ u.entries_written = s.entries_written
  BY <1>1, <1>3, <1>4
<1>7. \A x \in Nat : LET u == [s EXCEPT !.overflow_count = x] IN
              /\ u \in RingBuffer(t) /\ u.overflow_count = x /\ u.head = s.head /\ u.tail = s.tail
              /\ u.entries = s.entries /\ u.thread_id = s.thread_id
              /\ u.entries_written = s.entries_written
  BY <1>1, <1>3, <1>5
<1>8. [s EXCEPT !.tail = s.tail] = s
  BY <1>3, <1>4
<1> QED
  BY <1>6, <1>7, <1>8 DEF Index

\* A flush that writes leaves an empty ring.
LEMMA FlushCore ==
  ASSUME NEW t \in Thread, NEW s, NEW L, NEW F, RingCore(t, s, L, F),
         NEW u, u = [s EXCEPT !.tail = s.head]
  PROVE  /\ RingCore(t, u, L, L) /\ u.overflow_count = s.overflow_count
         /\ u.entries_written = s.entries_written /\ u.thread_id = s.thread_id
<1>1. s \in RingBuffer(t) /\ s.head \in 0 .. IndexMod - 1
  BY DEF RingCore, RingBuffer
<1>2. /\ u \in RingBuffer(t) /\ u.tail = s.head /\ u.head = s.head /\ u.entries = s.entries
      /\ u.overflow_count = s.overflow_count /\ u.thread_id = s.thread_id
      /\ u.entries_written = s.entries_written
  BY <1>1, RingFields
<1>3. PICK w : w = s.entries_written
  OBVIOUS
<1>4. /\ L \in Nat /\ F \in Nat /\ F <= L /\ L <= MaxRecord[t]
      /\ w \in Nat /\ w <= L /\ s.overflow_count <= w
      /\ IsRem(s.head, w, IndexMod) /\ Stored(t, s, L, w)
  BY <1>1, <1>3 DEF RingCore, RingBuffer
<1>5. L - L = 0 /\ w - (L - L) = w /\ L - L <= w
  BY <1>4
<1>6. Stored(t, u, L, w)
  BY <1>2, <1>4 DEF Stored
<1> QED
  BY <1>2, <1>3, <1>4, <1>5, <1>6 DEF RingCore

\* A ring with less than BufferSize unwritten events is left alone by the check for an
\* overflow; otherwise the overflow is counted.
LEMMA DetectCore ==
  ASSUME NEW t \in Thread, NEW u, NEW L, NEW F, RingCore(t, u, L, F),
         u.overflow_count < u.entries_written,
         NEW r, r = DetectOverflow(u)
  PROVE  /\ RingCore(t, r, L, F) /\ r.thread_id = u.thread_id
         /\ MaxRecord[t] < IndexMod /\ r.overflow_count = 0 => L - F < BufferSize
<1>1. PICK d, oc, w : d = L - F /\ oc = u.overflow_count /\ w = u.entries_written
  OBVIOUS
<1>2. d \in Nat /\ Distance(u) = d % IndexMod /\ w \in Nat /\ d <= w
  BY <1>1, Positions
<1>3. u \in RingBuffer(t) /\ oc \in Nat /\ L <= MaxRecord[t] /\ w <= L /\ L \in Nat /\ oc < w
  BY <1>1 DEF RingCore, RingBuffer
<1>4. MaxRecord[t] \in Nat /\ IndexMod \in Nat \ {0} /\ BufferSize \in Nat
  BY TraceAssumption
<1>5. MaxRecord[t] < IndexMod => d % IndexMod = d
  BY <1>2, <1>3, <1>4
<1>6. CASE Distance(u) >= BufferSize
  <2>1. PICK x \in Nat : x = (oc + 1) % IndexMod /\ x <= oc + 1 /\ (oc + 1 < IndexMod => x = oc + 1)
    BY <1>3, <1>4
  <2>2. r = [u EXCEPT !.overflow_count = x]
    BY <1>1, <1>6, <2>1 DEF DetectOverflow
  <2>3. /\ r \in RingBuffer(t) /\ r.overflow_count = x /\ r.head = u.head /\ r.tail = u.tail
        /\ r.entries = u.entries /\ r.thread_id = u.thread_id
        /\ r.entries_written = w
    BY <1>1, <1>3, <2>2, RingFields
  <2>4. x <= w
    BY <1>2, <1>3, <2>1
  <2>5. Stored(t, r, L, w)
    BY <1>1, <2>3 DEF RingCore, Stored
  <2>6. RingCore(t, r, L, F)
    BY <1>1, <2>3, <2>4, <2>5 DEF RingCore
  <2>7. MaxRecord[t] < IndexMod => x # 0
    BY <1>2, <1>3, <1>4, <2>1
  <2> QED
    BY <2>3, <2>6, <2>7
<1>7. CASE ~(Distance(u) >= BufferSize)
  <2>1. r = u
    BY <1>7 DEF DetectOverflow
  <2>2. MaxRecord[t] < IndexMod => d < BufferSize
    BY <1>2, <1>4, <1>5, <1>7
  <2> QED
    BY <1>1, <2>1, <2>2
<1> QED
  BY <1>6, <1>7

\* The automatic flush of a ring comes before it is full.
LEMMA Threshold ==
  ASSUME BufferSize >= 8
  PROVE  ((BufferSize * 3) % IndexMod) \div 4 \in Nat
         /\ ((BufferSize * 3) % IndexMod) \div 4 <= BufferSize - 2
<1>1. BufferSize \in Nat /\ IndexMod \in Nat \ {0}
  BY TraceAssumption
<1>2. PICK x \in Nat : x = (BufferSize * 3) % IndexMod /\ x <= BufferSize * 3
  BY <1>1
<1>3. PICK y \in Nat : y = x \div 4 /\ 4 * y <= x
  OBVIOUS
<1>4. y <= BufferSize - 2
  BY <1>1, <1>2, <1>3
<1> QED
  BY <1>2, <1>3, <1>4

\* Recording an event keeps a ring as it should be: either nothing is written, or the
\* ring is emptied and what is written comes after what was written before.
LEMMA RecordRing ==
  ASSUME NEW t \in Thread, NEW b, NEW L, NEW F, RingOK(t, b, L, F), L < MaxRecord[t],
         NEW s, s = Store(b, Entry(t, L + 1)), NEW f \in AutoFlushes(t, s),
         NEW r, r = DetectOverflow([s EXCEPT !.tail = f.tail])
  PROVE  /\ s.thread_id = b.thread_id /\ r.thread_id = b.thread_id
         /\ \/ f.out = <<>> /\ RingOK(t, r, L + 1, F)
            \/ TwoRuns(t, f.out, F, L + 1, Safe(t)) /\ RingOK(t, r, L + 1, L + 1)
<1>1. RingCore(t, s, L + 1, F)
  BY StoreCore DEF RingOK
<1>2. /\ b \in RingBuffer(t) /\ L \in Nat /\ F \in Nat /\ F <= L
      /\ b.overflow_count \in Nat /\ b.entries_written \in Nat
      /\ b.overflow_count <= b.entries_written
  BY DEF RingOK, RingCore, RingBuffer
<1>4. /\ s.thread_id = b.thread_id /\ s.overflow_count = b.overflow_count
      /\ s.entries_written = b.entries_written + 1
  BY StoreCore DEF RingOK
<1>3. s \in RingBuffer(t)
  BY <1>1 DEF RingCore
<1>5. s.overflow_count < s.entries_written
  BY <1>2, <1>4
<1>6. BufferSize \in Nat \ {0}
  BY TraceAssumption
<1>7. Safe(t) => (L + 1) - F < BufferSize /\ Idx(Distance(s)) = (L + 1) - F
  <2> SUFFICES ASSUME Safe(t)
               PROVE  (L + 1) - F < BufferSize /\ Idx(Distance(s)) = (L + 1) - F
    OBVIOUS
  <2>1. L - F <= BufferSize - 2
    BY DEF RingOK
  <2>2. (L + 1) - F < BufferSize
    BY <1>2, <1>6, <2>1
  <2> QED
    BY <1>1, <2>2, WholeCount
<1>8. ASSUME f = Nothing(s), Safe(t) => (L + 1) - F <= BufferSize - 2
      PROVE  f.out = <<>> /\ r.thread_id = s.thread_id /\ RingOK(t, r, L + 1, F)
  <2>1. f.out = <<>> /\ f.tail = s.tail
    BY <1>8 DEF Nothing
  <2>2. r = DetectOverflow(s)
    BY <1>3, <2>1, RingFields
  <2>3. /\ RingCore(t, r, L + 1, F) /\ r.thread_id = s.thread_id
        /\ MaxRecord[t] < IndexMod /\ r.overflow_count = 0 => (L + 1) - F < BufferSize
    BY <1>1, <1>5, <2>2, DetectCore
  <2> QED
    BY <1>8, <2>1, <2>3 DEF RingOK
<1>9. ASSUME f.tail = s.head
      PROVE  r.thread_id = s.thread_id /\ RingOK(t, r, L + 1, L + 1)
  <2>1. PICK u : u = [s EXCEPT !.tail = s.head]
    OBVIOUS
  <2>2. /\ RingCore(t, u, L + 1, L + 1) /\ u.overflow_count = s.overflow_count
        /\ u.entries_written = s.entries_written /\ u.thread_id = s.thread_id
    BY <1>1, <2>1, FlushCore
  <2>3. r = DetectOverflow(u)
    BY <1>9, <2>1
  <2>4. RingCore(t, r, L + 1, L + 1) /\ r.thread_id = s.thread_id
    BY <1>5, <2>2, <2>3, DetectCore
  <2>5. (L + 1) - (L + 1) = 0 /\ 0 < BufferSize /\ (Safe(t) => 0 <= BufferSize - 2)
    BY <1>2, <1>6 DEF Safe
  <2> QED
    BY <2>4, <2>5 DEF RingOK
<1>10. CASE Idx(Distance(s)) > ((BufferSize * 3) % IndexMod) \div 4
  <2>1. f \in Flushes(t, s)
    BY <1>10 DEF AutoFlushes
  <2>2. PICK all : all = (t \notin Faulty /\ (L + 1) - F < BufferSize)
    OBVIOUS
  <2>3. \/ f = Nothing(s) /\ (all => L + 1 = F)
        \/ f.tail = s.head /\ TwoRuns(t, f.out, F, L + 1, all)
    BY <1>1, <2>1, <2>2, FlushIs
  <2>4. Safe(t) => all
    BY <1>7, <2>2 DEF Safe
  <2>5. CASE f = Nothing(s) /\ (all => L + 1 = F)
    <3>1. L + 1 # F
      BY <1>2
    <3>2. Safe(t) => (L + 1) - F <= BufferSize - 2
      BY <2>4, <2>5, <3>1
    <3> QED
      BY <1>4, <1>8, <2>5, <3>2
  <2>6. CASE f.tail = s.head /\ TwoRuns(t, f.out, F, L + 1, all)
    <3>1. TwoRuns(t, f.out, F, L + 1, Safe(t))
      BY <2>4, <2>6 DEF TwoRuns
    <3> QED
      BY <1>4, <1>9, <2>6, <3>1
  <2> QED
    BY <2>3, <2>5, <2>6
<1>11. CASE ~(Idx(Distance(s)) > ((BufferSize * 3) % IndexMod) \div 4)
  <2>1. f = Nothing(s)
    BY <1>11 DEF AutoFlushes
  <2>2. Safe(t) => (L + 1) - F <= BufferSize - 2
    <3> SUFFICES ASSUME Safe(t) PROVE (L + 1) - F <= BufferSize - 2
      OBVIOUS
    <3>1. PICK y \in Nat : y = ((BufferSize * 3) % IndexMod) \div 4 /\ y <= BufferSize - 2
      BY Threshold DEF Safe
    <3>2. PICK d \in Int : d = (L + 1) - F
      BY <1>2
    <3>3. ~(d > y)
      BY <1>7, <1>11, <3>1, <3>2
    <3> QED
      BY <1>6, <3>1, <3>2, <3>3
  <2> QED
    BY <1>4, <1>8, <2>1, <2>2
<1> QED
  BY <1>10, <1>11

-----------------------------------------------------------------------------
(* The files *)

\* The events of a thread t are in order in file f, each at most once, and none is
\* after the F[t]-th.
FileOK(f, F) ==
  /\ f \in Seq(Thread \X Nat)
  /\ \A i \in 1 .. Len(f) : 1 <= f[i][2] /\ f[i][2] <= F[f[i][1]]
  /\ \A i, j \in 1 .. Len(f) : i < j /\ f[i][1] = f[j][1] => f[i][2] < f[j][2]

EventSeq == Seq(Thread \X Nat)

\* e is in file f.
In(e, f) == \E i \in 1 .. Len(f) : f[i] = e

\* Sequences of events can be put together in any order.
LEMMA Associative ==
  ASSUME NEW f \in EventSeq, NEW r \in EventSeq, NEW s \in EventSeq
  PROVE  (f \o r) \o s = f \o (r \o s)
<1>1. PICK S : S = Thread \X Nat
  OBVIOUS
<1>2. f \in Seq(S) /\ r \in Seq(S) /\ s \in Seq(S)
  BY <1>1 DEF EventSeq
<1> QED
  BY <1>2, ConcatAssociative

\* A run is a sequence of events.
LEMMA RunSeq ==
  ASSUME NEW t \in Thread, NEW a \in Nat, NEW n \in Nat
  PROVE  /\ Run(t, a, n) \in Seq(Thread \X Nat) /\ Len(Run(t, a, n)) = n
         /\ \A k \in 1 .. n : Run(t, a, n)[k] = Entry(t, a + k)
<1>1. \A k \in 1 .. n : Entry(t, a + k) \in Thread \X Nat
  BY DEF Entry
<1>2. PICK S : S = Thread \X Nat
  OBVIOUS
<1>3. \A k \in 1 .. n : Entry(t, a + k) \in S
  BY <1>1, <1>2
<1>4. /\ Run(t, a, n) \in Seq(S) /\ Len(Run(t, a, n)) = n
      /\ \A k \in 1 .. n : Run(t, a, n)[k] = Entry(t, a + k)
  BY <1>3 DEF Run
<1> QED
  BY <1>2, <1>4

\* g of t's events are done with.
Upto(F, t, g) == [F EXCEPT ![t] = g]

\* The n events of t after the a-th follow what file f has of t, and g covers them.
Follows(F, f, t, a, n, g) ==
  /\ F \in [Thread -> Nat] /\ FileOK(f, F) /\ t \in Thread
  /\ a \in Nat /\ n \in Nat /\ g \in Nat
  /\ F[t] <= a /\ a + n <= g

\* s is an orderly file that has what file f has, and the n events of t after the a-th.
Appended(G, f, s, t, a, n) ==
  /\ FileOK(s, G)
  /\ \A e : In(e, f) => In(e, s)
  /\ \A k \in 1 .. n : In(Entry(t, a + k), s)

\* A run after the F[t]-th event keeps a file in order.
LEMMA AppendRun ==
  ASSUME NEW F, NEW f, NEW t, NEW a, NEW n, NEW g, Follows(F, f, t, a, n, g)
  PROVE  Appended(Upto(F, t, g), f, f \o Run(t, a, n), t, a, n)
<1> SUFFICES ASSUME F \in [Thread -> Nat], FileOK(f, F), t \in Thread,
                    a \in Nat, n \in Nat, g \in Nat, F[t] <= a, a + n <= g,
                    NEW G, G = [F EXCEPT ![t] = g], NEW s, s = f \o Run(t, a, n)
             PROVE  Appended(G, f, s, t, a, n)
  BY DEF Follows, Upto
<1>1. PICK r, S : r = Run(t, a, n) /\ S = Thread \X Nat
  OBVIOUS
<1>2. /\ r \in Seq(S) /\ Len(r) = n /\ \A k \in 1 .. n : r[k] = Entry(t, a + k)
  BY <1>1, RunSeq
<1>3. f \in Seq(S) /\ Len(f) \in Nat
  BY <1>1 DEF FileOK
<1>4. /\ s \in Seq(S) /\ Len(s) = Len(f) + n
      /\ \A i \in 1 .. Len(s) : s[i] = IF i <= Len(f) THEN f[i] ELSE r[i - Len(f)]
  <2>1. s = f \o r /\ r \in Seq(S) /\ f \in Seq(S) /\ Len(r) = n
    BY <1>1, <1>2, <1>3
  <2>2. /\ f \o r \in Seq(S) /\ Len(f \o r) = Len(f) + Len(r)
        /\ \A i \in 1 .. Len(f) + Len(r) :
             (f \o r)[i] = IF i <= Len(f) THEN f[i] ELSE r[i - Len(f)]
    BY <2>1, ConcatProperties
  <2> QED
    BY <2>1, <2>2
<1>5. ASSUME NEW i \in 1 .. Len(s)
      PROVE  \/ i \in 1 .. Len(f) /\ s[i] = f[i]
             \/ i > Len(f) /\ s[i] = Entry(t, a + (i - Len(f))) /\ i - Len(f) \in 1 .. n
  BY <1>2, <1>3, <1>4
<1>6. ASSUME NEW k \in 1 .. n
      PROVE  Len(f) + k \in 1 .. Len(s) /\ s[Len(f) + k] = Entry(t, a + k)
  <2>1. PICK m \in Nat : m = Len(f) /\ Len(s) = m + n
    BY <1>3, <1>4
  <2>2. PICK i \in 1 .. m + n : i = m + k /\ ~(i <= m) /\ i - m = k
    OBVIOUS
  <2>3. s[i] = r[k]
    BY <1>4, <2>1, <2>2
  <2> QED
    BY <1>2, <2>1, <2>2, <2>3
<1>7. ASSUME NEW i \in 1 .. Len(f)
      PROVE  i \in 1 .. Len(s) /\ s[i] = f[i] /\ f[i][1] \in Thread /\ f[i][2] \in Nat
  <2>1. i \in 1 .. Len(s) /\ s[i] = f[i]
    BY <1>3, <1>4
  <2>2. f[i] \in Thread \X Nat
    BY <1>1, <1>3
  <2> QED
    BY <2>1, <2>2
<1>8. \A x : Entry(t, x)[1] = t /\ Entry(t, x)[2] = x
  BY DEF Entry
<1>9. \A i \in 1 .. Len(s) : 1 <= s[i][2] /\ s[i][2] <= G[s[i][1]]
  <2> SUFFICES ASSUME NEW i \in 1 .. Len(s) PROVE 1 <= s[i][2] /\ s[i][2] <= G[s[i][1]]
    OBVIOUS
  <2>1. CASE i \in 1 .. Len(f) /\ s[i] = f[i]
    <3>1. 1 <= f[i][2] /\ f[i][2] <= F[f[i][1]] /\ f[i][1] \in Thread /\ f[i][2] \in Nat
      BY <1>7, <2>1 DEF FileOK
    <3>2. F[f[i][1]] \in Nat /\ F[f[i][1]] <= G[f[i][1]] /\ G[f[i][1]] \in Nat
      BY <3>1
    <3> QED
      BY <2>1, <3>1, <3>2
  <2>2. CASE i > Len(f) /\ s[i] = Entry(t, a + (i - Len(f))) /\ i - Len(f) \in 1 .. n
    <3>1. s[i][1] = t /\ s[i][2] = a + (i - Len(f))
      BY <1>8, <2>2
    <3>2. G[t] = g
      OBVIOUS
    <3>3. PICK v \in 1 .. n : v = i - Len(f)
      BY <2>2
    <3>4. 1 <= a + v /\ a + v <= g
      OBVIOUS
    <3> QED
      BY <3>1, <3>2, <3>3, <3>4
  <2> QED
    BY <1>5, <2>1, <2>2
<1>10. \A i, j \in 1 .. Len(s) : i < j /\ s[i][1] = s[j][1] => s[i][2] < s[j][2]
  <2> SUFFICES ASSUME NEW i \in 1 .. Len(s), NEW j \in 1 .. Len(s), i < j, s[i][1] = s[j][1]
               PROVE  s[i][2] < s[j][2]
    OBVIOUS
  <2>1. CASE j \in 1 .. Len(f) /\ s[j] = f[j]
    <3>1. i \in 1 .. Len(f)
      BY <1>3, <1>4, <2>1
    <3> QED
      BY <1>7, <2>1, <3>1 DEF FileOK
  <2>2. CASE j > Len(f) /\ s[j] = Entry(t, a + (j - Len(f))) /\ j - Len(f) \in 1 .. n
    <3>1. s[j][1] = t /\ s[j][2] = a + (j - Len(f))
      BY <1>8, <2>2
    <3>2. CASE i \in 1 .. Len(f) /\ s[i] = f[i]
      <4>1. f[i][2] <= F[f[i][1]] /\ f[i][2] \in Nat /\ f[i][1] = t
        BY <1>7, <3>1, <3>2 DEF FileOK
      <4>2. f[i][2] <= F[t] /\ F[t] \in Nat
        BY <4>1
      <4>3. PICK v \in 1 .. n : v = j - Len(f)
        BY <2>2
      <4>4. PICK x \in Nat, y \in Nat : x = f[i][2] /\ y = F[t] /\ x <= y /\ y <= a
        BY <4>1, <4>2
      <4>5. x < a + v
        BY <4>4
      <4> QED
        BY <3>1, <3>2, <4>3, <4>4, <4>5
    <3>3. CASE i > Len(f) /\ s[i] = Entry(t, a + (i - Len(f))) /\ i - Len(f) \in 1 .. n
      <4>1. s[i][2] = a + (i - Len(f))
        BY <1>8, <3>3
      <4> QED
        BY <1>3, <1>4, <3>1, <4>1
    <3> QED
      BY <1>5, <3>2, <3>3
  <2> QED
    BY <1>5, <2>1, <2>2
<1> QED
  BY <1>1, <1>4, <1>6, <1>7, <1>9, <1>10 DEF FileOK, In, Appended

\* A file stays in order when more of t's events are done with.
LEMMA FileGrow ==
  ASSUME NEW F \in [Thread -> Nat], NEW f, FileOK(f, F), NEW t \in Thread,
         NEW g \in Nat, F[t] <= g
  PROVE  FileOK(f, Upto(F, t, g))
<1> DEFINE G == Upto(F, t, g)
<1>1. \A u \in Thread : F[u] \in Nat /\ G[u] \in Nat /\ F[u] <= G[u]
  BY DEF Upto
<1> HIDE DEF G
<1>2. \A i \in 1 .. Len(f) : f[i] \in Thread \X Nat
  BY DEF FileOK
<1>3. \A i \in 1 .. Len(f) : 1 <= f[i][2] /\ f[i][2] <= G[f[i][1]]
  <2> SUFFICES ASSUME NEW i \in 1 .. Len(f) PROVE 1 <= f[i][2] /\ f[i][2] <= G[f[i][1]]
    OBVIOUS
  <2>1. PICK x \in Thread, y \in Nat : x = f[i][1] /\ y = f[i][2]
    BY <1>2
  <2>2. 1 <= y /\ y <= F[x]
    BY <2>1 DEF FileOK
  <2>3. F[x] \in Nat /\ G[x] \in Nat /\ F[x] <= G[x]
    BY <1>1
  <2>4. y <= G[x]
    BY <2>2, <2>3
  <2> QED
    BY <2>1, <2>2, <2>4
<1>4. FileOK(f, G)
  BY <1>3 DEF FileOK
<1> QED
  BY <1>4 DEF G

\* What a flush writes keeps a file in order.
LEMMA AppendTwo ==
  ASSUME NEW F, NEW f, NEW t, NEW g, NEW o, NEW all, Follows(F, f, t, F[t], 0, g),
         TwoRuns(t, o, F[t], g, all)
  PROVE  /\ FileOK(f \o o, Upto(F, t, g))
         /\ \A e : In(e, f) => In(e, f \o o)
         /\ all => \A n \in F[t] + 1 .. g : In(Entry(t, n), f \o o)
<1> SUFFICES ASSUME F \in [Thread -> Nat], FileOK(f, F), t \in Thread, g \in Nat,
                    NEW G, G = Upto(F, t, g), NEW s, s = f \o o
             PROVE  /\ FileOK(s, G) /\ \A e : In(e, f) => In(e, s)
                    /\ all => \A n \in F[t] + 1 .. g : In(Entry(t, n), s)
  BY DEF Follows
<1>1. PICK a \in Nat, b \in Nat, m \in Nat, n \in Nat :
        /\ o = Run(t, a, m) \o Run(t, b, n)
        /\ F[t] <= a /\ a + m <= b /\ b + n <= g
        /\ all => a = F[t] /\ a + m = b /\ b + n = g
  BY DEF TwoRuns
<1>2. PICK g1 \in Nat : a + m <= g1 /\ g1 <= b
  <2>1. a + m \in Nat /\ a + m <= b
    BY <1>1
  <2> QED
    BY <2>1
<1>3. PICK G1 : G1 = Upto(F, t, g1)
  OBVIOUS
<1>4. PICK r1, r2 : r1 = Run(t, a, m) /\ r2 = Run(t, b, n)
  OBVIOUS
<1>5. PICK s1 : s1 = f \o Run(t, a, m)
  OBVIOUS
<1>6. /\ FileOK(s1, G1) /\ \A e : In(e, f) => In(e, s1)
      /\ \A k \in 1 .. m : In(Entry(t, a + k), s1)
  <2>1. F[t] <= a /\ a + m <= g1
    BY <1>1, <1>2
  <2>2. Follows(F, f, t, a, m, g1)
    BY <2>1 DEF Follows
  <2> QED
    BY <1>3, <1>5, <2>2, AppendRun DEF Appended
<1>7. s = s1 \o Run(t, b, n)
  <2>1. r1 \in EventSeq /\ r2 \in EventSeq /\ f \in EventSeq
    BY <1>4, RunSeq DEF FileOK, EventSeq
  <2>2. (f \o r1) \o r2 = f \o (r1 \o r2)
    BY <2>1, Associative
  <2> QED
    BY <1>1, <1>4, <1>5, <2>2
<1>8. /\ FileOK(s, G) /\ \A e : In(e, s1) => In(e, s)
      /\ \A k \in 1 .. n : In(Entry(t, b + k), s)
  <2>1. G1 \in [Thread -> Nat] /\ G1[t] = g1 /\ G = Upto(G1, t, g)
    BY <1>3 DEF Upto
  <2>2. G1[t] <= b /\ b + n <= g
    BY <1>1, <1>2, <2>1
  <2>3. Follows(G1, s1, t, b, n, g)
    BY <1>6, <2>1, <2>2 DEF Follows
  <2> QED
    BY <1>7, <2>1, <2>3, AppendRun DEF Appended
<1>9. ASSUME all, NEW x \in F[t] + 1 .. g PROVE In(Entry(t, x), s)
  <2>1. F[t] \in Nat
    OBVIOUS
  <2>2. a = F[t] /\ a + m = b /\ b + n = g
    BY <1>1, <1>9
  <2>3. CASE x <= b
    <3>1. PICK k \in 1 .. m : x = a + k
      <4>1. x - a \in 1 .. m /\ x = a + (x - a)
        BY <2>1, <2>2, <2>3
      <4> QED
        BY <4>1
    <3> QED
      BY <1>6, <1>8, <3>1
  <2>4. CASE ~(x <= b)
    <3>1. PICK k \in 1 .. n : x = b + k
      <4>1. x - b \in 1 .. n /\ x = b + (x - b)
        BY <2>1, <2>2, <2>4
      <4> QED
        BY <4>1
    <3> QED
      BY <1>8, <3>1
  <2> QED
    BY <2>3, <2>4
<1> QED
  BY <1>6, <1>8, <1>9

-----------------------------------------------------------------------------
(* The invariant *)

\* t's ring, or what is left of a ring that t has given up.
BufferOK(t, b, L, n) ==
  IF b = NoBuffer THEN n <= L /\ (Safe(t) => n = L) ELSE RingOK(t, b, L, n)

TraceTypes ==
  /\ active \in BOOLEAN /\ next_thread_id \in 0 .. IndexMod - 1
  /\ inits \in 0 .. MaxInit
  /\ logged \in [Thread -> Nat] /\ \A t \in Thread : logged[t] <= MaxRecord[t]
  /\ DOMAIN tls_buffer = Thread /\ DOMAIN file = 0 .. IdMod - 1

\* F[t] is the number of t's events that are done with: written, lost, or cut off.
\* The files know none after it, the ring starts after it, and of a safe thread
\* all events up to it are in the files.
Done(F) ==
  /\ F \in [Thread -> Nat]
  /\ \A id \in 0 .. IdMod - 1 : FileOK(file[id], F)
  /\ \A t \in Thread : BufferOK(t, tls_buffer[t], logged[t], F[t])
  /\ \A t \in Thread : Safe(t) =>
       \A n \in 1 .. F[t] : \E id \in 0 .. IdMod - 1 : In(Entry(t, n), file[id])

TraceInv == TraceTypes /\ \E F : Done(F)

\* One thread's call: it appends o to a file and leaves ring r, with g of its events
\* done with.
LEMMA CallKeeps ==
  ASSUME TraceTypes, NEW F, Done(F), NEW t \in Thread, NEW id \in 0 .. IdMod - 1,
         NEW o, NEW r, NEW g \in Nat,
         AppendTo(id, o), tls_buffer' = [tls_buffer EXCEPT ![t] = r],
         DOMAIN logged' = Thread, \A u \in Thread \ {t} : logged'[u] = logged[u],
         BufferOK(t, r, logged'[t], g),
         \/ o = <<>> /\ F[t] <= g /\ (Safe(t) => F[t] = g)
         \/ TwoRuns(t, o, F[t], g, Safe(t)) /\ F[t] <= g
  PROVE  /\ DOMAIN tls_buffer' = Thread /\ DOMAIN file' = 0 .. IdMod - 1
         /\ Done(Upto(F, t, g))'
<1> DEFINE G == Upto(F, t, g)
<1>1. /\ F \in [Thread -> Nat] /\ G \in [Thread -> Nat] /\ F[t] <= g
      /\ G[t] = g /\ \A u \in Thread : u # t => G[u] = F[u]
  BY DEF Done, Upto
<1>2. /\ DOMAIN tls_buffer' = Thread /\ DOMAIN file' = 0 .. IdMod - 1
      /\ file'[id] = file[id] \o o
      /\ \A x \in 0 .. IdMod - 1 : x # id => file'[x] = file[x]
  BY DEF TraceTypes, AppendTo
<1>3. \A u \in Thread : BufferOK(u, tls_buffer'[u], logged'[u], G[u])
  <2> SUFFICES ASSUME NEW u \in Thread PROVE BufferOK(u, tls_buffer'[u], logged'[u], G[u])
    OBVIOUS
  <2>1. CASE u = t
    <3>1. tls_buffer'[t] = r /\ G[t] = g
      BY <1>1 DEF TraceTypes
    <3> QED
      BY <2>1, <3>1
  <2>2. CASE u # t
    <3>1. tls_buffer'[u] = tls_buffer[u] /\ G[u] = F[u] /\ logged'[u] = logged[u]
      BY <1>1, <2>2 DEF TraceTypes
    <3>2. BufferOK(u, tls_buffer[u], logged[u], F[u])
      BY DEF Done
    <3> QED
      BY <3>1, <3>2
  <2> QED
    BY <2>1, <2>2
<1>4. FileOK(file[id], F) /\ file[id] \in Seq(Thread \X Nat)
  BY DEF Done, FileOK
<1>5. /\ FileOK(file'[id], G)
      /\ \A e : In(e, file[id]) => In(e, file'[id])
      /\ Safe(t) => \A n \in F[t] + 1 .. g : In(Entry(t, n), file'[id])
  <2>1. CASE o = <<>> /\ (Safe(t) => F[t] = g)
    <3>1. file'[id] = file[id]
      BY <1>2, <1>4, <2>1, ConcatEmptySeq
    <3>2. FileOK(file[id], G)
      BY <1>1, <1>4, FileGrow
    <3>3. Safe(t) => \A n \in F[t] + 1 .. g : FALSE
      BY <1>1, <2>1
    <3> QED
      BY <3>1, <3>2, <3>3
  <2>2. CASE TwoRuns(t, o, F[t], g, Safe(t))
    <3>1. PICK f, all, s : f = file[id] /\ all = Safe(t) /\ s = f \o o
      OBVIOUS
    <3>2. FileOK(f, F) /\ TwoRuns(t, o, F[t], g, all)
      BY <1>4, <2>2, <3>1
    <3>3. /\ FileOK(s, G) /\ \A e : In(e, f) => In(e, s)
          /\ all => \A n \in F[t] + 1 .. g : In(Entry(t, n), s)
      <4>1. F[t] \in Nat /\ F[t] + 0 <= g /\ F[t] <= F[t]
        BY <1>1
      <4>2. Follows(F, f, t, F[t], 0, g)
        BY <1>1, <3>2, <4>1 DEF Follows
      <4> QED
        BY <3>1, <3>2, <4>2, AppendTwo
    <3>4. s = file'[id]
      BY <1>2, <3>1
    <3> QED
      BY <3>1, <3>3, <3>4
  <2> QED
    BY <2>1, <2>2
<1>6. \A x \in 0 .. IdMod - 1 : FileOK(file'[x], G)
  <2> SUFFICES ASSUME NEW x \in 0 .. IdMod - 1, x # id PROVE FileOK(file'[x], G)
    BY <1>5
  <2>1. FileOK(file[x], F)
    BY DEF Done
  <2>2. FileOK(file[x], G)
    BY <1>1, <2>1, FileGrow
  <2> QED
    BY <1>2, <2>2
<1>7. \A u \in Thread : Safe(u) =>
         \A n \in 1 .. G[u] : \E x \in 0 .. IdMod - 1 : In(Entry(u, n), file'[x])
  <2> SUFFICES ASSUME NEW u \in Thread, Safe(u), NEW n \in 1 .. G[u]
               PROVE  \E x \in 0 .. IdMod - 1 : In(Entry(u, n), file'[x])
    OBVIOUS
  <2>1. CASE n \in 1 .. F[u]
    <3>1. PICK x \in 0 .. IdMod - 1 : In(Entry(u, n), file[x])
      BY <2>1 DEF Done
    <3>2. CASE x = id
      BY <1>5, <3>1, <3>2
    <3>3. CASE x # id
      BY <1>2, <3>1, <3>3
    <3> QED
      BY <3>2, <3>3
  <2>2. CASE n \notin 1 .. F[u]
    <3>1. u = t
      BY <1>1, <2>2
    <3>2. G[t] = g /\ F[t] \in Nat
      BY <1>1
    <3>3. n \in F[t] + 1 .. g
      BY <2>2, <3>1, <3>2
    <3> QED
      BY <1>5, <3>1, <3>3
  <2> QED
    BY <2>1, <2>2
<1>8. PICK H : H = G
  OBVIOUS
<1>9. Done(H)'
  BY <1>1, <1>3, <1>6, <1>7, <1>8 DEF Done
<1> QED
  BY <1>2, <1>8, <1>9

\* A ring is not NoBuffer, and its thread_id names a file.
LEMMA RingIsBuffer ==
  ASSUME NEW t \in Thread, NEW b, NEW L, NEW F, RingOK(t, b, L, F)
  PROVE  b # NoBuffer /\ b.thread_id \in 0 .. IdMod - 1
<1>1. b.thread_id \in 0 .. IdMod - 1
  BY DEF RingOK, RingCore, RingBuffer
<1>2. NoBuffer.thread_id = -1
  BY DEF NoBuffer
<1>3. -1 \notin 0 .. IdMod - 1
  BY TraceAssumption
<1> QED
  BY <1>1, <1>2, <1>3

\* Recording into ring b.
LEMMA RecordStep ==
  ASSUME TraceTypes, NEW F, Done(F), NEW t \in Thread, NEW b,
         RingOK(t, b, logged[t], F[t]), RecordInto(t, b),
         next_thread_id' \in 0 .. IndexMod - 1
  PROVE  TraceInv'
<1>1. PICK L \in Nat, n \in Nat : L = logged[t] /\ n = F[t]
  BY DEF TraceTypes, Done
<1>2. PICK s : s = Store(b, Entry(t, L + 1))
  OBVIOUS
<1>3. /\ L < MaxRecord[t] /\ logged' = [logged EXCEPT ![t] = L + 1]
      /\ active' = active /\ inits' = inits
  BY <1>1 DEF RecordInto
<1>4. PICK f \in AutoFlushes(t, s) :
        /\ AppendTo(s.thread_id, f.out)
        /\ tls_buffer' = [tls_buffer EXCEPT ![t] = DetectOverflow([s EXCEPT !.tail = f.tail])]
  BY <1>1, <1>2 DEF RecordInto
<1>5. PICK r : r = DetectOverflow([s EXCEPT !.tail = f.tail])
  OBVIOUS
<1>6. RingOK(t, b, L, n)
  BY <1>1
<1>7. /\ s.thread_id = b.thread_id
      /\ \/ f.out = <<>> /\ RingOK(t, r, L + 1, n)
         \/ TwoRuns(t, f.out, n, L + 1, Safe(t)) /\ RingOK(t, r, L + 1, L + 1)
  BY <1>2, <1>3, <1>5, <1>6, RecordRing
<1>8. s.thread_id \in 0 .. IdMod - 1
  BY <1>6, <1>7, RingIsBuffer
<1>9. /\ logged'[t] = L + 1 /\ DOMAIN logged' = Thread /\ logged' \in [Thread -> Nat]
      /\ \A u \in Thread \ {t} : logged'[u] = logged[u]
      /\ \A u \in Thread : logged'[u] <= MaxRecord[u]
  <2>1. logged'[t] = L + 1 /\ DOMAIN logged' = Thread /\ logged' \in [Thread -> Nat]
    BY <1>1, <1>3 DEF TraceTypes
  <2>2. \A u \in Thread \ {t} : logged'[u] = logged[u]
    BY <1>3 DEF TraceTypes
  <2>3. L + 1 <= MaxRecord[t]
    <3>1. MaxRecord[t] \in Nat
      BY TraceAssumption
    <3> QED
      BY <1>3, <3>1
  <2> QED
    BY <2>1, <2>2, <2>3 DEF TraceTypes
<1>10. n <= L
  BY <1>6 DEF RingOK, RingCore
<1>11. \E g \in Nat : /\ DOMAIN tls_buffer' = Thread /\ DOMAIN file' = 0 .. IdMod - 1
                      /\ Done(Upto(F, t, g))'
  <2>1. ASSUME NEW g \in Nat, RingOK(t, r, L + 1, g),
               \/ f.out = <<>> /\ F[t] <= g /\ (Safe(t) => F[t] = g)
               \/ TwoRuns(t, f.out, F[t], g, Safe(t)) /\ F[t] <= g
        PROVE  DOMAIN tls_buffer' = Thread /\ DOMAIN file' = 0 .. IdMod - 1 /\ Done(Upto(F, t, g))'
    <3>1. r # NoBuffer
      BY <2>1, RingIsBuffer
    <3>2. BufferOK(t, r, logged'[t], g)
      BY <1>9, <2>1, <3>1 DEF BufferOK
    <3>0. PICK o : o = f.out
      OBVIOUS
    <3>3. PICK id \in 0 .. IdMod - 1 : id = s.thread_id /\ o = f.out
      BY <3>0, <1>8
    <3>4. AppendTo(id, o) /\ tls_buffer' = [tls_buffer EXCEPT ![t] = r]
      BY <1>4, <1>5, <3>3
    <3>5. \/ o = <<>> /\ F[t] <= g /\ (Safe(t) => F[t] = g)
          \/ TwoRuns(t, o, F[t], g, Safe(t)) /\ F[t] <= g
      BY <2>1, <3>3
    <3> QED
      BY <1>9, <3>2, <3>4, <3>5, CallKeeps
  <2>2. CASE f.out = <<>> /\ RingOK(t, r, L + 1, n)
    BY <1>1, <2>1, <2>2
  <2>3. CASE TwoRuns(t, f.out, n, L + 1, Safe(t)) /\ RingOK(t, r, L + 1, L + 1)
    <3>1. L + 1 \in Nat /\ n <= L + 1
      BY <1>10
    <3> QED
      BY <1>1, <2>1, <2>3, <3>1
  <2> QED
    BY <1>7, <2>2, <2>3
<1>12. PICK g \in Nat : /\ DOMAIN tls_buffer' = Thread /\ DOMAIN file' = 0 .. IdMod - 1
                        /\ Done(Upto(F, t, g))'
  BY <1>11
<1>13. TraceTypes'
  BY <1>3, <1>9, <1>12 DEF TraceTypes
<1> QED
  BY <1>12, <1>13 DEF TraceInv

\* A thread without a ring: all its events are done with.
LEMMA NoRing ==
  ASSUME TraceTypes, NEW F, Done(F), NEW t \in Thread, tls_buffer[t] = NoBuffer
  PROVE  Done(Upto(F, t, logged[t]))
<1>0. PICK G : G = Upto(F, t, logged[t])
  OBVIOUS
<1>1. PICK L \in Nat, n \in Nat : L = logged[t] /\ n = F[t] /\ G = Upto(F, t, L)
  BY <1>0 DEF TraceTypes, Done
<1>2. n <= L /\ (Safe(t) => n = L)
  BY <1>1 DEF Done, BufferOK
<1>3. /\ F \in [Thread -> Nat] /\ G \in [Thread -> Nat]
      /\ G[t] = L /\ \A u \in Thread : u # t => G[u] = F[u]
  BY <1>1 DEF Done, Upto
<1>4. \A id \in 0 .. IdMod - 1 : FileOK(file[id], G)
  <2> SUFFICES ASSUME NEW id \in 0 .. IdMod - 1 PROVE FileOK(file[id], G)
    OBVIOUS
  <2>1. FileOK(file[id], F)
    BY DEF Done
  <2> QED
    BY <1>1, <1>2, <1>3, <2>1, FileGrow
<1>5. \A u \in Thread : BufferOK(u, tls_buffer[u], logged[u], G[u])
  <2>1. BufferOK(t, tls_buffer[t], logged[t], L)
    BY <1>1 DEF BufferOK
  <2>2. \A u \in Thread : BufferOK(u, tls_buffer[u], logged[u], F[u])
    BY DEF Done
  <2> QED
    BY <1>3, <2>1, <2>2
<1>6. \A u \in Thread : Safe(u) => G[u] = F[u]
  BY <1>1, <1>2, <1>3
<1>7. Done(G)
  BY <1>3, <1>4, <1>5, <1>6 DEF Done
<1> QED
  BY <1>1, <1>7

\* Giving up a ring: it is flushed and freed.
LEMMA FreeStep ==
  ASSUME TraceTypes, NEW F, Done(F), NEW t \in Thread, tls_buffer[t] # NoBuffer,
         \E f \in Flushes(t, tls_buffer[t]) : AppendTo(tls_buffer[t].thread_id, f.out),
         tls_buffer' = [tls_buffer EXCEPT ![t] = NoBuffer],
         active' \in BOOLEAN, UNCHANGED <<next_thread_id, logged, inits>>
  PROVE  TraceInv'
<1>0. PICK b : b = tls_buffer[t]
  OBVIOUS
<1>1. PICK L \in Nat, n \in Nat : L = logged[t] /\ n = F[t] /\ b = tls_buffer[t]
  BY <1>0 DEF TraceTypes, Done
<1>2. RingOK(t, b, L, n)
  BY <1>1 DEF Done, BufferOK
<1>3. PICK f \in Flushes(t, b) : AppendTo(b.thread_id, f.out)
  BY <1>1
<1>4. PICK all : all = (t \notin Faulty /\ L - n < BufferSize)
  OBVIOUS
<1>5. \/ f = Nothing(b) /\ (all => L = n)
      \/ f.tail = b.head /\ TwoRuns(t, f.out, n, L, all)
  BY <1>2, <1>4, FlushIs DEF RingOK
<1>6. n <= L
  BY <1>2 DEF RingOK, RingCore
<1>7. Safe(t) => all
  <2>1. BufferSize \in Nat
    BY TraceAssumption
  <2>2. Safe(t) => t \notin Faulty /\ L - n <= BufferSize - 2
    BY <1>2 DEF RingOK, Safe
  <2>3. Safe(t) => L - n < BufferSize
    BY <2>1, <2>2
  <2> QED
    BY <1>4, <2>2, <2>3
<1>8. \/ f.out = <<>> /\ (Safe(t) => n = L)
      \/ TwoRuns(t, f.out, n, L, Safe(t))
  <2>1. CASE f = Nothing(b) /\ (all => L = n)
    BY <1>7, <2>1 DEF Nothing
  <2>2. CASE f.tail = b.head /\ TwoRuns(t, f.out, n, L, all)
    BY <1>7, <2>2 DEF TwoRuns
  <2> QED
    BY <1>5, <2>1, <2>2
<1>9. b.thread_id \in 0 .. IdMod - 1
  BY <1>2, RingIsBuffer
<1>10. BufferOK(t, NoBuffer, logged'[t], L)
  BY <1>1 DEF BufferOK
<1>17. PICK o : o = f.out
  OBVIOUS
<1>11. PICK id \in 0 .. IdMod - 1 : id = b.thread_id /\ o = f.out
  BY <1>17, <1>9
<1>12. AppendTo(id, o)
  BY <1>3, <1>11
<1>13. \/ o = <<>> /\ F[t] <= L /\ (Safe(t) => F[t] = L)
       \/ TwoRuns(t, o, F[t], L, Safe(t)) /\ F[t] <= L
  BY <1>1, <1>6, <1>8, <1>11
<1>14. DOMAIN logged' = Thread /\ \A u \in Thread \ {t} : logged'[u] = logged[u]
  BY DEF TraceTypes
<1>15. /\ DOMAIN tls_buffer' = Thread /\ DOMAIN file' = 0 .. IdMod - 1
       /\ Done(Upto(F, t, L))'
  BY <1>10, <1>12, <1>13, <1>14, CallKeeps
<1>16. TraceTypes'
  BY <1>15 DEF TraceTypes
<1> QED
  BY <1>15, <1>16 DEF TraceInv

\* Nothing has happened at first.
LEMMA TraceInit == Init => TraceInv
<1> SUFFICES ASSUME Init PROVE TraceInv
  OBVIOUS
<1>1. TraceTypes
  <2>1. MaxRecord \in [Thread -> Nat] /\ MaxInit \in Nat /\ IndexMod \in Nat /\ 0 < IndexMod
    BY TraceAssumption
  <2> QED
    <3>1. active \in BOOLEAN
      BY DEF Init
    <3>2. next_thread_id \in 0 .. IndexMod - 1 /\ inits \in 0 .. MaxInit
      BY <2>1 DEF Init
    <3>3. /\ logged \in [Thread -> Nat] /\ \A t \in Thread : logged[t] <= MaxRecord[t]
          /\ DOMAIN tls_buffer = Thread /\ DOMAIN file = 0 .. IdMod - 1
      BY <2>1 DEF Init
    <3> QED
      BY <3>1, <3>2, <3>3 DEF TraceTypes
<1>2. PICK F : F = [t \in Thread |-> 0]
  OBVIOUS
<1>3. F \in [Thread -> Nat] /\ \A t \in Thread : F[t] = 0
  BY <1>2
<1>4. \A id \in 0 .. IdMod - 1 : FileOK(file[id], F)
  BY DEF Init, FileOK
<1>5. \A t \in Thread : BufferOK(t, tls_buffer[t], logged[t], F[t])
  BY <1>3 DEF Init, BufferOK
<1>6. Done(F)
  BY <1>3, <1>4, <1>5 DEF Done
<1> QED
  BY <1>1, <1>6 DEF TraceInv

\* Every call keeps the invariant.
LEMMA TraceStep == TraceInv /\ [Next]_vars => TraceInv'
<1> SUFFICES ASSUME TraceInv, [Next]_vars PROVE TraceInv'
  OBVIOUS
<1>1. TraceTypes
  BY DEF TraceInv
<1>2. PICK F : Done(F)
  BY DEF TraceInv
<1>3. CASE UNCHANGED vars
  <2>1. TraceTypes'
    BY <1>1, <1>3 DEF TraceTypes, vars
  <2>2. Done(F)'
    BY <1>2, <1>3 DEF Done, vars
  <2> QED
    BY <2>1, <2>2 DEF TraceInv
<1>4. CASE anam_trace_init
  <2>1. inits' \in 0 .. MaxInit /\ next_thread_id' \in 0 .. IndexMod - 1 /\ active' \in BOOLEAN
    <3>1. MaxInit \in Nat /\ IndexMod \in Nat /\ 0 < IndexMod
      BY TraceAssumption
    <3> QED
      BY <1>1, <1>4, <3>1 DEF anam_trace_init, TraceTypes
  <2>2. UNCHANGED <<tls_buffer, file, logged>>
    BY <1>4 DEF anam_trace_init
  <2>3. TraceTypes'
    BY <1>1, <2>1, <2>2 DEF TraceTypes
  <2>4. Done(F)'
    BY <1>2, <2>2 DEF Done
  <2> QED
    BY <2>3, <2>4 DEF TraceInv
<1>5. ASSUME NEW t \in Thread, Record(t) PROVE TraceInv'
  <2>1. PICK b : b = tls_buffer[t]
    OBVIOUS
  <2>2. b # NoBuffer /\ RecordInto(t, b) /\ next_thread_id' = next_thread_id
    BY <1>5, <2>1 DEF Record
  <2>3. RingOK(t, b, logged[t], F[t])
    BY <1>2, <2>1, <2>2 DEF Done, BufferOK
  <2>4. next_thread_id' \in 0 .. IndexMod - 1
    BY <1>1, <2>2 DEF TraceTypes
  <2> QED
    BY <1>1, <1>2, <2>2, <2>3, <2>4, RecordStep
<1>6. ASSUME NEW t \in Thread, RecordFirst(t) PROVE TraceInv'
  <2>1. PICK b, L, G : b = anam_trace_buffer_create /\ L = logged[t] /\ G = Upto(F, t, L)
    OBVIOUS
  <2>2. tls_buffer[t] = NoBuffer /\ RecordInto(t, b)
        /\ next_thread_id' = (next_thread_id + 1) % IndexMod
    BY <1>6, <2>1 DEF RecordFirst
  <2>3. Done(G)
    BY <1>1, <1>2, <2>1, <2>2, NoRing
  <2>4. L \in Nat /\ L <= MaxRecord[t] /\ next_thread_id \in Nat /\ G[t] = L
    BY <1>1, <1>2, <2>1 DEF TraceTypes, Done, Upto
  <2>5. RingOK(t, b, L, L)
    BY <2>1, <2>4, CreateCore
  <2>6. RingOK(t, b, logged[t], G[t])
    BY <2>1, <2>4, <2>5
  <2>7. next_thread_id' \in 0 .. IndexMod - 1
    <3>1. IndexMod \in Nat \ {0}
      BY TraceAssumption
    <3> QED
      BY <2>2, <2>4, <3>1
  <2> QED
    BY <1>1, <2>2, <2>3, <2>6, <2>7, RecordStep
<1>7. ASSUME NEW t \in Thread, FlushThread(t) PROVE TraceInv'
  <2>1. /\ tls_buffer[t] # NoBuffer
        /\ \E f \in Flushes(t, tls_buffer[t]) : AppendTo(tls_buffer[t].thread_id, f.out)
        /\ tls_buffer' = [tls_buffer EXCEPT ![t] = NoBuffer]
        /\ UNCHANGED <<next_thread_id, logged, inits>> /\ active' = active
    BY <1>7 DEF FlushThread
  <2>2. active' \in BOOLEAN
    BY <1>1, <2>1 DEF TraceTypes
  <2> QED
    BY <1>1, <1>2, <2>1, <2>2, FreeStep
<1>8. ASSUME NEW t \in Thread, anam_trace_shutdown(t) PROVE TraceInv'
  <2>1. active' \in BOOLEAN /\ UNCHANGED <<next_thread_id, logged, inits>>
    BY <1>8 DEF anam_trace_shutdown
  <2>2. CASE tls_buffer[t] = NoBuffer
    <3>1. UNCHANGED <<tls_buffer, file>>
      BY <1>8, <2>2 DEF anam_trace_shutdown
    <3>2. TraceTypes'
      BY <1>1, <2>1, <3>1 DEF TraceTypes
    <3>3. Done(F)'
      BY <1>2, <2>1, <3>1 DEF Done
    <3> QED
      BY <3>2, <3>3 DEF TraceInv
  <2>3. CASE tls_buffer[t] # NoBuffer
    <3>1. /\ \E f \in Flushes(t, tls_buffer[t]) : AppendTo(tls_buffer[t].thread_id, f.out)
          /\ tls_buffer' = [tls_buffer EXCEPT ![t] = NoBuffer]
      BY <1>8, <2>3 DEF anam_trace_shutdown
    <3> QED
      BY <1>1, <1>2, <2>1, <2>3, <3>1, FreeStep
  <2> QED
    BY <2>2, <2>3
<1> QED
  BY <1>3, <1>4, <1>5, <1>6, <1>7, <1>8 DEF Next

\* The rings and files are always as Done says, whatever the disk does.
THEOREM TraceInvariance == Spec => []TraceInv
BY TraceInit, TraceStep, PTL DEF Spec

\* Types: a ring that was created stays a ring, with indices that are uint32_t values
\* and with events of its own thread only.
THEOREM TraceTypeCorrect == Spec => []TypeOK
<1>1. TraceInv => TypeOK
  <2> SUFFICES ASSUME TraceInv PROVE TypeOK
    OBVIOUS
  <2>1. PICK F : Done(F)
    BY DEF TraceInv
  <2>2. TraceTypes
    BY DEF TraceInv
  <2>3. ASSUME NEW t \in Buffers
        PROVE  /\ tls_buffer[t].head \in 0 .. IndexMod - 1
               /\ tls_buffer[t].tail \in 0 .. IndexMod - 1
               /\ tls_buffer[t].thread_id \in 0 .. IdMod - 1
               /\ tls_buffer[t].entries \in [0 .. BufferSize - 1 -> Cells(t)]
    <3>1. t \in Thread /\ tls_buffer[t] # NoBuffer
      BY DEF Buffers
    <3>2. RingOK(t, tls_buffer[t], logged[t], F[t])
      BY <2>1, <3>1 DEF Done, BufferOK
    <3> QED
      BY <3>2 DEF RingOK, RingCore, RingBuffer
  <2> QED
    BY <2>2, <2>3 DEF TypeOK, TraceTypes, Cells
<1> QED
  BY <1>1, TraceInvariance, PTL

-----------------------------------------------------------------------------
(* What the invariant says about the trace *)

\* The next flush of t, if the disk works, writes events that are not done with: all
\* of them, unless the ring has run over.
LEMMA UnflushedIs ==
  ASSUME TraceTypes, NEW F, Done(F), NEW t \in Buffers, NEW o, o = Unflushed(t),
         NEW all, all = (logged[t] - F[t] < BufferSize)
  PROVE  \/ o = <<>> /\ (all => logged[t] = F[t])
         \/ TwoRuns(t, o, F[t], logged[t], all)
<1>0. PICK b : b = tls_buffer[t]
  OBVIOUS
<1>1. PICK L \in Nat, n \in Nat : L = logged[t] /\ n = F[t] /\ b = tls_buffer[t]
  BY <1>0 DEF TraceTypes, Done, Buffers
<1>2. RingCore(t, b, L, n) /\ t \in Thread /\ n <= L
  BY <1>1 DEF Done, BufferOK, RingOK, RingCore, Buffers
<1>3. CASE b.head = b.tail \/ FlushCount(b) = 0
  <2>1. o = <<>>
    BY <1>1, <1>3 DEF Unflushed
  <2>2. all => L = n
    <3> SUFFICES ASSUME L - n < BufferSize, L # n PROVE FALSE
      BY <1>1
    <3>1. b.head # b.tail /\ FlushCount(b) = L - n
      BY <1>2, WholeCount
    <3> QED
      BY <1>3, <3>1
  <2> QED
    BY <1>1, <2>1, <2>2
<1>4. CASE ~(b.head = b.tail \/ FlushCount(b) = 0)
  <2>1. PICK c, d : c = FlushCount(b) /\ d = L - n
    OBVIOUS
  <2>2. PICK c1 \in Nat, c2 \in Nat :
          c1 + c2 = c /\ Blocks(b) = <<Run(t, L - c, c1), Run(t, L - c2, c2)>>
    BY <1>2, <1>4, <2>1, BlocksAre
  <2>3. d \in Nat /\ c \in 1 .. BufferSize /\ c <= d /\ (d < BufferSize => c = d)
    BY <1>2, <1>4, <2>1, CountFacts
  <2>4. o = Run(t, L - c, c1) \o Run(t, L - c2, c2)
    <3>1. o = Blocks(b)[1] \o Blocks(b)[2]
      BY <1>1, <1>4 DEF Unflushed
    <3> QED
      BY <2>2, <3>1
  <2>5. PICK x \in Nat, y \in Nat : x = L - c /\ y = L - c2
    <3>1. L - c \in Nat /\ L - c2 \in Nat
      BY <1>1, <1>2, <2>1, <2>2, <2>3
    <3> QED
      BY <3>1
  <2>6. n <= x /\ x + c1 <= y /\ y + c2 <= L /\ x + c1 = y /\ y + c2 = L
    BY <1>1, <1>2, <2>1, <2>2, <2>3, <2>5
  <2>7. all => x = n
    <3> SUFFICES ASSUME d < BufferSize PROVE x = n
      BY <1>1, <2>1
    <3> QED
      BY <1>2, <2>1, <2>3, <2>5
  <2>8. TwoRuns(t, o, n, L, all)
    BY <2>4, <2>5, <2>6, <2>7 DEF TwoRuns
  <2> QED
    BY <1>1, <2>8
<1> QED
  BY <1>3, <1>4

\* The events in two runs.
LEMMA RunsSet ==
  ASSUME NEW t \in Thread, NEW o, NEW n \in Nat, NEW L \in Nat, TwoRuns(t, o, n, L, TRUE)
  PROVE  SeqSet(o) = {Entry(t, k) : k \in n + 1 .. L}
<1>1. PICK b \in Nat, m \in Nat, p \in Nat :
        o = Run(t, n, m) \o Run(t, b, p) /\ n + m = b /\ b + p = L
  BY DEF TwoRuns
<1>2. PICK r1, r2, S : r1 = Run(t, n, m) /\ r2 = Run(t, b, p) /\ S = Thread \X Nat
  OBVIOUS
<1>3. /\ r1 \in Seq(S) /\ Len(r1) = m /\ \A k \in 1 .. m : r1[k] = Entry(t, n + k)
      /\ r2 \in Seq(S) /\ Len(r2) = p /\ \A k \in 1 .. p : r2[k] = Entry(t, b + k)
  BY <1>2, RunSeq
<1>4. /\ Len(r1 \o r2) = Len(r1) + Len(r2)
      /\ \A i \in 1 .. Len(r1) + Len(r2) :
           (r1 \o r2)[i] = IF i <= Len(r1) THEN r1[i] ELSE r2[i - Len(r1)]
  BY <1>3, ConcatProperties
<1>5. /\ o = r1 \o r2 /\ Len(o) = m + p
      /\ \A i \in 1 .. m + p : o[i] = IF i <= m THEN r1[i] ELSE r2[i - m]
  BY <1>1, <1>2, <1>3, <1>4
<1>6. \A i \in 1 .. m + p : o[i] = Entry(t, n + i)
  <2> SUFFICES ASSUME NEW i \in 1 .. m + p PROVE o[i] = Entry(t, n + i)
    OBVIOUS
  <2>1. CASE i <= m
    <3>1. i \in 1 .. m
      BY <2>1
    <3> QED
      BY <1>3, <1>5, <2>1, <3>1
  <2>2. CASE ~(i <= m)
    <3>1. PICK k \in 1 .. p : k = i - m
      BY <2>2
    <3>2. b + k = n + i
      BY <1>1, <3>1
    <3>3. r2[k] = Entry(t, b + k)
      BY <1>3
    <3> QED
      BY <1>5, <2>2, <3>1, <3>2, <3>3
  <2> QED
    BY <2>1, <2>2
<1>7. SeqSet(o) \subseteq {Entry(t, k) : k \in n + 1 .. L}
  <2> SUFFICES ASSUME NEW i \in 1 .. m + p PROVE o[i] \in {Entry(t, k) : k \in n + 1 .. L}
    BY <1>5 DEF SeqSet
  <2>1. PICK k \in n + 1 .. L : k = n + i
    BY <1>1
  <2> QED
    BY <1>6, <2>1
<1>8. {Entry(t, k) : k \in n + 1 .. L} \subseteq SeqSet(o)
  <2> SUFFICES ASSUME NEW k \in n + 1 .. L PROVE Entry(t, k) \in SeqSet(o)
    OBVIOUS
  <2>1. PICK i \in 1 .. m + p : k = n + i
    <3>1. k - n \in 1 .. m + p /\ k = n + (k - n)
      BY <1>1
    <3> QED
      BY <3>1
  <2> QED
    BY <1>5, <1>6, <2>1 DEF SeqSet
<1> QED
  BY <1>7, <1>8

\* All the events that are not done with are in the next flush, if the ring has not run over.
LEMMA UnflushedSet ==
  ASSUME TraceTypes, NEW F, Done(F), NEW t \in Buffers, logged[t] - F[t] < BufferSize
  PROVE  SeqSet(Unflushed(t)) = {Entry(t, k) : k \in F[t] + 1 .. logged[t]}
<1>0. PICK o : o = Unflushed(t)
  OBVIOUS
<1>1. PICK L \in Nat, n \in Nat : L = logged[t] /\ n = F[t] /\ o = Unflushed(t)
  BY <1>0 DEF TraceTypes, Done, Buffers
<1>2. \/ o = <<>> /\ L = n
      \/ TwoRuns(t, o, n, L, TRUE)
  <2>1. PICK all : all = (logged[t] - F[t] < BufferSize)
    OBVIOUS
  <2>2. \/ o = <<>> /\ (all => logged[t] = F[t])
        \/ TwoRuns(t, o, F[t], logged[t], all)
    BY <1>1, <2>1, UnflushedIs
  <2>3. all
    BY <2>1
  <2>4. CASE o = <<>> /\ (all => logged[t] = F[t])
    BY <1>1, <2>3, <2>4
  <2>5. CASE TwoRuns(t, o, F[t], logged[t], all)
    BY <1>1, <2>3, <2>5 DEF TwoRuns
  <2> QED
    BY <2>2, <2>4, <2>5
<1>3. t \in Thread
  BY DEF Buffers
<1>4. CASE o = <<>> /\ L = n
  <2>1. SeqSet(o) = {}
    BY <1>4 DEF SeqSet
  <2>2. n + 1 .. L = {}
    BY <1>4
  <2> QED
    BY <1>1, <2>1, <2>2
<1>5. CASE TwoRuns(t, o, n, L, TRUE)
  <2>1. SeqSet(o) = {Entry(t, k) : k \in n + 1 .. L}
    BY <1>3, <1>5, RunsSet
  <2> QED
    BY <1>1, <2>1
<1> QED
  BY <1>2, <1>4, <1>5

\* Every file is in order, and stays so with the next flush: no failing open, no short
\* write and no overwritten entry makes a thread's events come twice or out of order.
THEOREM FilesInOrderAlways == Spec => []FilesInOrder
<1>1. TraceInv => FilesInOrder
  <2> DEFINE Own(t, id) == t \in Buffers /\ tls_buffer[t].thread_id = id
             Later(t, id) == file[id] \o IF Own(t, id) THEN Unflushed(t) ELSE <<>>
             Ordered(s, t) == \A i, j \in 1 .. Len(s) :
                                i < j /\ s[i][1] = t /\ s[j][1] = t => s[i][2] < s[j][2]
  <2> SUFFICES ASSUME TraceInv, NEW t \in Thread, NEW id \in DOMAIN file
               PROVE  Ordered(Later(t, id), t)
    BY DEF FilesInOrder
  <2>0. PICK own, s : own = Own(t, id) /\ s = Later(t, id)
    OBVIOUS
  <2>1. TraceTypes
    BY DEF TraceInv
  <2>2. PICK F : Done(F)
    BY DEF TraceInv
  <2>3. PICK f, o : f = file[id] /\ o = (IF own THEN Unflushed(t) ELSE <<>>) /\ s = f \o o
    BY <2>0
  <2>4. PICK L \in Nat, n \in Nat : L = logged[t] /\ n = F[t]
    BY <2>1, <2>2 DEF TraceTypes, Done
  <2>5. F \in [Thread -> Nat] /\ FileOK(f, F) /\ f \in EventSeq
    BY <2>1, <2>2, <2>3 DEF TraceTypes, Done, FileOK, EventSeq
  <2>6. PICK all : o = <<>> \/ TwoRuns(t, o, F[t], L, all)
    <3>1. CASE ~own
      BY <2>3, <3>1
    <3>2. CASE own
      <4>1. o = Unflushed(t) /\ t \in Buffers
        BY <2>0, <2>3, <3>2
      <4>2. PICK all : all = (logged[t] - F[t] < BufferSize)
        OBVIOUS
      <4> QED
        BY <2>1, <2>2, <2>4, <4>1, <4>2, UnflushedIs
    <3> QED
      BY <3>1, <3>2
  <2>7. \E G : FileOK(s, G)
    <3>1. CASE o = <<>>
      <4>1. f \o <<>> = f
        BY <2>5, ConcatEmptySeq DEF EventSeq
      <4> QED
        BY <2>3, <2>5, <3>1, <4>1
    <3>2. CASE TwoRuns(t, o, F[t], L, all)
      <4>1. n <= L
        BY <2>2, <2>4 DEF Done, BufferOK, RingOK, RingCore
      <4>2. F[t] \in Nat /\ F[t] <= F[t] /\ F[t] + 0 <= L /\ 0 \in Nat
        BY <2>4, <4>1
      <4>3. Follows(F, f, t, F[t], 0, L)
        BY <2>5, <4>2 DEF Follows
      <4>4. FileOK(f \o o, Upto(F, t, L))
        BY <3>2, <4>3, AppendTwo
      <4> QED
        BY <2>3, <4>4
    <3> QED
      BY <2>6, <3>1, <3>2
  <2>8. Ordered(s, t)
    BY <2>7 DEF FileOK
  <2> QED
    BY <2>0, <2>8
<1> QED
  BY <1>1, TraceInvariance, PTL

\* No event of a thread with a working disk is lost or doubled, if the ring has at
\* least 8 entries: the automatic flush then comes before the ring is full.
THEOREM NothingLostAlways ==
  ASSUME BufferSize >= 8
  PROVE  Spec => []NothingLost
<1>1. TraceInv => NothingLost
  <2> SUFFICES ASSUME TraceInv, NEW t \in Thread \ Faulty
               PROVE  /\ InFiles(t) \cup SeqSet(Unflushed(t)) = Events(t, 1)
                      /\ InFiles(t) \cap SeqSet(Unflushed(t)) = {}
    BY DEF NothingLost
  <2>1. TraceTypes
    BY DEF TraceInv
  <2>2. PICK F : Done(F)
    BY DEF TraceInv
  <2>3. PICK L \in Nat, n \in Nat : L = logged[t] /\ n = F[t]
    BY <2>1, <2>2 DEF TraceTypes, Done
  <2>4. Safe(t)
    BY DEF Safe
  <2>5. InFiles(t) = {Entry(t, k) : k \in 1 .. n}
    <3>1. ASSUME NEW id \in DOMAIN file, NEW i \in 1 .. Len(file[id]), file[id][i][1] = t
          PROVE  file[id][i] \in {Entry(t, k) : k \in 1 .. n}
      <4>1. FileOK(file[id], F)
        BY <2>1, <2>2 DEF TraceTypes, Done
      <4>2. file[id][i] \in Thread \X Nat
        BY <4>1 DEF FileOK
      <4>3. PICK y \in Nat : file[id][i] = Entry(t, y) /\ file[id][i][2] = y
        BY <3>1, <4>2 DEF Entry
      <4>4. 1 <= y /\ y <= n
        BY <2>3, <3>1, <4>1, <4>3 DEF FileOK
      <4>5. y \in 1 .. n
        BY <4>4
      <4> QED
        BY <4>3, <4>5
    <3>2. ASSUME NEW k \in 1 .. n PROVE Entry(t, k) \in InFiles(t)
      <4>1. PICK id \in 0 .. IdMod - 1 : In(Entry(t, k), file[id])
        BY <2>2, <2>3, <2>4 DEF Done
      <4>2. id \in DOMAIN file /\ Entry(t, k)[1] = t
        BY <2>1 DEF TraceTypes, Entry
      <4> QED
        BY <4>1, <4>2 DEF In, InFiles
    <3>3. InFiles(t) \subseteq {Entry(t, k) : k \in 1 .. n}
      <4> SUFFICES ASSUME NEW e \in InFiles(t) PROVE e \in {Entry(t, k) : k \in 1 .. n}
        OBVIOUS
      <4>1. PICK id \in DOMAIN file : e \in {file[id][i] : i \in 1 .. Len(file[id])} /\ e[1] = t
        BY DEF InFiles
      <4>2. PICK i \in 1 .. Len(file[id]) : e = file[id][i] /\ e[1] = t
        BY <4>1
      <4> QED
        BY <3>1, <4>2
    <3> QED
      BY <3>2, <3>3
  <2>6. n <= L /\ SeqSet(Unflushed(t)) = {Entry(t, k) : k \in n + 1 .. L}
    <3>1. CASE t \in Buffers
      <4>1. L - n <= BufferSize - 2 /\ n <= L
        BY <2>2, <2>3, <2>4, <3>1 DEF Done, BufferOK, RingOK, RingCore, Buffers
      <4>2. BufferSize \in Nat
        BY TraceAssumption
      <4>3. L - n < BufferSize
        BY <4>1, <4>2
      <4> QED
        BY <2>1, <2>2, <2>3, <3>1, <4>1, <4>3, UnflushedSet
    <3>2. CASE t \notin Buffers
      <4>1. n = L
        BY <2>2, <2>3, <2>4, <3>2 DEF Done, BufferOK, Buffers
      <4>2. SeqSet(Unflushed(t)) = {}
        BY <3>2 DEF SeqSet, Unflushed
      <4>3. n + 1 .. L = {} /\ n <= L
        BY <4>1
      <4> QED
        BY <4>2, <4>3
    <3> QED
      BY <3>1, <3>2
  <2>7. Events(t, 1) = {Entry(t, k) : k \in 1 .. L}
    BY <2>3 DEF Events
  <2>8. \A k, m : Entry(t, k) = Entry(t, m) => k = m
    BY DEF Entry
  <2>9. 1 .. n \cup n + 1 .. L = 1 .. L /\ (1 .. n) \cap (n + 1 .. L) = {}
    BY <2>6
  <2> HIDE DEF Entry
  <2> QED
    BY <2>5, <2>6, <2>7, <2>8, <2>9
<1> QED
  BY <1>1, TraceInvariance, PTL

\* While overflow_count is 0 the next flush writes every event recorded since tail was last
\* moved, for every thread that cannot record so much that the counter itself wraps to 0.
THEOREM OverwriteCountedAlways ==
  ASSUME \A t \in Thread : MaxRecord[t] < IndexMod \/ (t \notin Faulty /\ BufferSize >= 8)
  PROVE  Spec => []OverwriteCounted
<1>1. TraceInv => OverwriteCounted
  <2> SUFFICES ASSUME TraceInv, NEW t \in Buffers, anam_trace_get_stats(t)[2] = 0
               PROVE  SeqSet(Unflushed(t)) = Events(t, logged[t] - Distance(tls_buffer[t]) + 1)
    BY DEF OverwriteCounted
  <2>1. TraceTypes
    BY DEF TraceInv
  <2>2. PICK F : Done(F)
    BY DEF TraceInv
  <2>0. PICK b : b = tls_buffer[t]
    OBVIOUS
  <2>3. PICK L \in Nat, n \in Nat : L = logged[t] /\ n = F[t] /\ b = tls_buffer[t]
    BY <2>0, <2>1, <2>2 DEF TraceTypes, Done, Buffers
  <2>4. t \in Thread /\ b # NoBuffer /\ b.overflow_count = 0
    BY <2>3 DEF Buffers, anam_trace_get_stats
  <2>5. RingOK(t, b, L, n)
    BY <2>2, <2>3, <2>4 DEF Done, BufferOK
  <2>6. L - n < BufferSize /\ n <= L
    <3>1. n <= L /\ BufferSize \in Nat
      BY <2>5, TraceAssumption DEF RingOK, RingCore
    <3>2. CASE MaxRecord[t] < IndexMod
      BY <2>4, <2>5, <3>1, <3>2 DEF RingOK
    <3>3. CASE t \notin Faulty /\ BufferSize >= 8
      <4>1. L - n <= BufferSize - 2
        BY <2>5, <3>3 DEF RingOK, Safe
      <4> QED
        BY <3>1, <4>1
    <3> QED
      BY <2>4, <3>2, <3>3
  <2>7. Distance(b) = L - n
    BY <2>4, <2>5, <2>6, WholeCount DEF RingOK
  <2>8. SeqSet(Unflushed(t)) = {Entry(t, k) : k \in n + 1 .. L}
    BY <2>1, <2>2, <2>3, <2>6, UnflushedSet
  <2>9. L - (L - n) + 1 = n + 1
    OBVIOUS
  <2> QED
    BY <2>3, <2>7, <2>8, <2>9 DEF Events
<1> QED
  BY <1>1, TraceInvariance, PTL

=============================================================================
