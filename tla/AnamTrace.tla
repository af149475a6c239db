----------------------------- MODULE AnamTrace ------------------------------
(***************************************************************************)
(* The tracer of src/anamnesis_trace.c: one ring buffer per thread, flushed*)
(* to the file named after the buffer's thread_id. A buffer is touched by  *)
(* its own thread only, so a call is one action; threads meet in the       *)
(* context (next_thread_id, active) and in the files. tls_buffer->active   *)
(* is TRUE for as long as the buffer can be reached and is left out.       *)
(***************************************************************************)
EXTENDS Integers, Sequences, FiniteSets

CONSTANTS
  Thread,      \* threads that use the pool
  BufferSize,  \* buffer_size given to anam_trace_init
  IndexMod,    \* number of uint32_t values
  IdMod,       \* number of uint8_t values
  Faults,      \* what can go wrong on the disk: "open", "short"
  Faulty,      \* the threads whose file is affected
  MaxRecord,   \* bound: number of events of each thread
  MaxInit,     \* bound: number of calls of anam_trace_init
  MaxBuffer    \* bound: number of buffers created after one such call

\* anam_trace_init accepts powers of two only. All that matters is that they
\* divide the number of uint32_t values: n & mask is n % BufferSize.
ASSUME TraceAssumption ==
  /\ BufferSize \in Nat \ {0} /\ IndexMod \in Nat
  /\ BufferSize < IndexMod /\ IndexMod % BufferSize = 0
  /\ IdMod \in Nat \ {0}
  /\ Faults \subseteq {"open", "short"} /\ Faulty \subseteq Thread
  /\ MaxRecord \in [Thread -> Nat]
  /\ {MaxInit, MaxBuffer} \subseteq Nat

VARIABLES
  active, next_thread_id,   \* g_trace_ctx
  tls_buffer,               \* each thread's ring buffer, or NoBuffer
  file,                     \* the trace files, by thread_id
  logged, inits             \* history: events per thread, calls of init

vars == <<active, next_thread_id, tls_buffer, file, logged, inits>>

NoBuffer == [thread_id |-> -1]
NoEntry == <<>>

\* An entry stands for its event: the n-th of thread t. The timestamp, slot,
\* generation and op_type it carries are not looked at by the tracer.
Entry(t, n) == <<t, n>>

Init ==
  /\ active = FALSE /\ next_thread_id = 0
  /\ tls_buffer = [t \in Thread |-> NoBuffer]
  /\ file = [id \in 0 .. IdMod - 1 |-> <<>>]
  /\ logged = [t \in Thread |-> 0]
  /\ inits = 0

anam_trace_init ==
  /\ inits < MaxInit
  /\ active' = TRUE
  /\ next_thread_id' = 0
  /\ inits' = inits + 1
  /\ UNCHANGED <<tls_buffer, file, logged>>

\* thread_id is the number of the buffer cut to a uint8_t: beyond IdMod buffers, and
\* after another call of init, two threads have the same one and append to one file.
anam_trace_buffer_create ==
  [entries |-> [i \in 0 .. BufferSize - 1 |-> NoEntry], head |-> 0, tail |-> 0,
   overflow_count |-> 0, entries_written |-> 0, thread_id |-> next_thread_id % IdMod]

-----------------------------------------------------------------------------
(* anam_trace_buffer_flush *)

Idx(n) == n % BufferSize                          \* n & mask
Distance(b) == (b.head - b.tail) % IndexMod       \* head - tail in uint32_t

FlushCount(b) ==
  LET count == Idx(Distance(b)) IN
  IF count = 0 /\ b.overflow_count > 0 THEN BufferSize ELSE count

\* The arguments of fwrite: n entries from position i on.
Block(b, i, n) == [k \in 1 .. n |-> b.entries[i + k - 1]]

\* Mutant: the wrapped block is written before the end of the ring.
BlocksSwapped(b) ==
  LET count == FlushCount(b)
      tail_idx == Idx(b.tail)
      first_chunk == BufferSize - tail_idx
  IN IF tail_idx < Idx(b.head)
     THEN <<Block(b, tail_idx, count), <<>>>>
     ELSE <<Block(b, 0, count - first_chunk), Block(b, tail_idx, first_chunk)>>

\* The one or two blocks that are written.
Blocks(b) ==
  LET count == FlushCount(b)
      tail_idx == Idx(b.tail)
      first_chunk == BufferSize - tail_idx
  IN IF tail_idx < Idx(b.head)
     THEN <<Block(b, tail_idx, count), <<>>>>
     ELSE <<Block(b, tail_idx, first_chunk), Block(b, 0, count - first_chunk)>>

FaultsOf(t) == IF t \in Faulty THEN Faults ELSE {}

\* What fwrite puts into the file: the block, or a part of it on a short write.
Written(t, block) ==
  IF "short" \in FaultsOf(t) THEN {SubSeq(block, 1, n) : n \in 0 .. Len(block)} ELSE {block}

Nothing(b) == [out |-> <<>>, tail |-> b.tail]

\* The outcomes of a flush. A short write is reported, and tail moves all the same.
Flushes(t, b) ==
  IF b.head = b.tail \/ FlushCount(b) = 0 THEN {Nothing(b)}
  ELSE {[out |-> w1 \o w2, tail |-> b.head] :
          w1 \in Written(t, Blocks(b)[1]), w2 \in Written(t, Blocks(b)[2])}
       \cup {Nothing(b) : f \in FaultsOf(t) \cap {"open"}}

AppendTo(id, out) == file' = [file EXCEPT ![id] = @ \o out]

-----------------------------------------------------------------------------
(* anam_trace_record, behind anam_trace_alloc, _release and _get           *)

\* Mutant: the write position is not a uint32_t.
StoreUnbounded(b, e) ==
  [b EXCEPT !.entries[Idx(b.head)] = e,
            !.head = @ + 1,
            !.entries_written = @ + 1]

\* The entry is stored before the ring is looked at.
Store(b, e) ==
  [b EXCEPT !.entries[Idx(b.head)] = e,
            !.head = (@ + 1) % IndexMod,
            !.entries_written = @ + 1]

\* Mutant: the threshold is never exceeded.
AutoFlushesAtFull(t, b) ==
  IF Idx(Distance(b)) >= BufferSize THEN Flushes(t, b) ELSE {Nothing(b)}

AutoFlushes(t, b) ==
  IF Idx(Distance(b)) > ((BufferSize * 3) % IndexMod) \div 4
  THEN Flushes(t, b) ELSE {Nothing(b)}

\* Mutant: the distance is taken after masking, as in the check for the flush.
DetectOverflowMasked(b) ==
  IF Idx(Distance(b)) >= BufferSize THEN [b EXCEPT !.overflow_count = @ + 1] ELSE b

DetectOverflow(b) ==
  IF Distance(b) >= BufferSize
  THEN [b EXCEPT !.overflow_count = (@ + 1) % IndexMod] ELSE b

RecordInto(t, buf) ==
  LET b == Store(buf, Entry(t, logged[t] + 1)) IN
  /\ logged[t] < MaxRecord[t]
  /\ logged' = [logged EXCEPT ![t] = @ + 1]
  /\ \E f \in AutoFlushes(t, b) :
       /\ AppendTo(b.thread_id, f.out)
       /\ tls_buffer' = [tls_buffer EXCEPT ![t] = DetectOverflow([b EXCEPT !.tail = f.tail])]
  /\ UNCHANGED <<active, inits>>

Record(t) ==
  /\ tls_buffer[t] # NoBuffer
  /\ RecordInto(t, tls_buffer[t])
  /\ UNCHANGED next_thread_id

\* The first event of a thread creates its buffer, if tracing is active.
RecordFirst(t) ==
  /\ tls_buffer[t] = NoBuffer /\ active /\ next_thread_id < MaxBuffer
  /\ RecordInto(t, anam_trace_buffer_create)
  /\ next_thread_id' = (next_thread_id + 1) % IndexMod

\* Tracing is off or no buffer can be allocated: the event is dropped.
RecordNothing(t) == tls_buffer[t] = NoBuffer /\ UNCHANGED vars

\* entries_written and buffer_overflows, or FALSE without a buffer.
anam_trace_get_stats(t) ==
  IF tls_buffer[t] = NoBuffer THEN FALSE
  ELSE <<tls_buffer[t].entries_written, tls_buffer[t].overflow_count>>

-----------------------------------------------------------------------------
(* anam_trace_flush_thread and anam_trace_shutdown                         *)

\* Mutant: the buffer is freed without being flushed.
FlushThreadDiscard(t) ==
  /\ tls_buffer[t] # NoBuffer
  /\ tls_buffer' = [tls_buffer EXCEPT ![t] = NoBuffer]
  /\ UNCHANGED <<active, next_thread_id, file, logged, inits>>

FlushThread(t) ==
  /\ tls_buffer[t] # NoBuffer
  /\ \E f \in Flushes(t, tls_buffer[t]) : AppendTo(tls_buffer[t].thread_id, f.out)
  /\ tls_buffer' = [tls_buffer EXCEPT ![t] = NoBuffer]
  /\ UNCHANGED <<active, next_thread_id, logged, inits>>

anam_trace_shutdown(t) ==
  /\ active' = FALSE
  /\ IF tls_buffer[t] = NoBuffer THEN UNCHANGED <<tls_buffer, file>>
     ELSE /\ \E f \in Flushes(t, tls_buffer[t]) : AppendTo(tls_buffer[t].thread_id, f.out)
          /\ tls_buffer' = [tls_buffer EXCEPT ![t] = NoBuffer]
  /\ UNCHANGED <<next_thread_id, logged, inits>>

Next ==
  \/ anam_trace_init
  \/ \E t \in Thread :
       Record(t) \/ RecordFirst(t) \/ FlushThread(t) \/ anam_trace_shutdown(t)

Spec == Init /\ [][Next]_vars

-----------------------------------------------------------------------------
(* Properties *)

Buffers == {t \in Thread : tls_buffer[t] # NoBuffer}
Ring(t) == {tls_buffer[t].entries[i] : i \in 0 .. BufferSize - 1} \ {NoEntry}

\* What the next flush of t writes, if the disk is fine.
Unflushed(t) ==
  IF t \notin Buffers \/ tls_buffer[t].head = tls_buffer[t].tail \/ FlushCount(tls_buffer[t]) = 0
  THEN <<>>
  ELSE Blocks(tls_buffer[t])[1] \o Blocks(tls_buffer[t])[2]

InFiles(t) == UNION {{e \in {file[id][i] : i \in 1 .. Len(file[id])} : e[1] = t} :
                       id \in DOMAIN file}
Events(t, from) == {Entry(t, n) : n \in from .. logged[t]}
SeqSet(s) == {s[i] : i \in 1 .. Len(s)}

\* Every variable keeps its type.
TypeOK ==
  /\ active \in BOOLEAN
  /\ next_thread_id \in 0 .. IndexMod - 1
  /\ \A t \in Buffers :
       /\ tls_buffer[t].head \in 0 .. IndexMod - 1
       /\ tls_buffer[t].tail \in 0 .. IndexMod - 1
       /\ tls_buffer[t].thread_id \in 0 .. IdMod - 1
       /\ tls_buffer[t].entries \in [0 .. BufferSize - 1 -> {NoEntry} \cup {Entry(t, n) : n \in 1 .. MaxRecord[t]}]
  /\ logged \in [Thread -> Nat] /\ \A t \in Thread : logged[t] <= MaxRecord[t]
  /\ inits \in 0 .. MaxInit

\* The flush at 75% capacity comes in time: every event of a thread with a working
\* disk is in a file or in what its next flush will write, and not in both,
\* whatever happens to the files of others.
NothingLost ==
  \A t \in Thread \ Faulty :
    /\ InFiles(t) \cup SeqSet(Unflushed(t)) = Events(t, 1)
    /\ InFiles(t) \cap SeqSet(Unflushed(t)) = {}

\* The events of a thread come in the order in which they happened, and none
\* twice, in every file and in what the next flush will append to it, whatever
\* opens fail, writes fall short and entries the ring has overwritten.
FilesInOrder ==
  \A t \in Thread : \A id \in DOMAIN file :
    LET own == t \in Buffers /\ tls_buffer[t].thread_id = id
        s == file[id] \o IF own THEN Unflushed(t) ELSE <<>>
    IN \A i, j \in 1 .. Len(s) : i < j /\ s[i][1] = t /\ s[j][1] = t => s[i][2] < s[j][2]

\* Overwriting is noticed: while overflow_count is 0, the next flush writes every event
\* recorded since tail was last moved, so a full ring has overwritten none of them. (What a
\* short write left out is not among them: tail has moved past it, and nothing counts it.)
OverwriteCounted ==
  \A t \in Buffers :
    anam_trace_get_stats(t)[2] = 0 =>
      SeqSet(Unflushed(t)) = Events(t, logged[t] - Distance(tls_buffer[t]) + 1)

\* "In overflow, oldest entries are lost (ring buffer behavior)": only what was
\* overwritten is lost, so the next flush writes all the unwritten events that
\* the ring still holds.
OldestLost ==
  \A t \in Buffers :
    LET d == Distance(tls_buffer[t])
        kept == IF d > BufferSize THEN BufferSize ELSE d
    IN SeqSet(Unflushed(t)) = Events(t, logged[t] - kept + 1)

=============================================================================
