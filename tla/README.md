# Anamnesis: TLA+ specifications and proofs

Anamnesis is a C library with three parts: a lock-free **object pool** whose
handles carry a generation, a **Michael–Scott queue** that uses pool slots as
nodes, and an optional **tracer** that writes pool events to files. This
directory models them, model-checks them with TLC on small instances, and
proves the safety properties of the pool, its layout, the queue and the tracer with
TLAPS for any number of threads, slots, items and events and any width of the integers.

## 1. Inventory

### Object pool (`src/src/anamnesis.c`)

*State.* `free_head` (top of a Treiber stack), per slot a header with `next`
and the true `generation`, the user bytes, and five statistics counters.
Configuration is fixed at creation.

*Operations.* `anam_alloc` (pop, raise `generation_max`, clear the link, count,
zero, return a LIVE handle), `anam_release` (check the state, the address and the
generation, store the next generation, zero, push, count), `anam_get` /
`anam_validate` (the same checks, one load), `anam_pool_stats`, `anam_foreach`,
`anam_pool_create`, `anam_pool_destroy`.

*Hard.* Everything is shared by threads without locks. ABA in the pop; the
check-then-store of the generation in release; the generation wraps after 2^16
releases; counters lag behind the CAS they belong to; a pointer outlives the
check that produced it.

*Correct means.* Each slot lives through incarnations. One handle is issued per
incarnation, it opens the slot only while that incarnation is alive, and a slot
belongs to at most one call at a time. `HandlePool.tla` states this.

### Slot layout and handles (`src/src/anamnesis.c`)

*State.* None beyond the pool's configuration: arithmetic on sizes, addresses
and bit fields (`align_up`, `encode_handle`, `decode_*`, `in_pool`).

*Hard.* Rounding, masks, `size_t` wrap-around. *Correct means* that slots do not
overlap, are aligned, lie in the block that was allocated for them, and that a
handle gives back what it was made of.

### Queue (`src/src/anamnesis_queue.c`)

*State.* `head`, `tail`, `length` and counters; nodes (`next` and the item) in
pool slots; the pool itself.

*Operations.* push, pop, peek, empty, length, stats, create, destroy.

*Interaction.* The queue is a client of the pool: `alloc_node` allocates a slot,
pop releases the old dummy, and every dereference of a handle goes through
`anam_get`.

*Hard.* A node may be released and reused between any two accesses of another
thread. Links are compared with an untagged null. The second load of `tail`
in push. Retry loops on stale handles.

*Correct means* a linearizable bounded FIFO queue (`FifoQueue.tla`), no lost
slots, one release per node, calls that return.

### Tracer (`src/src/anamnesis_trace.c`)

*State.* A global context (`active`, `next_thread_id`), one ring buffer per
thread in thread-local storage, one file per `thread_id`.

*Operations.* init, record (from the hooks in alloc, release and get), automatic
flush, flush_thread, shutdown, get_stats.

*Hard.* Masked indices that wrap, the 75 % threshold, failing opens and short
writes, 8-bit ids, shutdown while others record.

*Interaction.* With `ANAM_TRACE_ENABLED` alloc, release and get report to the
tracer in the middle of their work, between two accesses to shared memory; the
timestamp is taken there. Tracing can be switched on and off at any moment.

*Correct means* that every event is in a file or in the ring, once and in order,
and that the files together tell what happened to each slot.

### Not modelled

| Part | Why |
|---|---|
| `tools/analyze_traces.py` | offline statistics in floating point; what it relies on, the order of the entries by timestamp, is `TraceTellsLives` |
| `anam_rdtsc` timestamps | hardware counter; no decision depends on it. The counters of all cores are taken to be consistent |
| C++ wrappers in the headers | forward to the C functions, no state of their own. `Pool<T>` passes `alignof(T)`, and a type aligned to less than 8 gets no pool (`Accepts` in `AnamLayout`) |
| tests, benchmark, CI | clients of the library: what they call is among what the arbitrary clients of the models call |
| weak memory | see "Memory model" below |

## 2. Modules

| Module | Models | Built on |
|---|---|---|
| `HandlePool` | what the pool promises | – |
| `StackPool` | what the queue takes the pool for: a stack of free slots and generations | – |
| `AnamPool` | `anamnesis.c`, one action per atomic access | refines `HandlePool` and `StackPool` |
| `AnamPoolProof` | theorems about `AnamPool` | `AnamPool`, TLAPS |
| `AnamPoolList` | theorems about the free list as a list | `AnamPoolProof`, `Residues` |
| `AnamPoolRefine` | proofs that `AnamPool` implements `HandlePool` and `StackPool`; `anam_foreach` and the counters | `AnamPoolList` |
| `AnamLayout` | layout and handle arithmetic | – |
| `AnamLayoutProof` | theorems about `AnamLayout` | `AnamLayout`, `Residues` |
| `FifoQueue` | what push and pop promise | – |
| `AnamQueue` | `anamnesis_queue.c`, one action per atomic access | takes steps of `StackPool`, refines `FifoQueue` |
| `AnamQueueProof` | theorems about `AnamQueue`; proof that it implements `FifoQueue` | `AnamQueue`, `Residues` |
| `AnamTrace` | `anamnesis_trace.c`, one action per call | – |
| `AnamTraceProof` | theorems about `AnamTrace` | `AnamTrace`, `Residues` |
| `TracedPool` | the pool with the trace hooks compiled in | composes `AnamPool` and `AnamTrace` |
| `TracedPoolProof` | the trace tells the lives of the slots and accounts for the counters | `TracedPool`, `AnamPoolProof`; theorems of `AnamTraceProof` |
| `Residues` | lemmas on multiples, quotients and remainders | TLAPS |
| `MC…` | symmetry sets, views and constant definitions for TLC | the module of that name |

`PROJECT.json` maps every definition to its lines.

### AnamPool

C variables keep their names. `pc[t]` is the place of thread `t` inside a call
(`a_…` in `anam_alloc`, `r_…` in `anam_release`, `expose` for the failure path),
`arg`, `old_head`, `new_head`, `gen`, `max_gen` are its locals; a local that is
not read again is reset. A failed CAS, spurious or not, is `…Retry`. The failure
paths of release and get share `Expose`. The state machine starts with the pool
that `anam_pool_create` returns; `anam_pool_destroy` ends it.

Handles are records; `AnamLayout` checks that the bit fields justify this. The
user bytes of a slot are abstracted to *garbage*, *zero*, or the incarnation
whose holder wrote them.

Clients are arbitrary: any thread may call any operation with any handle that was
ever issued, with a handle of another pool, or with one that is not LIVE. Two
constants restrict them:

* `ExclusiveRelease` – no two calls of `anam_release` on one handle at once;
* `ExclusiveUse` – no release of a handle while another thread is using a
  pointer obtained from it, and no get while a release of the handle is in
  progress.

Sequential double releases, late gets and late releases are always allowed.
`status` (free, taken, live, retired) and `inc` (number of releases) are history
variables; no guard of an operation reads them. `MaxInc` bounds `inc` through the
guard of `ReleaseCall`.

`anam_foreach` is documented as not thread-safe and is therefore judged at rest
(`ForeachExact`); its callback is taken to ask for every slot.

### AnamQueue

The pool below the queue is `StackPool`, whose steps the queue takes. That the
real pool implements it is `ImplementsStackPool`, checked on `AnamPool`: seen
through its free list and its generations each of its steps takes the top slot,
ends a generation, gives a slot back, or changes nothing. So `anam_alloc` is one
action here, and `anam_release` is two, the end of the generation and the push,
because other threads observe both. `anam_get` is one load. That release checks
and stores the generation in one action is sound because the queue never races
two releases of one handle (`ReleasesOnce`).

Items are 1, 2, 3 … in the order of the calls and are copied as a whole. `destroy`
runs when no call is in progress. `seen` is history: the fronts that a pending
peek has lived through, or whether the queue has been empty during a pending pop
or empty.

`FifoQueue!PushFull` allows a push to fail when the items together with the nodes
other calls are about to link or to give back reach the capacity. This is what
the code does: a push can fail while fewer than `capacity` items are queued.

### AnamTrace

A ring buffer belongs to one thread, so a whole call is one action; the threads
meet in the context and in the files. `thread_id` is the number of the ring modulo
`IdMod`, so two threads may append to the same file; entries that another thread puts
between the two blocks of a wrapped flush would not change the order of one's own,
which is all that the properties look at. An entry is `<<thread, n>>`, the n-th event
of the thread. `Faults` says what the disk may do to the threads in `Faulty`: `"open"` (fopen fails) and
`"short"` (fwrite writes a part of the block, ending at an entry). An event that
finds no ring, because tracing is off or `calloc` fails, is dropped
(`RecordNothing`). `MaxRecord[t]` bounds the events of a thread.

`head`, `tail` and `overflow_count` are `uint32_t` and wrap at `IndexMod`;
`entries_written` is a `uint64_t` and does not. The code masks with `capacity - 1`
and builds its rings with a power of two; what this gives, and all that the model
uses, is that `BufferSize` divides `IndexMod`.

### TracedPool

The variables and actions of `AnamPool` and `AnamTrace`, joined by `hook[t]`: the
event thread `t` has to report before its call goes on. A step of the pool that
is followed by a hook in the code sets it (`HookOf`, `HookOfGet`), `Report` and
`ReportDropped` are the call of the tracer, and in between the other threads run.
A hook of `anam_alloc` comes after the `memset` in the code and before it in the
model, which nobody can tell apart: the slot belongs to that call alone
(`OneOwner`). The pool may be used before init and after shutdown, and any thread
may shut tracing down or exit whenever it is not inside a call. An exiting thread
flushes its ring, as `anamnesis_trace.h` demands.

`trail` is history: the entries about each slot in the order of their timestamps,
whichever ring and file they went to. `dropped` counts events that found no ring;
it also bounds the run (`MaxDrop`), as `MaxEvent` does for the recorded ones.

### AnamLayout

`Create` is the arithmetic of `anam_pool_create` with `size_t` modulo `SizeMod`
and addresses below `AddrMod`, for any configuration; `Destroy` gives the block
back. The code does not check the product for overflow. `SlotsInBlock` says what
follows: the slots lie in the block exactly if the needed size is a `size_t`
(`Fits`, in unbounded arithmetic). The other properties are claimed for pools
that fit.

A power of two is a number without an odd divisor other than 1 (`PowersOf2`), and
`x & y` is taken bit by bit, over the weights in `PowersOf2` (`Disjoint`); neither
mentions a width, so the same definitions serve TLC with 12 bits and the proofs
for any number. A stride that has wrapped to 0 passes the test
`(stride & (stride - 1)) == 0` and gets the mask `SIZE_MAX`.

### Memory model

Interleaving semantics: sequential consistency. The code uses default
`seq_cst` accesses for the generation, the counters and the second reads of
`head` and `tail`; the free list and the queue ends use acquire loads and
release or acquire CASes, and the links are read relaxed in alloc and published
by the release CAS. Reorderings that weaker orders allow beyond this are not
modelled.

## 3. Runs

### Pool (`MCAnamPool`)

| Run | Instance | Result |
|---|---|---|
| `PoolStructure` | 2 threads, 2 slots, 2 releases per slot, `zero_on_release` | `TypeOK`; the free list is exact at every moment; no ABA; one owner per slot; a pointer in use belongs to the current incarnation; a truthful handle is never counted as a counterfeit; a fresh slot shows no old bytes; counters exact up to calls in flight; `generation_max` covers; `foreach` exact at rest; alloc fails only on exhaustion; implements `HandlePool` and `StackPool` |
| `PoolProgress` | 2 threads, 2 slots, 1 release per slot, `zero_on_alloc`, fairness | every call returns; a fresh slot shows no old bytes |
| `PoolDoubleRelease` | racing releases of one handle allowed | **violated**: both releases of one handle succeed |

### Queue (`MCAnamQueue`)

| Run | Instance | Result |
|---|---|---|
| `QueueSpmc` | 1 producer with 3 pushes, 2 consumers that also peek and test, capacity 2, destroy | slots conserved, tail in the list, one release per dummy, destroy complete, linearizable FIFO; peek and empty wrong only if a pop moved head under them |
| `QueueMpsc` | 2 producers with 3 pushes in all, 1 consumer, capacity 2, `CONSTRAINT LinkNeverStale` | as long as no push is about to link to a reused slot: slots conserved, linearizable FIFO, counters exact |
| `QueueProducers` | 3 producers, fairness | linearizable FIFO, every call returns |
| `QueueMpmcReuse` | 2 threads, both push and pop | **violated**: a push is about to link to a reused slot |
| `QueueMpmcStall` | the same, fairness | **violated**: tail is moved back to a released node, calls spin |

The queue thus behaves with one producer and any consumers, or with producers
only. With two producers and a consumer it does not:

* The slot a pending push read as its tail can be released and taken again by the
  other producer, and the untagged compare of the link (120) does not notice. Three
  pushes are enough. `QueueMpmcReuse` shows it. In `QueueMpsc` slots are reused and
  the queue fills, and the states in which a push is about to make that mistake are
  cut off, which is the condition `LinkNeverStale` of the theorems in section 4: the
  run shows that nothing else breaks the list, the items or the counters. Without
  the constraint `SlotsConserved` fails.
* The line that reloads `tail` after the link (129) can move `tail` back to a node
  that has been released, and later calls loop for ever. Two pushes are enough: one
  producer links, the other links behind it and swings `tail`, the first loads that
  `tail` at line 129, the consumer pops both items, and the CAS at line 132 sets
  `tail` to a released node. `QueueMpmcStall` shows it. No item is lost or doubled by
  this (`QueueMpsc` includes these behaviours); it is `TailInList` and `CallsReturn`
  that fail, which is why they are claimed for one producer and for producers only.

peek and empty hold no claim on the node they look at. `QueueSpmc` has one consumer
peek while the other pops and the producer reuses the slots; what is left to say is
that an answer given while `head` is still the one loaded is right.

### Tracer (`MCAnamTrace`)

| Run | Instance | Result |
|---|---|---|
| `TraceFaults` | 2 threads with the same truncated id and hence one file, ring of 8, indices modulo 32; the disk fails only for `t2` | `t1` loses and doubles nothing, across the wrap of head and tail; the events of each thread are in order in the shared file; as long as `overflow_count` is 0 nothing was overwritten |
| `TraceOldestLost` | 1 thread, failing opens | **violated**: a flush after an overflow drops events the ring still holds |

`overflow_count` counts overwriting only. After a short write `tail` moves past the
entries that were not written (`anamnesis_trace.c:156`, `:177`); they are lost and no
counter shows it, so `OverwriteCounted` speaks of the events recorded since `tail`
last moved and not of all that never reached the file.

### Pool with tracing (`TracedPool`)

| Run | Instance | Result |
|---|---|---|
| `TracedPool` | 2 threads, one also reading, 1 slot with up to 3 incarnations, 3 events per thread, 2 dropped; one init, shutdown and exits at any moment | merged by timestamp the entries of a slot run alloc, valid gets, release, alloc …, stale gets only after the release, and gaps only where events were dropped; with none dropped the entries in files and rings account for `alloc_count` and `release_count` |

One slot is enough, since entries about different slots are not compared. The
rings do not fill here; that is the subject of `TraceFaults`.

### Layout (`MCAnamLayout`)

`Layout`: all combinations of five slot sizes, up to three slots, six alignments
(invalid ones included), configurations that need more than a `size_t` (a slot
size at the limit, a count whose product wraps to a small block), and 31
placements of the block.

### Limits of these guarantees

The properties hold under the constants above. Changing one of these, or asking for
more than the property says, makes TLC produce a counterexample, and each marks a real
limit of the code:

| Change | Fails | Meaning |
|---|---|---|
| `GenMod <= MaxInc` (pool) | `PointerCurrent` | after 2^16 releases of a slot a stale handle is accepted again, although `anamnesis.h:118` says that a handle held after release and reuse is exposed |
| `ExclusiveUse = FALSE` | `PointerCurrent` | a pointer from `anam_get` outlives its incarnation when another thread releases the handle: the check is made once, not at each use |
| `ExclusiveUse = FALSE` (`TracedPool`) | `TraceTellsLives` | a get that was valid is reported after the release of its handle by another thread: load and timestamp are two steps (`anamnesis.c:327`, `:334`) |
| `PeekFront`, `EmptyHonest` without `head` unmoved (`QueueSpmc`) | both | when another consumer moves `head` during the call, peek returns false and empty returns true on a queue that is never empty (stale head, `anamnesis_queue.c:182`, `:195`), and peek returns true with an item that is not linked yet, from a node reused between lines 185 and 187 |
| `BufferSize = 4` (tracer) | `NothingLost` | three quarters of a ring of 4 is as much as it can hold, so the automatic flush comes too late (`anamnesis_trace.c:212`) |

Besides, `slots_live = slot_count - slots_free` can be wrong between the CAS of an
alloc or release and its counter update (`anamnesis.c:230`, `:299`): `slots_free`
then passes below 0, so a concurrent `anam_pool_stats` may report more live slots
than slots. `Accounting` therefore claims `slots_live` only when no call is in
progress, and the atomic counters up to the calls in flight.

### Bounds

* Two threads are enough for each race found; two slots give a list with a link
  that can become stale.
* `MaxInc = 2` lets a slot be popped, released and popped again under a pending
  CAS, and released once more. `GenMod = 4 > MaxInc` keeps the wrap apart.
* `CountMod` is just large enough for the counters to be exact modulo it, and
  small enough for them to wrap.
* Capacity 2 (three slots) and three or four pushes fill the queue and reuse the
  dummy's slot, also between two loads of one call. `StatMod = 1` drops the counters
  that nothing reads, where they are not the subject. `QueueMpsc` counts pushes and
  pops modulo 4, more than it makes; its `VIEW` leaves out `push_fails`, `pop_fails`
  and `aba_prevented`, which no guard and no property of the run reads.
* A ring of 8 is the smallest that reaches its threshold before it is full. With
  `IndexMod = 32` the threshold `capacity * 3 / 4` does not itself overflow (in the
  code it would for a ring of 2^31 entries), `MaxSound = 34` events make the indices
  of the thread with a working disk wrap, and `MaxFaulty = 12` overflow the other
  ring. `IdMod = 1` stands for a `uint8_t` that has wrapped: every ring gets the id
  of another one. `TracedPool` has two ids and two files.

The pool runs check deadlock. The queue and tracer runs and `TracedPool` do not:
their clients stop at `MaxPush`, `MaxRecord`, `MaxEvent` or `MaxDrop`, or after
destroy or exit.

### Fairness

`FairSpec` assumes that a thread inside a call keeps running (weak fairness of its
steps: the library has no locks and no waiting, only the scheduler can stop
it), and that a weak CAS which can succeed again and again does not fail
spuriously for ever (strong fairness of the successful CAS). Clients are never
obliged to call. `MaxInc` and `MaxPush` make the competing successes finite; for
unboundedly many, a single call may starve, as in every lock-free algorithm. For
the queue `CallsReturn` is checked with producers only; with a consumer beside two
producers it fails (`QueueMpmcStall` shows the mechanism).

## 4. Proofs

The theorems hold for every value of the constants that satisfies the modules'
assumptions, in particular for those of the code: 2^16 generations, 32-bit ring
indices, a 64-bit `size_t` and 48-bit addresses.

### Pool

| Theorem | States | Hypotheses |
|---|---|---|
| `TypeCorrect` | `Spec => []TypeOK` | – |
| `GenerationMaxAlways` | `Spec => []GenerationMaxCovers` | – |
| `Invariance` | `Spec => []IInv` | `NoWrap`, `ExclusiveRelease` |
| `OneOwnerAlways` | `Spec => []OneOwner` | `NoWrap`, `ExclusiveRelease` |
| `NoAba` | `Spec => []PopLinkFresh` | `NoWrap`, `ExclusiveRelease` |
| `Refinement` | `Spec => HP!Spec` | `NoWrap`, `ExclusiveRelease` |
| `TruthNeverExposedAlways` | `Spec => []TruthNeverExposed` | `NoWrap`, `ExclusiveRelease` |
| `PointerCurrentAlways` | `Spec => []PointerCurrent` | `NoWrap`, `ExclusiveRelease`, `ExclusiveUse` |
| `FreshIsCleanAlways` | `Spec => []FreshIsClean` | `NoWrap`, `ExclusiveRelease`, `ExclusiveUse` |
| `ListAlways` | `Spec => []ListInv` | `NoWrap`, `ExclusiveRelease` |
| `FreeListExactAlways` | `Spec => []FreeListExact` | `NoWrap`, `ExclusiveRelease` |
| `FailsOnlyWhenExhausted` | `Spec => FailOnlyWhenExhausted` | `NoWrap`, `ExclusiveRelease` |
| `StackPoolImplemented` | `Spec => ImplementsStackPool` | `NoWrap`, `ExclusiveRelease` |
| `ForeachExactAlways` | `Spec => []ForeachExact` | `NoWrap`, `ExclusiveRelease` |
| `AccountingAlways` | `Spec => []Accounting` | `NoWrap`, `ExclusiveRelease`, finitely many threads |

`NoWrap` (`MaxInc < GenMod`) says that no slot is released as often as there are
generations. Each hypothesis is needed: `PoolDoubleRelease` and the first two
rows of "Limits of these guarantees" show what happens without it.

*Argument.* `TypeOK` needs to know that a thread about to follow `old_head` or
`arg` has a slot there (`PendingOK`). `IInv` adds:

* `GenerationInv` – the generation of a slot is its number of releases;
* `IssuedInv` – an issued handle is past, or present and its slot is live;
* `ReleaseInv` – releases in progress work on different handles, and what they
  validated is still true at the bump; afterwards the slot is retired;
* `PopInv` – an alloc past its CAS has the slot for itself;
* `FreeListInv` – `free_head` and the links of free slots name free slots by their
  current generation, and no slot twice;
* `PendingPopInv` – the ABA argument: as long as the generation an alloc saw is
  current, the slot has not been released in between, so if it is free now it was
  free all the time and its link has not changed.

None of these is inductive alone: `PopLinkFresh` needs `PendingPopInv`, which
needs `ReleaseInv` to know that the bump comes before the push, which needs
`IssuedInv` to know that a validated handle is current.

Three properties take an invariant of their own on top of `IInv`: `PointerInv` (a
pointer in use is current, and no release of its handle is on the way to the
bump), `ExposeInv` (what is about to be counted as a counterfeit is over for good,
since incarnations only grow), and `CleanInv` (with `zero_on_release` a slot stays
zero from the memset of its release to the return of the next alloc, because by
`PointerInv` nobody writes to it in between).

The refinement needs `IInv` too: that a pop takes a free slot is `FreeListInv`, that
a returned handle is new is `IssuedInv`, that the bump ends a live incarnation is
`ReleaseInv`.

*The free list.* `FreeListInv` says of each link where it leads, not that the links
reach every free slot. `ListInv` adds that: there is a sequence `L` of slots, without
repetition, that `free_head` and the links spell, and its elements are the free
slots. A pop takes the first element, a push adds one in front, and no other step
writes a link of a free slot (`IInv`). What `anam_foreach` finds is a recursive walk.
That it computes `L` is shown without an induction schema: a number of turns after
which the walk is not where `L` says would have a least one (`NatMin`), and the turn
before leads to it (`WalkComputes`). From there `FreeListExact`, the order of the
stack in `StackPool`, and the slots `anam_foreach` reports follow; for the handles
it reports at rest, `HeldInv` says that a live slot has a handle that was issued.

*The counters.* `CountInv` relates each counter to the history variables and to the
calls between their CAS and their update, up to a multiple of `CountMod`, since the
counters wrap. Each step changes one status and one `pc`, so that each cardinality
moves by at most one; this is where the set of threads has to be finite.

### Layout (`AnamLayoutProof`)

`SlotsInBlockAlways`, `SlotsSeparateAlways`, `SlotsAlignedAlways`,
`HandleRoundTripAlways`, `StrictExactAlways`: all properties of the run `Layout`, with
no hypothesis beyond `LayoutAssumption` (the moduli are powers of two, an address
fits in a `size_t` and has at least the three bits of the state, the allocator
returns no null address).

The invariant is that a pool is what `anam_pool_create` computes from a configuration
it accepts. The rest is arithmetic. `align_up` rounds up when the result is a
`size_t`, because the modulus is a multiple of the alignment (`PowerDivides`, from the
least counterexample), so that a sum that wraps would already have passed it. Hence
in a pool that fits the stride is header plus user size, both rounded, and the total
and the base are exact (`SoundIsLaid`). Conversely, if the bytes of the first slot lie
in the block, stride and base have not wrapped (`FirstSlot`); if those of the last one
do, neither has the product (`LastSlot`). A block with a wrapped size is therefore
always too small. The mask is exact because every lower power of two divides the
stride an even number of times (`EvenMultiple`, `MaskExact`).

### Queue (`AnamQueueProof`)

| Theorem | States | Hypotheses |
|---|---|---|
| `QueueTypeInvariance` | `Spec => []TypeInv` | – |
| `QueueTypeCorrect` | `Spec => []TypeOK` | – |
| `QueueInvariance` | `Spec => []QueueInv` | `Undisturbed` |
| `QueueReleasesOnce` | `Spec => []ReleasesOnce` | `Undisturbed` |
| `QueueSlotsConserved` | `Spec => []SlotsConserved` | `Undisturbed` |
| `QueueDestroyReleasesAll` | `Spec => []DestroyReleasesAll` | `Undisturbed` |
| `QueueCountersExact` | `Spec => []CountersExact` | `Undisturbed`, finitely many threads |
| `QueueImplementsFifo` | `Spec => ImplementsFifo` | `Undisturbed`, finitely many threads |
| `PeekFrontAlways` | `Spec => PeekFront` | `Undisturbed` |
| `EmptyHonestAlways` | `Spec => EmptyHonest` | `Undisturbed` |
| `OneReaderNeverWrong` | `Spec => NeverWrong` | `Undisturbed`, `OneReader` |
| `OneProducerLinksSafely` | `Spec => []LinkNeverStale` | `NoWrap`, `OneProducer` |
| `OneProducerTailInList` | `Spec => []TailInList` | `NoWrap`, `OneProducer` |
| `GenerationsDoNotWrap` | `Spec => []Undisturbed` | `FewPushes`, `LinkNeverStale` |
| `OneProducerUndisturbed` | `Spec => []Undisturbed` | `FewPushes`, `OneProducer` |
| `OneProducerCorrect` | all invariants of the runs | `FewPushes`, `OneProducer` |
| `OneProducerImplementsFifo` | `Spec => ImplementsFifo` | `FewPushes`, `OneProducer` |

`Undisturbed` is a condition on the behaviour, so these theorems have the form
`Spec /\ []Undisturbed => ...`, for any number of producers and consumers. It has two
parts. `LinkNeverStale`: no push is about to link its node to a slot that has been
reused; the CAS on the link compares with an untagged null and cannot notice.
`QueueMpmcReuse` shows that two producers and a consumer can violate it, and that
everything else then breaks, so it cannot be dropped. `NoWrap`: no slot has
reached its last generation. The last rows discharge both for one producer and any
number of consumers: `OneProducer` says that `Producer` has at most one element, and
`FewPushes` that there are finitely many threads and at least three generations more
than pushes (`MaxPush + 2 < GenMod`, 65 533 pushes for the 16 bits of the code). These
are the assumptions of a program that uses the queue with one producer between two
restarts; beyond them a handle that a thread keeps through 2^16 uses of its slot
becomes valid again. `OneReader` says that nobody but the observer pops: then `head`
does not move during peek and empty, and the reservation of `PeekFront` and
`EmptyHonest` falls away (`NeverWrong`).

*Argument.* `TypeInv` adds to `TypeOK` that every handle a call is about to follow names a
slot. `QueueInv` adds:

* `ModesOK` – from the call of destroy on, one thread is inside a call;
* `NodesOK(L)` – there is a sequence `L` of slots without repetition that `head` and the links
  spell, each link by the present generation of its node (`IsList`); every slot is in
  exactly one of `L`, the free list, the hands of a push before its link and the hands of a
  pop after its CAS (`Apart`); and what these calls know of their slot is true (`HandOK`);
* `Refs` – a handle stored anywhere, in `head`, `tail`, a link or a local, is older than
  the present generation of its slot, or the slot is a node of the list or the dummy a pop is
  about to release (`Ref`); a handle once read from `head` is not read from it again after
  head has moved (`Past`);
* `Pops(t)` – as long as `head` is the handle a pop has loaded, the successor it has read is
  the successor, and if it read none, the queue was empty at that moment.

The three depend on each other. That the link of push extends the list at its end needs
`LinkNeverStale` and `Refs`: a valid handle whose link is null names the last node. That the
CAS of pop removes the first item needs `Pops`, which survives the steps of other threads
only because a value of `head` never comes back (`NoReturn`, from `Past` and `NoWrap`). `Refs`
is kept because the release bumps the generation before the slot is spare (`Apart`). As for
the pool, `Chain` is a recursive walk; that it computes `L` is shown by the least number of
turns for which it does not (`WalkComputes`).

For one producer `SingleOK` follows `tail`: it is the last node of the list, or the one
before it while the producer is between its link and its swing; the handle the producer
has loaded from it is current; and no pop is about to move `head` past it, because it
has seen `tail` elsewhere (`Beyond`). With a second producer the first two fail.

For peek and empty `ReadOK` says the same as `Pops`: as long as `head` is the handle the call
has loaded, the link it has read is null or the link of the dummy, and a null link tells of
an empty queue. A pop by another thread ends this for good, since `head` never takes the old
value again (`NoReturn`).

The counters are related to the length of the list and the calls between a CAS and its
fetch_add, up to a multiple of their modulus (`Balanced`). `GenBound` bounds the
generation of a slot by the pushes that have been made, less those whose nodes are
still in use; this is where finitely many threads are needed.

*The refinement.* A step of the code is a step of `FifoQueue` or none: the calls, the link
CAS (`PushDo`), the head CAS (`PopDo`, or `Discard` in destroy), the returns, and the two
failures. The items are the data along `L`, so that `IsList` gives the item that enters and
`Pops` the one that leaves (`ItemsMove`). A failed pop needs that the queue was empty during the
call: `Pops` again, with the ghost `seen` (`NoticeOK`). A failed push needs that items and
calls in flight fill the capacity (`FullPool`): with the free list empty, `Apart` puts each of
the `Capacity + 1` slots into the list or into the hands of a thread, so they are at most as
many as both together.

### Tracer (`AnamTraceProof`)

| Theorem | States | Hypotheses |
|---|---|---|
| `TraceInvariance` | `Spec => []TraceInv` | – |
| `TraceTypeCorrect` | `Spec => []TypeOK` | – |
| `FilesInOrderAlways` | `Spec => []FilesInOrder` | – |
| `NothingLostAlways` | `Spec => []NothingLost` | `BufferSize >= 8` |
| `OverwriteCountedAlways` | `Spec => []OverwriteCounted` | for each thread: fewer than `IndexMod` events, or a working disk and `BufferSize >= 8` |

`TraceInv` says that for each thread there is a number `F` of events that are done
with (written, or dropped by a failed write), such that `head` and `tail` are the number
of stored entries, and that number less the events after `F`, modulo `IndexMod`; the
last `BufferSize` entries stored are at the positions their number says; the file
holds increasing events up to `F`, and all of them if the disk works. The positions
survive the wrap of the indices because `BufferSize` divides `IndexMod` (`IdxWrap`).
A flush writes the run of events between `tail` and `head` whether it is one block or
two (`FlushIs`), so the file grows by a run that follows what it has. The threshold is
reached before the ring is full for rings of 8 or more (`Threshold`), so with a working
disk no more than `BufferSize - 2` events wait, and the masked distance is the true one.
The hypothesis of `OverwriteCountedAlways` is a limit of the code: a counter that wraps is 0
again after 2^32 overflows. Nothing is assumed about ids: `FilesInOrderAlways` and
`NothingLostAlways` hold when threads share an id and a file.

### Pool with tracing (`TracedPoolProof`)

`TraceTellsLivesAlways`: `TSpec => []TraceTellsLives` from `NoWrap`, `ExclusiveRelease` and
`ExclusiveUse`. `LifeInv` bounds what has been reported about a slot, and what is still
to be reported, by the slot's incarnation and status: an allocation that waits to be
reported has its slot taken, a release that waits has it retired, and a valid get that
waits has a pointer, which by `PointerInv` keeps the incarnation alive. The latest entry
about a slot is therefore never ahead of the slot, and no report still to come belongs
before it.

`TraceAccountsAlways`: `TSpec => []TraceAccounts` from `BufferSize >= 8` and finitely many
threads; clients may race their calls and generations may wrap. Every step of the
composition is a step of the tracer or leaves it alone (`TracerStep`), so `NothingLost`
holds of its rings and files; the entries of a trail are events the tracer has numbered
(`EntriesLogged`), hence all of them are in a file or in a ring. `AccountInv` says that
while nothing was dropped, the entries made and the events waiting in a hook number, up to a multiple of
`CountMod`, what the counter says; for releases less the calls that have bumped the
generation and not yet counted it. At rest both corrections are 0. The bound on the ring
is that of `NothingLostAlways`: `anam_trace_init` accepts smaller rings, which overflow.

### Only model-checked

* Liveness (`CallsReturn`, pool and queue): fairness and `ENABLED` are beyond the prover.

## 5. Plan

1. *Done:* pool, layout, queue, tracer, and the pool with its trace hooks; the
   abstract specifications `HandlePool`, `StackPool` and `FifoQueue` with the
   refinements; the theorems above, which state every safety property that a passing
   run checks.
2. *Left:* the parts listed as not modelled.
