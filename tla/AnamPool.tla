------------------------------ MODULE AnamPool ------------------------------
(***************************************************************************)
(* The object pool of src/anamnesis.c: a Treiber stack of free slots whose *)
(* links are generation-tagged handles, and a true generation per slot     *)
(* against which every handle a client presents is validated.              *)
(*                                                                         *)
(* One action is one atomic access to shared memory (a load, a store, a    *)
(* CAS or a fetch_add) together with the local computation around it.      *)
(* Init is the pool that anam_pool_create returns.                         *)
(***************************************************************************)
EXTENDS Integers, Sequences, FiniteSets

CONSTANTS
  Thread,            \* client threads sharing the pool
  Readers,           \* the threads that also call anam_get
  SlotCount,         \* pool->slot_count
  GenMod,            \* number of generation values, 2^16 in the code
  CountMod,          \* number of size_t values, 2^64 in the code
  ZeroOnAlloc,       \* pool->zero_on_alloc
  ZeroOnRelease,     \* pool->zero_on_release
  MaxInc,            \* bound: a slot is released at most MaxInc times
  ExclusiveRelease,  \* clients never race two releases of one handle
  ExclusiveUse       \* clients never race a release with a use of the pointer

ASSUME PoolAssumption ==
  /\ Readers \subseteq Thread
  /\ SlotCount \in Nat \ {0}
  /\ GenMod \in Nat \ {0}
  /\ CountMod \in Nat /\ CountMod > SlotCount
  /\ MaxInc \in Nat
  /\ {ZeroOnAlloc, ZeroOnRelease, ExclusiveRelease, ExclusiveUse} \subseteq BOOLEAN

VARIABLES
  \* struct AnamPool and the SlotHeaders
  free_head, next, generation,
  slots_free, alloc_count, release_count, anamnesis_count, generation_max,
  mem,        \* what the user bytes of a slot hold
  \* one call in progress per thread: position and C locals
  pc, arg, old_head, new_head, gen, max_gen,
  \* what the clients hold
  issued, ptr,
  \* history: the life cycle of a slot, and how often it was released
  status, inc

pool  == <<free_head, next, generation>>
stats == <<slots_free, alloc_count, release_count, anamnesis_count, generation_max>>
locals == <<old_head, new_head, gen, max_gen>>
ghost == <<status, inc>>
vars == <<pool, stats, mem, pc, arg, locals, issued, ptr, ghost>>

-----------------------------------------------------------------------------
(* Handles *)

Slot == 0 .. SlotCount - 1

FREE == "free"
LIVE == "live"

\* The three bit fields are kept apart; address 0 is slot -1.
encode_handle(g, s, st) == [gen |-> g, slot |-> s, state |-> st]
ANAM_NULL == encode_handle(0, -1, FREE)

Gen == 0 .. GenMod - 1
FreeHandle == [gen : Gen, slot : Slot, state : {FREE}]
LiveHandle == [gen : Gen, slot : Slot, state : {LIVE}]

NextGen(g) == IF g = GenMod - 1 THEN 0 ELSE g + 1
Add1(n) == IF n = CountMod - 1 THEN 0 ELSE n + 1
\* Mutant: the counter is not a size_t.
Sub1Signed(n) == n - 1

Sub1(n) == IF n = 0 THEN CountMod - 1 ELSE n - 1

\* Mutant: the last slot is left out.
in_pool_short(s) == s \in 0 .. SlotCount - 2

in_pool(s) == s \in Slot

\* The checks anam_release and anam_get make before they look at the header,
\* and with them the comparison of the claimed and the true generation.
Rejected(h) == h.state # LIVE \/ ~in_pool(h.slot)
\* Mutant: the generations are not compared.
ValidatedAnyGen(h) == ~Rejected(h)

Validated(h) == ~Rejected(h) /\ generation[h.slot] = h.gen

-----------------------------------------------------------------------------
(* Clients hold references: a handle with the incarnation it was issued    *)
(* for. The incarnation is history, the code never sees it.                *)

Ref(h, i) == [h |-> h, inc |-> i]
NoRef == Ref(ANAM_NULL, -1)
Foreign == Ref(encode_handle(0, SlotCount, LIVE), -1)   \* another pool's handle
Untagged == Ref(encode_handle(0, 0, FREE), -1)          \* not a LIVE handle

Issuable == [h : LiveHandle, inc : Nat]
Arguments == issued \cup {Foreign, Untagged}

\* User bytes: never written, zeroed, or written by the holder of a reference.
Garbage == -2
Zero == -1

Init ==
  /\ free_head = encode_handle(0, 0, FREE)
  /\ next = [s \in Slot |-> IF s = SlotCount - 1 THEN ANAM_NULL
                            ELSE encode_handle(0, s + 1, FREE)]
  /\ generation = [s \in Slot |-> 0]
  /\ slots_free = SlotCount
  /\ alloc_count = 0 /\ release_count = 0 /\ anamnesis_count = 0
  /\ generation_max = 0
  /\ mem = [s \in Slot |-> Garbage]
  /\ pc = [t \in Thread |-> "idle"]
  /\ arg = [t \in Thread |-> NoRef]
  /\ old_head = [t \in Thread |-> ANAM_NULL]
  /\ new_head = [t \in Thread |-> ANAM_NULL]
  /\ gen = [t \in Thread |-> 0]
  /\ max_gen = [t \in Thread |-> 0]
  /\ issued = {}
  /\ ptr = [t \in Thread |-> NoRef]
  /\ status = [s \in Slot |-> "free"]
  /\ inc = [s \in Slot |-> 0]

\* The reference anam_alloc is about to return.
Issued(t) == LET s == old_head[t].slot IN Ref(encode_handle(gen[t], s, LIVE), inc[s])

\* Mutant: the memset is missing.
ClearedNever(on, s) == mem

Cleared(on, s) == IF on THEN [mem EXCEPT ![s] = Zero] ELSE mem

Goto(t, from, to) == pc[t] = from /\ pc' = [pc EXCEPT ![t] = to]

-----------------------------------------------------------------------------
(* anam_alloc *)

AllocCall(t) ==
  /\ Goto(t, "idle", "a_head")
  /\ UNCHANGED <<pool, stats, mem, arg, locals, issued, ptr, ghost>>

AllocLoadHead(t) ==
  /\ free_head # ANAM_NULL
  /\ Goto(t, "a_head", "a_next")
  /\ old_head' = [old_head EXCEPT ![t] = free_head]
  /\ UNCHANGED <<pool, stats, mem, arg, new_head, gen, max_gen, issued, ptr, ghost>>

\* Mutant: the last free slot counts as exhaustion.
AllocFailEarly(t) ==
  /\ free_head = ANAM_NULL \/ next[free_head.slot] = ANAM_NULL
  /\ Goto(t, "a_head", "idle")
  /\ UNCHANGED <<pool, stats, mem, arg, locals, issued, ptr, ghost>>

\* The pool is exhausted: ANAM_NULL is returned.
AllocFail(t) ==
  /\ free_head = ANAM_NULL
  /\ Goto(t, "a_head", "idle")
  /\ UNCHANGED <<pool, stats, mem, arg, locals, issued, ptr, ghost>>

AllocLoadNext(t) ==
  /\ Goto(t, "a_next", "a_cas")
  /\ new_head' = [new_head EXCEPT ![t] = next[old_head[t].slot]]
  /\ UNCHANGED <<pool, stats, mem, arg, old_head, gen, max_gen, issued, ptr, ghost>>

AllocPop(t) ==
  /\ free_head = old_head[t]
  /\ Goto(t, "a_cas", "a_gen")
  /\ free_head' = new_head[t]
  /\ status' = [status EXCEPT ![old_head[t].slot] = "taken"]
  /\ new_head' = [new_head EXCEPT ![t] = ANAM_NULL]
  /\ UNCHANGED <<next, generation, stats, mem, arg, old_head, gen, max_gen,
                 issued, ptr, inc>>

\* The weak CAS fails, because the head moved or spuriously.
AllocRetry(t) ==
  /\ Goto(t, "a_cas", "a_head")
  /\ old_head' = [old_head EXCEPT ![t] = ANAM_NULL]
  /\ new_head' = [new_head EXCEPT ![t] = ANAM_NULL]
  /\ UNCHANGED <<pool, stats, mem, arg, gen, max_gen, issued, ptr, ghost>>

AllocLoadGen(t) ==
  /\ Goto(t, "a_gen", "a_max")
  /\ gen' = [gen EXCEPT ![t] = generation[old_head[t].slot]]
  /\ UNCHANGED <<pool, stats, mem, arg, old_head, new_head, max_gen, issued, ptr, ghost>>

\* Both the first load of generation_max and the reload by a failed CAS.
AllocLoadMax(t) ==
  /\ pc[t] \in {"a_max", "a_maxcas"}
  /\ pc' = [pc EXCEPT ![t] = IF gen[t] > generation_max THEN "a_maxcas" ELSE "a_clear"]
  /\ max_gen' = [max_gen EXCEPT ![t] = generation_max]
  /\ UNCHANGED <<pool, stats, mem, arg, old_head, new_head, gen, issued, ptr, ghost>>

\* Mutant: a plain store where the code has a CAS.
AllocRaiseMaxStore(t) ==
  /\ Goto(t, "a_maxcas", "a_clear")
  /\ generation_max' = gen[t]
  /\ UNCHANGED <<pool, slots_free, alloc_count, release_count, anamnesis_count,
                 mem, arg, locals, issued, ptr, ghost>>

AllocRaiseMax(t) ==
  /\ generation_max = max_gen[t]
  /\ Goto(t, "a_maxcas", "a_clear")
  /\ generation_max' = gen[t]
  /\ UNCHANGED <<pool, slots_free, alloc_count, release_count, anamnesis_count,
                 mem, arg, locals, issued, ptr, ghost>>

AllocClearNext(t) ==
  /\ Goto(t, "a_clear", "a_free")
  /\ next' = [next EXCEPT ![old_head[t].slot] = ANAM_NULL]
  /\ UNCHANGED <<free_head, generation, stats, mem, arg, locals, issued, ptr, ghost>>

AllocSlotsFree(t) ==
  /\ Goto(t, "a_free", "a_count")
  /\ slots_free' = Sub1(slots_free)
  /\ UNCHANGED <<pool, alloc_count, release_count, anamnesis_count, generation_max,
                 mem, arg, locals, issued, ptr, ghost>>

AllocCount(t) ==
  /\ Goto(t, "a_count", "a_ret")
  /\ alloc_count' = Add1(alloc_count)
  /\ UNCHANGED <<pool, slots_free, release_count, anamnesis_count, generation_max,
                 mem, arg, locals, issued, ptr, ghost>>

\* Clears the user bytes and hands the handle to the client.
AllocReturn(t) ==
  LET s == old_head[t].slot IN
  /\ Goto(t, "a_ret", "idle")
  /\ mem' = Cleared(ZeroOnAlloc, s)
  /\ issued' = issued \cup {Issued(t)}
  /\ status' = [status EXCEPT ![s] = "live"]
  /\ old_head' = [old_head EXCEPT ![t] = ANAM_NULL]
  /\ gen' = [gen EXCEPT ![t] = 0]
  /\ max_gen' = [max_gen EXCEPT ![t] = 0]
  /\ UNCHANGED <<pool, stats, arg, new_head, ptr, inc>>

-----------------------------------------------------------------------------
(* anam_release *)

\* Client rules: a handle is released by one thread at a time, and not while
\* another thread works with a pointer obtained from it.
MayRelease(t, r) ==
  /\ r.inc < MaxInc
  /\ ExclusiveRelease => \A u \in Thread : arg[u] # r
  /\ ExclusiveUse => \A u \in Thread \ {t} : ptr[u] # r

MayGet(r) == ExclusiveUse => \A u \in Thread : arg[u] # r

ReleaseCall(t, r) ==
  /\ MayRelease(t, r)
  /\ Goto(t, "idle", IF Rejected(r.h) THEN "expose" ELSE "r_gen")
  /\ arg' = [arg EXCEPT ![t] = r]
  /\ ptr' = [ptr EXCEPT ![t] = IF @ = r THEN NoRef ELSE @]
  /\ UNCHANGED <<pool, stats, mem, locals, issued, ghost>>

\* Mutant: the generation is loaded but not compared.
ReleaseUnchecked(t) ==
  /\ Goto(t, "r_gen", "r_bump")
  /\ gen' = [gen EXCEPT ![t] = generation[arg[t].h.slot]]
  /\ UNCHANGED <<pool, stats, mem, arg, old_head, new_head, max_gen, issued, ptr, ghost>>

\* Load of the true generation; the handle is validated against it.
ReleaseValidate(t) ==
  LET true_gen == generation[arg[t].h.slot] IN
  /\ Goto(t, "r_gen", IF arg[t].h.gen # true_gen THEN "expose" ELSE "r_bump")
  /\ gen' = [gen EXCEPT ![t] = true_gen]
  /\ UNCHANGED <<pool, stats, mem, arg, old_head, new_head, max_gen, issued, ptr, ghost>>

ReleaseBump(t) ==
  LET s == arg[t].h.slot IN
  /\ Goto(t, "r_bump", "r_zero")
  /\ generation' = [generation EXCEPT ![s] = NextGen(gen[t])]
  /\ status' = [status EXCEPT ![s] = "retired"]
  /\ inc' = [inc EXCEPT ![s] = @ + 1]
  /\ UNCHANGED <<free_head, next, stats, mem, arg, locals, issued, ptr>>

ReleaseZero(t) ==
  /\ Goto(t, "r_zero", "r_head")
  /\ mem' = Cleared(ZeroOnRelease, arg[t].h.slot)
  /\ UNCHANGED <<pool, stats, arg, locals, issued, ptr, ghost>>

ReleaseLoadHead(t) ==
  /\ Goto(t, "r_head", "r_next")
  /\ old_head' = [old_head EXCEPT ![t] = free_head]
  /\ UNCHANGED <<pool, stats, mem, arg, new_head, gen, max_gen, issued, ptr, ghost>>

ReleaseLink(t) ==
  /\ Goto(t, "r_next", "r_cas")
  /\ next' = [next EXCEPT ![arg[t].h.slot] = old_head[t]]
  /\ UNCHANGED <<free_head, generation, stats, mem, arg, locals, issued, ptr, ghost>>

\* Mutant: the head is tagged with the generation that was just ended.
ReleasePushOldTag(t) ==
  LET s == arg[t].h.slot IN
  /\ free_head = old_head[t]
  /\ Goto(t, "r_cas", "r_free")
  /\ free_head' = encode_handle(gen[t], s, FREE)
  /\ status' = [status EXCEPT ![s] = "free"]
  /\ UNCHANGED <<next, generation, stats, mem, arg, locals, issued, ptr, inc>>

ReleasePush(t) ==
  LET s == arg[t].h.slot IN
  /\ free_head = old_head[t]
  /\ Goto(t, "r_cas", "r_free")
  /\ free_head' = encode_handle(NextGen(gen[t]), s, FREE)
  /\ status' = [status EXCEPT ![s] = "free"]
  /\ UNCHANGED <<next, generation, stats, mem, arg, locals, issued, ptr, inc>>

\* Mutant: the failed CAS reloads the head, but the slot is not linked to it.
ReleaseRetryNoLink(t) ==
  /\ Goto(t, "r_cas", "r_cas")
  /\ old_head' = [old_head EXCEPT ![t] = free_head]
  /\ UNCHANGED <<pool, stats, mem, arg, new_head, gen, max_gen, issued, ptr, ghost>>

\* Mutant: the CAS is retried with the head that was loaded the first time.
ReleaseRetryNoReload(t) ==
  /\ Goto(t, "r_cas", "r_next")
  /\ UNCHANGED <<pool, stats, mem, arg, locals, issued, ptr, ghost>>

ReleaseRetry(t) ==
  /\ Goto(t, "r_cas", "r_head")
  /\ old_head' = [old_head EXCEPT ![t] = ANAM_NULL]
  /\ UNCHANGED <<pool, stats, mem, arg, new_head, gen, max_gen, issued, ptr, ghost>>

\* Mutant: slots_free is forgotten.
ReleaseSlotsFreeSkip(t) ==
  /\ Goto(t, "r_free", "r_count")
  /\ UNCHANGED <<pool, stats, mem, arg, locals, issued, ptr, ghost>>

ReleaseSlotsFree(t) ==
  /\ Goto(t, "r_free", "r_count")
  /\ slots_free' = Add1(slots_free)
  /\ UNCHANGED <<pool, alloc_count, release_count, anamnesis_count, generation_max,
                 mem, arg, locals, issued, ptr, ghost>>

ReleaseReturn(t) ==
  /\ Goto(t, "r_count", "idle")
  /\ release_count' = Add1(release_count)
  /\ arg' = [arg EXCEPT ![t] = NoRef]
  /\ old_head' = [old_head EXCEPT ![t] = ANAM_NULL]
  /\ gen' = [gen EXCEPT ![t] = 0]
  /\ UNCHANGED <<pool, slots_free, alloc_count, anamnesis_count, generation_max,
                 mem, new_head, max_gen, issued, ptr, ghost>>

-----------------------------------------------------------------------------
(* anam_get and anam_validate: one load of the true generation.            *)

GetValid(t, r) ==
  /\ MayGet(r)
  /\ Validated(r.h)
  /\ Goto(t, "idle", "idle")
  /\ ptr' = [ptr EXCEPT ![t] = r]
  /\ UNCHANGED <<pool, stats, mem, arg, locals, issued, ghost>>

GetStale(t, r) ==
  /\ MayGet(r)
  /\ ~Validated(r.h)
  /\ Goto(t, "idle", "expose")
  /\ arg' = [arg EXCEPT ![t] = r]
  /\ UNCHANGED <<pool, stats, mem, locals, issued, ptr, ghost>>

\* The failed call of anam_get or anam_release counts the counterfeit and returns.
Expose(t) ==
  /\ Goto(t, "expose", "idle")
  /\ anamnesis_count' = Add1(anamnesis_count)
  /\ arg' = [arg EXCEPT ![t] = NoRef]
  /\ gen' = [gen EXCEPT ![t] = 0]
  /\ UNCHANGED <<pool, slots_free, alloc_count, release_count, generation_max,
                 mem, old_head, new_head, max_gen, issued, ptr, ghost>>

\* The client writes through the pointer anam_get gave it, and drops it.
Use(t) ==
  /\ Goto(t, "idle", "idle")
  /\ ptr[t] # NoRef
  /\ mem' = [mem EXCEPT ![ptr[t].h.slot] = ptr[t].inc]
  /\ ptr' = [ptr EXCEPT ![t] = NoRef]
  /\ UNCHANGED <<pool, stats, arg, locals, issued, ghost>>

-----------------------------------------------------------------------------

AllocStep(t) ==
  \/ AllocLoadHead(t) \/ AllocFail(t) \/ AllocLoadNext(t)
  \/ AllocPop(t) \/ AllocRetry(t)
  \/ AllocLoadGen(t) \/ AllocLoadMax(t) \/ AllocRaiseMax(t) \/ AllocClearNext(t)
  \/ AllocSlotsFree(t) \/ AllocCount(t) \/ AllocReturn(t)

ReleaseStep(t) ==
  \/ ReleaseValidate(t) \/ ReleaseBump(t) \/ ReleaseZero(t)
  \/ ReleaseLoadHead(t) \/ ReleaseLink(t) \/ ReleasePush(t) \/ ReleaseRetry(t)
  \/ ReleaseSlotsFree(t) \/ ReleaseReturn(t)

ClientStep(t) ==
  \/ AllocCall(t)
  \/ \E r \in Arguments : ReleaseCall(t, r)
  \/ t \in Readers /\ \E r \in Arguments : GetValid(t, r) \/ GetStale(t, r)
  \/ Use(t)

Next == \E t \in Thread : AllocStep(t) \/ ReleaseStep(t) \/ Expose(t) \/ ClientStep(t)

Spec == Init /\ [][Next]_vars

\* A thread inside a call keeps running, and a weak CAS that could succeed
\* again and again does not fail spuriously for ever. Clients need not call.
InCallStep(t) == AllocStep(t) \/ ReleaseStep(t) \/ Expose(t)

CasSucceeds(t) == AllocPop(t) \/ AllocRaiseMax(t) \/ ReleasePush(t)

Fairness == \A t \in Thread : WF_vars(InCallStep(t)) /\ SF_vars(CasSucceeds(t))

FairSpec == Spec /\ Fairness
-----------------------------------------------------------------------------
(* anam_foreach: the free list is walked and every other slot is visited.  *)

SlotsOf(seq) == {seq[i] : i \in 1 .. Len(seq)}

\* The first n slots of the walk, and the handle it stands at.
Walk(n) ==
  LET walk[k \in 0 .. n] ==
        IF k = 0 THEN [h |-> free_head, slots |-> <<>>]
        ELSE LET w == walk[k - 1] IN
             IF w.h = ANAM_NULL \/ ~in_pool(w.h.slot) \/ w.h.slot \in SlotsOf(w.slots)
             THEN w
             ELSE [h |-> next[w.h.slot], slots |-> Append(w.slots, w.h.slot)]
  IN walk[n]

\* Mutant: the walk stops one slot short.
FreeWalkShort == Walk(SlotCount - 1)

FreeWalk == Walk(SlotCount)

ForeachHandles ==
  {encode_handle(generation[s], s, LIVE) : s \in Slot \ SlotsOf(FreeWalk.slots)}

\* anam_pool_stats: slots_live is the size_t difference of two counters.
stats_slots_live == (SlotCount - slots_free) % CountMod

-----------------------------------------------------------------------------
(* Properties *)

Popped == {"a_gen", "a_max", "a_maxcas", "a_clear", "a_free", "a_count", "a_ret"}
Pushing == {"r_zero", "r_head", "r_next", "r_cas"}
PC == {"idle", "a_head", "a_next", "a_cas", "r_gen", "r_bump", "r_free", "r_count", "expose"}
        \cup Popped \cup Pushing

\* Every variable keeps its type; size_t counters and generations wrap.
TypeOK ==
  /\ free_head \in FreeHandle \cup {ANAM_NULL}
  /\ next \in [Slot -> FreeHandle \cup {ANAM_NULL}]
  /\ generation \in [Slot -> Gen]
  /\ slots_free \in 0 .. CountMod - 1
  /\ alloc_count \in 0 .. CountMod - 1
  /\ release_count \in 0 .. CountMod - 1
  /\ anamnesis_count \in 0 .. CountMod - 1
  /\ generation_max \in Gen
  /\ mem \in [Slot -> {Garbage, Zero} \cup Nat]
  /\ pc \in [Thread -> PC]
  /\ arg \in [Thread -> Issuable \cup {NoRef, Foreign, Untagged}]
  /\ old_head \in [Thread -> FreeHandle \cup {ANAM_NULL}]
  /\ new_head \in [Thread -> FreeHandle \cup {ANAM_NULL}]
  /\ gen \in [Thread -> Gen]
  /\ max_gen \in [Thread -> Gen]
  /\ issued \in SUBSET Issuable
  /\ ptr \in [Thread -> Issuable \cup {NoRef}]
  /\ status \in [Slot -> {"free", "taken", "live", "retired"}]
  /\ inc \in [Slot -> Nat]

Current(r) == status[r.h.slot] = "live" /\ inc[r.h.slot] = r.inc
FreeSlots == {s \in Slot : status[s] = "free"}
Quiescent == \A t \in Thread : pc[t] = "idle"

\* The links starting at free_head lead through every free slot exactly once
\* and end in ANAM_NULL, at every moment of every alloc and release.
FreeListExact == FreeWalk.h = ANAM_NULL /\ SlotsOf(FreeWalk.slots) = FreeSlots

\* No ABA in the pop of anam_alloc: whenever its CAS is going to succeed, the
\* link read earlier is still the link of the slot.
PopLinkFresh ==
  \A t \in Thread : pc[t] = "a_cas" /\ free_head = old_head[t]
                      => new_head[t] = next[old_head[t].slot]

\* A slot is in the hands of at most one alloc or release, and while it is,
\* it is neither free nor live.
OneOwner ==
  \A t \in Thread :
    /\ pc[t] \in Popped => status[old_head[t].slot] = "taken"
    /\ pc[t] \in Pushing => status[arg[t].h.slot] = "retired"
    /\ \A u \in Thread \ {t} :
         /\ pc[t] \in Popped /\ pc[u] \in Popped => old_head[t].slot # old_head[u].slot
         /\ pc[t] \in Pushing /\ pc[u] \in Pushing => arg[t].h.slot # arg[u].h.slot

\* "Double-free: returns false": of two releases of one handle at most one gets
\* past the validation of anam_release.
DoubleReleaseRejected ==
  \A t, u \in Thread :
    t # u /\ pc[t] \in Pushing /\ pc[u] \in Pushing => arg[t] # arg[u]

\* A pointer returned by anam_get belongs to the incarnation the handle was
\* issued for, and that incarnation is still alive.
PointerCurrent == \A t \in Thread : ptr[t] # NoRef => Current(ptr[t])

\* "In a correct program, this should be zero": a handle that tells the truth is
\* never about to be counted as a counterfeit.
TruthNeverExposed ==
  \A t \in Thread : pc[t] = "expose" /\ arg[t] \in issued => ~Current(arg[t])

\* With zeroing configured, a live slot never shows the bytes of an earlier
\* incarnation (zero_on_release cannot speak for the first one).
FreshIsClean ==
  \A s \in Slot :
    status[s] = "live" /\ (ZeroOnAlloc \/ (ZeroOnRelease /\ inc[s] > 0))
      => mem[s] \in {Zero, inc[s]}

\* slots_free, alloc_count and release_count are exact up to the calls that are
\* between their CAS and their fetch_add; at rest slots_live is the number of
\* slots that are not free. (In between slots_free can pass 0 and wrap.)
InFlight(labels) == Cardinality({t \in Thread : pc[t] \in labels})
Accounting ==
  /\ (slots_free + InFlight({"r_free"})
       - InFlight(Popped \ {"a_count", "a_ret"}) - Cardinality(FreeSlots)) % CountMod = 0
  /\ ((alloc_count + InFlight(Popped \ {"a_ret"}))
       - (release_count + InFlight({"r_free", "r_count"}))
       - (SlotCount - Cardinality(FreeSlots))) % CountMod = 0
  /\ Quiescent => stats_slots_live = SlotCount - Cardinality(FreeSlots)

\* generation_max is never below the generation of a handle that was issued.
GenerationMaxCovers == \A r \in issued : r.h.gen <= generation_max

\* At rest anam_foreach visits exactly the live slots, each under the handle
\* its owner holds.
ForeachExact ==
  Quiescent => ForeachHandles = {r.h : r \in {q \in issued : Current(q)}}

\* anam_alloc returns ANAM_NULL only when no slot is free.
FailOnlyWhenExhausted ==
  [][(\E t \in Thread : AllocFail(t)) => FreeSlots = {}]_vars

\* Every call returns once the competing calls that succeed are finitely many
\* (MaxInc bounds them): no retry loop depends on a value it never reloads.
CallsReturn == \A t \in Thread : pc[t] # "idle" ~> pc[t] = "idle"

HP == INSTANCE HandlePool WITH
        issued <- {<<r.h.slot, r.inc>> : r \in issued},
        ptr <- [t \in Thread |-> <<ptr[t].h.slot, ptr[t].inc>>]

\* The pool implements the incarnation discipline of HandlePool.
ImplementsHandlePool == HP!Spec

SP == INSTANCE StackPool WITH free <- FreeWalk.slots

\* Seen through the free list and the generations the pool is a stack of free
\* slots: what AnamQueue takes it for.
ImplementsStackPool == SP!Spec

=============================================================================
