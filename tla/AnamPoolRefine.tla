--------------------------- MODULE AnamPoolRefine ---------------------------
(***************************************************************************)
(* What AnamPool promises to its users, for every number of threads and    *)
(* slots. It implements HandlePool: pop, return, bump and push are Take,   *)
(* Issue, Retire and Recycle, a valid get is Open, and every other step    *)
(* stutters or closes a pointer. It implements StackPool, on which         *)
(* AnamQueue is built. anam_foreach at rest visits the live slots and no   *)
(* other, and the counters of anam_pool_stats agree with the free list.    *)
(***************************************************************************)
EXTENDS AnamPoolList

-----------------------------------------------------------------------------
(* The pool implements HandlePool *)

\* The pool anam_pool_create returns maps to the initial state of HandlePool.
LEMMA RefineInit == Init => HP!Init
<1> SUFFICES ASSUME Init PROVE HP!Init
  OBVIOUS
<1>1. \A t \in Thread : <<ptr[t].h.slot, ptr[t].inc>> = <<-1, -1>>
  BY DEF Init, NoRef, Ref, ANAM_NULL, encode_handle
<1> QED
  BY <1>1 DEF Init, HP!Init, HP!Closed

\* A step of a call that leaves status, inc, issued and ptr alone is a stutter.
LEMMA Stutter ==
  ASSUME UNCHANGED <<status, inc, issued, ptr>>
  PROVE  UNCHANGED HP!vars
BY DEF HP!vars

\* Every atomic step of alloc, release and get is a step of HandlePool or leaves
\* it unchanged.
LEMMA RefineStep ==
  ASSUME NoWrap, ExclusiveRelease, IInv, [Next]_vars
  PROVE  [HP!Next]_(HP!vars)
<1> USE PoolAssumption DEF IInv, TypeInv, TypeOK, PendingOK, Goto
<1> USE DEF pool, stats, locals, ghost
<1>1. CASE UNCHANGED vars
  BY <1>1, Stutter DEF vars
<1>2. ASSUME NEW t \in Thread, AllocStep(t) PROVE [HP!Next]_(HP!vars)
  <2>1. CASE AllocPop(t)
    <3> DEFINE s == old_head[t].slot
    <3>1. s \in Slot /\ status[s] = "free"
      BY <2>1, FreeHandleFields DEF AllocPop, Owning, FreeListInv
    <3>2. HP!Take(s)
      BY <2>1, <3>1 DEF AllocPop, HP!Take
    <3> QED
      BY <3>1, <3>2 DEF HP!Next
  <2>2. CASE AllocReturn(t)
    <3> DEFINE s == old_head[t].slot
               new == Ref(encode_handle(gen[t], s, LIVE), inc[s])
    <3>1. s \in Slot /\ status[s] = "taken"
      BY <2>2, FreeHandleFields DEF AllocReturn, Owning, Popped, PopInv
    <3>2. new.h.slot = s /\ new.inc = inc[s]
      BY DEF Ref, encode_handle
    <3>3. <<s, inc[s]>> \notin {<<q.h.slot, q.inc>> : q \in issued}
      BY <3>1 DEF IssuedInv
    <3>4. issued' = issued \cup {new} /\ status' = [status EXCEPT ![s] = "live"] /\ UNCHANGED <<inc, ptr>>
      BY <2>2 DEF AllocReturn, Issued
    <3> HIDE DEF new
    <3>5. {<<q.h.slot, q.inc>> : q \in issued'}
            = {<<q.h.slot, q.inc>> : q \in issued} \cup {<<s, inc[s]>>}
      BY <3>2, <3>4
    <3>6. \E q \in Slot : HP!Issue(q)
      BY <3>1, <3>3, <3>4, <3>5 DEF HP!Issue
    <3> QED
      BY <3>6 DEF HP!Next
  <2>3. CASE ~(AllocPop(t) \/ AllocReturn(t))
    <3>1. UNCHANGED <<status, inc, issued, ptr>>
      BY <1>2, <2>3 DEF AllocStep, AllocLoadHead, AllocFail, AllocLoadNext, AllocRetry,
         AllocLoadGen, AllocLoadMax, AllocRaiseMax, AllocClearNext, AllocSlotsFree, AllocCount
    <3> QED
      BY <3>1, Stutter
  <2> QED
    BY <2>1, <2>2, <2>3
<1>3. ASSUME NEW t \in Thread, ReleaseStep(t) PROVE [HP!Next]_(HP!vars)
  <2> DEFINE s == arg[t].h.slot
  <2>1. CASE ReleaseBump(t)
    <3>1. s \in Slot /\ status[s] = "live"
      BY <2>1, IssuableFields DEF ReleaseBump, Releasing, ReleaseInv, IssuedInv
    <3>2. HP!Retire(s)
      BY <2>1, <3>1 DEF ReleaseBump, HP!Retire
    <3> QED
      BY <3>1, <3>2 DEF HP!Next
  <2>2. CASE ReleasePush(t)
    <3>1. s \in Slot /\ status[s] = "retired"
      BY <2>2, IssuableFields DEF ReleasePush, Releasing, Pushing, ReleaseInv
    <3>2. HP!Recycle(s)
      BY <2>2, <3>1 DEF ReleasePush, HP!Recycle
    <3> QED
      BY <3>1, <3>2 DEF HP!Next
  <2>3. CASE ~(ReleaseBump(t) \/ ReleasePush(t))
    <3>1. UNCHANGED <<status, inc, issued, ptr>>
      BY <1>3, <2>3 DEF ReleaseStep, ReleaseValidate, ReleaseZero, ReleaseLoadHead,
         ReleaseLink, ReleaseRetry, ReleaseSlotsFree, ReleaseReturn
    <3> QED
      BY <3>1, Stutter
  <2> QED
    BY <2>1, <2>2, <2>3
<1>4. ASSUME NEW t \in Thread, Expose(t) PROVE [HP!Next]_(HP!vars)
  BY <1>4, Stutter DEF Expose
<1>5. ASSUME NEW t \in Thread, ClientStep(t) PROVE [HP!Next]_(HP!vars)
  <2>0. NoRef.h.slot = -1 /\ NoRef.inc = -1
    BY DEF NoRef, Ref, ANAM_NULL, encode_handle
  <2> DEFINE abs == [u \in Thread |-> <<ptr[u].h.slot, ptr[u].inc>>]
             absNext == [u \in Thread |-> <<ptr'[u].h.slot, ptr'[u].inc>>]
  <2>a. ASSUME NEW q, ptr' = [ptr EXCEPT ![t] = q]
        PROVE  absNext = [abs EXCEPT ![t] = <<q.h.slot, q.inc>>]
    BY <2>a
  <2>b. ASSUME ptr' = [ptr EXCEPT ![t] = NoRef], UNCHANGED <<status, inc, issued>>
        PROVE  HP!Next
    <3>1. HP!Close(t)
      BY <2>0, <2>a, <2>b DEF HP!Close, HP!Closed
    <3> QED
      BY <3>1 DEF HP!Next
  <2>1. CASE AllocCall(t)
    BY <2>1, Stutter DEF AllocCall
  <2>2. ASSUME NEW r \in Arguments, ReleaseCall(t, r) PROVE [HP!Next]_(HP!vars)
    <3>1. CASE ptr[t] = r
      BY <2>2, <2>b, <3>1 DEF ReleaseCall
    <3>2. CASE ptr[t] # r
      <4>1. UNCHANGED <<status, inc, issued, ptr>>
        BY <2>2, <3>2 DEF ReleaseCall
      <4> QED
        BY <4>1, Stutter
    <3> QED
      BY <3>1, <3>2
  <2>3. ASSUME NEW r \in Arguments, GetValid(t, r) PROVE [HP!Next]_(HP!vars)
    <3>1. r \in issued /\ r \in Issuable
      BY <2>3, OthersRejected DEF GetValid, Validated, Arguments
    <3>2. r.inc = inc[r.h.slot] /\ status[r.h.slot] = "live"
      BY <2>3, <3>1, IssuableFields DEF GetValid, Validated, IssuedInv, GenerationInv
    <3> DEFINE o == <<r.h.slot, r.inc>>
    <3>3. ptr' = [ptr EXCEPT ![t] = r] /\ UNCHANGED <<status, inc, issued>>
      BY <2>3 DEF GetValid
    <3>4. absNext = [abs EXCEPT ![t] = o]
      BY <2>a, <3>3
    <3>5. HP!Open(t, o)
      BY <3>2, <3>3, <3>4 DEF HP!Open
    <3>6. o \in {<<q.h.slot, q.inc>> : q \in issued}
      BY <3>1
    <3> QED
      BY <3>5, <3>6 DEF HP!Next
  <2>4. ASSUME NEW r \in Arguments, GetStale(t, r) PROVE [HP!Next]_(HP!vars)
    BY <2>4, Stutter DEF GetStale
  <2>5. CASE Use(t)
    BY <2>5, <2>b DEF Use
  <2> QED
    BY <1>5, <2>1, <2>2, <2>3, <2>4, <2>5 DEF ClientStep
<1> QED
  BY <1>1, <1>2, <1>3, <1>4, <1>5 DEF Next

\* anam_alloc, anam_release and anam_get, interleaved at every atomic access, give
\* each slot one life at a time and open it to the handle of that life only, as
\* long as no generation wraps and no two releases of one handle race.
THEOREM Refinement ==
  ASSUME NoWrap, ExclusiveRelease
  PROVE  Spec => ImplementsHandlePool
<1>1. IInv /\ [Next]_vars => [HP!Next]_(HP!vars)
  BY RefineStep
<1> QED
  BY <1>1, RefineInit, Invariance, PTL DEF Spec, HP!Spec, ImplementsHandlePool

-----------------------------------------------------------------------------
(* The pool implements StackPool *)

\* What the walk finds is the free list, in a form that can be primed.
WalkFact == \A L : IsFreeList(L) => FreeWalk = [h |-> ANAM_NULL, slots |-> L]

\* The pool anam_pool_create returns is the full stack, slot 0 on top.
LEMMA StackInit == Init => SP!Init
<1> SUFFICES ASSUME Init PROVE SP!Init
  OBVIOUS
<1>1. FreeWalk.slots = [i \in 1 .. SlotCount |-> i - 1]
  BY ListInit, FreeWalkIsList
<1> QED
  BY <1>1 DEF Init, SP!Init, SP!Slot, Slot

\* A generation below the last one is followed by the next number.
LEMMA NextGenMod ==
  ASSUME NEW g \in Gen
  PROVE  NextGen(g) = (g + 1) % GenMod
BY PoolAssumption DEF NextGen, Gen

\* The bump of anam_release is the only step that writes a generation.
LEMMA GenerationKept ==
  ASSUME [Next]_vars, \A t \in Thread : ~ReleaseBump(t)
  PROVE  UNCHANGED generation
<1> USE DEF pool, stats, locals, ghost
<1>1. ASSUME NEW t \in Thread, AllocStep(t) PROVE UNCHANGED generation
  BY <1>1 DEF AllocStep, AllocLoadHead, AllocFail, AllocLoadNext, AllocPop, AllocRetry,
     AllocLoadGen, AllocLoadMax, AllocRaiseMax, AllocClearNext, AllocSlotsFree, AllocCount,
     AllocReturn
<1>2. ASSUME NEW t \in Thread, ReleaseStep(t) PROVE UNCHANGED generation
  BY <1>2 DEF ReleaseStep, ReleaseValidate, ReleaseZero, ReleaseLoadHead, ReleaseLink,
     ReleasePush, ReleaseRetry, ReleaseSlotsFree, ReleaseReturn
<1>3. ASSUME NEW t \in Thread, Expose(t) \/ ClientStep(t) PROVE UNCHANGED generation
  BY <1>3 DEF Expose, ClientStep, AllocCall, ReleaseCall, GetValid, GetStale, Use
<1> QED
  BY <1>1, <1>2, <1>3 DEF Next, vars

\* The CAS of anam_alloc is Take, the bump of anam_release EndGeneration and its
\* CAS GiveBack; every other step leaves stack and generations alone.
LEMMA StackStep ==
  ASSUME NoWrap, IInv, ListInv, WalkFact, WalkFact', [Next]_vars
  PROVE  [SP!Next]_<<FreeWalk.slots, generation>>
<1>1. PICK L : IsFreeList(L)
  BY DEF ListInv
<1>2. FreeWalk.slots = L
  BY <1>1 DEF WalkFact
<1>3. \A M : IsFreeList(M)' => FreeWalk'.slots = M
  BY DEF WalkFact
<1>4. ASSUME NEW s \in Slot, status[s] # "free" PROVE ~SP!IsFree(s)
  BY <1>1, <1>2, <1>4 DEF SP!IsFree, IsFreeList
<1> USE DEF SP!Slot, Slot
<1>5. ASSUME NEW t \in Thread, AllocPop(t) PROVE SP!Next
  <2>1. PICK M : M = Tail(L)
    OBVIOUS
  <2>2. Len(L) # 0 /\ IsFreeList(M)'
    BY <1>1, <1>5, <2>1, ListPop
  <2>3. L # <<>>
    BY <2>2
  <2>4. FreeWalk'.slots = Tail(L)
    BY <1>3, <2>1, <2>2
  <2>5. UNCHANGED generation
    BY <1>5 DEF AllocPop
  <2> QED
    BY <1>2, <2>3, <2>4, <2>5 DEF SP!Next, SP!Take
<1>6. ASSUME NEW t \in Thread, ReleasePush(t) PROVE SP!Next
  <2> DEFINE s == arg[t].h.slot
  <2>1. PICK M : M = <<s>> \o L
    OBVIOUS
  <2>2. s \in Slot /\ status[s] = "retired" /\ IsFreeList(M)'
    BY <1>1, <1>6, <2>1, ListPush
  <2>3. FreeWalk'.slots = <<s>> \o L
    BY <1>3, <2>1, <2>2
  <2>4. UNCHANGED generation
    BY <1>6 DEF ReleasePush
  <2>5. SP!GiveBack(s) /\ ~SP!IsFree(s)
    BY <1>2, <1>4, <2>2, <2>3, <2>4 DEF SP!GiveBack
  <2> QED
    BY <2>2, <2>5 DEF SP!Next
<1>7. CASE \A t \in Thread : ~AllocPop(t) /\ ~ReleasePush(t)
  <2>1. IsFreeList(L)'
    BY <1>1, <1>7, ListStutter
  <2>2. FreeWalk'.slots = FreeWalk.slots
    BY <1>2, <1>3, <2>1
  <2>3. ASSUME NEW t \in Thread, ReleaseBump(t) PROVE SP!Next
    <3> DEFINE s == arg[t].h.slot
    <3>1. arg[t] \in issued /\ arg[t] \in Issuable /\ gen[t] = arg[t].inc /\ arg[t].inc = inc[s]
      BY <2>3 DEF ReleaseBump, Goto, IInv, TypeInv, TypeOK, ReleaseInv, Releasing
    <3>2. s \in Slot
      BY <3>1, IssuableFields
    <3>3. status[s] = "live" /\ gen[t] = generation[s] /\ gen[t] \in Gen
      BY <3>1, <3>2 DEF IInv, TypeInv, TypeOK, IssuedInv, GenerationInv
    <3>4. generation' = [generation EXCEPT ![s] = (generation[s] + 1) % GenMod]
      BY <2>3, <3>3, NextGenMod DEF ReleaseBump
    <3>5. SP!EndGeneration(s) /\ ~SP!IsFree(s)
      BY <1>4, <2>2, <3>2, <3>3, <3>4 DEF SP!EndGeneration
    <3> QED
      BY <3>2, <3>5 DEF SP!Next
  <2>4. CASE \A t \in Thread : ~ReleaseBump(t)
    BY <2>2, <2>4, GenerationKept
  <2> QED
    BY <2>3, <2>4
<1> QED
  BY <1>5, <1>6, <1>7

\* Seen through its free list and its generations the pool is a stack of free
\* slots that changes one step at a time: what anamnesis_queue.c takes it for.
THEOREM StackPoolImplemented ==
  ASSUME NoWrap, ExclusiveRelease
  PROVE  Spec => ImplementsStackPool
<1>1. WalkFact
  BY FreeWalkIsList DEF WalkFact
<1>2. IInv /\ ListInv /\ WalkFact /\ WalkFact' /\ [Next]_vars => [SP!Next]_<<FreeWalk.slots, generation>>
  BY StackStep
<1>3. Spec => []WalkFact
  BY <1>1, PTL
<1> QED
  BY <1>2, <1>3, StackInit, Invariance, ListAlways, PTL DEF Spec, ImplementsStackPool, SP!Spec
-----------------------------------------------------------------------------
(* anam_foreach at rest *)

\* A slot that is not free is in the hands of a call or of a client.
HeldInv ==
  \A s \in Slot :
    /\ status[s] = "taken" => \E t \in Thread : pc[t] \in Popped /\ old_head[t].slot = s
    /\ status[s] = "retired" => \E t \in Thread : pc[t] \in Pushing /\ arg[t].h.slot = s
    /\ status[s] = "live" => \E r \in issued : r.h.slot = s /\ r.inc = inc[s]

\* A call passes the slot it holds to its next step, a return to the client and
\* a push to the free list.
LEMMA HeldStep ==
  ASSUME IInv, HeldInv, [Next]_vars
  PROVE  HeldInv'
<1> USE DEF HeldInv, Goto, pool, stats, locals, ghost, Popped, Pushing
<1>0. /\ pc \in [Thread -> PC] /\ status \in [Slot -> {"free", "taken", "live", "retired"}]
      /\ old_head \in [Thread -> FreeHandle \cup {ANAM_NULL}]
      /\ arg \in [Thread -> Issuable \cup {NoRef, Foreign, Untagged}]
      /\ inc \in [Slot -> Nat]
  BY DEF IInv, TypeInv, TypeOK
<1>1. CASE UNCHANGED vars
  BY <1>1 DEF vars
<1>2. ASSUME NEW t \in Thread, AllocStep(t) PROVE HeldInv'
  <2>1. CASE AllocPop(t)
    <3>1. old_head[t].slot \in Slot
      BY <2>1, FreeHandleFields DEF AllocPop, IInv, TypeInv, PendingOK, Owning
    <3> QED
      BY <1>0, <2>1, <3>1 DEF AllocPop
  <2>2. CASE AllocReturn(t)
    <3> DEFINE s == old_head[t].slot
               r == Issued(t)
    <3>1. s \in Slot /\ r.h.slot = s /\ r.inc = inc[s]
      BY <2>2, FreeHandleFields DEF AllocReturn, IInv, TypeInv, PendingOK, Owning, Issued, Ref, encode_handle
    <3>2. /\ issued' = issued \cup {r} /\ status' = [status EXCEPT ![s] = "live"]
          /\ pc[t] = "a_ret" /\ pc' = [pc EXCEPT ![t] = "idle"]
          /\ old_head' = [old_head EXCEPT ![t] = ANAM_NULL]
          /\ UNCHANGED <<arg, inc>>
      BY <2>2 DEF AllocReturn
    <3> HIDE DEF r
    <3> QED
      BY <1>0, <3>1, <3>2
  <2>3. CASE ~(AllocPop(t) \/ AllocReturn(t))
    BY <1>0, <1>2, <2>3 DEF AllocStep, AllocLoadHead, AllocFail, AllocLoadNext, AllocRetry,
       AllocLoadGen, AllocLoadMax, AllocRaiseMax, AllocClearNext, AllocSlotsFree, AllocCount
  <2> QED
    BY <2>1, <2>2, <2>3
<1>3. ASSUME NEW t \in Thread, ReleaseStep(t) PROVE HeldInv'
  <2>1. CASE ReleaseBump(t)
    <3>1. arg[t].h.slot \in Slot
      BY <2>1, IssuableFields DEF ReleaseBump, IInv, TypeInv, PendingOK, Releasing
    <3> QED
      BY <1>0, <2>1, <3>1 DEF ReleaseBump
  <2>2. CASE ReleasePush(t)
    <3>1. arg[t].h.slot \in Slot
      BY <2>2, IssuableFields DEF ReleasePush, IInv, TypeInv, PendingOK, Releasing
    <3> QED
      BY <1>0, <2>2, <3>1 DEF ReleasePush
  <2>3. CASE ~(ReleaseBump(t) \/ ReleasePush(t))
    BY <1>0, <1>3, <2>3 DEF ReleaseStep, ReleaseValidate, ReleaseZero, ReleaseLoadHead,
       ReleaseLink, ReleaseRetry, ReleaseSlotsFree, ReleaseReturn
  <2> QED
    BY <2>1, <2>2, <2>3
<1>4. ASSUME NEW t \in Thread, Expose(t) PROVE HeldInv'
  BY <1>0, <1>4 DEF Expose
<1>5. ASSUME NEW t \in Thread, ClientStep(t) PROVE HeldInv'
  BY <1>0, <1>5 DEF ClientStep, AllocCall, ReleaseCall, GetValid, GetStale, Use
<1> QED
  BY <1>1, <1>2, <1>3, <1>4, <1>5 DEF Next

\* An issued reference of the present incarnation carries the handle under which
\* anam_foreach reports the slot.
LEMMA CurrentHandle ==
  ASSUME IInv, NEW r \in issued, r.inc = inc[r.h.slot]
  PROVE  r.h.slot \in Slot /\ r.h = encode_handle(generation[r.h.slot], r.h.slot, LIVE)
<1>1. r \in Issuable
  BY DEF IInv, TypeInv, TypeOK
<1>2. r.h.gen = generation[r.h.slot] /\ r.h.slot \in Slot
  BY <1>1, IssuableFields DEF IInv, IssuedInv, GenerationInv
<1> QED
  BY <1>1, <1>2 DEF Issuable, LiveHandle, encode_handle

\* When no call is in progress, anam_foreach visits exactly the slots that are
\* allocated, each under the handle its owner was given.
THEOREM ForeachExactAlways ==
  ASSUME NoWrap, ExclusiveRelease
  PROVE  Spec => []ForeachExact
<1>1. Init => HeldInv
  BY DEF Init, HeldInv
<1>2. IInv /\ HeldInv /\ [Next]_vars => HeldInv'
  BY HeldStep
<1>3. IInv /\ ListInv /\ HeldInv => ForeachExact
  <2> SUFFICES ASSUME IInv, NEW L, IsFreeList(L), HeldInv, Quiescent
               PROVE  ForeachHandles = {r.h : r \in {q \in issued : Current(q)}}
    BY DEF ForeachExact, ListInv
  <2>1. SlotsOf(FreeWalk.slots) = FreeSlots
    BY FreeWalkIsList DEF IsFreeList, SlotsOf, FreeSlots
  <2>2. \A s \in Slot \ FreeSlots : status[s] = "live"
    <3>1. \A s \in Slot : status[s] \in {"free", "taken", "live", "retired"}
      BY DEF IInv, TypeInv, TypeOK
    <3>2. \A s \in Slot : status[s] # "taken" /\ status[s] # "retired"
      BY DEF HeldInv, Quiescent, Popped, Pushing
    <3> QED
      BY <3>1, <3>2 DEF FreeSlots
  <2>3. ASSUME NEW s \in Slot \ FreeSlots
        PROVE  \E r \in {q \in issued : Current(q)} : r.h = encode_handle(generation[s], s, LIVE)
    <3>1. PICK r \in issued : r.h.slot = s /\ r.inc = inc[s]
      BY <2>2, <2>3 DEF HeldInv
    <3>2. Current(r)
      BY <2>2, <2>3, <3>1 DEF Current
    <3> QED
      BY <3>1, <3>2, CurrentHandle
  <2>4. ASSUME NEW r \in issued, Current(r)
        PROVE  \E s \in Slot \ FreeSlots : r.h = encode_handle(generation[s], s, LIVE)
    <3>1. status[r.h.slot] = "live" /\ r.inc = inc[r.h.slot]
      BY <2>4 DEF Current
    <3>2. r.h.slot \in Slot \ FreeSlots /\ r.h = encode_handle(generation[r.h.slot], r.h.slot, LIVE)
      BY <3>1, CurrentHandle DEF FreeSlots
    <3> QED
      BY <3>2
  <2> QED
    BY <2>1, <2>3, <2>4 DEF ForeachHandles
<1> QED
  BY <1>1, <1>2, <1>3, Invariance, ListAlways, PTL DEF Spec
-----------------------------------------------------------------------------
(* The statistics *)

\* Counters that wrap at CountMod agree up to a multiple of it.
Wrapped(x) == \E k \in Int : x = k * CountMod

\* A condition as a number.
One(b) == IF b THEN 1 ELSE 0

\* A multiple of CountMod stays one when a counter wraps.
LEMMA WrappedMoves ==
  ASSUME NEW x \in Int, Wrapped(x)
  PROVE  Wrapped(x + CountMod) /\ Wrapped(x - CountMod)
<1>1. PICK k \in Int : x = k * CountMod
  BY DEF Wrapped
<1>2. x + CountMod = (k + 1) * CountMod /\ x - CountMod = (k - 1) * CountMod
  BY <1>1, PoolAssumption
<1>3. k + 1 \in Int /\ k - 1 \in Int
  OBVIOUS
<1> QED
  BY <1>2, <1>3 DEF Wrapped

\* The only multiple between two neighbouring ones on both sides of 0 is 0.
LEMMA WrappedSmall ==
  ASSUME NEW x \in Int, Wrapped(x), -CountMod < x, x < CountMod
  PROVE  x = 0
<1>1. PICK k \in Int : x = k * CountMod
  BY DEF Wrapped
<1> QED
  BY <1>1, PoolAssumption

\* What is a multiple of CountMod is 0 for a size_t.
LEMMA WrappedMod ==
  ASSUME NEW x \in Int, Wrapped(x)
  PROVE  x % CountMod = 0
<1>1. PICK k \in Int : x = k * CountMod
  BY DEF Wrapped
<1> DEFINE q == x \div CountMod
           r == x % CountMod
<1>2. q \in Int /\ r \in Int /\ 0 <= r /\ r < CountMod /\ x = CountMod * q + r
  BY PoolAssumption
<1> HIDE DEF q, r
<1>3. k - q \in Int /\ r = (k - q) * CountMod
  BY <1>1, <1>2, PoolAssumption
<1>4. Wrapped(r)
  BY <1>3 DEF Wrapped
<1>5. r = 0
  BY <1>2, <1>4, WrappedSmall, PoolAssumption
<1> QED
  BY <1>5 DEF r

\* A step moves one call: a set of labels loses the label it leaves and wins the
\* label it reaches.
LEMMA InFlightMoves ==
  ASSUME IsFiniteSet(Thread), pc \in [Thread -> PC], NEW t \in Thread, NEW b, NEW S,
         pc' = [pc EXCEPT ![t] = b]
  PROVE  /\ InFlight(S) \in Nat /\ InFlight(S)' \in Nat
         /\ InFlight(S)' = InFlight(S) + One(b \in S) - One(pc[t] \in S)
<1> DEFINE A == {u \in Thread : pc[u] \in S}
           B == {u \in Thread : pc'[u] \in S}
           R == {u \in Thread \ {t} : pc[u] \in S}
<1>1. IsFiniteSet(R)
  <2>1. R \subseteq Thread
    OBVIOUS
  <2> QED
    BY <2>1, FS_Subset
<1>2. t \notin R /\ A = IF pc[t] \in S THEN R \cup {t} ELSE R
  OBVIOUS
<1>3. B = IF b \in S THEN R \cup {t} ELSE R
  OBVIOUS
<1> HIDE DEF A, B, R
<1>4. Cardinality(R) \in Nat /\ Cardinality(R \cup {t}) = Cardinality(R) + 1
  BY <1>1, <1>2, FS_CardinalityType, FS_AddElement
<1>5. InFlight(S) = Cardinality(A) /\ InFlight(S)' = Cardinality(B)
  BY DEF InFlight, A, B
<1> QED
  BY <1>2, <1>3, <1>4, <1>5 DEF One

\* A step that changes the state of one slot moves the number of free slots by
\* at most one.
LEMMA FreeSlotsMoves ==
  ASSUME status \in [Slot -> {"free", "taken", "live", "retired"}], NEW s \in Slot, NEW x,
         status' = [status EXCEPT ![s] = x]
  PROVE  /\ Cardinality(FreeSlots) \in Nat /\ Cardinality(FreeSlots)' \in Nat
         /\ Cardinality(FreeSlots)' = Cardinality(FreeSlots) + One(x = "free") - One(status[s] = "free")
<1> DEFINE A == {q \in Slot : status[q] = "free"}
           B == {q \in Slot : status'[q] = "free"}
           R == {q \in Slot \ {s} : status[q] = "free"}
<1>1. IsFiniteSet(R)
  <2>1. R \subseteq Slot
    OBVIOUS
  <2>2. IsFiniteSet(Slot)
    BY FS_Interval, PoolAssumption DEF Slot
  <2> QED
    BY <2>1, <2>2, FS_Subset
<1>2. s \notin R /\ A = IF status[s] = "free" THEN R \cup {s} ELSE R
  OBVIOUS
<1>3. B = IF x = "free" THEN R \cup {s} ELSE R
  OBVIOUS
<1> HIDE DEF A, B, R
<1>4. Cardinality(R) \in Nat /\ Cardinality(R \cup {s}) = Cardinality(R) + 1
  BY <1>1, <1>2, FS_CardinalityType, FS_AddElement
<1>5. Cardinality(FreeSlots) = Cardinality(A) /\ Cardinality(FreeSlots)' = Cardinality(B)
  BY DEF FreeSlots, A, B
<1> QED
  BY <1>2, <1>3, <1>4, <1>5 DEF One
\* Calls whose slot has left the free list and is not yet subtracted from
\* slots_free, and the like for the two call counters.
Unsubtracted == Popped \ {"a_count", "a_ret"}
Uncounted == Popped \ {"a_ret"}
Unadded == {"r_free", "r_count"}

FreeBalance == slots_free + InFlight({"r_free"}) - InFlight(Unsubtracted) - Cardinality(FreeSlots)
UseBalance == (alloc_count + InFlight(Uncounted)) - (release_count + InFlight(Unadded))
                - (SlotCount - Cardinality(FreeSlots))

\* The counters are exact up to the calls in flight and the wraps of size_t.
CountInv == Wrapped(FreeBalance) /\ Wrapped(UseBalance)

\* The balances are integers.
LEMMA BalanceType ==
  ASSUME IsFiniteSet(Thread), TypeOK
  PROVE  /\ \A S : InFlight(S) \in Nat
         /\ Cardinality(FreeSlots) \in Nat /\ Cardinality(FreeSlots) <= SlotCount
         /\ FreeBalance \in Int /\ UseBalance \in Int
<1>1. ASSUME NEW S PROVE InFlight(S) \in Nat
  <2>1. IsFiniteSet({t \in Thread : pc[t] \in S})
    BY FS_Subset
  <2> QED
    BY <2>1, FS_CardinalityType DEF InFlight
<1>2. IsFiniteSet(Slot) /\ Cardinality(Slot) = SlotCount
  BY FS_Interval, PoolAssumption DEF Slot
<1>3. Cardinality(FreeSlots) \in Nat /\ Cardinality(FreeSlots) <= SlotCount
  BY <1>2, FS_Subset, FS_CardinalityType DEF FreeSlots
<1>4. slots_free \in Int /\ alloc_count \in Int /\ release_count \in Int /\ SlotCount \in Int
  BY PoolAssumption DEF TypeOK
<1>5. FreeBalance \in Int /\ UseBalance \in Int
  BY <1>1, <1>3, <1>4 DEF FreeBalance, UseBalance
<1> QED
  BY <1>1, <1>3, <1>5

\* A step that moves no slot between the free list and a call, and no call past
\* a counter, keeps both balances.
LEMMA BalanceKept ==
  ASSUME IsFiniteSet(Thread), TypeOK, NEW t \in Thread, NEW b, pc' = [pc EXCEPT ![t] = b],
         pc[t] # "r_free", b # "r_free", pc[t] \in Unadded <=> b \in Unadded,
         pc[t] \in Unsubtracted <=> b \in Unsubtracted, pc[t] \in Uncounted <=> b \in Uncounted,
         UNCHANGED <<slots_free, alloc_count, release_count>>,
         \A s \in Slot : (status[s] = "free") <=> (status'[s] = "free")
  PROVE  FreeBalance' = FreeBalance /\ UseBalance' = UseBalance
<1>1. pc \in [Thread -> PC]
  BY DEF TypeOK
<1>2. FreeSlots' = FreeSlots
  BY DEF FreeSlots
<1>3. \A S : (pc[t] \in S <=> b \in S) => InFlight(S)' = InFlight(S)
  BY <1>1 DEF InFlight
<1> QED
  BY <1>2, <1>3 DEF FreeBalance, UseBalance

\* Of the steps of the pool six move a slot or a counter; each of them moves the
\* two sides of a balance by the same amount, or by CountMod more or less.
LEMMA CountStep ==
  ASSUME IsFiniteSet(Thread), IInv, CountInv, [Next]_vars
  PROVE  CountInv'
<1>0. TypeOK /\ TypeOK'
  BY TypeStep DEF IInv, TypeInv
<1>1. SUFFICES /\ FreeBalance' \in {FreeBalance, FreeBalance + CountMod, FreeBalance - CountMod}
               /\ UseBalance' \in {UseBalance, UseBalance + CountMod, UseBalance - CountMod}
  BY <1>0, BalanceType, WrappedMoves DEF CountInv
<1> DEFINE Goal == /\ FreeBalance' \in {FreeBalance, FreeBalance + CountMod, FreeBalance - CountMod}
                   /\ UseBalance' \in {UseBalance, UseBalance + CountMod, UseBalance - CountMod}
<1>2. /\ slots_free \in Int /\ alloc_count \in Int /\ release_count \in Int
      /\ SlotCount \in Int /\ CountMod \in Int
      /\ Cardinality(FreeSlots) \in Int
      /\ InFlight({"r_free"}) \in Int /\ InFlight(Unadded) \in Int
      /\ InFlight(Unsubtracted) \in Int /\ InFlight(Uncounted) \in Int
      /\ FreeBalance \in Int /\ UseBalance \in Int
  BY <1>0, BalanceType, PoolAssumption DEF TypeOK
<1>3. pc \in [Thread -> PC] /\ status \in [Slot -> {"free", "taken", "live", "retired"}]
  BY <1>0 DEF TypeOK
<1>4. CASE UNCHANGED vars
  <2>1. FreeBalance' = FreeBalance /\ UseBalance' = UseBalance
    BY <1>4 DEF vars, pool, stats, ghost, FreeBalance, UseBalance, InFlight, FreeSlots
  <2> QED
    BY <2>1
<1>5. ASSUME NEW t \in Thread, AllocPop(t) PROVE Goal
  <2>1. old_head[t].slot \in Slot /\ status[old_head[t].slot] = "free"
    BY <1>5, FreeHandleFields DEF AllocPop, Goto, IInv, TypeInv, PendingOK, Owning, FreeListInv
  <2>2. Cardinality(FreeSlots)' = Cardinality(FreeSlots) - 1
    <3>1. status' = [status EXCEPT ![old_head[t].slot] = "taken"]
      BY <1>5 DEF AllocPop
    <3>2. Cardinality(FreeSlots)' = Cardinality(FreeSlots)
            + One("taken" = "free") - One(status[old_head[t].slot] = "free")
      BY <1>3, <2>1, <3>1, FreeSlotsMoves
    <3>3. One("taken" = "free") = 0 /\ One(status[old_head[t].slot] = "free") = 1
      BY <2>1 DEF One
    <3> QED
      BY <1>2, <3>2, <3>3
  <2>3. /\ pc[t] = "a_cas" /\ pc' = [pc EXCEPT ![t] = "a_gen"]
        /\ UNCHANGED <<slots_free, alloc_count, release_count>>
    BY <1>5 DEF AllocPop, Goto, stats
  <2>4. \A S : InFlight(S)' = InFlight(S) + One("a_gen" \in S) - One("a_cas" \in S)
    BY <1>3, <2>3, InFlightMoves
  <2>5. /\ InFlight({"r_free"})' = InFlight({"r_free"}) /\ InFlight(Unadded)' = InFlight(Unadded)
        /\ InFlight(Unsubtracted)' = InFlight(Unsubtracted) + 1
        /\ InFlight(Uncounted)' = InFlight(Uncounted) + 1
    BY <1>2, <2>4 DEF One, Unadded, Unsubtracted, Uncounted, Popped
  <2> QED
    BY <1>2, <2>2, <2>3, <2>5 DEF FreeBalance, UseBalance
<1>6. ASSUME NEW t \in Thread, AllocSlotsFree(t) PROVE Goal
  <2>1. pc[t] = "a_free" /\ pc' = [pc EXCEPT ![t] = "a_count"]
    BY <1>6 DEF AllocSlotsFree, Goto
  <2>2. /\ FreeSlots' = FreeSlots /\ UNCHANGED <<alloc_count, release_count>>
        /\ slots_free' \in {slots_free - 1, slots_free - 1 + CountMod}
    BY <1>2, <1>6 DEF AllocSlotsFree, ghost, FreeSlots, Sub1
  <2>3. \A S : InFlight(S)' = InFlight(S) + One("a_count" \in S) - One("a_free" \in S)
    BY <1>3, <2>1, InFlightMoves
  <2>4. /\ InFlight({"r_free"})' = InFlight({"r_free"}) /\ InFlight(Unadded)' = InFlight(Unadded)
        /\ InFlight(Unsubtracted)' = InFlight(Unsubtracted) - 1
        /\ InFlight(Uncounted)' = InFlight(Uncounted)
    BY <1>2, <2>3 DEF One, Unadded, Unsubtracted, Uncounted, Popped
  <2> QED
    BY <1>2, <2>2, <2>4 DEF FreeBalance, UseBalance
<1>7. ASSUME NEW t \in Thread, AllocCount(t) PROVE Goal
  <2>1. pc[t] = "a_count" /\ pc' = [pc EXCEPT ![t] = "a_ret"]
    BY <1>7 DEF AllocCount, Goto
  <2>2. /\ FreeSlots' = FreeSlots /\ UNCHANGED <<slots_free, release_count>>
        /\ alloc_count' \in {alloc_count + 1, alloc_count + 1 - CountMod}
    BY <1>2, <1>7 DEF AllocCount, ghost, FreeSlots, Add1
  <2>3. \A S : InFlight(S)' = InFlight(S) + One("a_ret" \in S) - One("a_count" \in S)
    BY <1>3, <2>1, InFlightMoves
  <2>4. /\ InFlight({"r_free"})' = InFlight({"r_free"}) /\ InFlight(Unadded)' = InFlight(Unadded)
        /\ InFlight(Unsubtracted)' = InFlight(Unsubtracted)
        /\ InFlight(Uncounted)' = InFlight(Uncounted) - 1
    BY <1>2, <2>3 DEF One, Unadded, Unsubtracted, Uncounted, Popped
  <2> QED
    BY <1>2, <2>2, <2>4 DEF FreeBalance, UseBalance
<1>8. ASSUME NEW t \in Thread, ReleasePush(t) PROVE Goal
  <2>1. arg[t].h.slot \in Slot /\ status[arg[t].h.slot] = "retired"
    BY <1>8, IssuableFields DEF ReleasePush, Goto, IInv, TypeInv, PendingOK, Releasing, Pushing, ReleaseInv
  <2>2. Cardinality(FreeSlots)' = Cardinality(FreeSlots) + 1
    <3>1. status' = [status EXCEPT ![arg[t].h.slot] = "free"]
      BY <1>8 DEF ReleasePush
    <3>2. Cardinality(FreeSlots)' = Cardinality(FreeSlots)
            + One("free" = "free") - One(status[arg[t].h.slot] = "free")
      BY <1>3, <2>1, <3>1, FreeSlotsMoves
    <3>3. One("free" = "free") = 1 /\ One(status[arg[t].h.slot] = "free") = 0
      BY <2>1 DEF One
    <3> QED
      BY <1>2, <3>2, <3>3
  <2>3. /\ pc[t] = "r_cas" /\ pc' = [pc EXCEPT ![t] = "r_free"]
        /\ UNCHANGED <<slots_free, alloc_count, release_count>>
    BY <1>8 DEF ReleasePush, Goto, stats
  <2>4. \A S : InFlight(S)' = InFlight(S) + One("r_free" \in S) - One("r_cas" \in S)
    BY <1>3, <2>3, InFlightMoves
  <2>5. /\ InFlight({"r_free"})' = InFlight({"r_free"}) + 1 /\ InFlight(Unadded)' = InFlight(Unadded) + 1
        /\ InFlight(Unsubtracted)' = InFlight(Unsubtracted)
        /\ InFlight(Uncounted)' = InFlight(Uncounted)
    BY <1>2, <2>4 DEF One, Unadded, Unsubtracted, Uncounted, Popped
  <2>6. FreeBalance' = FreeBalance
    BY <1>2, <2>2, <2>3, <2>5 DEF FreeBalance
  <2>7. UseBalance' = UseBalance
    BY <1>2, <2>2, <2>3, <2>5 DEF UseBalance
  <2> QED
    BY <2>6, <2>7
<1>9. ASSUME NEW t \in Thread, ReleaseSlotsFree(t) PROVE Goal
  <2>1. pc[t] = "r_free" /\ pc' = [pc EXCEPT ![t] = "r_count"]
    BY <1>9 DEF ReleaseSlotsFree, Goto
  <2>2. /\ FreeSlots' = FreeSlots /\ UNCHANGED <<alloc_count, release_count>>
        /\ slots_free' \in {slots_free + 1, slots_free + 1 - CountMod}
    BY <1>2, <1>9 DEF ReleaseSlotsFree, ghost, FreeSlots, Add1
  <2>3. \A S : InFlight(S)' = InFlight(S) + One("r_count" \in S) - One("r_free" \in S)
    BY <1>3, <2>1, InFlightMoves
  <2>4. /\ InFlight({"r_free"})' = InFlight({"r_free"}) - 1 /\ InFlight(Unadded)' = InFlight(Unadded)
        /\ InFlight(Unsubtracted)' = InFlight(Unsubtracted)
        /\ InFlight(Uncounted)' = InFlight(Uncounted)
    BY <1>2, <2>3 DEF One, Unadded, Unsubtracted, Uncounted, Popped
  <2>5. FreeBalance' \in {FreeBalance, FreeBalance - CountMod}
    BY <1>2, <2>2, <2>4 DEF FreeBalance
  <2>6. UseBalance' = UseBalance
    BY <1>2, <2>2, <2>4 DEF UseBalance
  <2> QED
    BY <2>5, <2>6
<1>10. ASSUME NEW t \in Thread, ReleaseReturn(t) PROVE Goal
  <2>1. pc[t] = "r_count" /\ pc' = [pc EXCEPT ![t] = "idle"]
    BY <1>10 DEF ReleaseReturn, Goto
  <2>2. /\ FreeSlots' = FreeSlots /\ UNCHANGED <<alloc_count, slots_free>>
        /\ release_count' \in {release_count + 1, release_count + 1 - CountMod}
    BY <1>2, <1>10 DEF ReleaseReturn, ghost, FreeSlots, Add1
  <2>3. \A S : InFlight(S)' = InFlight(S) + One("idle" \in S) - One("r_count" \in S)
    BY <1>3, <2>1, InFlightMoves
  <2>4. /\ InFlight({"r_free"})' = InFlight({"r_free"}) /\ InFlight(Unadded)' = InFlight(Unadded) - 1
        /\ InFlight(Unsubtracted)' = InFlight(Unsubtracted)
        /\ InFlight(Uncounted)' = InFlight(Uncounted)
    BY <1>2, <2>3 DEF One, Unadded, Unsubtracted, Uncounted, Popped
  <2> QED
    BY <1>2, <2>2, <2>4 DEF FreeBalance, UseBalance
<1> DEFINE KeptTo(t, b) == /\ pc' = [pc EXCEPT ![t] = b] /\ pc[t] # "r_free" /\ b # "r_free"
                           /\ (pc[t] \in Unadded <=> b \in Unadded)
                           /\ (pc[t] \in Unsubtracted <=> b \in Unsubtracted)
                           /\ (pc[t] \in Uncounted <=> b \in Uncounted)
                           /\ UNCHANGED <<slots_free, alloc_count, release_count>>
                           /\ \A s \in Slot : (status[s] = "free") <=> (status'[s] = "free")
           Kept(t) == \E b : KeptTo(t, b)
<1>11. ASSUME NEW t \in Thread, Kept(t) PROVE Goal
  <2>1. FreeBalance' = FreeBalance /\ UseBalance' = UseBalance
    BY <1>0, <1>11, BalanceKept
  <2> QED
    BY <2>1
<1> HIDE DEF Goal
<1>12. ASSUME NEW t \in Thread, AllocStep(t) PROVE Goal
  <2> USE DEF Goto, pool, stats, locals, ghost, Unadded, Unsubtracted, Uncounted, Popped
  <2>1. CASE AllocReturn(t)
    <3>1. old_head[t].slot \in Slot /\ status[old_head[t].slot] = "taken"
      BY <2>1, FreeHandleFields DEF AllocReturn, IInv, TypeInv, PendingOK, Owning, PopInv
    <3>2. \A s \in Slot : (status[s] = "free") <=> (status'[s] = "free")
      BY <1>3, <2>1, <3>1 DEF AllocReturn
    <3>3. /\ pc[t] = "a_ret" /\ pc' = [pc EXCEPT ![t] = "idle"]
          /\ UNCHANGED <<slots_free, alloc_count, release_count>>
      BY <2>1 DEF AllocReturn
    <3>4. KeptTo(t, "idle")
      BY <3>2, <3>3
    <3> QED
      BY <1>11, <3>4
  <2>2. CASE AllocLoadHead(t) \/ AllocFail(t) \/ AllocLoadNext(t) \/ AllocRetry(t)
               \/ AllocLoadGen(t) \/ AllocLoadMax(t) \/ AllocRaiseMax(t) \/ AllocClearNext(t)
    <3>1. Kept(t)
      BY <1>3, <2>2 DEF AllocLoadHead, AllocFail, AllocLoadNext, AllocRetry, AllocLoadGen,
         AllocLoadMax, AllocRaiseMax, AllocClearNext
    <3> QED
      BY <1>11, <3>1
  <2> QED
    BY <1>5, <1>6, <1>7, <1>12, <2>1, <2>2 DEF AllocStep
<1>13. ASSUME NEW t \in Thread, ReleaseStep(t) PROVE Goal
  <2> USE DEF Goto, pool, stats, locals, ghost, Unadded, Unsubtracted, Uncounted, Popped
  <2>1. CASE ReleaseBump(t)
    <3>1. arg[t] \in issued /\ arg[t] \in Issuable /\ arg[t].inc = inc[arg[t].h.slot]
      BY <2>1 DEF ReleaseBump, IInv, TypeInv, TypeOK, ReleaseInv, Releasing
    <3>2. arg[t].h.slot \in Slot /\ status[arg[t].h.slot] = "live"
      BY <3>1, IssuableFields DEF IInv, IssuedInv
    <3>3. \A s \in Slot : (status[s] = "free") <=> (status'[s] = "free")
      BY <1>3, <2>1, <3>2 DEF ReleaseBump
    <3>4. /\ pc[t] = "r_bump" /\ pc' = [pc EXCEPT ![t] = "r_zero"]
          /\ UNCHANGED <<slots_free, alloc_count, release_count>>
      BY <2>1 DEF ReleaseBump
    <3>5. KeptTo(t, "r_zero")
      BY <3>3, <3>4
    <3> QED
      BY <1>11, <3>5
  <2>2. CASE ReleaseValidate(t) \/ ReleaseZero(t) \/ ReleaseLoadHead(t) \/ ReleaseLink(t)
               \/ ReleaseRetry(t)
    <3>1. Kept(t)
      BY <1>3, <2>2 DEF ReleaseValidate, ReleaseZero, ReleaseLoadHead, ReleaseLink, ReleaseRetry
    <3> QED
      BY <1>11, <3>1
  <2> QED
    BY <1>8, <1>9, <1>10, <1>13, <2>1, <2>2 DEF ReleaseStep
<1>14. ASSUME NEW t \in Thread, Expose(t) \/ ClientStep(t) PROVE Goal
  <2> USE DEF Goto, pool, stats, locals, ghost, Unadded, Unsubtracted, Uncounted, Popped
  <2>1. Kept(t)
    BY <1>3, <1>14 DEF Expose, ClientStep, AllocCall, ReleaseCall, GetValid, GetStale, Use
  <2> QED
    BY <1>11, <2>1
<1> QED
  BY <1>4, <1>12, <1>13, <1>14 DEF Next, Goal

\* slots_free, alloc_count and release_count are exact up to the calls that are
\* between their CAS and their fetch_add, through every wrap of size_t, and at
\* rest anam_pool_stats reports the number of slots that are in use.
THEOREM AccountingAlways ==
  ASSUME NoWrap, ExclusiveRelease, IsFiniteSet(Thread)
  PROVE  Spec => []Accounting
<1>1. Init => CountInv
  <2> SUFFICES ASSUME Init PROVE CountInv
    OBVIOUS
  <2>1. \A S : "idle" \notin S => InFlight(S) = 0
    <3> SUFFICES ASSUME NEW S, "idle" \notin S PROVE InFlight(S) = 0
      OBVIOUS
    <3>1. {t \in Thread : pc[t] \in S} = {}
      BY DEF Init
    <3> QED
      BY <3>1, FS_EmptySet DEF InFlight
  <2>2. FreeSlots = Slot
    BY DEF Init, FreeSlots
  <2>3. Cardinality(FreeSlots) = SlotCount
    BY <2>2, FS_Interval, PoolAssumption DEF Slot
  <2>4. FreeBalance = 0 * CountMod /\ UseBalance = 0 * CountMod
    <3>1. /\ InFlight({"r_free"}) = 0 /\ InFlight(Unadded) = 0
          /\ InFlight(Unsubtracted) = 0 /\ InFlight(Uncounted) = 0
      BY <2>1 DEF Unadded, Unsubtracted, Uncounted, Popped
    <3>2. slots_free = SlotCount /\ alloc_count = 0 /\ release_count = 0
      BY DEF Init
    <3> QED
      BY <2>3, <3>1, <3>2, PoolAssumption DEF FreeBalance, UseBalance
  <2> QED
    BY <2>4 DEF CountInv, Wrapped
<1>2. IInv /\ CountInv /\ [Next]_vars => CountInv'
  BY CountStep
<1>3. IInv /\ CountInv => Accounting
  <2> SUFFICES ASSUME IInv, CountInv PROVE Accounting
    OBVIOUS
  <2>1. TypeOK
    BY DEF IInv, TypeInv
  <2>2. FreeBalance % CountMod = 0 /\ UseBalance % CountMod = 0
    BY <2>1, BalanceType, WrappedMod DEF CountInv
  <2>3. ASSUME Quiescent PROVE stats_slots_live = SlotCount - Cardinality(FreeSlots)
    <3>1. InFlight({"r_free"}) = 0 /\ InFlight(Unsubtracted) = 0
      <4>1. /\ {t \in Thread : pc[t] \in {"r_free"}} = {}
            /\ {t \in Thread : pc[t] \in Unsubtracted} = {}
        BY <2>3 DEF Quiescent, Unsubtracted, Popped
      <4> QED
        BY <4>1, FS_EmptySet DEF InFlight
    <3>2. /\ slots_free \in Nat /\ slots_free < CountMod /\ CountMod \in Nat /\ SlotCount \in Nat
          /\ SlotCount < CountMod
          /\ Cardinality(FreeSlots) \in Nat /\ Cardinality(FreeSlots) <= SlotCount
      BY <2>1, BalanceType, PoolAssumption DEF TypeOK
    <3>3. FreeBalance = slots_free - Cardinality(FreeSlots)
      BY <3>1, <3>2 DEF FreeBalance
    <3>4. FreeBalance = 0
      BY <3>2, <3>3, WrappedSmall DEF CountInv
    <3>5. slots_free = Cardinality(FreeSlots)
      BY <3>2, <3>3, <3>4
    <3> QED
      BY <3>2, <3>5 DEF stats_slots_live
  <2> QED
    BY <2>2, <2>3 DEF Accounting, FreeBalance, UseBalance, Unadded, Unsubtracted, Uncounted
<1> QED
  BY <1>1, <1>2, <1>3, Invariance, PTL DEF Spec

=============================================================================
