---------------------------- MODULE AnamPoolList ----------------------------
(***************************************************************************)
(* What the free list of AnamPool holds, for every number of threads and   *)
(* slots: the links starting at free_head are a list L of the free slots.  *)
(* From this the walk of anam_foreach finds the free slots and no other,   *)
(* and anam_alloc fails only when there are none.                          *)
(***************************************************************************)
EXTENDS AnamPoolProof, Residues, FiniteSetTheorems

\* The handle under which a free slot is linked.
FreeOf(s) == encode_handle(generation[s], s, FREE)

\* free_head and the links lead through the slots of L in this order.
IsFreeList(L) ==
  /\ L \in Seq(Slot)
  /\ \A s \in Slot : status[s] = "free" <=> \E i \in 1 .. Len(L) : L[i] = s
  /\ \A i, j \in 1 .. Len(L) : L[i] = L[j] => i = j
  /\ free_head = IF Len(L) = 0 THEN ANAM_NULL ELSE FreeOf(L[1])
  /\ \A i \in 1 .. Len(L) : next[L[i]] = IF i = Len(L) THEN ANAM_NULL ELSE FreeOf(L[i + 1])

ListInv == \E L : IsFreeList(L)

-----------------------------------------------------------------------------
(* The free list changes at the two CASes only *)

\* anam_pool_create links all slots, from slot 0 to the last.
LEMMA ListInit ==
  ASSUME Init
  PROVE  IsFreeList([i \in 1 .. SlotCount |-> i - 1])
<1> DEFINE L == [i \in 1 .. SlotCount |-> i - 1]
<1> USE PoolAssumption DEF Slot
<1>1. L \in Seq(Slot) /\ Len(L) = SlotCount
  OBVIOUS
<1>2. \A i \in 1 .. SlotCount : L[i] = i - 1 /\ L[i] \in Slot
  OBVIOUS
<1>3. \A s \in Slot : L[s + 1] = s
  OBVIOUS
<1> HIDE DEF L
<1>4. \A s \in Slot : status[s] = "free" /\ FreeOf(s) = encode_handle(0, s, FREE)
  BY DEF Init, FreeOf
<1>5. \A s \in Slot : \E i \in 1 .. Len(L) : L[i] = s
  <2> TAKE s \in Slot
  <2>1. s + 1 \in 1 .. Len(L)
    BY <1>1
  <2> QED
    BY <1>3, <2>1
<1>6. \A i \in 1 .. Len(L) : next[L[i]] = IF i = Len(L) THEN ANAM_NULL ELSE FreeOf(L[i + 1])
  <2> SUFFICES ASSUME NEW i \in 1 .. SlotCount
               PROVE  next[L[i]] = IF i = SlotCount THEN ANAM_NULL ELSE FreeOf(L[i + 1])
    BY <1>1
  <2>1. L[i] = i - 1 /\ L[i] \in Slot /\ (i # SlotCount => L[i + 1] = i /\ i \in Slot)
    BY <1>2
  <2>2. next[L[i]] = IF i - 1 = SlotCount - 1 THEN ANAM_NULL ELSE encode_handle(0, i - 1 + 1, FREE)
    BY <2>1 DEF Init
  <2> QED
    BY <1>4, <2>1, <2>2
<1>7. free_head = FreeOf(L[1])
  BY <1>1, <1>2, <1>4 DEF Init
<1> QED
  BY <1>1, <1>2, <1>4, <1>5, <1>6, <1>7 DEF IsFreeList, L

\* A step that changes neither the free slots nor their links and generations
\* leaves the list as it is.
LEMMA ListKept ==
  ASSUME NEW L, IsFreeList(L), free_head' = free_head,
         \A s \in Slot : (status[s] = "free") <=> (status'[s] = "free"),
         \A s \in Slot : status[s] = "free" => next'[s] = next[s] /\ generation'[s] = generation[s]
  PROVE  IsFreeList(L)'
<1>1. L \in Seq(Slot) /\ \A i \in 1 .. Len(L) : L[i] \in Slot /\ status[L[i]] = "free"
  BY DEF IsFreeList
<1>2. \A i \in 1 .. Len(L) : FreeOf(L[i])' = FreeOf(L[i])
  BY <1>1 DEF FreeOf
<1>3. \A i \in 1 .. Len(L) : next'[L[i]] = IF i = Len(L) THEN ANAM_NULL ELSE FreeOf(L[i + 1])'
  BY <1>1, <1>2 DEF IsFreeList
<1>4. free_head' = IF Len(L) = 0 THEN ANAM_NULL ELSE FreeOf(L[1])'
  BY <1>1, <1>2 DEF IsFreeList
<1> QED
  BY <1>3, <1>4 DEF IsFreeList

\* Without its first slot the list is that of a pool whose head has moved on.
LEMMA ListTail ==
  ASSUME NEW L, NEW M, IsFreeList(L), Len(L) # 0, M = Tail(L),
         status \in [Slot -> {"free", "taken", "live", "retired"}],
         free_head' = next[L[1]], UNCHANGED <<next, generation>>,
         status' = [status EXCEPT ![L[1]] = "taken"]
  PROVE  IsFreeList(M)'
<1>1. /\ L \in Seq(Slot) /\ M \in Seq(Slot) /\ Len(M) = Len(L) - 1 /\ Len(L) \in Nat
      /\ \A i \in 1 .. Len(M) : M[i] = L[i + 1] /\ i + 1 \in 1 .. Len(L)
  BY DEF IsFreeList
<1>2. \A i \in 1 .. Len(L) : i # 1 => i - 1 \in 1 .. Len(M) /\ M[i - 1] = L[i]
  BY <1>1
<1>3. \A i, j \in 1 .. Len(L) : L[i] = L[j] => i = j
  BY DEF IsFreeList
<1>4. \A s \in Slot : status'[s] = "free" <=> \E i \in 1 .. Len(M) : M[i] = s
  <2> SUFFICES ASSUME NEW s \in Slot PROVE status'[s] = "free" <=> \E i \in 1 .. Len(M) : M[i] = s
    OBVIOUS
  <2>1. status'[s] = "free" <=> s # L[1] /\ \E i \in 1 .. Len(L) : L[i] = s
    BY <1>1 DEF IsFreeList
  <2>2. \A i \in 1 .. Len(L) : L[i] = s /\ s # L[1] => \E j \in 1 .. Len(M) : M[j] = s
    BY <1>2, Zenon
  <2>3. ASSUME NEW i \in 1 .. Len(M), M[i] = s
        PROVE  s # L[1] /\ i + 1 \in 1 .. Len(L) /\ L[i + 1] = s
    <3>1. i + 1 \in 1 .. Len(L) /\ L[i + 1] = s /\ 1 \in 1 .. Len(L) /\ i + 1 # 1
      BY <1>1, <2>3
    <3> QED
      BY <1>3, <3>1
  <2> QED
    BY <2>1, <2>2, <2>3
<1>5. \A i, j \in 1 .. Len(M) : M[i] = M[j] => i = j
  <2> SUFFICES ASSUME NEW i \in 1 .. Len(M), NEW j \in 1 .. Len(M), M[i] = M[j] PROVE i = j
    OBVIOUS
  <2>1. i + 1 \in 1 .. Len(L) /\ j + 1 \in 1 .. Len(L) /\ L[i + 1] = L[j + 1]
    BY <1>1
  <2>2. i + 1 = j + 1
    BY <1>3, <2>1
  <2> QED
    BY <2>2
<1>6. \A s : FreeOf(s)' = FreeOf(s)
  BY DEF FreeOf
<1>7. \A i \in 1 .. Len(L) : next[L[i]] = IF i = Len(L) THEN ANAM_NULL ELSE FreeOf(L[i + 1])
  BY DEF IsFreeList
<1>8. free_head' = IF Len(M) = 0 THEN ANAM_NULL ELSE FreeOf(M[1])
  <2>1. 1 \in 1 .. Len(L) /\ (1 = Len(L) <=> Len(M) = 0) /\ (Len(M) # 0 => M[1] = L[1 + 1])
    BY <1>1
  <2> QED
    BY <1>7, <2>1
<1>9. \A i \in 1 .. Len(M) : next[M[i]] = IF i = Len(M) THEN ANAM_NULL ELSE FreeOf(M[i + 1])
  <2> SUFFICES ASSUME NEW i \in 1 .. Len(M)
               PROVE  next[M[i]] = IF i = Len(M) THEN ANAM_NULL ELSE FreeOf(M[i + 1])
    OBVIOUS
  <2>1. M[i] = L[i + 1] /\ i + 1 \in 1 .. Len(L) /\ (i + 1 = Len(L) <=> i = Len(M))
    BY <1>1
  <2>2. i # Len(M) => M[i + 1] = L[i + 1 + 1]
    BY <1>1
  <2> QED
    BY <1>7, <2>1, <2>2
<1> QED
  BY <1>1, <1>4, <1>5, <1>6, <1>8, <1>9 DEF IsFreeList

\* With a slot in front the list is that of a pool whose head is that slot.
LEMMA ListCons ==
  ASSUME NEW L, NEW M, NEW s \in Slot, IsFreeList(L), M = <<s>> \o L,
         status \in [Slot -> {"free", "taken", "live", "retired"}], status[s] # "free",
         next[s] = free_head, free_head' = FreeOf(s), UNCHANGED <<next, generation>>,
         status' = [status EXCEPT ![s] = "free"]
  PROVE  IsFreeList(M)'
<1>1. /\ L \in Seq(Slot) /\ M \in Seq(Slot) /\ Len(M) = Len(L) + 1 /\ Len(L) \in Nat
      /\ M[1] = s /\ \A i \in 1 .. Len(L) : M[i + 1] = L[i] /\ i + 1 \in 1 .. Len(M)
  BY DEF IsFreeList
<1>2. \A i \in 1 .. Len(M) : i # 1 => i - 1 \in 1 .. Len(L) /\ M[i] = L[i - 1]
  BY <1>1
<1>3. \A i, j \in 1 .. Len(L) : L[i] = L[j] => i = j
  BY DEF IsFreeList
<1>4. \A i \in 1 .. Len(L) : L[i] # s
  BY DEF IsFreeList
<1>5. \A q \in Slot : status'[q] = "free" <=> \E i \in 1 .. Len(M) : M[i] = q
  <2> SUFFICES ASSUME NEW q \in Slot PROVE status'[q] = "free" <=> \E i \in 1 .. Len(M) : M[i] = q
    OBVIOUS
  <2>1. CASE q = s
    BY <1>1, <2>1
  <2>2. CASE q # s
    <3>1. status'[q] = "free" <=> \E i \in 1 .. Len(L) : L[i] = q
      BY <2>2 DEF IsFreeList
    <3>2. \A i \in 1 .. Len(L) : L[i] = q => \E j \in 1 .. Len(M) : M[j] = q
      BY <1>1
    <3>3. \A i \in 1 .. Len(M) : M[i] = q => \E j \in 1 .. Len(L) : L[j] = q
      BY <1>1, <1>2, <2>2
    <3> QED
      BY <3>1, <3>2, <3>3
  <2> QED
    BY <2>1, <2>2
<1>6. \A i, j \in 1 .. Len(M) : M[i] = M[j] => i = j
  <2> SUFFICES ASSUME NEW i \in 1 .. Len(M), NEW j \in 1 .. Len(M), M[i] = M[j] PROVE i = j
    OBVIOUS
  <2>1. CASE i # 1 /\ j # 1
    <3>1. i - 1 = j - 1
      BY <1>2, <1>3, <2>1
    <3> QED
      BY <3>1
  <2>2. CASE i = 1 \/ j = 1
    BY <1>1, <1>2, <1>4, <2>2
  <2> QED
    BY <2>1, <2>2
<1>7. \A q : FreeOf(q)' = FreeOf(q)
  BY DEF FreeOf
<1>8. \A i \in 1 .. Len(L) : next[L[i]] = IF i = Len(L) THEN ANAM_NULL ELSE FreeOf(L[i + 1])
  BY DEF IsFreeList
<1>9. \A i \in 1 .. Len(M) : next[M[i]] = IF i = Len(M) THEN ANAM_NULL ELSE FreeOf(M[i + 1])
  <2> SUFFICES ASSUME NEW i \in 1 .. Len(M)
               PROVE  next[M[i]] = IF i = Len(M) THEN ANAM_NULL ELSE FreeOf(M[i + 1])
    OBVIOUS
  <2>1. CASE i = 1
    <3>1. next[M[1]] = IF Len(L) = 0 THEN ANAM_NULL ELSE FreeOf(L[1])
      BY <1>1 DEF IsFreeList
    <3>2. Len(L) # 0 => M[2] = L[1]
      BY <1>1
    <3> QED
      BY <1>1, <2>1, <3>1, <3>2
  <2>2. CASE i # 1
    <3>1. i - 1 \in 1 .. Len(L) /\ M[i] = L[i - 1] /\ (i - 1 = Len(L) <=> i = Len(M))
      BY <1>1, <1>2, <2>2
    <3>2. i # Len(M) => M[i + 1] = L[i - 1 + 1]
      BY <1>1, <2>2
    <3> QED
      BY <1>8, <3>1, <3>2
  <2> QED
    BY <2>1, <2>2
<1> QED
  BY <1>1, <1>5, <1>6, <1>7, <1>9 DEF IsFreeList
\* The CAS of anam_alloc takes the first slot off the list: free_head moves to
\* the link of that slot, since the link read before is not stale.
LEMMA ListPop ==
  ASSUME IInv, NEW L, NEW M, IsFreeList(L), M = Tail(L), NEW t \in Thread, AllocPop(t)
  PROVE  Len(L) # 0 /\ IsFreeList(M)'
<1>1. old_head[t] \in FreeHandle /\ pc[t] = "a_cas" /\ free_head = old_head[t] /\ free_head # ANAM_NULL
  BY FreeHandleFields DEF AllocPop, Goto, IInv, TypeInv, PendingOK, Owning
<1>2. Len(L) # 0 /\ free_head = FreeOf(L[1])
  BY <1>1 DEF IsFreeList
<1>3. old_head[t].slot = L[1]
  BY <1>1, <1>2 DEF FreeOf, encode_handle
<1>4. new_head[t] = next[old_head[t].slot]
  BY <1>1 DEF IInv, FreeListInv, PendingPopInv
<1>5. status \in [Slot -> {"free", "taken", "live", "retired"}]
  BY DEF IInv, TypeInv, TypeOK
<1>6. /\ free_head' = next[L[1]] /\ UNCHANGED <<next, generation>>
      /\ status' = [status EXCEPT ![L[1]] = "taken"]
  BY <1>3, <1>4 DEF AllocPop
<1> QED
  BY <1>2, <1>5, <1>6, ListTail

\* The CAS of anam_release puts its slot in front of the list, tagged with the
\* generation the bump has stored.
LEMMA ListPush ==
  ASSUME NoWrap, IInv, NEW L, NEW M, IsFreeList(L), NEW t \in Thread, ReleasePush(t),
         M = <<arg[t].h.slot>> \o L
  PROVE  arg[t].h.slot \in Slot /\ status[arg[t].h.slot] = "retired" /\ IsFreeList(M)'
<1> DEFINE s == arg[t].h.slot
<1>1. s \in Slot /\ pc[t] = "r_cas" /\ free_head = old_head[t]
  BY IssuableFields DEF ReleasePush, Goto, IInv, TypeInv, PendingOK, Releasing, Pushing
<1>2. status[s] = "retired" /\ gen[t] + 1 = inc[s] /\ next[s] = free_head
  BY <1>1 DEF IInv, ReleaseInv, Pushing
<1>3. generation[s] = inc[s] /\ inc[s] <= MaxInc /\ gen[t] \in Gen /\ inc[s] \in Nat
  BY <1>1 DEF IInv, GenerationInv, TypeInv, TypeOK
<1>4. NextGen(gen[t]) = generation[s]
  BY <1>2, <1>3, PoolAssumption DEF NextGen, NoWrap, Gen
<1>5. status \in [Slot -> {"free", "taken", "live", "retired"}]
  BY DEF IInv, TypeInv, TypeOK
<1>6. /\ free_head' = FreeOf(s) /\ UNCHANGED <<next, generation>>
      /\ status' = [status EXCEPT ![s] = "free"]
  BY <1>4 DEF ReleasePush, FreeOf
<1> QED
  BY <1>1, <1>2, <1>5, <1>6, ListCons

\* No other step reaches the free list: the bump has a live slot, the link of a
\* release a retired one and the cleared link of an alloc a slot it has popped.
LEMMA ListStutter ==
  ASSUME NoWrap, IInv, NEW L, IsFreeList(L), [Next]_vars,
         \A t \in Thread : ~AllocPop(t) /\ ~ReleasePush(t)
  PROVE  IsFreeList(L)'
<1> USE DEF Goto, pool, stats, locals, ghost
<1> DEFINE Kept == /\ free_head' = free_head
                   /\ \A s \in Slot : (status[s] = "free") <=> (status'[s] = "free")
                   /\ \A s \in Slot : status[s] = "free"
                                         => next'[s] = next[s] /\ generation'[s] = generation[s]
<1>1. ASSUME UNCHANGED <<free_head, next, generation, status>> PROVE Kept
  BY <1>1
<1>2. ASSUME NEW t \in Thread, AllocStep(t) PROVE Kept
  <2>1. CASE AllocClearNext(t)
    <3>1. pc[t] \in Popped
      BY <2>1 DEF AllocClearNext, Popped
    <3>2. /\ old_head[t].slot \in Slot /\ status[old_head[t].slot] = "taken"
          /\ next \in [Slot -> FreeHandle \cup {ANAM_NULL}]
      BY <3>1, FreeHandleFields DEF IInv, TypeInv, TypeOK, PendingOK, Owning, PopInv
    <3> QED
      BY <2>1, <3>2 DEF AllocClearNext
  <2>2. CASE AllocReturn(t)
    <3>1. pc[t] \in Popped
      BY <2>2 DEF AllocReturn, Popped
    <3>2. /\ old_head[t].slot \in Slot /\ status[old_head[t].slot] = "taken"
          /\ status \in [Slot -> {"free", "taken", "live", "retired"}]
      BY <3>1, FreeHandleFields DEF IInv, TypeInv, TypeOK, PendingOK, Owning, PopInv
    <3> QED
      BY <2>2, <3>2 DEF AllocReturn
  <2>3. CASE ~(AllocClearNext(t) \/ AllocReturn(t))
    BY <1>1, <1>2, <2>3 DEF AllocStep, AllocLoadHead, AllocFail, AllocLoadNext, AllocRetry,
       AllocLoadGen, AllocLoadMax, AllocRaiseMax, AllocSlotsFree, AllocCount
  <2> QED
    BY <2>1, <2>2, <2>3
<1>3. ASSUME NEW t \in Thread, ReleaseStep(t) PROVE Kept
  <2>1. CASE ReleaseBump(t)
    <3>1. arg[t] \in issued /\ arg[t].inc = inc[arg[t].h.slot] /\ arg[t].h.slot \in Slot
      BY <2>1, IssuableFields DEF ReleaseBump, IInv, TypeInv, TypeOK, ReleaseInv, Releasing
    <3>2. /\ status[arg[t].h.slot] = "live"
          /\ generation \in [Slot -> Gen] /\ status \in [Slot -> {"free", "taken", "live", "retired"}]
      BY <3>1 DEF IInv, IssuedInv, TypeInv, TypeOK
    <3> QED
      BY <2>1, <3>1, <3>2 DEF ReleaseBump
  <2>2. CASE ReleaseLink(t)
    <3>1. pc[t] \in Pushing
      BY <2>2 DEF ReleaseLink, Pushing
    <3>2. /\ arg[t].h.slot \in Slot /\ status[arg[t].h.slot] = "retired"
          /\ next \in [Slot -> FreeHandle \cup {ANAM_NULL}]
      BY <3>1, IssuableFields DEF IInv, TypeInv, TypeOK, PendingOK, Releasing, ReleaseInv
    <3> QED
      BY <2>2, <3>2 DEF ReleaseLink
  <2>3. CASE ~(ReleaseBump(t) \/ ReleaseLink(t))
    BY <1>1, <1>3, <2>3 DEF ReleaseStep, ReleaseValidate, ReleaseZero, ReleaseLoadHead,
       ReleaseRetry, ReleaseSlotsFree, ReleaseReturn
  <2> QED
    BY <2>1, <2>2, <2>3
<1>4. ASSUME NEW t \in Thread, Expose(t) \/ ClientStep(t) PROVE Kept
  BY <1>1, <1>4 DEF Expose, ClientStep, AllocCall, ReleaseCall, GetValid, GetStale, Use
<1>5. Kept
  BY <1>1, <1>2, <1>3, <1>4 DEF Next, vars
<1> QED
  BY <1>5, ListKept

\* The links starting at free_head are a list of the free slots at all times.
THEOREM ListAlways ==
  ASSUME NoWrap, ExclusiveRelease
  PROVE  Spec => []ListInv
<1>1. Init => ListInv
  BY ListInit DEF ListInv
<1>2. IInv /\ ListInv /\ [Next]_vars => ListInv'
  <2> SUFFICES ASSUME IInv, ListInv, [Next]_vars PROVE ListInv'
    OBVIOUS
  <2>1. PICK L : IsFreeList(L)
    BY DEF ListInv
  <2>2. ASSUME NEW t \in Thread, AllocPop(t) PROVE ListInv'
    BY <2>1, <2>2, ListPop DEF ListInv
  <2>3. ASSUME NEW t \in Thread, ReleasePush(t) PROVE ListInv'
    BY <2>1, <2>3, ListPush DEF ListInv
  <2>4. CASE \A t \in Thread : ~AllocPop(t) /\ ~ReleasePush(t)
    BY <2>1, <2>4, ListStutter DEF ListInv
  <2> QED
    BY <2>2, <2>3, <2>4
<1> QED
  BY <1>1, <1>2, Invariance, PTL DEF Spec
-----------------------------------------------------------------------------
(* The walk of anam_foreach *)

\* One turn of the loop of anam_foreach, from the handle it stands at and the
\* slots it has marked.
WalkStep(w) ==
  IF w.h = ANAM_NULL \/ ~in_pool(w.h.slot) \/ w.h.slot \in SlotsOf(w.slots)
  THEN w
  ELSE [h |-> next[w.h.slot], slots |-> Append(w.slots, w.h.slot)]

\* f is the function that Walk(n) defines by recursion.
IsWalk(f, n) ==
  f = [k \in 0 .. n |-> IF k = 0 THEN [h |-> free_head, slots |-> <<>>] ELSE WalkStep(f[k - 1])]

\* Where the walk stands after k turns when the free list is L.
At(L, k) ==
  IF k < Len(L) THEN [h |-> FreeOf(L[k + 1]), slots |-> SubSeq(L, 1, k)]
  ELSE [h |-> ANAM_NULL, slots |-> L]

\* The walk begins at the head of the list.
LEMMA AtFirst ==
  ASSUME NEW L, IsFreeList(L)
  PROVE  At(L, 0) = [h |-> free_head, slots |-> <<>>]
<1>1. L \in Seq(Slot) /\ free_head = IF Len(L) = 0 THEN ANAM_NULL ELSE FreeOf(L[1])
  BY DEF IsFreeList
<1>2. CASE Len(L) = 0
  <2>1. L = <<>>
    BY <1>1, <1>2
  <2> QED
    BY <1>1, <1>2, <2>1 DEF At
<1>3. CASE Len(L) # 0
  <2>1. 0 < Len(L) /\ SubSeq(L, 1, 0) = <<>> /\ L[0 + 1] = L[1]
    BY <1>1, <1>3
  <2> QED
    BY <1>1, <1>3, <2>1 DEF At
<1> QED
  BY <1>2, <1>3

\* Every turn moves it to the next slot of the list, until it has seen them all.
LEMMA AtNext ==
  ASSUME NEW L, IsFreeList(L), NEW k \in Nat
  PROVE  At(L, k + 1) = WalkStep(At(L, k))
<1>1. /\ L \in Seq(Slot) /\ Len(L) \in Nat
      /\ \A i \in 1 .. Len(L) : L[i] \in Slot
      /\ \A i, j \in 1 .. Len(L) : L[i] = L[j] => i = j
      /\ \A i \in 1 .. Len(L) : next[L[i]] = IF i = Len(L) THEN ANAM_NULL ELSE FreeOf(L[i + 1])
  BY DEF IsFreeList
<1>2. CASE ~ (k < Len(L))
  <2>1. ~ (k + 1 < Len(L))
    BY <1>1, <1>2
  <2> QED
    BY <1>2, <2>1 DEF At, WalkStep
<1>3. CASE k < Len(L)
  <2> DEFINE M == SubSeq(L, 1, k)
             s == L[k + 1]
  <2>1. k + 1 \in 1 .. Len(L) /\ s \in Slot
    BY <1>1, <1>3
  <2>2. M \in Seq(Slot) /\ Len(M) = k /\ \A i \in 1 .. k : M[i] = L[i] /\ i \in 1 .. Len(L) /\ i # k + 1
    BY <1>1, <1>3
  <2>3. s \notin SlotsOf(M)
    <3>1. \A i \in 1 .. k : M[i] # s
      BY <1>1, <2>1, <2>2
    <3> QED
      BY <2>2, <3>1 DEF SlotsOf
  <2>4. FreeOf(s) # ANAM_NULL /\ FreeOf(s).slot = s /\ in_pool(s)
    BY <2>1, PoolAssumption DEF FreeOf, encode_handle, ANAM_NULL, in_pool, Slot
  <2>5. Append(M, s) = SubSeq(L, 1, k + 1)
    BY <1>1, <1>3
  <2>6. k + 1 = Len(L) => SubSeq(L, 1, k + 1) = L
    BY <1>1
  <2>7. next[s] = IF k + 1 = Len(L) THEN ANAM_NULL ELSE FreeOf(L[k + 1 + 1])
    BY <1>1, <2>1
  <2>8. At(L, k) = [h |-> FreeOf(s), slots |-> M]
    BY <1>3 DEF At
  <2>9. WalkStep(At(L, k)) = [h |-> next[s], slots |-> Append(M, s)]
    BY <2>3, <2>4, <2>8 DEF WalkStep
  <2>10. k + 1 < Len(L) <=> k + 1 # Len(L)
    BY <1>1, <1>3
  <2> HIDE DEF M, s
  <2> QED
    BY <2>5, <2>6, <2>7, <2>9, <2>10 DEF At
<1> QED
  BY <1>2, <1>3

\* The recursion of Walk has a solution, and only one: a least turn at which
\* another one differed would follow a turn at which it did not.
LEMMA WalkComputes ==
  ASSUME NEW L, IsFreeList(L), NEW n \in Nat
  PROVE  Walk(n) = At(L, n)
<1> DEFINE g == [k \in 0 .. n |-> At(L, k)]
           f == CHOOSE f : IsWalk(f, n)
<1>1. IsWalk(g, n)
  <2>1. \A k \in 0 .. n : k # 0 => k - 1 \in 0 .. n /\ k - 1 \in Nat /\ k - 1 + 1 = k
    OBVIOUS
  <2>2. \A k \in 0 .. n : k # 0 => At(L, k) = WalkStep(g[k - 1])
    BY <2>1, AtNext
  <2> QED
    BY <2>2, AtFirst DEF IsWalk
<1>2. IsWalk(f, n)
  BY <1>1
<1>3. Walk(n) = f[n]
  BY DEF Walk, IsWalk, WalkStep
<1> HIDE DEF f
<1>4. \A k \in 0 .. n : f[k] = At(L, k)
  <2> DEFINE T == {k \in 0 .. n : f[k] # At(L, k)}
  <2>1. SUFFICES ASSUME T # {} PROVE FALSE
    OBVIOUS
  <2>2. PICK x \in T : \A y \in T : x <= y
    <3>1. T \subseteq Nat
      OBVIOUS
    <3> HIDE DEF T
    <3> QED
      BY <2>1, <3>1, NatMin, Zenon
  <2>3. x # 0
    BY <1>2, AtFirst DEF IsWalk
  <2>4. x - 1 \in 0 .. n /\ x - 1 \in Nat /\ x - 1 + 1 = x /\ ~ (x <= x - 1)
    BY <2>3
  <2>5. f[x - 1] = At(L, x - 1)
    BY <2>2, <2>4
  <2>6. f[x] = WalkStep(f[x - 1])
    BY <1>2, <2>3 DEF IsWalk
  <2> QED
    BY <2>4, <2>5, <2>6, AtNext
<1> QED
  BY <1>3, <1>4

\* SlotCount turns are enough: the list has no more slots than the pool.
LEMMA ListFits ==
  ASSUME NEW L, IsFreeList(L)
  PROVE  Len(L) <= SlotCount
<1>1. L \in Seq(Slot) /\ Len(L) \in Nat /\ L \in [1 .. Len(L) -> Slot]
  BY DEF IsFreeList
<1>2. L \in Injection(1 .. Len(L), Slot)
  BY <1>1 DEF IsFreeList, Injection, IsInjective
<1>3. IsFiniteSet(Slot) /\ Cardinality(Slot) = SlotCount
  BY FS_Interval, PoolAssumption DEF Slot
<1>4. Cardinality(1 .. Len(L)) = Len(L)
  BY <1>1, FS_Interval
<1> QED
  BY <1>2, <1>3, <1>4, FS_Injection

\* What the walk of anam_foreach marks is the free list.
LEMMA FreeWalkIsList ==
  ASSUME NEW L, IsFreeList(L)
  PROVE  FreeWalk = [h |-> ANAM_NULL, slots |-> L]
<1>1. ~ (SlotCount < Len(L)) /\ SlotCount \in Nat
  BY ListFits, PoolAssumption DEF IsFreeList
<1> QED
  BY <1>1, WalkComputes DEF FreeWalk, At

\* The links starting at free_head lead through every free slot exactly once and
\* end in ANAM_NULL, however allocs and releases interleave.
THEOREM FreeListExactAlways ==
  ASSUME NoWrap, ExclusiveRelease
  PROVE  Spec => []FreeListExact
<1>1. ListInv => FreeListExact
  <2> SUFFICES ASSUME NEW L, IsFreeList(L) PROVE FreeListExact
    BY DEF ListInv
  <2>1. SlotsOf(L) = FreeSlots
    BY DEF IsFreeList, SlotsOf, FreeSlots
  <2> QED
    BY <2>1, FreeWalkIsList DEF FreeListExact
<1> QED
  BY <1>1, ListAlways, PTL

\* anam_alloc returns ANAM_NULL only in a state in which no slot is free.
THEOREM FailsOnlyWhenExhausted ==
  ASSUME NoWrap, ExclusiveRelease
  PROVE  Spec => FailOnlyWhenExhausted
<1>1. ListInv => [(\E t \in Thread : AllocFail(t)) => FreeSlots = {}]_vars
  <2> SUFFICES ASSUME NEW L, IsFreeList(L), NEW t \in Thread, AllocFail(t) PROVE FreeSlots = {}
    BY DEF ListInv
  <2>1. Len(L) = 0
    <3>1. \A s \in Slot : FreeOf(s) # ANAM_NULL
      BY PoolAssumption DEF FreeOf, encode_handle, ANAM_NULL, Slot
    <3> QED
      BY <3>1 DEF IsFreeList, AllocFail
  <2> QED
    BY <2>1 DEF IsFreeList, FreeSlots
<1> QED
  BY <1>1, ListAlways, PTL DEF FailOnlyWhenExhausted
=============================================================================
