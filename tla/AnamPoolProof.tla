--------------------------- MODULE AnamPoolProof ----------------------------
(***************************************************************************)
(* Machine-checked facts about AnamPool, for every number of threads and   *)
(* slots.                                                                  *)
(***************************************************************************)
EXTENDS AnamPool, TLAPS

-----------------------------------------------------------------------------
(* Handles and references *)

\* The fields of a handle found in free_head or in a link.
LEMMA FreeHandleFields ==
  ASSUME NEW h \in FreeHandle
  PROVE  h.gen \in Gen /\ h.slot \in Slot /\ h.state = FREE /\ h # ANAM_NULL
BY PoolAssumption DEF FreeHandle, ANAM_NULL, encode_handle, Slot

\* encode_handle builds handles of both kinds.
LEMMA EncodeHandle ==
  ASSUME NEW g \in Gen, NEW s \in Slot
  PROVE  /\ encode_handle(g, s, FREE) \in FreeHandle
         /\ encode_handle(g, s, LIVE) \in LiveHandle
         /\ \A st : encode_handle(g, s, st).gen = g /\ encode_handle(g, s, st).slot = s
BY DEF encode_handle, FreeHandle, LiveHandle

\* The fields of a reference that was issued.
LEMMA IssuableFields ==
  ASSUME NEW r \in Issuable
  PROVE  /\ r.inc \in Nat /\ r.h \in LiveHandle
         /\ r.h.gen \in Gen /\ r.h.slot \in Slot /\ r.h.state = LIVE
         /\ ~Rejected(r.h)
         /\ r # NoRef /\ r # Foreign /\ r # Untagged
BY PoolAssumption DEF Issuable, LiveHandle, Rejected, in_pool, NoRef, Foreign, Untagged,
   Ref, encode_handle, ANAM_NULL, FREE, LIVE, Slot

\* The two other arguments a client may present are rejected unseen.
LEMMA OthersRejected == Rejected(Foreign.h) /\ Rejected(Untagged.h) /\ Foreign # NoRef /\ Untagged # NoRef
BY PoolAssumption DEF Rejected, in_pool, NoRef, Foreign, Untagged, Ref, encode_handle,
   ANAM_NULL, FREE, LIVE, Slot

\* Generations and size_t counters stay in their range when they wrap.
LEMMA Counting ==
  /\ \A g \in Gen : NextGen(g) \in Gen
  /\ \A n \in 0 .. CountMod - 1 : Add1(n) \in 0 .. CountMod - 1 /\ Sub1(n) \in 0 .. CountMod - 1
BY PoolAssumption DEF Gen, NextGen, Add1, Sub1

-----------------------------------------------------------------------------
(* Types *)

Owning == {"a_next", "a_cas"} \cup Popped       \* old_head names a slot
Releasing == {"r_gen", "r_bump"} \cup Pushing   \* arg names a slot

\* TypeOK is not inductive by itself: a thread that is about to follow
\* old_head or arg must have a slot there.
PendingOK ==
  \A t \in Thread :
    /\ pc[t] \in Owning => old_head[t] \in FreeHandle
    /\ pc[t] \in Releasing \cup {"r_free", "r_count"} => arg[t] \in Issuable

TypeInv == TypeOK /\ PendingOK

\* anam_pool_create returns a pool whose variables have their types.
LEMMA TypeInit == Init => TypeInv
<1> SUFFICES ASSUME Init PROVE TypeInv
  OBVIOUS
<1> USE PoolAssumption
<1>1. 0 \in Gen /\ 0 \in Slot
  BY DEF Gen, Slot
<1>2. \A s \in Slot : s # SlotCount - 1 => s + 1 \in Slot
  BY DEF Slot
<1>3. free_head \in FreeHandle /\ next \in [Slot -> FreeHandle \cup {ANAM_NULL}]
  BY <1>1, <1>2, EncodeHandle DEF Init
<1>4. TypeOK
  BY <1>1, <1>3 DEF Init, TypeOK, PC
<1>5. PendingOK
  BY DEF Init, PendingOK, Owning, Releasing, Popped, Pushing
<1> QED
  BY <1>4, <1>5 DEF TypeInv

\* Every atomic step of alloc, release and get keeps the types.
LEMMA TypeStep == TypeInv /\ [Next]_vars => TypeInv'
<1> SUFFICES ASSUME TypeInv, [Next]_vars PROVE TypeInv'
  OBVIOUS
<1> USE PoolAssumption DEF TypeInv, TypeOK, PendingOK, PC, Owning, Releasing, Popped, Pushing, Goto
<1> USE FreeHandleFields, IssuableFields
<1>1. CASE UNCHANGED vars
  BY <1>1 DEF vars, pool, stats, locals, ghost
<1>2. ASSUME NEW t \in Thread, AllocStep(t) PROVE TypeInv'
  <2> USE DEF pool, stats, locals, ghost
  <2>1. CASE AllocLoadHead(t)
    BY <2>1 DEF AllocLoadHead
  <2>2. CASE AllocFail(t)
    BY <2>2 DEF AllocFail
  <2>3. CASE AllocLoadNext(t)
    BY <2>3 DEF AllocLoadNext
  <2>4. CASE AllocPop(t)
    BY <2>4 DEF AllocPop
  <2>5. CASE AllocRetry(t)
    BY <2>5 DEF AllocRetry
  <2>6. CASE AllocLoadGen(t)
    BY <2>6 DEF AllocLoadGen
  <2>7. CASE AllocLoadMax(t)
    BY <2>7 DEF AllocLoadMax
  <2>8. CASE AllocRaiseMax(t)
    BY <2>8 DEF AllocRaiseMax
  <2>9. CASE AllocClearNext(t)
    BY <2>9 DEF AllocClearNext
  <2>10. CASE AllocSlotsFree(t)
    BY <2>10, Counting DEF AllocSlotsFree
  <2>11. CASE AllocCount(t)
    BY <2>11, Counting DEF AllocCount
  <2>12. CASE AllocReturn(t)
    <3> DEFINE s == old_head[t].slot
    <3>1. s \in Slot /\ gen[t] \in Gen /\ inc[s] \in Nat
      BY <2>12 DEF AllocReturn, Issued
    <3>2. Ref(encode_handle(gen[t], s, LIVE), inc[s]) \in Issuable
      BY <3>1, EncodeHandle DEF Ref, Issuable
    <3>3. 0 \in Gen
      BY DEF Gen
    <3> QED
      BY <2>12, <3>1, <3>2, <3>3 DEF AllocReturn, Issued, Cleared
  <2> QED
    BY <1>2, <2>1, <2>2, <2>3, <2>4, <2>5, <2>6, <2>7, <2>8, <2>9, <2>10, <2>11, <2>12
       DEF AllocStep
<1>3. ASSUME NEW t \in Thread, ReleaseStep(t) PROVE TypeInv'
  <2> USE DEF pool, stats, locals, ghost
  <2>1. CASE ReleaseValidate(t)
    BY <2>1 DEF ReleaseValidate
  <2>2. CASE ReleaseBump(t)
    BY <2>2, Counting DEF ReleaseBump
  <2>3. CASE ReleaseZero(t)
    BY <2>3 DEF ReleaseZero, Cleared
  <2>4. CASE ReleaseLoadHead(t)
    BY <2>4 DEF ReleaseLoadHead
  <2>5. CASE ReleaseLink(t)
    BY <2>5 DEF ReleaseLink
  <2>6. CASE ReleasePush(t)
    <3>1. encode_handle(NextGen(gen[t]), arg[t].h.slot, FREE) \in FreeHandle
      BY <2>6, Counting, EncodeHandle DEF ReleasePush
    <3> QED
      BY <2>6, <3>1 DEF ReleasePush
  <2>7. CASE ReleaseRetry(t)
    BY <2>7 DEF ReleaseRetry
  <2>8. CASE ReleaseSlotsFree(t)
    BY <2>8, Counting DEF ReleaseSlotsFree
  <2>9. CASE ReleaseReturn(t)
    <3>1. 0 \in Gen
      BY DEF Gen
    <3> QED
      BY <2>9, <3>1, Counting DEF ReleaseReturn
  <2> QED
    BY <1>3, <2>1, <2>2, <2>3, <2>4, <2>5, <2>6, <2>7, <2>8, <2>9 DEF ReleaseStep
<1>4. ASSUME NEW t \in Thread, Expose(t) PROVE TypeInv'
  <2>1. 0 \in Gen
    BY DEF Gen
  <2> QED
    BY <1>4, <2>1, Counting DEF Expose, pool, ghost
<1>5. ASSUME NEW t \in Thread, ClientStep(t) PROVE TypeInv'
  <2> USE DEF pool, stats, locals, ghost
  <2>1. CASE AllocCall(t)
    BY <2>1 DEF AllocCall
  <2>2. ASSUME NEW r \in Arguments, ReleaseCall(t, r) PROVE TypeInv'
    BY <2>2, OthersRejected DEF ReleaseCall, Arguments
  <2>3. ASSUME NEW r \in Arguments, GetValid(t, r) PROVE TypeInv'
    BY <2>3, OthersRejected DEF GetValid, Arguments, Validated
  <2>4. ASSUME NEW r \in Arguments, GetStale(t, r) PROVE TypeInv'
    BY <2>4 DEF GetStale, Arguments
  <2>5. CASE Use(t)
    BY <2>5 DEF Use
  <2> QED
    BY <1>5, <2>1, <2>2, <2>3, <2>4, <2>5 DEF ClientStep
<1> QED
  BY <1>1, <1>2, <1>3, <1>4, <1>5 DEF Next

\* Every variable keeps its type in every behaviour of anam_alloc, anam_release
\* and anam_get, under any client, with any number of threads and slots.
THEOREM TypeCorrect == Spec => []TypeOK
<1>1. TypeInv => TypeOK
  BY DEF TypeInv
<1> QED
  BY <1>1, TypeInit, TypeStep, PTL DEF Spec

-----------------------------------------------------------------------------
(* Safety: no slot is released GenMod times, and one handle is not released *)
(* by two threads at once                                                  *)

NoWrap == MaxInc < GenMod

\* The true generation is the number of times the slot was released.
GenerationInv == \A s \in Slot : generation[s] = inc[s] /\ inc[s] <= MaxInc

\* A handle that was issued belongs to the past of its slot, or to its present
\* while the slot is live.
IssuedInv ==
  \A r \in issued :
    /\ r.h.gen = r.inc
    /\ r.inc <= inc[r.h.slot]
    /\ r.inc = inc[r.h.slot] => status[r.h.slot] = "live"

\* A release works on a handle no other release has in hand. Between validation
\* and bump the handle is current, after the bump its slot is retired.
ReleaseInv ==
  \A t \in Thread :
    /\ pc[t] \in Releasing =>
         /\ arg[t] \in issued /\ arg[t].inc < MaxInc
         /\ \A u \in Thread \ {t} : pc[u] \in Releasing => arg[u] # arg[t]
    /\ pc[t] = "r_bump" => gen[t] = arg[t].inc /\ arg[t].inc = inc[arg[t].h.slot]
    /\ pc[t] \in Pushing =>
         /\ gen[t] = arg[t].inc /\ arg[t].inc + 1 = inc[arg[t].h.slot]
         /\ status[arg[t].h.slot] = "retired"
    /\ pc[t] = "r_cas" => next[arg[t].h.slot] = old_head[t]

\* An alloc that has popped a slot has it for itself.
PopInv ==
  \A t \in Thread :
    pc[t] \in Popped =>
      /\ status[old_head[t].slot] = "taken"
      /\ pc[t] # "a_gen" => gen[t] = generation[old_head[t].slot]
      /\ \A u \in Thread \ {t} : pc[u] \in Popped => old_head[u].slot # old_head[t].slot

\* free_head and the links of free slots name free slots by their current
\* generation, and no slot is named twice.
FreeListInv ==
  /\ free_head # ANAM_NULL =>
       status[free_head.slot] = "free" /\ free_head.gen = generation[free_head.slot]
  /\ \A s \in Slot :
       status[s] = "free" /\ next[s] # ANAM_NULL =>
         /\ status[next[s].slot] = "free" /\ next[s].gen = generation[next[s].slot]
         /\ next[s] # free_head
         /\ \A q \in Slot \ {s} : status[q] = "free" => next[q] # next[s]

\* What an alloc remembers between its load of free_head and its CAS: if the
\* generation it saw is still the current one, the slot has not been released
\* in between, and if the slot is free, the link it read is still there.
PendingPopInv ==
  \A t \in Thread :
    pc[t] \in {"a_next", "a_cas"} =>
      LET s == old_head[t].slot IN
      /\ old_head[t].gen <= generation[s]
      /\ old_head[t].gen = generation[s] =>
           /\ status[s] # "retired"
           /\ pc[t] = "a_cas" /\ status[s] = "free" => new_head[t] = next[s]

IInv == /\ TypeInv /\ GenerationInv /\ IssuedInv /\ ReleaseInv /\ PopInv
        /\ FreeListInv /\ PendingPopInv

\* A free-list handle is determined by its generation and its slot.
LEMMA SameHandle ==
  \A h, k \in FreeHandle : h.gen = k.gen /\ h.slot = k.slot => h = k
BY DEF FreeHandle

\* A reference is determined by its generation, slot and incarnation.
LEMMA SameRef ==
  \A r, q \in Issuable :
    r.h.gen = q.h.gen /\ r.h.slot = q.h.slot /\ r.inc = q.inc => r = q
BY DEF Issuable, LiveHandle

\* The pool anam_pool_create returns satisfies the inductive invariant: its
\* links lead from slot 0 to the last one, all of generation 0.
LEMMA IInvInit == Init => IInv
<1> SUFFICES ASSUME Init PROVE IInv
  OBVIOUS
<1>1. TypeInv
  BY TypeInit
<1>2. /\ \A s \in Slot : inc[s] = 0 /\ generation[s] = 0 /\ status[s] = "free"
      /\ issued = {} /\ \A t \in Thread : pc[t] = "idle"
  BY DEF Init
<1>3. GenerationInv /\ IssuedInv /\ ReleaseInv /\ PopInv /\ PendingPopInv
  BY <1>2, PoolAssumption DEF GenerationInv, IssuedInv, ReleaseInv, PopInv, PendingPopInv,
     Releasing, Pushing, Popped
<1>4. FreeListInv
  <2>1. \A s \in Slot : next[s] # ANAM_NULL => next[s].gen = 0 /\ next[s].slot = s + 1 /\ s + 1 \in Slot
    BY PoolAssumption DEF Init, encode_handle, Slot
  <2>2. free_head.gen = 0 /\ free_head.slot = 0 /\ 0 \in Slot
    BY PoolAssumption DEF Init, encode_handle, Slot
  <2> QED
    BY <1>2, <2>1, <2>2 DEF FreeListInv, Slot
<1> QED
  BY <1>1, <1>3, <1>4 DEF IInv

\* Two releases past their validation work on different slots.
LEMMA PushingApart ==
  ASSUME IInv, NEW t \in Thread, NEW u \in Thread \ {t}, pc[t] \in Pushing, pc[u] \in Pushing
  PROVE  arg[t].h.slot # arg[u].h.slot
<1>1. SUFFICES ASSUME arg[t].h.slot = arg[u].h.slot PROVE FALSE
  OBVIOUS
<1>2. arg[t] \in issued /\ arg[u] \in issued /\ arg[t] # arg[u]
  BY DEF IInv, ReleaseInv, Releasing
<1>3. arg[t] \in Issuable /\ arg[u] \in Issuable
  BY <1>2 DEF IInv, TypeInv, TypeOK
<1>4. arg[t].inc + 1 = arg[u].inc + 1
  BY <1>1 DEF IInv, ReleaseInv
<1>5. arg[t].inc = arg[u].inc
  BY <1>3, <1>4, IssuableFields
<1>6. arg[t].h.gen = arg[u].h.gen
  BY <1>2, <1>5 DEF IInv, IssuedInv
<1> QED
  BY <1>1, <1>2, <1>3, <1>5, <1>6, SameRef

\* Every atomic step of alloc, release and get keeps the inductive invariant. The
\* steps with something to show are the return of alloc, which issues a handle,
\* and the bump, the link and the push of release.
LEMMA IInvStep ==
  ASSUME NoWrap, ExclusiveRelease, IInv, [Next]_vars
  PROVE  IInv'
<1> USE PoolAssumption DEF IInv
<1>t. TypeInv'
  BY TypeStep
<1> USE FreeHandleFields, IssuableFields, SameHandle, SameRef
<1> USE DEF TypeInv, TypeOK, PendingOK, Owning, Releasing, Popped, Pushing, Goto
<1> USE DEF GenerationInv, IssuedInv, ReleaseInv, PopInv, FreeListInv, PendingPopInv
<1> USE DEF pool, stats, locals, ghost
<1>1. CASE UNCHANGED vars
  BY <1>t, <1>1 DEF vars
<1>2. ASSUME NEW t \in Thread, AllocStep(t) PROVE IInv'
  <2>1. CASE AllocLoadHead(t)
    BY <1>t, <2>1 DEF AllocLoadHead
  <2>2. CASE AllocFail(t)
    BY <1>t, <2>2 DEF AllocFail
  <2>3. CASE AllocLoadNext(t)
    BY <1>t, <2>3 DEF AllocLoadNext
  <2>4. CASE AllocPop(t)
    BY <1>t, <2>4 DEF AllocPop
  <2>5. CASE AllocRetry(t)
    BY <1>t, <2>5 DEF AllocRetry
  <2>6. CASE AllocLoadGen(t)
    BY <1>t, <2>6 DEF AllocLoadGen
  <2>7. CASE AllocLoadMax(t)
    BY <1>t, <2>7 DEF AllocLoadMax
  <2>8. CASE AllocRaiseMax(t)
    BY <1>t, <2>8 DEF AllocRaiseMax
  <2>9. CASE AllocClearNext(t)
    BY <1>t, <2>9 DEF AllocClearNext
  <2>10. CASE AllocSlotsFree(t)
    BY <1>t, <2>10 DEF AllocSlotsFree
  <2>11. CASE AllocCount(t)
    BY <1>t, <2>11 DEF AllocCount
  <2>12. CASE AllocReturn(t)
    <3> DEFINE s == old_head[t].slot
               r == Ref(encode_handle(gen[t], s, LIVE), inc[s])
    <3>1. s \in Slot /\ gen[t] = inc[s] /\ status[s] = "taken"
      BY <2>12 DEF AllocReturn, Issued
    <3>2. r.h.gen = gen[t] /\ r.h.slot = s /\ r.inc = inc[s]
      BY DEF Ref, encode_handle
    <3>3. /\ issued' = issued \cup {r} /\ status' = [status EXCEPT ![s] = "live"]
          /\ pc[t] = "a_ret" /\ pc' = [pc EXCEPT ![t] = "idle"]
          /\ old_head' = [old_head EXCEPT ![t] = ANAM_NULL] /\ gen' = [gen EXCEPT ![t] = 0]
          /\ UNCHANGED <<free_head, next, generation, arg, new_head, inc>>
      BY <2>12 DEF AllocReturn, Issued
    <3> HIDE DEF r
    <3>10. GenerationInv'
      BY <1>t, <3>1, <3>2, <3>3
    <3>11. IssuedInv'
      BY <1>t, <3>1, <3>2, <3>3
    <3>12. ReleaseInv'
      BY <1>t, <3>1, <3>2, <3>3
    <3>13. PopInv'
      BY <1>t, <3>1, <3>2, <3>3
    <3>14. FreeListInv'
      BY <1>t, <3>1, <3>2, <3>3
    <3>15. PendingPopInv'
      BY <1>t, <3>1, <3>2, <3>3
    <3> QED
      BY <1>t, <3>10, <3>11, <3>12, <3>13, <3>14, <3>15
  <2> QED
    BY <1>2, <2>1, <2>2, <2>3, <2>4, <2>5, <2>6, <2>7, <2>8, <2>9, <2>10, <2>11, <2>12
       DEF AllocStep
<1>3. ASSUME NEW t \in Thread, ReleaseStep(t) PROVE IInv'
  <2>1. CASE ReleaseValidate(t)
    BY <1>t, <2>1 DEF ReleaseValidate
  <2>2. CASE ReleaseBump(t)
    <3> DEFINE s == arg[t].h.slot
    <3>1. /\ s \in Slot /\ gen[t] = inc[s] /\ inc[s] < MaxInc /\ status[s] = "live"
          /\ arg[t] \in issued /\ arg[t].inc = inc[s]
      BY <2>2 DEF ReleaseBump
    <3>2. NextGen(gen[t]) = inc[s] + 1
      BY <3>1 DEF NextGen, NoWrap, Gen
    <3>3. /\ generation' = [generation EXCEPT ![s] = inc[s] + 1]
          /\ status' = [status EXCEPT ![s] = "retired"] /\ inc' = [inc EXCEPT ![s] = inc[s] + 1]
          /\ pc[t] = "r_bump" /\ pc' = [pc EXCEPT ![t] = "r_zero"]
          /\ UNCHANGED <<free_head, next, arg, old_head, new_head, gen, issued>>
      BY <2>2, <3>2 DEF ReleaseBump
    <3>10. GenerationInv'
      BY <1>t, <3>1, <3>3
    <3>11. IssuedInv'
      BY <1>t, <3>1, <3>3
    <3>12. ReleaseInv'
      BY <1>t, <3>1, <3>3
    <3>13. PopInv'
      BY <1>t, <3>1, <3>3
    <3>14. FreeListInv'
      BY <1>t, <3>1, <3>3
    <3>15. PendingPopInv'
      BY <1>t, <3>1, <3>3 DEF Gen
    <3> QED
      BY <1>t, <3>10, <3>11, <3>12, <3>13, <3>14, <3>15
  <2>3. CASE ReleaseZero(t)
    BY <1>t, <2>3 DEF ReleaseZero
  <2>4. CASE ReleaseLoadHead(t)
    BY <1>t, <2>4 DEF ReleaseLoadHead
  <2>5. CASE ReleaseLink(t)
    <3> DEFINE s == arg[t].h.slot
    <3>1. s \in Slot /\ status[s] = "retired"
      BY <2>5 DEF ReleaseLink
    <3>2. \A u \in Thread \ {t} : pc[u] \in Pushing => arg[u].h.slot # s
      BY <2>5, PushingApart DEF ReleaseLink
    <3>3. /\ next' = [next EXCEPT ![s] = old_head[t]]
          /\ pc[t] = "r_next" /\ pc' = [pc EXCEPT ![t] = "r_cas"]
          /\ UNCHANGED <<free_head, generation, arg, old_head, new_head, gen, issued, status, inc>>
      BY <2>5 DEF ReleaseLink
    <3>10. GenerationInv'
      BY <1>t, <3>1, <3>2, <3>3
    <3>11. IssuedInv'
      BY <1>t, <3>1, <3>2, <3>3
    <3>12. ReleaseInv'
      BY <1>t, <3>1, <3>2, <3>3
    <3>13. PopInv'
      BY <1>t, <3>1, <3>2, <3>3
    <3>14. FreeListInv'
      BY <1>t, <3>1, <3>2, <3>3
    <3>15. PendingPopInv'
      BY <1>t, <3>1, <3>2, <3>3
    <3> QED
      BY <1>t, <3>10, <3>11, <3>12, <3>13, <3>14, <3>15
  <2>6. CASE ReleasePush(t)
    <3> DEFINE s == arg[t].h.slot
               h == encode_handle(NextGen(gen[t]), s, FREE)
    <3>1. /\ s \in Slot /\ status[s] = "retired" /\ gen[t] + 1 = inc[s]
          /\ next[s] = free_head
      BY <2>6 DEF ReleasePush
    <3>2. \A u \in Thread \ {t} : pc[u] \in Pushing => arg[u].h.slot # s
      BY <2>6, PushingApart DEF ReleasePush
    <3>3. NextGen(gen[t]) = generation[s] /\ generation[s] \in Gen
      BY <3>1 DEF NextGen, NoWrap, Gen
    <3>4. h.gen = generation[s] /\ h.slot = s /\ h \in FreeHandle
      BY <3>1, <3>3, EncodeHandle
    <3>5. /\ free_head' = h /\ status' = [status EXCEPT ![s] = "free"]
          /\ pc[t] = "r_cas" /\ pc' = [pc EXCEPT ![t] = "r_free"]
          /\ UNCHANGED <<next, generation, arg, old_head, new_head, gen, issued, inc>>
      BY <2>6 DEF ReleasePush
    <3> HIDE DEF h
    <3>10. GenerationInv'
      BY <1>t, <3>1, <3>2, <3>4, <3>5
    <3>11. IssuedInv'
      BY <1>t, <3>1, <3>2, <3>4, <3>5
    <3>12. ReleaseInv'
      BY <1>t, <3>1, <3>2, <3>4, <3>5
    <3>13. PopInv'
      BY <1>t, <3>1, <3>2, <3>4, <3>5
    <3>14. FreeListInv'
      BY <1>t, <3>1, <3>2, <3>4, <3>5
    <3>15. PendingPopInv'
      BY <1>t, <3>1, <3>2, <3>4, <3>5
    <3> QED
      BY <1>t, <3>10, <3>11, <3>12, <3>13, <3>14, <3>15
  <2>7. CASE ReleaseRetry(t)
    BY <1>t, <2>7 DEF ReleaseRetry
  <2>8. CASE ReleaseSlotsFree(t)
    BY <1>t, <2>8 DEF ReleaseSlotsFree
  <2>9. CASE ReleaseReturn(t)
    BY <1>t, <2>9 DEF ReleaseReturn
  <2> QED
    BY <1>3, <2>1, <2>2, <2>3, <2>4, <2>5, <2>6, <2>7, <2>8, <2>9 DEF ReleaseStep
<1>4. ASSUME NEW t \in Thread, Expose(t) PROVE IInv'
  BY <1>t, <1>4 DEF Expose
<1>5. ASSUME NEW t \in Thread, ClientStep(t) PROVE IInv'
  <2>1. CASE AllocCall(t)
    BY <1>t, <2>1 DEF AllocCall
  <2>2. ASSUME NEW r \in Arguments, ReleaseCall(t, r) PROVE IInv'
    BY <1>t, <2>2, OthersRejected DEF ReleaseCall, Arguments, MayRelease
  <2>3. ASSUME NEW r \in Arguments, GetValid(t, r) PROVE IInv'
    BY <1>t, <2>3 DEF GetValid
  <2>4. ASSUME NEW r \in Arguments, GetStale(t, r) PROVE IInv'
    BY <1>t, <2>4 DEF GetStale
  <2>5. CASE Use(t)
    BY <1>t, <2>5 DEF Use
  <2> QED
    BY <1>5, <2>1, <2>2, <2>3, <2>4, <2>5 DEF ClientStep
<1> QED
  BY <1>1, <1>2, <1>3, <1>4, <1>5 DEF Next

\* The inductive invariant holds as long as no generation wraps and the clients
\* do not race two releases of one handle.
THEOREM Invariance ==
  ASSUME NoWrap, ExclusiveRelease
  PROVE  Spec => []IInv
<1>1. IInv /\ [Next]_vars => IInv'
  BY IInvStep
<1> QED
  BY <1>1, IInvInit, PTL DEF Spec

\* A slot is never in the hands of two calls at once, for any number of threads
\* and slots: no two allocations return the same slot, and no allocation gets a
\* slot that is still being released.
THEOREM OneOwnerAlways ==
  ASSUME NoWrap, ExclusiveRelease
  PROVE  Spec => []OneOwner
<1>1. IInv => OneOwner
  BY PushingApart DEF IInv, PopInv, ReleaseInv, OneOwner
<1> QED
  BY <1>1, Invariance, PTL

\* The CAS of anam_alloc never falls for ABA: if free_head still is the handle
\* that was loaded, then the link that was read is still the link of that slot.
THEOREM NoAba ==
  ASSUME NoWrap, ExclusiveRelease
  PROVE  Spec => []PopLinkFresh
<1>1. IInv => PopLinkFresh
  <2> SUFFICES ASSUME IInv, NEW t \in Thread, pc[t] = "a_cas", free_head = old_head[t]
               PROVE  new_head[t] = next[old_head[t].slot]
    BY DEF PopLinkFresh
  <2>1. old_head[t] # ANAM_NULL
    BY FreeHandleFields DEF IInv, TypeInv, PendingOK, Owning
  <2> QED
    BY <2>1 DEF IInv, FreeListInv, PendingPopInv
<1> QED
  BY <1>1, Invariance, PTL

-----------------------------------------------------------------------------
(* Pointers *)

\* A pointer anam_get returned was issued for the present incarnation of its
\* slot, and no release of its handle is on the way to the bump.
PointerInv ==
  \A t \in Thread :
    ptr[t] # NoRef =>
      /\ ptr[t] \in issued /\ ptr[t].inc = inc[ptr[t].h.slot]
      /\ \A u \in Thread : pc[u] \in {"r_gen", "r_bump"} => arg[u] # ptr[t]

\* Only the bump of a release can take the incarnation of a pointer away, and the
\* client rule keeps it off the handles in use.
LEMMA PointerStep ==
  ASSUME NoWrap, ExclusiveRelease, ExclusiveUse, IInv, PointerInv, [Next]_vars
  PROVE  PointerInv'
<1> USE DEF IInv, TypeInv, TypeOK, PendingOK, PointerInv, Goto, pool, stats, locals, ghost
<1>1. CASE UNCHANGED vars
  BY <1>1 DEF vars
<1>2. ASSUME NEW t \in Thread, AllocStep(t) PROVE PointerInv'
  BY <1>2 DEF AllocStep, AllocLoadHead, AllocFail, AllocLoadNext, AllocPop, AllocRetry,
     AllocLoadGen, AllocLoadMax, AllocRaiseMax, AllocClearNext, AllocSlotsFree, AllocCount,
     AllocReturn
<1>3. ASSUME NEW t \in Thread, ReleaseStep(t) PROVE PointerInv'
  <2>1. CASE ReleaseBump(t)
    <3> SUFFICES ASSUME NEW u \in Thread, ptr[u] # NoRef
                 PROVE  ptr[u].inc = inc'[ptr[u].h.slot]
      BY <2>1 DEF ReleaseBump
    <3>1. /\ arg[t] \in issued /\ arg[t] \in Issuable /\ ptr[u] \in issued /\ ptr[u] \in Issuable
          /\ arg[t] # ptr[u] /\ arg[t].inc = inc[arg[t].h.slot]
      BY <2>1 DEF ReleaseBump, ReleaseInv, Releasing
    <3>2. arg[t].h.gen = arg[t].inc /\ ptr[u].h.gen = ptr[u].inc
      BY <3>1 DEF IssuedInv
    <3>3. ptr[u].h.slot # arg[t].h.slot
      BY <3>1, <3>2, SameRef
    <3>4. ptr[u].h.slot \in Slot /\ arg[t].h.slot \in Slot
      BY <3>1, IssuableFields
    <3> QED
      BY <2>1, <3>3, <3>4 DEF ReleaseBump
  <2>2. CASE ~ReleaseBump(t)
    BY <1>3, <2>2 DEF ReleaseStep, ReleaseValidate, ReleaseZero, ReleaseLoadHead, ReleaseLink,
       ReleasePush, ReleaseRetry, ReleaseSlotsFree, ReleaseReturn
  <2> QED
    BY <2>1, <2>2
<1>4. ASSUME NEW t \in Thread, Expose(t) PROVE PointerInv'
  BY <1>4 DEF Expose
<1>5. ASSUME NEW t \in Thread, ClientStep(t) PROVE PointerInv'
  <2>1. CASE AllocCall(t)
    BY <2>1 DEF AllocCall
  <2>2. ASSUME NEW r \in Arguments, ReleaseCall(t, r) PROVE PointerInv'
    BY <2>2 DEF ReleaseCall, MayRelease
  <2>3. ASSUME NEW r \in Arguments, GetValid(t, r) PROVE PointerInv'
    <3>1. r \in issued /\ r \in Issuable
      BY <2>3, OthersRejected DEF GetValid, Validated, Arguments
    <3>2. r.inc = inc[r.h.slot]
      BY <2>3, <3>1, IssuableFields DEF GetValid, Validated, IssuedInv, GenerationInv
    <3> QED
      BY <2>3, <3>1, <3>2 DEF GetValid, MayGet
  <2>4. ASSUME NEW r \in Arguments, GetStale(t, r) PROVE PointerInv'
    BY <2>4 DEF GetStale
  <2>5. CASE Use(t)
    BY <2>5 DEF Use
  <2> QED
    BY <1>5, <2>1, <2>2, <2>3, <2>4, <2>5 DEF ClientStep
<1> QED
  BY <1>1, <1>2, <1>3, <1>4, <1>5 DEF Next

\* If the clients also keep a release away from a pointer in use, a pointer that
\* anam_get returned never outlives the incarnation its handle was issued for.
THEOREM PointerCurrentAlways ==
  ASSUME NoWrap, ExclusiveRelease, ExclusiveUse
  PROVE  Spec => []PointerCurrent
<1>1. Init => PointerInv
  BY DEF Init, PointerInv
<1>2. IInv /\ PointerInv /\ [Next]_vars => PointerInv'
  BY PointerStep
<1>3. IInv /\ PointerInv => PointerCurrent
  BY DEF IInv, IssuedInv, PointerInv, PointerCurrent, Current
<1> QED
  BY <1>1, <1>2, <1>3, Invariance, PTL DEF Spec

-----------------------------------------------------------------------------
(* Counterfeits *)

\* A call about to count a counterfeit has a handle of no slot, or one whose
\* incarnation is over.
ExposeInv ==
  \A t \in Thread :
    pc[t] = "expose" =>
      \/ arg[t] \in {Foreign, Untagged}
      \/ arg[t] \in Issuable /\ arg[t].inc < inc[arg[t].h.slot]

\* An issued handle that fails the comparison belongs to an incarnation that is
\* over, and no step takes a release back.
LEMMA ExposeStep ==
  ASSUME NoWrap, IInv, ExposeInv, [Next]_vars
  PROVE  ExposeInv'
<1> USE DEF IInv, TypeInv, TypeOK, PendingOK, ExposeInv, Goto, pool, stats, locals, ghost
<1>1. CASE UNCHANGED vars
  BY <1>1 DEF vars
<1>2. ASSUME NEW t \in Thread, AllocStep(t) PROVE ExposeInv'
  BY <1>2 DEF AllocStep, AllocLoadHead, AllocFail, AllocLoadNext, AllocPop, AllocRetry,
     AllocLoadGen, AllocLoadMax, AllocRaiseMax, AllocClearNext, AllocSlotsFree, AllocCount,
     AllocReturn
<1>3. ASSUME NEW t \in Thread, ReleaseStep(t) PROVE ExposeInv'
  <2>1. CASE ReleaseValidate(t)
    <3>1. arg[t] \in issued /\ arg[t] \in Issuable /\ arg[t].h.slot \in Slot
      BY <2>1, IssuableFields DEF ReleaseValidate, ReleaseInv, Releasing
    <3>2. arg[t].h.gen # generation[arg[t].h.slot] => arg[t].inc < inc[arg[t].h.slot]
      <4>1. arg[t].inc \in Nat /\ inc[arg[t].h.slot] \in Nat
        BY <3>1, IssuableFields
      <4>2. generation[arg[t].h.slot] = inc[arg[t].h.slot]
        BY <3>1 DEF GenerationInv
      <4>3. arg[t].h.gen = arg[t].inc /\ arg[t].inc <= inc[arg[t].h.slot]
        BY <3>1 DEF IssuedInv
      <4> HIDE DEF IInv, TypeInv, TypeOK, PendingOK, ExposeInv
      <4> QED
        BY <4>1, <4>2, <4>3
    <3> QED
      BY <2>1, <3>1, <3>2 DEF ReleaseValidate
  <2>2. CASE ReleaseBump(t)
    <3>1. arg[t].h.slot \in Slot /\ \A s \in Slot : inc[s] <= inc'[s]
      BY <2>2, IssuableFields DEF ReleaseBump, Releasing
    <3> QED
      BY <2>2, <3>1, IssuableFields DEF ReleaseBump
  <2>3. CASE ~(ReleaseValidate(t) \/ ReleaseBump(t))
    BY <1>3, <2>3 DEF ReleaseStep, ReleaseZero, ReleaseLoadHead, ReleaseLink,
       ReleasePush, ReleaseRetry, ReleaseSlotsFree, ReleaseReturn
  <2> QED
    BY <2>1, <2>2, <2>3
<1>4. ASSUME NEW t \in Thread, Expose(t) PROVE ExposeInv'
  BY <1>4 DEF Expose
<1>5. ASSUME NEW t \in Thread, ClientStep(t) PROVE ExposeInv'
  <2>1. CASE AllocCall(t)
    BY <2>1 DEF AllocCall
  <2>2. ASSUME NEW r \in Arguments, ReleaseCall(t, r) PROVE ExposeInv'
    BY <2>2, IssuableFields DEF ReleaseCall, Arguments
  <2>3. ASSUME NEW r \in Arguments, GetValid(t, r) PROVE ExposeInv'
    BY <2>3 DEF GetValid
  <2>4. ASSUME NEW r \in Arguments, GetStale(t, r) PROVE ExposeInv'
    <3>1. CASE r \in issued
      <4>1. r \in Issuable /\ ~Rejected(r.h) /\ r.h.slot \in Slot /\ r.inc \in Nat
        BY <3>1, IssuableFields
      <4>2. r.inc < inc[r.h.slot]
        BY <2>4, <3>1, <4>1 DEF GetStale, Validated, IssuedInv, GenerationInv
      <4> QED
        BY <2>4, <4>1, <4>2 DEF GetStale
    <3>2. CASE r \in {Foreign, Untagged}
      BY <2>4, <3>2 DEF GetStale
    <3> QED
      BY <3>1, <3>2 DEF Arguments
  <2>5. CASE Use(t)
    BY <2>5 DEF Use
  <2> QED
    BY <1>5, <2>1, <2>2, <2>3, <2>4, <2>5 DEF ClientStep
<1> QED
  BY <1>1, <1>2, <1>3, <1>4, <1>5 DEF Next

\* A handle that tells the truth is never counted in anamnesis_count, whatever
\* the other threads do between the comparison and the fetch_add.
THEOREM TruthNeverExposedAlways ==
  ASSUME NoWrap, ExclusiveRelease
  PROVE  Spec => []TruthNeverExposed
<1>1. Init => ExposeInv
  BY DEF Init, ExposeInv
<1>2. IInv /\ ExposeInv /\ [Next]_vars => ExposeInv'
  BY ExposeStep
<1>3. IInv /\ ExposeInv => TruthNeverExposed
  <2> SUFFICES ASSUME IInv, ExposeInv, NEW t \in Thread, pc[t] = "expose", arg[t] \in issued
               PROVE  ~Current(arg[t])
    BY DEF TruthNeverExposed
  <2>1. arg[t] \in Issuable
    BY DEF IInv, TypeInv, TypeOK
  <2>2. arg[t].inc < inc[arg[t].h.slot]
    BY <2>1, IssuableFields DEF ExposeInv
  <2> QED
    BY <2>1, <2>2, IssuableFields DEF Current, IInv, TypeInv, TypeOK
<1> QED
  BY <1>1, <1>2, <1>3, Invariance, PTL DEF Spec

-----------------------------------------------------------------------------
(* Contents *)

\* With zero_on_release, a slot that was ever released is zero from the memset
\* of its release until the holder of its next incarnation writes to it.
CleanInv ==
  /\ FreshIsClean
  /\ ZeroOnRelease =>
       /\ \A s \in Slot : inc[s] > 0 /\ status[s] \in {"free", "taken"} => mem[s] = Zero
       /\ \A t \in Thread : pc[t] \in {"r_head", "r_next", "r_cas"} => mem[arg[t].h.slot] = Zero

\* Only holders of the present incarnation write, so nothing comes between the
\* memset of a release, its push, the next pop and the return of alloc.
LEMMA CleanStep ==
  ASSUME NoWrap, IInv, PointerInv, CleanInv, [Next]_vars
  PROVE  CleanInv'
<1> USE PoolAssumption
    DEF IInv, TypeInv, TypeOK, CleanInv, FreshIsClean, Goto, pool, stats, locals, ghost
<1>1. CASE UNCHANGED vars
  BY <1>1 DEF vars
<1>2. ASSUME NEW t \in Thread, AllocStep(t) PROVE CleanInv'
  <2>1. CASE AllocPop(t)
    <3>1. old_head[t].slot \in Slot /\ status[old_head[t].slot] = "free"
      BY <2>1, FreeHandleFields DEF AllocPop, PendingOK, Owning, FreeListInv
    <3> QED
      BY <2>1, <3>1 DEF AllocPop
  <2>2. CASE AllocReturn(t)
    <3>1. old_head[t].slot \in Slot /\ status[old_head[t].slot] = "taken"
      BY <2>2, FreeHandleFields DEF AllocReturn, PendingOK, Owning, Popped, PopInv
    <3> QED
      BY <2>2, <3>1 DEF AllocReturn, Cleared
  <2>3. CASE ~(AllocPop(t) \/ AllocReturn(t))
    BY <1>2, <2>3 DEF AllocStep, AllocLoadHead, AllocFail, AllocLoadNext, AllocRetry,
       AllocLoadGen, AllocLoadMax, AllocRaiseMax, AllocClearNext, AllocSlotsFree, AllocCount
  <2> QED
    BY <2>1, <2>2, <2>3
<1>3. ASSUME NEW t \in Thread, ReleaseStep(t) PROVE CleanInv'
  <2>1. CASE ReleaseBump(t)
    <3>1. arg[t].h.slot \in Slot
      BY <2>1, IssuableFields DEF ReleaseBump, PendingOK, Releasing
    <3> QED
      BY <2>1, <3>1 DEF ReleaseBump
  <2>2. CASE ReleaseZero(t)
    <3>1. arg[t].h.slot \in Slot
      BY <2>2, IssuableFields DEF ReleaseZero, PendingOK, Releasing, Pushing
    <3> QED
      BY <2>2, <3>1 DEF ReleaseZero, Cleared
  <2>3. CASE ReleasePush(t)
    <3>1. arg[t].h.slot \in Slot
      BY <2>3, IssuableFields DEF ReleasePush, PendingOK, Releasing, Pushing
    <3> QED
      BY <2>3, <3>1 DEF ReleasePush
  <2>4. CASE ~(ReleaseBump(t) \/ ReleaseZero(t) \/ ReleasePush(t))
    BY <1>3, <2>4 DEF ReleaseStep, ReleaseValidate, ReleaseLoadHead, ReleaseLink,
       ReleaseRetry, ReleaseSlotsFree, ReleaseReturn
  <2> QED
    BY <2>1, <2>2, <2>3, <2>4
<1>4. ASSUME NEW t \in Thread, Expose(t) PROVE CleanInv'
  BY <1>4 DEF Expose
<1>5. ASSUME NEW t \in Thread, ClientStep(t) PROVE CleanInv'
  <2>1. CASE AllocCall(t)
    BY <2>1 DEF AllocCall
  <2>2. ASSUME NEW r \in Arguments, ReleaseCall(t, r) PROVE CleanInv'
    BY <2>2 DEF ReleaseCall
  <2>3. ASSUME NEW r \in Arguments, GetValid(t, r) \/ GetStale(t, r) PROVE CleanInv'
    BY <2>3 DEF GetValid, GetStale
  <2>4. CASE Use(t)
    <3> DEFINE s == ptr[t].h.slot
    <3>1. ptr[t] \in issued /\ ptr[t].inc = inc[s] /\ s \in Slot
      BY <2>4, IssuableFields DEF Use, PointerInv
    <3>2. status[s] = "live"
      BY <3>1 DEF IssuedInv
    <3>3. \A u \in Thread : pc[u] \in Pushing => arg[u].h.slot # s
      BY <3>2 DEF ReleaseInv
    <3> QED
      BY <2>4, <3>1, <3>2, <3>3 DEF Use, Pushing
  <2> QED
    BY <1>5, <2>1, <2>2, <2>3, <2>4 DEF ClientStep
<1> QED
  BY <1>1, <1>2, <1>3, <1>4, <1>5 DEF Next

\* With zeroing configured no holder of a handle is shown the bytes an earlier
\* holder of the slot has written.
THEOREM FreshIsCleanAlways ==
  ASSUME NoWrap, ExclusiveRelease, ExclusiveUse
  PROVE  Spec => []FreshIsClean
<1>1. Init => PointerInv /\ CleanInv
  BY DEF Init, PointerInv, CleanInv, FreshIsClean
<1>2. IInv /\ PointerInv /\ [Next]_vars => PointerInv'
  BY PointerStep
<1>3. IInv /\ PointerInv /\ CleanInv /\ [Next]_vars => CleanInv'
  BY CleanStep
<1>4. CleanInv => FreshIsClean
  BY DEF CleanInv
<1> QED
  BY <1>1, <1>2, <1>3, <1>4, Invariance, PTL DEF Spec

-----------------------------------------------------------------------------
(* generation_max *)

\* An alloc that passed the loop has its generation covered; inside the loop it
\* only ever tries to raise.
MaxInv ==
  /\ GenerationMaxCovers
  /\ \A t \in Thread :
       /\ pc[t] \in {"a_clear", "a_free", "a_count", "a_ret"} => gen[t] <= generation_max
       /\ pc[t] = "a_maxcas" => gen[t] > max_gen[t]

\* The CAS of anam_alloc only raises generation_max, since the value it replaces
\* was compared with the generation of the slot.
LEMMA MaxStep == TypeInv /\ MaxInv /\ [Next]_vars => MaxInv'
<1> SUFFICES ASSUME TypeInv, MaxInv, [Next]_vars PROVE MaxInv'
  OBVIOUS
<1> USE PoolAssumption, IssuableFields
    DEF TypeInv, TypeOK, PendingOK, MaxInv, GenerationMaxCovers, Goto, pool, stats, locals,
        ghost, Gen
<1>1. CASE UNCHANGED vars
  BY <1>1 DEF vars
<1>2. ASSUME NEW t \in Thread, AllocStep(t) PROVE MaxInv'
  <2>1. CASE AllocReturn(t)
    <3>1. Ref(encode_handle(gen[t], old_head[t].slot, LIVE), inc[old_head[t].slot]).h.gen = gen[t]
      BY DEF Ref, encode_handle
    <3> QED
      BY <2>1, <3>1 DEF AllocReturn, Issued
  <2>2. CASE AllocRaiseMax(t)
    BY <2>2 DEF AllocRaiseMax
  <2>3. CASE AllocLoadMax(t)
    BY <2>3 DEF AllocLoadMax
  <2>4. CASE ~(AllocReturn(t) \/ AllocRaiseMax(t) \/ AllocLoadMax(t))
    BY <1>2, <2>4 DEF AllocStep, AllocLoadHead, AllocFail, AllocLoadNext, AllocPop, AllocRetry,
       AllocLoadGen, AllocClearNext, AllocSlotsFree, AllocCount
  <2> QED
    BY <2>1, <2>2, <2>3, <2>4
<1>3. ASSUME NEW t \in Thread, ReleaseStep(t) PROVE MaxInv'
  BY <1>3 DEF ReleaseStep, ReleaseValidate, ReleaseBump, ReleaseZero, ReleaseLoadHead,
     ReleaseLink, ReleasePush, ReleaseRetry, ReleaseSlotsFree, ReleaseReturn
<1>4. ASSUME NEW t \in Thread, Expose(t) PROVE MaxInv'
  BY <1>4 DEF Expose
<1>5. ASSUME NEW t \in Thread, ClientStep(t) PROVE MaxInv'
  BY <1>5 DEF ClientStep, AllocCall, ReleaseCall, GetValid, GetStale, Use
<1> QED
  BY <1>1, <1>2, <1>3, <1>4, <1>5 DEF Next

\* generation_max is never below the generation of a handle that was issued,
\* however the CAS loops of concurrent allocations interleave.
THEOREM GenerationMaxAlways == Spec => []GenerationMaxCovers
<1>1. Init => MaxInv
  BY DEF Init, MaxInv, GenerationMaxCovers
<1>2. MaxInv => GenerationMaxCovers
  BY DEF MaxInv
<1> QED
  BY <1>1, <1>2, TypeInit, TypeStep, MaxStep, PTL DEF Spec
=============================================================================
