-------------------------- MODULE TracedPoolProof ---------------------------
(***************************************************************************)
(* The trace of a pool tells the life of every slot and accounts for its   *)
(* counters, for every number of threads and slots and every way the hooks *)
(* and the calls interleave.                                               *)
(***************************************************************************)
EXTENDS TracedPool, AnamPoolProof, Residues, FiniteSetTheorems

-----------------------------------------------------------------------------
(* The invariant *)

Ops == {"alloc", "get_valid", "release", "get_stale"}
EventSet == [op : Ops, slot : Slot, gen : Gen, inc : Nat]

Reports == [event : EventSet, entry : Thread \X Nat]

\* The types of what the hooks add to the pool.
TraceTypeOK ==
  /\ logged \in [Thread -> Nat]
  /\ hook \in [Thread -> EventSet \cup {NoEvent}]
  /\ trail \in [Slot -> Seq(Reports)]

\* No two calls have the same handle in hand.
ArgsApart == \A t \in Thread : \A u \in Thread \ {t} : arg[t] # NoRef => arg[u] # arg[t]

\* The event e is about the reference r.
About(e, r) == e.slot = r.h.slot /\ e.inc = r.inc

\* A thread with an event to report stands right behind the access it reports.
HookInv ==
  \A t \in Thread :
    LET e == hook[t] IN
    /\ e.op = "alloc" => pc[t] = "a_ret" /\ e.slot = old_head[t].slot /\ e.inc = inc[e.slot]
    /\ e.op = "get_valid" => pc[t] = "idle" /\ ptr[t] # NoRef /\ About(e, ptr[t])
    /\ e.op = "release" => pc[t] = "r_zero" /\ About(e, arg[t])
    /\ e.op = "get_stale" =>
         pc[t] = "expose" /\ arg[t] \in issued /\ About(e, arg[t]) /\ e.inc < inc[e.slot]

\* The call that has popped s, if any, has reported it.
Reported(s) ==
  \A t \in Thread : pc[t] \in Popped /\ old_head[t].slot = s => pc[t] = "a_ret" /\ hook[t] = NoEvent

\* What the entry a of the trail of s says has happened: of the present
\* incarnation it can be the alloc or a read, of an incarnation whose release is
\* still to be reported nothing that comes after it.
EntryOK(s, a) ==
  /\ a.inc <= inc[s]
  /\ a.inc = inc[s] =>
       a.op \in {"alloc", "get_valid"} /\ status[s] \in {"taken", "live"} /\ Reported(s)
  /\ \A t \in Thread :
       hook[t].op = "release" /\ hook[t].slot = s /\ a.inc = hook[t].inc
         => a.op \in {"alloc", "get_valid"}

TrailInv == \A s \in Slot : \A j \in DOMAIN trail[s] : EntryOK(s, trail[s][j].event)

LifeInv == TraceTypeOK /\ ArgsApart /\ HookInv /\ TrailInv
-----------------------------------------------------------------------------
(* Events *)

\* The fields of the events that are reported; NoEvent is none of them.
LEMMA EventFields ==
  /\ NoEvent.op = "none"
  /\ \A e \in EventSet : e.op \in Ops /\ e.slot \in Slot /\ e.inc \in Nat /\ e # NoEvent
  /\ \A op, r : Event(op, r).op = op /\ About(Event(op, r), r)
  /\ \A op \in Ops : \A r \in Issuable : Event(op, r) \in EventSet
<1>1. NoEvent.op = "none"
  BY DEF NoEvent, Event
<1>2. \A e \in EventSet : e.op \in Ops /\ e.slot \in Slot /\ e.inc \in Nat
  BY DEF EventSet
<1>3. \A e \in EventSet : e # NoEvent
  BY <1>1, <1>2 DEF Ops
<1>4. \A op, r : Event(op, r).op = op /\ About(Event(op, r), r)
  BY DEF Event, About
<1>5. \A op \in Ops : \A r \in Issuable : Event(op, r) \in EventSet
  BY IssuableFields DEF Event, EventSet
<1> QED
  BY <1>1, <1>2, <1>3, <1>4, <1>5

\* The reference anam_alloc is about to return.
LEMMA IssuedFields ==
  ASSUME TypeInv, NEW t \in Thread, pc[t] \in Popped
  PROVE  /\ old_head[t].slot \in Slot /\ Issued(t) \in Issuable
         /\ Issued(t).h.slot = old_head[t].slot /\ Issued(t).inc = inc[old_head[t].slot]
<1>1. old_head[t].slot \in Slot
  BY FreeHandleFields DEF TypeInv, PendingOK, Owning
<1>2. gen[t] \in Gen /\ inc[old_head[t].slot] \in Nat
  BY <1>1 DEF TypeInv, TypeOK
<1>3. Issued(t) \in Issuable
  BY <1>1, <1>2, EncodeHandle DEF Issued, Ref, Issuable
<1>4. Issued(t).h.slot = old_head[t].slot /\ Issued(t).inc = inc[old_head[t].slot]
  BY DEF Issued, Ref, encode_handle
<1> QED
  BY <1>1, <1>3, <1>4

-----------------------------------------------------------------------------
(* Steps *)

\* The steps that leave nothing to report.
Quiet(t) ==
  \/ AllocLoadHead(t) \/ AllocFail(t) \/ AllocLoadNext(t) \/ AllocPop(t) \/ AllocRetry(t)
  \/ AllocLoadGen(t) \/ AllocLoadMax(t) \/ AllocRaiseMax(t) \/ AllocClearNext(t)
  \/ AllocSlotsFree(t) \/ AllocReturn(t)
  \/ ReleaseValidate(t) \/ ReleaseZero(t) \/ ReleaseLoadHead(t) \/ ReleaseLink(t)
  \/ ReleasePush(t) \/ ReleaseRetry(t) \/ ReleaseSlotsFree(t) \/ ReleaseReturn(t)
  \/ Expose(t) \/ AllocCall(t) \/ (\E r \in issued : ReleaseCall(t, r)) \/ Use(t)

\* A step of the pool reports an alloc behind the fetch_add of alloc_count, a
\* release behind the bump, a get behind its comparison, and nothing elsewhere.
LEMMA WhatIsReported ==
  ASSUME TraceTypeOK, NEW t \in Thread, PoolStep(t)
  PROVE  /\ hook[t] = NoEvent /\ UNCHANGED <<logged, trail>>
         /\ \/ AllocCount(t) /\ hook' = [hook EXCEPT ![t] = Event("alloc", Issued(t))]
            \/ ReleaseBump(t) /\ hook' = [hook EXCEPT ![t] = Event("release", arg[t])]
            \/ \E r \in issued : GetValid(t, r) /\ hook' = [hook EXCEPT ![t] = Event("get_valid", r)]
            \/ \E r \in issued : GetStale(t, r) /\ hook' = [hook EXCEPT ![t] = Event("get_stale", r)]
            \/ Quiet(t) /\ UNCHANGED hook
<1>1. hook[t] = NoEvent /\ UNCHANGED <<logged, trail>> /\ hook \in [Thread -> EventSet \cup {NoEvent}]
  BY DEF PoolStep, tracer, TraceTypeOK
<1>2. [hook EXCEPT ![t] = NoEvent] = hook
  BY <1>1
<1>3. ASSUME InCallStep(t), hook' = [hook EXCEPT ![t] = HookOf(t)]
      PROVE  \/ AllocCount(t) /\ hook' = [hook EXCEPT ![t] = Event("alloc", Issued(t))]
             \/ ReleaseBump(t) /\ hook' = [hook EXCEPT ![t] = Event("release", arg[t])]
             \/ Quiet(t) /\ UNCHANGED hook
  <2>1. CASE AllocCount(t)
    <3>1. pc[t] = "a_count"
      BY <2>1 DEF AllocCount, Goto
    <3>2. HookOf(t) = Event("alloc", Issued(t))
      BY <3>1 DEF HookOf
    <3> QED
      BY <1>3, <2>1, <3>2
  <2>2. CASE ReleaseBump(t)
    <3>1. pc[t] = "r_bump"
      BY <2>2 DEF ReleaseBump, Goto
    <3>2. HookOf(t) = Event("release", arg[t])
      BY <3>1 DEF HookOf
    <3> QED
      BY <1>3, <2>2, <3>2
  <2>3. CASE ~AllocCount(t) /\ ~ReleaseBump(t)
    <3>1. Quiet(t)
      BY <1>3, <2>3 DEF InCallStep, AllocStep, ReleaseStep, Quiet
    <3>2. pc[t] # "a_count" /\ pc[t] # "r_bump"
      BY <1>3, <2>3 DEF InCallStep, AllocStep, ReleaseStep, AllocLoadHead, AllocFail,
         AllocLoadNext, AllocPop, AllocRetry, AllocLoadGen, AllocLoadMax, AllocRaiseMax,
         AllocClearNext, AllocSlotsFree, AllocReturn, ReleaseValidate, ReleaseZero,
         ReleaseLoadHead, ReleaseLink, ReleasePush, ReleaseRetry, ReleaseSlotsFree,
         ReleaseReturn, Expose, Goto
    <3>3. HookOf(t) = NoEvent
      BY <3>2 DEF HookOf
    <3> QED
      BY <1>2, <1>3, <3>1, <3>3
  <2> QED
    BY <2>1, <2>2, <2>3
<1>4. ASSUME NEW r \in issued, GetValid(t, r) PROVE HookOfGet(r) = Event("get_valid", r)
  BY <1>4 DEF GetValid, HookOfGet
<1>5. ASSUME NEW r \in issued, GetStale(t, r) PROVE HookOfGet(r) = Event("get_stale", r)
  BY <1>5 DEF GetStale, HookOfGet
<1> QED
  BY <1>1, <1>3, <1>4, <1>5 DEF PoolStep, Announce, Quiet

\* The tracer does not touch the pool.
LEMMA TracedStep == [TNext]_tvars => [Next]_vars
<1> SUFFICES ASSUME [TNext]_tvars PROVE [Next]_vars
  OBVIOUS
<1>1. ASSUME NEW t \in Thread, PoolStep(t) PROVE Next
  BY <1>1 DEF PoolStep, InCallStep, Next, ClientStep, Arguments
<1>2. ASSUME NEW t \in Thread, Report(t) \/ ReportDropped(t) \/ Exit(t) \/ Trace(t)
      PROVE  UNCHANGED vars
  BY <1>2 DEF Report, ReportDropped, Exit, Trace
<1> QED
  BY <1>1, <1>2 DEF TNext, tvars

\* What Report changes: the event moves from the hook to the end of its trail.
LEMMA ReportEffect ==
  ASSUME TraceTypeOK, NEW t \in Thread, Report(t)
  PROVE  LET s == hook[t].slot
             n == Len(trail[s])
         IN /\ hook[t] \in EventSet /\ hook' = [hook EXCEPT ![t] = NoEvent]
            /\ UNCHANGED vars /\ TraceTypeOK'
            /\ n \in Nat /\ DOMAIN trail[s] = 1 .. n /\ DOMAIN trail'[s] = 1 .. n + 1
            /\ trail'[s][n + 1].event = hook[t]
            /\ \A j \in 1 .. n : trail'[s][j] = trail[s][j]
            /\ \A q \in Slot \ {s} : trail'[q] = trail[q]
<1> DEFINE s == hook[t].slot
           n == Len(trail[s])
           x == [event |-> hook[t], entry |-> Tr!Entry(t, logged[t] + 1)]
<1>1. /\ hook[t] \in EventSet /\ hook' = [hook EXCEPT ![t] = NoEvent] /\ UNCHANGED vars
      /\ trail' = [trail EXCEPT ![s] = Append(trail[s], x)]
      /\ logged' = [logged EXCEPT ![t] = logged[t] + 1]
  BY DEF Report, Announce, TraceTypeOK, Tr!Record, Tr!RecordFirst, Tr!RecordInto
<1>2. s \in Slot /\ logged[t] + 1 \in Nat
  BY <1>1, EventFields DEF TraceTypeOK
<1>3. x \in Reports
  BY <1>1, <1>2 DEF Tr!Entry, Reports
<1>4. x.event = hook[t]
  OBVIOUS
<1> HIDE DEF x
<1>5. trail[s] \in Seq(Reports) /\ n \in Nat /\ DOMAIN trail[s] = 1 .. n
  BY <1>2 DEF TraceTypeOK
<1>6. /\ trail'[s] = Append(trail[s], x) /\ \A q \in Slot \ {s} : trail'[q] = trail[q]
  BY <1>1, <1>2 DEF TraceTypeOK
<1>7. /\ DOMAIN trail'[s] = 1 .. n + 1 /\ trail'[s][n + 1] = x
      /\ \A j \in 1 .. n : trail'[s][j] = trail[s][j]
      /\ trail'[s] \in Seq(Reports)
  BY <1>3, <1>5, <1>6
<1>8. TraceTypeOK'
  BY <1>1, <1>2, <1>7 DEF TraceTypeOK
<1> QED
  BY <1>1, <1>4, <1>5, <1>6, <1>7, <1>8

\* The other steps leave the reports alone, but for an event that is dropped.
LEMMA OtherEffect ==
  ASSUME TraceTypeOK, NEW t \in Thread, ReportDropped(t) \/ Exit(t) \/ Trace(t)
  PROVE  /\ UNCHANGED <<vars, trail>> /\ TraceTypeOK'
         /\ hook' = hook \/ hook' = [hook EXCEPT ![t] = NoEvent]
<1>1. /\ UNCHANGED <<vars, trail, logged>>
      /\ hook' = hook \/ hook' = [hook EXCEPT ![t] = NoEvent]
  BY DEF ReportDropped, Exit, Trace, Announce, Tr!RecordNothing, Tr!vars, Tr!FlushThread,
     Tr!anam_trace_init, Tr!anam_trace_shutdown
<1> QED
  BY <1>1 DEF TraceTypeOK
\* The types are kept.
LEMMA TraceTypeStep ==
  ASSUME TypeInv, TraceTypeOK, [TNext]_tvars
  PROVE  TraceTypeOK'
<1>1. ASSUME NEW t \in Thread, PoolStep(t) PROVE TraceTypeOK'
  <2>1. UNCHANGED <<logged, trail>>
    BY <1>1, WhatIsReported
  <2> SUFFICES hook' \in [Thread -> EventSet \cup {NoEvent}]
    BY <2>1 DEF TraceTypeOK
  <2>2. issued \subseteq Issuable
    BY DEF TypeInv, TypeOK
  <2>3. CASE AllocCount(t) /\ hook' = [hook EXCEPT ![t] = Event("alloc", Issued(t))]
    <3>1. Issued(t) \in Issuable
      BY <2>3, IssuedFields DEF AllocCount, Goto, Popped
    <3> QED
      BY <2>3, <3>1, EventFields DEF TraceTypeOK, Ops
  <2>4. CASE ReleaseBump(t) /\ hook' = [hook EXCEPT ![t] = Event("release", arg[t])]
    <3>1. arg[t] \in Issuable
      BY <2>4 DEF ReleaseBump, Goto, TypeInv, PendingOK, Releasing
    <3> QED
      BY <2>4, <3>1, EventFields DEF TraceTypeOK, Ops
  <2> QED
    BY <1>1, <2>2, <2>3, <2>4, WhatIsReported, EventFields DEF TraceTypeOK, Ops
<1>2. ASSUME NEW t \in Thread, Report(t) PROVE TraceTypeOK'
  BY <1>2, ReportEffect
<1>3. ASSUME NEW t \in Thread, ReportDropped(t) \/ Exit(t) \/ Trace(t) PROVE TraceTypeOK'
  BY <1>3, OtherEffect
<1>4. CASE UNCHANGED tvars
  BY <1>4 DEF tvars, tracer, TraceTypeOK
<1> QED
  BY <1>1, <1>2, <1>3, <1>4 DEF TNext

\* The client rules keep two calls off one handle.
LEMMA ArgsStep ==
  ASSUME ExclusiveRelease, ExclusiveUse, TypeOK, ArgsApart, [Next]_vars
  PROVE  ArgsApart'
<1> USE DEF ArgsApart, Goto, pool, stats, locals, ghost
<1>0. arg \in [Thread -> Issuable \cup {NoRef, Foreign, Untagged}]
  BY DEF TypeOK
<1>1. CASE UNCHANGED vars
  BY <1>1 DEF vars
<1>2. ASSUME NEW t \in Thread, AllocStep(t) PROVE ArgsApart'
  BY <1>2 DEF AllocStep, AllocLoadHead, AllocFail, AllocLoadNext, AllocPop, AllocRetry,
     AllocLoadGen, AllocLoadMax, AllocRaiseMax, AllocClearNext, AllocSlotsFree, AllocCount,
     AllocReturn
<1>3. ASSUME NEW t \in Thread, ReleaseStep(t) PROVE ArgsApart'
  BY <1>0, <1>3 DEF ReleaseStep, ReleaseValidate, ReleaseBump, ReleaseZero, ReleaseLoadHead,
     ReleaseLink, ReleasePush, ReleaseRetry, ReleaseSlotsFree, ReleaseReturn
<1>4. ASSUME NEW t \in Thread, Expose(t) PROVE ArgsApart'
  BY <1>0, <1>4 DEF Expose
<1>5. ASSUME NEW t \in Thread, ClientStep(t) PROVE ArgsApart'
  BY <1>0, <1>5 DEF ClientStep, AllocCall, ReleaseCall, MayRelease, GetValid, GetStale, MayGet, Use
<1> QED
  BY <1>1, <1>2, <1>3, <1>4, <1>5 DEF Next

\* A thread has no second step before it has reported the first.
LEMMA HookStep ==
  ASSUME NoWrap, IInv, LifeInv, [TNext]_tvars
  PROVE  HookInv'
<1> USE DEF About
<1>0. /\ TypeInv /\ TypeOK /\ TraceTypeOK /\ HookInv
      /\ hook \in [Thread -> EventSet \cup {NoEvent}]
  BY DEF LifeInv, IInv, TypeInv, TraceTypeOK
<1>1. ASSUME UNCHANGED <<pc, old_head, inc, ptr, arg, issued>>,
             NEW t \in Thread, hook' = hook \/ hook' = [hook EXCEPT ![t] = NoEvent]
      PROVE  HookInv'
  BY <1>0, <1>1, EventFields DEF HookInv
<1>2. CASE UNCHANGED tvars
  BY <1>0, <1>2 DEF tvars, vars, pool, locals, ghost, HookInv
<1>3. ASSUME NEW t \in Thread, Report(t) \/ ReportDropped(t) \/ Exit(t) \/ Trace(t) PROVE HookInv'
  BY <1>0, <1>1, <1>3, ReportEffect, OtherEffect DEF vars, locals, ghost
<1>4. ASSUME NEW t \in Thread, PoolStep(t) PROVE HookInv'
  <2>0. /\ pc \in [Thread -> PC] /\ old_head \in [Thread -> FreeHandle \cup {ANAM_NULL}]
        /\ arg \in [Thread -> Issuable \cup {NoRef, Foreign, Untagged}]
        /\ ptr \in [Thread -> Issuable \cup {NoRef}] /\ issued \subseteq Issuable
        /\ inc \in [Slot -> Nat]
    BY <1>0 DEF TypeOK
  <2>1. hook[t] = NoEvent
    BY <1>0, <1>4, WhatIsReported
  <2>2. CASE AllocCount(t) /\ hook' = [hook EXCEPT ![t] = Event("alloc", Issued(t))]
    <3>1. pc[t] \in Popped
      BY <2>2 DEF AllocCount, Goto, Popped
    <3>2. /\ hook'[t].op = "alloc" /\ hook'[t].slot = old_head[t].slot
          /\ hook'[t].inc = inc[old_head[t].slot]
      BY <1>0, <2>2, <3>1, IssuedFields, EventFields
    <3>3. /\ pc' = [pc EXCEPT ![t] = "a_ret"] /\ UNCHANGED <<old_head, inc, ptr, arg, issued>>
      BY <2>2 DEF AllocCount, Goto, locals, ghost
    <3>4. \A u \in Thread \ {t} : hook'[u] = hook[u] /\ pc'[u] = pc[u]
      BY <1>0, <2>0, <2>2, <3>3
    <3> QED
      BY <1>0, <2>0, <3>2, <3>3, <3>4 DEF HookInv
  <2>3. CASE ReleaseBump(t) /\ hook' = [hook EXCEPT ![t] = Event("release", arg[t])]
    <3> DEFINE s == arg[t].h.slot
    <3>1. pc[t] = "r_bump" /\ arg[t] \in issued /\ s \in Slot /\ arg[t].inc = inc[s]
      BY <2>3, IssuableFields DEF ReleaseBump, Goto, IInv, TypeInv, TypeOK, ReleaseInv, Releasing
    <3>2. status[s] = "live"
      BY <3>1 DEF IInv, IssuedInv
    <3>3. hook'[t].op = "release" /\ About(hook'[t], arg[t])
      BY <1>0, <2>3, EventFields
    <3>4. /\ pc' = [pc EXCEPT ![t] = "r_zero"] /\ inc' = [inc EXCEPT ![s] = inc[s] + 1]
          /\ UNCHANGED <<old_head, ptr, arg, issued>>
      BY <2>3 DEF ReleaseBump, Goto, locals
    <3>5. \A u \in Thread \ {t} : hook'[u] = hook[u] /\ pc'[u] = pc[u]
      BY <1>0, <2>0, <2>3, <3>4
    <3>6. \A u \in Thread : hook[u].op = "alloc" => inc'[hook[u].slot] = inc[hook[u].slot]
      <4> SUFFICES ASSUME NEW u \in Thread, hook[u].op = "alloc" PROVE inc'[hook[u].slot] = inc[hook[u].slot]
        OBVIOUS
      <4>1. hook[u].slot = old_head[u].slot /\ pc[u] = "a_ret"
        BY <1>0 DEF HookInv
      <4>2. status[hook[u].slot] = "taken"
        BY <4>1 DEF IInv, PopInv, Popped
      <4>3. hook[u].slot \in Slot /\ hook[u].slot # s
        BY <1>0, <3>2, <4>2, EventFields
      <4> QED
        BY <2>0, <3>4, <4>3
    <3>7. \A u \in Thread : hook[u].op = "get_stale" =>
                              hook[u].inc < inc[hook[u].slot] /\ hook[u].inc < inc'[hook[u].slot]
      <4> SUFFICES ASSUME NEW u \in Thread, hook[u].op = "get_stale"
                   PROVE  hook[u].inc < inc[hook[u].slot] /\ hook[u].inc < inc'[hook[u].slot]
        OBVIOUS
      <4>1. hook[u].slot \in Slot /\ hook[u].inc \in Nat /\ hook[u].inc < inc[hook[u].slot]
        BY <1>0, EventFields DEF HookInv
      <4> QED
        BY <2>0, <3>1, <3>4, <4>1
    <3> QED
      BY <1>0, <2>0, <3>3, <3>4, <3>5, <3>6, <3>7 DEF HookInv
  <2>4. ASSUME NEW r \in issued, GetValid(t, r), hook' = [hook EXCEPT ![t] = Event("get_valid", r)]
        PROVE  HookInv'
    <3>1. hook'[t].op = "get_valid" /\ About(hook'[t], r) /\ r # NoRef
      BY <1>0, <2>0, <2>4, EventFields, IssuableFields
    <3>2. /\ pc[t] = "idle" /\ pc' = pc /\ ptr' = [ptr EXCEPT ![t] = r]
          /\ UNCHANGED <<old_head, inc, arg, issued>>
      BY <2>0, <2>4 DEF GetValid, Goto, locals, ghost
    <3>3. \A u \in Thread \ {t} : hook'[u] = hook[u] /\ ptr'[u] = ptr[u]
      BY <1>0, <2>0, <2>4, <3>2
    <3> QED
      BY <1>0, <2>0, <3>1, <3>2, <3>3 DEF HookInv
  <2>5. ASSUME NEW r \in issued, GetStale(t, r), hook' = [hook EXCEPT ![t] = Event("get_stale", r)]
        PROVE  HookInv'
    <3>1. hook'[t].op = "get_stale" /\ About(hook'[t], r)
      BY <1>0, <2>5, EventFields
    <3>2. /\ pc[t] = "idle" /\ pc' = [pc EXCEPT ![t] = "expose"] /\ arg' = [arg EXCEPT ![t] = r]
          /\ UNCHANGED <<old_head, inc, ptr, issued>>
      BY <2>5 DEF GetStale, Goto, locals, ghost
    <3>3. \A u \in Thread \ {t} : hook'[u] = hook[u] /\ arg'[u] = arg[u] /\ pc'[u] = pc[u]
      BY <1>0, <2>0, <2>5, <3>2
    <3>4. r.inc < inc[r.h.slot]
      <4>1. r \in Issuable /\ ~Rejected(r.h) /\ r.h.slot \in Slot /\ r.inc \in Nat
        BY <2>0, IssuableFields
      <4>2. generation[r.h.slot] # r.h.gen
        BY <2>5, <4>1 DEF GetStale, Validated
      <4>3. r.h.gen = r.inc /\ r.inc <= inc[r.h.slot] /\ generation[r.h.slot] = inc[r.h.slot]
        BY <4>1 DEF IInv, IssuedInv, GenerationInv
      <4>4. inc[r.h.slot] \in Nat
        BY <2>0, <4>1
      <4> QED
        BY <4>1, <4>2, <4>3, <4>4
    <3> QED
      BY <1>0, <2>0, <3>1, <3>2, <3>3, <3>4 DEF HookInv
  <2>6. CASE Quiet(t) /\ UNCHANGED hook
    <3>1. hook'[t].op = "none"
      BY <2>1, <2>6, EventFields
    <3>2. /\ issued \subseteq issued' /\ inc' = inc
          /\ \A u \in Thread \ {t} : /\ pc'[u] = pc[u] /\ old_head'[u] = old_head[u]
                                     /\ arg'[u] = arg[u] /\ ptr'[u] = ptr[u]
      BY <2>0, <2>6 DEF Quiet, AllocLoadHead, AllocFail, AllocLoadNext, AllocPop, AllocRetry,
         AllocLoadGen, AllocLoadMax, AllocRaiseMax, AllocClearNext, AllocSlotsFree, AllocReturn,
         ReleaseValidate, ReleaseZero, ReleaseLoadHead, ReleaseLink, ReleasePush, ReleaseRetry,
         ReleaseSlotsFree, ReleaseReturn, Expose, AllocCall, ReleaseCall, Use, Goto, pool, stats,
         locals, ghost
    <3> QED
      BY <1>0, <2>6, <3>1, <3>2 DEF HookInv
  <2> QED
    BY <1>0, <1>4, <2>2, <2>3, <2>4, <2>5, <2>6, WhatIsReported
<1> QED
  BY <1>2, <1>3, <1>4 DEF TNext
\* What a report that stands behind the hook of a thread may be about.
LEMMA HookMeaning ==
  ASSUME NoWrap, IInv, PointerInv, LifeInv, NEW t \in Thread, hook[t] \in EventSet
  PROVE  LET e == hook[t] IN
         /\ e.slot \in Slot /\ e.inc \in Nat /\ inc[e.slot] \in Nat
         /\ e.op = "alloc" => e.inc = inc[e.slot] /\ status[e.slot] = "taken"
                                /\ pc[t] = "a_ret" /\ old_head[t].slot = e.slot
         /\ e.op = "get_valid" => e.inc = inc[e.slot] /\ status[e.slot] = "live"
         /\ e.op = "release" => e.inc + 1 = inc[e.slot] /\ status[e.slot] = "retired"
                                  /\ pc[t] = "r_zero" /\ About(e, arg[t])
         /\ e.op = "get_stale" => e.inc < inc[e.slot] /\ arg[t] \in issued /\ About(e, arg[t])
<1> DEFINE e == hook[t]
<1>0. HookInv /\ TypeOK
  BY DEF LifeInv, IInv, TypeInv
<1>1. e.slot \in Slot /\ e.inc \in Nat /\ inc[e.slot] \in Nat
  BY <1>0, EventFields DEF TypeOK
<1>2. ASSUME e.op = "alloc"
      PROVE  e.inc = inc[e.slot] /\ status[e.slot] = "taken" /\ pc[t] = "a_ret" /\ old_head[t].slot = e.slot
  <2>1. pc[t] = "a_ret" /\ old_head[t].slot = e.slot /\ e.inc = inc[e.slot]
    BY <1>0, <1>2 DEF HookInv
  <2> QED
    BY <2>1 DEF IInv, PopInv, Popped
<1>3. ASSUME e.op = "get_valid" PROVE e.inc = inc[e.slot] /\ status[e.slot] = "live"
  <2>1. ptr[t] # NoRef /\ About(e, ptr[t])
    BY <1>0, <1>3 DEF HookInv
  <2>2. ptr[t] \in issued /\ ptr[t].inc = inc[ptr[t].h.slot]
    BY <2>1 DEF PointerInv
  <2> QED
    BY <2>1, <2>2 DEF IInv, IssuedInv, About
<1>4. ASSUME e.op = "release"
      PROVE  e.inc + 1 = inc[e.slot] /\ status[e.slot] = "retired" /\ pc[t] = "r_zero" /\ About(e, arg[t])
  <2>1. pc[t] = "r_zero" /\ About(e, arg[t])
    BY <1>0, <1>4 DEF HookInv
  <2> QED
    BY <2>1 DEF IInv, ReleaseInv, Pushing, About
<1>5. e.op = "get_stale" => e.inc < inc[e.slot] /\ arg[t] \in issued /\ About(e, arg[t])
  BY <1>0 DEF HookInv
<1> QED
  BY <1>1, <1>2, <1>3, <1>4, <1>5

\* A release and a stale read of one incarnation are not both on their way to the
\* trace, nor are two releases of it.
LEMMA ReportsApart ==
  ASSUME NoWrap, IInv, PointerInv, LifeInv, NEW t \in Thread, NEW u \in Thread \ {t},
         hook[t] \in EventSet, hook[u] \in EventSet, hook[u].op = "release",
         hook[t].slot = hook[u].slot, hook[t].inc = hook[u].inc
  PROVE  hook[t].op = "get_valid"
<1>0. hook[t].op \in Ops
  BY EventFields
<1>1. /\ hook[u].inc \in Nat /\ hook[u].inc + 1 = inc[hook[u].slot] /\ pc[u] = "r_zero"
      /\ About(hook[u], arg[u])
  BY HookMeaning
<1>2. hook[t].op # "alloc"
  BY <1>1, HookMeaning
<1>3. arg[u] \in issued
  BY <1>1 DEF IInv, ReleaseInv, Releasing, Pushing
<1>4. ASSUME arg[t] \in issued, About(hook[t], arg[t]) PROVE FALSE
  <2>1. arg[t] \in Issuable /\ arg[u] \in Issuable
    BY <1>3, <1>4 DEF IInv, TypeInv, TypeOK
  <2>2. arg[t].h.gen = arg[t].inc /\ arg[u].h.gen = arg[u].inc
    BY <1>3, <1>4 DEF IInv, IssuedInv
  <2>3. arg[t] = arg[u]
    BY <1>1, <1>4, <2>1, <2>2, SameRef DEF About
  <2>4. arg[t] # NoRef
    BY <2>1, IssuableFields
  <2> QED
    BY <2>3, <2>4 DEF LifeInv, ArgsApart
<1>5. hook[t].op # "get_stale"
  BY <1>4, HookMeaning
<1>6. hook[t].op # "release"
  <2> SUFFICES ASSUME hook[t].op = "release" PROVE FALSE
    OBVIOUS
  <2>1. pc[t] = "r_zero" /\ About(hook[t], arg[t])
    BY HookMeaning
  <2>2. arg[t] \in issued
    BY <2>1 DEF IInv, ReleaseInv, Releasing, Pushing
  <2> QED
    BY <1>4, <2>1, <2>2
<1> QED
  BY <1>0, <1>2, <1>5, <1>6 DEF Ops

\* Steps of the pool keep what has been reported true.
LEMMA EntryStep ==
  ASSUME NoWrap, ExclusiveRelease, IInv, PointerInv, LifeInv, NEW t \in Thread, PoolStep(t),
         NEW s \in Slot, NEW a \in EventSet, EntryOK(s, a)
  PROVE  EntryOK(s, a)'
<1>0. /\ pc \in [Thread -> PC] /\ old_head \in [Thread -> FreeHandle \cup {ANAM_NULL}]
      /\ status \in [Slot -> {"free", "taken", "live", "retired"}] /\ inc \in [Slot -> Nat]
      /\ hook \in [Thread -> EventSet \cup {NoEvent}] /\ a.inc \in Nat
  BY EventFields DEF IInv, TypeInv, TypeOK, LifeInv, TraceTypeOK
<1>1. hook[t] = NoEvent /\ hook[t].op = "none"
  BY WhatIsReported, EventFields DEF LifeInv
<1> DEFINE Settled == a.op \in {"alloc", "get_valid"} /\ status[s] \in {"taken", "live"} /\ Reported(s)
<1>2. a.inc <= inc[s] /\ (a.inc = inc[s] => Settled)
  BY DEF EntryOK
<1>3. \A u \in Thread : hook[u].op = "release" /\ hook[u].slot = s /\ a.inc = hook[u].inc
                          => a.op \in {"alloc", "get_valid"}
  BY DEF EntryOK
<1>4. ASSUME inc' = inc, hook' = [hook EXCEPT ![t] = hook'[t]], hook'[t].op # "release",
             Settled => status'[s] \in {"taken", "live"} /\ Reported(s)'
      PROVE  EntryOK(s, a)'
  <2>1. a.inc <= inc'[s] /\ (a.inc = inc'[s] => Settled')
    BY <1>2, <1>4
  <2>2. \A u \in Thread : hook'[u].op = "release" /\ hook'[u].slot = s /\ a.inc = hook'[u].inc
                            => a.op \in {"alloc", "get_valid"}
    BY <1>0, <1>3, <1>4
  <2> QED
    BY <2>1, <2>2 DEF EntryOK
<1>5. CASE AllocCount(t) /\ hook' = [hook EXCEPT ![t] = Event("alloc", Issued(t))]
  <2>1. /\ pc[t] = "a_count" /\ pc' = [pc EXCEPT ![t] = "a_ret"]
        /\ UNCHANGED <<old_head, status, inc>>
    BY <1>5 DEF AllocCount, Goto, locals, ghost
  <2>2. hook'[t].op = "alloc" /\ hook' = [hook EXCEPT ![t] = hook'[t]]
    BY <1>0, <1>5, EventFields
  <2>3. Settled => old_head[t].slot # s
    BY <2>1 DEF Reported, Popped
  <2>4. Settled => Reported(s)'
    BY <1>0, <2>1, <2>2, <2>3 DEF Reported
  <2> QED
    BY <1>4, <2>1, <2>2, <2>4
<1>6. CASE ReleaseBump(t) /\ hook' = [hook EXCEPT ![t] = Event("release", arg[t])]
  <2> DEFINE q == arg[t].h.slot
  <2>1. pc[t] = "r_bump" /\ arg[t] \in issued /\ q \in Slot /\ arg[t].inc = inc[q]
    BY <1>6, IssuableFields DEF ReleaseBump, Goto, IInv, TypeInv, TypeOK, ReleaseInv, Releasing
  <2>2. /\ pc' = [pc EXCEPT ![t] = "r_zero"] /\ inc' = [inc EXCEPT ![q] = inc[q] + 1]
        /\ status' = [status EXCEPT ![q] = "retired"] /\ UNCHANGED old_head
    BY <1>6 DEF ReleaseBump, Goto, locals
  <2>3. hook'[t].op = "release" /\ hook'[t].slot = q /\ hook'[t].inc = inc[q]
    BY <1>0, <1>6, <2>1, EventFields DEF About
  <2>4. \A u \in Thread \ {t} : hook'[u] = hook[u]
    BY <1>0, <1>6
  <2>5. \A u \in Thread : hook'[u].op = "release" /\ hook'[u].slot = s /\ a.inc = hook'[u].inc
                            => a.op \in {"alloc", "get_valid"}
    BY <1>2, <1>3, <2>3, <2>4
  <2>6. CASE s = q
    <3>1. a.inc <= inc'[s] /\ a.inc # inc'[s]
      BY <1>0, <1>2, <2>1, <2>2, <2>6
    <3> QED
      BY <2>5, <3>1 DEF EntryOK
  <2>7. CASE s # q
    <3>1. inc'[s] = inc[s] /\ status'[s] = status[s]
      BY <1>0, <2>1, <2>2, <2>7
    <3>2. Reported(s) => Reported(s)'
      BY <1>0, <2>2, <2>4 DEF Reported, Popped
    <3> QED
      BY <1>2, <2>5, <3>1, <3>2 DEF EntryOK
  <2> QED
    BY <2>6, <2>7
<1>7. ASSUME NEW r \in issued, \/ GetValid(t, r) /\ hook' = [hook EXCEPT ![t] = Event("get_valid", r)]
                               \/ GetStale(t, r) /\ hook' = [hook EXCEPT ![t] = Event("get_stale", r)]
      PROVE  EntryOK(s, a)'
  <2>1. /\ pc' = [pc EXCEPT ![t] = pc'[t]] /\ pc'[t] \notin Popped /\ UNCHANGED <<old_head, status, inc>>
    BY <1>0, <1>7 DEF GetValid, GetStale, Goto, locals, ghost, Popped
  <2>2. hook'[t].op # "release" /\ hook' = [hook EXCEPT ![t] = hook'[t]]
    BY <1>0, <1>7, EventFields
  <2>3. Reported(s) => Reported(s)'
    BY <1>0, <2>1, <2>2 DEF Reported
  <2> QED
    BY <1>4, <2>1, <2>2, <2>3
<1>8. CASE Quiet(t) /\ UNCHANGED hook
  <2>0. inc' = inc /\ hook' = [hook EXCEPT ![t] = hook'[t]] /\ hook'[t].op # "release"
    <3>1. inc' = inc
      BY <1>8 DEF Quiet, AllocLoadHead, AllocFail, AllocLoadNext, AllocPop, AllocRetry,
         AllocLoadGen, AllocLoadMax, AllocRaiseMax, AllocClearNext, AllocSlotsFree, AllocReturn,
         ReleaseValidate, ReleaseZero, ReleaseLoadHead, ReleaseLink, ReleasePush, ReleaseRetry,
         ReleaseSlotsFree, ReleaseReturn, Expose, AllocCall, ReleaseCall, Use, ghost
    <3> QED
      BY <1>0, <1>1, <1>8, <3>1
  <2> SUFFICES ASSUME Settled PROVE status'[s] \in {"taken", "live"} /\ Reported(s)'
    BY <1>4, <2>0
  <2>1. CASE AllocPop(t)
    <3>1. old_head[t].slot \in Slot /\ status[old_head[t].slot] = "free"
      BY <2>1, FreeHandleFields DEF AllocPop, Goto, IInv, TypeInv, PendingOK, Owning, FreeListInv
    <3>2. old_head[t].slot # s
      BY <3>1
    <3>3. /\ pc' = [pc EXCEPT ![t] = "a_gen"] /\ UNCHANGED old_head
          /\ status' = [status EXCEPT ![old_head[t].slot] = "taken"]
      BY <2>1 DEF AllocPop, Goto
    <3> QED
      BY <1>0, <1>8, <3>1, <3>2, <3>3 DEF Reported
  <2>2. CASE AllocReturn(t)
    <3>1. old_head[t].slot \in Slot
      BY <2>2, FreeHandleFields DEF AllocReturn, Goto, IInv, TypeInv, PendingOK, Owning, Popped
    <3>2. /\ pc' = [pc EXCEPT ![t] = "idle"] /\ old_head' = [old_head EXCEPT ![t] = ANAM_NULL]
          /\ status' = [status EXCEPT ![old_head[t].slot] = "live"]
      BY <2>2 DEF AllocReturn, Goto
    <3> QED
      BY <1>0, <1>8, <3>1, <3>2 DEF Reported, Popped
  <2>3. CASE ReleasePush(t)
    <3>1. arg[t].h.slot \in Slot /\ status[arg[t].h.slot] = "retired"
      BY <2>3, IssuableFields DEF ReleasePush, Goto, IInv, TypeInv, PendingOK, Releasing, Pushing, ReleaseInv
    <3>2. /\ pc' = [pc EXCEPT ![t] = "r_free"] /\ UNCHANGED old_head
          /\ status' = [status EXCEPT ![arg[t].h.slot] = "free"]
      BY <2>3 DEF ReleasePush, Goto, locals
    <3> QED
      BY <1>0, <1>8, <3>1, <3>2 DEF Reported, Popped
  <2>4. CASE AllocLoadGen(t) \/ AllocLoadMax(t) \/ AllocRaiseMax(t) \/ AllocClearNext(t) \/ AllocSlotsFree(t)
    <3>1. /\ pc[t] \in Popped /\ pc[t] # "a_ret" /\ pc' = [pc EXCEPT ![t] = pc'[t]]
          /\ UNCHANGED <<old_head, status>>
      BY <1>0, <2>4 DEF AllocLoadGen, AllocLoadMax, AllocRaiseMax, AllocClearNext, AllocSlotsFree,
         Goto, Popped, locals, ghost
    <3>2. old_head[t].slot # s
      BY <3>1 DEF Reported
    <3> QED
      BY <1>0, <1>8, <3>1, <3>2 DEF Reported
  <2>5. CASE \/ AllocLoadHead(t) \/ AllocFail(t) \/ AllocLoadNext(t) \/ AllocRetry(t)
             \/ ReleaseValidate(t) \/ ReleaseZero(t) \/ ReleaseLoadHead(t) \/ ReleaseLink(t)
             \/ ReleaseRetry(t) \/ ReleaseSlotsFree(t) \/ ReleaseReturn(t)
             \/ Expose(t) \/ AllocCall(t) \/ (\E r \in issued : ReleaseCall(t, r)) \/ Use(t)
    <3>1. /\ pc'[t] \notin Popped /\ UNCHANGED status
          /\ \A u \in Thread \ {t} : pc'[u] = pc[u] /\ old_head'[u] = old_head[u]
      BY <1>0, <2>5 DEF AllocLoadHead, AllocFail, AllocLoadNext, AllocRetry, ReleaseValidate,
         ReleaseZero, ReleaseLoadHead, ReleaseLink, ReleaseRetry, ReleaseSlotsFree, ReleaseReturn,
         Expose, AllocCall, ReleaseCall, Use, Goto, Popped, locals, ghost
    <3> QED
      BY <1>0, <1>8, <3>1 DEF Reported
  <2> QED
    BY <1>8, <2>1, <2>2, <2>3, <2>4, <2>5 DEF Quiet
<1> QED
  BY <1>5, <1>6, <1>7, <1>8, WhatIsReported DEF LifeInv
\* The entries of a trail are events.
LEMMA TrailEvents ==
  ASSUME TraceTypeOK, NEW s \in Slot, NEW j \in DOMAIN trail[s]
  PROVE  trail[s][j].event \in EventSet /\ DOMAIN trail[s] = 1 .. Len(trail[s]) /\ Len(trail[s]) \in Nat
<1>1. trail[s] \in Seq(Reports)
  BY DEF TraceTypeOK
<1>2. DOMAIN trail[s] = 1 .. Len(trail[s]) /\ trail[s][j] \in Reports /\ Len(trail[s]) \in Nat
  BY <1>1
<1> QED
  BY <1>2 DEF Reports

\* What a thread reports is true when it reports it, and the reports of others
\* that were true stay true.
LEMMA TrailStep ==
  ASSUME NoWrap, ExclusiveRelease, IInv, PointerInv, LifeInv, [TNext]_tvars
  PROVE  TrailInv'
<1>0. TrailInv /\ TraceTypeOK /\ hook \in [Thread -> EventSet \cup {NoEvent}]
  BY DEF LifeInv, TraceTypeOK
<1>1. ASSUME NEW t \in Thread, PoolStep(t) PROVE TrailInv'
  <2>1. trail' = trail
    BY <1>0, <1>1, WhatIsReported
  <2> SUFFICES ASSUME NEW s \in Slot, NEW j \in DOMAIN trail[s] PROVE EntryOK(s, trail[s][j].event)'
    BY <2>1 DEF TrailInv
  <2>2. PICK a \in EventSet : a = trail[s][j].event
    BY <1>0, TrailEvents
  <2>3. EntryOK(s, a)'
    BY <1>0, <1>1, <2>2, EntryStep DEF TrailInv
  <2> QED
    BY <2>1, <2>2, <2>3
<1>2. ASSUME NEW t \in Thread, UNCHANGED vars, hook' = hook \/ hook' = [hook EXCEPT ![t] = NoEvent],
             NEW s \in Slot, NEW a, EntryOK(s, a)
      PROVE  EntryOK(s, a)'
  <2>1. UNCHANGED <<inc, status, pc, old_head>>
    BY <1>2 DEF vars, locals, ghost
  <2>2. Reported(s) => Reported(s)'
    BY <1>0, <1>2, <2>1 DEF Reported
  <2>3. \A u \in Thread : hook'[u].op = "release" => hook'[u] = hook[u]
    BY <1>0, <1>2, EventFields
  <2> QED
    BY <1>2, <2>1, <2>2, <2>3 DEF EntryOK
<1>3. ASSUME NEW t \in Thread, UNCHANGED <<vars, trail>>,
             hook' = hook \/ hook' = [hook EXCEPT ![t] = NoEvent]
      PROVE  TrailInv'
  <2> SUFFICES ASSUME NEW s \in Slot, NEW j \in DOMAIN trail[s] PROVE EntryOK(s, trail[s][j].event)'
    BY <1>3 DEF TrailInv
  <2>1. PICK a : a = trail[s][j].event
    OBVIOUS
  <2>2. EntryOK(s, a)'
    BY <1>0, <1>2, <1>3, <2>1 DEF TrailInv
  <2> QED
    BY <1>3, <2>1, <2>2
<1>4. ASSUME NEW t \in Thread, Report(t) PROVE TrailInv'
  <2>1. PICK e, s, n : e = hook[t] /\ s = hook[t].slot /\ n = Len(trail[s])
    OBVIOUS
  <2>2. /\ e \in EventSet /\ hook' = [hook EXCEPT ![t] = NoEvent] /\ UNCHANGED vars
        /\ n \in Nat /\ DOMAIN trail[s] = 1 .. n /\ DOMAIN trail'[s] = 1 .. n + 1
        /\ trail'[s][n + 1].event = e
        /\ \A j \in 1 .. n : trail'[s][j] = trail[s][j]
        /\ \A q \in Slot \ {s} : trail'[q] = trail[q]
    BY <1>0, <1>4, <2>1, ReportEffect
  <2>3. UNCHANGED <<inc, status, pc, old_head>>
    BY <2>2 DEF vars, locals, ghost
  <2>4. e.op \in Ops /\ s \in Slot /\ e.inc \in Nat /\ inc[s] \in Nat
    BY <2>1, <2>2, HookMeaning, EventFields
  <2>5. EntryOK(s, e)'
    <3>1. e.inc <= inc[s] /\ (e.inc = inc[s] => e.op \in {"alloc", "get_valid"})
      BY <2>1, <2>2, <2>4, HookMeaning DEF Ops
    <3>2. e.op \in {"alloc", "get_valid"} => status[s] \in {"taken", "live"} /\ Reported(s)'
      <4>1. CASE e.op = "alloc"
        <5>1. status[s] = "taken" /\ pc[t] = "a_ret" /\ old_head[t].slot = s
          BY <2>1, <2>2, <4>1, HookMeaning
        <5>2. \A u \in Thread \ {t} : pc[u] \in Popped => old_head[u].slot # s
          BY <5>1 DEF IInv, PopInv, Popped
        <5> QED
          BY <1>0, <2>2, <2>3, <5>1, <5>2 DEF Reported
      <4>2. CASE e.op = "get_valid"
        <5>1. status[s] = "live"
          BY <2>1, <2>2, <4>2, HookMeaning
        <5>2. \A u \in Thread : pc[u] \in Popped => old_head[u].slot # s
          BY <5>1 DEF IInv, PopInv
        <5> QED
          BY <2>3, <5>1, <5>2 DEF Reported
      <4> QED
        BY <4>1, <4>2
    <3>3. \A u \in Thread : hook'[u].op = "release" /\ hook'[u].slot = s /\ e.inc = hook'[u].inc
                              => e.op \in {"alloc", "get_valid"}
      <4> SUFFICES ASSUME NEW u \in Thread, hook'[u].op = "release", hook'[u].slot = s, e.inc = hook'[u].inc
                   PROVE  e.op = "get_valid"
        OBVIOUS
      <4>1. u # t /\ hook'[u] = hook[u]
        BY <1>0, <2>2, EventFields
      <4>2. hook[u] \in EventSet
        BY <1>0, <4>1, EventFields
      <4> QED
        BY <2>1, <2>2, <4>1, <4>2, ReportsApart
    <3> QED
      BY <2>3, <3>1, <3>2, <3>3 DEF EntryOK
  <2>6. ASSUME NEW q \in Slot, NEW j \in DOMAIN trail[q] PROVE EntryOK(q, trail[q][j].event)'
    <3>1. PICK a : a = trail[q][j].event
      OBVIOUS
    <3>2. EntryOK(q, a)'
      BY <1>0, <1>2, <2>2, <3>1 DEF TrailInv
    <3>3. trail'[q][j] = trail[q][j]
      BY <2>2
    <3> QED
      BY <3>1, <3>2, <3>3
  <2> SUFFICES ASSUME NEW q \in Slot, NEW j \in DOMAIN trail'[q] PROVE EntryOK(q, trail[q][j].event)'
    BY DEF TrailInv
  <2>7. CASE q = s /\ j = n + 1
    BY <2>2, <2>5, <2>7
  <2>8. CASE ~ (q = s /\ j = n + 1)
    <3>1. j \in DOMAIN trail[q]
      BY <2>2, <2>8
    <3> QED
      BY <2>6, <3>1
  <2> QED
    BY <2>7, <2>8
<1>5. ASSUME NEW t \in Thread, ReportDropped(t) \/ Exit(t) \/ Trace(t) PROVE TrailInv'
  BY <1>0, <1>3, <1>5, OtherEffect
<1>6. CASE UNCHANGED tvars
  BY <1>0, <1>6 DEF tvars, vars, locals, ghost, TrailInv, EntryOK, Reported
<1> QED
  BY <1>1, <1>4, <1>5, <1>6 DEF TNext
-----------------------------------------------------------------------------
(* The theorem *)

\* b may follow a in the trail of a slot.
Follows(a, b) ==
  \/ b.op = "get_stale"
  \/ Moment(a) < Moment(b)
  \/ a.op = "get_valid" /\ b.op = "get_valid" /\ a.inc = b.inc

\* Moments of one incarnation come before those of the next.
LEMMA MomentOrder ==
  ASSUME NEW a \in EventSet, NEW b \in EventSet
  PROVE  /\ a.inc < b.inc => Moment(a) < Moment(b)
         /\ a.inc = b.inc /\ a.op \in {"alloc", "get_valid"} /\ b.op = "release" => Moment(a) < Moment(b)
         /\ a.inc = b.inc /\ a.op = "alloc" /\ b.op = "get_valid" => Moment(a) < Moment(b)
<1> DEFINE part(e) == CASE e.op = "alloc" -> 0 [] e.op = "get_valid" -> 1 [] OTHER -> 2
<1>1. \A e : /\ part(e) \in 0 .. 2 /\ (e.op = "alloc" => part(e) = 0)
             /\ (e.op = "get_valid" => part(e) = 1) /\ (e.op = "release" => part(e) = 2)
  OBVIOUS
<1>2. Moment(a) = 3 * a.inc + part(a) /\ Moment(b) = 3 * b.inc + part(b)
  BY DEF Moment
<1>3. a.inc \in Nat /\ b.inc \in Nat
  BY EventFields
<1> HIDE DEF part
<1> QED
  BY <1>1, <1>2, <1>3

\* An event that is reported comes after all that its slot has in the trace.
LEMMA ReportFollows ==
  ASSUME NoWrap, IInv, PointerInv, LifeInv, NEW t \in Thread, hook[t] \in EventSet,
         NEW a \in EventSet, EntryOK(hook[t].slot, a)
  PROVE  Follows(a, hook[t])
<1>1. PICK b \in EventSet : b = hook[t]
  OBVIOUS
<1>2. PICK s \in Slot : s = b.slot
  BY EventFields
<1>3. a.inc \in Nat /\ b.inc \in Nat /\ inc[s] \in Nat /\ b.op \in Ops
  BY <1>1, <1>2, HookMeaning, EventFields
<1>4. a.inc <= inc[s] /\ (a.inc = inc[s] =>
                          a.op \in {"alloc", "get_valid"} /\ status[s] \in {"taken", "live"} /\ Reported(s))
  BY <1>1, <1>2 DEF EntryOK
<1>5. CASE b.op = "alloc"
  <2>1. b.inc = inc[s] /\ pc[t] = "a_ret" /\ old_head[t].slot = s /\ hook[t] # NoEvent
    BY <1>1, <1>2, <1>5, HookMeaning, EventFields
  <2>2. ~Reported(s)
    BY <2>1 DEF Reported, Popped
  <2>3. a.inc < b.inc
    BY <1>3, <1>4, <2>1, <2>2
  <2> QED
    BY <1>1, <2>3, MomentOrder DEF Follows
<1>6. CASE b.op = "get_valid"
  <2>1. b.inc = inc[s]
    BY <1>1, <1>2, <1>6, HookMeaning
  <2>2. a.inc < b.inc \/ (a.inc = b.inc /\ a.op \in {"alloc", "get_valid"})
    BY <1>3, <1>4, <2>1
  <2> QED
    BY <1>1, <1>6, <2>2, MomentOrder DEF Follows
<1>7. CASE b.op = "release"
  <2>1. b.inc + 1 = inc[s] /\ status[s] = "retired"
    BY <1>1, <1>2, <1>7, HookMeaning
  <2>2. a.inc <= b.inc
    BY <1>3, <1>4, <2>1
  <2>3. a.inc = b.inc => a.op \in {"alloc", "get_valid"}
    BY <1>1, <1>2, <1>7 DEF EntryOK
  <2>4. a.inc < b.inc \/ (a.inc = b.inc /\ a.op \in {"alloc", "get_valid"})
    BY <1>3, <2>2, <2>3
  <2> QED
    BY <1>1, <1>7, <2>4, MomentOrder DEF Follows
<1>8. CASE b.op = "get_stale"
  BY <1>1, <1>8 DEF Follows
<1> QED
  BY <1>3, <1>5, <1>6, <1>7, <1>8 DEF Ops

\* Only a report adds to a trail, and it adds at its end.
LEMMA TellsStep ==
  ASSUME NoWrap, IInv, PointerInv, LifeInv, TraceTellsLives, [TNext]_tvars
  PROVE  TraceTellsLives'
<1>0. TrailInv /\ TraceTypeOK
  BY DEF LifeInv
<1>1. ASSUME trail' = trail PROVE TraceTellsLives'
  BY <1>1 DEF TraceTellsLives, Moment
<1>2. ASSUME NEW t \in Thread, Report(t) PROVE TraceTellsLives'
  <2> DEFINE s == hook[t].slot
             n == Len(trail[s])
  <2>1. /\ hook[t] \in EventSet
        /\ n \in Nat /\ DOMAIN trail[s] = 1 .. n /\ DOMAIN trail'[s] = 1 .. n + 1
        /\ trail'[s][n + 1].event = hook[t]
        /\ \A j \in 1 .. n : trail'[s][j] = trail[s][j]
        /\ \A q \in Slot \ {s} : trail'[q] = trail[q]
    BY <1>0, <1>2, ReportEffect
  <2>2. \A q \in Slot : \A j \in DOMAIN trail[q] : \A i \in 1 .. j - 1 :
          Follows(trail[q][i].event, trail[q][j].event)
    BY DEF TraceTellsLives, Follows
  <2>3. s \in Slot
    BY <2>1, EventFields
  <2>4. ASSUME NEW i \in 1 .. n PROVE Follows(trail[s][i].event, hook[t])
    <3>1. trail[s][i].event \in EventSet /\ EntryOK(s, trail[s][i].event)
      BY <1>0, <2>1, <2>3, TrailEvents DEF TrailInv
    <3> QED
      BY <2>1, <3>1, ReportFollows
  <2> HIDE DEF s, n
  <2> SUFFICES ASSUME NEW q \in Slot, NEW j \in DOMAIN trail'[q], NEW i \in 1 .. j - 1
               PROVE  Follows(trail'[q][i].event, trail'[q][j].event)
    BY DEF TraceTellsLives, Follows, Moment
  <2>5. CASE q # s
    BY <2>1, <2>2, <2>5
  <2>6. CASE q = s /\ j = n + 1
    <3>1. i \in 1 .. n
      BY <2>1, <2>6
    <3> QED
      BY <2>1, <2>4, <2>6, <3>1
  <2>7. CASE q = s /\ j # n + 1
    <3>1. j \in 1 .. n /\ i \in 1 .. n
      BY <2>1, <2>7
    <3> QED
      BY <2>1, <2>2, <2>7, <3>1
  <2> QED
    BY <2>5, <2>6, <2>7
<1>3. ASSUME NEW t \in Thread, PoolStep(t) \/ ReportDropped(t) \/ Exit(t) \/ Trace(t) PROVE trail' = trail
  BY <1>0, <1>3, WhatIsReported, OtherEffect
<1> QED
  BY <1>1, <1>2, <1>3 DEF TNext, tvars

\* The pool and the tracer begin with nothing to report and nothing reported.
LEMMA LifeInit == TInit => IInv /\ PointerInv /\ LifeInv /\ TraceTellsLives
<1> SUFFICES ASSUME TInit PROVE IInv /\ PointerInv /\ LifeInv /\ TraceTellsLives
  OBVIOUS
<1>1. IInv
  BY IInvInit DEF TInit
<1>2. PointerInv /\ ArgsApart
  BY DEF TInit, Init, PointerInv, ArgsApart
<1>3. \A s \in Slot : trail[s] = <<>> /\ DOMAIN trail[s] = {}
  BY DEF TInit
<1>4. TraceTypeOK
  BY DEF TInit, Tr!Init, TraceTypeOK
<1>5. HookInv
  BY EventFields DEF TInit, HookInv
<1>6. TrailInv /\ TraceTellsLives
  BY <1>3 DEF TrailInv, TraceTellsLives
<1> QED
  BY <1>1, <1>2, <1>4, <1>5, <1>6 DEF LifeInv

\* Sorted by timestamp the trace tells the life of every slot: an incarnation is
\* allocated, read and released in this order and before the next one begins,
\* although every hook runs apart from the access it reports.
THEOREM TraceTellsLivesAlways ==
  ASSUME NoWrap, ExclusiveRelease, ExclusiveUse
  PROVE  TSpec => []TraceTellsLives
<1>1. IInv /\ [TNext]_tvars => IInv'
  BY IInvStep, TracedStep
<1>2. IInv /\ PointerInv /\ [TNext]_tvars => PointerInv'
  BY PointerStep, TracedStep
<1>3. IInv /\ PointerInv /\ LifeInv /\ [TNext]_tvars => LifeInv'
  <2> SUFFICES ASSUME IInv, PointerInv, LifeInv, [TNext]_tvars PROVE LifeInv'
    OBVIOUS
  <2>1. TypeInv /\ TypeOK /\ ArgsApart /\ TraceTypeOK
    BY DEF IInv, TypeInv, LifeInv
  <2>2. TraceTypeOK' /\ HookInv' /\ TrailInv'
    BY <2>1, TraceTypeStep, HookStep, TrailStep
  <2>3. ArgsApart'
    BY <2>1, ArgsStep, TracedStep
  <2> QED
    BY <2>2, <2>3 DEF LifeInv
<1>4. IInv /\ PointerInv /\ LifeInv /\ TraceTellsLives /\ [TNext]_tvars => TraceTellsLives'
  BY TellsStep
<1> QED
  BY <1>1, <1>2, <1>3, <1>4, LifeInit, PTL DEF TSpec

-----------------------------------------------------------------------------
(* The tracer. TP is the instance Tr once more, with the theorems about it. *)

TP == INSTANCE AnamTraceProof WITH
        Faults <- {}, Faulty <- {}, MaxRecord <- [t \in Thread |-> MaxEvent],
        MaxInit <- 1, MaxBuffer <- Cardinality(Thread)

\* The operators of the two instances are the same.
LEMMA SameFlushes ==
  ASSUME NEW t, NEW b
  PROVE  TP!Flushes(t, b) = Tr!Flushes(t, b) /\ TP!AutoFlushes(t, b) = Tr!AutoFlushes(t, b)
<1>1. TP!Flushes(t, b) = Tr!Flushes(t, b)
  BY DEF TP!Flushes, TP!FlushCount, TP!Idx, TP!Distance, TP!Nothing, TP!Written, TP!Blocks, TP!Block,
         TP!FaultsOf, Tr!Flushes, Tr!FlushCount, Tr!Idx, Tr!Distance, Tr!Nothing, Tr!Written,
         Tr!Blocks, Tr!Block, Tr!FaultsOf
<1> QED
  BY <1>1 DEF TP!AutoFlushes, Tr!AutoFlushes, TP!Idx, TP!Distance, TP!Nothing, Tr!Idx, Tr!Distance, Tr!Nothing

\* An event is recorded by both in the same way.
LEMMA SameRecord ==
  ASSUME NEW t, NEW b
  PROVE  Tr!RecordInto(t, b) => TP!RecordInto(t, b)
<1>1. \A c : TP!DetectOverflow(c) = Tr!DetectOverflow(c)
  BY DEF TP!DetectOverflow, Tr!DetectOverflow, TP!Distance, Tr!Distance
<1>2. \A e : TP!Store(b, e) = Tr!Store(b, e)
  BY DEF TP!Store, Tr!Store, TP!Idx, Tr!Idx
<1>3. \A n : TP!Entry(t, n) = Tr!Entry(t, n)
  BY DEF TP!Entry, Tr!Entry
<1>4. \A id, out : TP!AppendTo(id, out) <=> Tr!AppendTo(id, out)
  BY DEF TP!AppendTo, Tr!AppendTo
<1>5. SUFFICES ASSUME Tr!RecordInto(t, b) PROVE TP!RecordInto(t, b)
  OBVIOUS
<1>6. PICK c : c = Tr!Store(b, Tr!Entry(t, logged[t] + 1))
  OBVIOUS
<1>7. c = TP!Store(b, TP!Entry(t, logged[t] + 1)) /\ TP!AutoFlushes(t, c) = Tr!AutoFlushes(t, c)
  BY <1>2, <1>3, <1>6, SameFlushes
<1>8. PICK f \in Tr!AutoFlushes(t, c) :
        /\ Tr!AppendTo(c.thread_id, f.out)
        /\ tls_buffer' = [tls_buffer EXCEPT ![t] = Tr!DetectOverflow([c EXCEPT !.tail = f.tail])]
  BY <1>5, <1>6 DEF Tr!RecordInto
<1>9. /\ TP!AppendTo(c.thread_id, f.out) /\ f \in TP!AutoFlushes(t, c)
      /\ tls_buffer' = [tls_buffer EXCEPT ![t] = TP!DetectOverflow([c EXCEPT !.tail = f.tail])]
  BY <1>1, <1>4, <1>7, <1>8
<1> QED
  BY <1>5, <1>7, <1>9 DEF Tr!RecordInto, TP!RecordInto

\* The pool does to the tracer what the tracer's own specification allows.
LEMMA TracerStep == [TNext]_tvars => [TP!Next]_(TP!vars)
<1> SUFFICES ASSUME [TNext]_tvars PROVE [TP!Next]_(TP!vars)
  OBVIOUS
<1>0. ASSUME NEW t \in Thread
      PROVE  (\E f \in Tr!Flushes(t, tls_buffer[t]) : Tr!AppendTo(tls_buffer[t].thread_id, f.out))
               => \E f \in TP!Flushes(t, tls_buffer[t]) : TP!AppendTo(tls_buffer[t].thread_id, f.out)
  <2>1. TP!Flushes(t, tls_buffer[t]) = Tr!Flushes(t, tls_buffer[t])
    BY SameFlushes
  <2>2. \A id, out : TP!AppendTo(id, out) <=> Tr!AppendTo(id, out)
    BY DEF TP!AppendTo, Tr!AppendTo
  <2> QED
    BY <2>1, <2>2
<1>1. ASSUME NEW t \in Thread, PoolStep(t) \/ ReportDropped(t) PROVE UNCHANGED TP!vars
  BY <1>1 DEF PoolStep, ReportDropped, tracer, Tr!RecordNothing, Tr!vars, TP!vars
<1>2. ASSUME NEW t \in Thread, Report(t) PROVE TP!Next
  <2>1. Tr!Record(t) => TP!Record(t)
    BY SameRecord DEF Tr!Record, TP!Record, Tr!NoBuffer, TP!NoBuffer
  <2>2. Tr!RecordFirst(t) => TP!RecordFirst(t)
    BY SameRecord DEF Tr!RecordFirst, TP!RecordFirst, Tr!NoBuffer, TP!NoBuffer,
       Tr!anam_trace_buffer_create, TP!anam_trace_buffer_create, Tr!NoEntry, TP!NoEntry
  <2> QED
    BY <1>2, <2>1, <2>2 DEF Report, TP!Next
<1>3. ASSUME NEW t \in Thread, Exit(t) PROVE TP!Next
  <2>1. TP!FlushThread(t)
    BY <1>0, <1>3 DEF Exit, Tr!FlushThread, TP!FlushThread, Tr!NoBuffer, TP!NoBuffer
  <2> QED
    BY <2>1 DEF TP!Next
<1>4. ASSUME NEW t \in Thread, Trace(t) PROVE TP!Next
  <2>1. Tr!anam_trace_init => TP!anam_trace_init
    BY DEF Tr!anam_trace_init, TP!anam_trace_init
  <2>2. Tr!anam_trace_shutdown(t) => TP!anam_trace_shutdown(t)
    BY <1>0 DEF Tr!anam_trace_shutdown, TP!anam_trace_shutdown, Tr!NoBuffer, TP!NoBuffer
  <2> QED
    BY <1>4, <2>1, <2>2 DEF Trace, TP!Next
<1>5. CASE UNCHANGED tvars
  BY <1>5 DEF tvars, tracer, TP!vars
<1> QED
  BY <1>1, <1>2, <1>3, <1>4, <1>5 DEF TNext

\* So no event the pool has recorded is lost: see NothingLostAlways.
LEMMA TracerNothingLost ==
  ASSUME IsFiniteSet(Thread), BufferSize >= 8
  PROVE  TSpec => []TP!NothingLost
<1>1. TP!TraceAssumption
  <2>1. Cardinality(Thread) \in Nat
    BY FS_CardinalityType
  <2> QED
    BY <2>1, TracedAssumption DEF TP!TraceAssumption
<1>2. TInit => TP!Init
  BY DEF TInit, Tr!Init, TP!Init, Tr!NoBuffer, TP!NoBuffer
<1>3. TP!Spec => []TP!NothingLost
  BY <1>1, TP!NothingLostAlways, PTL
<1> QED
  BY <1>2, <1>3, TracerStep, PTL DEF TSpec, TP!Spec

-----------------------------------------------------------------------------
(* The accounts *)

\* All that was ever reported of an operation, and who has a report of it to make.
Of(op) ==
  {e \in UNION {{trail[s][i] : i \in DOMAIN trail[s]} : s \in Slot} : e.event.op = op}

Announced(op) == {t \in Thread : hook[t].op = op}

\* The releases that have made their bump and not yet counted it.
PastBump == {"r_zero", "r_head", "r_next", "r_cas", "r_free", "r_count"}
Unfinished == {t \in Thread : pc[t] \in PastBump}

AllocBalance == Cardinality(Of("alloc")) + Cardinality(Announced("alloc")) - alloc_count

ReleaseBalance ==
  Cardinality(Of("release")) + Cardinality(Announced("release"))
    - Cardinality(Unfinished) - release_count

\* Every entry of a trail is one the tracer has numbered.
EntriesLogged ==
  \A s \in Slot : \A j \in DOMAIN trail[s] :
    \E t \in Thread : \E n \in 1 .. logged[t] : trail[s][j].entry = <<t, n>>

\* While no event was dropped, the counters are behind or ahead of the reports by
\* what is in the middle of a call, up to the wrapping of a size_t.
AccountInv ==
  /\ TypeInv /\ TraceTypeOK /\ EntriesLogged /\ dropped \in Nat
  /\ IsFiniteSet(Of("alloc")) /\ IsFiniteSet(Of("release"))
  /\ dropped = 0 => Multiple(AllocBalance, CountMod) /\ Multiple(ReleaseBalance, CountMod)

\* Two finite sets that differ in one element at most.
LEMMA OneMoves ==
  ASSUME NEW A, NEW B, NEW x, IsFiniteSet(A), \A y : y # x => (y \in A <=> y \in B)
  PROVE  /\ IsFiniteSet(B) /\ Cardinality(A) \in Nat /\ Cardinality(B) \in Nat
         /\ x \notin A => Cardinality(B) = IF x \in B THEN Cardinality(A) + 1 ELSE Cardinality(A)
         /\ x \in A => Cardinality(B) = IF x \in B THEN Cardinality(A) ELSE Cardinality(A) - 1
<1> DEFINE R == A \ {x}
<1>1. IsFiniteSet(R) /\ x \notin R
  BY FS_Subset
<1>2. A = (IF x \in A THEN R \cup {x} ELSE R) /\ B = (IF x \in B THEN R \cup {x} ELSE R)
  OBVIOUS
<1> HIDE DEF R
<1>3. IsFiniteSet(R \cup {x}) /\ Cardinality(R \cup {x}) = Cardinality(R) + 1 /\ Cardinality(R) \in Nat
  BY <1>1, FS_AddElement, FS_CardinalityType
<1>4. /\ x \in A => Cardinality(A) = Cardinality(R) + 1 /\ IsFiniteSet(A)
      /\ x \notin A => Cardinality(A) = Cardinality(R)
      /\ x \in B => Cardinality(B) = Cardinality(R) + 1 /\ IsFiniteSet(B)
      /\ x \notin B => Cardinality(B) = Cardinality(R) /\ IsFiniteSet(B)
  <2>1. /\ x \in A => A = R \cup {x}
        /\ x \notin A => A = R
        /\ x \in B => B = R \cup {x}
        /\ x \notin B => B = R
    BY <1>2
  <2> QED
    BY <1>1, <1>3, <2>1
<1> QED
  BY <1>3, <1>4

\* The balances are integers.
LEMMA AccountTypes ==
  ASSUME IsFiniteSet(Thread), TypeInv, IsFiniteSet(Of("alloc")), IsFiniteSet(Of("release"))
  PROVE  /\ AllocBalance \in Int /\ ReleaseBalance \in Int
         /\ alloc_count \in 0 .. CountMod - 1 /\ release_count \in 0 .. CountMod - 1
         /\ CountMod \in Nat \ {0}
         /\ Cardinality(Of("alloc")) \in Nat /\ Cardinality(Of("release")) \in Nat
         /\ \A op : IsFiniteSet(Announced(op)) /\ Cardinality(Announced(op)) \in Nat
         /\ IsFiniteSet(Unfinished) /\ Cardinality(Unfinished) \in Nat
<1>1. \A op : IsFiniteSet(Announced(op)) /\ Cardinality(Announced(op)) \in Nat
  BY FS_Subset, FS_CardinalityType DEF Announced
<1>2. IsFiniteSet(Unfinished) /\ Cardinality(Unfinished) \in Nat
  BY FS_Subset, FS_CardinalityType DEF Unfinished
<1>3. Cardinality(Of("alloc")) \in Nat /\ Cardinality(Of("release")) \in Nat
  BY FS_CardinalityType
<1>4. /\ alloc_count \in 0 .. CountMod - 1 /\ release_count \in 0 .. CountMod - 1
      /\ CountMod \in Nat \ {0}
  BY PoolAssumption DEF TypeInv, TypeOK
<1> QED
  BY <1>1, <1>2, <1>3, <1>4 DEF AllocBalance, ReleaseBalance

\* The counter one further on is the number one further on, or CountMod below it.
LEMMA Add1Is ==
  ASSUME NEW n \in 0 .. CountMod - 1
  PROVE  Add1(n) = n + 1 \/ Add1(n) = n + 1 - CountMod
BY PoolAssumption DEF Add1

\* A report that is made adds itself to the reports of its operation, and to no others.
LEMMA ReportAdds ==
  ASSUME TraceTypeOK, EntriesLogged, NEW t \in Thread, Report(t)
  PROVE  /\ EntriesLogged'
         /\ \E x : \A op : x \notin Of(op) /\ Of(op)' = (IF hook[t].op = op THEN Of(op) \cup {x} ELSE Of(op))
<1>1. PICK e, s, n, k, x :
        /\ e = hook[t] /\ s = hook[t].slot /\ n = Len(trail[s]) /\ k = logged[t]
        /\ x = [event |-> hook[t], entry |-> Tr!Entry(t, logged[t] + 1)]
  OBVIOUS
<1>2. /\ e \in EventSet /\ n \in Nat /\ DOMAIN trail[s] = 1 .. n /\ DOMAIN trail'[s] = 1 .. n + 1
      /\ \A j \in 1 .. n : trail'[s][j] = trail[s][j]
      /\ \A q \in Slot \ {s} : trail'[q] = trail[q]
  BY <1>1, ReportEffect
<1>3. s \in Slot /\ k \in Nat /\ trail[s] \in Seq(Reports) /\ x.event = e /\ x.entry = <<t, k + 1>>
  BY <1>1, <1>2, EventFields DEF TraceTypeOK, Tr!Entry
<1>4. trail' = [trail EXCEPT ![s] = Append(trail[s], x)]
  BY <1>1 DEF Report
<1>5. trail'[s] = Append(trail[s], x)
  BY <1>3, <1>4 DEF TraceTypeOK
<1>6. trail'[s][n + 1] = x
  BY <1>1, <1>3, <1>5
<1>7. logged' = [logged EXCEPT ![t] = k + 1]
  BY <1>1 DEF Report, Tr!Record, Tr!RecordFirst, Tr!RecordInto
<1>8. logged'[t] = k + 1 /\ \A u \in Thread \ {t} : logged'[u] = logged[u]
  BY <1>7 DEF TraceTypeOK
<1>9. \A q \in Slot : \A j \in DOMAIN trail[q] : j \in DOMAIN trail'[q] /\ trail'[q][j] = trail[q][j]
  BY <1>2
<1>10. \A q \in Slot : \A j \in DOMAIN trail'[q] :
         (q = s /\ j = n + 1) \/ (j \in DOMAIN trail[q] /\ trail'[q][j] = trail[q][j])
  BY <1>2
<1>11. \A u \in Thread : 1 .. logged[u] \subseteq 1 .. logged'[u]
  BY <1>1, <1>8 DEF TraceTypeOK
<1>12. ASSUME NEW q \in Slot, NEW j \in DOMAIN trail'[q]
       PROVE  \E u \in Thread : \E m \in 1 .. logged'[u] : trail'[q][j].entry = <<u, m>>
  <2>1. CASE q = s /\ j = n + 1
    <3>1. trail'[q][j].entry = <<t, k + 1>> /\ k + 1 \in 1 .. logged'[t]
      BY <1>3, <1>6, <1>8, <2>1
    <3> QED
      BY <3>1
  <2>2. CASE j \in DOMAIN trail[q] /\ trail'[q][j] = trail[q][j]
    <3>1. PICK u \in Thread : \E m \in 1 .. logged[u] : trail[q][j].entry = <<u, m>>
      BY <2>2 DEF EntriesLogged
    <3> QED
      BY <1>11, <2>2, <3>1
  <2> QED
    BY <1>10, <2>1, <2>2
<1>13. \A q \in Slot : \A j \in DOMAIN trail[q] : trail[q][j] # x
  <2> SUFFICES ASSUME NEW q \in Slot, NEW j \in DOMAIN trail[q], trail[q][j] = x PROVE FALSE
    OBVIOUS
  <2>0. PICK u \in Thread : \E i \in 1 .. logged[u] : x.entry = <<u, i>>
    BY DEF EntriesLogged
  <2>1. PICK m \in 1 .. logged[u] : x.entry = <<u, m>>
    BY <2>0
  <2>2. u = t /\ m = k + 1 /\ m \in 1 .. k
    BY <1>1, <1>3, <2>1
  <2> QED
    BY <1>3, <2>2
<1>14. ASSUME NEW op
       PROVE  x \notin Of(op) /\ Of(op)' = (IF e.op = op THEN Of(op) \cup {x} ELSE Of(op))
  <2>1. x \notin Of(op)
    BY <1>13 DEF Of
  <2>2. \A y \in Of(op) : y \in Of(op)'
    BY <1>9 DEF Of
  <2>3. e.op = op => x \in Of(op)'
    <3>1. n + 1 \in DOMAIN trail'[s]
      BY <1>2
    <3> QED
      BY <1>3, <1>6, <3>1 DEF Of
  <2>4. ASSUME NEW y \in Of(op)' PROVE y \in Of(op) \/ (y = x /\ e.op = op)
    <3>0. PICK q \in Slot : \E i \in DOMAIN trail'[q] : y = trail'[q][i]
      BY <2>4 DEF Of
    <3>1. PICK j \in DOMAIN trail'[q] : y = trail'[q][j]
      BY <3>0
    <3>2. y.event.op = op
      BY <2>4 DEF Of
    <3> QED
      BY <1>3, <1>6, <1>10, <3>1, <3>2 DEF Of
  <2> QED
    BY <2>1, <2>2, <2>3, <2>4
<1>15. EntriesLogged'
  BY <1>12 DEF EntriesLogged
<1>16. \A op : x \notin Of(op) /\ Of(op)' = (IF hook[t].op = op THEN Of(op) \cup {x} ELSE Of(op))
  BY <1>1, <1>14
<1> QED
  BY <1>15, <1>16

\* A step changes what one thread has to report.
LEMMA HookMoves ==
  ASSUME IsFiniteSet(Thread), NEW t \in Thread, \A u \in Thread \ {t} : hook'[u] = hook[u], NEW op
  PROVE  LET m == Cardinality(Announced(op))
             n == Cardinality(Announced(op)')
         IN /\ hook[t].op # op => n = IF hook'[t].op = op THEN m + 1 ELSE m
            /\ hook[t].op = op => n = IF hook'[t].op = op THEN m ELSE m - 1
<1>1. PICK A, B : A = Announced(op) /\ B = Announced(op)'
  OBVIOUS
<1>2. IsFiniteSet(A)
  BY <1>1, FS_Subset DEF Announced
<1>3. \A y : y # t => (y \in A <=> y \in B)
  BY <1>1 DEF Announced
<1>4. (t \in A <=> hook[t].op = op) /\ (t \in B <=> hook'[t].op = op)
  BY <1>1 DEF Announced
<1>5. /\ t \notin A => Cardinality(B) = IF t \in B THEN Cardinality(A) + 1 ELSE Cardinality(A)
      /\ t \in A => Cardinality(B) = IF t \in B THEN Cardinality(A) ELSE Cardinality(A) - 1
  BY <1>2, <1>3, OneMoves
<1> QED
  BY <1>1, <1>4, <1>5

\* A step changes where one thread stands.
LEMMA UnfinishedMoves ==
  ASSUME IsFiniteSet(Thread), NEW t \in Thread, \A u \in Thread \ {t} : pc'[u] = pc[u]
  PROVE  LET m == Cardinality(Unfinished)
             n == Cardinality(Unfinished')
         IN /\ pc[t] \notin PastBump => n = IF pc'[t] \in PastBump THEN m + 1 ELSE m
            /\ pc[t] \in PastBump => n = IF pc'[t] \in PastBump THEN m ELSE m - 1
<1>1. PICK A, B : A = Unfinished /\ B = Unfinished'
  OBVIOUS
<1>2. IsFiniteSet(A)
  BY <1>1, FS_Subset DEF Unfinished
<1>3. \A y : y # t => (y \in A <=> y \in B)
  BY <1>1 DEF Unfinished
<1>4. (t \in A <=> pc[t] \in PastBump) /\ (t \in B <=> pc'[t] \in PastBump)
  BY <1>1 DEF Unfinished
<1>5. /\ t \notin A => Cardinality(B) = IF t \in B THEN Cardinality(A) + 1 ELSE Cardinality(A)
      /\ t \in A => Cardinality(B) = IF t \in B THEN Cardinality(A) ELSE Cardinality(A) - 1
  BY <1>2, <1>3, OneMoves
<1> QED
  BY <1>1, <1>4, <1>5

\* Where the steps that report nothing lead: only the last one of a release
\* concerns the counters of alloc and release.
LEMMA QuietEffect ==
  ASSUME TypeInv, NEW t \in Thread, Quiet(t)
  PROVE  \/ ReleaseReturn(t)
         \/ UNCHANGED <<alloc_count, release_count, Unfinished>>
<1>0. pc \in [Thread -> PC]
  BY DEF TypeInv, TypeOK
<1> SUFFICES ASSUME ~ReleaseReturn(t) PROVE UNCHANGED <<alloc_count, release_count, Unfinished>>
  OBVIOUS
<1>1. UNCHANGED <<alloc_count, release_count>>
  BY DEF Quiet, AllocLoadHead, AllocFail, AllocLoadNext, AllocPop, AllocRetry,
     AllocLoadGen, AllocLoadMax, AllocRaiseMax, AllocClearNext, AllocSlotsFree, AllocReturn,
     ReleaseValidate, ReleaseZero, ReleaseLoadHead, ReleaseLink, ReleasePush, ReleaseRetry,
     ReleaseSlotsFree, Expose, AllocCall, ReleaseCall, Use, stats
<1>2. /\ pc' = [pc EXCEPT ![t] = pc'[t]] /\ (pc[t] \in PastBump <=> pc'[t] \in PastBump)
  BY <1>0 DEF Quiet, AllocLoadHead, AllocFail, AllocLoadNext, AllocPop, AllocRetry,
     AllocLoadGen, AllocLoadMax, AllocRaiseMax, AllocClearNext, AllocSlotsFree, AllocReturn,
     ReleaseValidate, ReleaseZero, ReleaseLoadHead, ReleaseLink, ReleasePush, ReleaseRetry,
     ReleaseSlotsFree, Expose, AllocCall, ReleaseCall, Use, Goto, PastBump
<1>3. \A u \in Thread : pc[u] \in PastBump <=> pc'[u] \in PastBump
  BY <1>0, <1>2
<1>4. Unfinished' = Unfinished
  BY <1>3 DEF Unfinished
<1> QED
  BY <1>1, <1>4

\* A step of the pool keeps the balances, up to the wrapping of a counter.
LEMMA PoolBalances ==
  ASSUME IsFiniteSet(Thread), AccountInv, NEW t \in Thread, PoolStep(t)
  PROVE  /\ AllocBalance' \in {AllocBalance, AllocBalance + CountMod}
         /\ ReleaseBalance' \in {ReleaseBalance, ReleaseBalance + CountMod}
<1>0. TypeInv /\ TraceTypeOK /\ IsFiniteSet(Of("alloc")) /\ IsFiniteSet(Of("release"))
  BY DEF AccountInv
<1>1. hook[t] = NoEvent /\ trail' = trail
  BY <1>0, WhatIsReported
<1>2. \A op : Of(op)' = Of(op)
  BY <1>1 DEF Of
<1>3. PICK oa, or, aa, ar, uf, ca, cr :
        /\ oa = Cardinality(Of("alloc")) /\ or = Cardinality(Of("release"))
        /\ aa = Cardinality(Announced("alloc")) /\ ar = Cardinality(Announced("release"))
        /\ uf = Cardinality(Unfinished) /\ ca = alloc_count /\ cr = release_count
  OBVIOUS
<1>4. /\ oa \in Nat /\ or \in Nat /\ aa \in Nat /\ ar \in Nat /\ uf \in Nat
      /\ ca \in 0 .. CountMod - 1 /\ cr \in 0 .. CountMod - 1 /\ CountMod \in Nat \ {0}
  BY <1>0, <1>3, AccountTypes
<1>5. AllocBalance = oa + aa - ca /\ ReleaseBalance = or + ar - uf - cr
  BY <1>3 DEF AllocBalance, ReleaseBalance
<1>6. /\ AllocBalance' = oa + Cardinality(Announced("alloc")') - alloc_count'
      /\ ReleaseBalance' = or + Cardinality(Announced("release")') - Cardinality(Unfinished') - release_count'
  BY <1>2, <1>3 DEF AllocBalance, ReleaseBalance
<1>7. /\ Add1(ca) = ca + 1 \/ Add1(ca) = ca + 1 - CountMod
      /\ Add1(cr) = cr + 1 \/ Add1(cr) = cr + 1 - CountMod
  BY <1>4, Add1Is
<1>8. NoEvent.op = "none"
  BY EventFields
<1>9. ASSUME NEW e, hook' = [hook EXCEPT ![t] = e]
      PROVE  /\ Cardinality(Announced("alloc")') = (IF e.op = "alloc" THEN aa + 1 ELSE aa)
             /\ Cardinality(Announced("release")') = (IF e.op = "release" THEN ar + 1 ELSE ar)
  <2>1. hook[t].op # "alloc" /\ hook[t].op # "release"
    BY <1>1, <1>8
  <2>2. hook'[t] = e /\ \A u \in Thread \ {t} : hook'[u] = hook[u]
    BY <1>0, <1>9 DEF TraceTypeOK
  <2>3. Cardinality(Announced("alloc")') = IF e.op = "alloc" THEN aa + 1 ELSE aa
    BY <1>3, <2>1, <2>2, HookMoves
  <2>4. Cardinality(Announced("release")') = IF e.op = "release" THEN ar + 1 ELSE ar
    BY <1>3, <2>1, <2>2, HookMoves
  <2> QED
    BY <2>3, <2>4
<1>p. "r_zero" \in PastBump /\ "r_count" \in PastBump
      /\ \A b \in {"a_count", "a_ret", "r_bump", "idle", "expose"} : b \notin PastBump
  BY DEF PastBump
<1>10. ASSUME NEW b, pc' = [pc EXCEPT ![t] = b]
       PROVE  /\ pc[t] \notin PastBump => Cardinality(Unfinished') = IF b \in PastBump THEN uf + 1 ELSE uf
              /\ pc[t] \in PastBump => Cardinality(Unfinished') = IF b \in PastBump THEN uf ELSE uf - 1
  <2>1. pc'[t] = b /\ \A u \in Thread \ {t} : pc'[u] = pc[u]
    BY <1>0, <1>10 DEF TypeInv, TypeOK
  <2> QED
    BY <1>3, <2>1, UnfinishedMoves
<1>11. CASE AllocCount(t) /\ hook' = [hook EXCEPT ![t] = Event("alloc", Issued(t))]
  <2>1. Event("alloc", Issued(t)).op = "alloc"
    BY EventFields
  <2>2. Cardinality(Announced("alloc")') = aa + 1 /\ Cardinality(Announced("release")') = ar
    BY <1>9, <1>11, <2>1
  <2>3. /\ pc[t] = "a_count" /\ pc' = [pc EXCEPT ![t] = "a_ret"] /\ alloc_count' = Add1(ca)
        /\ release_count' = cr
    BY <1>3, <1>11 DEF AllocCount, Goto
  <2>4. Cardinality(Unfinished') = uf
    BY <1>p, <1>10, <2>3
  <2> QED
    BY <1>4, <1>5, <1>6, <1>7, <2>2, <2>3, <2>4
<1>12. CASE ReleaseBump(t) /\ hook' = [hook EXCEPT ![t] = Event("release", arg[t])]
  <2>1. Event("release", arg[t]).op = "release"
    BY EventFields
  <2>2. Cardinality(Announced("alloc")') = aa /\ Cardinality(Announced("release")') = ar + 1
    BY <1>9, <1>12, <2>1
  <2>3. /\ pc[t] = "r_bump" /\ pc' = [pc EXCEPT ![t] = "r_zero"] /\ alloc_count' = ca
        /\ release_count' = cr
    BY <1>3, <1>12 DEF ReleaseBump, Goto, stats
  <2>4. Cardinality(Unfinished') = uf + 1
    BY <1>p, <1>10, <2>3
  <2> QED
    BY <1>4, <1>5, <1>6, <2>2, <2>3, <2>4
<1>13. ASSUME NEW r \in issued, NEW op \in {"get_valid", "get_stale"},
              GetValid(t, r) \/ GetStale(t, r), hook' = [hook EXCEPT ![t] = Event(op, r)]
       PROVE  AllocBalance' = AllocBalance /\ ReleaseBalance' = ReleaseBalance
  <2>1. Event(op, r).op = op /\ op # "alloc" /\ op # "release"
    BY EventFields
  <2>2. Cardinality(Announced("alloc")') = aa /\ Cardinality(Announced("release")') = ar
    BY <1>9, <1>13, <2>1
  <2>3. PICK b \in {"idle", "expose"} : pc' = [pc EXCEPT ![t] = b]
    BY <1>13 DEF GetValid, GetStale, Goto
  <2>4. pc[t] = "idle" /\ alloc_count' = ca /\ release_count' = cr
    BY <1>3, <1>13 DEF GetValid, GetStale, Goto, stats
  <2>5. Cardinality(Unfinished') = uf
    BY <1>p, <1>10, <2>3, <2>4
  <2> QED
    BY <1>4, <1>5, <1>6, <2>2, <2>4, <2>5
<1>14. CASE Quiet(t) /\ hook' = hook
  <2>1. Cardinality(Announced("alloc")') = aa /\ Cardinality(Announced("release")') = ar
    BY <1>3, <1>14 DEF Announced
  <2>2. CASE ReleaseReturn(t)
    <3>1. /\ pc[t] = "r_count" /\ pc' = [pc EXCEPT ![t] = "idle"] /\ alloc_count' = ca
          /\ release_count' = Add1(cr)
      BY <1>3, <2>2 DEF ReleaseReturn, Goto
    <3>2. Cardinality(Unfinished') = uf - 1
      BY <1>p, <1>10, <3>1
    <3> QED
      BY <1>4, <1>5, <1>6, <1>7, <2>1, <3>1, <3>2
  <2>3. CASE UNCHANGED <<alloc_count, release_count, Unfinished>>
    BY <1>3, <1>5, <1>6, <2>1, <2>3
  <2> QED
    BY <1>0, <1>14, <2>2, <2>3, QuietEffect
<1> QED
  BY <1>0, <1>11, <1>12, <1>13, <1>14, WhatIsReported

\* A report takes an event from the hook to the trail: the balances stay.
LEMMA ReportBalances ==
  ASSUME IsFiniteSet(Thread), AccountInv, NEW t \in Thread, Report(t)
  PROVE  /\ EntriesLogged' /\ IsFiniteSet(Of("alloc")') /\ IsFiniteSet(Of("release")')
         /\ AllocBalance' = AllocBalance /\ ReleaseBalance' = ReleaseBalance
<1>0. TypeInv /\ TraceTypeOK /\ EntriesLogged /\ IsFiniteSet(Of("alloc")) /\ IsFiniteSet(Of("release"))
  BY DEF AccountInv
<1>1. EntriesLogged'
  BY <1>0, ReportAdds
<1>2. PICK x : \A op : x \notin Of(op) /\ Of(op)' = (IF hook[t].op = op THEN Of(op) \cup {x} ELSE Of(op))
  BY <1>0, ReportAdds
<1>3. hook' = [hook EXCEPT ![t] = NoEvent] /\ UNCHANGED vars
  BY <1>0, ReportEffect
<1>4. hook'[t].op = "none" /\ \A u \in Thread \ {t} : hook'[u] = hook[u]
  BY <1>0, <1>3, EventFields DEF TraceTypeOK
<1>5. UNCHANGED <<alloc_count, release_count, Unfinished>>
  BY <1>3 DEF vars, stats, Unfinished
<1>6. ASSUME NEW op \in {"alloc", "release"}, IsFiniteSet(Of(op))
      PROVE  /\ IsFiniteSet(Of(op)')
             /\ Cardinality(Of(op)') + Cardinality(Announced(op)')
                  = Cardinality(Of(op)) + Cardinality(Announced(op))
  <2>1. PICK A, B, m, n : /\ A = Of(op) /\ B = Of(op)'
                          /\ m = Cardinality(Announced(op)) /\ n = Cardinality(Announced(op)')
    OBVIOUS
  <2>2. x \notin A /\ B = (IF hook[t].op = op THEN A \cup {x} ELSE A)
    BY <1>2, <2>1
  <2>3. (hook[t].op = op => n = m - 1) /\ (hook[t].op # op => n = m)
    <3>1. hook'[t].op # op
      BY <1>4
    <3> QED
      BY <1>4, <2>1, <3>1, HookMoves
  <2>4. m \in Nat /\ Cardinality(A) \in Nat
    BY <1>0, <1>6, <2>1, AccountTypes, FS_CardinalityType
  <2>5. CASE hook[t].op = op
    <3>1. B = A \cup {x}
      BY <2>2, <2>5
    <3>2. IsFiniteSet(B) /\ Cardinality(B) = Cardinality(A) + 1
      BY <1>6, <2>1, <2>2, <3>1, FS_AddElement
    <3>3. Cardinality(B) + n = Cardinality(A) + m
      BY <2>3, <2>4, <2>5, <3>2
    <3> QED
      BY <2>1, <3>2, <3>3
  <2>6. CASE hook[t].op # op
    BY <1>6, <2>1, <2>2, <2>3, <2>6
  <2> QED
    BY <2>5, <2>6
<1>7. /\ IsFiniteSet(Of("alloc")') /\ IsFiniteSet(Of("release")')
      /\ Cardinality(Of("alloc")') + Cardinality(Announced("alloc")')
           = Cardinality(Of("alloc")) + Cardinality(Announced("alloc"))
      /\ Cardinality(Of("release")') + Cardinality(Announced("release")')
           = Cardinality(Of("release")) + Cardinality(Announced("release"))
  BY <1>0, <1>6
<1>8. AllocBalance' = AllocBalance /\ ReleaseBalance' = ReleaseBalance
  <2>1. /\ \A op : Cardinality(Announced(op)) \in Nat /\ Cardinality(Announced(op)') \in Nat
        /\ Cardinality(Of("alloc")) \in Nat /\ Cardinality(Of("release")) \in Nat
        /\ Cardinality(Of("alloc")') \in Nat /\ Cardinality(Of("release")') \in Nat
        /\ alloc_count \in Nat /\ release_count \in Nat /\ Cardinality(Unfinished) \in Nat
    <3>1. \A op : Cardinality(Announced(op)') \in Nat
      BY FS_Subset, FS_CardinalityType DEF Announced
    <3>2. Cardinality(Of("alloc")') \in Nat /\ Cardinality(Of("release")') \in Nat
      BY <1>7, FS_CardinalityType
    <3>3. /\ \A op : Cardinality(Announced(op)) \in Nat
          /\ Cardinality(Of("alloc")) \in Nat /\ Cardinality(Of("release")) \in Nat
          /\ Cardinality(Unfinished) \in Nat
      BY <1>0, AccountTypes
    <3>4. alloc_count \in Nat /\ release_count \in Nat
      BY <1>0, PoolAssumption DEF TypeInv, TypeOK
    <3> QED
      BY <3>1, <3>2, <3>3, <3>4
  <2> QED
    BY <1>5, <1>7, <2>1 DEF AllocBalance, ReleaseBalance
<1> QED
  BY <1>1, <1>7, <1>8

\* The accounts are kept by every step, until an event is dropped.
LEMMA AccountStep ==
  ASSUME IsFiniteSet(Thread), AccountInv, [TNext]_tvars
  PROVE  AccountInv'
<1>0. /\ TypeInv /\ TraceTypeOK /\ EntriesLogged /\ dropped \in Nat
      /\ IsFiniteSet(Of("alloc")) /\ IsFiniteSet(Of("release"))
      /\ dropped = 0 => Multiple(AllocBalance, CountMod) /\ Multiple(ReleaseBalance, CountMod)
  BY DEF AccountInv
<1>1. TypeInv' /\ TraceTypeOK'
  BY <1>0, TracedStep, TypeStep, TraceTypeStep
<1>2. AllocBalance \in Int /\ ReleaseBalance \in Int /\ CountMod \in Nat \ {0}
  BY <1>0, AccountTypes
<1>3. ASSUME NEW x \in Int, Multiple(x, CountMod) PROVE Multiple(x + CountMod, CountMod)
  <2>1. Multiple(CountMod, CountMod)
    <3>1. CountMod = 1 * CountMod
      BY <1>2
    <3> QED
      BY <3>1 DEF Multiple
  <2> QED
    BY <1>2, <1>3, <2>1, MultipleSum
<1>4. ASSUME EntriesLogged', dropped' = dropped, IsFiniteSet(Of("alloc")'), IsFiniteSet(Of("release")'),
             AllocBalance' \in {AllocBalance, AllocBalance + CountMod},
             ReleaseBalance' \in {ReleaseBalance, ReleaseBalance + CountMod}
      PROVE  AccountInv'
  <2>1. dropped = 0 => Multiple(AllocBalance', CountMod) /\ Multiple(ReleaseBalance', CountMod)
    BY <1>0, <1>2, <1>3, <1>4
  <2> QED
    BY <1>0, <1>1, <1>4, <2>1 DEF AccountInv
<1>5. ASSUME UNCHANGED <<trail, logged>>
      PROVE  EntriesLogged' /\ Of("alloc")' = Of("alloc") /\ Of("release")' = Of("release")
  BY <1>0, <1>5 DEF EntriesLogged, Of
<1>6. ASSUME NEW t \in Thread, PoolStep(t) PROVE AccountInv'
  <2>1. UNCHANGED <<trail, logged>> /\ dropped' = dropped
    BY <1>0, <1>6, WhatIsReported DEF PoolStep
  <2> QED
    BY <1>0, <1>4, <1>5, <1>6, <2>1, PoolBalances
<1>7. ASSUME NEW t \in Thread, Report(t) PROVE AccountInv'
  <2>1. dropped' = dropped
    BY <1>7 DEF Report
  <2> QED
    BY <1>4, <1>7, <2>1, ReportBalances
<1>8. ASSUME NEW t \in Thread, ReportDropped(t) PROVE AccountInv'
  <2>1. UNCHANGED <<trail, logged>> /\ dropped' = dropped + 1
    BY <1>8 DEF ReportDropped, Tr!RecordNothing, Tr!vars
  <2>2. dropped' \in Nat /\ dropped' # 0
    BY <1>0, <2>1
  <2> QED
    BY <1>0, <1>1, <1>5, <2>1, <2>2 DEF AccountInv
<1>9. ASSUME UNCHANGED <<vars, hook, trail, logged, dropped>> PROVE AccountInv'
  <2>1. UNCHANGED <<alloc_count, release_count, hook, pc>>
    BY <1>9 DEF vars, stats
  <2>2. AllocBalance' = AllocBalance /\ ReleaseBalance' = ReleaseBalance
    BY <1>5, <1>9, <2>1 DEF AllocBalance, ReleaseBalance, Announced, Unfinished
  <2> QED
    BY <1>0, <1>4, <1>5, <1>9, <2>2
<1>10. ASSUME NEW t \in Thread, Exit(t) \/ Trace(t) PROVE UNCHANGED <<vars, hook, trail, logged, dropped>>
  BY <1>10 DEF Exit, Trace, Tr!FlushThread, Tr!anam_trace_init, Tr!anam_trace_shutdown
<1>11. CASE UNCHANGED tvars
  BY <1>9, <1>11 DEF tvars, tracer
<1> QED
  BY <1>6, <1>7, <1>8, <1>9, <1>10, <1>11 DEF TNext

\* Nothing is counted and nothing is reported at first.
LEMMA AccountInit ==
  ASSUME IsFiniteSet(Thread), TInit
  PROVE  AccountInv
<1>1. TypeInv
  BY TypeInit DEF TInit
<1>2. TraceTypeOK
  BY DEF TInit, Tr!Init, TraceTypeOK
<1>3. \A s \in Slot : trail[s] = <<>> /\ DOMAIN trail[s] = {}
  BY DEF TInit
<1>4. EntriesLogged /\ \A op : Of(op) = {}
  BY <1>3 DEF EntriesLogged, Of
<1>5. \A op \in {"alloc", "release"} : Announced(op) = {}
  BY EventFields DEF TInit, Announced
<1>6. Unfinished = {}
  BY DEF TInit, Init, Unfinished, PastBump
<1>7. IsFiniteSet({}) /\ Cardinality({}) = 0
  BY FS_EmptySet
<1>8. AllocBalance = 0 /\ ReleaseBalance = 0 /\ dropped = 0
  <2>1. alloc_count = 0 /\ release_count = 0 /\ dropped = 0
    BY DEF TInit, Init
  <2>2. /\ Cardinality(Of("alloc")) = 0 /\ Cardinality(Of("release")) = 0
        /\ Cardinality(Announced("alloc")) = 0 /\ Cardinality(Announced("release")) = 0
        /\ Cardinality(Unfinished) = 0
    BY <1>4, <1>5, <1>6, <1>7
  <2> QED
    BY <2>1, <2>2 DEF AllocBalance, ReleaseBalance
<1>9. Multiple(0, CountMod)
  <2>1. 0 = 0 * CountMod
    BY PoolAssumption
  <2> QED
    BY <2>1 DEF Multiple
<1> QED
  BY <1>1, <1>2, <1>4, <1>7, <1>8, <1>9 DEF AccountInv

\* What the tracer has numbered it still has, so the reports are all told.
LEMMA AllTold ==
  ASSUME EntriesLogged, TP!NothingLost, NEW op
  PROVE  Told(op) = Of(op)
<1>1. ASSUME NEW t \in Thread, NEW n \in 1 .. logged[t]
      PROVE  <<t, n>> \in Tr!InFiles(t) \cup Tr!SeqSet(Tr!Unflushed(t))
  <2>1. TP!InFiles(t) \cup TP!SeqSet(TP!Unflushed(t)) = TP!Events(t, 1)
    BY DEF TP!NothingLost
  <2>2. TP!InFiles(t) = Tr!InFiles(t)
    BY DEF TP!InFiles, Tr!InFiles
  <2>3. TP!Unflushed(t) = Tr!Unflushed(t)
    BY DEF TP!Unflushed, Tr!Unflushed, TP!Buffers, Tr!Buffers, TP!NoBuffer, Tr!NoBuffer,
       TP!FlushCount, TP!Idx, TP!Distance, TP!Blocks, TP!Block, Tr!FlushCount, Tr!Idx, Tr!Distance,
       Tr!Blocks, Tr!Block
  <2>4. \A s : TP!SeqSet(s) = Tr!SeqSet(s)
    BY DEF TP!SeqSet, Tr!SeqSet
  <2>5. <<t, n>> \in TP!Events(t, 1)
    BY DEF TP!Events, TP!Entry
  <2> QED
    BY <2>1, <2>2, <2>3, <2>4, <2>5
<1>2. ASSUME NEW e \in Of(op)
      PROVE  \E t \in Thread : e.entry \in Tr!InFiles(t) \cup Tr!SeqSet(Tr!Unflushed(t))
  <2>1. PICK s \in Slot : \E i \in DOMAIN trail[s] : e = trail[s][i]
    BY <1>2 DEF Of
  <2>2. PICK t \in Thread : \E n \in 1 .. logged[t] : e.entry = <<t, n>>
    BY <2>1 DEF EntriesLogged
  <2> QED
    BY <1>1, <2>2
<1> QED
  BY <1>2 DEF Told, Of

\* At rest, with no event dropped, the trace accounts for the counters.
LEMMA AtRest ==
  ASSUME IsFiniteSet(Thread), AccountInv, TP!NothingLost
  PROVE  TraceAccounts
<1> SUFFICES ASSUME dropped = 0, Quiescent, \A t \in Thread : hook[t] = NoEvent
             PROVE  /\ Cardinality(Told("alloc")) % CountMod = alloc_count
                    /\ Cardinality(Told("release")) % CountMod = release_count
  BY DEF TraceAccounts
<1>1. /\ TypeInv /\ EntriesLogged /\ IsFiniteSet(Of("alloc")) /\ IsFiniteSet(Of("release"))
      /\ Multiple(AllocBalance, CountMod) /\ Multiple(ReleaseBalance, CountMod)
  BY DEF AccountInv
<1>2. Announced("alloc") = {} /\ Announced("release") = {} /\ Unfinished = {}
  <2>1. \A op \in {"alloc", "release"} : Announced(op) = {}
    BY EventFields DEF Announced
  <2>2. Unfinished = {}
    BY DEF Unfinished, PastBump, Quiescent
  <2> QED
    BY <2>1, <2>2
<1>3. Cardinality({}) = 0
  BY FS_EmptySet
<1>4. PICK a, r : a = Cardinality(Of("alloc")) /\ r = Cardinality(Of("release"))
  OBVIOUS
<1>5. /\ a \in Nat /\ r \in Nat /\ CountMod \in Nat \ {0}
      /\ alloc_count \in 0 .. CountMod - 1 /\ release_count \in 0 .. CountMod - 1
  BY <1>1, <1>4, AccountTypes
<1>6. AllocBalance = a - alloc_count /\ ReleaseBalance = r - release_count
  BY <1>2, <1>3, <1>4, <1>5 DEF AllocBalance, ReleaseBalance
<1>7. a % CountMod = alloc_count
  <2>1. PICK c \in Int : c = alloc_count /\ 0 <= c /\ c < CountMod
    BY <1>5
  <2>2. PICK k \in Int : a - c = k * CountMod
    BY <1>1, <1>6, <2>1 DEF Multiple
  <2>3. a = CountMod * k + c
    BY <1>5, <2>1, <2>2
  <2> QED
    BY <1>5, <2>1, <2>3, QuotRem
<1>8. r % CountMod = release_count
  <2>1. PICK c \in Int : c = release_count /\ 0 <= c /\ c < CountMod
    BY <1>5
  <2>2. PICK k \in Int : r - c = k * CountMod
    BY <1>1, <1>6, <2>1 DEF Multiple
  <2>3. r = CountMod * k + c
    BY <1>5, <2>1, <2>2
  <2> QED
    BY <1>5, <2>1, <2>3, QuotRem
<1>9. Told("alloc") = Of("alloc") /\ Told("release") = Of("release")
  BY <1>1, AllTold
<1> QED
  BY <1>4, <1>7, <1>8, <1>9

\* With no event dropped, at rest the entries in the files and in the buffers
\* account for the alloc and release counters of anam_pool_stats, for every number
\* of threads, for every way to share handles and whoever has exited or shut
\* tracing down; the ring must have at least 8 entries, see NothingLostAlways.
THEOREM TraceAccountsAlways ==
  ASSUME IsFiniteSet(Thread), BufferSize >= 8
  PROVE  TSpec => []TraceAccounts
<1>1. TInit => AccountInv
  BY AccountInit
<1>2. AccountInv /\ [TNext]_tvars => AccountInv'
  BY AccountStep
<1>3. AccountInv /\ TP!NothingLost => TraceAccounts
  BY AtRest
<1>4. TSpec => []TP!NothingLost
  BY TracerNothingLost
<1> QED
  BY <1>1, <1>2, <1>3, <1>4, PTL DEF TSpec

=============================================================================
