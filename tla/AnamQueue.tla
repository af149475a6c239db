----------------------------- MODULE AnamQueue ------------------------------
(***************************************************************************)
(* The Michael-Scott queue of src/anamnesis_queue.c. A node is a pool      *)
(* slot; head, tail and the links are generation-tagged handles. The pool  *)
(* is the stack of module StackPool, which AnamPool implements: anam_alloc *)
(* takes the top slot, anam_get is one load of the generation, and         *)
(* anam_release ends the generation and then gives the slot back.          *)
(*                                                                         *)
(* One action is one atomic access to shared memory with the local         *)
(* computation around it. All handles here are LIVE, so re-encoding one    *)
(* from its generation and address gives the same handle.                  *)
(***************************************************************************)
EXTENDS Integers, Sequences, FiniteSets

CONSTANTS
  Producer, Consumer,  \* threads that push, threads that pop
  Observer,            \* threads that call peek and empty
  Capacity,            \* q->capacity; the pool has one slot more
  GenMod,              \* number of generation values, 2^16 in the code
  CountMod,            \* number of size_t values, 2^64 in the code
  StatMod,             \* the same for the counters that only stats report
  MaxPush              \* bound: number of calls of anam_queue_push

Thread == Producer \cup Consumer \cup Observer

ASSUME QueueAssumption ==
  /\ {Capacity, GenMod, CountMod, StatMod} \subseteq Nat \ {0}
  /\ MaxPush \in Nat

VARIABLES
  head, tail, length, stat,   \* struct AnamQueue; stat holds the other counters
  free, generation,           \* the pool
  node_next, node_data,       \* the QueueNodes
  pc, loc,                    \* one call in progress per thread, and its C locals
  mode,                       \* "open", "draining" inside destroy, "closed"
  calls, seen                 \* history: pushes called; fronts seen by a call

ends == <<head, tail>>
counters == <<length, stat>>
pool == <<free, generation>>
nodes == <<node_next, node_data>>
client == <<mode, calls>>
shared == <<ends, counters, pool, nodes, client>>
vars == <<shared, pc, loc, seen>>

-----------------------------------------------------------------------------

SP == INSTANCE StackPool WITH SlotCount <- Capacity + 1

Slot == SP!Slot
Handle(g, s) == [gen |-> g, slot |-> s]
ANAM_NULL == Handle(0, -1)

Value == 1 .. MaxPush
NoValue == 0

\* anam_get(q->pool, h) # NULL
Valid(h) == h # ANAM_NULL /\ generation[h.slot] = h.gen

NoLocals == [new_h |-> ANAM_NULL, head_h |-> ANAM_NULL, tail_h |-> ANAM_NULL,
             next_h |-> ANAM_NULL, data |-> NoValue]

\* anam_queue_create: slot 0 is the dummy node.
Init ==
  /\ head = Handle(0, 0) /\ tail = Handle(0, 0)
  /\ length = 0
  /\ stat = [push_count |-> 0, pop_count |-> 0, push_fails |-> 0, pop_fails |-> 0,
             aba_prevented |-> 0]
  /\ free = [i \in 1 .. Capacity |-> i]
  /\ generation = [s \in Slot |-> 0]
  /\ node_next = [s \in Slot |-> ANAM_NULL]
  /\ node_data = [s \in Slot |-> NoValue]
  /\ pc = [t \in Thread |-> "idle"]
  /\ loc = [t \in Thread |-> NoLocals]
  /\ mode = "open"
  /\ calls = 0
  /\ seen = [t \in Thread |-> {}]

Goto(t, from, to) == pc[t] = from /\ pc' = [pc EXCEPT ![t] = to]
Locals(t, l) == loc' = [loc EXCEPT ![t] = l]
Count(c) == stat' = [stat EXCEPT ![c] = (@ + 1) % StatMod]

\* The handle loaded from tail or head is stale: count it and start over.
Counterfeit(t, from, to) ==
  /\ Goto(t, from, to)
  /\ Count("aba_prevented")
  /\ Locals(t, [NoLocals EXCEPT !.new_h = loc[t].new_h, !.data = loc[t].data])
  /\ UNCHANGED <<ends, length, pool, nodes, client>>

\* A lagging tail is helped to the next node. The outcome of the weak CAS is
\* ignored and the loop starts over.
Help(t, from, to) ==
  /\ tail = loc[t].tail_h
  /\ Goto(t, from, to)
  /\ tail' = loc[t].next_h
  /\ Locals(t, [NoLocals EXCEPT !.new_h = loc[t].new_h, !.data = loc[t].data])
  /\ UNCHANGED <<head, counters, pool, nodes, client>>

HelpFails(t, from, to) ==
  /\ Goto(t, from, to)
  /\ Locals(t, [NoLocals EXCEPT !.new_h = loc[t].new_h, !.data = loc[t].data])
  /\ UNCHANGED shared

-----------------------------------------------------------------------------
(* anam_queue_push *)

PushCall(t) ==
  /\ t \in Producer /\ mode = "open" /\ calls < MaxPush
  /\ Goto(t, "idle", "p_alloc")
  /\ calls' = calls + 1
  /\ Locals(t, [NoLocals EXCEPT !.data = calls + 1])
  /\ UNCHANGED <<ends, counters, pool, nodes, mode>>

PushFull(t) ==
  /\ free = <<>>
  /\ Goto(t, "p_alloc", "idle")
  /\ Count("push_fails")
  /\ Locals(t, NoLocals)
  /\ UNCHANGED <<ends, length, pool, nodes, client>>

PushAlloc(t) ==
  /\ SP!Take
  /\ Goto(t, "p_alloc", "p_init")
  /\ Locals(t, [loc[t] EXCEPT !.new_h = Handle(generation[Head(free)], Head(free))])
  /\ UNCHANGED <<ends, counters, nodes, client>>

\* The rest of alloc_node.
PushInit(t) ==
  LET s == loc[t].new_h.slot IN
  /\ Goto(t, "p_init", "p_tail")
  /\ node_next' = [node_next EXCEPT ![s] = ANAM_NULL]
  /\ node_data' = [node_data EXCEPT ![s] = loc[t].data]
  /\ UNCHANGED <<ends, counters, pool, client, loc>>

PushLoadTail(t) ==
  /\ Goto(t, "p_tail", "p_get")
  /\ Locals(t, [loc[t] EXCEPT !.tail_h = tail])
  /\ UNCHANGED shared

PushTailStale(t) == ~Valid(loc[t].tail_h) /\ Counterfeit(t, "p_get", "p_tail")

PushGetTail(t) ==
  /\ Valid(loc[t].tail_h)
  /\ Goto(t, "p_get", "p_next")
  /\ UNCHANGED <<shared, loc>>

PushLoadNext(t) ==
  /\ Goto(t, "p_next", "p_check")
  /\ Locals(t, [loc[t] EXCEPT !.next_h = node_next[loc[t].tail_h.slot]])
  /\ UNCHANGED shared

PushTailMoved(t) == loc[t].tail_h # tail /\ Counterfeit(t, "p_check", "p_tail")

PushCheckTail(t) ==
  /\ loc[t].tail_h = tail
  /\ Goto(t, "p_check", IF loc[t].next_h = ANAM_NULL THEN "p_link" ELSE "p_help")
  /\ UNCHANGED <<shared, loc>>

\* Mutant: a plain store where the code has a CAS.
PushLinkStore(t) ==
  LET s == loc[t].tail_h.slot IN
  /\ Goto(t, "p_link", "p_last")
  /\ node_next' = [node_next EXCEPT ![s] = loc[t].new_h]
  /\ Locals(t, [NoLocals EXCEPT !.new_h = loc[t].new_h])
  /\ UNCHANGED <<ends, counters, pool, node_data, client>>

\* The CAS compares the link with ANAM_NULL, which carries no generation.
PushLink(t) ==
  LET s == loc[t].tail_h.slot IN
  /\ Goto(t, "p_link", "p_last")
  /\ node_next[s] = ANAM_NULL
  /\ node_next' = [node_next EXCEPT ![s] = loc[t].new_h]
  /\ Locals(t, [NoLocals EXCEPT !.new_h = loc[t].new_h])
  /\ UNCHANGED <<ends, counters, pool, node_data, client>>

\* Mutant: the CAS is retried without loading tail again.
PushRetryNoReload(t) ==
  /\ Goto(t, "p_link", "p_link")
  /\ UNCHANGED <<shared, loc>>

\* The weak CAS fails, because a link is there or spuriously.
PushRetry(t) ==
  /\ Goto(t, "p_link", "p_tail")
  /\ Locals(t, [loc[t] EXCEPT !.tail_h = ANAM_NULL])
  /\ UNCHANGED shared

PushHelp(t) == Help(t, "p_help", "p_tail")
PushHelpFails(t) == HelpFails(t, "p_help", "p_tail")

\* After its link push loads tail again and moves whatever it finds there to
\* its own node.
PushLoadLast(t) ==
  /\ Goto(t, "p_last", "p_swing")
  /\ Locals(t, [loc[t] EXCEPT !.tail_h = tail])
  /\ UNCHANGED shared

PushSwing(t) ==
  /\ Goto(t, "p_swing", "p_length")
  /\ tail' = IF tail = loc[t].tail_h THEN loc[t].new_h ELSE tail
  /\ Locals(t, NoLocals)
  /\ UNCHANGED <<head, counters, pool, nodes, client>>

\* Mutant: length is forgotten.
PushLengthSkip(t) ==
  /\ Goto(t, "p_length", "p_count")
  /\ UNCHANGED <<shared, loc>>

PushLength(t) ==
  /\ Goto(t, "p_length", "p_count")
  /\ length' = (length + 1) % CountMod
  /\ UNCHANGED <<ends, stat, pool, nodes, client, loc>>

PushReturn(t) ==
  /\ Goto(t, "p_count", "idle")
  /\ Count("push_count")
  /\ UNCHANGED <<ends, length, pool, nodes, client, loc>>

-----------------------------------------------------------------------------
(* anam_queue_pop, anam_queue_peek (k_ labels) and anam_queue_empty (e_     *)
(* labels), which begin alike                                              *)

LoadHead(t, from, to) ==
  /\ Goto(t, from, to)
  /\ Locals(t, [loc[t] EXCEPT !.head_h = head])
  /\ UNCHANGED shared

GetHead(t, from, to) ==
  /\ Valid(loc[t].head_h)
  /\ Goto(t, from, to)
  /\ UNCHANGED <<shared, loc>>

LoadNext(t, from, to) ==
  /\ Goto(t, from, to)
  /\ Locals(t, [loc[t] EXCEPT !.next_h = node_next[loc[t].head_h.slot]])
  /\ UNCHANGED shared

GetNext(t, from, to) ==
  /\ Valid(loc[t].next_h)
  /\ Goto(t, from, to)
  /\ UNCHANGED <<shared, loc>>

PopCall(t) ==
  /\ t \in Consumer /\ mode = "open"
  /\ Goto(t, "idle", "o_head")
  /\ UNCHANGED <<shared, loc>>

PopLoadHead(t) == LoadHead(t, "o_head", "o_tail")

PopLoadTail(t) ==
  /\ Goto(t, "o_tail", "o_get")
  /\ Locals(t, [loc[t] EXCEPT !.tail_h = tail])
  /\ UNCHANGED shared

PopHeadStale(t) == ~Valid(loc[t].head_h) /\ Counterfeit(t, "o_get", "o_head")
PopGetHead(t) == GetHead(t, "o_get", "o_next")
PopLoadNext(t) == LoadNext(t, "o_next", "o_check")
PopHeadMoved(t) == loc[t].head_h # head /\ Counterfeit(t, "o_check", "o_head")

\* The queue is empty: pop returns false, which ends the loop of destroy.
PopEmpty(t) ==
  /\ loc[t].head_h = head /\ loc[t].head_h = loc[t].tail_h /\ loc[t].next_h = ANAM_NULL
  /\ Goto(t, "o_check", IF mode = "draining" THEN "d_release" ELSE "idle")
  /\ Count("pop_fails")
  /\ Locals(t, NoLocals)
  /\ UNCHANGED <<ends, length, pool, nodes, client>>

\* Mutant: pop does not look at tail before it moves head.
PopCheckHeadOnly(t) ==
  /\ loc[t].head_h = head
  /\ loc[t].head_h = loc[t].tail_h => loc[t].next_h # ANAM_NULL
  /\ Goto(t, "o_check", "o_getn")
  /\ UNCHANGED <<shared, loc>>

PopCheckHead(t) ==
  /\ loc[t].head_h = head
  /\ loc[t].head_h = loc[t].tail_h => loc[t].next_h # ANAM_NULL
  /\ Goto(t, "o_check", IF loc[t].head_h = loc[t].tail_h THEN "o_help" ELSE "o_getn")
  /\ UNCHANGED <<shared, loc>>

PopHelp(t) == Help(t, "o_help", "o_head")
PopHelpFails(t) == HelpFails(t, "o_help", "o_head")
PopNextStale(t) == ~Valid(loc[t].next_h) /\ Counterfeit(t, "o_getn", "o_head")
PopGetNext(t) == GetNext(t, "o_getn", "o_read")

\* Mutant: the item is taken from the dummy instead of its successor.
PopReadDummy(t) ==
  /\ Goto(t, "o_read", "o_cas")
  /\ Locals(t, [loc[t] EXCEPT !.data = IF mode = "draining" THEN NoValue
                                       ELSE node_data[loc[t].head_h.slot]])
  /\ UNCHANGED shared

\* destroy passes no buffer.
PopRead(t) ==
  /\ Goto(t, "o_read", "o_cas")
  /\ Locals(t, [loc[t] EXCEPT !.data = IF mode = "draining" THEN NoValue
                                       ELSE node_data[loc[t].next_h.slot]])
  /\ UNCHANGED shared

\* Mutant: a plain store where the code has a CAS.
PopUnlinkStore(t) ==
  /\ Goto(t, "o_cas", "o_end")
  /\ head' = loc[t].next_h
  /\ Locals(t, [loc[t] EXCEPT !.tail_h = ANAM_NULL, !.next_h = ANAM_NULL])
  /\ UNCHANGED <<tail, counters, pool, nodes, client>>

PopUnlink(t) ==
  /\ head = loc[t].head_h
  /\ Goto(t, "o_cas", "o_end")
  /\ head' = loc[t].next_h
  /\ Locals(t, [loc[t] EXCEPT !.tail_h = ANAM_NULL, !.next_h = ANAM_NULL])
  /\ UNCHANGED <<tail, counters, pool, nodes, client>>

\* The weak CAS fails, because head moved or spuriously.
PopRetry(t) ==
  /\ Goto(t, "o_cas", "o_head")
  /\ Locals(t, NoLocals)
  /\ UNCHANGED shared

\* anam_release(q->pool, h): validation and end of the generation, then the push.
EndGeneration(t, h, from, to, otherwise) ==
  /\ Goto(t, from, IF Valid(h) THEN to ELSE otherwise)
  /\ IF Valid(h) THEN SP!EndGeneration(h.slot) ELSE UNCHANGED pool
  /\ UNCHANGED <<ends, counters, nodes, client, loc>>

\* Mutant: the slot is not pushed.
PushFreeSkip(t, h, from, to) ==
  /\ Goto(t, from, to)
  /\ UNCHANGED <<shared, loc>>

PushFree(t, h, from, to) ==
  /\ Goto(t, from, to)
  /\ SP!GiveBack(h.slot)
  /\ UNCHANGED <<ends, counters, nodes, client, loc>>

PopEndGeneration(t) == EndGeneration(t, loc[t].head_h, "o_end", "o_free", "o_length")
PopFree(t) == PushFree(t, loc[t].head_h, "o_free", "o_length")

\* Mutant: the counter is not a size_t.
PopLengthSigned(t) ==
  /\ Goto(t, "o_length", "o_count")
  /\ length' = length - 1
  /\ Locals(t, [loc[t] EXCEPT !.head_h = ANAM_NULL])
  /\ UNCHANGED <<ends, stat, pool, nodes, client>>

PopLength(t) ==
  /\ Goto(t, "o_length", "o_count")
  /\ length' = (length - 1) % CountMod
  /\ Locals(t, [loc[t] EXCEPT !.head_h = ANAM_NULL])
  /\ UNCHANGED <<ends, stat, pool, nodes, client>>

PopReturn(t) ==
  /\ Goto(t, "o_count", IF mode = "draining" THEN "o_head" ELSE "idle")
  /\ Count("pop_count")
  /\ Locals(t, NoLocals)
  /\ UNCHANGED <<ends, length, pool, nodes, client>>

PeekCall(t) ==
  /\ t \in Observer /\ mode = "open"
  /\ \E label \in {"k_head", "e_head"} : Goto(t, "idle", label)
  /\ UNCHANGED <<shared, loc>>

PeekLoadHead(t) == LoadHead(t, "k_head", "k_get") \/ LoadHead(t, "e_head", "e_get")
PeekGetHead(t) == GetHead(t, "k_get", "k_next") \/ GetHead(t, "e_get", "e_next")
PeekLoadNext(t) == LoadNext(t, "k_next", "k_getn") \/ LoadNext(t, "e_next", "e_ret")
PeekGetNext(t) == GetNext(t, "k_getn", "k_read")

Answer(t) == Goto(t, pc[t], "idle") /\ Locals(t, NoLocals) /\ UNCHANGED shared

\* Mutant: the item is taken from the dummy instead of its successor.
PeekReturnDummy(t, v) ==
  /\ \/ pc[t] = "k_get" /\ ~Valid(loc[t].head_h) /\ v = NoValue
     \/ pc[t] = "k_getn" /\ ~Valid(loc[t].next_h) /\ v = NoValue
     \/ pc[t] = "k_read" /\ v = node_data[loc[t].head_h.slot]
  /\ Answer(t)

\* peek returns the item it copied out, or false (NoValue) when the head is
\* stale, has no successor, or the successor is stale.
PeekReturn(t, v) ==
  /\ \/ pc[t] = "k_get" /\ ~Valid(loc[t].head_h) /\ v = NoValue
     \/ pc[t] = "k_getn" /\ ~Valid(loc[t].next_h) /\ v = NoValue
     \/ pc[t] = "k_read" /\ v = node_data[loc[t].next_h.slot]
  /\ Answer(t)

\* Mutant: head is compared with a tail that may lag.
EmptyReturnByTail(t, is_empty) ==
  /\ \/ pc[t] = "e_get" /\ ~Valid(loc[t].head_h) /\ is_empty
     \/ pc[t] = "e_ret" /\ is_empty = (loc[t].head_h = tail)
  /\ Answer(t)

\* empty returns true when the head is stale or has no successor.
EmptyReturn(t, is_empty) ==
  /\ \/ pc[t] = "e_get" /\ ~Valid(loc[t].head_h) /\ is_empty
     \/ pc[t] = "e_ret" /\ is_empty = (loc[t].next_h = ANAM_NULL)
  /\ Answer(t)

-----------------------------------------------------------------------------
(* anam_queue_destroy, called when no other call is in progress: it pops   *)
(* until the queue is empty and then releases the dummy.                   *)

Destroy(t) ==
  /\ t \in Consumer /\ mode = "open"
  /\ \A u \in Thread : pc[u] = "idle"
  /\ Goto(t, "idle", "o_head")
  /\ mode' = "draining"
  /\ UNCHANGED <<ends, counters, pool, nodes, calls, loc>>

\* Mutant: the dummy is forgotten.
DestroyKeepDummy(t) == Goto(t, "d_release", "d_done") /\ UNCHANGED <<shared, loc>>

DestroyRelease(t) == EndGeneration(t, head, "d_release", "d_free", "d_done")
DestroyFree(t) == PushFree(t, head, "d_free", "d_done")

DestroyReturn(t) ==
  /\ Goto(t, "d_done", "idle")
  /\ mode' = "closed"
  /\ UNCHANGED <<ends, counters, pool, nodes, calls, loc>>

-----------------------------------------------------------------------------

PushStep(t) ==
  \/ PushFull(t) \/ PushAlloc(t) \/ PushInit(t) \/ PushLoadTail(t)
  \/ PushTailStale(t) \/ PushGetTail(t) \/ PushLoadNext(t)
  \/ PushTailMoved(t) \/ PushCheckTail(t) \/ PushLink(t) \/ PushRetry(t)
  \/ PushHelp(t) \/ PushHelpFails(t)
  \/ PushLoadLast(t) \/ PushSwing(t) \/ PushLength(t) \/ PushReturn(t)

PopStep(t) ==
  \/ PopLoadHead(t) \/ PopLoadTail(t) \/ PopHeadStale(t) \/ PopGetHead(t)
  \/ PopLoadNext(t) \/ PopHeadMoved(t) \/ PopEmpty(t) \/ PopCheckHead(t)
  \/ PopHelp(t) \/ PopHelpFails(t)
  \/ PopNextStale(t) \/ PopGetNext(t) \/ PopRead(t) \/ PopUnlink(t) \/ PopRetry(t)
  \/ PopEndGeneration(t) \/ PopFree(t) \/ PopLength(t) \/ PopReturn(t)

PeekStep(t) ==
  \/ PeekLoadHead(t) \/ PeekGetHead(t) \/ PeekLoadNext(t) \/ PeekGetNext(t)
  \/ \E v \in Value \cup {NoValue} : PeekReturn(t, v)
  \/ \E is_empty \in BOOLEAN : EmptyReturn(t, is_empty)

DestroyStep(t) == DestroyRelease(t) \/ DestroyFree(t) \/ DestroyReturn(t)

CallStep(t) == PushStep(t) \/ PopStep(t) \/ PeekStep(t) \/ DestroyStep(t)
ClientStep(t) == PushCall(t) \/ PopCall(t) \/ PeekCall(t) \/ Destroy(t)

-----------------------------------------------------------------------------
(* The queue as a sequence: the nodes from head on, and the data of all    *)
(* but the first.                                                          *)

Chain ==
  LET walk[n \in 0 .. Capacity] ==
        IF n = 0 THEN <<head.slot>>
        ELSE LET c == walk[n - 1]
                 h == node_next[c[Len(c)]]
             IN IF h = ANAM_NULL THEN c ELSE Append(c, h.slot)
  IN walk[Capacity]

Contents == [i \in 1 .. Len(Chain) - 1 |-> node_data[Chain[i + 1]]]
Front == IF Contents = <<>> THEN NoValue ELSE Contents[1]

Popping == {"o_head", "o_tail", "o_get", "o_next", "o_check", "o_help", "o_getn",
            "o_read", "o_cas"}
Testing == {"e_head", "e_get", "e_next", "e_ret"}
Peeking == {"k_head", "k_get", "k_next", "k_getn", "k_read"}

\* History: the fronts a peek has lived through, and whether a pop or an empty
\* has lived through an empty queue.
Watch ==
  seen' = [t \in Thread |->
             CASE pc'[t] \in Peeking -> seen[t] \cup {Front'}
               [] pc'[t] \in Popping \cup Testing -> seen[t] \cup ({Front'} \cap {NoValue})
               [] OTHER -> {}]

Next == (\E t \in Thread : CallStep(t) \/ ClientStep(t)) /\ Watch

Spec == Init /\ [][Next]_vars

\* A thread inside a call keeps running, and a weak CAS that could succeed
\* again and again does not fail spuriously for ever. Nobody has to call.
CasSucceeds(t) == PushLink(t) \/ PushHelp(t) \/ PopHelp(t) \/ PopUnlink(t)

Fairness ==
  \A t \in Thread : WF_vars(CallStep(t) /\ Watch) /\ SF_vars(CasSucceeds(t) /\ Watch)

FairSpec == Spec /\ Fairness

-----------------------------------------------------------------------------
(* Properties *)

Handles == [gen : 0 .. GenMod - 1, slot : Slot] \cup {ANAM_NULL}
PC == {"idle", "p_alloc", "p_init", "p_tail", "p_get", "p_next", "p_check", "p_link",
       "p_help", "p_last", "p_swing", "p_length", "p_count", "o_end", "o_free",
       "o_length", "o_count", "d_release", "d_free", "d_done"}
      \cup Popping \cup Testing \cup Peeking

\* Every variable keeps its type.
TypeOK ==
  /\ head \in Handles /\ tail \in Handles
  /\ length \in 0 .. CountMod - 1
  /\ stat \in [{"push_count", "pop_count", "push_fails", "pop_fails", "aba_prevented"}
                 -> 0 .. StatMod - 1]
  /\ free \in Seq(Slot)
  /\ generation \in [Slot -> 0 .. GenMod - 1]
  /\ node_next \in [Slot -> Handles]
  /\ node_data \in [Slot -> Value \cup {NoValue}]
  /\ pc \in [Thread -> PC]
  /\ loc \in [Thread -> [new_h : Handles, head_h : Handles, tail_h : Handles,
                         next_h : Handles, data : Value \cup {NoValue}]]
  /\ mode \in {"open", "draining", "closed"}
  /\ calls \in 0 .. MaxPush
  /\ seen \in [Thread -> SUBSET (Value \cup {NoValue})]

Holding(t) ==   \* the slots only t can reach
  IF pc[t] \in {"p_init", "p_tail", "p_get", "p_next", "p_check", "p_link", "p_help"}
  THEN {loc[t].new_h.slot}
  ELSE IF pc[t] \in {"o_end", "o_free"} THEN {loc[t].head_h.slot} ELSE {}

Occurrences(s) ==
  Cardinality({i \in 1 .. Len(free) : free[i] = s})
    + Cardinality({i \in 1 .. Len(Chain) : Chain[i] = s})
    + Cardinality({t \in Thread : s \in Holding(t)})

\* No slot is lost and none is in two places: each is on the free list, or a
\* node of the list, or in the hands of one push that has not linked it yet or
\* one pop that has not given it back.
SlotsConserved == mode = "open" => \A s \in Slot : Occurrences(s) = 1

\* tail names a node of the list by its current generation: it never falls
\* behind head, so a push always finds a node to link to.
TailInList == mode = "open" => Valid(tail) /\ tail.slot \in {Chain[i] : i \in 1 .. Len(Chain)}

\* "The pending CAS fails because the handle remembers the old generation":
\* a push is never about to link its node to a slot that has been reused.
LinkNeverStale ==
  \A t \in Thread :
    pc[t] = "p_link" /\ node_next[loc[t].tail_h.slot] = ANAM_NULL => Valid(loc[t].tail_h)

\* The pop that moved head is the only one to release the old dummy, and finds
\* its generation unchanged (the rule AnamPool asks of its clients).
ReleasesOnce ==
  \A t \in Thread :
    pc[t] = "o_end" =>
      /\ Valid(loc[t].head_h)
      /\ \A u \in Thread \ {t} : pc[u] = "o_end" => loc[u].head_h # loc[t].head_h

\* length and the difference of push_count and pop_count are the number of
\* items up to the calls that are between their CAS and their fetch_add.
At(labels) == Cardinality({t \in Thread : pc[t] \in labels})
CountersExact ==
  LET linked == At({"p_last", "p_swing", "p_length"})
      unlinked == At({"o_end", "o_free", "o_length"})
  IN /\ (length + linked - unlinked - Len(Contents)) % CountMod = 0
     /\ (stat["push_count"] + linked + At({"p_count"})
           - stat["pop_count"] - unlinked - At({"o_count"}) - Len(Contents)) % StatMod = 0

\* anam_queue_destroy gives every node back to the pool.
DestroyReleasesAll == mode = "closed" => {free[i] : i \in 1 .. Len(free)} = Slot

\* However other threads push and pop, peek is wrong only if a pop moved head after peek
\* loaded it. Otherwise the item it returns was at the front at some moment of the call,
\* and it returns false only if the queue was empty at some moment of it.
PeekFront ==
  [][\A t \in Thread : \A v \in Value \cup {NoValue} :
       PeekReturn(t, v) => v \in seen[t] \/ loc[t].head_h # head]_vars

\* The same for empty: unless a pop moved head after empty loaded it, empty returns true
\* only if the queue was empty at some moment of the call, and false only if it holds items.
EmptyHonest ==
  [][\A t \in Thread : \A is_empty \in BOOLEAN :
       EmptyReturn(t, is_empty) =>
         \/ IF is_empty THEN NoValue \in seen[t] ELSE Contents # <<>>
         \/ loc[t].head_h # head]_vars

\* Every call returns once the competing calls are finitely many (MaxPush
\* bounds the pushes).
CallsReturn == \A t \in Thread : pc[t] # "idle" ~> pc[t] = "idle"

\* The queue that the nodes stand for; the link of push and the move of head by
\* pop are the moments at which they take effect.
Fifo == INSTANCE FifoQueue WITH
  items <- Contents,
  op <- [t \in Thread |->
           CASE pc[t] \in {"p_alloc", "p_init", "p_tail", "p_get", "p_next", "p_check",
                           "p_link", "p_help"} -> "push"
             [] pc[t] \in {"p_last", "p_swing", "p_length", "p_count"} -> "pushed"
             [] pc[t] \in Popping /\ mode = "open" -> "pop"
             [] pc[t] \in {"o_end", "o_free", "o_length", "o_count"} /\ mode = "open" -> "popped"
             [] OTHER -> "idle"],
  val <- [t \in Thread |-> IF pc[t] \in Popping THEN NoValue ELSE loc[t].data],
  sawEmpty <- [t \in Thread |-> pc[t] \in Popping /\ mode = "open" /\ NoValue \in seen[t]],
  open <- mode = "open"

\* anam_queue_push and anam_queue_pop are linearizable: items leave in the order
\* in which they were linked, none twice and none invented, and pop returns false
\* only if the queue was empty at some moment of the call.
ImplementsFifo == Fifo!Spec

=============================================================================
