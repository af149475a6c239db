----------------------------- MODULE FifoQueue ------------------------------
(***************************************************************************)
(* What include/anamnesis_queue.h promises of push and pop: a bounded FIFO *)
(* queue whose operations take effect at one moment between call and       *)
(* return. No nodes, no handles, no counters.                              *)
(***************************************************************************)
EXTENDS Integers, Sequences, FiniteSets

CONSTANTS Thread, Capacity, Value, NoValue

VARIABLES
  items,     \* the queued values, front first
  op,        \* what each thread is doing
  val,       \* the value a thread is pushing or has popped
  sawEmpty,  \* the queue was empty at some moment of the thread's pop
  open       \* FALSE once the queue is being destroyed

vars == <<items, op, val, sawEmpty, open>>

Init ==
  /\ items = <<>>
  /\ op = [t \in Thread |-> "idle"]
  /\ val = [t \in Thread |-> NoValue]
  /\ sawEmpty = [t \in Thread |-> FALSE]
  /\ open = TRUE

Step(t, from, to) == op[t] = from /\ op' = [op EXCEPT ![t] = to]

PushCall(t, v) ==
  /\ open
  /\ Step(t, "idle", "push")
  /\ val' = [val EXCEPT ![t] = v]
  /\ UNCHANGED <<items, open>>

PushDo(t) ==
  /\ Step(t, "push", "pushed")
  /\ items' = Append(items, val[t])
  /\ val' = [val EXCEPT ![t] = NoValue]
  /\ UNCHANGED open

\* The other calls that are in the middle of putting an item in or taking one out.
InFlight(t) == {u \in Thread \ {t} : op[u] \in {"push", "popped"}}

\* A push may fail only when the queued items and the items in flight fill the queue.
PushFull(t) ==
  /\ Step(t, "push", "idle")
  /\ Len(items) + Cardinality(InFlight(t)) >= Capacity
  /\ val' = [val EXCEPT ![t] = NoValue]
  /\ UNCHANGED <<items, open>>

PopCall(t) == open /\ Step(t, "idle", "pop") /\ UNCHANGED <<items, val, open>>

PopDo(t) ==
  /\ items # <<>>
  /\ Step(t, "pop", "popped")
  /\ items' = Tail(items)
  /\ val' = [val EXCEPT ![t] = Head(items)]
  /\ UNCHANGED open

PopEmpty(t) ==
  /\ sawEmpty[t]
  /\ Step(t, "pop", "idle")
  /\ UNCHANGED <<items, val, open>>

Return(t) ==
  /\ op[t] \in {"pushed", "popped"}
  /\ op' = [op EXCEPT ![t] = "idle"]
  /\ val' = [val EXCEPT ![t] = NoValue]
  /\ UNCHANGED <<items, open>>

\* Between calls the owner may destroy the queue; what is left is discarded.
Close ==
  /\ open /\ \A t \in Thread : op[t] = "idle"
  /\ open' = FALSE
  /\ UNCHANGED <<items, op, val>>

Discard ==
  /\ ~open /\ items # <<>>
  /\ items' = Tail(items)
  /\ UNCHANGED <<op, val, open>>

\* Every thread inside a pop notices each moment at which the queue is empty.
Notice ==
  sawEmpty' = [t \in Thread |->
                 op'[t] = "pop" /\ (items' = <<>> \/ (op[t] = "pop" /\ sawEmpty[t]))]

Next ==
  /\ \/ \E t \in Thread :
          \/ \E v \in Value : PushCall(t, v)
          \/ PushDo(t) \/ PushFull(t)
          \/ PopCall(t) \/ PopDo(t) \/ PopEmpty(t)
          \/ Return(t)
     \/ Close \/ Discard
  /\ Notice

Spec == Init /\ [][Next]_vars
=============================================================================
