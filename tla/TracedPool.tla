----------------------------- MODULE TracedPool -----------------------------
(***************************************************************************)
(* A pool built with ANAM_TRACE_ENABLED: anam_alloc, anam_release and      *)
(* anam_get of AnamPool report to the tracer of AnamTrace. A hook runs in  *)
(* the middle of its call, between two accesses to shared memory, and the  *)
(* timestamp is taken inside it, so other threads run between the change   *)
(* of the pool and the entry that reports it.                              *)
(***************************************************************************)
EXTENDS AnamPool

CONSTANTS
  BufferSize, IndexMod, IdMod,   \* the tracer, see AnamTrace
  MaxEvent, MaxDrop              \* bounds: a thread makes no call after it has recorded
                                 \* MaxEvent events, or after MaxDrop were dropped

ASSUME TracedAssumption ==
  /\ BufferSize \in Nat \ {0} /\ IndexMod \in Nat
  /\ BufferSize < IndexMod /\ IndexMod % BufferSize = 0
  /\ IdMod \in Nat \ {0}
  /\ {MaxEvent, MaxDrop} \subseteq Nat \ {0}

VARIABLES
  active, next_thread_id, tls_buffer, file, logged, inits,   \* AnamTrace
  hook,      \* the event a thread has to report before it goes on
  exited,    \* the threads that flushed their buffer and ended
  trail,     \* history: the entries about each slot in the order of their timestamps
  dropped    \* history: the number of events that were dropped

Tr == INSTANCE AnamTrace WITH
        Faults <- {}, Faulty <- {}, MaxRecord <- [t \in Thread |-> MaxEvent],
        MaxInit <- 1, MaxBuffer <- Cardinality(Thread)

tracer == <<active, next_thread_id, tls_buffer, file, logged, inits>>
tvars == <<vars, tracer, hook, exited, trail, dropped>>

\* An entry of the trace. The incarnation is history.
Event(op, r) == [op |-> op, slot |-> r.h.slot, gen |-> r.h.gen, inc |-> r.inc]
NoEvent == Event("none", NoRef)

TInit ==
  /\ Init /\ Tr!Init
  /\ hook = [t \in Thread |-> NoEvent]
  /\ exited = {}
  /\ trail = [s \in Slot |-> <<>>]
  /\ dropped = 0

-----------------------------------------------------------------------------

\* Mutant: anam_release reports after it has pushed the slot.
HookOfLateRelease(t) ==
  CASE pc[t] = "a_count" -> Event("alloc", Issued(t))
    [] pc[t] = "r_free" -> Event("release", arg[t])
    [] OTHER -> NoEvent

\* What a step inside anam_alloc or anam_release leaves to report.
HookOf(t) ==
  CASE pc[t] = "a_count" -> Event("alloc", Issued(t))
    [] pc[t] = "r_bump" -> Event("release", arg[t])
    [] OTHER -> NoEvent

\* anam_get reports every handle it compares with the true generation.
HookOfGet(r) == Event(IF Validated(r.h) THEN "get_valid" ELSE "get_stale", r)

Announce(t, e) == hook' = [hook EXCEPT ![t] = e]

Calls(t) == t \notin exited /\ logged[t] < MaxEvent /\ dropped < MaxDrop

\* Clients present handles that were issued: others reach no hook.
PoolStep(t) ==
  /\ hook[t] = NoEvent
  /\ \/ InCallStep(t) /\ Announce(t, HookOf(t))
     \/ Calls(t) /\ AllocCall(t) /\ UNCHANGED hook
     \/ Calls(t) /\ (\E r \in issued : ReleaseCall(t, r)) /\ UNCHANGED hook
     \/ /\ Calls(t) /\ t \in Readers
        /\ \E r \in issued : (GetValid(t, r) \/ GetStale(t, r)) /\ Announce(t, HookOfGet(r))
     \/ Use(t) /\ UNCHANGED hook
  /\ UNCHANGED <<tracer, exited, trail, dropped>>

Report(t) ==
  /\ hook[t] # NoEvent
  /\ Tr!Record(t) \/ Tr!RecordFirst(t)
  /\ trail' = [trail EXCEPT ![hook[t].slot] =
                 Append(@, [event |-> hook[t], entry |-> Tr!Entry(t, logged[t] + 1)])]
  /\ Announce(t, NoEvent)
  /\ UNCHANGED <<vars, exited, dropped>>

ReportDropped(t) ==
  /\ hook[t] # NoEvent
  /\ Tr!RecordNothing(t)
  /\ Announce(t, NoEvent)
  /\ dropped' = dropped + 1
  /\ UNCHANGED <<vars, exited, trail>>

\* "Should be called by worker threads before pthread_exit()."
Exit(t) ==
  /\ pc[t] = "idle" /\ hook[t] = NoEvent /\ t \notin exited
  /\ Tr!FlushThread(t)
  /\ exited' = exited \cup {t}
  /\ UNCHANGED <<vars, hook, trail, dropped>>

Trace(t) ==
  /\ pc[t] = "idle" /\ hook[t] = NoEvent
  /\ Tr!anam_trace_init \/ Tr!anam_trace_shutdown(t)
  /\ UNCHANGED <<vars, hook, exited, trail, dropped>>

TNext ==
  \E t \in Thread : PoolStep(t) \/ Report(t) \/ ReportDropped(t) \/ Exit(t) \/ Trace(t)

TSpec == TInit /\ [][TNext]_tvars

-----------------------------------------------------------------------------
(* Properties *)

\* Where in the life of a slot an entry belongs.
Moment(e) ==
  3 * e.inc + (CASE e.op = "alloc" -> 0 [] e.op = "get_valid" -> 1 [] OTHER -> 2)

\* Sorted by timestamp, as analyze_traces.py sorts them, the entries of all
\* threads tell the life of every slot: an incarnation is allocated, read while
\* it is live and released before the next one is allocated, and a stale read of
\* it is reported only after its release. Events that were dropped leave gaps.
TraceTellsLives ==
  \A s \in Slot : \A j \in DOMAIN trail[s] : \A i \in 1 .. j - 1 :
    LET a == trail[s][i].event
        b == trail[s][j].event
    IN \/ b.op = "get_stale"
       \/ Moment(a) < Moment(b)
       \/ a.op = "get_valid" /\ b.op = "get_valid" /\ a.inc = b.inc

\* The entries with this operation that are in a file or will be at the next flush.
Told(op) ==
  {e \in UNION {{trail[s][i] : i \in DOMAIN trail[s]} : s \in Slot} :
     e.event.op = op /\ \E t \in Thread :
       e.entry \in Tr!InFiles(t) \cup Tr!SeqSet(Tr!Unflushed(t))}

\* With no event dropped, at rest the trace accounts for the counters of
\* anam_pool_stats, whichever threads have exited and whoever shut tracing down.
TraceAccounts ==
  dropped = 0 /\ Quiescent /\ (\A t \in Thread : hook[t] = NoEvent) =>
    /\ Cardinality(Told("alloc")) % CountMod = alloc_count
    /\ Cardinality(Told("release")) % CountMod = release_count

=============================================================================
