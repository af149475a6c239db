----------------------------- MODULE HandlePool -----------------------------
(***************************************************************************)
(* What the pool promises (include/anamnesis.h), with no free list, no     *)
(* generations and no counters: each slot lives through a sequence of      *)
(* incarnations, one handle is issued per incarnation, and a handle opens  *)
(* its slot exactly while its own incarnation is alive.                    *)
(***************************************************************************)
EXTENDS Integers

CONSTANTS Thread, Slot

VARIABLES
  status,   \* life-cycle position of each slot
  inc,      \* incarnation of each slot
  issued,   \* handles given out, as <<slot, incarnation>>
  ptr       \* the handle each thread has an open pointer for, or Closed

vars == <<status, inc, issued, ptr>>

Closed == <<-1, -1>>

Init ==
  /\ status = [s \in Slot |-> "free"]
  /\ inc = [s \in Slot |-> 0]
  /\ issued = {}
  /\ ptr = [t \in Thread |-> Closed]

\* The slot leaves the free set for exactly one allocation.
Take(s) ==
  /\ status[s] = "free"
  /\ status' = [status EXCEPT ![s] = "taken"]
  /\ UNCHANGED <<inc, issued, ptr>>

\* The allocation returns the one handle of this incarnation.
Issue(s) ==
  /\ status[s] = "taken"
  /\ <<s, inc[s]>> \notin issued
  /\ status' = [status EXCEPT ![s] = "live"]
  /\ issued' = issued \cup {<<s, inc[s]>>}
  /\ UNCHANGED <<inc, ptr>>

\* A release ends the incarnation; only a live slot can be released.
Retire(s) ==
  /\ status[s] = "live"
  /\ status' = [status EXCEPT ![s] = "retired"]
  /\ inc' = [inc EXCEPT ![s] = @ + 1]
  /\ UNCHANGED <<issued, ptr>>

Recycle(s) ==
  /\ status[s] = "retired"
  /\ status' = [status EXCEPT ![s] = "free"]
  /\ UNCHANGED <<inc, issued, ptr>>

\* A handle opens its slot only while its own incarnation is alive.
Open(t, r) ==
  /\ status[r[1]] = "live" /\ inc[r[1]] = r[2]
  /\ ptr' = [ptr EXCEPT ![t] = r]
  /\ UNCHANGED <<status, inc, issued>>

Close(t) ==
  /\ ptr' = [ptr EXCEPT ![t] = Closed]
  /\ UNCHANGED <<status, inc, issued>>

Next ==
  \/ \E s \in Slot : Take(s) \/ Issue(s) \/ Retire(s) \/ Recycle(s)
  \/ \E t \in Thread : Close(t) \/ \E r \in issued : Open(t, r)

Spec == Init /\ [][Next]_vars
=============================================================================
