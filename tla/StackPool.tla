----------------------------- MODULE StackPool ------------------------------
(***************************************************************************)
(* What the pool of src/anamnesis.c amounts to for the queue built on it:  *)
(* a stack of free slots and a generation per slot, each changed in one    *)
(* step. AnamPool implements it; AnamQueue takes its steps on it.          *)
(***************************************************************************)
EXTENDS Integers, Sequences

CONSTANTS SlotCount, GenMod

VARIABLES free, generation

Slot == 0 .. SlotCount - 1
IsFree(s) == \E i \in 1 .. Len(free) : free[i] = s

\* anam_pool_create pushes the slots in reverse order.
Init ==
  /\ free = [i \in 1 .. SlotCount |-> i - 1]
  /\ generation = [s \in Slot |-> 0]

\* anam_alloc
Take ==
  /\ free # <<>>
  /\ free' = Tail(free)
  /\ UNCHANGED generation

\* anam_release ends the generation first and makes the slot available later.
EndGeneration(s) ==
  /\ generation' = [generation EXCEPT ![s] = (@ + 1) % GenMod]
  /\ UNCHANGED free

GiveBack(s) ==
  /\ free' = <<s>> \o free
  /\ UNCHANGED generation

Next == Take \/ \E s \in Slot : ~IsFree(s) /\ (EndGeneration(s) \/ GiveBack(s))

Spec == Init /\ [][Next]_<<free, generation>>

=============================================================================
