---------------------------- MODULE MCAnamTrace -----------------------------
EXTENDS AnamTrace
CONSTANTS MaxFaulty, MaxSound   \* bounds: events of a thread with and without faults
MCMaxRecord == [t \in Thread |-> IF t \in Faulty THEN MaxFaulty ELSE MaxSound]
=============================================================================
