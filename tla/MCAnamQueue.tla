---------------------------- MODULE MCAnamQueue -----------------------------
EXTENDS AnamQueue, TLC
Symmetry == Permutations(Producer) \cup Permutations(Consumer)

\* push_fails, pop_fails and aba_prevented are written and never read: states that
\* differ only in them have the same future.
View == <<ends, length, stat.push_count, stat.pop_count, pool, nodes, client, pc, loc, seen>>
=============================================================================
