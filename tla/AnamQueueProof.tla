--------------------------- MODULE AnamQueueProof ---------------------------
(***************************************************************************)
(* The queue of AnamQueue for every number of threads, nodes and calls:    *)
(*  - types, and that no call follows a null handle;                       *)
(*  - the list of nodes and the places of the slots, the handles that are  *)
(*    in use, and what a pop has read: the invariant QueueInv, as long as  *)
(*    no push links to a reused slot and no generation wraps;              *)
(*  - one producer: tail stays at the end of the list, so no link is stale *)
(*    and, with fewer pushes than generations, nothing wraps;              *)
(*  - the counters;                                                        *)
(*  - the refinement of FifoQueue;                                         *)
(*  - peek and empty.                                                      *)
(***************************************************************************)
EXTENDS AnamQueue, Residues, FiniteSetTheorems, SequenceTheorems

-----------------------------------------------------------------------------
(* Handles *)

LiveHandles == [gen : 0 .. GenMod - 1, slot : Slot]

\* A handle is ANAM_NULL or names a slot.
LEMMA HandleFields ==
  /\ Slot = 0 .. Capacity /\ Capacity \in Nat \ {0} /\ GenMod \in Nat \ {0}
  /\ Handles = LiveHandles \cup {ANAM_NULL}
  /\ ANAM_NULL.slot = -1 /\ ANAM_NULL.gen = 0 /\ ANAM_NULL \notin LiveHandles
  /\ \A h \in Handles : h # ANAM_NULL => h \in LiveHandles
  /\ \A h \in LiveHandles : h.gen \in 0 .. GenMod - 1 /\ h.slot \in Slot /\ h = Handle(h.gen, h.slot)
  /\ \A g \in 0 .. GenMod - 1 : \A s \in Slot : Handle(g, s) \in LiveHandles
  /\ \A g, s : Handle(g, s).gen = g /\ Handle(g, s).slot = s
<1>1. Slot = 0 .. Capacity /\ Capacity \in Nat \ {0} /\ GenMod \in Nat \ {0}
  BY QueueAssumption DEF Slot, SP!Slot
<1>2. Handles = LiveHandles \cup {ANAM_NULL}
  BY DEF Handles, LiveHandles
<1>3. ANAM_NULL.slot = -1 /\ ANAM_NULL.gen = 0 /\ ANAM_NULL \notin LiveHandles
  <2>1. ANAM_NULL.slot = -1 /\ ANAM_NULL.gen = 0
    BY DEF ANAM_NULL, Handle
  <2> QED
    BY <1>1, <2>1 DEF LiveHandles
<1>4. \A h \in LiveHandles : h.gen \in 0 .. GenMod - 1 /\ h.slot \in Slot /\ h = Handle(h.gen, h.slot)
  BY DEF LiveHandles, Handle
<1>5. \A g \in 0 .. GenMod - 1 : \A s \in Slot : Handle(g, s) \in LiveHandles
  BY DEF LiveHandles, Handle
<1>6. \A g, s : Handle(g, s).gen = g /\ Handle(g, s).slot = s
  BY DEF Handle
<1> QED
  BY <1>1, <1>2, <1>3, <1>4, <1>5, <1>6

-----------------------------------------------------------------------------
(* The walk along the links that Chain is defined by *)

WalkNext(links, c) ==
  LET h == links[c[Len(c)]] IN IF h = ANAM_NULL THEN c ELSE Append(c, h.slot)

IsWalk(f, hd, links, n) ==
  f = [k \in 0 .. n |-> IF k = 0 THEN <<hd.slot>> ELSE WalkNext(links, f[k - 1])]

TheWalk(hd, links) == CHOOSE f : IsWalk(f, hd, links, Capacity)
ChainOf(hd, links) == TheWalk(hd, links)[Capacity]

Walks == Seq(Slot) \ {<<>>}

\* Chain is the walk from head along the links of the nodes, now and after a step.
LEMMA ChainIs == Chain = ChainOf(head, node_next) /\ Chain' = ChainOf(head', node_next')
<1>1. Chain = ChainOf(head, node_next)
  BY DEF Chain, ChainOf, TheWalk, IsWalk, WalkNext
<1>2. Chain' = ChainOf(head', node_next')
  BY DEF Chain, ChainOf, TheWalk, IsWalk, WalkNext
<1> QED
  BY <1>1, <1>2

\* One step of the walk along the links stays a sequence of slots.
LEMMA WalkNextType ==
  ASSUME NEW links \in [Slot -> Handles], NEW c \in Walks
  PROVE  WalkNext(links, c) \in Walks
<1>1. c \in Seq(Slot) /\ Len(c) \in 1 .. Len(c) /\ c[Len(c)] \in Slot
  BY DEF Walks
<1>2. links[c[Len(c)]] \in Handles
  BY <1>1
<1>3. CASE links[c[Len(c)]] = ANAM_NULL
  BY <1>3 DEF WalkNext
<1>4. CASE links[c[Len(c)]] # ANAM_NULL
  <2>1. links[c[Len(c)]].slot \in Slot
    BY <1>2, <1>4, HandleFields
  <2>2. PICK s \in Slot : s = links[c[Len(c)]].slot
    BY <2>1
  <2>3. Append(c, s) \in Seq(Slot) /\ Append(c, s) # <<>>
    BY <1>1
  <2> QED
    BY <1>4, <2>2, <2>3 DEF WalkNext, Walks
<1> QED
  BY <1>3, <1>4

\* The recursion that Chain is defined by has a solution, and Chain is a walk.
LEMMA WalkDefined ==
  ASSUME NEW hd \in LiveHandles, NEW links \in [Slot -> Handles]
  PROVE  /\ IsWalk(TheWalk(hd, links), hd, links, Capacity)
         /\ TheWalk(hd, links) \in [0 .. Capacity -> Walks]
<1> DEFINE W(n) == \E f \in [0 .. n -> Walks] : IsWalk(f, hd, links, n)
           T == {n \in Nat : ~W(n)}
<1>0. hd.slot \in Slot /\ Capacity \in Nat
  BY HandleFields
<1>1. \A n \in Nat : W(n)
  <2> SUFFICES ASSUME T # {} PROVE FALSE
    OBVIOUS
  <2>1. PICK n \in T : \A m \in T : n <= m
    <3> HIDE DEF T
    <3>1. T \subseteq Nat
      BY DEF T
    <3> QED
      BY <3>1, NatMin
  <2>2. n \in Nat /\ ~W(n) /\ \A m \in Nat : m < n => W(m)
    BY <2>1
  <2>3. CASE n = 0
    <3> DEFINE f == [k \in 0 .. 0 |-> <<hd.slot>>]
    <3>1. f \in [0 .. 0 -> Walks]
      BY <1>0 DEF Walks
    <3>2. IsWalk(f, hd, links, 0)
      BY DEF IsWalk
    <3> QED
      BY <2>2, <2>3, <3>1, <3>2
  <2>4. CASE n # 0
    <3>1. n - 1 \in Nat /\ n - 1 < n
      BY <2>2, <2>4
    <3>2. PICK f \in [0 .. n - 1 -> Walks] : IsWalk(f, hd, links, n - 1)
      BY <2>2, <3>1
    <3> DEFINE g == [k \in 0 .. n |-> IF k = n THEN WalkNext(links, f[n - 1]) ELSE f[k]]
    <3>3. WalkNext(links, f[n - 1]) \in Walks
      BY <2>2, <2>4, WalkNextType
    <3>4. g \in [0 .. n -> Walks]
      BY <2>2, <2>4, <3>3
    <3>5. \A k \in 0 .. n - 1 : f[k] = IF k = 0 THEN <<hd.slot>> ELSE WalkNext(links, f[k - 1])
      BY <3>2 DEF IsWalk
    <3>6. \A k \in 0 .. n : g[k] = IF k = 0 THEN <<hd.slot>> ELSE WalkNext(links, g[k - 1])
      <4> TAKE k \in 0 .. n
      <4>1. k # 0 => k - 1 \in 0 .. n - 1 /\ g[k - 1] = f[k - 1]
        BY <2>2
      <4>2. CASE k = n
        BY <2>4, <4>1, <4>2
      <4>3. CASE k # n
        <5>1. k \in 0 .. n - 1 /\ g[k] = f[k]
          BY <2>2, <4>3
        <5> QED
          BY <3>5, <4>1, <5>1
      <4> QED
        BY <4>2, <4>3
    <3>7. IsWalk(g, hd, links, n)
      <4>1. g = [k \in 0 .. n |-> g[k]]
        BY <3>4
      <4> HIDE DEF g
      <4> QED
        BY <3>6, <4>1 DEF IsWalk
    <3> QED
      BY <2>2, <3>4, <3>7
  <2> QED
    BY <2>3, <2>4
<1>2. PICK f \in [0 .. Capacity -> Walks] : IsWalk(f, hd, links, Capacity)
  BY <1>0, <1>1
<1>3. IsWalk(TheWalk(hd, links), hd, links, Capacity)
  BY <1>2 DEF TheWalk
<1> DEFINE g == TheWalk(hd, links)
           D == {n \in 0 .. Capacity : g[n] \notin Walks}
<1>4. \A k \in 0 .. Capacity : g[k] = IF k = 0 THEN <<hd.slot>> ELSE WalkNext(links, g[k - 1])
  BY <1>3 DEF IsWalk
<1>5. D = {}
  <2> SUFFICES ASSUME D # {} PROVE FALSE
    OBVIOUS
  <2>1. PICK n \in D : \A m \in D : n <= m
    <3>1. D \subseteq Nat
      BY <1>0
    <3> HIDE DEF D
    <3> QED
      BY <3>1, NatMin
  <2>2. n # 0
    <3>1. <<hd.slot>> \in Walks
      BY <1>0 DEF Walks
    <3>2. g[0] \in Walks
      BY <1>0, <1>4, <3>1
    <3> QED
      BY <2>1, <3>2
  <2>3. n - 1 \in 0 .. Capacity /\ n - 1 \notin D
    BY <1>0, <2>1, <2>2
  <2>4. g[n - 1] \in Walks
    BY <2>3
  <2>5. WalkNext(links, g[n - 1]) \in Walks
    <3> HIDE DEF g
    <3> QED
      BY <2>4, WalkNextType
  <2>6. g[n] = WalkNext(links, g[n - 1])
    BY <1>4, <2>1, <2>2
  <2> QED
    BY <2>1, <2>5, <2>6
<1>6. g \in [0 .. Capacity -> Walks]
  <2>1. g = [k \in 0 .. Capacity |-> IF k = 0 THEN <<hd.slot>> ELSE WalkNext(links, g[k - 1])]
    BY <1>3 DEF IsWalk
  <2>2. \A k \in 0 .. Capacity : g[k] \in Walks
    BY <1>5
  <2> HIDE DEF g
  <2>3. g = [k \in 0 .. Capacity |-> g[k]]
    BY <2>1
  <2> QED
    BY <2>2, <2>3
<1> QED
  BY <1>3, <1>6

\* No entry of the sequence L is repeated.
Distinct(L) == \A i, j \in 1 .. Len(L) : L[i] = L[j] => i = j

\* A list without repetition has at most as many nodes as the pool has slots.
LEMMA Pigeonhole ==
  ASSUME NEW L, L \in Seq(Slot), Distinct(L)
  PROVE  Len(L) <= Capacity + 1
<1>1. L \in [1 .. Len(L) -> Slot] /\ Len(L) \in Nat
  OBVIOUS
<1>2. L \in Injection(1 .. Len(L), Slot)
  BY <1>1 DEF Injection, IsInjective, Distinct
<1>3. IsFiniteSet(Slot) /\ Cardinality(Slot) = Capacity + 1
  BY FS_Interval, HandleFields
<1>4. \A n \in Nat : Cardinality(1 .. n) = n
  <2> TAKE n \in Nat
  <2>1. Cardinality(1 .. n) = IF 1 > n THEN 0 ELSE n - 1 + 1
    BY FS_Interval
  <2> QED
    BY <2>1
<1> QED
  BY <1>1, <1>2, <1>3, <1>4, FS_Injection

\* L is where the links lead from hd on.
Leads(L, hd, links) ==
  /\ L \in Seq(Slot) /\ Len(L) # 0 /\ L[1] = hd.slot
  /\ Distinct(L)
  /\ links[L[Len(L)]] = ANAM_NULL
  /\ \A i \in 1 .. Len(L) - 1 : links[L[i]] \in LiveHandles /\ links[L[i]].slot = L[i + 1]

\* The walk visits the nodes of the list in order and stops at the last one.
LEMMA WalkComputes ==
  ASSUME NEW hd \in LiveHandles, NEW links \in [Slot -> Handles], NEW L, Leads(L, hd, links)
  PROVE  ChainOf(hd, links) = L
<1> DEFINE g == TheWalk(hd, links)
           Upto(k) == IF k < Len(L) THEN SubSeq(L, 1, k + 1) ELSE L
           D == {n \in 0 .. Capacity : g[n] # Upto(n)}
<1>1. /\ L \in Seq(Slot) /\ Len(L) \in Nat \ {0} /\ L[1] = hd.slot /\ Capacity \in Nat
      /\ Len(L) <= Capacity + 1
  BY Pigeonhole, HandleFields DEF Leads
<1>2. /\ links[L[Len(L)]] = ANAM_NULL
      /\ \A i \in 1 .. Len(L) - 1 : links[L[i]] # ANAM_NULL /\ links[L[i]].slot = L[i + 1]
  BY HandleFields DEF Leads
<1>3. \A k \in 0 .. Capacity : g[k] = IF k = 0 THEN <<hd.slot>> ELSE WalkNext(links, g[k - 1])
  BY WalkDefined DEF IsWalk
<1> HIDE DEF g
<1>4. Upto(0) = <<hd.slot>>
  <2> DEFINE c == SubSeq(L, 1, 1)
  <2>1. c \in Seq(Slot) /\ Len(c) = 1 /\ c[1] = L[1]
    BY <1>1
  <2> HIDE DEF c
  <2>2. c = <<L[1]>>
    BY <2>1
  <2> QED
    BY <1>1, <2>2 DEF c
<1>5. \A k \in Nat : k # 0 => Upto(k) = WalkNext(links, Upto(k - 1))
  <2> SUFFICES ASSUME NEW k \in Nat, k # 0 PROVE Upto(k) = WalkNext(links, Upto(k - 1))
    OBVIOUS
  <2>1. CASE k < Len(L)
    <3> DEFINE c == SubSeq(L, 1, k)
    <3>1. Upto(k - 1) = c
      BY <1>1, <2>1
    <3>2. c \in Seq(Slot) /\ Len(c) = k /\ c[k] = L[k] /\ k \in 1 .. Len(L) - 1
      BY <1>1, <2>1
    <3>3. Append(c, L[k + 1]) = SubSeq(L, 1, k + 1)
      BY <1>1, <2>1
    <3>4. links[c[Len(c)]] # ANAM_NULL /\ links[c[Len(c)]].slot = L[k + 1]
      BY <1>2, <3>2
    <3> HIDE DEF c
    <3>5. WalkNext(links, c) = Append(c, L[k + 1])
      BY <3>4 DEF WalkNext
    <3> QED
      BY <2>1, <3>1, <3>3, <3>5
  <2>2. CASE ~ (k < Len(L))
    <3>1. SubSeq(L, 1, Len(L)) = L
      BY <1>1
    <3>2. k - 1 < Len(L) => k = Len(L)
      BY <1>1, <2>2
    <3>3. Upto(k - 1) = L
      <4>1. CASE k - 1 < Len(L)
        <5>1. k - 1 + 1 = Len(L)
          BY <3>2, <4>1
        <5> QED
          BY <3>1, <4>1, <5>1
      <4> QED
        BY <4>1
    <3>4. WalkNext(links, L) = L
      BY <1>2 DEF WalkNext
    <3> QED
      BY <2>2, <3>3, <3>4
  <2> QED
    BY <2>1, <2>2
<1> HIDE DEF Upto
<1>6. D = {}
  <2> SUFFICES ASSUME D # {} PROVE FALSE
    OBVIOUS
  <2>1. PICK n \in D : \A m \in D : n <= m
    <3>1. D \subseteq Nat
      BY <1>1
    <3> HIDE DEF D
    <3> QED
      BY <3>1, NatMin
  <2>2. n # 0
    BY <1>1, <1>3, <1>4, <2>1
  <2>3. n - 1 \in 0 .. Capacity /\ n - 1 \notin D
    BY <1>1, <2>1, <2>2
  <2>4. g[n - 1] = Upto(n - 1)
    BY <2>3
  <2>5. g[n] = WalkNext(links, g[n - 1])
    BY <1>3, <2>1, <2>2
  <2> QED
    BY <1>1, <1>5, <2>1, <2>2, <2>4, <2>5
<1>7. g[Capacity] = Upto(Capacity)
  BY <1>1, <1>6
<1>8. Upto(Capacity) = L
  <2>1. SubSeq(L, 1, Len(L)) = L
    BY <1>1
  <2>2. Capacity < Len(L) => Capacity + 1 = Len(L)
    BY <1>1
  <2> QED
    BY <2>1, <2>2 DEF Upto
<1> QED
  BY <1>7, <1>8 DEF ChainOf, g

-----------------------------------------------------------------------------
(* Steps *)

LocSet == [new_h : Handles, head_h : Handles, tail_h : Handles,
           next_h : Handles, data : Value \cup {NoValue}]

\* A step of thread t goes from one label to another and leaves these locals.
Row(t, from, to, n, h, ta, nx, d) ==
  /\ pc[t] = from /\ pc' = [pc EXCEPT ![t] = to]
  /\ pc'[t] = to
  /\ \A u \in Thread \ {t} : pc'[u] = pc[u] /\ loc'[u] = loc[u]
  /\ loc' \in [Thread -> LocSet]
  /\ loc'[t].new_h = n /\ loc'[t].head_h = h /\ loc'[t].tail_h = ta
  /\ loc'[t].next_h = nx /\ loc'[t].data = d

Same(t, from, to) ==
  Row(t, from, to, loc[t].new_h, loc[t].head_h, loc[t].tail_h, loc[t].next_h, loc[t].data)
Clear(t, from, to) == Row(t, from, to, ANAM_NULL, ANAM_NULL, ANAM_NULL, ANAM_NULL, NoValue)
Restart(t, from, to) ==
  Row(t, from, to, loc[t].new_h, ANAM_NULL, ANAM_NULL, ANAM_NULL, loc[t].data)

\* A step given by its labels and the handles it leaves in the locals.
LEMMA RowOf ==
  ASSUME TypeOK, NEW t \in Thread, NEW from, NEW to, Goto(t, from, to),
         NEW n \in Handles, NEW h \in Handles, NEW ta \in Handles, NEW nx \in Handles,
         NEW d \in Value \cup {NoValue},
         Locals(t, [new_h |-> n, head_h |-> h, tail_h |-> ta, next_h |-> nx, data |-> d])
  PROVE  Row(t, from, to, n, h, ta, nx, d)
<1> DEFINE l == [new_h |-> n, head_h |-> h, tail_h |-> ta, next_h |-> nx, data |-> d]
<1>1. l \in LocSet /\ l.new_h = n /\ l.head_h = h /\ l.tail_h = ta /\ l.next_h = nx /\ l.data = d
  BY DEF LocSet
<1>2. loc' = [loc EXCEPT ![t] = l]
  BY DEF Locals
<1> HIDE DEF l
<1>3. loc \in [Thread -> LocSet] /\ pc \in [Thread -> PC]
  BY DEF TypeOK, LocSet
<1>4. loc' \in [Thread -> LocSet] /\ loc'[t] = l /\ \A u \in Thread \ {t} : loc'[u] = loc[u]
  BY <1>1, <1>2, <1>3
<1>5. pc[t] = from /\ pc' = [pc EXCEPT ![t] = to] /\ pc'[t] = to /\ \A u \in Thread \ {t} : pc'[u] = pc[u]
  BY <1>3 DEF Goto
<1> QED
  BY <1>1, <1>4, <1>5 DEF Row

\* What EXCEPT makes of the locals.
LEMMA LocFields ==
  /\ ANAM_NULL \in Handles /\ NoValue \in Value \cup {NoValue}
  /\ NoLocals = [new_h |-> ANAM_NULL, head_h |-> ANAM_NULL, tail_h |-> ANAM_NULL,
                 next_h |-> ANAM_NULL, data |-> NoValue]
  /\ \A l \in LocSet :
       /\ l.new_h \in Handles /\ l.head_h \in Handles /\ l.tail_h \in Handles
       /\ l.next_h \in Handles /\ l.data \in Value \cup {NoValue}
       /\ l = [new_h |-> l.new_h, head_h |-> l.head_h, tail_h |-> l.tail_h,
               next_h |-> l.next_h, data |-> l.data]
<1> QED
  BY DEF LocSet, NoLocals, Handles

\* The ways in which the actions set the locals.
LEMMA Rows ==
  ASSUME TypeOK, NEW t \in Thread, NEW from, NEW to, Goto(t, from, to)
  PROVE  /\ UNCHANGED loc => Same(t, from, to)
         /\ Locals(t, NoLocals) => Clear(t, from, to)
         /\ Locals(t, [NoLocals EXCEPT !.new_h = loc[t].new_h, !.data = loc[t].data])
              => Restart(t, from, to)
         /\ Locals(t, [NoLocals EXCEPT !.new_h = loc[t].new_h])
              => Row(t, from, to, loc[t].new_h, ANAM_NULL, ANAM_NULL, ANAM_NULL, NoValue)
         /\ Locals(t, [loc[t] EXCEPT !.tail_h = ANAM_NULL, !.next_h = ANAM_NULL])
              => Row(t, from, to, loc[t].new_h, loc[t].head_h, ANAM_NULL, ANAM_NULL, loc[t].data)
         /\ \A x \in Handles : Locals(t, [loc[t] EXCEPT !.new_h = x])
              => Row(t, from, to, x, loc[t].head_h, loc[t].tail_h, loc[t].next_h, loc[t].data)
         /\ \A x \in Handles : Locals(t, [loc[t] EXCEPT !.head_h = x])
              => Row(t, from, to, loc[t].new_h, x, loc[t].tail_h, loc[t].next_h, loc[t].data)
         /\ \A x \in Handles : Locals(t, [loc[t] EXCEPT !.tail_h = x])
              => Row(t, from, to, loc[t].new_h, loc[t].head_h, x, loc[t].next_h, loc[t].data)
         /\ \A x \in Handles : Locals(t, [loc[t] EXCEPT !.next_h = x])
              => Row(t, from, to, loc[t].new_h, loc[t].head_h, loc[t].tail_h, x, loc[t].data)
         /\ \A v \in Value \cup {NoValue} : Locals(t, [loc[t] EXCEPT !.data = v])
              => Row(t, from, to, loc[t].new_h, loc[t].head_h, loc[t].tail_h, loc[t].next_h, v)
         /\ \A v \in Value \cup {NoValue} : Locals(t, [NoLocals EXCEPT !.data = v])
              => Row(t, from, to, ANAM_NULL, ANAM_NULL, ANAM_NULL, ANAM_NULL, v)
<1> DEFINE Lit(n, h, ta, nx, d) ==
             [new_h |-> n, head_h |-> h, tail_h |-> ta, next_h |-> nx, data |-> d]
<1>1. \A n, h, ta, nx \in Handles : \A d \in Value \cup {NoValue} :
        Locals(t, Lit(n, h, ta, nx, d)) => Row(t, from, to, n, h, ta, nx, d)
  BY RowOf
<1>2. loc \in [Thread -> LocSet] /\ loc[t] \in LocSet
  BY DEF TypeOK, LocSet
<1>3. PICK n \in Handles, h \in Handles, ta \in Handles, nx \in Handles, d \in Value \cup {NoValue} :
        /\ loc[t] = Lit(n, h, ta, nx, d)
        /\ n = loc[t].new_h /\ h = loc[t].head_h /\ ta = loc[t].tail_h /\ nx = loc[t].next_h
        /\ d = loc[t].data
  BY <1>2, LocFields
<1>4. NoLocals = Lit(ANAM_NULL, ANAM_NULL, ANAM_NULL, ANAM_NULL, NoValue)
      /\ ANAM_NULL \in Handles /\ NoValue \in Value \cup {NoValue}
  BY LocFields
<1>5. /\ [NoLocals EXCEPT !.new_h = n, !.data = d] = Lit(n, ANAM_NULL, ANAM_NULL, ANAM_NULL, d)
      /\ [NoLocals EXCEPT !.new_h = n] = Lit(n, ANAM_NULL, ANAM_NULL, ANAM_NULL, NoValue)
      /\ \A v : [NoLocals EXCEPT !.data = v] = Lit(ANAM_NULL, ANAM_NULL, ANAM_NULL, ANAM_NULL, v)
  <2>1. \A r, x, y : [r EXCEPT !.new_h = x, !.data = y] = [[r EXCEPT !.new_h = x] EXCEPT !.data = y]
    OBVIOUS
  <2>2. \A x : [NoLocals EXCEPT !.new_h = x] = Lit(x, ANAM_NULL, ANAM_NULL, ANAM_NULL, NoValue)
    BY DEF NoLocals
  <2>3. \A v : [NoLocals EXCEPT !.data = v] = Lit(ANAM_NULL, ANAM_NULL, ANAM_NULL, ANAM_NULL, v)
    BY DEF NoLocals
  <2>4. [Lit(n, ANAM_NULL, ANAM_NULL, ANAM_NULL, NoValue) EXCEPT !.data = d]
          = Lit(n, ANAM_NULL, ANAM_NULL, ANAM_NULL, d)
    OBVIOUS
  <2> HIDE DEF Lit
  <2>5. [NoLocals EXCEPT !.new_h = n, !.data = d] = [[NoLocals EXCEPT !.new_h = n] EXCEPT !.data = d]
    BY <2>1
  <2>6. [NoLocals EXCEPT !.new_h = n] = Lit(n, ANAM_NULL, ANAM_NULL, ANAM_NULL, NoValue)
    BY <2>2
  <2>7. [NoLocals EXCEPT !.new_h = n, !.data = d] = Lit(n, ANAM_NULL, ANAM_NULL, ANAM_NULL, d)
    BY <2>4, <2>5, <2>6
  <2> QED
    BY <2>3, <2>6, <2>7
<1>6. [loc[t] EXCEPT !.tail_h = ANAM_NULL, !.next_h = ANAM_NULL] = Lit(n, h, ANAM_NULL, ANAM_NULL, d)
  <2>1. \A r, x, y : [r EXCEPT !.tail_h = x, !.next_h = y] = [[r EXCEPT !.tail_h = x] EXCEPT !.next_h = y]
    OBVIOUS
  <2>2. [Lit(n, h, ta, nx, d) EXCEPT !.tail_h = ANAM_NULL] = Lit(n, h, ANAM_NULL, nx, d)
    OBVIOUS
  <2>3. [Lit(n, h, ANAM_NULL, nx, d) EXCEPT !.next_h = ANAM_NULL] = Lit(n, h, ANAM_NULL, ANAM_NULL, d)
    OBVIOUS
  <2>4. loc[t] = Lit(n, h, ta, nx, d)
    BY <1>3
  <2> HIDE DEF Lit
  <2>5. [loc[t] EXCEPT !.tail_h = ANAM_NULL, !.next_h = ANAM_NULL]
          = [[loc[t] EXCEPT !.tail_h = ANAM_NULL] EXCEPT !.next_h = ANAM_NULL]
    BY <2>1
  <2> QED
    BY <2>2, <2>3, <2>4, <2>5
<1>7. /\ \A x : [loc[t] EXCEPT !.new_h = x] = Lit(x, h, ta, nx, d)
      /\ \A x : [loc[t] EXCEPT !.head_h = x] = Lit(n, x, ta, nx, d)
      /\ \A x : [loc[t] EXCEPT !.tail_h = x] = Lit(n, h, x, nx, d)
      /\ \A x : [loc[t] EXCEPT !.next_h = x] = Lit(n, h, ta, x, d)
      /\ \A x : [loc[t] EXCEPT !.data = x] = Lit(n, h, ta, nx, x)
  BY <1>3
<1>8. UNCHANGED loc => Locals(t, Lit(n, h, ta, nx, d))
  BY <1>2, <1>3 DEF Locals
<1> HIDE DEF Lit
<1>9. UNCHANGED loc => Same(t, from, to)
  BY <1>1, <1>3, <1>8 DEF Same
<1>10. Locals(t, NoLocals) => Clear(t, from, to)
  BY <1>1, <1>4 DEF Clear
<1>11. /\ Locals(t, [NoLocals EXCEPT !.new_h = loc[t].new_h, !.data = loc[t].data])
             => Restart(t, from, to)
       /\ Locals(t, [NoLocals EXCEPT !.new_h = loc[t].new_h])
             => Row(t, from, to, loc[t].new_h, ANAM_NULL, ANAM_NULL, ANAM_NULL, NoValue)
       /\ Locals(t, [loc[t] EXCEPT !.tail_h = ANAM_NULL, !.next_h = ANAM_NULL])
             => Row(t, from, to, loc[t].new_h, loc[t].head_h, ANAM_NULL, ANAM_NULL, loc[t].data)
  BY <1>1, <1>3, <1>4, <1>5, <1>6 DEF Restart
<1>12. \A x \in Handles :
         /\ Locals(t, [loc[t] EXCEPT !.new_h = x])
              => Row(t, from, to, x, loc[t].head_h, loc[t].tail_h, loc[t].next_h, loc[t].data)
         /\ Locals(t, [loc[t] EXCEPT !.head_h = x])
              => Row(t, from, to, loc[t].new_h, x, loc[t].tail_h, loc[t].next_h, loc[t].data)
         /\ Locals(t, [loc[t] EXCEPT !.tail_h = x])
              => Row(t, from, to, loc[t].new_h, loc[t].head_h, x, loc[t].next_h, loc[t].data)
         /\ Locals(t, [loc[t] EXCEPT !.next_h = x])
              => Row(t, from, to, loc[t].new_h, loc[t].head_h, loc[t].tail_h, x, loc[t].data)
  <2> TAKE x \in Handles
  <2>1. [loc[t] EXCEPT !.new_h = x] = Lit(x, h, ta, nx, d)
    BY <1>7
  <2>2. [loc[t] EXCEPT !.head_h = x] = Lit(n, x, ta, nx, d)
    BY <1>7
  <2>3. [loc[t] EXCEPT !.tail_h = x] = Lit(n, h, x, nx, d)
    BY <1>7
  <2>4. [loc[t] EXCEPT !.next_h = x] = Lit(n, h, ta, x, d)
    BY <1>7
  <2> QED
    BY <1>1, <1>3, <2>1, <2>2, <2>3, <2>4
<1>13. \A v \in Value \cup {NoValue} :
         /\ Locals(t, [loc[t] EXCEPT !.data = v])
              => Row(t, from, to, loc[t].new_h, loc[t].head_h, loc[t].tail_h, loc[t].next_h, v)
         /\ Locals(t, [NoLocals EXCEPT !.data = v])
              => Row(t, from, to, ANAM_NULL, ANAM_NULL, ANAM_NULL, ANAM_NULL, v)
  <2> TAKE v \in Value \cup {NoValue}
  <2>1. [loc[t] EXCEPT !.data = v] = Lit(n, h, ta, nx, v)
    BY <1>7
  <2>2. [NoLocals EXCEPT !.data = v] = Lit(ANAM_NULL, ANAM_NULL, ANAM_NULL, ANAM_NULL, v)
    BY <1>5
  <2> QED
    BY <1>1, <1>3, <1>4, <2>1, <2>2
<1> QED
  BY <1>9, <1>10, <1>11, <1>12, <1>13

-----------------------------------------------------------------------------
(* The type invariant *)

\* Where a push has a node of its own that is not in the list.
Owning == {"p_init", "p_tail", "p_get", "p_next", "p_check", "p_link", "p_help"}
Linked == {"p_last", "p_swing"}
TailLoaded == {"p_get", "p_next", "p_check", "p_link", "p_help"}
HeadLoaded == {"o_tail", "o_get", "o_next", "o_check", "o_help", "o_getn", "o_read", "o_cas",
               "o_end", "o_free", "k_get", "k_next", "k_getn", "k_read", "e_get", "e_next", "e_ret"}
NextLive == {"p_help", "o_help", "o_read", "o_cas", "k_read"}

\* A handle that a call is going to follow is not ANAM_NULL.
PendingOK ==
  /\ head # ANAM_NULL /\ tail # ANAM_NULL
  /\ \A t \in Thread :
       /\ pc[t] \in Owning \cup Linked => loc[t].new_h # ANAM_NULL
       /\ pc[t] \in TailLoaded => loc[t].tail_h # ANAM_NULL
       /\ pc[t] \in HeadLoaded => loc[t].head_h # ANAM_NULL
       /\ pc[t] \in NextLive => loc[t].next_h # ANAM_NULL

TypeInv == TypeOK /\ PendingOK

\* The handles that a call follows name slots.
LEMMA Live ==
  ASSUME TypeInv
  PROVE  /\ head \in LiveHandles /\ tail \in LiveHandles
         /\ head.slot \in Slot /\ tail.slot \in Slot
         /\ loc \in [Thread -> LocSet] /\ pc \in [Thread -> PC]
         /\ \A t \in Thread :
              /\ loc[t] \in LocSet
              /\ loc[t].new_h \in Handles /\ loc[t].head_h \in Handles
              /\ loc[t].tail_h \in Handles /\ loc[t].next_h \in Handles
              /\ loc[t].data \in Value \cup {NoValue}
              /\ pc[t] \in Owning \cup Linked => loc[t].new_h \in LiveHandles /\ loc[t].new_h.slot \in Slot
              /\ pc[t] \in TailLoaded => loc[t].tail_h \in LiveHandles /\ loc[t].tail_h.slot \in Slot
              /\ pc[t] \in HeadLoaded => loc[t].head_h \in LiveHandles /\ loc[t].head_h.slot \in Slot
              /\ pc[t] \in NextLive => loc[t].next_h \in LiveHandles /\ loc[t].next_h.slot \in Slot
<1>1. head \in Handles /\ tail \in Handles /\ loc \in [Thread -> LocSet] /\ pc \in [Thread -> PC]
  BY DEF TypeInv, TypeOK, LocSet
<1>2. head \in LiveHandles /\ tail \in LiveHandles /\ head.slot \in Slot /\ tail.slot \in Slot
  BY <1>1, HandleFields DEF TypeInv, PendingOK
<1>3. ASSUME NEW t \in Thread
      PROVE  /\ loc[t] \in LocSet
             /\ loc[t].new_h \in Handles /\ loc[t].head_h \in Handles
             /\ loc[t].tail_h \in Handles /\ loc[t].next_h \in Handles
             /\ loc[t].data \in Value \cup {NoValue}
  BY <1>1, LocFields
<1> QED
  BY <1>1, <1>2, <1>3, HandleFields DEF TypeInv, PendingOK

\* What is loaded from shared memory.
LEMMA Loaded ==
  ASSUME TypeInv
  PROVE  /\ generation \in [Slot -> 0 .. GenMod - 1]
         /\ \A s \in Slot : /\ Handle(generation[s], s) \in LiveHandles
                            /\ node_next[s] \in Handles /\ node_data[s] \in Value \cup {NoValue}
         /\ free \in Seq(Slot)
         /\ free # <<>> => /\ Head(free) \in Slot /\ Head(free) = free[1]
                           /\ Tail(free) \in Seq(Slot) /\ Len(free) \in Nat \ {0}
         /\ calls \in 0 .. MaxPush /\ MaxPush \in Nat /\ Value = 1 .. MaxPush /\ NoValue = 0
<1>1. /\ generation \in [Slot -> 0 .. GenMod - 1] /\ node_next \in [Slot -> Handles]
      /\ node_data \in [Slot -> Value \cup {NoValue}] /\ free \in Seq(Slot) /\ calls \in 0 .. MaxPush
  BY DEF TypeInv, TypeOK
<1>2. \A s \in Slot : Handle(generation[s], s) \in LiveHandles
  BY <1>1, HandleFields
<1> QED
  BY <1>1, <1>2, QueueAssumption DEF Value, NoValue

\* The steps of push.
LEMMA PushRows ==
  ASSUME TypeInv, NEW t \in Thread
  PROVE  /\ PushCall(t) => Row(t, "idle", "p_alloc", ANAM_NULL, ANAM_NULL, ANAM_NULL, ANAM_NULL, calls + 1)
         /\ PushFull(t) => Clear(t, "p_alloc", "idle")
         /\ PushAlloc(t) => Row(t, "p_alloc", "p_init", Handle(generation[Head(free)], Head(free)),
                                loc[t].head_h, loc[t].tail_h, loc[t].next_h, loc[t].data)
         /\ PushInit(t) => Same(t, "p_init", "p_tail")
         /\ PushLoadTail(t) => Row(t, "p_tail", "p_get", loc[t].new_h, loc[t].head_h, tail,
                                   loc[t].next_h, loc[t].data)
         /\ PushTailStale(t) => Restart(t, "p_get", "p_tail")
         /\ PushGetTail(t) => Same(t, "p_get", "p_next")
         /\ PushLoadNext(t) => Row(t, "p_next", "p_check", loc[t].new_h, loc[t].head_h, loc[t].tail_h,
                                   node_next[loc[t].tail_h.slot], loc[t].data)
         /\ PushTailMoved(t) => Restart(t, "p_check", "p_tail")
         /\ PushCheckTail(t) => Same(t, "p_check", IF loc[t].next_h = ANAM_NULL THEN "p_link" ELSE "p_help")
         /\ PushLink(t) => Row(t, "p_link", "p_last", loc[t].new_h, ANAM_NULL, ANAM_NULL, ANAM_NULL, NoValue)
         /\ PushRetry(t) => Row(t, "p_link", "p_tail", loc[t].new_h, loc[t].head_h, ANAM_NULL,
                                loc[t].next_h, loc[t].data)
         /\ PushHelp(t) => Restart(t, "p_help", "p_tail")
         /\ PushHelpFails(t) => Restart(t, "p_help", "p_tail")
         /\ PushLoadLast(t) => Row(t, "p_last", "p_swing", loc[t].new_h, loc[t].head_h, tail,
                                   loc[t].next_h, loc[t].data)
         /\ PushSwing(t) => Clear(t, "p_swing", "p_length")
         /\ PushLength(t) => Same(t, "p_length", "p_count")
         /\ PushReturn(t) => Same(t, "p_count", "idle")
<1>0. TypeOK /\ ANAM_NULL \in Handles /\ tail \in Handles
  BY LocFields DEF TypeInv, TypeOK
<1> USE DEF shared, Counterfeit, Help, HelpFails
<1>1. PushCall(t) => Row(t, "idle", "p_alloc", ANAM_NULL, ANAM_NULL, ANAM_NULL, ANAM_NULL, calls + 1)
  <2> SUFFICES ASSUME PushCall(t)
               PROVE Row(t, "idle", "p_alloc", ANAM_NULL, ANAM_NULL, ANAM_NULL, ANAM_NULL, calls + 1)
    OBVIOUS
  <2>1. calls + 1 \in Value \cup {NoValue}
    BY Loaded DEF PushCall
  <2>2. Goto(t, "idle", "p_alloc") /\ Locals(t, [NoLocals EXCEPT !.data = calls + 1])
    BY DEF PushCall
  <2> QED
    BY <1>0, <2>1, <2>2, Rows
<1>2. /\ PushFull(t) => Clear(t, "p_alloc", "idle")
      /\ PushInit(t) => Same(t, "p_init", "p_tail")
      /\ PushTailStale(t) => Restart(t, "p_get", "p_tail")
      /\ PushGetTail(t) => Same(t, "p_get", "p_next")
      /\ PushTailMoved(t) => Restart(t, "p_check", "p_tail")
  BY <1>0, Rows DEF PushFull, PushInit, PushTailStale, PushGetTail, PushTailMoved
<1>3. /\ PushCheckTail(t) => Same(t, "p_check", IF loc[t].next_h = ANAM_NULL THEN "p_link" ELSE "p_help")
      /\ PushHelp(t) => Restart(t, "p_help", "p_tail")
      /\ PushHelpFails(t) => Restart(t, "p_help", "p_tail")
      /\ PushSwing(t) => Clear(t, "p_swing", "p_length")
      /\ PushLength(t) => Same(t, "p_length", "p_count")
      /\ PushReturn(t) => Same(t, "p_count", "idle")
  BY <1>0, Rows DEF PushCheckTail, PushHelp, PushHelpFails, PushSwing, PushLength, PushReturn
<1>4. PushAlloc(t) => Row(t, "p_alloc", "p_init", Handle(generation[Head(free)], Head(free)),
                          loc[t].head_h, loc[t].tail_h, loc[t].next_h, loc[t].data)
  <2>1. PushAlloc(t) => Handle(generation[Head(free)], Head(free)) \in Handles
    BY Loaded, HandleFields DEF PushAlloc, SP!Take
  <2> QED
    BY <1>0, <2>1, Rows DEF PushAlloc
<1>5. PushLoadNext(t) => Row(t, "p_next", "p_check", loc[t].new_h, loc[t].head_h, loc[t].tail_h,
                             node_next[loc[t].tail_h.slot], loc[t].data)
  <2>1. PushLoadNext(t) => node_next[loc[t].tail_h.slot] \in Handles
    BY Live, Loaded DEF PushLoadNext, Goto, TailLoaded
  <2> QED
    BY <1>0, <2>1, Rows DEF PushLoadNext
<1>6. /\ PushLoadTail(t) => Row(t, "p_tail", "p_get", loc[t].new_h, loc[t].head_h, tail,
                                loc[t].next_h, loc[t].data)
      /\ PushLoadLast(t) => Row(t, "p_last", "p_swing", loc[t].new_h, loc[t].head_h, tail,
                                loc[t].next_h, loc[t].data)
      /\ PushRetry(t) => Row(t, "p_link", "p_tail", loc[t].new_h, loc[t].head_h, ANAM_NULL,
                             loc[t].next_h, loc[t].data)
  BY <1>0, Rows DEF PushLoadTail, PushLoadLast, PushRetry
<1>7. PushLink(t) => Row(t, "p_link", "p_last", loc[t].new_h, ANAM_NULL, ANAM_NULL, ANAM_NULL, NoValue)
  BY <1>0, Rows DEF PushLink
<1> QED
  BY <1>1, <1>2, <1>3, <1>4, <1>5, <1>6, <1>7

\* The steps of pop.
LEMMA PopRows ==
  ASSUME TypeInv, NEW t \in Thread
  PROVE  /\ PopCall(t) => Same(t, "idle", "o_head")
         /\ PopLoadHead(t) => Row(t, "o_head", "o_tail", loc[t].new_h, head, loc[t].tail_h,
                                  loc[t].next_h, loc[t].data)
         /\ PopLoadTail(t) => Row(t, "o_tail", "o_get", loc[t].new_h, loc[t].head_h, tail,
                                  loc[t].next_h, loc[t].data)
         /\ PopHeadStale(t) => Restart(t, "o_get", "o_head")
         /\ PopGetHead(t) => Same(t, "o_get", "o_next")
         /\ PopLoadNext(t) => Row(t, "o_next", "o_check", loc[t].new_h, loc[t].head_h, loc[t].tail_h,
                                  node_next[loc[t].head_h.slot], loc[t].data)
         /\ PopHeadMoved(t) => Restart(t, "o_check", "o_head")
         /\ PopEmpty(t) => Clear(t, "o_check", IF mode = "draining" THEN "d_release" ELSE "idle")
         /\ PopCheckHead(t) =>
              Same(t, "o_check", IF loc[t].head_h = loc[t].tail_h THEN "o_help" ELSE "o_getn")
         /\ PopHelp(t) => Restart(t, "o_help", "o_head")
         /\ PopHelpFails(t) => Restart(t, "o_help", "o_head")
         /\ PopNextStale(t) => Restart(t, "o_getn", "o_head")
         /\ PopGetNext(t) => Same(t, "o_getn", "o_read")
         /\ PopRead(t) => Row(t, "o_read", "o_cas", loc[t].new_h, loc[t].head_h, loc[t].tail_h, loc[t].next_h,
                              IF mode = "draining" THEN NoValue ELSE node_data[loc[t].next_h.slot])
         /\ PopUnlink(t) => Row(t, "o_cas", "o_end", loc[t].new_h, loc[t].head_h, ANAM_NULL, ANAM_NULL,
                                loc[t].data)
         /\ PopRetry(t) => Clear(t, "o_cas", "o_head")
         /\ PopEndGeneration(t) => Same(t, "o_end", IF Valid(loc[t].head_h) THEN "o_free" ELSE "o_length")
         /\ PopFree(t) => Same(t, "o_free", "o_length")
         /\ PopLength(t) => Row(t, "o_length", "o_count", loc[t].new_h, ANAM_NULL, loc[t].tail_h,
                                loc[t].next_h, loc[t].data)
         /\ PopReturn(t) => Clear(t, "o_count", IF mode = "draining" THEN "o_head" ELSE "idle")
<1>0. TypeOK /\ ANAM_NULL \in Handles /\ tail \in Handles /\ head \in Handles
  BY LocFields DEF TypeInv, TypeOK
<1> USE DEF shared, Counterfeit, Help, HelpFails, LoadHead, GetHead, LoadNext, GetNext,
            EndGeneration, PushFree
<1>1. /\ PopCall(t) => Same(t, "idle", "o_head")
      /\ PopHeadStale(t) => Restart(t, "o_get", "o_head")
      /\ PopGetHead(t) => Same(t, "o_get", "o_next")
      /\ PopHeadMoved(t) => Restart(t, "o_check", "o_head")
      /\ PopEmpty(t) => Clear(t, "o_check", IF mode = "draining" THEN "d_release" ELSE "idle")
      /\ PopCheckHead(t) =>
           Same(t, "o_check", IF loc[t].head_h = loc[t].tail_h THEN "o_help" ELSE "o_getn")
  BY <1>0, Rows DEF PopCall, PopHeadStale, PopGetHead, PopHeadMoved, PopEmpty, PopCheckHead
<1>2. /\ PopHelp(t) => Restart(t, "o_help", "o_head")
      /\ PopHelpFails(t) => Restart(t, "o_help", "o_head")
      /\ PopNextStale(t) => Restart(t, "o_getn", "o_head")
      /\ PopGetNext(t) => Same(t, "o_getn", "o_read")
      /\ PopRetry(t) => Clear(t, "o_cas", "o_head")
      /\ PopReturn(t) => Clear(t, "o_count", IF mode = "draining" THEN "o_head" ELSE "idle")
  BY <1>0, Rows DEF PopHelp, PopHelpFails, PopNextStale, PopGetNext, PopRetry, PopReturn
<1>3. /\ PopEndGeneration(t) => Same(t, "o_end", IF Valid(loc[t].head_h) THEN "o_free" ELSE "o_length")
      /\ PopFree(t) => Same(t, "o_free", "o_length")
  BY <1>0, Rows DEF PopEndGeneration, PopFree
<1>4. /\ PopLoadHead(t) => Row(t, "o_head", "o_tail", loc[t].new_h, head, loc[t].tail_h,
                               loc[t].next_h, loc[t].data)
      /\ PopLoadTail(t) => Row(t, "o_tail", "o_get", loc[t].new_h, loc[t].head_h, tail,
                               loc[t].next_h, loc[t].data)
      /\ PopLength(t) => Row(t, "o_length", "o_count", loc[t].new_h, ANAM_NULL, loc[t].tail_h,
                             loc[t].next_h, loc[t].data)
  BY <1>0, Rows DEF PopLoadHead, PopLoadTail, PopLength
<1>5. PopLoadNext(t) => Row(t, "o_next", "o_check", loc[t].new_h, loc[t].head_h, loc[t].tail_h,
                            node_next[loc[t].head_h.slot], loc[t].data)
  <2>1. PopLoadNext(t) => node_next[loc[t].head_h.slot] \in Handles
    BY Live, Loaded DEF PopLoadNext, Goto, HeadLoaded
  <2> QED
    BY <1>0, <2>1, Rows DEF PopLoadNext
<1>6. PopRead(t) => Row(t, "o_read", "o_cas", loc[t].new_h, loc[t].head_h, loc[t].tail_h, loc[t].next_h,
                        IF mode = "draining" THEN NoValue ELSE node_data[loc[t].next_h.slot])
  <2>1. PopRead(t) => (IF mode = "draining" THEN NoValue ELSE node_data[loc[t].next_h.slot])
                        \in Value \cup {NoValue}
    BY Live, Loaded DEF PopRead, Goto, NextLive
  <2> QED
    BY <1>0, <2>1, Rows DEF PopRead
<1>7. PopUnlink(t) => Row(t, "o_cas", "o_end", loc[t].new_h, loc[t].head_h, ANAM_NULL, ANAM_NULL, loc[t].data)
  BY <1>0, Rows DEF PopUnlink
<1> QED
  BY <1>1, <1>2, <1>3, <1>4, <1>5, <1>6, <1>7

\* The steps of peek, empty and destroy.
LEMMA OtherRows ==
  ASSUME TypeInv, NEW t \in Thread
  PROVE  /\ PeekCall(t) => Same(t, "idle", "k_head") \/ Same(t, "idle", "e_head")
         /\ PeekLoadHead(t) =>
              \/ Row(t, "k_head", "k_get", loc[t].new_h, head, loc[t].tail_h, loc[t].next_h, loc[t].data)
              \/ Row(t, "e_head", "e_get", loc[t].new_h, head, loc[t].tail_h, loc[t].next_h, loc[t].data)
         /\ PeekGetHead(t) => Same(t, "k_get", "k_next") \/ Same(t, "e_get", "e_next")
         /\ PeekLoadNext(t) =>
              \/ Row(t, "k_next", "k_getn", loc[t].new_h, loc[t].head_h, loc[t].tail_h,
                     node_next[loc[t].head_h.slot], loc[t].data)
              \/ Row(t, "e_next", "e_ret", loc[t].new_h, loc[t].head_h, loc[t].tail_h,
                     node_next[loc[t].head_h.slot], loc[t].data)
         /\ PeekGetNext(t) => Same(t, "k_getn", "k_read")
         /\ Answer(t) => Clear(t, pc[t], "idle")
         /\ Destroy(t) => Same(t, "idle", "o_head")
         /\ DestroyRelease(t) => Same(t, "d_release", IF Valid(head) THEN "d_free" ELSE "d_done")
         /\ DestroyFree(t) => Same(t, "d_free", "d_done")
         /\ DestroyReturn(t) => Same(t, "d_done", "idle")
<1>0. TypeOK /\ head \in Handles
  BY DEF TypeInv, TypeOK
<1> USE DEF shared, LoadHead, GetHead, LoadNext, GetNext, EndGeneration, PushFree
<1>1. /\ PeekCall(t) => Same(t, "idle", "k_head") \/ Same(t, "idle", "e_head")
      /\ PeekGetHead(t) => Same(t, "k_get", "k_next") \/ Same(t, "e_get", "e_next")
      /\ PeekGetNext(t) => Same(t, "k_getn", "k_read")
      /\ Answer(t) => Clear(t, pc[t], "idle")
  BY <1>0, Rows DEF PeekCall, PeekGetHead, PeekGetNext, Answer
<1>2. /\ Destroy(t) => Same(t, "idle", "o_head")
      /\ DestroyRelease(t) => Same(t, "d_release", IF Valid(head) THEN "d_free" ELSE "d_done")
      /\ DestroyFree(t) => Same(t, "d_free", "d_done")
      /\ DestroyReturn(t) => Same(t, "d_done", "idle")
  BY <1>0, Rows DEF Destroy, DestroyRelease, DestroyFree, DestroyReturn
<1>3. PeekLoadHead(t) =>
        \/ Row(t, "k_head", "k_get", loc[t].new_h, head, loc[t].tail_h, loc[t].next_h, loc[t].data)
        \/ Row(t, "e_head", "e_get", loc[t].new_h, head, loc[t].tail_h, loc[t].next_h, loc[t].data)
  BY <1>0, Rows DEF PeekLoadHead
<1>4. PeekLoadNext(t) =>
        \/ Row(t, "k_next", "k_getn", loc[t].new_h, loc[t].head_h, loc[t].tail_h,
               node_next[loc[t].head_h.slot], loc[t].data)
        \/ Row(t, "e_next", "e_ret", loc[t].new_h, loc[t].head_h, loc[t].tail_h,
               node_next[loc[t].head_h.slot], loc[t].data)
  <2>1. PeekLoadNext(t) => node_next[loc[t].head_h.slot] \in Handles
    BY Live, Loaded DEF PeekLoadNext, Goto, HeadLoaded
  <2> QED
    BY <1>0, <2>1, Rows DEF PeekLoadNext
<1> QED
  BY <1>1, <1>2, <1>3, <1>4

\* The types of the shared state.
SharedOK ==
  /\ head \in LiveHandles /\ tail \in LiveHandles
  /\ length \in 0 .. CountMod - 1
  /\ stat \in [{"push_count", "pop_count", "push_fails", "pop_fails", "aba_prevented"}
                 -> 0 .. StatMod - 1]
  /\ free \in Seq(Slot)
  /\ generation \in [Slot -> 0 .. GenMod - 1]
  /\ node_next \in [Slot -> Handles]
  /\ node_data \in [Slot -> Value \cup {NoValue}]
  /\ mode \in {"open", "draining", "closed"}
  /\ calls \in 0 .. MaxPush

\* The types of a thread's program counter and locals.
ThreadOK(p, l) ==
  /\ p \in PC /\ l \in LocSet
  /\ p \in Owning \cup Linked => l.new_h # ANAM_NULL
  /\ p \in TailLoaded => l.tail_h # ANAM_NULL
  /\ p \in HeadLoaded => l.head_h # ANAM_NULL
  /\ p \in NextLive => l.next_h # ANAM_NULL

SeenOK == seen \in [Thread -> SUBSET (Value \cup {NoValue})]

\* The parts of the type invariant: what is shared, what is seen, and each thread.
LEMMA TypeInvParts ==
  /\ TypeInv <=> /\ SharedOK /\ SeenOK
                 /\ pc \in [Thread -> PC] /\ loc \in [Thread -> LocSet]
                 /\ \A t \in Thread : ThreadOK(pc[t], loc[t])
  /\ TypeInv' <=> /\ SharedOK' /\ SeenOK'
                  /\ pc' \in [Thread -> PC] /\ loc' \in [Thread -> LocSet]
                  /\ \A t \in Thread : ThreadOK(pc'[t], loc'[t])
<1>1. \A h : h \in LiveHandles <=> h \in Handles /\ h # ANAM_NULL
  BY HandleFields
<1>2. TypeInv <=> /\ SharedOK /\ SeenOK
                 /\ pc \in [Thread -> PC] /\ loc \in [Thread -> LocSet]
                 /\ \A t \in Thread : ThreadOK(pc[t], loc[t])
  BY <1>1 DEF TypeInv, TypeOK, PendingOK, SharedOK, SeenOK, ThreadOK, LocSet
<1>3. TypeInv' <=> /\ SharedOK' /\ SeenOK'
                  /\ pc' \in [Thread -> PC] /\ loc' \in [Thread -> LocSet]
                  /\ \A t \in Thread : ThreadOK(pc'[t], loc'[t])
  BY <1>1 DEF TypeInv, TypeOK, PendingOK, SharedOK, SeenOK, ThreadOK, LocSet
<1> QED
  BY <1>2, <1>3

\* Only the thread that takes the step changes its program counter and its locals.
LEMMA ThreadStep ==
  ASSUME TypeInv, NEW t \in Thread, NEW from, NEW to, NEW n, NEW h, NEW ta, NEW nx, NEW d,
         Row(t, from, to, n, h, ta, nx, d), to \in PC,
         to \in Owning \cup Linked => n # ANAM_NULL,
         to \in TailLoaded => ta # ANAM_NULL,
         to \in HeadLoaded => h # ANAM_NULL,
         to \in NextLive => nx # ANAM_NULL
  PROVE  /\ pc' \in [Thread -> PC] /\ loc' \in [Thread -> LocSet]
         /\ \A u \in Thread : ThreadOK(pc'[u], loc'[u])
<1>1. pc \in [Thread -> PC] /\ \A u \in Thread : ThreadOK(pc[u], loc[u])
  BY TypeInvParts
<1>2. pc' \in [Thread -> PC] /\ loc' \in [Thread -> LocSet]
  BY <1>1 DEF Row
<1>3. ThreadOK(pc'[t], loc'[t])
  BY <1>2 DEF Row, ThreadOK
<1>4. \A u \in Thread \ {t} : ThreadOK(pc'[u], loc'[u])
  BY <1>1 DEF Row
<1> QED
  BY <1>2, <1>3, <1>4

ThreadsOK ==
  /\ pc \in [Thread -> PC] /\ loc \in [Thread -> LocSet]
  /\ \A u \in Thread : ThreadOK(pc[u], loc[u])

\* A step that keeps the locals, clears them, or clears all but the new node.
LEMMA PlainStep ==
  ASSUME TypeInv, NEW t \in Thread, NEW from, NEW to \in PC
  PROVE  /\ Clear(t, from, to) /\ to \notin Owning \cup Linked \cup TailLoaded \cup HeadLoaded \cup NextLive
              => ThreadsOK'
         /\ Restart(t, from, to) /\ from \in Owning
              /\ to \notin TailLoaded \cup HeadLoaded \cup NextLive => ThreadsOK'
         /\ Restart(t, from, to) /\ to \notin Owning \cup Linked \cup TailLoaded \cup HeadLoaded \cup NextLive
              => ThreadsOK'
         /\ Same(t, from, to) /\ (to \in Owning \cup Linked => from \in Owning \cup Linked)
              /\ (to \in TailLoaded => from \in TailLoaded)
              /\ (to \in HeadLoaded => from \in HeadLoaded)
              /\ (to \in NextLive => from \in NextLive \/ loc[t].next_h # ANAM_NULL) => ThreadsOK'
<1>1. ThreadOK(pc[t], loc[t])
  BY TypeInvParts
<1>2. Clear(t, from, to) /\ to \notin Owning \cup Linked \cup TailLoaded \cup HeadLoaded \cup NextLive
         => ThreadsOK'
  BY ThreadStep DEF Clear, ThreadsOK
<1>3. Restart(t, from, to) /\ from \in Owning
         /\ to \notin TailLoaded \cup HeadLoaded \cup NextLive => ThreadsOK'
  <2> SUFFICES ASSUME Restart(t, from, to), from \in Owning,
                      to \notin TailLoaded \cup HeadLoaded \cup NextLive
               PROVE  ThreadsOK'
    OBVIOUS
  <2>1. loc[t].new_h # ANAM_NULL
    BY <1>1 DEF ThreadOK, Restart, Row
  <2> QED
    BY <2>1, ThreadStep DEF Restart, ThreadsOK
<1>4. Restart(t, from, to) /\ to \notin Owning \cup Linked \cup TailLoaded \cup HeadLoaded \cup NextLive
         => ThreadsOK'
  BY ThreadStep DEF Restart, ThreadsOK
<1>5. Same(t, from, to) /\ (to \in Owning \cup Linked => from \in Owning \cup Linked)
         /\ (to \in TailLoaded => from \in TailLoaded)
         /\ (to \in HeadLoaded => from \in HeadLoaded)
         /\ (to \in NextLive => from \in NextLive \/ loc[t].next_h # ANAM_NULL) => ThreadsOK'
  <2> SUFFICES ASSUME Same(t, from, to), to \in Owning \cup Linked => from \in Owning \cup Linked,
                      to \in TailLoaded => from \in TailLoaded, to \in HeadLoaded => from \in HeadLoaded,
                      to \in NextLive => from \in NextLive \/ loc[t].next_h # ANAM_NULL
               PROVE  ThreadsOK'
    OBVIOUS
  <2>1. pc[t] = from
    BY DEF Same, Row
  <2>2. /\ to \in Owning \cup Linked => loc[t].new_h # ANAM_NULL
        /\ to \in TailLoaded => loc[t].tail_h # ANAM_NULL
        /\ to \in HeadLoaded => loc[t].head_h # ANAM_NULL
        /\ to \in NextLive => loc[t].next_h # ANAM_NULL
    BY <1>1, <2>1 DEF ThreadOK
  <2> QED
    BY <2>2, ThreadStep DEF Same, ThreadsOK
<1> QED
  BY <1>2, <1>3, <1>4, <1>5

\* The steps of push keep the types of the threads.
LEMMA PushThreads ==
  ASSUME TypeInv, NEW t \in Thread, PushStep(t) \/ PushCall(t)
  PROVE  ThreadsOK'
<1>0. ThreadOK(pc[t], loc[t]) /\ ANAM_NULL \notin LiveHandles /\ tail # ANAM_NULL
  BY TypeInvParts, HandleFields DEF SharedOK
<1> USE DEF Owning, Linked, TailLoaded, HeadLoaded, NextLive, PC, Popping, Testing, Peeking
<1>1. CASE PushCall(t)
  BY <1>1, PushRows, ThreadStep DEF ThreadsOK
<1>2. CASE PushFull(t) \/ PushSwing(t)
  BY <1>2, PushRows, PlainStep
<1>3. CASE PushAlloc(t)
  <2>1. Handle(generation[Head(free)], Head(free)) # ANAM_NULL
    BY <1>0, <1>3, Loaded DEF PushAlloc, SP!Take
  <2> QED
    BY <1>3, <2>1, PushRows, ThreadStep DEF ThreadsOK
<1>4. CASE PushInit(t) \/ PushGetTail(t) \/ PushLength(t) \/ PushReturn(t)
  BY <1>4, PushRows, PlainStep
<1>5. CASE PushTailStale(t) \/ PushTailMoved(t) \/ PushHelp(t) \/ PushHelpFails(t)
  BY <1>5, PushRows, PlainStep
<1>6. CASE PushCheckTail(t)
  BY <1>6, PushRows, PlainStep
<1>7. CASE PushLoadTail(t) \/ PushLoadLast(t)
  <2>1. loc[t].new_h # ANAM_NULL
    BY <1>0, <1>7, PushRows DEF ThreadOK, Row
  <2> QED
    BY <1>0, <1>7, <2>1, PushRows, ThreadStep DEF ThreadsOK
<1>8. CASE PushLoadNext(t) \/ PushLink(t) \/ PushRetry(t)
  <2>1. loc[t].new_h # ANAM_NULL /\ loc[t].tail_h # ANAM_NULL
    BY <1>0, <1>8, PushRows DEF ThreadOK, Row
  <2> QED
    BY <1>8, <2>1, PushRows, ThreadStep DEF ThreadsOK
<1> QED
  BY <1>1, <1>2, <1>3, <1>4, <1>5, <1>6, <1>7, <1>8 DEF PushStep

\* The steps of pop keep them.
LEMMA PopThreads ==
  ASSUME TypeInv, NEW t \in Thread, PopStep(t) \/ PopCall(t)
  PROVE  ThreadsOK'
<1>0. ThreadOK(pc[t], loc[t]) /\ head # ANAM_NULL
  BY TypeInvParts, HandleFields DEF SharedOK
<1> USE DEF Owning, Linked, TailLoaded, HeadLoaded, NextLive, PC, Popping, Testing, Peeking
<1>1. CASE PopCall(t) \/ PopGetHead(t) \/ PopEndGeneration(t) \/ PopFree(t)
  BY <1>1, PopRows, PlainStep
<1>2. CASE PopHeadStale(t) \/ PopHeadMoved(t) \/ PopHelp(t) \/ PopHelpFails(t) \/ PopNextStale(t)
  BY <1>2, PopRows, PlainStep
<1>3. CASE PopEmpty(t) \/ PopRetry(t) \/ PopReturn(t)
  BY <1>3, PopRows, PlainStep
<1>4. CASE PopCheckHead(t)
  BY <1>4, PopRows, PlainStep DEF PopCheckHead
<1>5. CASE PopGetNext(t)
  BY <1>5, PopRows, PlainStep DEF PopGetNext, GetNext, Valid
<1>6. CASE PopLoadHead(t)
  BY <1>0, <1>6, PopRows, ThreadStep DEF ThreadsOK
<1>7. CASE PopLoadTail(t) \/ PopLoadNext(t) \/ PopRead(t) \/ PopUnlink(t)
  <2>1. loc[t].head_h # ANAM_NULL
    BY <1>0, <1>7, PopRows DEF ThreadOK, Row
  <2>2. PopRead(t) => loc[t].next_h # ANAM_NULL
    BY <1>0, PopRows DEF ThreadOK, Row
  <2> QED
    BY <1>7, <2>1, <2>2, PopRows, ThreadStep DEF ThreadsOK
<1>8. CASE PopLength(t)
  BY <1>8, PopRows, ThreadStep DEF ThreadsOK
<1> QED
  BY <1>1, <1>2, <1>3, <1>4, <1>5, <1>6, <1>7, <1>8 DEF PopStep

\* So do those of peek, empty and destroy.
LEMMA OtherThreads ==
  ASSUME TypeInv, NEW t \in Thread, PeekStep(t) \/ PeekCall(t) \/ DestroyStep(t) \/ Destroy(t)
  PROVE  ThreadsOK'
<1>0. ThreadOK(pc[t], loc[t]) /\ head # ANAM_NULL
  BY TypeInvParts, HandleFields DEF SharedOK
<1> USE DEF Owning, Linked, TailLoaded, HeadLoaded, NextLive, PC, Popping, Testing, Peeking
<1>1. CASE PeekCall(t) \/ PeekGetHead(t)
  BY <1>1, OtherRows, PlainStep
<1>2. CASE Destroy(t) \/ DestroyRelease(t) \/ DestroyFree(t) \/ DestroyReturn(t)
  BY <1>2, OtherRows, PlainStep
<1>3. CASE Answer(t)
  BY <1>3, OtherRows, PlainStep
<1>4. CASE PeekLoadHead(t)
  BY <1>0, <1>4, OtherRows, ThreadStep DEF ThreadsOK
<1>5. CASE PeekLoadNext(t)
  <2>1. loc[t].head_h # ANAM_NULL
    BY <1>0, <1>5, OtherRows DEF ThreadOK, Row
  <2> QED
    BY <1>5, <2>1, OtherRows, ThreadStep DEF ThreadsOK
<1>6. CASE PeekGetNext(t)
  BY <1>6, OtherRows, PlainStep DEF PeekGetNext, GetNext, Valid
<1> QED
  BY <1>1, <1>2, <1>3, <1>4, <1>5, <1>6 DEF PeekStep, DestroyStep, PeekReturn, EmptyReturn

memory == <<head, free, generation, node_next, node_data>>

\* Where the shared state changes.
LEMMA Effects ==
  ASSUME NEW t \in Thread, CallStep(t) \/ ClientStep(t)
  PROVE  /\ \/ UNCHANGED memory
            \/ PushAlloc(t) \/ PushInit(t) \/ PushLink(t) \/ PopUnlink(t) \/ PopEndGeneration(t)
            \/ PopFree(t) \/ DestroyRelease(t) \/ DestroyFree(t)
         /\ UNCHANGED tail \/ PushHelp(t) \/ PushSwing(t) \/ PopHelp(t)
         /\ UNCHANGED mode \/ Destroy(t) \/ DestroyReturn(t)
         /\ UNCHANGED calls \/ PushCall(t)
         /\ UNCHANGED length \/ PushLength(t) \/ PopLength(t)
         /\ \/ UNCHANGED stat
            \/ \E c \in {"push_count", "pop_count", "push_fails", "pop_fails", "aba_prevented"} : Count(c)
<1> USE DEF shared, memory, ends, counters, pool, nodes, client, Counterfeit, Help, HelpFails, LoadHead,
            GetHead, LoadNext, GetNext, EndGeneration, PushFree, SP!Take, SP!EndGeneration, SP!GiveBack
<1>1. ASSUME PushStep(t) \/ PushCall(t)
      PROVE  /\ UNCHANGED memory \/ PushAlloc(t) \/ PushInit(t) \/ PushLink(t)
             /\ UNCHANGED tail \/ PushHelp(t) \/ PushSwing(t)
             /\ UNCHANGED mode /\ (UNCHANGED calls \/ PushCall(t))
             /\ UNCHANGED length \/ PushLength(t)
             /\ UNCHANGED stat \/ \E c \in {"push_count", "push_fails", "aba_prevented"} : Count(c)
  BY <1>1 DEF PushStep, PushCall, PushFull, PushAlloc, PushInit, PushLoadTail, PushTailStale, PushGetTail,
       PushLoadNext, PushTailMoved, PushCheckTail, PushLink, PushRetry, PushHelp, PushHelpFails,
       PushLoadLast, PushSwing, PushLength, PushReturn
<1>2. ASSUME PopStep(t) \/ PopCall(t)
      PROVE  /\ UNCHANGED memory \/ PopUnlink(t) \/ PopEndGeneration(t) \/ PopFree(t)
             /\ UNCHANGED tail \/ PopHelp(t)
             /\ UNCHANGED <<mode, calls>>
             /\ UNCHANGED length \/ PopLength(t)
             /\ UNCHANGED stat \/ \E c \in {"pop_count", "pop_fails", "aba_prevented"} : Count(c)
  BY <1>2 DEF PopStep, PopCall, PopLoadHead, PopLoadTail, PopHeadStale, PopGetHead, PopLoadNext,
       PopHeadMoved, PopEmpty, PopCheckHead, PopHelp, PopHelpFails, PopNextStale, PopGetNext, PopRead,
       PopUnlink, PopRetry, PopEndGeneration, PopFree, PopLength, PopReturn
<1>3. ASSUME PeekStep(t) \/ PeekCall(t) PROVE UNCHANGED shared
  BY <1>3 DEF PeekStep, PeekCall, PeekLoadHead, PeekGetHead, PeekLoadNext, PeekGetNext, PeekReturn,
       EmptyReturn, Answer
<1>4. ASSUME DestroyStep(t) \/ Destroy(t)
      PROVE  /\ UNCHANGED memory \/ DestroyRelease(t) \/ DestroyFree(t)
             /\ UNCHANGED <<tail, calls, length, stat>>
             /\ UNCHANGED mode \/ Destroy(t) \/ DestroyReturn(t)
  BY <1>4 DEF DestroyStep, Destroy, DestroyRelease, DestroyFree, DestroyReturn
<1> QED
  BY <1>1, <1>2, <1>3, <1>4 DEF CallStep, ClientStep

\* The locals of a thread that is going to change the memory.
LEMMA AtWork ==
  ASSUME TypeInv, NEW t \in Thread
  PROVE  /\ PushInit(t) => loc[t].new_h.slot \in Slot
         /\ PushLink(t) => loc[t].tail_h.slot \in Slot /\ loc[t].new_h \in LiveHandles
         /\ PopUnlink(t) => loc[t].next_h \in LiveHandles
         /\ PopEndGeneration(t) \/ PopFree(t) => loc[t].head_h.slot \in Slot
         /\ PushHelp(t) \/ PopHelp(t) => loc[t].next_h \in LiveHandles
         /\ PushSwing(t) => loc[t].new_h \in LiveHandles
<1>1. /\ PushInit(t) => pc[t] = "p_init"
      /\ PushLink(t) => pc[t] = "p_link"
      /\ PopUnlink(t) => pc[t] = "o_cas"
      /\ PopEndGeneration(t) \/ PopFree(t) => pc[t] \in {"o_end", "o_free"}
      /\ PushHelp(t) \/ PopHelp(t) => pc[t] \in {"p_help", "o_help"}
      /\ PushSwing(t) => pc[t] = "p_swing"
  BY DEF PushInit, PushLink, PopUnlink, PopEndGeneration, PopFree, PushHelp, PopHelp, PushSwing, Help,
         EndGeneration, PushFree, Goto
<1> QED
  BY <1>1, Live DEF Owning, Linked, TailLoaded, HeadLoaded, NextLive

\* A counter that wraps stays below its modulus.
LEMMA ModRange ==
  ASSUME NEW m \in Nat \ {0}, NEW x \in Int
  PROVE  x % m \in 0 .. m - 1
<1>1. PICK q \in Int, r \in Int : x = m * q + r /\ 0 <= r /\ r < m /\ r = x % m
  BY Euclid
<1> QED
  BY <1>1

\* Every step keeps the types of what the threads share.
LEMMA SharedTyped ==
  ASSUME TypeInv, NEW t \in Thread, CallStep(t) \/ ClientStep(t)
  PROVE  SharedOK'
<1>0. SharedOK
  BY TypeInvParts
<1>c. CountMod \in Nat \ {0} /\ StatMod \in Nat \ {0} /\ GenMod \in Nat \ {0} /\ MaxPush \in Nat
  BY QueueAssumption
<1> USE HandleFields
<1>1. /\ free' \in Seq(Slot) /\ generation' \in [Slot -> 0 .. GenMod - 1]
      /\ node_next' \in [Slot -> Handles] /\ node_data' \in [Slot -> Value \cup {NoValue}]
      /\ head' \in LiveHandles
  <2>1. CASE UNCHANGED memory
    BY <1>0, <2>1 DEF memory, SharedOK
  <2>2. CASE PushAlloc(t)
    BY <1>0, <2>2, Loaded DEF SharedOK, PushAlloc, SP!Take, ends, nodes
  <2>3. CASE PushInit(t)
    BY <1>0, <2>3, AtWork, Live DEF SharedOK, PushInit, ends, pool
  <2>4. CASE PushLink(t)
    BY <1>0, <2>4, AtWork DEF SharedOK, PushLink, ends, pool
  <2>5. CASE PopUnlink(t)
    BY <1>0, <2>5, AtWork DEF SharedOK, PopUnlink, nodes, pool
  <2>6. ASSUME NEW h, SP!EndGeneration(h.slot), h.slot \in Slot
        PROVE  free' \in Seq(Slot) /\ generation' \in [Slot -> 0 .. GenMod - 1]
    <3>1. PICK g \in Int : g = generation[h.slot] + 1
      BY <1>0, <1>c, <2>6 DEF SharedOK
    <3>2. g % GenMod \in 0 .. GenMod - 1
      BY <1>c, ModRange
    <3> QED
      BY <1>0, <2>6, <3>1, <3>2 DEF SharedOK, SP!EndGeneration
  <2>7. ASSUME NEW h, SP!GiveBack(h.slot), h.slot \in Slot
        PROVE  free' \in Seq(Slot) /\ generation' \in [Slot -> 0 .. GenMod - 1]
    <3>1. PICK s \in Slot : s = h.slot
      BY <2>7
    <3>2. <<s>> \o free \in Seq(Slot)
      <4>1. <<s>> \in Seq(Slot) /\ free \in Seq(Slot)
        BY <1>0 DEF SharedOK
      <4> QED
        BY <4>1
    <3> QED
      BY <1>0, <2>7, <3>1, <3>2 DEF SharedOK, SP!GiveBack
  <2>8. CASE PopEndGeneration(t)
    BY <1>0, <2>6, <2>8, AtWork DEF SharedOK, PopEndGeneration, EndGeneration, ends, nodes, pool
  <2>9. CASE PopFree(t)
    BY <1>0, <2>7, <2>9, AtWork DEF SharedOK, PopFree, PushFree, ends, nodes
  <2>10. CASE DestroyRelease(t)
    BY <1>0, <2>6, <2>10, Live DEF SharedOK, DestroyRelease, EndGeneration, ends, nodes, pool
  <2>11. CASE DestroyFree(t)
    BY <1>0, <2>7, <2>11, Live DEF SharedOK, DestroyFree, PushFree, ends, nodes
  <2> QED
    BY <2>1, <2>2, <2>3, <2>4, <2>5, <2>8, <2>9, <2>10, <2>11, Effects
<1>2. tail' \in LiveHandles
  BY <1>0, Effects, AtWork DEF SharedOK, PushHelp, PopHelp, PushSwing, Help
<1>3. length' \in 0 .. CountMod - 1
  <2>1. PICK x \in Int, y \in Int : x = length + 1 /\ y = length - 1
    BY <1>0, <1>c DEF SharedOK
  <2>2. x % CountMod \in 0 .. CountMod - 1 /\ y % CountMod \in 0 .. CountMod - 1
    BY <1>c, ModRange
  <2>3. length' \in {length, x % CountMod, y % CountMod}
    BY <2>1, Effects DEF PushLength, PopLength
  <2> QED
    BY <1>0, <2>2, <2>3 DEF SharedOK
<1>4. stat' \in [{"push_count", "pop_count", "push_fails", "pop_fails", "aba_prevented"} -> 0 .. StatMod - 1]
  <2> DEFINE S == {"push_count", "pop_count", "push_fails", "pop_fails", "aba_prevented"}
  <2>1. stat \in [S -> 0 .. StatMod - 1]
    BY <1>0 DEF SharedOK
  <2>2. ASSUME NEW c \in S, Count(c) PROVE stat' \in [S -> 0 .. StatMod - 1]
    <3> HIDE DEF S
    <3>1. PICK x \in Int : x = stat[c] + 1
      BY <1>c, <2>1
    <3>2. x % StatMod \in 0 .. StatMod - 1
      BY <1>c, ModRange
    <3> QED
      BY <2>1, <2>2, <3>1, <3>2 DEF Count
  <2> QED
    BY <2>1, <2>2, Effects
<1>5. mode' \in {"open", "draining", "closed"} /\ calls' \in 0 .. MaxPush
  BY <1>0, <1>c, Effects DEF SharedOK, Destroy, DestroyReturn, PushCall
<1> QED
  BY <1>1, <1>2, <1>3, <1>4, <1>5 DEF SharedOK

-----------------------------------------------------------------------------
(* The type invariant is an invariant *)

\* What Chain makes of well-typed links.
LEMMA ChainTyped ==
  ASSUME NEW hd \in LiveHandles, NEW links \in [Slot -> Handles]
  PROVE  ChainOf(hd, links) \in Walks
<1>1. Capacity \in 0 .. Capacity
  BY HandleFields
<1> QED
  BY <1>1, WalkDefined DEF ChainOf

ContentsOf(c, data) == [i \in 1 .. Len(c) - 1 |-> data[c[i + 1]]]

\* The contents of a list of nodes c are the data of all but the first.
LEMMA ContentsSeq ==
  ASSUME NEW c \in Walks, NEW V, NEW data \in [Slot -> V]
  PROVE  /\ ContentsOf(c, data) \in Seq(V) /\ Len(ContentsOf(c, data)) = Len(c) - 1
         /\ \A i \in 1 .. Len(c) - 1 : ContentsOf(c, data)[i] = data[c[i + 1]] /\ c[i + 1] \in Slot
         /\ ContentsOf(c, data) = <<>> <=> Len(c) = 1
<1> DEFINE C == ContentsOf(c, data)
<1>1. c \in Seq(Slot) /\ Len(c) \in Nat \ {0}
  BY DEF Walks
<1>2. PICK n \in Nat : n = Len(c) - 1
  BY <1>1
<1>3. \A i \in 1 .. n : c[i + 1] \in Slot
  BY <1>1, <1>2
<1>4. C = [i \in 1 .. n |-> data[c[i + 1]]]
  BY <1>2 DEF ContentsOf
<1>5. \A i \in 1 .. n : data[c[i + 1]] \in V
  BY <1>3
<1>6. C \in Seq(V) /\ Len(C) = n /\ \A i \in 1 .. n : C[i] = data[c[i + 1]]
  BY <1>4, <1>5
<1> HIDE DEF C
<1>7. C = <<>> <=> n = 0
  BY <1>6
<1> QED
  BY <1>1, <1>2, <1>3, <1>6, <1>7 DEF C

\* The items of the queue, before and after a step, as a function of the list and the data.
LEMMA ContentsIs ==
  Contents = ContentsOf(Chain, node_data) /\ Contents' = ContentsOf(Chain', node_data')
BY DEF Contents, ContentsOf

\* The front is an item or none.
LEMMA FrontTyped ==
  ASSUME SharedOK'
  PROVE  Front' \in Value \cup {NoValue}
<1>1. /\ head' \in LiveHandles /\ node_next' \in [Slot -> Handles]
      /\ node_data' \in [Slot -> Value \cup {NoValue}]
  BY DEF SharedOK
<1>2. PICK c \in Walks : c = Chain'
  BY <1>1, ChainTyped, ChainIs
<1>3. PICK C : C = Contents' /\ C = ContentsOf(c, node_data')
  BY <1>2, ContentsIs
<1>4. C \in Seq(Value \cup {NoValue})
  BY <1>1, <1>3, ContentsSeq
<1>5. Front' = IF C = <<>> THEN NoValue ELSE C[1]
  BY <1>3 DEF Front
<1>6. C # <<>> => C[1] \in Value \cup {NoValue}
  BY <1>4
<1> QED
  BY <1>5, <1>6

\* Every step keeps the type invariant.
LEMMA TypeStep ==
  ASSUME TypeInv, [Next]_vars
  PROVE  TypeInv'
<1>1. CASE UNCHANGED vars
  <2>1. UNCHANGED <<shared, pc, loc, seen>>
    BY <1>1 DEF vars
  <2>2. SharedOK' /\ SeenOK' /\ ThreadsOK'
    BY <2>1, TypeInvParts DEF SharedOK, SeenOK, ThreadsOK, shared, ends, counters, pool, nodes, client
  <2> QED
    BY <2>2, TypeInvParts DEF ThreadsOK
<1>2. CASE Next
  <2>1. PICK t \in Thread : CallStep(t) \/ ClientStep(t)
    BY <1>2 DEF Next
  <2>2. SharedOK'
    BY <2>1, SharedTyped
  <2>3. ThreadsOK'
    BY <2>1, PushThreads, PopThreads, OtherThreads DEF CallStep, ClientStep
  <2>4. SeenOK'
    <3>1. Front' \in Value \cup {NoValue}
      BY <2>2, FrontTyped
    <3>2. PICK f \in Value \cup {NoValue} : f = Front'
      BY <3>1
    <3>3. seen \in [Thread -> SUBSET (Value \cup {NoValue})]
      BY TypeInvParts DEF SeenOK
    <3>4. seen' = [u \in Thread |->
                     CASE pc'[u] \in Peeking -> seen[u] \cup {f}
                       [] pc'[u] \in Popping \cup Testing -> seen[u] \cup ({f} \cap {NoValue})
                       [] OTHER -> {}]
      BY <1>2, <3>2 DEF Next, Watch
    <3>5. ASSUME NEW u \in Thread PROVE seen'[u] \in SUBSET (Value \cup {NoValue})
      <4>1. seen[u] \in SUBSET (Value \cup {NoValue})
        BY <3>3
      <4>2. seen'[u] = CASE pc'[u] \in Peeking -> seen[u] \cup {f}
                         [] pc'[u] \in Popping \cup Testing -> seen[u] \cup ({f} \cap {NoValue})
                         [] OTHER -> {}
        BY <3>4
      <4>3. seen'[u] \in {seen[u] \cup {f}, seen[u] \cup ({f} \cap {NoValue}), {}}
        BY <4>2
      <4> QED
        BY <4>1, <4>3
    <3> QED
      BY <3>4, <3>5 DEF SeenOK
  <2> QED
    BY <2>2, <2>3, <2>4, TypeInvParts DEF ThreadsOK
<1> QED
  BY <1>1, <1>2

\* A new queue satisfies it.
LEMMA TypeInit == Init => TypeInv
<1> SUFFICES ASSUME Init PROVE TypeInv
  OBVIOUS
<1>0. Capacity \in Nat \ {0} /\ GenMod \in Nat \ {0} /\ CountMod \in Nat \ {0} /\ StatMod \in Nat \ {0}
      /\ MaxPush \in Nat
  BY QueueAssumption
<1>1. Handle(0, 0) \in LiveHandles /\ ANAM_NULL \in Handles
  BY <1>0, HandleFields
<1>2. SharedOK
  <2>1. \A i \in 1 .. Capacity : i \in Slot
    BY <1>0, HandleFields
  <2>2. [i \in 1 .. Capacity |-> i] \in Seq(Slot)
    BY <1>0, <2>1
  <2> QED
    BY <1>0, <1>1, <2>2 DEF Init, SharedOK
<1>3. SeenOK
  BY DEF Init, SeenOK
<1>4. NoLocals \in LocSet
  BY <1>1 DEF NoLocals, LocSet
<1>5. \A t \in Thread : pc[t] = "idle" /\ loc[t] = NoLocals
  BY DEF Init
<1>6. "idle" \in PC /\ "idle" \notin Owning \cup Linked \cup TailLoaded \cup HeadLoaded \cup NextLive
  BY DEF PC, Owning, Linked, TailLoaded, HeadLoaded, NextLive
<1>7. pc \in [Thread -> PC] /\ loc \in [Thread -> LocSet]
  BY <1>4, <1>6 DEF Init
<1>8. \A t \in Thread : ThreadOK(pc[t], loc[t])
  BY <1>4, <1>5, <1>6 DEF ThreadOK
<1> QED
  BY <1>2, <1>3, <1>7, <1>8, TypeInvParts

\* At every step of push, pop, peek, empty and destroy the handles that a call is about to
\* follow name slots: no call ever follows a null handle.
THEOREM QueueTypeInvariance == Spec => []TypeInv
<1>1. TypeInv /\ [Next]_vars => TypeInv'
  BY TypeStep
<1> QED
  BY <1>1, TypeInit, PTL DEF Spec

\* Every variable of the queue keeps its type, whatever the calls do: in particular
\* push, pop and peek never follow ANAM_NULL, and what a call reads through a stale
\* handle is still a handle or a value of some node.
THEOREM QueueTypeCorrect == Spec => []TypeOK
<1>1. TypeInv => TypeOK
  BY DEF TypeInv
<1> QED
  BY <1>1, QueueTypeInvariance, PTL

-----------------------------------------------------------------------------
(* Where the threads are while the queue is destroyed *)

Destroying == {"d_release", "d_free", "d_done"}
Draining == Popping \cup Destroying \cup {"idle", "o_end", "o_free", "o_length", "o_count"}

\* From the call of destroy on only its caller is inside a call, and it pops until it
\* destroys; afterwards nobody is.
ModesOK ==
  /\ \A t \in Thread : pc[t] \in Destroying => mode = "draining"
  /\ mode = "draining" => \A t, u \in Thread : pc[t] # "idle" /\ pc[u] # "idle" => t = u
  /\ mode = "closed" => \A t \in Thread : pc[t] = "idle"
  /\ mode # "open" => \A t \in Thread : pc[t] \in Draining

\* The labels a step leads to.
LEMMA Flow ==
  ASSUME TypeInv, NEW t \in Thread, CallStep(t) \/ ClientStep(t)
  PROVE  /\ \A u \in Thread \ {t} : pc'[u] = pc[u] /\ loc'[u] = loc[u]
         /\ \/ Destroy(t) \/ DestroyReturn(t)
            \/ /\ UNCHANGED mode
               /\ mode = "open" \/ pc[t] # "idle"
               /\ mode # "open" /\ pc[t] \in Draining => pc'[t] \in Draining
               /\ pc'[t] \in Destroying => mode = "draining" \/ pc[t] \in Destroying
               /\ (pc'[t] \in {"d_free", "d_done"}) # (pc[t] \in {"d_free", "d_done"}) => DestroyRelease(t)
<1> DEFINE F == /\ \A u \in Thread \ {t} : pc'[u] = pc[u] /\ loc'[u] = loc[u]
                /\ mode = "open" \/ pc[t] # "idle"
                /\ mode # "open" /\ pc[t] \in Draining => pc'[t] \in Draining
                /\ pc'[t] \in Destroying => mode = "draining" \/ pc[t] \in Destroying
                /\ (pc'[t] \in {"d_free", "d_done"}) # (pc[t] \in {"d_free", "d_done"}) => DestroyRelease(t)
<1> USE DEF Row, Same, Clear, Restart, Draining, Destroying, Popping
<1>1. CASE PushStep(t) \/ PushCall(t)
  <2>1. F
    BY <1>1, PushRows DEF PushStep, PushCall
  <2> QED
    BY <2>1, Effects
<1>2. CASE PopStep(t) \/ PopCall(t)
  BY <1>2, PopRows, Effects DEF PopStep, PopCall
<1>3. CASE PeekStep(t) \/ PeekCall(t)
  BY <1>3, OtherRows, Effects DEF PeekStep, PeekCall, PeekReturn, EmptyReturn
<1>4. CASE DestroyStep(t) \/ Destroy(t)
  BY <1>4, OtherRows, Effects DEF DestroyStep
<1> QED
  BY <1>1, <1>2, <1>3, <1>4 DEF CallStep, ClientStep

\* Every step keeps the order of use.
LEMMA ModesStep ==
  ASSUME TypeInv, ModesOK, NEW t \in Thread, CallStep(t) \/ ClientStep(t)
  PROVE  ModesOK'
<1>1. CASE Destroy(t)
  <2>1. \A u \in Thread : pc[u] = "idle"
    BY <1>1 DEF Destroy
  <2>2. mode' = "draining" /\ pc'[t] = "o_head" /\ \A u \in Thread \ {t} : pc'[u] = "idle"
    BY <1>1, <2>1, Flow, OtherRows DEF Destroy, Same, Row
  <2> QED
    BY <2>2 DEF ModesOK, Destroying, Draining, Popping
<1>2. CASE DestroyReturn(t)
  <2>1. mode = "draining" /\ pc[t] = "d_done" /\ mode' = "closed" /\ pc'[t] = "idle"
    BY <1>2, OtherRows DEF DestroyReturn, Same, Row, ModesOK, Destroying
  <2>2. \A u \in Thread \ {t} : pc'[u] = "idle"
    BY <2>1, Flow DEF ModesOK
  <2> QED
    BY <2>1, <2>2 DEF ModesOK, Destroying, Draining, Popping
<1>3. CASE ~Destroy(t) /\ ~DestroyReturn(t)
  <2>1. /\ UNCHANGED mode /\ \A u \in Thread \ {t} : pc'[u] = pc[u]
        /\ mode = "open" \/ pc[t] # "idle"
        /\ mode # "open" /\ pc[t] \in Draining => pc'[t] \in Draining
        /\ pc'[t] \in Destroying => mode = "draining" \/ pc[t] \in Destroying
    BY <1>3, Flow
  <2> QED
    BY <2>1 DEF ModesOK
<1> QED
  BY <1>1, <1>2, <1>3

-----------------------------------------------------------------------------
(* The nodes *)

\* The handle that names slot s now.
Here(s) == Handle(generation[s], s)
InSeq(s, q) == \E i \in 1 .. Len(q) : q[i] = s

\* The dummy has been released.
Gone == mode = "closed" \/ \E t \in Thread : pc[t] \in {"d_free", "d_done"}

\* The links lead from head through the nodes of L, every link carries the present
\* generation of its node, and every node but the dummy has an item.
IsList(L) ==
  /\ L \in Seq(Slot) /\ Len(L) # 0 /\ Distinct(L)
  /\ L[1] = head.slot
  /\ IF Gone THEN Len(L) = 1 ELSE head = Here(L[1])
  /\ \A i \in 1 .. Len(L) : node_next[L[i]] = IF i = Len(L) THEN ANAM_NULL ELSE Here(L[i + 1])
  /\ \A i \in 1 .. Len(L) : i = 1 \/ node_data[L[i]] \in Value

\* Thread t holds slot s: it has taken it from the pool and not linked it yet, or
\* unlinked it and not given it back.
Holds(t, s) ==
  \/ pc[t] \in Owning /\ s = loc[t].new_h.slot
  \/ pc[t] \in {"o_end", "o_free"} /\ s = loc[t].head_h.slot
  \/ pc[t] = "d_free" /\ s = head.slot

\* Every slot is in exactly one place.
Apart(L) ==
  /\ Distinct(free)
  /\ \A s \in Slot : \/ InSeq(s, free)
                     \/ ~Gone /\ InSeq(s, L)
                     \/ \E t \in Thread : Holds(t, s)
  /\ \A s \in Slot : InSeq(s, free) => Gone \/ ~InSeq(s, L)
  /\ \A t \in Thread : \A s \in Slot :
       Holds(t, s) => /\ ~InSeq(s, free) /\ (Gone \/ ~InSeq(s, L))
                      /\ \A u \in Thread : Holds(u, s) => u = t

\* What a thread knows of the slot it holds.
HandOK(t) ==
  /\ pc[t] \in Owning \cup {"p_alloc"} => loc[t].data \in Value
  /\ pc[t] \in Owning => loc[t].new_h = Here(loc[t].new_h.slot)
  /\ pc[t] \in Owning \ {"p_init"} => /\ node_next[loc[t].new_h.slot] = ANAM_NULL
                                      /\ node_data[loc[t].new_h.slot] = loc[t].data
  /\ pc[t] = "o_end" => /\ loc[t].head_h = Here(loc[t].head_h.slot)
                        /\ node_next[loc[t].head_h.slot] # ANAM_NULL

NodesOK(L) == IsList(L) /\ Apart(L) /\ \A t \in Thread : HandOK(t)

\* The thread that takes the step holds the same slot as before.
SameHold(t) ==
  /\ pc'[t] \in Owning <=> pc[t] \in Owning
  /\ pc[t] \in Owning => loc'[t].new_h = loc[t].new_h
  /\ pc'[t] \in {"o_end", "o_free"} <=> pc[t] \in {"o_end", "o_free"}
  /\ pc[t] \in {"o_end", "o_free"} => loc'[t].head_h = loc[t].head_h
  /\ pc'[t] = "d_free" <=> pc[t] = "d_free"

\* A step that leaves the nodes alone.
Quiet(t) ==
  /\ UNCHANGED memory /\ SameHold(t)
  /\ pc'[t] \in Owning \ {"p_init"} => pc[t] # "p_init"
  /\ pc[t] \in Owning \cup {"p_alloc"} /\ pc'[t] \in Owning => loc'[t].data = loc[t].data
  /\ pc'[t] = "p_alloc" => loc'[t].data \in Value
  /\ pc'[t] = "o_end" => pc[t] = "o_end"

Working(t) ==
  \/ PushAlloc(t) \/ PushInit(t) \/ PushLink(t) \/ PopUnlink(t) \/ PopEndGeneration(t)
  \/ PopFree(t) \/ DestroyRelease(t) \/ DestroyFree(t)

\* Every step but eight leaves the nodes alone.
LEMMA QuietSteps ==
  ASSUME TypeInv, NEW t \in Thread, CallStep(t) \/ ClientStep(t)
  PROVE  Quiet(t) \/ Working(t)
<1>1. UNCHANGED memory \/ Working(t)
  BY Effects DEF Working
<1> USE DEF Row, Same, Clear, Restart, SameHold, Owning
<1>2. CASE PushStep(t) \/ PushCall(t)
  <2>1. PushCall(t) => calls + 1 \in Value
    BY Loaded DEF PushCall
  <2> QED
    BY <1>1, <1>2, <2>1, PushRows DEF PushStep, Quiet, Working
<1>3. CASE PopStep(t) \/ PopCall(t)
  BY <1>1, <1>3, PopRows DEF PopStep, Quiet, Working
<1>4. CASE PeekStep(t) \/ PeekCall(t)
  BY <1>1, <1>4, OtherRows DEF PeekStep, PeekReturn, EmptyReturn, Quiet
<1>5. CASE DestroyStep(t) \/ Destroy(t)
  BY <1>1, <1>5, OtherRows DEF DestroyStep, Quiet, Working
<1> QED
  BY <1>2, <1>3, <1>4, <1>5 DEF CallStep, ClientStep

\* The dummy is released by destroy and by nobody else.
LEMMA GoneKept ==
  ASSUME TypeInv, ModesOK, NEW t \in Thread, CallStep(t) \/ ClientStep(t)
  PROVE  /\ ~DestroyRelease(t) => (Gone' <=> Gone)
         /\ DestroyRelease(t) => ~Gone /\ Gone'
         /\ mode = "open" => ~Gone
         /\ pc[t] \notin {"d_free", "d_done", "idle"} => ~Gone
<1>1. mode = "open" => ~Gone
  BY DEF Gone, ModesOK, Destroying
<1>2. pc[t] \notin {"d_free", "d_done", "idle"} => ~Gone
  BY DEF Gone, ModesOK, Destroying
<1>3. CASE Destroy(t)
  <2>1. mode = "open" /\ mode' = "draining" /\ pc'[t] = "o_head" /\ \A u \in Thread \ {t} : pc'[u] = pc[u]
    BY <1>3, Flow, OtherRows DEF Destroy, Same, Row
  <2>2. ~Gone'
    BY <1>1, <2>1 DEF Gone
  <2> QED
    BY <1>1, <1>2, <1>3, <2>1, <2>2 DEF Destroy, DestroyRelease, EndGeneration, Goto
<1>4. CASE DestroyReturn(t)
  <2>1. pc[t] = "d_done" /\ mode' = "closed"
    BY <1>4, OtherRows DEF DestroyReturn, Same, Row
  <2> QED
    BY <1>1, <1>2, <2>1 DEF Gone, DestroyRelease, EndGeneration, Goto
<1>5. CASE ~Destroy(t) /\ ~DestroyReturn(t)
  <2>1. /\ UNCHANGED mode /\ \A u \in Thread \ {t} : pc'[u] = pc[u]
        /\ (pc'[t] \in {"d_free", "d_done"}) # (pc[t] \in {"d_free", "d_done"}) => DestroyRelease(t)
    BY <1>5, Flow
  <2>2. CASE DestroyRelease(t)
    BY <1>1, <1>2, <2>2, OtherRows DEF Gone, Same, Row
  <2>3. CASE ~DestroyRelease(t)
    BY <1>1, <1>2, <2>1, <2>3 DEF Gone
  <2> QED
    BY <2>2, <2>3
<1> QED
  BY <1>3, <1>4, <1>5

\* The facts about a list that the provers need one by one.
LEMMA ListFacts ==
  ASSUME NEW L, IsList(L)
  PROVE  /\ L \in Seq(Slot) /\ Len(L) \in Nat \ {0} /\ L[1] = head.slot
         /\ \A i \in 1 .. Len(L) : L[i] \in Slot
         /\ \A i, j \in 1 .. Len(L) : L[i] = L[j] => i = j
         /\ IF Gone THEN Len(L) = 1 ELSE head = Here(L[1])
         /\ \A i \in 1 .. Len(L) : node_next[L[i]] = IF i = Len(L) THEN ANAM_NULL ELSE Here(L[i + 1])
         /\ \A i \in 1 .. Len(L) : i = 1 \/ node_data[L[i]] \in Value
<1>1. L \in Seq(Slot) /\ Len(L) \in Nat \ {0}
  BY DEF IsList
<1> QED
  BY <1>1 DEF IsList, Distinct

\* The list stays a list when none of its nodes changes.
LEMMA ListKept ==
  ASSUME NEW L, IsList(L), head' = head, Gone' <=> Gone,
         \A i \in 1 .. Len(L) : /\ node_next'[L[i]] = node_next[L[i]]
                                /\ generation'[L[i]] = generation[L[i]] \/ Gone
                                /\ node_data'[L[i]] = node_data[L[i]]
  PROVE  IsList(L)'
<1>1. ~Gone => \A i \in 1 .. Len(L) : Here(L[i])' = Here(L[i])
  BY DEF Here
<1>2. /\ L \in Seq(Slot) /\ Len(L) \in Nat \ {0} /\ Distinct(L) /\ L[1] = head.slot
      /\ IF Gone THEN Len(L) = 1 ELSE head = Here(L[1])
      /\ \A i \in 1 .. Len(L) : node_next[L[i]] = IF i = Len(L) THEN ANAM_NULL ELSE Here(L[i + 1])
      /\ \A i \in 1 .. Len(L) : i = 1 \/ node_data[L[i]] \in Value
  BY ListFacts DEF IsList
<1>3. IF Gone' THEN Len(L) = 1 ELSE head' = Here(L[1])'
  BY <1>1, <1>2
<1>4. \A i \in 1 .. Len(L) : node_next'[L[i]] = IF i = Len(L) THEN ANAM_NULL ELSE Here(L[i + 1])'
  <2> TAKE i \in 1 .. Len(L)
  <2>1. i # Len(L) => ~Gone /\ i + 1 \in 1 .. Len(L)
    BY <1>2
  <2> QED
    BY <1>1, <1>2, <2>1
<1>5. \A i \in 1 .. Len(L) : i = 1 \/ node_data'[L[i]] \in Value
  BY <1>2
<1> QED
  BY <1>2, <1>3, <1>4, <1>5 DEF IsList, Distinct

\* Slots stay apart when nobody takes or gives one.
LEMMA ApartKept ==
  ASSUME NEW L, Apart(L), free' = free, Gone' <=> Gone,
         \A u \in Thread : \A s \in Slot : Holds(u, s)' <=> Holds(u, s)
  PROVE  Apart(L)'
BY DEF Apart, Distinct, InSeq

\* A quiet step leaves every node where it is.
LEMMA NodesQuiet ==
  ASSUME TypeInv, ModesOK, NEW L, NodesOK(L), NEW t \in Thread, CallStep(t) \/ ClientStep(t), Quiet(t)
  PROVE  NodesOK(L)'
<1>0. \A u \in Thread \ {t} : pc'[u] = pc[u] /\ loc'[u] = loc[u]
  BY Flow
<1>1. UNCHANGED <<head, free, generation, node_next, node_data>>
  BY DEF Quiet, memory
<1>2. Gone' <=> Gone
  <2>1. ~DestroyRelease(t) \/ pc'[t] # "d_free"
    BY OtherRows DEF Quiet, SameHold, Same, Row
  <2>2. DestroyRelease(t) => pc'[t] \in {"d_free", "d_done"} /\ pc[t] = "d_release"
    BY OtherRows DEF Same, Row
  <2>3. DestroyRelease(t) => Valid(head)
    <3>1. DestroyRelease(t) => ~Gone
      BY GoneKept
    <3>2. ~Gone => head = Here(head.slot)
      BY ListFacts DEF NodesOK
    <3> QED
      BY <3>1, <3>2, Live, HandleFields DEF Valid, Here
  <2>4. ~DestroyRelease(t)
    BY <2>1, <2>3, OtherRows DEF Same, Row
  <2> QED
    BY <2>4, GoneKept
<1>3. IsList(L)'
  BY <1>1, <1>2, ListKept DEF NodesOK
<1>4. \A u \in Thread : \A s \in Slot : Holds(u, s)' <=> Holds(u, s)
  <2>1. ASSUME NEW u \in Thread \ {t}, NEW s \in Slot PROVE Holds(u, s)' <=> Holds(u, s)
    BY <1>0, <1>1, <2>1 DEF Holds
  <2>2. ASSUME NEW s \in Slot PROVE Holds(t, s)' <=> Holds(t, s)
    BY <1>1 DEF Holds, Quiet, SameHold
  <2> QED
    BY <2>1, <2>2
<1>5. Apart(L)'
  BY <1>1, <1>2, <1>4, ApartKept DEF NodesOK
<1>6. \A u \in Thread \ {t} : HandOK(u)'
  BY <1>0, <1>1 DEF NodesOK, HandOK, Here
<1>7. HandOK(t)'
  BY <1>1 DEF NodesOK, HandOK, Here, Quiet, SameHold, Owning
<1> QED
  BY <1>3, <1>5, <1>6, <1>7 DEF NodesOK

\* The list with its first node taken out, and with a node more at its end.
Shrunk(M, L) == M = Tail(L)
Grown(M, L, s) == M = Append(L, s)

\* Sequences without repetition, shortened and lengthened at their ends.
LEMMA TailFacts ==
  ASSUME NEW q, q \in Seq(Slot), Len(q) # 0, Distinct(q), NEW r, Shrunk(r, q)
  PROVE  /\ r \in Seq(Slot) /\ Len(r) = Len(q) - 1 /\ Len(q) \in Nat \ {0}
         /\ \A i \in 1 .. Len(r) : r[i] = q[i + 1] /\ i + 1 \in 1 .. Len(q)
         /\ Distinct(r)
         /\ \A s : InSeq(s, r) <=> InSeq(s, q) /\ s # q[1]
<1>1. Len(q) \in Nat \ {0} /\ q # <<>>
  OBVIOUS
<1>2. r \in Seq(Slot) /\ Len(r) = Len(q) - 1 /\ \A i \in 1 .. Len(r) : r[i] = q[i + 1]
  BY <1>1 DEF Shrunk
<1>3. \A i \in 1 .. Len(r) : i + 1 \in 1 .. Len(q)
  BY <1>1, <1>2
<1>4. Distinct(r)
  BY <1>1, <1>2, <1>3 DEF Distinct
<1>5. ASSUME NEW s PROVE InSeq(s, r) <=> InSeq(s, q) /\ s # q[1]
  <2>1. ASSUME InSeq(s, r) PROVE InSeq(s, q) /\ s # q[1]
    <3>1. PICK i \in 1 .. Len(r) : r[i] = s
      BY <2>1 DEF InSeq
    <3>2. q[i + 1] = s /\ i + 1 \in 1 .. Len(q) /\ 1 \in 1 .. Len(q) /\ i + 1 # 1
      BY <1>1, <1>2, <1>3, <3>1
    <3> QED
      BY <3>2 DEF InSeq, Distinct
  <2>2. ASSUME InSeq(s, q), s # q[1] PROVE InSeq(s, r)
    <3>1. PICK i \in 1 .. Len(q) : q[i] = s
      BY <2>2 DEF InSeq
    <3>2. i - 1 \in 1 .. Len(r) /\ r[i - 1] = s
      BY <1>1, <1>2, <2>2, <3>1
    <3> QED
      BY <3>2 DEF InSeq
  <2> QED
    BY <2>1, <2>2
<1> QED
  BY <1>1, <1>2, <1>3, <1>4, <1>5

\* A slot put in front of a sequence: anam_release of the pool.
LEMMA ConsFacts ==
  ASSUME NEW q, q \in Seq(Slot), Distinct(q), NEW s \in Slot, ~InSeq(s, q), NEW r, r = <<s>> \o q
  PROVE  Distinct(r) /\ \A x : InSeq(x, r) <=> x = s \/ InSeq(x, q)
<1>1. r \in Seq(Slot) /\ Len(r) = Len(q) + 1 /\ Len(q) \in Nat
  <2>1. <<s>> \in Seq(Slot) /\ Len(<<s>>) = 1
    OBVIOUS
  <2>2. \A a, b \in Seq(Slot) : a \o b \in Seq(Slot) /\ Len(a \o b) = Len(a) + Len(b)
    OBVIOUS
  <2> QED
    BY <2>1, <2>2
<1>2. \A i \in 1 .. Len(r) : r[i] = IF i = 1 THEN s ELSE q[i - 1]
  <2>1. \A a, b \in Seq(Slot) : \A i \in 1 .. Len(a) + Len(b) :
          (a \o b)[i] = IF i <= Len(a) THEN a[i] ELSE b[i - Len(a)]
    OBVIOUS
  <2>2. <<s>> \in Seq(Slot) /\ Len(<<s>>) = 1 /\ <<s>>[1] = s
    OBVIOUS
  <2> QED
    BY <1>1, <2>1, <2>2
<1>3. Distinct(r)
  <2> SUFFICES ASSUME NEW i \in 1 .. Len(r), NEW j \in 1 .. Len(r), r[i] = r[j] PROVE i = j
    BY DEF Distinct
  <2>1. i # 1 => i - 1 \in 1 .. Len(q) /\ r[i] = q[i - 1]
    BY <1>1, <1>2
  <2>2. j # 1 => j - 1 \in 1 .. Len(q) /\ r[j] = q[j - 1]
    BY <1>1, <1>2
  <2>3. (i = 1 => r[i] = s) /\ (j = 1 => r[j] = s)
    BY <1>2
  <2>4. CASE i # 1 /\ j # 1
    <3>1. PICK a \in 1 .. Len(q), b \in 1 .. Len(q) : a = i - 1 /\ b = j - 1
      BY <2>1, <2>2, <2>4
    <3>2. q[a] = q[b]
      BY <2>1, <2>2, <2>4, <3>1
    <3>3. a = b
      BY <3>2 DEF Distinct
    <3> QED
      BY <1>1, <3>1, <3>3
  <2>5. CASE i = 1 \/ j = 1
    BY <2>1, <2>2, <2>3, <2>5 DEF InSeq
  <2> QED
    BY <2>4, <2>5
<1>4. ASSUME NEW x PROVE InSeq(x, r) <=> x = s \/ InSeq(x, q)
  <2>1. ASSUME InSeq(x, r) PROVE x = s \/ InSeq(x, q)
    <3>1. PICK i \in 1 .. Len(r) : r[i] = x
      BY <2>1 DEF InSeq
    <3>2. i # 1 => i - 1 \in 1 .. Len(q) /\ q[i - 1] = x
      BY <1>1, <1>2, <3>1
    <3> QED
      BY <1>2, <3>1, <3>2 DEF InSeq
  <2>2. ASSUME InSeq(x, q) PROVE InSeq(x, r)
    <3>1. PICK i \in 1 .. Len(q) : q[i] = x
      BY <2>2 DEF InSeq
    <3>2. i + 1 \in 1 .. Len(r) /\ r[i + 1] = x
      BY <1>1, <1>2, <3>1
    <3> QED
      BY <3>2 DEF InSeq
  <2>3. InSeq(s, r)
    <3>1. 1 \in 1 .. Len(r) /\ r[1] = s
      BY <1>1, <1>2
    <3> QED
      BY <3>1 DEF InSeq
  <2> QED
    BY <2>1, <2>2, <2>3
<1> QED
  BY <1>3, <1>4

\* A slot put at the end of a sequence: the link of push.
LEMMA AppendFacts ==
  ASSUME NEW q, q \in Seq(Slot), Distinct(q), NEW s \in Slot, ~InSeq(s, q), NEW r, Grown(r, q, s)
  PROVE  /\ r \in Seq(Slot) /\ Len(r) = Len(q) + 1 /\ Len(q) \in Nat
         /\ \A i \in 1 .. Len(q) : r[i] = q[i] /\ i \in 1 .. Len(r)
         /\ r[Len(r)] = s
         /\ Distinct(r)
         /\ \A x : InSeq(x, r) <=> x = s \/ InSeq(x, q)
<1>1. /\ r \in Seq(Slot) /\ Len(r) = Len(q) + 1 /\ Len(q) \in Nat
      /\ \A i \in 1 .. Len(q) : r[i] = q[i]
      /\ r[Len(r)] = s
  BY DEF Grown
<1>2. \A i \in 1 .. Len(r) : i = Len(r) \/ i \in 1 .. Len(q)
  BY <1>1
<1>3. \A i \in 1 .. Len(q) : q[i] # s /\ i \in 1 .. Len(r)
  BY <1>1 DEF InSeq
<1>4. Distinct(r)
  <2> SUFFICES ASSUME NEW i \in 1 .. Len(r), NEW j \in 1 .. Len(r), r[i] = r[j] PROVE i = j
    BY DEF Distinct
  <2> QED
    BY <1>1, <1>2, <1>3 DEF Distinct
<1>5. ASSUME NEW x PROVE InSeq(x, r) <=> x = s \/ InSeq(x, q)
  <2>1. Len(r) \in 1 .. Len(r)
    BY <1>1
  <2> QED
    BY <1>1, <1>2, <1>3, <2>1 DEF InSeq
<1> QED
  BY <1>1, <1>3, <1>4, <1>5

\* anam_alloc in push takes a slot off the free list.
LEMMA NodesAlloc ==
  ASSUME TypeInv, ModesOK, NEW L, NodesOK(L), NEW t \in Thread, CallStep(t), PushAlloc(t)
  PROVE  NodesOK(L)'
<1> DEFINE s0 == Head(free)
<1>1. /\ pc[t] = "p_alloc" /\ pc'[t] = "p_init" /\ loc'[t].new_h = Handle(generation[s0], s0)
      /\ loc'[t].data = loc[t].data
      /\ \A u \in Thread \ {t} : pc'[u] = pc[u] /\ loc'[u] = loc[u]
  BY PushRows DEF Row
<1>2. UNCHANGED <<head, generation, node_next, node_data>> /\ free # <<>> /\ free' = Tail(free)
  BY DEF PushAlloc, SP!Take, ends, nodes
<1>3. free \in Seq(Slot) /\ Len(free) # 0 /\ s0 = free[1] /\ s0 \in Slot
  BY <1>2, Loaded
<1>4. Gone' <=> Gone
  BY <1>1, GoneKept, OtherRows DEF Row, Same
<1>5. ~Gone
  BY <1>1, GoneKept
<1> HIDE DEF s0
<1>6. IsList(L)'
  BY <1>2, <1>4, ListKept DEF NodesOK
<1>7. Distinct(free') /\ \A s : InSeq(s, free') <=> InSeq(s, free) /\ s # s0
  <2>1. Shrunk(free', free)
    BY <1>2 DEF Shrunk
  <2> QED
    BY <1>3, <2>1, TailFacts DEF NodesOK, Apart
<1>8. \A u \in Thread : \A s \in Slot : Holds(u, s)' <=> Holds(u, s) \/ (u = t /\ s = s0)
  <2>1. ASSUME NEW u \in Thread \ {t}, NEW s \in Slot PROVE Holds(u, s)' <=> Holds(u, s)
    BY <1>1, <1>2, <2>1 DEF Holds
  <2>2. ASSUME NEW s \in Slot PROVE ~Holds(t, s) /\ (Holds(t, s)' <=> s = s0)
    BY <1>1, HandleFields DEF Holds, Owning
  <2> QED
    BY <2>1, <2>2
<1>9. InSeq(s0, free)
  <2>1. 1 \in 1 .. Len(free)
    BY <1>3
  <2> QED
    BY <1>3, <2>1 DEF InSeq
<1>10. Apart(L)'
  <2>1. \A s \in Slot : \/ InSeq(s, free') \/ InSeq(s, L) \/ \E u \in Thread : Holds(u, s)'
    BY <1>5, <1>7, <1>8 DEF NodesOK, Apart
  <2>2. \A s \in Slot : InSeq(s, free') => ~InSeq(s, L)
    BY <1>5, <1>7 DEF NodesOK, Apart
  <2>3. ASSUME NEW u \in Thread, NEW s \in Slot, Holds(u, s)'
        PROVE  /\ ~InSeq(s, free') /\ ~InSeq(s, L)
               /\ \A v \in Thread : Holds(v, s)' => v = u
    <3>1. \A v \in Thread : ~Holds(v, s0)
      BY <1>3, <1>9 DEF NodesOK, Apart
    <3>2. CASE s = s0
      BY <1>3, <1>5, <1>7, <1>8, <1>9, <2>3, <3>1, <3>2 DEF NodesOK, Apart
    <3>3. CASE s # s0
      BY <1>5, <1>7, <1>8, <2>3, <3>3 DEF NodesOK, Apart
    <3> QED
      BY <3>2, <3>3
  <2> QED
    BY <1>4, <1>5, <1>7, <2>1, <2>2, <2>3 DEF Apart
<1>11. \A u \in Thread \ {t} : HandOK(u)'
  BY <1>1, <1>2 DEF NodesOK, HandOK, Here
<1>12. HandOK(t)'
  BY <1>1, <1>2, HandleFields DEF NodesOK, HandOK, Here, Owning
<1> QED
  BY <1>6, <1>10, <1>11, <1>12 DEF NodesOK

\* alloc_node writes the node that it has allocated.
LEMMA NodesInit ==
  ASSUME TypeInv, ModesOK, NEW L, NodesOK(L), NEW t \in Thread, CallStep(t), PushInit(t)
  PROVE  NodesOK(L)'
<1> DEFINE s0 == loc[t].new_h.slot
<1>1. /\ pc[t] = "p_init" /\ pc'[t] = "p_tail"
      /\ loc'[t].new_h = loc[t].new_h /\ loc'[t].data = loc[t].data
      /\ \A u \in Thread \ {t} : pc'[u] = pc[u] /\ loc'[u] = loc[u]
  BY PushRows DEF Same, Row
<1>2. /\ UNCHANGED <<head, generation, free>>
      /\ node_next' = [node_next EXCEPT ![s0] = ANAM_NULL]
      /\ node_data' = [node_data EXCEPT ![s0] = loc[t].data]
  BY DEF PushInit, ends, pool
<1>3. s0 \in Slot /\ node_next \in [Slot -> Handles] /\ node_data \in [Slot -> Value \cup {NoValue}]
  BY AtWork DEF TypeInv, TypeOK
<1>4. Gone' <=> Gone
  BY <1>1, GoneKept, OtherRows DEF Row, Same
<1>5. ~Gone
  BY <1>1, GoneKept
<1>6. Holds(t, s0)
  BY <1>1 DEF Holds, Owning
<1>7. ~InSeq(s0, L) /\ \A u \in Thread \ {t} : ~Holds(u, s0)
  BY <1>3, <1>5, <1>6 DEF NodesOK, Apart
<1> HIDE DEF s0
<1>8. \A s \in Slot : s # s0 => node_next'[s] = node_next[s] /\ node_data'[s] = node_data[s]
  BY <1>2, <1>3
<1>9. IsList(L)'
  <2>1. \A i \in 1 .. Len(L) : L[i] \in Slot /\ L[i] # s0
    BY <1>7, ListFacts DEF NodesOK, InSeq
  <2> QED
    BY <1>2, <1>4, <1>8, <2>1, ListKept DEF NodesOK
<1>10. \A u \in Thread : \A s \in Slot : Holds(u, s)' <=> Holds(u, s)
  <2>1. ASSUME NEW u \in Thread \ {t}, NEW s \in Slot PROVE Holds(u, s)' <=> Holds(u, s)
    BY <1>1, <1>2, <2>1 DEF Holds
  <2>2. ASSUME NEW s \in Slot PROVE Holds(t, s)' <=> Holds(t, s)
    BY <1>1 DEF Holds, Owning
  <2> QED
    BY <2>1, <2>2
<1>11. Apart(L)'
  BY <1>2, <1>4, <1>10, ApartKept DEF NodesOK
<1>12. ASSUME NEW u \in Thread \ {t} PROVE HandOK(u)'
  <2>1. pc[u] \in Owning => loc[u].new_h.slot \in Slot /\ loc[u].new_h.slot # s0
    BY <1>3, <1>7, Live DEF Holds
  <2>2. pc[u] = "o_end" => loc[u].head_h.slot \in Slot /\ loc[u].head_h.slot # s0
    BY <1>3, <1>7, Live DEF Holds, HeadLoaded
  <2> QED
    BY <1>1, <1>2, <1>8, <2>1, <2>2 DEF NodesOK, HandOK, Here
<1>13. HandOK(t)'
  <2>1. node_next'[s0] = ANAM_NULL /\ node_data'[s0] = loc[t].data
    BY <1>2, <1>3
  <2> QED
    BY <1>1, <1>2, <2>1 DEF NodesOK, HandOK, Here, Owning, s0
<1> QED
  BY <1>9, <1>11, <1>12, <1>13 DEF NodesOK

\* The last node of the list.
LEMMA LastNode ==
  ASSUME NEW L, IsList(L), ~Gone
  PROVE  /\ L[Len(L)] \in Slot /\ InSeq(L[Len(L)], L) /\ node_next[L[Len(L)]] = ANAM_NULL
         /\ \A i \in 1 .. Len(L) : L[i] = L[Len(L)] => i = Len(L)
<1>1. Len(L) \in 1 .. Len(L)
  BY ListFacts
<1> QED
  BY <1>1, ListFacts DEF InSeq

\* The link of the dummy.
LEMMA FirstLink ==
  ASSUME NEW L, IsList(L)
  PROVE  /\ head.slot = L[1] /\ InSeq(L[1], L)
         /\ Len(L) = 1 => node_next[L[1]] = ANAM_NULL
         /\ Len(L) # 1 => node_next[L[1]] = Here(L[2]) /\ L[2] \in Slot /\ 2 \in 1 .. Len(L)
<1>1. PICK n \in Nat : n = Len(L) /\ n # 0
  BY ListFacts
<1>2. 1 \in 1 .. n /\ (n # 1 => 2 \in 1 .. n) /\ 1 + 1 = 2
  BY <1>1
<1>3. /\ L[1] = head.slot
      /\ \A i \in 1 .. n : L[i] \in Slot /\ node_next[L[i]] = IF i = n THEN ANAM_NULL ELSE Here(L[i + 1])
  BY <1>1, ListFacts
<1>4. node_next[L[1]] = IF 1 = n THEN ANAM_NULL ELSE Here(L[1 + 1])
  BY <1>2, <1>3
<1> QED
  BY <1>1, <1>2, <1>3, <1>4 DEF InSeq

\* The link CAS of push appends a node, if tail_h is still the last one.
LEMMA NodesLink ==
  ASSUME TypeInv, ModesOK, NEW L, NodesOK(L), NEW t \in Thread, CallStep(t), PushLink(t),
         loc[t].tail_h.slot = L[Len(L)],
         NEW M, Grown(M, L, loc[t].new_h.slot)
  PROVE  NodesOK(M)'
<1> DEFINE s0 == loc[t].new_h.slot
           z == L[Len(L)]
<1>1. /\ pc[t] = "p_link" /\ pc'[t] = "p_last"
      /\ \A u \in Thread \ {t} : pc'[u] = pc[u] /\ loc'[u] = loc[u]
  BY PushRows DEF Row
<1>2. /\ UNCHANGED <<head, generation, free, node_data>>
      /\ node_next' = [node_next EXCEPT ![z] = loc[t].new_h]
  BY DEF PushLink, ends, pool
<1>3. /\ s0 \in Slot /\ node_next \in [Slot -> Handles] /\ loc[t].new_h = Here(s0)
      /\ loc[t].data \in Value /\ node_next[s0] = ANAM_NULL /\ node_data[s0] = loc[t].data
  BY <1>1, Live DEF TypeInv, TypeOK, Owning, NodesOK, HandOK
<1>4. Gone' <=> Gone
  BY <1>1, GoneKept, OtherRows DEF Row, Same
<1>5. ~Gone
  BY <1>1, GoneKept
<1>6. Holds(t, s0)
  BY <1>1 DEF Holds, Owning
<1>7. ~InSeq(s0, L) /\ ~InSeq(s0, free) /\ \A u \in Thread \ {t} : ~Holds(u, s0)
  BY <1>3, <1>5, <1>6 DEF NodesOK, Apart
<1>8. /\ L \in Seq(Slot) /\ Len(L) \in Nat \ {0} /\ Distinct(L) /\ L[1] = head.slot
      /\ \A i \in 1 .. Len(L) : L[i] \in Slot
      /\ head = Here(L[1])
      /\ \A i \in 1 .. Len(L) : node_next[L[i]] = IF i = Len(L) THEN ANAM_NULL ELSE Here(L[i + 1])
      /\ \A i \in 1 .. Len(L) : i = 1 \/ node_data[L[i]] \in Value
  BY <1>5, ListFacts DEF NodesOK, IsList
<1>9. z \in Slot /\ InSeq(z, L) /\ z # s0 /\ \A i \in 1 .. Len(L) : L[i] = z => i = Len(L)
  BY <1>5, <1>7, LastNode DEF NodesOK
<1>10. /\ M \in Seq(Slot) /\ Len(M) = Len(L) + 1
       /\ \A i \in 1 .. Len(L) : M[i] = L[i] /\ i \in 1 .. Len(M)
       /\ M[Len(M)] = s0 /\ Distinct(M)
       /\ \A x : InSeq(x, M) <=> x = s0 \/ InSeq(x, L)
  BY <1>3, <1>7, <1>8, AppendFacts
<1> HIDE DEF s0, z
<1>11. /\ node_next'[z] = Here(s0)
       /\ \A s \in Slot : s # z => node_next'[s] = node_next[s]
       /\ \A s : Here(s)' = Here(s)
  BY <1>2, <1>3, <1>9 DEF Here
<1>12. IsList(M)'
  <2>1. M[1] = head'.slot /\ head' = Here(M[1])' /\ Len(M) # 0
    <3>1. 1 \in 1 .. Len(L)
      BY <1>8
    <3> QED
      BY <1>2, <1>8, <1>10, <1>11, <3>1
  <2>2. ASSUME NEW i \in 1 .. Len(M)
        PROVE  node_next'[M[i]] = IF i = Len(M) THEN ANAM_NULL ELSE Here(M[i + 1])'
    <3>1. CASE i = Len(M)
      BY <1>3, <1>9, <1>10, <1>11, <3>1
    <3>2. CASE i = Len(L)
      <4>1. M[i] = z /\ M[i + 1] = s0 /\ i # Len(M)
        BY <1>8, <1>10, <3>2 DEF z
      <4> QED
        BY <1>11, <4>1
    <3>3. CASE i # Len(M) /\ i # Len(L)
      <4>1. i \in 1 .. Len(L) /\ i + 1 \in 1 .. Len(L)
        BY <1>8, <1>10, <3>3
      <4>2. L[i] # z /\ L[i] \in Slot /\ M[i] = L[i] /\ M[i + 1] = L[i + 1]
        BY <1>8, <1>9, <1>10, <3>3, <4>1
      <4> QED
        BY <1>8, <1>11, <3>3, <4>1, <4>2
    <3> QED
      BY <3>1, <3>2, <3>3
  <2>3. ASSUME NEW i \in 1 .. Len(M) PROVE i = 1 \/ node_data'[M[i]] \in Value
    <3>1. CASE i = Len(M)
      BY <1>2, <1>3, <1>10, <3>1
    <3>2. CASE i # Len(M)
      <4>1. i \in 1 .. Len(L)
        BY <1>8, <1>10, <3>2
      <4> QED
        BY <1>2, <1>8, <1>10, <4>1
    <3> QED
      BY <3>1, <3>2
  <2> QED
    BY <1>4, <1>5, <1>10, <2>1, <2>2, <2>3 DEF IsList
<1>13. \A u \in Thread : \A s \in Slot : Holds(u, s)' <=> Holds(u, s) /\ s # s0
  <2>1. ASSUME NEW u \in Thread \ {t}, NEW s \in Slot PROVE Holds(u, s)' <=> Holds(u, s)
    BY <1>1, <1>2, <2>1 DEF Holds
  <2>2. ASSUME NEW s \in Slot PROVE ~Holds(t, s)' /\ (Holds(t, s) <=> s = s0)
    BY <1>1 DEF Holds, Owning, s0
  <2> QED
    BY <1>3, <1>7, <2>1, <2>2
<1>14. Apart(M)'
  <2>1. \A s \in Slot : InSeq(s, free) \/ InSeq(s, M) \/ \E u \in Thread : Holds(u, s)'
    BY <1>5, <1>10, <1>13 DEF NodesOK, Apart
  <2>2. \A s \in Slot : InSeq(s, free) => ~InSeq(s, M)
    BY <1>5, <1>7, <1>10 DEF NodesOK, Apart
  <2>3. ASSUME NEW u \in Thread, NEW s \in Slot, Holds(u, s)'
        PROVE  /\ ~InSeq(s, free) /\ ~InSeq(s, M)
               /\ \A v \in Thread : Holds(v, s)' => v = u
    BY <1>5, <1>10, <1>13, <2>3 DEF NodesOK, Apart
  <2>4. Distinct(free)
    BY DEF NodesOK, Apart
  <2> QED
    BY <1>2, <1>4, <1>5, <2>1, <2>2, <2>3, <2>4 DEF Apart
<1>15. ASSUME NEW u \in Thread \ {t} PROVE HandOK(u)'
  <2>1. pc[u] \in Owning => loc[u].new_h.slot \in Slot /\ loc[u].new_h.slot # z
    <3>1. pc[u] \in Owning => loc[u].new_h.slot \in Slot /\ Holds(u, loc[u].new_h.slot)
      BY Live DEF Holds
    <3> QED
      BY <1>5, <1>9, <3>1 DEF NodesOK, Apart
  <2>2. pc[u] = "o_end" => loc[u].head_h.slot \in Slot /\ loc[u].head_h.slot # z
    <3>1. pc[u] = "o_end" => loc[u].head_h.slot \in Slot /\ Holds(u, loc[u].head_h.slot)
      BY Live DEF Holds, HeadLoaded
    <3> QED
      BY <1>5, <1>9, <3>1 DEF NodesOK, Apart
  <2> QED
    BY <1>1, <1>2, <1>11, <2>1, <2>2 DEF NodesOK, HandOK
<1>16. HandOK(t)'
  BY <1>1 DEF HandOK, Owning
<1> QED
  BY <1>12, <1>14, <1>15, <1>16 DEF NodesOK

\* The CAS of pop takes the first node out, if next_h is its link.
LEMMA NodesUnlink ==
  ASSUME TypeInv, ModesOK, NEW L, NodesOK(L), NEW t \in Thread, CallStep(t), PopUnlink(t),
         loc[t].next_h = node_next[head.slot],
         NEW M, Shrunk(M, L)
  PROVE  NodesOK(M)' /\ Len(L) > 1 /\ head' = Here(L[2])
<1>1. /\ pc[t] = "o_cas" /\ pc'[t] = "o_end" /\ loc'[t].head_h = loc[t].head_h
      /\ \A u \in Thread \ {t} : pc'[u] = pc[u] /\ loc'[u] = loc[u]
  BY PopRows DEF Row
<1>2. /\ UNCHANGED <<generation, free, node_next, node_data>> /\ head' = loc[t].next_h /\ head = loc[t].head_h
  BY DEF PopUnlink, pool, nodes
<1>3. loc[t].next_h # ANAM_NULL
  BY <1>1, Live, HandleFields DEF NextLive
<1>4. (Gone' <=> Gone) /\ ~Gone
  BY <1>1, GoneKept, OtherRows DEF Row, Same
<1>5. /\ L \in Seq(Slot) /\ Len(L) \in Nat \ {0} /\ Distinct(L) /\ L[1] = head.slot
      /\ \A i \in 1 .. Len(L) : L[i] \in Slot
      /\ head = Here(L[1])
      /\ \A i \in 1 .. Len(L) : node_next[L[i]] = IF i = Len(L) THEN ANAM_NULL ELSE Here(L[i + 1])
      /\ \A i \in 1 .. Len(L) : i = 1 \/ node_data[L[i]] \in Value
  BY <1>4, ListFacts DEF NodesOK, IsList
<1>6. Len(L) > 1 /\ head' = Here(L[2]) /\ node_next[L[1]] = Here(L[2])
  <2>1. 1 \in 1 .. Len(L)
    BY <1>5
  <2>2. Len(L) # 1
    BY <1>2, <1>3, <1>5, <2>1
  <2>3. node_next[L[1]] = Here(L[1 + 1])
    BY <1>5, <2>1, <2>2
  <2>4. Len(L) > 1 /\ 1 + 1 = 2
    <3>1. PICK n \in Nat : n = Len(L) /\ n # 0
      BY <1>5
    <3>2. n # 1
      BY <2>2, <3>1
    <3>3. n > 1
      BY <3>1, <3>2
    <3> QED
      BY <3>1, <3>3
  <2> QED
    BY <1>2, <1>5, <2>3, <2>4
<1>7. /\ M \in Seq(Slot) /\ Len(M) = Len(L) - 1
      /\ \A i \in 1 .. Len(M) : M[i] = L[i + 1] /\ i + 1 \in 1 .. Len(L)
      /\ Distinct(M)
      /\ \A s : InSeq(s, M) <=> InSeq(s, L) /\ s # L[1]
  BY <1>5, TailFacts
<1>8. \A s : Here(s)' = Here(s) /\ Here(s).slot = s
  BY <1>2, HandleFields DEF Here
<1>9. IsList(M)'
  <2>1. Len(M) # 0 /\ M[1] = L[2] /\ 1 \in 1 .. Len(M)
    BY <1>5, <1>6, <1>7
  <2>2. M[1] = head'.slot /\ head' = Here(M[1])'
    BY <1>6, <1>8, <2>1
  <2>3. ASSUME NEW i \in 1 .. Len(M)
        PROVE  node_next'[M[i]] = IF i = Len(M) THEN ANAM_NULL ELSE Here(M[i + 1])'
    <3>1. M[i] = L[i + 1] /\ i + 1 \in 1 .. Len(L) /\ (i = Len(M) <=> i + 1 = Len(L))
      BY <1>5, <1>7
    <3>2. i # Len(M) => i + 1 \in 1 .. Len(M) /\ M[i + 1] = L[i + 1 + 1]
      BY <1>5, <1>7
    <3> QED
      BY <1>2, <1>5, <1>8, <3>1, <3>2
  <2>4. ASSUME NEW i \in 1 .. Len(M) PROVE i = 1 \/ node_data'[M[i]] \in Value
    <3>1. M[i] = L[i + 1] /\ i + 1 \in 1 .. Len(L) /\ i + 1 # 1
      BY <1>5, <1>7
    <3> QED
      BY <1>2, <1>5, <3>1
  <2> QED
    BY <1>4, <1>7, <2>1, <2>2, <2>3, <2>4 DEF IsList
<1>10. InSeq(L[1], L) /\ L[1] \in Slot /\ loc[t].head_h.slot = L[1]
  <2>1. 1 \in 1 .. Len(L)
    BY <1>5
  <2> QED
    BY <1>2, <1>5, <2>1 DEF InSeq
<1>11. \A u \in Thread : \A s \in Slot : Holds(u, s)' <=> Holds(u, s) \/ (u = t /\ s = L[1])
  <2>1. ASSUME NEW u \in Thread \ {t}, NEW s \in Slot PROVE Holds(u, s)' <=> Holds(u, s)
    <3>1. pc[u] # "d_free"
      BY <1>4 DEF Gone
    <3> QED
      BY <1>1, <2>1, <3>1 DEF Holds
  <2>2. ASSUME NEW s \in Slot PROVE ~Holds(t, s) /\ (Holds(t, s)' <=> s = L[1])
    BY <1>1, <1>10 DEF Holds, Owning
  <2> QED
    BY <2>1, <2>2
<1>12. Apart(M)'
  <2>1. \A s \in Slot : InSeq(s, free) \/ InSeq(s, M) \/ \E u \in Thread : Holds(u, s)'
    BY <1>4, <1>7, <1>11 DEF NodesOK, Apart
  <2>2. \A s \in Slot : InSeq(s, free) => ~InSeq(s, M)
    BY <1>4, <1>7 DEF NodesOK, Apart
  <2>3. ASSUME NEW u \in Thread, NEW s \in Slot, Holds(u, s)'
        PROVE  /\ ~InSeq(s, free) /\ ~InSeq(s, M)
               /\ \A v \in Thread : Holds(v, s)' => v = u
    <3>1. ~InSeq(L[1], free) /\ \A v \in Thread : ~Holds(v, L[1])
      BY <1>4, <1>10 DEF NodesOK, Apart
    <3>2. CASE s = L[1]
      BY <1>7, <1>11, <2>3, <3>1, <3>2
    <3>3. CASE s # L[1]
      BY <1>4, <1>7, <1>11, <2>3, <3>3 DEF NodesOK, Apart
    <3> QED
      BY <3>2, <3>3
  <2>4. Distinct(free)
    BY DEF NodesOK, Apart
  <2> QED
    BY <1>2, <1>4, <2>1, <2>2, <2>3, <2>4 DEF Apart
<1>13. ASSUME NEW u \in Thread \ {t} PROVE HandOK(u)'
  BY <1>1, <1>2, <1>8 DEF NodesOK, HandOK
<1>14. HandOK(t)'
  <2>1. loc'[t].head_h = Here(L[1]) /\ loc'[t].head_h.slot = L[1]
    BY <1>1, <1>2, <1>5
  <2>2. node_next'[L[1]] # ANAM_NULL
    BY <1>2, <1>3, <1>5
  <2> QED
    BY <1>1, <1>8, <2>1, <2>2 DEF HandOK, Owning
<1> QED
  BY <1>6, <1>9, <1>12, <1>13, <1>14 DEF NodesOK

\* The slots that the other threads hold are not the one this thread works on.
LEMMA OthersHold ==
  ASSUME TypeInv, NEW L, NodesOK(L), NEW t \in Thread, NEW s \in Slot, Holds(t, s), NEW u \in Thread \ {t}
  PROVE  /\ pc[u] \in Owning => loc[u].new_h.slot \in Slot /\ loc[u].new_h.slot # s
         /\ pc[u] = "o_end" => loc[u].head_h.slot \in Slot /\ loc[u].head_h.slot # s
<1>1. ~Holds(u, s)
  BY DEF NodesOK, Apart
<1> QED
  BY <1>1, Live DEF Holds, HeadLoaded

\* anam_release in pop ends the generation of the slot that pop has unlinked.
LEMMA NodesEnd ==
  ASSUME TypeInv, ModesOK, NEW L, NodesOK(L), NEW t \in Thread, CallStep(t), PopEndGeneration(t)
  PROVE  NodesOK(L)' /\ pc'[t] = "o_free" /\ SP!EndGeneration(loc[t].head_h.slot)
<1> DEFINE s0 == loc[t].head_h.slot
<1>1. /\ pc[t] = "o_end" /\ loc'[t].head_h = loc[t].head_h
      /\ pc'[t] = IF Valid(loc[t].head_h) THEN "o_free" ELSE "o_length"
      /\ \A u \in Thread \ {t} : pc'[u] = pc[u] /\ loc'[u] = loc[u]
  BY PopRows DEF Same, Row
<1>2. s0 \in Slot /\ loc[t].head_h = Here(s0) /\ loc[t].head_h # ANAM_NULL
  BY <1>1, Live, HandleFields DEF NodesOK, HandOK, HeadLoaded
<1>3. Valid(loc[t].head_h)
  BY <1>2, HandleFields DEF Valid, Here
<1>4. UNCHANGED <<head, free, node_next, node_data>> /\ SP!EndGeneration(s0)
  BY <1>3 DEF PopEndGeneration, EndGeneration, ends, nodes, SP!EndGeneration
<1>5. generation \in [Slot -> 0 .. GenMod - 1] /\ \A s \in Slot : s # s0 => generation'[s] = generation[s]
  BY <1>2, <1>4, Loaded DEF SP!EndGeneration
<1>6. (Gone' <=> Gone) /\ ~Gone
  BY <1>1, GoneKept, OtherRows DEF Row, Same
<1>7. Holds(t, s0)
  BY <1>1 DEF Holds
<1> HIDE DEF s0
<1>8. \A s \in Slot : s # s0 => Here(s)' = Here(s)
  BY <1>5 DEF Here
<1>9. IsList(L)'
  <2>1. \A i \in 1 .. Len(L) : L[i] \in Slot /\ L[i] # s0
    BY <1>2, <1>6, <1>7, ListFacts DEF NodesOK, Apart, InSeq
  <2> QED
    BY <1>4, <1>5, <1>6, <2>1, ListKept DEF NodesOK
<1>10. \A u \in Thread : \A s \in Slot : Holds(u, s)' <=> Holds(u, s)
  BY <1>1, <1>3, <1>4 DEF Holds, Owning
<1>11. Apart(L)'
  BY <1>4, <1>6, <1>10, ApartKept DEF NodesOK
<1>12. ASSUME NEW u \in Thread \ {t} PROVE HandOK(u)'
  <2>1. /\ pc[u] \in Owning => loc[u].new_h.slot \in Slot /\ loc[u].new_h.slot # s0
        /\ pc[u] = "o_end" => loc[u].head_h.slot \in Slot /\ loc[u].head_h.slot # s0
    BY <1>2, <1>7, OthersHold
  <2> QED
    BY <1>1, <1>4, <1>8, <2>1 DEF NodesOK, HandOK
<1>13. HandOK(t)'
  BY <1>1, <1>3 DEF HandOK, Owning
<1> QED
  BY <1>1, <1>3, <1>4, <1>9, <1>11, <1>12, <1>13 DEF NodesOK, s0

\* anam_release in pop gives the slot back.
LEMMA NodesFree ==
  ASSUME TypeInv, ModesOK, NEW L, NodesOK(L), NEW t \in Thread, CallStep(t), PopFree(t)
  PROVE  NodesOK(L)'
<1> DEFINE s0 == loc[t].head_h.slot
<1>1. /\ pc[t] = "o_free" /\ pc'[t] = "o_length"
      /\ \A u \in Thread \ {t} : pc'[u] = pc[u] /\ loc'[u] = loc[u]
  BY PopRows DEF Same, Row
<1>2. s0 \in Slot
  BY <1>1, Live DEF HeadLoaded
<1>3. UNCHANGED <<head, generation, node_next, node_data>> /\ free' = <<s0>> \o free /\ free \in Seq(Slot)
  BY Loaded DEF PopFree, PushFree, ends, nodes, SP!GiveBack
<1>4. (Gone' <=> Gone) /\ ~Gone
  BY <1>1, GoneKept, OtherRows DEF Row, Same
<1>5. Holds(t, s0)
  BY <1>1 DEF Holds
<1>6. ~InSeq(s0, L) /\ ~InSeq(s0, free) /\ (\A u \in Thread \ {t} : ~Holds(u, s0)) /\ Distinct(free)
  BY <1>2, <1>4, <1>5 DEF NodesOK, Apart
<1> HIDE DEF s0
<1>7. Distinct(free') /\ \A s : InSeq(s, free') <=> s = s0 \/ InSeq(s, free)
  BY <1>2, <1>3, <1>6, ConsFacts
<1>8. IsList(L)'
  BY <1>3, <1>4, ListKept DEF NodesOK
<1>9. \A u \in Thread : \A s \in Slot : Holds(u, s)' <=> Holds(u, s) /\ s # s0
  <2>1. ASSUME NEW u \in Thread \ {t}, NEW s \in Slot PROVE Holds(u, s)' <=> Holds(u, s)
    BY <1>1, <1>3, <2>1 DEF Holds
  <2>2. ASSUME NEW s \in Slot PROVE ~Holds(t, s)' /\ (Holds(t, s) <=> s = s0)
    BY <1>1 DEF Holds, Owning, s0
  <2> QED
    BY <1>2, <1>6, <2>1, <2>2
<1>10. Apart(L)'
  <2>1. \A s \in Slot : InSeq(s, free') \/ InSeq(s, L) \/ \E u \in Thread : Holds(u, s)'
    BY <1>4, <1>7, <1>9 DEF NodesOK, Apart
  <2>2. \A s \in Slot : InSeq(s, free') => ~InSeq(s, L)
    BY <1>4, <1>6, <1>7 DEF NodesOK, Apart
  <2>3. ASSUME NEW u \in Thread, NEW s \in Slot, Holds(u, s)'
        PROVE  /\ ~InSeq(s, free') /\ ~InSeq(s, L)
               /\ \A v \in Thread : Holds(v, s)' => v = u
    BY <1>4, <1>7, <1>9, <2>3 DEF NodesOK, Apart
  <2> QED
    BY <1>4, <1>7, <2>1, <2>2, <2>3 DEF Apart
<1>11. \A u \in Thread \ {t} : HandOK(u)'
  BY <1>1, <1>3 DEF NodesOK, HandOK, Here
<1>12. HandOK(t)'
  BY <1>1 DEF HandOK, Owning
<1> QED
  BY <1>8, <1>10, <1>11, <1>12 DEF NodesOK

\* anam_queue_destroy ends the generation of the dummy, the last node left.
LEMMA NodesDestroyRelease ==
  ASSUME TypeInv, ModesOK, NEW L, NodesOK(L), NEW t \in Thread, CallStep(t), DestroyRelease(t),
         node_next[head.slot] = ANAM_NULL
  PROVE  NodesOK(L)' /\ pc'[t] = "d_free" /\ SP!EndGeneration(head.slot)
<1> DEFINE s0 == head.slot
<1>1. /\ pc[t] = "d_release" /\ pc'[t] = IF Valid(head) THEN "d_free" ELSE "d_done"
      /\ \A u \in Thread \ {t} : pc'[u] = pc[u] /\ loc'[u] = loc[u]
  BY OtherRows DEF Same, Row
<1>2. ~Gone /\ Gone' /\ s0 \in Slot /\ head # ANAM_NULL
  BY GoneKept, Live, HandleFields
<1>3. /\ head = Here(s0) /\ L \in Seq(Slot) /\ Len(L) \in Nat \ {0} /\ L[1] = s0
      /\ Distinct(L) /\ \A i \in 1 .. Len(L) : L[i] \in Slot
  BY <1>2, ListFacts DEF NodesOK, IsList
<1>4. Valid(head)
  BY <1>2, <1>3, HandleFields DEF Valid, Here
<1>5. UNCHANGED <<head, free, node_next, node_data>> /\ SP!EndGeneration(s0)
  BY <1>4 DEF DestroyRelease, EndGeneration, ends, nodes, SP!EndGeneration
<1>6. Len(L) = 1
  <2>1. \A s \in Slot : Here(s) # ANAM_NULL
    BY Loaded, HandleFields DEF Here
  <2> QED
    BY <2>1, FirstLink DEF NodesOK
<1>7. \A u \in Thread \ {t} : pc[u] = "idle"
  BY <1>1 DEF ModesOK, Destroying
<1>8. InSeq(s0, L) /\ \A s : InSeq(s, L) => s = s0
  <2>1. 1 \in 1 .. Len(L) /\ \A i \in 1 .. Len(L) : i = 1
    BY <1>6
  <2> QED
    BY <1>3, <2>1 DEF InSeq
<1> HIDE DEF s0
<1>9. IsList(L)'
  <2>1. \A i \in 1 .. Len(L) : i = 1 /\ L[i] = s0
    BY <1>3, <1>6
  <2> QED
    BY <1>2, <1>3, <1>5, <1>6, <2>1 DEF IsList, s0
<1>10. \A u \in Thread : \A s \in Slot : Holds(u, s)' <=> u = t /\ s = s0
  BY <1>1, <1>4, <1>5, <1>7 DEF Holds, Owning, s0
<1>11. \A u \in Thread : \A s \in Slot : ~Holds(u, s)
  BY <1>1, <1>7 DEF Holds, Owning
<1>12. Apart(L)'
  <2>1. \A s \in Slot : InSeq(s, free') \/ \E u \in Thread : Holds(u, s)'
    BY <1>2, <1>5, <1>8, <1>10, <1>11 DEF NodesOK, Apart
  <2>2. ~InSeq(s0, free') /\ Distinct(free')
    BY <1>2, <1>5, <1>8 DEF NodesOK, Apart
  <2> QED
    BY <1>2, <1>10, <2>1, <2>2 DEF Apart
<1>13. \A u \in Thread : HandOK(u)'
  BY <1>1, <1>4, <1>7 DEF HandOK, Owning
<1> QED
  BY <1>1, <1>4, <1>5, <1>9, <1>12, <1>13 DEF NodesOK, s0

\* anam_queue_destroy gives the dummy back.
LEMMA NodesDestroyFree ==
  ASSUME TypeInv, ModesOK, NEW L, NodesOK(L), NEW t \in Thread, CallStep(t), DestroyFree(t)
  PROVE  NodesOK(L)'
<1> DEFINE s0 == head.slot
<1>1. /\ pc[t] = "d_free" /\ pc'[t] = "d_done"
      /\ \A u \in Thread \ {t} : pc'[u] = pc[u] /\ loc'[u] = loc[u]
  BY OtherRows DEF Same, Row
<1>2. s0 \in Slot
  BY Live
<1>3. UNCHANGED <<head, generation, node_next, node_data>> /\ free' = <<s0>> \o free /\ free \in Seq(Slot)
  BY Loaded DEF DestroyFree, PushFree, ends, nodes, SP!GiveBack
<1>4. Gone' /\ Gone
  BY <1>1 DEF Gone
<1>5. Holds(t, s0)
  BY <1>1 DEF Holds
<1>6. ~InSeq(s0, free) /\ Distinct(free)
  BY <1>2, <1>5 DEF NodesOK, Apart
<1>7. \A u \in Thread \ {t} : pc[u] = "idle"
  BY <1>1 DEF ModesOK, Destroying
<1>8. \A s \in Slot : InSeq(s, free) \/ s = s0
  BY <1>1, <1>4, <1>7 DEF NodesOK, Apart, Holds, Owning
<1> HIDE DEF s0
<1>9. Distinct(free') /\ \A s : InSeq(s, free') <=> s = s0 \/ InSeq(s, free)
  BY <1>2, <1>3, <1>6, ConsFacts
<1>10. IsList(L)'
  BY <1>3, <1>4, ListKept DEF NodesOK
<1>11. \A u \in Thread : \A s \in Slot : ~Holds(u, s)'
  BY <1>1, <1>7 DEF Holds, Owning
<1>12. Apart(L)'
  BY <1>4, <1>8, <1>9, <1>11 DEF Apart
<1>13. \A u \in Thread : HandOK(u)'
  BY <1>1, <1>7 DEF HandOK, Owning
<1> QED
  BY <1>10, <1>12, <1>13 DEF NodesOK

\* The queue begins with the dummy in slot 0 and the other slots free.
LEMMA NodesBegin ==
  ASSUME Init
  PROVE  NodesOK(<<0>>) /\ ModesOK /\ Chain = <<0>>
<1>1. /\ head = Handle(0, 0) /\ tail = Handle(0, 0) /\ free = [i \in 1 .. Capacity |-> i]
      /\ generation = [s \in Slot |-> 0] /\ node_next = [s \in Slot |-> ANAM_NULL]
      /\ node_data = [s \in Slot |-> NoValue] /\ mode = "open"
      /\ \A t \in Thread : pc[t] = "idle"
  BY DEF Init
<1>2. 0 \in Slot /\ Slot = 0 .. Capacity /\ Capacity \in Nat \ {0}
  BY QueueAssumption DEF Slot, SP!Slot
<1>3. ~Gone /\ ModesOK
  BY <1>1 DEF Gone, ModesOK, Destroying
<1>4. Handle(0, 0).slot = 0
  BY HandleFields
<1>5. PICK L : L = <<0>>
  OBVIOUS
<1>6. L \in Seq(Slot) /\ Len(L) = 1 /\ L[1] = 0
  BY <1>2, <1>5
<1>7. IsList(L)
  <2>1. \A i \in 1 .. Len(L) : i = 1
    BY <1>6
  <2>2. Distinct(L)
    BY <2>1 DEF Distinct
  <2>3. head = Here(0)
    BY <1>1, <1>2 DEF Here
  <2>4. node_next[0] = ANAM_NULL
    BY <1>1, <1>2
  <2> QED
    BY <1>1, <1>3, <1>4, <1>6, <2>1, <2>2, <2>3, <2>4 DEF IsList
<1>8. \A t \in Thread : HandOK(t) /\ \A s \in Slot : ~Holds(t, s)
  BY <1>1 DEF HandOK, Holds, Owning
<1>9. Len(free) = Capacity /\ \A i \in 1 .. Capacity : free[i] = i
  BY <1>1, <1>2
<1>10. Distinct(free) /\ (\A s : InSeq(s, free) <=> s \in 1 .. Capacity)
  BY <1>9 DEF Distinct, InSeq
<1>11. \A s : InSeq(s, L) <=> s = 0
  <2>1. 1 \in 1 .. Len(L) /\ \A i \in 1 .. Len(L) : i = 1
    BY <1>6
  <2> QED
    BY <1>6, <2>1 DEF InSeq
<1>12. Apart(L)
  <2>1. \A s \in Slot : InSeq(s, free) \/ InSeq(s, L)
    BY <1>2, <1>10, <1>11
  <2>2. \A s \in Slot : InSeq(s, free) => ~InSeq(s, L)
    BY <1>2, <1>10, <1>11
  <2> QED
    BY <1>3, <1>8, <1>10, <2>1, <2>2 DEF Apart
<1>13. NodesOK(L)
  BY <1>7, <1>8, <1>12 DEF NodesOK
<1>14. Chain = L
  <2>1. head \in LiveHandles /\ node_next \in [Slot -> Handles]
    BY TypeInit, Live DEF TypeInv, TypeOK
  <2>2. node_next[L[Len(L)]] = ANAM_NULL /\ Distinct(L) /\ L[1] = head.slot
    BY <1>1, <1>2, <1>4, <1>6, <1>7 DEF IsList
  <2>3. Leads(L, head, node_next)
    <3>1. \A i \in 1 .. Len(L) - 1 : FALSE
      BY <1>6
    <3> QED
      BY <1>6, <2>2, <3>1 DEF Leads
  <2> QED
    BY <2>1, <2>3, WalkComputes, ChainIs
<1> QED
  BY <1>3, <1>5, <1>13, <1>14

-----------------------------------------------------------------------------
(* The list is what Chain computes *)

\* The links of a list lead from head to its end.
LEMMA LinksLead ==
  ASSUME NEW L, L \in Seq(Slot), Len(L) # 0, Distinct(L), NEW hd, L[1] = hd.slot,
         NEW links, NEW gens \in [Slot -> 0 .. GenMod - 1],
         \A i \in 1 .. Len(L) : links[L[i]] = IF i = Len(L) THEN ANAM_NULL ELSE Handle(gens[L[i + 1]], L[i + 1])
  PROVE  Leads(L, hd, links)
<1>1. PICK n \in Nat : n = Len(L) /\ n # 0
  OBVIOUS
<1>2. \A i \in 1 .. n : L[i] \in Slot
  BY <1>1
<1>3. links[L[n]] = ANAM_NULL
  BY <1>1
<1>4. ASSUME NEW i \in 1 .. n - 1
      PROVE  links[L[i]] \in LiveHandles /\ links[L[i]].slot = L[i + 1]
  <2>1. i \in 1 .. n /\ i # n /\ i + 1 \in 1 .. n
    BY <1>1
  <2>2. links[L[i]] = Handle(gens[L[i + 1]], L[i + 1])
    BY <1>1, <2>1
  <2>3. PICK s \in Slot : s = L[i + 1]
    BY <1>2, <2>1
  <2>4. gens[s] \in 0 .. GenMod - 1
    OBVIOUS
  <2>5. Handle(gens[s], s) \in LiveHandles /\ Handle(gens[s], s).slot = s
    BY <2>4, HandleFields
  <2> QED
    BY <2>2, <2>3, <2>5
<1> QED
  BY <1>1, <1>3, <1>4 DEF Leads

\* The nodes reached from head are the list.
LEMMA ChainIsList ==
  ASSUME NEW L
  PROVE  /\ TypeInv /\ IsList(L) => Chain = L
         /\ TypeInv' /\ IsList(L)' => Chain' = L
<1>1. ASSUME TypeInv, IsList(L) PROVE Chain = L
  <2>1. head \in LiveHandles /\ node_next \in [Slot -> Handles] /\ generation \in [Slot -> 0 .. GenMod - 1]
    BY <1>1, TypeInvParts DEF SharedOK
  <2>2. /\ L \in Seq(Slot) /\ Len(L) # 0 /\ Distinct(L) /\ L[1] = head.slot
        /\ \A i \in 1 .. Len(L) :
             node_next[L[i]] = IF i = Len(L) THEN ANAM_NULL ELSE Handle(generation[L[i + 1]], L[i + 1])
    BY <1>1 DEF IsList, Here
  <2>3. Leads(L, head, node_next)
    BY <2>1, <2>2, LinksLead
  <2> QED
    BY <2>1, <2>3, WalkComputes, ChainIs
<1>2. ASSUME TypeInv', IsList(L)' PROVE Chain' = L
  <2>1. head' \in LiveHandles /\ node_next' \in [Slot -> Handles] /\ generation' \in [Slot -> 0 .. GenMod - 1]
    BY <1>2, TypeInvParts DEF SharedOK
  <2>2. /\ L \in Seq(Slot) /\ Len(L) # 0 /\ Distinct(L) /\ L[1] = head'.slot
        /\ \A i \in 1 .. Len(L) :
             node_next'[L[i]] = IF i = Len(L) THEN ANAM_NULL ELSE Handle(generation'[L[i + 1]], L[i + 1])
    BY <1>2 DEF IsList, Here
  <2>3. Leads(L, head', node_next')
    BY <2>1, <2>2, LinksLead
  <2> QED
    BY <2>1, <2>3, WalkComputes, ChainIs
<1> QED
  BY <1>1, <1>2

\* What keeps the list whole: a push links its node to the last one, a pop moves head
\* to the node after it, and destroy finds no node after the dummy.
Sound(t, L) ==
  /\ PushLink(t) => loc[t].tail_h.slot = L[Len(L)]
  /\ PopUnlink(t) => loc[t].next_h = node_next[head.slot]
  /\ DestroyRelease(t) => node_next[head.slot] = ANAM_NULL

\* Every sound step keeps the list and the places of the slots; the link of push lengthens
\* the list, the move of head by pop shortens it, and no other step changes it.
LEMMA NodesStep ==
  ASSUME TypeInv, ModesOK, NEW L, NodesOK(L), NEW t \in Thread, CallStep(t) \/ ClientStep(t), Sound(t, L)
  PROVE  \E M : /\ NodesOK(M)'
                /\ IF PushLink(t) THEN Grown(M, L, loc[t].new_h.slot)
                   ELSE IF PopUnlink(t) THEN Shrunk(M, L) ELSE M = L
<1>0. Working(t) => CallStep(t)
  BY DEF Working, CallStep, PushStep, PopStep, DestroyStep
<1>1. CASE PushLink(t)
  <2>1. PICK M : M = Append(L, loc[t].new_h.slot)
    OBVIOUS
  <2>2. Grown(M, L, loc[t].new_h.slot)
    BY <2>1 DEF Grown
  <2>3. NodesOK(M)'
    BY <1>0, <1>1, <2>2, NodesLink DEF Sound, Working
  <2> QED
    BY <1>1, <2>2, <2>3
<1>2. CASE PopUnlink(t)
  <2>0. ~PushLink(t)
    BY <1>2 DEF PushLink, PopUnlink, Goto
  <2>1. PICK M : M = Tail(L)
    OBVIOUS
  <2>2. Shrunk(M, L)
    BY <2>1 DEF Shrunk
  <2>3. NodesOK(M)'
    BY <1>0, <1>2, <2>2, NodesUnlink DEF Sound, Working
  <2> QED
    BY <1>2, <2>0, <2>2, <2>3
<1>3. CASE ~PushLink(t) /\ ~PopUnlink(t)
  <2>1. NodesOK(L)'
    <3>1. CASE Quiet(t)
      BY <3>1, NodesQuiet
    <3>2. CASE Working(t)
      BY <1>0, <1>3, <3>2, NodesAlloc, NodesInit, NodesEnd, NodesFree, NodesDestroyRelease, NodesDestroyFree
         DEF Working, Sound
    <3> QED
      BY <3>1, <3>2, QuietSteps
  <2> QED
    BY <1>3, <2>1
<1> QED
  BY <1>1, <1>2, <1>3

-----------------------------------------------------------------------------
(* Handles and generations: no generation has wrapped *)

NoWrap == \A s \in Slot : generation[s] < GenMod - 1

\* The slots that no handle of the queue may name by their present generation: on the
\* free list, or taken and not linked, or released and not yet given back.
Spare(s) == InSeq(s, free) \/ \E t \in Thread : Holds(t, s) /\ pc[t] # "o_end"

\* A handle that was read from the queue or put into it.
Ref(h) ==
  h = ANAM_NULL \/ (/\ h.gen <= generation[h.slot]
                    /\ h.gen = generation[h.slot] => ~Spare(h.slot))

\* A slot whose node has been unlinked by a pop that has not released it.
Unlinked(s) == \E t \in Thread : pc[t] = "o_end" /\ loc[t].head_h.slot = s

\* A handle that was read from head.
Past(h) ==
  h = ANAM_NULL \/ (/\ h.gen <= generation[h.slot]
                    /\ h.gen = generation[h.slot] => h.slot = head.slot \/ Unlinked(h.slot))

\* The only step that a label allows.
LEMMA Turn ==
  ASSUME TypeInv, NEW t \in Thread, CallStep(t) \/ ClientStep(t)
  PROVE  /\ pc[t] = "o_end" => PopEndGeneration(t)
         /\ pc[t] = "o_free" => PopFree(t)
         /\ pc[t] = "d_release" => DestroyRelease(t)
         /\ pc[t] = "d_free" => DestroyFree(t)
         /\ pc[t] = "p_last" => PushLoadLast(t)
         /\ pc[t] = "p_swing" => PushSwing(t)
<1> USE DEF Row, Same, Clear, Restart
<1>1. CASE PushStep(t) \/ PushCall(t)
  BY <1>1, PushRows DEF PushStep
<1>2. CASE PopStep(t) \/ PopCall(t)
  BY <1>2, PopRows DEF PopStep
<1>3. CASE PeekStep(t) \/ PeekCall(t)
  BY <1>3, OtherRows DEF PeekStep, PeekReturn, EmptyReturn
<1>4. CASE DestroyStep(t) \/ Destroy(t)
  BY <1>4, OtherRows DEF DestroyStep
<1> QED
  BY <1>1, <1>2, <1>3, <1>4 DEF CallStep, ClientStep

\* Generations only grow, and a slot becomes spare only when its generation ends.
LEMMA SpareStep ==
  ASSUME TypeInv, ModesOK, NoWrap, NEW L, NodesOK(L), NEW t \in Thread, CallStep(t) \/ ClientStep(t),
         Sound(t, L), NEW s \in Slot
  PROVE  /\ generation[s] \in Nat /\ generation'[s] \in Nat
         /\ \/ generation'[s] = generation[s] + 1
            \/ /\ generation'[s] = generation[s]
               /\ Spare(s)' => Spare(s)
               /\ s = head.slot => s = head'.slot \/ Unlinked(s)'
               /\ Unlinked(s) => Unlinked(s)'
         /\ generation'[s] # generation[s] => Holds(t, s) \/ s = head.slot
<1>0. /\ generation \in [Slot -> 0 .. GenMod - 1] /\ GenMod \in Nat \ {0}
      /\ \A u \in Thread \ {t} : pc'[u] = pc[u] /\ loc'[u] = loc[u]
  BY Loaded, HandleFields, Flow
<1>1. \A x \in Slot : generation[x] \in Nat /\ (generation[x] + 1) % GenMod = generation[x] + 1
  <2> TAKE x \in Slot
  <2>1. generation[x] \in 0 .. GenMod - 1 /\ generation[x] < GenMod - 1
    BY <1>0 DEF NoWrap
  <2>2. \A g \in Nat : g < GenMod - 1 => (g + 1) % GenMod = g + 1
    BY <1>0
  <2> QED
    BY <1>0, <2>1, <2>2
<1>w. Working(t) => CallStep(t)
  BY DEF Working, CallStep, PushStep, PopStep, DestroyStep
<1>2. CASE PopEndGeneration(t)
  <2>1. /\ pc[t] = "o_end" /\ pc'[t] = "o_free" /\ loc'[t] .head_h = loc[t].head_h
        /\ SP!EndGeneration(loc[t].head_h.slot) /\ loc[t].head_h.slot \in Slot
    BY <1>2, <1>w, NodesEnd, AtWork, PopRows DEF Same, Row, Working
  <2>2. generation' = [generation EXCEPT ![loc[t].head_h.slot] = generation[loc[t].head_h.slot] + 1]
        /\ free' = free /\ head' = head
    BY <1>1, <1>2, <2>1 DEF SP!EndGeneration, PopEndGeneration, EndGeneration, ends
  <2>3. CASE s = loc[t].head_h.slot
    BY <1>0, <1>1, <2>1, <2>2, <2>3 DEF Holds
  <2>4. CASE s # loc[t].head_h.slot
    <3>1. generation'[s] = generation[s]
      BY <1>0, <2>2, <2>4
    <3>2. \A u \in Thread : Holds(u, s)' <=> Holds(u, s)
      BY <1>0, <2>1, <2>2 DEF Holds, Owning
    <3>3. Holds(t, s) => FALSE
      BY <2>1, <2>4 DEF Holds, Owning
    <3>4. Spare(s)' => Spare(s)
      BY <1>0, <2>2, <3>2, <3>3 DEF Spare
    <3>5. Unlinked(s) => Unlinked(s)'
      BY <1>0, <2>4 DEF Unlinked
    <3> QED
      BY <1>1, <2>2, <3>1, <3>4, <3>5
  <2> QED
    BY <2>3, <2>4
<1>3. CASE DestroyRelease(t)
  <2>1. pc[t] = "d_release" /\ pc'[t] = "d_free" /\ SP!EndGeneration(head.slot) /\ head.slot \in Slot
    BY <1>3, <1>w, NodesDestroyRelease, Live, OtherRows DEF Same, Row, Working, Sound
  <2>2. generation' = [generation EXCEPT ![head.slot] = generation[head.slot] + 1]
        /\ free' = free /\ head' = head
    BY <1>1, <1>3, <2>1 DEF SP!EndGeneration, DestroyRelease, EndGeneration, ends
  <2>3. CASE s = head.slot
    BY <1>0, <1>1, <2>1, <2>2, <2>3
  <2>4. CASE s # head.slot
    <3>1. generation'[s] = generation[s]
      BY <1>0, <2>2, <2>4
    <3>2. \A u \in Thread : Holds(u, s)' <=> Holds(u, s)
      BY <1>0, <2>1, <2>2, <2>4 DEF Holds, Owning
    <3>3. ~Holds(t, s)
      BY <2>1 DEF Holds, Owning
    <3>4. Spare(s)' => Spare(s)
      BY <1>0, <2>2, <3>2, <3>3 DEF Spare
    <3>5. Unlinked(s) => Unlinked(s)'
      BY <1>0, <2>1 DEF Unlinked
    <3> QED
      BY <1>1, <2>2, <2>4, <3>1, <3>4, <3>5
  <2> QED
    BY <2>3, <2>4
<1>4. CASE ~PopEndGeneration(t) /\ ~DestroyRelease(t)
  <2>1. generation' = generation
    BY <1>4, Effects DEF memory, PushAlloc, PushInit, PushLink, PopUnlink, PopFree, DestroyFree, PushFree,
                         SP!Take, SP!GiveBack, pool
  <2>2. pc'[t] = "o_end" /\ pc[t] # "o_end" => PopUnlink(t)
    BY <1>4, QuietSteps, PushRows, PopRows, OtherRows DEF Quiet, Working, Same, Row
  <2>3. pc[t] # "o_end"
    BY <1>4, Turn
  <2>4. Unlinked(s) => Unlinked(s)'
    BY <1>0, <2>3 DEF Unlinked
  <2>5. s = head.slot => s = head'.slot \/ Unlinked(s)'
    <3>1. head' = head \/ PopUnlink(t)
      BY <1>4, Effects DEF memory, PushAlloc, PushInit, PushLink, PopFree, DestroyFree, PushFree, ends
    <3>2. PopUnlink(t) => pc'[t] = "o_end" /\ loc'[t].head_h = head
      BY PopRows DEF PopUnlink, Row
    <3> QED
      BY <3>1, <3>2 DEF Unlinked
  <2>6. Spare(s)' => Spare(s)
    <3>0. ASSUME NEW u \in Thread \ {t}, head' = head \/ pc[u] # "d_free" PROVE Holds(u, s)' <=> Holds(u, s)
      BY <1>0, <3>0 DEF Holds
    <3>1. CASE Quiet(t)
      <4>1. free' = free /\ head' = head
        BY <3>1 DEF Quiet, memory
      <4>2. Holds(t, s)' <=> Holds(t, s)
        BY <3>1, <4>1 DEF Holds, Quiet, SameHold
      <4> QED
        BY <1>0, <2>3, <3>0, <4>1, <4>2 DEF Spare
    <3>2. CASE PushAlloc(t)
      <4>1. free # <<>> /\ free' = Tail(free) /\ head' = head /\ free \in Seq(Slot)
        BY <3>2, Loaded DEF PushAlloc, SP!Take, ends
      <4>2. Shrunk(free', free) /\ Len(free) # 0 /\ Distinct(free)
        BY <4>1 DEF Shrunk, NodesOK, Apart
      <4>3. InSeq(s, free') => InSeq(s, free)
        BY <4>1, <4>2, TailFacts
      <4>4. Holds(t, s)' => s = free[1]
        <5>1. pc'[t] = "p_init" /\ loc'[t].new_h = Handle(generation[Head(free)], Head(free))
          BY <3>2, PushRows DEF Row
        <5>2. Head(free) = free[1]
          BY <4>1, Loaded
        <5> QED
          BY <5>1, <5>2, HandleFields DEF Holds, Owning
      <4>5. 1 \in 1 .. Len(free)
        BY <4>1, Loaded
      <4>6. Holds(t, s)' => InSeq(s, free)
        BY <4>4, <4>5 DEF InSeq
      <4> QED
        BY <1>0, <3>0, <4>1, <4>3, <4>6 DEF Spare
    <3>3. CASE PushInit(t) \/ PushLink(t)
      <4>1. free' = free /\ head' = head
        BY <3>3 DEF PushInit, PushLink, ends, pool
      <4>2. Holds(t, s)' => Holds(t, s)
        BY <3>3, PushRows DEF Holds, Same, Row, Owning
      <4> QED
        BY <1>0, <2>3, <3>0, <4>1, <4>2 DEF Spare
    <3>4. CASE PopUnlink(t)
      <4>1. free' = free /\ pc'[t] = "o_end"
        BY <3>4, PopRows DEF PopUnlink, pool, Row
      <4>2. \A u \in Thread \ {t} : pc[u] # "d_free"
        BY <3>4, PopRows DEF Row, ModesOK, Destroying
      <4> QED
        BY <1>0, <3>0, <4>1, <4>2 DEF Spare
    <3>5. CASE PopFree(t) \/ DestroyFree(t)
      <4>1. PICK x \in Slot : free' = <<x>> \o free /\ Holds(t, x)
        <5>1. PopFree(t) => free' = <<loc[t].head_h.slot>> \o free /\ pc[t] = "o_free"
          BY PopRows DEF PopFree, PushFree, SP!GiveBack, Same, Row
        <5>2. DestroyFree(t) => free' = <<head.slot>> \o free /\ pc[t] = "d_free"
          BY OtherRows DEF DestroyFree, PushFree, SP!GiveBack, Same, Row
        <5> QED
          BY <3>5, <5>1, <5>2, AtWork, Live DEF Holds
      <4>2. head' = head /\ pc'[t] \in {"o_length", "d_done"}
        BY <3>5, PopRows, OtherRows DEF PopFree, DestroyFree, PushFree, Same, Row, ends
      <4>3. free \in Seq(Slot) /\ Distinct(free) /\ ~InSeq(x, free)
        BY <4>1, Loaded DEF NodesOK, Apart
      <4>4. InSeq(s, free') <=> s = x \/ InSeq(s, free)
        BY <4>1, <4>3, ConsFacts
      <4>5. ~Holds(t, s)'
        BY <4>2 DEF Holds, Owning
      <4> QED
        BY <1>0, <2>3, <3>0, <4>1, <4>2, <4>4, <4>5 DEF Spare
    <3> QED
      BY <1>4, <3>1, <3>2, <3>3, <3>4, <3>5, QuietSteps DEF Working
  <2> QED
    BY <1>1, <2>1, <2>4, <2>5, <2>6
<1> QED
  BY <1>2, <1>3, <1>4

\* A handle of the queue stays one, and a handle read from head stays one.
LEMMA RefKept ==
  ASSUME TypeInv, ModesOK, NoWrap, NEW L, NodesOK(L), NEW t \in Thread, CallStep(t) \/ ClientStep(t),
         Sound(t, L), NEW h \in Handles
  PROVE  (Ref(h) => Ref(h)') /\ (Past(h) => Past(h)')
<1>1. CASE h = ANAM_NULL
  BY <1>1 DEF Ref, Past
<1>2. CASE h # ANAM_NULL
  <2>1. h.slot \in Slot /\ h.gen \in Nat
    BY <1>2, HandleFields
  <2>2. PICK s \in Slot : s = h.slot
    BY <2>1
  <2>3. /\ generation[s] \in Nat /\ generation'[s] \in Nat
        /\ \/ generation'[s] = generation[s] + 1
           \/ /\ generation'[s] = generation[s]
              /\ Spare(s)' => Spare(s)
              /\ s = head.slot => s = head'.slot \/ Unlinked(s)'
              /\ Unlinked(s) => Unlinked(s)'
    BY SpareStep
  <2>4. PICK g \in Nat : g = h.gen
    BY <2>1
  <2>5. Ref(h) => Ref(h)'
    BY <1>2, <2>2, <2>3, <2>4 DEF Ref
  <2>6. Past(h) => Past(h)'
    BY <1>2, <2>2, <2>3, <2>4 DEF Past
  <2> QED
    BY <2>5, <2>6
<1> QED
  BY <1>1, <1>2

\* Where the handles come from.
LEMMA Sources ==
  ASSUME TypeInv, NEW t \in Thread, CallStep(t) \/ ClientStep(t)
  PROVE  /\ loc'[t].tail_h \in {ANAM_NULL, loc[t].tail_h, tail}
         /\ \/ loc'[t].next_h \in {ANAM_NULL, loc[t].next_h}
            \/ \E s \in Slot : loc'[t].next_h = node_next[s]
         /\ \/ loc'[t].head_h \in {ANAM_NULL, loc[t].head_h}
            \/ loc'[t].head_h = head /\ pc[t] \in {"o_head", "k_head", "e_head"}
         /\ pc'[t] \notin Owning => \/ loc'[t].new_h = ANAM_NULL
                                    \/ loc'[t].new_h = loc[t].new_h /\ (pc[t] \notin Owning \/ PushLink(t))
         /\ \/ tail' \in {tail, loc[t].next_h}
            \/ tail' = loc[t].new_h /\ pc[t] = "p_swing"
<1>1. \/ tail' \in {tail, loc[t].next_h}
      \/ tail' = loc[t].new_h /\ pc[t] = "p_swing"
  BY Effects DEF PushHelp, PushSwing, PopHelp, Help, Goto
<1> USE DEF Row, Same, Clear, Restart, Owning
<1>2. CASE PushStep(t) \/ PushCall(t)
  <2>1. PushLoadNext(t) => loc[t].tail_h.slot \in Slot
    BY Live DEF PushLoadNext, Goto, TailLoaded
  <2> QED
    BY <1>1, <1>2, <2>1, PushRows DEF PushStep
<1>3. CASE PopStep(t) \/ PopCall(t)
  <2>1. PopLoadNext(t) => loc[t].head_h.slot \in Slot
    BY Live DEF PopLoadNext, LoadNext, Goto, HeadLoaded
  <2> QED
    BY <1>1, <1>3, <2>1, PopRows DEF PopStep
<1>4. CASE PeekStep(t) \/ PeekCall(t)
  <2>1. PeekLoadNext(t) => loc[t].head_h.slot \in Slot
    BY Live DEF PeekLoadNext, LoadNext, Goto, HeadLoaded
  <2> QED
    BY <1>1, <1>4, <2>1, OtherRows DEF PeekStep, PeekReturn, EmptyReturn
<1>5. CASE DestroyStep(t) \/ Destroy(t)
  BY <1>1, <1>5, OtherRows DEF DestroyStep
<1> QED
  BY <1>2, <1>3, <1>4, <1>5 DEF CallStep, ClientStep

\* Every handle that is stored anywhere is one of the queue, except those that name a
\* node not linked yet.
LocRefs(t) ==
  /\ Ref(loc[t].tail_h) /\ Ref(loc[t].next_h) /\ Ref(loc[t].head_h) /\ Past(loc[t].head_h)
  /\ pc[t] \notin Owning => Ref(loc[t].new_h)

Refs ==
  /\ Ref(tail) /\ \A s \in Slot : Ref(node_next[s])
  /\ \A t \in Thread : LocRefs(t)

\* head is a handle of the queue.
LEMMA HeadRef ==
  ASSUME TypeInv, NEW L, NodesOK(L), ~Gone
  PROVE  Ref(head) /\ Past(head) /\ ~Spare(head.slot)
<1>1. head = Here(L[1]) /\ L[1] = head.slot /\ head.slot \in Slot /\ InSeq(head.slot, L)
  BY ListFacts, Live, FirstLink DEF NodesOK
<1>2. ~InSeq(head.slot, free) /\ \A u \in Thread : ~Holds(u, head.slot)
  BY <1>1 DEF NodesOK, Apart
<1>3. head.gen = generation[head.slot] /\ generation[head.slot] \in Nat
  <2>1. PICK s \in Slot : s = head.slot
    BY <1>1
  <2>2. head = Handle(generation[s], s)
    BY <1>1, <2>1 DEF Here
  <2>3. head.gen = generation[s]
    BY <2>2, HandleFields
  <2> QED
    BY <2>1, <2>3, Loaded
<1>4. ~Spare(head.slot)
  BY <1>2 DEF Spare
<1> QED
  BY <1>3, <1>4 DEF Ref, Past

\* Every sound step keeps the handles: a generation only grows, and grows when a slot is
\* released, so no handle of an earlier use becomes valid again.
LEMMA RefsStep ==
  ASSUME TypeInv, ModesOK, NoWrap, NEW L, NodesOK(L), Refs,
         NEW t \in Thread, CallStep(t) \/ ClientStep(t), Sound(t, L)
  PROVE  Refs'
<1>1. \A h \in Handles : (Ref(h) => Ref(h)') /\ (Past(h) => Past(h)')
  BY RefKept
<1>2. ANAM_NULL \in Handles /\ Ref(ANAM_NULL)' /\ Past(ANAM_NULL)'
  BY HandleFields DEF Ref, Past
<1>3. /\ tail \in Handles /\ head \in Handles /\ (\A s \in Slot : node_next[s] \in Handles)
      /\ \A u \in Thread : /\ loc[u].tail_h \in Handles /\ loc[u].next_h \in Handles
                           /\ loc[u].head_h \in Handles /\ loc[u].new_h \in Handles
  BY Live, Loaded, HandleFields
<1>4. PushLink(t) => loc[t].new_h \in Handles /\ Ref(loc[t].new_h)' /\ loc'[t].new_h = loc[t].new_h
  <2> SUFFICES ASSUME PushLink(t)
               PROVE  loc[t].new_h \in Handles /\ Ref(loc[t].new_h)' /\ loc'[t].new_h = loc[t].new_h
    OBVIOUS
  <2>1. pc[t] = "p_link" /\ pc'[t] = "p_last" /\ loc'[t].new_h = loc[t].new_h
    BY PushRows DEF Row
  <2>2. PICK s \in Slot : s = loc[t].new_h.slot
    BY <2>1, Live DEF Owning
  <2>3. loc[t].new_h = Handle(generation[s], s) /\ Holds(t, s)
    BY <2>1, <2>2 DEF NodesOK, HandOK, Holds, Owning, Here
  <2>4. /\ UNCHANGED <<free, generation, head>>
        /\ \A u \in Thread \ {t} : pc'[u] = pc[u] /\ loc'[u] = loc[u]
    BY Flow DEF PushLink, pool, ends
  <2>5. ~InSeq(s, free) /\ \A u \in Thread \ {t} : ~Holds(u, s)
    BY <2>3 DEF NodesOK, Apart
  <2>6. ~Spare(s)'
    <3>1. \A u \in Thread \ {t} : ~Holds(u, s)'
      BY <2>4, <2>5 DEF Holds
    <3>2. ~Holds(t, s)'
      BY <2>1 DEF Holds, Owning
    <3> QED
      BY <2>4, <2>5, <3>1, <3>2 DEF Spare
  <2>7. PICK h \in Handles : h = loc[t].new_h /\ h.slot = s /\ h.gen = generation[s]
    BY <1>3, <2>3, HandleFields
  <2>8. generation'[s] = generation[s] /\ generation[s] \in Nat
    BY <2>4, Loaded
  <2>9. Ref(h)'
    BY <2>6, <2>7, <2>8 DEF Ref
  <2> QED
    BY <2>1, <2>7, <2>9
<1>5. Ref(tail)'
  <2>1. pc[t] = "p_swing" => Ref(loc[t].new_h)
    BY DEF Refs, LocRefs, Owning
  <2>2. PICK h \in Handles : h = tail' /\ Ref(h)
    BY <1>3, <2>1, Sources DEF Refs, LocRefs
  <2> QED
    BY <1>1, <2>2
<1>6. ASSUME NEW s \in Slot PROVE Ref(node_next[s])'
  <2>1. \/ node_next'[s] \in {node_next[s], ANAM_NULL}
        \/ PushLink(t) /\ node_next'[s] = loc[t].new_h
    <3>1. node_next \in [Slot -> Handles]
      BY DEF TypeInv, TypeOK
    <3>2. PushInit(t) => node_next'[s] \in {node_next[s], ANAM_NULL}
      BY <3>1 DEF PushInit
    <3>3. PushLink(t) => node_next'[s] \in {node_next[s], loc[t].new_h}
      BY <3>1 DEF PushLink
    <3>4. UNCHANGED node_next \/ PushInit(t) \/ PushLink(t)
      BY Effects DEF memory, PushAlloc, PopUnlink, PopEndGeneration, PopFree, DestroyRelease, DestroyFree,
                     EndGeneration, PushFree, nodes
    <3> QED
      BY <3>2, <3>3, <3>4
  <2>2. PICK h : h = node_next'[s]
    OBVIOUS
  <2>3. Ref(h)'
    BY <1>1, <1>2, <1>3, <1>4, <2>1, <2>2 DEF Refs
  <2> QED
    BY <2>2, <2>3
<1>7. ASSUME NEW u \in Thread \ {t} PROVE LocRefs(u)'
  <2>1. pc'[u] = pc[u] /\ loc'[u] = loc[u]
    BY Flow
  <2>2. PICK a \in Handles, b \in Handles, c \in Handles, d \in Handles :
          a = loc[u].tail_h /\ b = loc[u].next_h /\ c = loc[u].head_h /\ d = loc[u].new_h
    BY <1>3
  <2>3. Ref(a)' /\ Ref(b)' /\ Ref(c)' /\ Past(c)' /\ (pc[u] \notin Owning => Ref(d)')
    BY <1>1, <2>2 DEF Refs, LocRefs
  <2> QED
    BY <2>1, <2>2, <2>3 DEF LocRefs
<1>8. LocRefs(t)'
  <2>1. PICK a, b, c, d : a = loc'[t].tail_h /\ b = loc'[t].next_h /\ c = loc'[t].head_h /\ d = loc'[t].new_h
    OBVIOUS
  <2>2. Ref(a)'
    BY <1>1, <1>2, <1>3, <2>1, Sources DEF Refs, LocRefs
  <2>3. Ref(b)'
    BY <1>1, <1>2, <1>3, <2>1, Sources DEF Refs, LocRefs
  <2>4. Ref(c)' /\ Past(c)'
    <3>1. pc[t] \in {"o_head", "k_head", "e_head"} => Ref(head) /\ Past(head)
      BY GoneKept, HeadRef
    <3> QED
      BY <1>1, <1>2, <1>3, <2>1, <3>1, Sources DEF Refs, LocRefs
  <2>5. pc'[t] \notin Owning => Ref(d)'
    BY <1>1, <1>2, <1>3, <1>4, <2>1, Sources DEF Refs, LocRefs
  <2> QED
    BY <2>1, <2>2, <2>3, <2>4, <2>5 DEF LocRefs
<1> QED
  BY <1>5, <1>6, <1>7, <1>8 DEF Refs

-----------------------------------------------------------------------------
(* What a pop knows when it moves head *)

\* The item at the front of a list.
LEMMA FrontIs ==
  ASSUME NEW L
  PROVE  /\ TypeInv /\ IsList(L) => Front = IF Len(L) = 1 THEN NoValue ELSE node_data[L[2]]
         /\ TypeInv' /\ IsList(L)' => Front' = IF Len(L) = 1 THEN NoValue ELSE node_data'[L[2]]
<1>1. ASSUME L \in Walks, NEW data \in [Slot -> Value \cup {NoValue}], NEW C, C = ContentsOf(L, data)
      PROVE  (IF C = <<>> THEN NoValue ELSE C[1]) = IF Len(L) = 1 THEN NoValue ELSE data[L[2]]
  <2>1. PICK n \in Nat : n = Len(L) /\ n # 0
    BY <1>1 DEF Walks
  <2>2. (C = <<>> <=> n = 1) /\ \A i \in 1 .. n - 1 : C[i] = data[L[i + 1]]
    BY <1>1, <2>1, ContentsSeq
  <2>3. n # 1 => 1 \in 1 .. n - 1 /\ 1 + 1 = 2
    BY <2>1
  <2> QED
    BY <2>1, <2>2, <2>3
<1>2. IsList(L) => L \in Walks
  BY DEF IsList, Walks
<1>3. IsList(L)' => L \in Walks
  BY DEF IsList, Walks
<1>4. ASSUME TypeInv, IsList(L) PROVE Front = IF Len(L) = 1 THEN NoValue ELSE node_data[L[2]]
  <2>1. PICK C : C = Contents /\ C = ContentsOf(L, node_data)
    BY <1>4, ChainIsList, ContentsIs
  <2>2. node_data \in [Slot -> Value \cup {NoValue}]
    BY <1>4 DEF TypeInv, TypeOK
  <2> QED
    BY <1>1, <1>2, <1>4, <2>1, <2>2 DEF Front
<1>5. ASSUME TypeInv', IsList(L)' PROVE Front' = IF Len(L) = 1 THEN NoValue ELSE node_data'[L[2]]
  <2>1. PICK C : C = Contents' /\ C = ContentsOf(L, node_data')
    BY <1>5, ChainIsList, ContentsIs
  <2>2. node_data' \in [Slot -> Value \cup {NoValue}]
    BY <1>5 DEF TypeInv, TypeOK
  <2> QED
    BY <1>1, <1>3, <1>5, <2>1, <2>2 DEF Front
<1> QED
  BY <1>4, <1>5

\* What Watch records.
LEMMA SeenStep ==
  ASSUME Watch, NEW u \in Thread
  PROVE  /\ pc'[u] \in Peeking => seen'[u] = seen[u] \cup {Front'}
         /\ pc'[u] \in Popping \cup Testing => seen'[u] = seen[u] \cup ({Front'} \cap {NoValue})
         /\ pc'[u] \notin Peeking \cup Popping \cup Testing => seen'[u] = {}
<1>1. seen'[u] = CASE pc'[u] \in Peeking -> seen[u] \cup {Front'}
                   [] pc'[u] \in Popping \cup Testing -> seen[u] \cup ({Front'} \cap {NoValue})
                   [] OTHER -> {}
  BY DEF Watch
<1> QED
  BY <1>1 DEF Peeking, Popping, Testing

\* The pop has loaded head and its link, and head has not moved since.
AtHead(t) ==
  /\ pc[t] \in {"o_check", "o_help", "o_getn", "o_read", "o_cas"}
  /\ loc[t].head_h = head

Pops(t) ==
  /\ AtHead(t) =>
       /\ loc[t].next_h \in {ANAM_NULL, node_next[head.slot]}
       /\ loc[t].next_h = ANAM_NULL => NoValue \in seen[t]
       /\ mode = "draining" => loc[t].next_h = node_next[head.slot]
       /\ pc[t] = "o_cas" /\ mode = "open" => loc[t].data = node_data[loc[t].next_h.slot]
  /\ pc[t] = "d_release" => node_next[head.slot] = ANAM_NULL

\* The assumption under which the queue is correct for any number of threads: no push is
\* about to link its node to a slot that has been reused, and no generation wraps.
Undisturbed == LinkNeverStale /\ NoWrap

\* The CAS of push and of pop compare with values that never come back, so they succeed only
\* when the step is sound.
LEMMA SoundNow ==
  ASSUME TypeInv, ModesOK, NEW L, NodesOK(L), Refs, NEW t \in Thread, Pops(t), Undisturbed,
         CallStep(t) \/ ClientStep(t)
  PROVE  Sound(t, L)
<1>1. ASSUME PushLink(t) PROVE loc[t].tail_h.slot = L[Len(L)]
  <2>1. pc[t] = "p_link" /\ node_next[loc[t].tail_h.slot] = ANAM_NULL
    BY <1>1 DEF PushLink, Goto
  <2>2. PICK s \in Slot : s = loc[t].tail_h.slot
    BY <2>1, Live DEF TailLoaded
  <2>3. loc[t].tail_h # ANAM_NULL /\ generation[s] = loc[t].tail_h.gen
    BY <2>1, <2>2 DEF Undisturbed, LinkNeverStale, Valid
  <2>4. ~Spare(s)
    BY <2>2, <2>3 DEF Refs, LocRefs, Ref
  <2>5. ASSUME NEW u \in Thread, Holds(u, s) PROVE FALSE
    <3>1. pc[u] = "o_end"
      BY <2>4, <2>5 DEF Spare
    <3>2. s = loc[u].head_h.slot
      BY <2>5, <3>1 DEF Holds, Owning
    <3> QED
      BY <2>1, <2>2, <3>1, <3>2 DEF NodesOK, HandOK
  <2>6. ~Gone
    BY <2>1, GoneKept
  <2>7. PICK i \in 1 .. Len(L) : L[i] = s
    BY <2>4, <2>5, <2>6 DEF NodesOK, Apart, Spare, InSeq
  <2>8. i = Len(L)
    <3>1. i # Len(L) => node_next[L[i]] = Here(L[i + 1]) /\ i + 1 \in 1 .. Len(L)
      BY ListFacts DEF NodesOK
    <3>2. \A x \in Slot : Here(x) # ANAM_NULL
      BY Loaded, HandleFields DEF Here
    <3>3. i # Len(L) => L[i + 1] \in Slot
      BY <3>1, ListFacts DEF NodesOK
    <3> QED
      BY <2>1, <2>2, <2>7, <3>1, <3>2, <3>3
  <2> QED
    BY <2>2, <2>7, <2>8
<1>2. ASSUME PopUnlink(t) PROVE loc[t].next_h = node_next[head.slot]
  <2>1. pc[t] = "o_cas" /\ loc[t].head_h = head
    BY <1>2 DEF PopUnlink, Goto
  <2>2. loc[t].next_h # ANAM_NULL
    BY <2>1, Live, HandleFields DEF NextLive
  <2> QED
    BY <2>1, <2>2 DEF Pops, AtHead
<1>3. ASSUME DestroyRelease(t) PROVE node_next[head.slot] = ANAM_NULL
  BY <1>3 DEF DestroyRelease, EndGeneration, Goto, Pops
<1> QED
  BY <1>1, <1>2, <1>3 DEF Sound

\* The nodes of the list change only by the CAS of a push, which fills an empty link.
LEMMA MemoryStep ==
  ASSUME TypeInv, ModesOK, NEW L, NodesOK(L), NEW t \in Thread, CallStep(t) \/ ClientStep(t)
  PROVE  /\ head' = head \/ PopUnlink(t)
         /\ \A s \in Slot : InSeq(s, L) =>
              /\ node_data'[s] = node_data[s]
              /\ node_next'[s] = node_next[s] \/ (PushLink(t) /\ node_next[s] = ANAM_NULL)
<1>1. head' = head \/ PopUnlink(t)
  BY Effects DEF memory, PushAlloc, PushInit, PushLink, PopEndGeneration, PopFree, DestroyRelease,
                 DestroyFree, EndGeneration, PushFree, ends
<1>2. node_next \in [Slot -> Handles] /\ node_data \in [Slot -> Value \cup {NoValue}]
  BY DEF TypeInv, TypeOK
<1>3. CASE PushInit(t)
  <2>1. pc[t] = "p_init" /\ loc[t].new_h.slot \in Slot
    BY <1>3, AtWork DEF PushInit, Goto
  <2>2. ~Gone /\ Holds(t, loc[t].new_h.slot)
    BY <2>1, GoneKept DEF Holds, Owning
  <2>3. ~InSeq(loc[t].new_h.slot, L)
    BY <2>1, <2>2 DEF NodesOK, Apart
  <2>4. \A s \in Slot : s # loc[t].new_h.slot => node_next'[s] = node_next[s] /\ node_data'[s] = node_data[s]
    BY <1>2, <1>3 DEF PushInit
  <2> QED
    BY <1>1, <2>3, <2>4
<1>4. CASE PushLink(t)
  <2>1. node_data' = node_data /\ node_next[loc[t].tail_h.slot] = ANAM_NULL
    BY <1>4 DEF PushLink
  <2>2. \A s \in Slot : s # loc[t].tail_h.slot => node_next'[s] = node_next[s]
    BY <1>2, <1>4 DEF PushLink
  <2> QED
    BY <1>1, <1>4, <2>1, <2>2
<1>5. CASE ~PushInit(t) /\ ~PushLink(t)
  <2>1. UNCHANGED <<node_next, node_data>>
    BY <1>5, Effects DEF memory, PushAlloc, PopUnlink, PopEndGeneration, PopFree, DestroyRelease,
                         DestroyFree, EndGeneration, PushFree, nodes
  <2> QED
    BY <1>1, <2>1
<1> QED
  BY <1>3, <1>4, <1>5

\* Inside a call the dummy is there.
LEMMA Present ==
  ASSUME TypeInv, ModesOK, NEW u \in Thread, pc[u] \notin {"d_free", "d_done", "idle"}
  PROVE  ~Gone
BY DEF Gone, ModesOK, Destroying

\* A handle that head had is not the one that head gets: the value that the CAS of pop
\* compares never comes back.
LEMMA NoReturn ==
  ASSUME TypeInv, ModesOK, NEW L, NodesOK(L), Refs, NEW t \in Thread, CallStep(t) \/ ClientStep(t),
         Sound(t, L), PopUnlink(t), NEW u \in Thread
  PROVE  loc[u].head_h # head'
<1>1. /\ pc[t] = "o_cas" /\ head' = loc[t].next_h /\ loc[t].next_h = node_next[head.slot]
      /\ loc[t].next_h # ANAM_NULL
  <2>1. pc[t] = "o_cas" /\ head' = loc[t].next_h /\ loc[t].next_h = node_next[head.slot]
    BY DEF PopUnlink, Goto, Sound
  <2> QED
    BY <2>1, Live, HandleFields DEF NextLive
<1>2. ~Gone
  BY <1>1, Present
<1>3. PICK s \in Slot : s = L[2] /\ head' = Here(s) /\ head.slot = L[1] /\ InSeq(s, L) /\ s # L[1]
  <2>1. Len(L) # 1 /\ L[1] = head.slot
    BY <1>1, FirstLink DEF NodesOK
  <2>2. node_next[L[1]] = Here(L[2]) /\ L[2] \in Slot /\ 2 \in 1 .. Len(L)
    BY <2>1, FirstLink DEF NodesOK
  <2>3. 1 \in 1 .. Len(L)
    BY ListFacts DEF NodesOK
  <2>4. L[1] # L[2]
    BY <2>2, <2>3, ListFacts DEF NodesOK
  <2> QED
    BY <1>1, <2>1, <2>2, <2>4 DEF InSeq
<1>4. ~Unlinked(s)
  <2>1. \A v \in Thread : ~Holds(v, s)
    BY <1>2, <1>3 DEF NodesOK, Apart
  <2> QED
    BY <2>1 DEF Unlinked, Holds
<1>5. SUFFICES ASSUME loc[u].head_h = head' PROVE FALSE
  OBVIOUS
<1>6. loc[u].head_h # ANAM_NULL /\ loc[u].head_h.slot = s /\ loc[u].head_h.gen = generation[s]
  BY <1>1, <1>3, <1>5, HandleFields DEF Here
<1> QED
  BY <1>3, <1>4, <1>6 DEF Refs, LocRefs, Past

\* What a pop has read stays true under the steps of the other threads.
LEMMA PopsOthers ==
  ASSUME TypeInv, ModesOK, NEW L, NodesOK(L), Refs, NEW t \in Thread, CallStep(t) \/ ClientStep(t),
         Sound(t, L), Watch, NEW u \in Thread \ {t}, Pops(u)
  PROVE  Pops(u)'
<1>1. pc'[u] = pc[u] /\ loc'[u] = loc[u]
  BY Flow
<1>2. InSeq(head.slot, L) /\ head.slot \in Slot
  BY Live, FirstLink DEF NodesOK
<1>3. node_next'[head.slot] = node_next[head.slot] \/ (PushLink(t) /\ node_next[head.slot] = ANAM_NULL)
  BY <1>2, MemoryStep
<1>4. PushLink(t) => mode = "open" /\ mode' = mode
  BY PushRows DEF PushLink, client, Row, ModesOK, Draining, Popping, Destroying
<1>5. ASSUME AtHead(u)'
      PROVE  /\ loc'[u].next_h \in {ANAM_NULL, node_next'[head'.slot]}
             /\ loc'[u].next_h = ANAM_NULL => NoValue \in seen'[u]
             /\ mode' = "draining" => loc'[u].next_h = node_next'[head'.slot]
             /\ pc'[u] = "o_cas" /\ mode' = "open" => loc'[u].data = node_data'[loc'[u].next_h.slot]
  <2>1. head' = head
    BY <1>1, <1>5, MemoryStep, NoReturn DEF AtHead
  <2>2. AtHead(u)
    BY <1>1, <1>5, <2>1 DEF AtHead
  <2>3. pc[u] # "idle" /\ ~Gone
    BY <2>2, Present DEF AtHead
  <2>4. mode' = mode
    BY <2>3, Flow, Effects, OtherRows DEF Destroy, Same, Row, ModesOK, Destroying
  <2>5. /\ loc[u].next_h \in {ANAM_NULL, node_next[head.slot]}
        /\ loc[u].next_h = ANAM_NULL => NoValue \in seen[u]
        /\ mode = "draining" => loc[u].next_h = node_next[head.slot]
        /\ pc[u] = "o_cas" /\ mode = "open" => loc[u].data = node_data[loc[u].next_h.slot]
    BY <2>2 DEF Pops
  <2>6. seen[u] \subseteq seen'[u]
    BY <1>1, <2>2, SeenStep DEF AtHead, Popping
  <2>7. pc[u] = "o_cas" => node_data'[loc[u].next_h.slot] = node_data[loc[u].next_h.slot]
    <3>1. SUFFICES ASSUME pc[u] = "o_cas" PROVE node_data'[loc[u].next_h.slot] = node_data[loc[u].next_h.slot]
      OBVIOUS
    <3>2. loc[u].next_h # ANAM_NULL /\ loc[u].next_h = node_next[head.slot]
      BY <2>5, <3>1, Live, HandleFields DEF NextLive
    <3>3. loc[u].next_h = Here(L[2]) /\ L[2] \in Slot /\ InSeq(L[2], L)
      BY <3>2, FirstLink DEF NodesOK, InSeq
    <3>4. loc[u].next_h.slot = L[2]
      BY <3>3, HandleFields DEF Here
    <3> QED
      BY <3>3, <3>4, MemoryStep
  <2> QED
    BY <1>1, <1>3, <1>4, <2>1, <2>4, <2>5, <2>6, <2>7
<1>6. ASSUME pc'[u] = "d_release" PROVE node_next'[head'.slot] = ANAM_NULL
  <2>1. mode = "draining" /\ pc[u] = "d_release"
    BY <1>1, <1>6 DEF ModesOK, Destroying
  <2>2. pc[t] = "idle"
    BY <2>1 DEF ModesOK
  <2>3. ~PopUnlink(t) /\ ~PushLink(t)
    BY <2>2, PopRows, PushRows DEF Row
  <2> QED
    BY <1>2, <2>1, <2>3, MemoryStep DEF Pops
<1> QED
  BY <1>5, <1>6 DEF Pops

\* The steps that lead to a label.
LEMMA Into ==
  ASSUME TypeInv, NEW t \in Thread, CallStep(t) \/ ClientStep(t)
  PROVE  /\ pc'[t] \in {"o_check", "o_help", "o_getn", "o_read", "o_cas"} =>
              PopLoadNext(t) \/ PopCheckHead(t) \/ PopGetNext(t) \/ PopRead(t)
         /\ pc'[t] = "d_release" => PopEmpty(t) /\ mode = "draining"
         /\ pc'[t] \in TailLoaded => PushLoadTail(t) \/ PushGetTail(t) \/ PushLoadNext(t) \/ PushCheckTail(t)
         /\ pc'[t] \in Linked => PushLink(t) \/ PushLoadLast(t)
         /\ pc'[t] = "o_get" => PopLoadTail(t)
         /\ pc'[t] = "o_next" => PopGetHead(t)
<1> USE DEF TailLoaded, Linked
<1> USE DEF Row, Same, Clear, Restart
<1>1. CASE PushStep(t) \/ PushCall(t)
  BY <1>1, PushRows DEF PushStep
<1>2. CASE PopStep(t) \/ PopCall(t)
  BY <1>2, PopRows DEF PopStep
<1>3. CASE PeekStep(t) \/ PeekCall(t)
  BY <1>3, OtherRows DEF PeekStep, PeekReturn, EmptyReturn
<1>4. CASE DestroyStep(t) \/ Destroy(t)
  BY <1>4, OtherRows DEF DestroyStep
<1> QED
  BY <1>1, <1>2, <1>3, <1>4 DEF CallStep, ClientStep

\* What a pop reads is true when it reads it.
LEMMA PopsOwn ==
  ASSUME TypeInv, TypeInv', ModesOK, NEW L, NodesOK(L), NodesOK(L)', NEW t \in Thread,
         PopLoadNext(t) \/ PopCheckHead(t) \/ PopGetNext(t) \/ PopRead(t) \/ PopEmpty(t),
         Watch, Pops(t)
  PROVE  Pops(t)'
<1>1. UNCHANGED <<head, node_next, node_data, mode>>
  BY DEF PopLoadNext, PopCheckHead, PopGetNext, PopRead, PopEmpty, LoadNext, GetNext, shared, ends, nodes, client
<1>2. CASE PopLoadNext(t)
  <2>1. /\ pc'[t] = "o_check" /\ loc'[t].head_h = loc[t].head_h
        /\ loc'[t].next_h = node_next[loc[t].head_h.slot]
    BY <1>2, PopRows DEF Row
  <2>2. ASSUME AtHead(t)', loc'[t].next_h = ANAM_NULL PROVE NoValue \in seen'[t]
    <3>1. node_next[head.slot] = ANAM_NULL
      BY <1>1, <2>1, <2>2 DEF AtHead
    <3>2. \A s \in Slot : Here(s) # ANAM_NULL
      BY Loaded, HandleFields DEF Here
    <3>4. Len(L) = 1
      BY <3>1, <3>2, FirstLink DEF NodesOK
    <3>5. Front' = NoValue
      BY <3>4, FrontIs DEF NodesOK
    <3> QED
      BY <2>1, <3>5, SeenStep DEF Popping
  <2> QED
    BY <1>1, <2>1, <2>2 DEF Pops, AtHead
<1>3. CASE PopCheckHead(t) \/ PopGetNext(t)
  <2>1. /\ pc[t] \in {"o_check", "o_getn"} /\ pc'[t] \in {"o_help", "o_getn", "o_read"}
        /\ loc'[t].head_h = loc[t].head_h /\ loc'[t].next_h = loc[t].next_h
    BY <1>3, PopRows DEF Same, Row
  <2>2. seen[t] \subseteq seen'[t]
    BY <2>1, SeenStep DEF Popping
  <2> QED
    BY <1>1, <2>1, <2>2 DEF Pops, AtHead
<1>4. CASE PopRead(t)
  <2>1. /\ pc[t] = "o_read" /\ pc'[t] = "o_cas"
        /\ loc'[t].head_h = loc[t].head_h /\ loc'[t].next_h = loc[t].next_h
        /\ loc'[t].data = IF mode = "draining" THEN NoValue ELSE node_data[loc[t].next_h.slot]
    BY <1>4, PopRows DEF Row
  <2>2. seen[t] \subseteq seen'[t]
    BY <2>1, SeenStep DEF Popping
  <2> QED
    BY <1>1, <2>1, <2>2 DEF Pops, AtHead
<1>5. CASE PopEmpty(t)
  <2>1. /\ pc[t] = "o_check" /\ pc'[t] = IF mode = "draining" THEN "d_release" ELSE "idle"
        /\ loc[t].head_h = head /\ loc[t].next_h = ANAM_NULL
    BY <1>5, PopRows DEF Clear, Row, PopEmpty
  <2> QED
    BY <1>1, <2>1 DEF Pops, AtHead
<1> QED
  BY <1>2, <1>3, <1>4, <1>5

-----------------------------------------------------------------------------
(* The inductive invariant *)

QueueInv ==
  TypeInv /\ ModesOK /\ NodesOK(Chain) /\ Refs /\ \A t \in Thread : Pops(t)

\* A new queue satisfies the invariant.
LEMMA QueueInit == Init => QueueInv
<1> SUFFICES ASSUME Init PROVE QueueInv
  OBVIOUS
<1>1. TypeInv /\ ModesOK /\ NodesOK(Chain)
  BY TypeInit, NodesBegin
<1>2. /\ \A t \in Thread : pc[t] = "idle" /\ loc[t] = NoLocals
      /\ tail = head /\ node_next = [s \in Slot |-> ANAM_NULL] /\ mode = "open"
  BY DEF Init
<1>3. Ref(ANAM_NULL) /\ Past(ANAM_NULL)
  BY DEF Ref, Past
<1>4. Ref(tail)
  <2>1. ~Gone
    BY <1>2 DEF Gone
  <2>2. PICK L : L = Chain
    OBVIOUS
  <2> QED
    BY <1>1, <1>2, <2>1, <2>2, HeadRef
<1>5. \A t \in Thread : LocRefs(t)
  BY <1>2, <1>3 DEF LocRefs, NoLocals
<1>6. Refs
  BY <1>2, <1>3, <1>4, <1>5 DEF Refs
<1>7. \A t \in Thread : Pops(t)
  BY <1>2 DEF Pops, AtHead
<1> QED
  BY <1>1, <1>6, <1>7 DEF QueueInv

\* One step, for the list L before and the list M after it.
LEMMA QueueStep ==
  ASSUME QueueInv, Undisturbed, NEW t \in Thread, CallStep(t) \/ ClientStep(t), Watch
  PROVE  /\ QueueInv'
         /\ Sound(t, Chain)
         /\ IF PushLink(t) THEN Grown(Chain', Chain, loc[t].new_h.slot)
            ELSE IF PopUnlink(t) THEN Shrunk(Chain', Chain) ELSE Chain' = Chain
<1>1. TypeInv' /\ ModesOK'
  <2>1. Next
    BY DEF Next
  <2> QED
    BY <2>1, TypeStep, ModesStep DEF QueueInv
<1>2. PICK L : L = Chain
  OBVIOUS
<1>3. TypeInv /\ ModesOK /\ NodesOK(L) /\ Refs /\ (\A u \in Thread : Pops(u)) /\ NoWrap
  BY <1>2 DEF QueueInv, Undisturbed
<1>4. Sound(t, L)
  BY <1>3, SoundNow
<1>5. PICK M : /\ NodesOK(M)'
               /\ IF PushLink(t) THEN Grown(M, L, loc[t].new_h.slot)
                  ELSE IF PopUnlink(t) THEN Shrunk(M, L) ELSE M = L
  BY <1>3, <1>4, NodesStep
<1>6. Chain' = M
  BY <1>1, <1>5, ChainIsList DEF NodesOK
<1>7. Refs'
  BY <1>3, <1>4, RefsStep
<1>8. \A u \in Thread \ {t} : Pops(u)'
  BY <1>3, <1>4, PopsOthers
<1>9. Pops(t)'
  <2>1. CASE PopLoadNext(t) \/ PopCheckHead(t) \/ PopGetNext(t) \/ PopRead(t) \/ PopEmpty(t)
    <3>1. ~PushLink(t) /\ ~PopUnlink(t)
      BY <1>3, <2>1, PushRows, PopRows DEF Same, Clear, Row
    <3> QED
      BY <1>1, <1>3, <1>5, <2>1, <3>1, PopsOwn
  <2>2. CASE ~(PopLoadNext(t) \/ PopCheckHead(t) \/ PopGetNext(t) \/ PopRead(t) \/ PopEmpty(t))
    BY <1>3, <2>2, Into DEF Pops, AtHead
  <2> QED
    BY <2>1, <2>2
<1>10. NodesOK(Chain)'
  BY <1>5, <1>6
<1> QED
  BY <1>1, <1>2, <1>4, <1>5, <1>6, <1>7, <1>8, <1>9, <1>10 DEF QueueInv

\* A step that changes nothing keeps it.
LEMMA QueueStutter == QueueInv /\ UNCHANGED vars => QueueInv'
<1> SUFFICES ASSUME QueueInv, UNCHANGED vars PROVE QueueInv'
  OBVIOUS
<1>1. /\ head' = head /\ tail' = tail /\ free' = free /\ generation' = generation /\ node_next' = node_next
      /\ node_data' = node_data /\ pc' = pc /\ loc' = loc /\ mode' = mode /\ seen' = seen
  BY DEF vars, shared, ends, pool, nodes, client
<1>2. TypeInv' /\ ModesOK'
  BY <1>1, TypeStep DEF QueueInv, ModesOK
<1>3. PICK L : L = Chain
  OBVIOUS
<1>4. Gone' <=> Gone
  BY <1>1 DEF Gone
<1>5. \A s : Here(s)' = Here(s)
  BY <1>1 DEF Here
<1>6. IsList(L) /\ Apart(L) /\ \A t \in Thread : HandOK(t)
  BY <1>3 DEF QueueInv, NodesOK
<1>7. IsList(L)'
  BY <1>1, <1>4, <1>6, ListKept
<1>8. \A u \in Thread : \A s \in Slot : Holds(u, s)' <=> Holds(u, s)
  BY <1>1 DEF Holds
<1>9. Apart(L)'
  BY <1>1, <1>4, <1>6, <1>8, ApartKept
<1>10. \A t \in Thread : HandOK(t)'
  BY <1>1, <1>5, <1>6 DEF HandOK
<1>11. Chain' = L
  BY <1>2, <1>7, ChainIsList
<1>12. NodesOK(Chain)'
  BY <1>7, <1>9, <1>10, <1>11 DEF NodesOK
<1>13. \A s : Spare(s)' <=> Spare(s)
  BY <1>1 DEF Spare, Holds
<1>14. \A h : (Ref(h)' <=> Ref(h)) /\ (Past(h)' <=> Past(h))
  BY <1>1, <1>13 DEF Ref, Past, Unlinked
<1>15. Refs'
  BY <1>1, <1>14 DEF QueueInv, Refs, LocRefs
<1>16. \A t \in Thread : Pops(t)'
  BY <1>1 DEF QueueInv, Pops, AtHead
<1> QED
  BY <1>2, <1>12, <1>15, <1>16 DEF QueueInv

\* The invariant of anam_queue_push, pop, peek, empty and destroy, for any number of
\* producers, consumers and observers, as long as the queue is undisturbed.
THEOREM QueueInvariance == Spec /\ []Undisturbed => []QueueInv
<1>1. QueueInv /\ Undisturbed /\ [Next]_vars => QueueInv'
  BY QueueStep, QueueStutter DEF Next
<1> QED
  BY <1>1, QueueInit, PTL DEF Spec

\* The pop that has moved head alone releases the old dummy.
LEMMA ReleasesOnceNow == QueueInv => ReleasesOnce
<1> SUFFICES ASSUME QueueInv, NEW t \in Thread, pc[t] = "o_end"
             PROVE  /\ Valid(loc[t].head_h)
                    /\ \A u \in Thread \ {t} : pc[u] = "o_end" => loc[u].head_h # loc[t].head_h
  BY DEF ReleasesOnce
<1>1. PICK L : TypeInv /\ NodesOK(L)
  BY DEF QueueInv
<1>2. PICK s \in Slot : s = loc[t].head_h.slot /\ loc[t].head_h # ANAM_NULL
  BY <1>1, Live, HandleFields DEF HeadLoaded
<1>3. loc[t].head_h = Handle(generation[s], s)
  BY <1>1, <1>2 DEF NodesOK, HandOK, Here
<1>4. Valid(loc[t].head_h)
  BY <1>2, <1>3, HandleFields DEF Valid
<1>5. \A u \in Thread : pc[u] = "o_end" /\ loc[u].head_h.slot = s => u = t
  BY <1>1, <1>2 DEF NodesOK, Apart, Holds
<1> QED
  BY <1>2, <1>4, <1>5

\* How often a slot occurs in a sequence without repetition.
LEMMA OccursOnce ==
  ASSUME NEW q \in Seq(Slot), Distinct(q), NEW s
  PROVE  Cardinality({i \in 1 .. Len(q) : q[i] = s}) = IF InSeq(s, q) THEN 1 ELSE 0
<1> DEFINE S == {i \in 1 .. Len(q) : q[i] = s}
<1>1. CASE InSeq(s, q)
  <2>1. PICK i \in 1 .. Len(q) : q[i] = s
    BY <1>1 DEF InSeq
  <2>2. S = {i}
    BY <2>1 DEF Distinct
  <2> QED
    BY <1>1, <2>2, FS_Singleton
<1>2. CASE ~InSeq(s, q)
  <2>1. S = {}
    BY <1>2 DEF InSeq
  <2> QED
    BY <1>2, <2>1, FS_EmptySet
<1> QED
  BY <1>1, <1>2

\* Every slot is in exactly one place, counted.
LEMMA SlotsConservedNow == QueueInv => SlotsConserved
<1> SUFFICES ASSUME QueueInv, mode = "open", NEW s \in Slot PROVE Occurrences(s) = 1
  BY DEF SlotsConserved
<1>1. PICK L : L = Chain
  OBVIOUS
<1>2. TypeInv /\ ModesOK /\ NodesOK(L)
  BY <1>1 DEF QueueInv
<1>3. ~Gone /\ \A t \in Thread : pc[t] # "d_free"
  BY <1>2 DEF Gone, ModesOK, Destroying
<1>4. \A t \in Thread : s \in Holding(t) <=> Holds(t, s)
  BY <1>3 DEF Holding, Holds, Owning
<1>5. free \in Seq(Slot) /\ Distinct(free) /\ L \in Seq(Slot) /\ Distinct(L)
  BY <1>2, Loaded DEF NodesOK, Apart, IsList
<1> DEFINE H == {t \in Thread : s \in Holding(t)}
<1>6. Cardinality(H) = IF \E t \in Thread : Holds(t, s) THEN 1 ELSE 0
  <2>1. CASE \E t \in Thread : Holds(t, s)
    <3>1. PICK t \in Thread : Holds(t, s)
      BY <2>1
    <3>2. \A u \in Thread : Holds(u, s) => u = t
      BY <1>2, <3>1 DEF NodesOK, Apart
    <3>3. H = {t}
      BY <1>4, <3>1, <3>2
    <3> QED
      BY <2>1, <3>3, FS_Singleton
  <2>2. CASE ~\E t \in Thread : Holds(t, s)
    <3>1. H = {}
      BY <1>4, <2>2
    <3> QED
      BY <2>2, <3>1, FS_EmptySet
  <2> QED
    BY <2>1, <2>2
<1>7. Cardinality({i \in 1 .. Len(free) : free[i] = s}) = IF InSeq(s, free) THEN 1 ELSE 0
  BY <1>5, OccursOnce
<1>8. Cardinality({i \in 1 .. Len(Chain) : Chain[i] = s}) = IF InSeq(s, L) THEN 1 ELSE 0
  BY <1>1, <1>5, OccursOnce
<1>9. /\ InSeq(s, free) \/ InSeq(s, L) \/ \E t \in Thread : Holds(t, s)
      /\ InSeq(s, free) => ~InSeq(s, L)
      /\ (\E t \in Thread : Holds(t, s)) => ~InSeq(s, free) /\ ~InSeq(s, L)
  BY <1>2, <1>3 DEF NodesOK, Apart
<1> HIDE DEF H
<1>10. Occurrences(s) = (IF InSeq(s, free) THEN 1 ELSE 0) + (IF InSeq(s, L) THEN 1 ELSE 0)
                          + (IF \E t \in Thread : Holds(t, s) THEN 1 ELSE 0)
  BY <1>6, <1>7, <1>8 DEF Occurrences, H
<1> QED
  BY <1>9, <1>10

\* After destroy every slot is on the free list.
LEMMA DestroyReleasesAllNow == QueueInv => DestroyReleasesAll
<1> SUFFICES ASSUME QueueInv, mode = "closed" PROVE {free[i] : i \in 1 .. Len(free)} = Slot
  BY DEF DestroyReleasesAll
<1>1. PICK L : TypeInv /\ ModesOK /\ NodesOK(L)
  BY DEF QueueInv
<1>2. Gone /\ \A t \in Thread : pc[t] = "idle"
  BY <1>1 DEF Gone, ModesOK
<1>3. \A s \in Slot : InSeq(s, free)
  BY <1>1, <1>2 DEF NodesOK, Apart, Holds, Owning
<1>4. free \in Seq(Slot)
  BY <1>1, Loaded
<1>5. \A i \in 1 .. Len(free) : free[i] \in Slot
  BY <1>4
<1> QED
  BY <1>3, <1>5 DEF InSeq

\* For any number of threads of an undisturbed queue: the pop that moved head is the only
\* one to release the old dummy, and finds its generation unchanged (anam_release in
\* anam_queue_pop succeeds).
THEOREM QueueReleasesOnce == Spec /\ []Undisturbed => []ReleasesOnce
BY QueueInvariance, ReleasesOnceNow, PTL

\* For any number of threads of an undisturbed queue: no slot is lost and none is in two
\* places.
THEOREM QueueSlotsConserved == Spec /\ []Undisturbed => []SlotsConserved
BY QueueInvariance, SlotsConservedNow, PTL

\* For any number of threads of an undisturbed queue: anam_queue_destroy gives every node
\* back to the pool.
THEOREM QueueDestroyReleasesAll == Spec /\ []Undisturbed => []DestroyReleasesAll
BY QueueInvariance, DestroyReleasesAllNow, PTL

-----------------------------------------------------------------------------
(* One producer: tail does not fall behind head *)

OneProducer == \A p, q \in Producer : p = q

Pushing == Owning \cup Linked \cup {"p_alloc"}

\* Only producers push.
Pushers == \A t \in Thread : pc[t] \in Pushing => t \in Producer

\* tail names the last node, or the one before it while the push that linked the last
\* one has not moved tail yet.
TailAt(L) ==
  ~Gone => \/ tail = Here(L[Len(L)])
           \/ /\ Len(L) > 1 /\ tail = Here(L[Len(L) - 1])
              /\ \E p \in Thread : pc[p] \in Linked

\* What the push knows of tail and of its node.
PushOK(t, L) ==
  /\ pc[t] \in TailLoaded => loc[t].tail_h = tail
  /\ pc[t] \in {"p_check", "p_link"} => loc[t].next_h = ANAM_NULL
  /\ pc[t] # "p_help"
  /\ pc[t] \in Linked => loc[t].new_h = Here(L[Len(L)])
  /\ pc[t] = "p_swing" => loc[t].tail_h = tail \/ tail = Here(L[Len(L)])

\* The pop that is going to move head has seen that tail is not there.
Beyond(t) ==
  /\ pc[t] \in {"o_get", "o_next", "o_check"} /\ loc[t].head_h = head /\ loc[t].tail_h # head => tail # head
  /\ pc[t] \in {"o_getn", "o_read", "o_cas"} /\ loc[t].head_h = head => tail # head
  /\ pc[t] = "o_help" => loc[t].head_h = loc[t].tail_h

SingleOK(L) == Pushers /\ TailAt(L) /\ \A t \in Thread : PushOK(t, L) /\ Beyond(t)

\* At most one push is in progress.
LEMMA Alone ==
  ASSUME OneProducer, Pushers, NEW t \in Thread, NEW u \in Thread, pc[t] \in Pushing, pc[u] \in Pushing
  PROVE  t = u
BY DEF OneProducer, Pushers

\* No step takes a thread that is no producer into a push.
LEMMA PushersStep ==
  ASSUME TypeInv, Pushers, NEW t \in Thread, CallStep(t) \/ ClientStep(t)
  PROVE  Pushers'
<1>1. \A u \in Thread \ {t} : pc'[u] = pc[u]
  BY Flow
<1>2. pc'[t] \in Pushing => pc[t] \in Pushing \/ t \in Producer
  <2> USE DEF Row, Same, Clear, Restart, Pushing, Owning, Linked
  <2>1. CASE PushStep(t) \/ PushCall(t)
    BY <2>1, PushRows DEF PushStep, PushCall
  <2>2. CASE PopStep(t) \/ PopCall(t)
    BY <2>2, PopRows DEF PopStep
  <2>3. CASE PeekStep(t) \/ PeekCall(t)
    BY <2>3, OtherRows DEF PeekStep, PeekReturn, EmptyReturn
  <2>4. CASE DestroyStep(t) \/ Destroy(t)
    BY <2>4, OtherRows DEF DestroyStep
  <2> QED
    BY <2>1, <2>2, <2>3, <2>4 DEF CallStep, ClientStep
<1> QED
  BY <1>1, <1>2 DEF Pushers

\* The first, the last and the last but one node of a list.
LEMMA Ends ==
  ASSUME TypeInv, ModesOK, NEW L, NodesOK(L), ~Gone
  PROVE  /\ L[1] \in Slot /\ L[Len(L)] \in Slot /\ head = Here(L[1]) /\ Len(L) \in Nat \ {0}
         /\ node_next[L[Len(L)]] = ANAM_NULL
         /\ Len(L) > 1 => /\ L[Len(L) - 1] \in Slot /\ L[Len(L)] # L[1] /\ L[Len(L) - 1] # L[Len(L)]
                          /\ L[Len(L) - 1] = L[1] => Len(L) = 2
         /\ \A s \in Slot : /\ Here(s) # ANAM_NULL /\ Here(s).slot = s /\ Here(s).gen = generation[s]
                            /\ \A x \in Slot : Here(s) = Here(x) => s = x
<1>1. PICK n \in Nat : n = Len(L) /\ n # 0
  BY ListFacts DEF NodesOK
<1>2. n \in 1 .. n /\ 1 \in 1 .. n /\ (n > 1 => n - 1 \in 1 .. n /\ n - 1 # n)
  BY <1>1
<1>3. \A i \in 1 .. n : L[i] \in Slot
  BY <1>1, ListFacts DEF NodesOK
<1>4. \A i, j \in 1 .. n : L[i] = L[j] => i = j
  BY <1>1, ListFacts DEF NodesOK
<1>5. n > 1 => L[n - 1] \in Slot /\ L[n] # L[1] /\ L[n - 1] # L[n] /\ (L[n - 1] = L[1] => n = 2)
  <2>1. n > 1 => L[n - 1] \in Slot
    BY <1>2, <1>3
  <2>2. n > 1 => L[n] # L[1] /\ L[n - 1] # L[n]
    BY <1>2, <1>4
  <2>3. n > 1 /\ L[n - 1] = L[1] => n - 1 = 1
    BY <1>2, <1>4
  <2> QED
    BY <2>1, <2>2, <2>3
<1>6. head = Here(L[1]) /\ node_next[L[n]] = ANAM_NULL
  BY <1>1, <1>2, ListFacts DEF NodesOK
<1>7. \A s \in Slot : /\ Here(s) # ANAM_NULL /\ Here(s).slot = s /\ Here(s).gen = generation[s]
                      /\ \A x \in Slot : Here(s) = Here(x) => s = x
  BY Loaded, HandleFields DEF Here
<1> QED
  BY <1>1, <1>2, <1>3, <1>5, <1>6, <1>7

\* tail names a node of the list by its present generation.
LEMMA TailLive ==
  ASSUME TypeInv, ModesOK, NEW L, NodesOK(L), ~Gone, TailAt(L)
  PROVE  /\ tail = Here(tail.slot) /\ tail.slot \in Slot /\ InSeq(tail.slot, L)
         /\ Valid(tail) /\ ~Unlinked(tail.slot)
<1>1. PICK n \in Nat : n = Len(L) /\ n # 0
  BY Ends
<1>2. n \in 1 .. n /\ (n > 1 => n - 1 \in 1 .. n)
  BY <1>1
<1>3. PICK i \in 1 .. n : tail = Here(L[i]) /\ L[i] \in Slot
  BY <1>1, <1>2, Ends DEF TailAt
<1>4. PICK s \in Slot : s = L[i] /\ tail = Here(s) /\ tail.slot = s /\ tail # ANAM_NULL /\ tail.gen = generation[s]
  BY <1>3, Ends
<1>5. InSeq(s, L)
  BY <1>1, <1>4 DEF InSeq
<1>6. ~Unlinked(s)
  <2>1. \A v \in Thread : ~Holds(v, s)
    BY <1>5 DEF NodesOK, Apart
  <2> QED
    BY <2>1 DEF Unlinked, Holds
<1> QED
  BY <1>4, <1>5, <1>6 DEF Valid

\* A push that has not linked its node has the last node in tail.
LEMMA TailLast ==
  ASSUME OneProducer, Pushers, NEW L, TailAt(L), ~Gone, NEW t \in Thread, pc[t] \in Owning
  PROVE  tail = Here(L[Len(L)])
<1>1. ASSUME NEW p \in Thread, pc[p] \in Linked PROVE FALSE
  <2>1. p = t
    BY <1>1, Alone DEF Pushing
  <2> QED
    BY <1>1, <2>1 DEF Owning, Linked
<1> QED
  BY <1>1 DEF TailAt

\* What the only producer has loaded from tail is the last node of the list.
LEMMA SingleLinks ==
  ASSUME OneProducer, TypeInv, ModesOK, NEW L, NodesOK(L), SingleOK(L)
  PROVE  LinkNeverStale
<1> SUFFICES ASSUME NEW t \in Thread, pc[t] = "p_link" PROVE Valid(loc[t].tail_h)
  BY DEF LinkNeverStale
<1>1. loc[t].tail_h = tail /\ ~Gone
  BY Present DEF SingleOK, PushOK, TailLoaded
<1> QED
  BY <1>1, TailLive DEF SingleOK

\* The nodes of the list keep their generations.
LEMMA HereKept ==
  ASSUME TypeInv, ModesOK, NEW L, NodesOK(L), NEW t \in Thread, CallStep(t) \/ ClientStep(t), ~Gone'
  PROVE  ~Gone /\ \A s \in Slot : InSeq(s, L) => Here(s)' = Here(s)
<1>1. ~Gone /\ ~DestroyRelease(t)
  BY GoneKept
<1>2. CASE PopEndGeneration(t)
  <2>1. PICK x \in Slot : x = loc[t].head_h.slot /\ Holds(t, x)
    BY <1>2, AtWork DEF Holds, PopEndGeneration, EndGeneration, Goto
  <2>2. ~InSeq(x, L)
    BY <1>1, <2>1 DEF NodesOK, Apart
  <2>3. generation \in [Slot -> 0 .. GenMod - 1]
    BY Loaded
  <2>4. generation' = generation \/ generation' = [generation EXCEPT ![x] = (@ + 1) % GenMod]
    BY <1>2, <2>1 DEF PopEndGeneration, EndGeneration, SP!EndGeneration, pool
  <2>5. \A s \in Slot : s # x => generation'[s] = generation[s]
    BY <2>3, <2>4
  <2> QED
    BY <1>1, <2>2, <2>5 DEF Here
<1>3. CASE ~PopEndGeneration(t)
  <2>1. generation' = generation
    BY <1>1, <1>3, Effects DEF memory, PushAlloc, PushInit, PushLink, PopUnlink, PopFree, DestroyFree, PushFree,
                               SP!Take, SP!GiveBack, pool
  <2> QED
    BY <1>1, <2>1 DEF Here
<1> QED
  BY <1>2, <1>3

\* A pop helps tail only from the dummy to the node after it.
LEMMA HelpFacts ==
  ASSUME TypeInv, ModesOK, NEW L, NodesOK(L), Refs, SingleOK(L), NEW t \in Thread, Pops(t), PopHelp(t)
  PROVE  ~Gone /\ Len(L) = 2 /\ tail = Here(L[1]) /\ tail' = Here(L[2])
<1>1. pc[t] = "o_help" /\ tail = loc[t].tail_h /\ tail' = loc[t].next_h /\ loc[t].head_h = tail
  BY DEF PopHelp, Help, Goto, SingleOK, Beyond
<1>2. ~Gone /\ TailAt(L)
  BY <1>1, Present DEF SingleOK
<1>3. PICK s \in Slot : s = tail.slot /\ tail = Here(s) /\ InSeq(s, L) /\ ~Unlinked(s)
  BY <1>2, TailLive
<1>4. tail # ANAM_NULL /\ tail.gen = generation[s]
  BY <1>2, <1>3, Ends
<1>5. s = head.slot
  BY <1>1, <1>3, <1>4 DEF Refs, LocRefs, Past
<1>6. tail = head /\ tail = Here(L[1]) /\ head.slot = L[1]
  BY <1>2, <1>3, <1>5, Ends
<1>7. loc[t].next_h = node_next[head.slot] /\ loc[t].next_h # ANAM_NULL
  BY <1>1, <1>6, Live, HandleFields DEF Pops, AtHead, NextLive
<1>8. Len(L) # 1 /\ node_next[L[1]] = Here(L[2])
  BY <1>6, <1>7, FirstLink DEF NodesOK
<1>9. PICK n \in Nat : n = Len(L) /\ n # 0
  BY <1>2, Ends
<1>10. n > 1
  BY <1>8, <1>9
<1>11. tail # Here(L[n])
  BY <1>2, <1>6, <1>9, <1>10, Ends
<1>12. tail = Here(L[n - 1])
  BY <1>2, <1>9, <1>11 DEF TailAt
<1>13. L[n - 1] = L[1]
  BY <1>2, <1>6, <1>9, <1>10, <1>12, Ends
<1>14. n = 2
  BY <1>2, <1>9, <1>10, <1>13, Ends
<1> QED
  BY <1>1, <1>2, <1>6, <1>7, <1>8, <1>9, <1>14

\* tail moves only from the last but one node to the last.
LEMMA TailMoves ==
  ASSUME TypeInv, ModesOK, NEW L, NodesOK(L), Refs, SingleOK(L), NEW t \in Thread, Pops(t),
         CallStep(t) \/ ClientStep(t)
  PROVE  /\ \/ tail' = tail
            \/ /\ ~Gone /\ Len(L) > 1 /\ tail = Here(L[Len(L) - 1]) /\ tail' = Here(L[Len(L)])
               /\ PushSwing(t) \/ PopHelp(t)
         /\ PushSwing(t) => tail' = Here(L[Len(L)])
<1>1. PushSwing(t) => ~Gone /\ tail' = Here(L[Len(L)])
  <2> SUFFICES ASSUME PushSwing(t) PROVE ~Gone /\ tail' = Here(L[Len(L)])
    OBVIOUS
  <2>1. pc[t] = "p_swing" /\ tail' = IF tail = loc[t].tail_h THEN loc[t].new_h ELSE tail
    BY DEF PushSwing, Goto
  <2> QED
    BY <2>1, Present DEF SingleOK, PushOK, Linked
<1>2. PopHelp(t) => ~Gone /\ Len(L) > 1 /\ tail = Here(L[Len(L) - 1]) /\ tail' = Here(L[Len(L)])
  <2> SUFFICES ASSUME PopHelp(t)
               PROVE  ~Gone /\ Len(L) > 1 /\ tail = Here(L[Len(L) - 1]) /\ tail' = Here(L[Len(L)])
    OBVIOUS
  <2>1. ~Gone /\ Len(L) = 2 /\ tail = Here(L[1]) /\ tail' = Here(L[2])
    BY HelpFacts
  <2>2. Len(L) - 1 = 1 /\ Len(L) > 1
    BY <2>1
  <2> QED
    BY <2>1, <2>2
<1>3. PushSwing(t) => tail' = tail \/ (Len(L) > 1 /\ tail = Here(L[Len(L) - 1]))
  BY <1>1 DEF SingleOK, TailAt
<1>4. ~PushHelp(t)
  BY DEF PushHelp, Help, Goto, SingleOK, PushOK
<1> QED
  BY <1>1, <1>2, <1>3, <1>4, Effects

\* The ends of a list after a push or a pop.
LEMMA GrownEnds ==
  ASSUME NEW L, IsList(L), NEW s \in Slot, ~InSeq(s, L), NEW M, Grown(M, L, s)
  PROVE  Len(M) > 1 /\ M[Len(M)] = s /\ M[Len(M) - 1] = L[Len(L)]
<1>1. PICK n \in Nat : n = Len(L) /\ n # 0 /\ L \in Seq(Slot) /\ Distinct(L)
  BY DEF IsList
<1>2. Len(M) = n + 1 /\ M[Len(M)] = s /\ \A i \in 1 .. n : M[i] = L[i]
  BY <1>1, AppendFacts
<1>3. n + 1 > 1 /\ (n + 1) - 1 = n /\ n \in 1 .. n
  BY <1>1
<1> QED
  BY <1>1, <1>2, <1>3

\* A list loses its first node and keeps its last.
LEMMA ShrunkEnds ==
  ASSUME NEW L, IsList(L), Len(L) > 1, NEW M, Shrunk(M, L)
  PROVE  /\ M[Len(M)] = L[Len(L)] /\ InSeq(L[Len(L)], L)
         /\ Len(L) # 2 => Len(M) > 1 /\ M[Len(M) - 1] = L[Len(L) - 1] /\ InSeq(L[Len(L) - 1], L)
<1>1. PICK n \in Nat : n = Len(L) /\ n > 1 /\ L \in Seq(Slot) /\ Distinct(L) /\ Len(L) # 0
  BY DEF IsList
<1>2. Len(M) = n - 1 /\ \A i \in 1 .. Len(M) : M[i] = L[i + 1]
  BY <1>1, TailFacts
<1>3. PICK m \in Nat : m = n - 1 /\ m # 0
  BY <1>1
<1>4. m \in 1 .. m /\ m + 1 = n /\ (n # 2 => m > 1 /\ m - 1 \in 1 .. m /\ (m - 1) + 1 = n - 1)
  BY <1>1, <1>3
<1>5. n \in 1 .. n /\ n - 1 \in 1 .. n
  BY <1>1
<1>6. Len(M) = m /\ \A i \in 1 .. m : M[i] = L[i + 1]
  BY <1>2, <1>3
<1>7. M[m] = L[n] /\ (n # 2 => M[m - 1] = L[n - 1])
  BY <1>4, <1>6
<1>8. InSeq(L[n], L) /\ InSeq(L[n - 1], L)
  BY <1>1, <1>5 DEF InSeq
<1> QED
  BY <1>1, <1>4, <1>6, <1>7, <1>8

\* How the list changes in one step.
ListStep(t, L, M) ==
  IF PushLink(t) THEN Grown(M, L, loc[t].new_h.slot)
  ELSE IF PopUnlink(t) THEN Shrunk(M, L) ELSE M = L

\* The last node stays the last unless a push links another one to it.
LEMMA LastKept ==
  ASSUME TypeInv, ModesOK, NEW L, NodesOK(L), NEW M, NEW t \in Thread, CallStep(t) \/ ClientStep(t),
         Sound(t, L), ListStep(t, L, M), ~Gone', ~PushLink(t)
  PROVE  Here(L[Len(L)])' = Here(L[Len(L)]) /\ M[Len(M)] = L[Len(L)]
<1>1. ~Gone
  BY HereKept
<1>2. Here(L[Len(L)])' = Here(L[Len(L)])
  BY <1>1, HereKept, LastNode DEF NodesOK
<1>3. CASE PopUnlink(t)
  <2>1. Len(L) > 1
    <3>1. CallStep(t)
      BY <1>3 DEF CallStep, PopStep
    <3>2. Shrunk(M, L) /\ loc[t].next_h = node_next[head.slot]
      BY <1>3 DEF ListStep, Sound
    <3> QED
      BY <1>3, <3>1, <3>2, NodesUnlink
  <2> QED
    BY <1>2, <1>3, <2>1, ShrunkEnds DEF ListStep, NodesOK
<1>4. CASE ~PopUnlink(t)
  BY <1>2, <1>4 DEF ListStep
<1> QED
  BY <1>3, <1>4

\* Every step keeps tail at the last node or at the one before it.
LEMMA TailAtStep ==
  ASSUME OneProducer, TypeInv, ModesOK, NEW L, NodesOK(L), Refs, SingleOK(L), NEW M, NodesOK(M)',
         NEW t \in Thread, Pops(t), CallStep(t) \/ ClientStep(t), Sound(t, L), ListStep(t, L, M)
  PROVE  TailAt(M)'
<1> SUFFICES ASSUME ~Gone'
             PROVE  \/ tail' = Here(M[Len(M)])'
                    \/ /\ Len(M) > 1 /\ tail' = Here(M[Len(M) - 1])'
                       /\ \E p \in Thread : pc'[p] \in Linked
  BY DEF TailAt
<1>1. ~Gone /\ \A s \in Slot : InSeq(s, L) => Here(s)' = Here(s)
  BY HereKept
<1>2. \A u \in Thread \ {t} : pc'[u] = pc[u]
  BY Flow
<1>3. CASE PushLink(t)
  <2>1. pc[t] = "p_link" /\ pc'[t] = "p_last" /\ tail' = tail
    BY <1>3, PushRows DEF Row, PushLink, ends
  <2>2. tail = Here(L[Len(L)])
    BY <1>1, <2>1, TailLast DEF SingleOK, Owning
  <2>3. Here(L[Len(L)])' = Here(L[Len(L)])
    BY <1>1, LastNode DEF NodesOK
  <2>4. loc[t].new_h.slot \in Slot /\ ~InSeq(loc[t].new_h.slot, L)
    <3>1. loc[t].new_h.slot \in Slot /\ Holds(t, loc[t].new_h.slot)
      BY <2>1, Live DEF Holds, Owning
    <3> QED
      BY <1>1, <3>1 DEF NodesOK, Apart
  <2>5. Len(M) > 1 /\ M[Len(M) - 1] = L[Len(L)]
    BY <1>3, <2>4, GrownEnds DEF ListStep, NodesOK
  <2> QED
    BY <2>1, <2>2, <2>3, <2>5 DEF Linked
<1>4. CASE PopUnlink(t)
  <2>1. pc[t] = "o_cas" /\ tail' = tail /\ loc[t].head_h = head /\ ~PushLink(t)
    BY <1>4 DEF PopUnlink, Goto, PushLink
  <2>2. tail # head
    BY <2>1 DEF SingleOK, Beyond
  <2>3. CASE tail = Here(L[Len(L)])
    BY <1>1, <2>1, <2>3, LastKept
  <2>4. CASE /\ Len(L) > 1 /\ tail = Here(L[Len(L) - 1])
             /\ \E p \in Thread : pc[p] \in Linked
    <3>1. Len(L) # 2
      <4>1. Len(L) = 2 => Len(L) - 1 = 1
        OBVIOUS
      <4> QED
        BY <1>1, <2>2, <2>4, <4>1, Ends
    <3>2. Len(M) > 1 /\ M[Len(M) - 1] = L[Len(L) - 1] /\ InSeq(L[Len(L) - 1], L)
      BY <1>4, <2>1, <2>4, <3>1, ShrunkEnds DEF ListStep, NodesOK
    <3>3. L[Len(L) - 1] \in Slot
      BY <1>1, <2>4, Ends
    <3>4. Here(L[Len(L) - 1])' = Here(L[Len(L) - 1])
      BY <1>1, <3>2, <3>3
    <3>5. \E p \in Thread : pc'[p] \in Linked
      BY <1>2, <2>1, <2>4 DEF Linked
    <3> QED
      BY <2>1, <2>4, <3>2, <3>4, <3>5
  <2> QED
    BY <1>1, <2>3, <2>4 DEF SingleOK, TailAt
<1>5. CASE ~PushLink(t) /\ ~PopUnlink(t)
  <2>1. M = L /\ Here(L[Len(L)])' = Here(L[Len(L)])
    BY <1>5, LastKept DEF ListStep
  <2>2. CASE tail' = Here(L[Len(L)])
    BY <2>1, <2>2
  <2>3. CASE tail' # Here(L[Len(L)])
    <3>1. tail' = tail /\ ~PushSwing(t)
      BY <2>3, TailMoves
    <3>2. PICK p \in Thread : Len(L) > 1 /\ tail = Here(L[Len(L) - 1]) /\ pc[p] \in Linked
      BY <1>1, <2>3, <3>1 DEF SingleOK, TailAt
    <3>3. pc'[p] \in Linked
      <4>1. pc[t] \in Linked => pc'[t] \in Linked
        BY <3>1, Turn, PushRows DEF Row, Linked
      <4> QED
        BY <1>2, <3>2, <4>1
    <3>4. L[Len(L) - 1] \in Slot /\ InSeq(L[Len(L) - 1], L)
      <4>1. PICK n \in Nat : n = Len(L) /\ n > 1
        BY <1>1, <3>2, Ends
      <4>2. n - 1 \in 1 .. n
        BY <4>1
      <4> QED
        BY <1>1, <3>2, <4>1, <4>2, Ends DEF InSeq
    <3> QED
      BY <1>1, <2>1, <3>1, <3>2, <3>3, <3>4
  <2> QED
    BY <2>2, <2>3
<1> QED
  BY <1>3, <1>4, <1>5

\* What the producer knows of tail stays true under the steps of the consumers.
LEMMA PushOKOthers ==
  ASSUME OneProducer, TypeInv, ModesOK, NEW L, NodesOK(L), Refs, SingleOK(L), NEW M,
         NEW t \in Thread, Pops(t), CallStep(t) \/ ClientStep(t), Sound(t, L), ListStep(t, L, M),
         NEW u \in Thread \ {t}
  PROVE  PushOK(u, M)'
<1>1. pc'[u] = pc[u] /\ loc'[u] = loc[u] /\ PushOK(u, L)
  BY Flow DEF SingleOK
<1>2. pc[u] \in TailLoaded => tail' = tail
  <2> SUFFICES ASSUME pc[u] \in TailLoaded, tail' # tail PROVE FALSE
    OBVIOUS
  <2>1. ~Gone /\ pc[u] \in Owning
    BY Present DEF TailLoaded, Owning
  <2>2. tail = Here(L[Len(L)])
    BY <2>1, TailLast DEF SingleOK
  <2>3. Len(L) > 1 /\ tail = Here(L[Len(L) - 1])
    BY TailMoves
  <2>4. PICK x \in Slot, y \in Slot : x = L[Len(L)] /\ y = L[Len(L) - 1] /\ x # y
    BY <2>1, <2>3, Ends
  <2>5. Here(x) = Here(y)
    BY <2>2, <2>3, <2>4
  <2> QED
    BY <2>1, <2>4, <2>5, Ends
<1>3. pc[u] \in Linked => Here(L[Len(L)])' = Here(L[Len(L)]) /\ M[Len(M)] = L[Len(L)]
  <2> SUFFICES ASSUME pc[u] \in Linked PROVE Here(L[Len(L)])' = Here(L[Len(L)]) /\ M[Len(M)] = L[Len(L)]
    OBVIOUS
  <2>1. ~PushLink(t)
    BY Alone, PushRows DEF Row, Pushing, Owning, SingleOK
  <2>2. ~Gone
    BY Present DEF Linked
  <2>3. ~DestroyRelease(t)
    BY OtherRows DEF Same, Row, ModesOK, Destroying, Linked
  <2>4. ~Gone'
    BY <2>2, <2>3, GoneKept
  <2> QED
    BY <2>1, <2>4, LastKept
<1>4. tail' = tail \/ tail' = Here(L[Len(L)])
  BY TailMoves
<1> QED
  BY <1>1, <1>2, <1>3, <1>4 DEF PushOK, Linked

\* What the producer reads of tail is true when it reads it.
LEMMA PushOKOwn ==
  ASSUME OneProducer, TypeInv, ModesOK, NEW L, NodesOK(L), Refs, SingleOK(L), NEW M,
         NEW t \in Thread, Pops(t), CallStep(t) \/ ClientStep(t), Sound(t, L), ListStep(t, L, M)
  PROVE  PushOK(t, M)'
<1>0. PushOK(t, L)
  BY DEF SingleOK
<1> USE DEF Row, Same, TailLoaded, Linked
<1>1. CASE PushLoadTail(t) \/ PushGetTail(t)
  <2>1. tail' = tail
    BY <1>1 DEF PushLoadTail, PushGetTail, shared, ends
  <2>2. pc'[t] \in {"p_get", "p_next"} /\ loc'[t].tail_h = tail
    BY <1>0, <1>1, PushRows DEF PushOK
  <2> QED
    BY <2>1, <2>2 DEF PushOK
<1>2. CASE PushLoadNext(t)
  <2>1. tail' = tail
    BY <1>2 DEF PushLoadNext, shared, ends
  <2>2. /\ pc[t] = "p_next" /\ pc'[t] = "p_check" /\ loc'[t].tail_h = tail
        /\ loc'[t].next_h = node_next[tail.slot]
    BY <1>0, <1>2, PushRows DEF PushOK
  <2>3. ~Gone
    BY <2>2, Present
  <2>4. tail = Here(L[Len(L)])
    BY <2>2, <2>3, TailLast DEF SingleOK, Owning
  <2>5. node_next[tail.slot] = ANAM_NULL
    BY <2>3, <2>4, Ends
  <2> QED
    BY <2>1, <2>2, <2>5 DEF PushOK
<1>3. CASE PushCheckTail(t)
  <2>1. tail' = tail
    BY <1>3 DEF PushCheckTail, shared, ends
  <2>2. pc'[t] = "p_link" /\ loc'[t].tail_h = tail /\ loc'[t].next_h = ANAM_NULL
    BY <1>0, <1>3, PushRows DEF PushOK
  <2> QED
    BY <2>1, <2>2 DEF PushOK
<1>4. CASE PushLink(t)
  <2>1. pc[t] = "p_link" /\ pc'[t] = "p_last" /\ loc'[t].new_h = loc[t].new_h /\ generation' = generation
    BY <1>4, PushRows DEF PushLink, pool
  <2>2. PICK s \in Slot : s = loc[t].new_h.slot
    BY <2>1, Live DEF Owning
  <2>3. Holds(t, s) /\ ~Gone /\ loc[t].new_h = Here(s)
    BY <2>1, <2>2, Present DEF Holds, Owning, NodesOK, HandOK
  <2>4. ~InSeq(s, L)
    BY <2>3 DEF NodesOK, Apart
  <2>5. M[Len(M)] = s
    BY <1>4, <2>2, <2>4, GrownEnds DEF ListStep, NodesOK
  <2>6. Here(s)' = Here(s)
    BY <2>1 DEF Here
  <2> QED
    BY <2>1, <2>3, <2>5, <2>6 DEF PushOK
<1>5. CASE PushLoadLast(t)
  <2>1. /\ pc[t] = "p_last" /\ pc'[t] = "p_swing" /\ loc'[t].new_h = loc[t].new_h /\ loc'[t].tail_h = tail
        /\ tail' = tail /\ generation' = generation
    BY <1>5, PushRows DEF PushLoadLast, shared, ends, pool
  <2>2. M = L
    BY <2>1, PushRows, PopRows DEF ListStep
  <2>3. \A s : Here(s)' = Here(s)
    BY <2>1 DEF Here
  <2> QED
    BY <1>0, <2>1, <2>2, <2>3 DEF PushOK
<1>6. CASE pc'[t] \notin TailLoaded \cup Linked
  BY <1>6 DEF PushOK
<1> QED
  BY <1>1, <1>2, <1>3, <1>4, <1>5, <1>6, Into

\* No pop is about to move head past tail.
LEMMA BeyondStep ==
  ASSUME TypeInv, ModesOK, NEW L, NodesOK(L), Refs, SingleOK(L),
         NEW t \in Thread, Pops(t), CallStep(t) \/ ClientStep(t), Sound(t, L), NEW u \in Thread
  PROVE  Beyond(u)'
<1>0. Beyond(u)
  BY DEF SingleOK
<1>1. CASE u # t
  <2>1. pc'[u] = pc[u] /\ loc'[u] = loc[u]
    BY <1>1, Flow
  <2>2. head' = head \/ loc[u].head_h # head'
    BY MemoryStep, NoReturn
  <2>3. tail # head => tail' # head
    BY TailMoves, Ends
  <2> QED
    BY <1>0, <2>1, <2>2, <2>3 DEF Beyond
<1>2. CASE u = t
  <2> USE DEF Row, Same
  <2>1. CASE PopLoadTail(t) \/ PopGetHead(t) \/ PopLoadNext(t) \/ PopCheckHead(t) \/ PopGetNext(t) \/ PopRead(t)
    <3>1. head' = head /\ tail' = tail
      BY <2>1 DEF PopLoadTail, PopGetHead, PopLoadNext, PopCheckHead, PopGetNext, PopRead, GetHead, LoadNext,
                  GetNext, shared, ends
    <3>2. PopCheckHead(t) => loc[t].head_h = head
      BY DEF PopCheckHead
    <3> QED
      BY <1>0, <1>2, <2>1, <3>1, <3>2, PopRows DEF Beyond
  <2>2. CASE ~(PopLoadTail(t) \/ PopGetHead(t) \/ PopLoadNext(t) \/ PopCheckHead(t) \/ PopGetNext(t) \/ PopRead(t))
    BY <1>2, <2>2, Into DEF Beyond
  <2> QED
    BY <2>1, <2>2
<1> QED
  BY <1>1, <1>2

SingleInv == QueueInv /\ SingleOK(Chain)

\* A new queue satisfies the invariant of one producer.
LEMMA SingleInit == Init => SingleInv
<1> SUFFICES ASSUME Init PROVE SingleInv
  OBVIOUS
<1>1. QueueInv /\ TypeInv
  BY QueueInit DEF QueueInv
<1>2. PICK L : L = Chain /\ L = <<0>>
  BY NodesBegin
<1>3. Len(L) = 1 /\ IsList(L)
  BY <1>1, <1>2 DEF QueueInv, NodesOK
<1>4. (\A t \in Thread : pc[t] = "idle") /\ tail = head /\ mode = "open"
  BY DEF Init
<1>5. ~Gone
  BY <1>4 DEF Gone
<1>6. tail = Here(L[Len(L)])
  BY <1>3, <1>4, <1>5, ListFacts
<1>7. SingleOK(L)
  BY <1>4, <1>6 DEF SingleOK, Pushers, TailAt, PushOK, Beyond, Pushing, Owning, Linked, TailLoaded
<1> QED
  BY <1>1, <1>2, <1>7 DEF SingleInv

\* It discharges the assumption that no link is stale.
LEMMA SingleUndisturbed ==
  ASSUME OneProducer
  PROVE  SingleInv /\ NoWrap => Undisturbed
<1>1. PICK L : L = Chain
  OBVIOUS
<1> QED
  BY <1>1, SingleLinks DEF SingleInv, QueueInv, Undisturbed

\* Every step keeps it.
LEMMA SingleStep ==
  ASSUME OneProducer, SingleInv, NoWrap, NEW t \in Thread, CallStep(t) \/ ClientStep(t), Watch
  PROVE  SingleInv'
<1>1. Undisturbed
  BY SingleUndisturbed
<1>2. /\ QueueInv' /\ Sound(t, Chain)
      /\ IF PushLink(t) THEN Grown(Chain', Chain, loc[t].new_h.slot)
         ELSE IF PopUnlink(t) THEN Shrunk(Chain', Chain) ELSE Chain' = Chain
  BY <1>1, QueueStep DEF SingleInv
<1>3. PICK L, M : L = Chain /\ M = Chain'
  OBVIOUS
<1>4. ListStep(t, L, M) /\ Sound(t, L) /\ SingleOK(L) /\ NodesOK(L)
  BY <1>2, <1>3 DEF ListStep, SingleInv, QueueInv
<1>5. TypeInv /\ ModesOK /\ Refs /\ Pops(t)
  BY DEF SingleInv, QueueInv
<1>6. NodesOK(M)'
  BY <1>2, <1>3 DEF QueueInv
<1>7. TailAt(M)'
  BY <1>4, <1>5, <1>6, TailAtStep
<1>8. Pushers'
  BY <1>4, <1>5, PushersStep DEF SingleOK
<1>9. \A u \in Thread : PushOK(u, M)'
  BY <1>4, <1>5, PushOKOwn, PushOKOthers
<1>10. \A u \in Thread : Beyond(u)'
  BY <1>4, <1>5, BeyondStep
<1>11. SingleOK(M)'
  BY <1>7, <1>8, <1>9, <1>10 DEF SingleOK
<1> QED
  BY <1>2, <1>3, <1>11 DEF SingleInv

\* A step that changes nothing keeps it.
LEMMA SingleStutter == SingleInv /\ UNCHANGED vars => SingleInv'
<1> SUFFICES ASSUME SingleInv, UNCHANGED vars PROVE SingleInv'
  OBVIOUS
<1>1. head' = head /\ tail' = tail /\ generation' = generation /\ node_next' = node_next
      /\ pc' = pc /\ loc' = loc /\ mode' = mode
  BY DEF vars, shared, ends, pool, nodes, client
<1>2. QueueInv'
  BY QueueStutter DEF SingleInv
<1>3. PICK L : L = Chain
  OBVIOUS
<1>4. Chain' = L
  BY <1>1, <1>3, ChainIs
<1>5. \A s : Here(s)' = Here(s)
  BY <1>1 DEF Here
<1>6. SingleOK(L)
  BY <1>3 DEF SingleInv
<1>7. TailAt(L)'
  BY <1>1, <1>5, <1>6 DEF SingleOK, TailAt, Gone
<1>8. \A t \in Thread : PushOK(t, L)' /\ Beyond(t)'
  BY <1>1, <1>5, <1>6 DEF SingleOK, PushOK, Beyond
<1>9. SingleOK(L)'
  BY <1>1, <1>6, <1>7, <1>8 DEF SingleOK, Pushers
<1> QED
  BY <1>2, <1>4, <1>9 DEF SingleInv

\* With one producer tail stays at the end of the list.
LEMMA SingleInvariance ==
  ASSUME OneProducer
  PROVE  Spec /\ []NoWrap => []SingleInv
<1>1. SingleInv /\ NoWrap /\ [Next]_vars => SingleInv'
  BY SingleStep, SingleStutter DEF Next
<1> QED
  BY <1>1, SingleInit, PTL DEF Spec

\* With one producer and any number of consumers and observers, as long as no generation
\* wraps: the link CAS of push, which compares with ANAM_NULL and so with no generation,
\* never links a node to a slot that has been reused.
THEOREM OneProducerLinksSafely ==
  ASSUME OneProducer
  PROVE  Spec /\ []NoWrap => []LinkNeverStale
<1>1. SingleInv /\ NoWrap => LinkNeverStale
  BY SingleUndisturbed DEF Undisturbed
<1> QED
  BY <1>1, SingleInvariance, PTL

\* So tail is a node of the list.
LEMMA TailInListNow ==  SingleInv => TailInList
<1> SUFFICES ASSUME SingleInv, mode = "open"
             PROVE  Valid(tail) /\ tail.slot \in {Chain[i] : i \in 1 .. Len(Chain)}
  BY DEF TailInList
<1>1. PICK L : L = Chain
  OBVIOUS
<1>2. TypeInv /\ ModesOK /\ NodesOK(L) /\ TailAt(L)
  BY <1>1 DEF SingleInv, QueueInv, SingleOK
<1>3. ~Gone
  BY <1>2 DEF Gone, ModesOK, Destroying
<1>4. Valid(tail) /\ InSeq(tail.slot, L)
  BY <1>2, <1>3, TailLive
<1> QED
  BY <1>1, <1>4 DEF InSeq

\* With one producer: tail always names a node of the list by its present generation, so
\* a push always finds a node to link to.
THEOREM OneProducerTailInList ==
  ASSUME OneProducer
  PROVE  Spec /\ []NoWrap => []TailInList
BY SingleInvariance, TailInListNow, PTL

-----------------------------------------------------------------------------
(* The counters: q->length, push_count and pop_count *)

One(b) == IF b THEN 1 ELSE 0

\* A step moves one call: a set of labels loses the label it leaves and wins the
\* label it reaches.
LEMMA AtMoves ==
  ASSUME IsFiniteSet(Thread), NEW t \in Thread, NEW S, \A u \in Thread \ {t} : pc'[u] = pc[u]
  PROVE  /\ At(S) \in Nat /\ At(S)' \in Nat
         /\ At(S)' = At(S) + One(pc'[t] \in S) - One(pc[t] \in S)
<1> DEFINE A == {u \in Thread : pc[u] \in S}
           B == {u \in Thread : pc'[u] \in S}
           R == {u \in Thread \ {t} : pc[u] \in S}
<1>1. IsFiniteSet(R)
  <2>1. R \subseteq Thread
    OBVIOUS
  <2> QED
    BY <2>1, FS_Subset
<1>2. t \notin R /\ A = IF pc[t] \in S THEN R \cup {t} ELSE R
  OBVIOUS
<1>3. B = IF pc'[t] \in S THEN R \cup {t} ELSE R
  OBVIOUS
<1> HIDE DEF A, B, R
<1>4. Cardinality(R) \in Nat /\ Cardinality(R \cup {t}) = Cardinality(R) + 1
  BY <1>1, <1>2, FS_CardinalityType, FS_AddElement
<1>5. At(S) = Cardinality(A) /\ At(S)' = Cardinality(B)
  BY DEF At, A, B
<1> QED
  BY <1>2, <1>3, <1>4, <1>5 DEF One

\* The number of calls at some labels is a number.
LEMMA AtType ==
  ASSUME IsFiniteSet(Thread), NEW S
  PROVE  At(S) \in Nat
<1>1. IsFiniteSet({t \in Thread : pc[t] \in S})
  BY FS_Subset
<1> QED
  BY <1>1, FS_CardinalityType DEF At

LinkedCalls == {"p_last", "p_swing", "p_length"}
UnlinkedCalls == {"o_end", "o_free", "o_length"}

\* A C counter of m values differs from the number it stands for by a multiple of m.
LEMMA Wraps ==
  ASSUME NEW m \in Nat \ {0}, NEW x \in Int, NEW d \in Int, NEW z, z = (x + d) % m
  PROVE  \E w \in Int : Multiple(w, m) /\ z = x + d - w
<1>0. PICK y \in Int : y = x + d /\ z = y % m
  OBVIOUS
<1>1. PICK q \in Int, r \in Int : y = m * q + r /\ 0 <= r /\ r < m /\ r = y % m
  BY Euclid
<1>2. PICK w \in Int : w = q * m
  OBVIOUS
<1>3. Multiple(w, m)
  BY <1>2 DEF Multiple
<1>4. r = y - w
  BY <1>1, <1>2
<1> QED
  BY <1>0, <1>1, <1>3, <1>4

\* The counters that the properties speak of, and the steps that change them.
LEMMA CountEffects ==
  ASSUME TypeInv, NEW t \in Thread, CallStep(t) \/ ClientStep(t)
  PROVE  /\ \A u \in Thread \ {t} : pc'[u] = pc[u]
         /\ \/ /\ PushLink(t) /\ UNCHANGED length
               /\ stat'["push_count"] = stat["push_count"] /\ stat'["pop_count"] = stat["pop_count"]
               /\ pc[t] = "p_link" /\ pc'[t] = "p_last"
            \/ /\ PopUnlink(t) /\ UNCHANGED length
               /\ stat'["push_count"] = stat["push_count"] /\ stat'["pop_count"] = stat["pop_count"]
               /\ pc[t] = "o_cas" /\ pc'[t] = "o_end"
            \/ /\ ~PushLink(t) /\ ~PopUnlink(t)
               /\ \/ /\ length' = (length + 1) % CountMod /\ UNCHANGED stat
                     /\ pc[t] = "p_length" /\ pc'[t] = "p_count"
                  \/ /\ length' = (length + (-1)) % CountMod /\ UNCHANGED stat
                     /\ pc[t] = "o_length" /\ pc'[t] = "o_count"
                  \/ /\ UNCHANGED length /\ stat'["push_count"] = (stat["push_count"] + 1) % StatMod
                     /\ stat'["pop_count"] = stat["pop_count"]
                     /\ pc[t] = "p_count" /\ pc'[t] = "idle"
                  \/ /\ UNCHANGED length /\ stat'["pop_count"] = (stat["pop_count"] + 1) % StatMod
                     /\ stat'["push_count"] = stat["push_count"]
                     /\ pc[t] = "o_count" /\ pc'[t] \in {"o_head", "idle"}
                  \/ /\ UNCHANGED length
                     /\ stat'["push_count"] = stat["push_count"] /\ stat'["pop_count"] = stat["pop_count"]
                     /\ pc[t] \in LinkedCalls <=> pc'[t] \in LinkedCalls
                     /\ pc[t] \in UnlinkedCalls <=> pc'[t] \in UnlinkedCalls
                     /\ pc[t] \notin {"p_count", "o_count"} /\ pc'[t] \notin {"p_count", "o_count"}
<1>1. \A u \in Thread \ {t} : pc'[u] = pc[u]
  BY Flow
<1>2. stat \in [{"push_count", "pop_count", "push_fails", "pop_fails", "aba_prevented"} -> 0 .. StatMod - 1]
  BY DEF TypeInv, TypeOK
<1>3. ASSUME NEW c \in {"push_fails", "pop_fails", "aba_prevented"}, Count(c)
      PROVE  stat'["push_count"] = stat["push_count"] /\ stat'["pop_count"] = stat["pop_count"]
  BY <1>2, <1>3 DEF Count
<1>4. /\ Count("push_count") => /\ stat'["push_count"] = (stat["push_count"] + 1) % StatMod
                                /\ stat'["pop_count"] = stat["pop_count"]
      /\ Count("pop_count") => /\ stat'["pop_count"] = (stat["pop_count"] + 1) % StatMod
                               /\ stat'["push_count"] = stat["push_count"]
  BY <1>2 DEF Count
<1> USE DEF Row, Same, Clear, Restart, LinkedCalls, UnlinkedCalls
<1> USE DEF shared, ends, counters, Counterfeit, Help, HelpFails, LoadHead, GetHead, LoadNext, GetNext,
            EndGeneration, PushFree
<1>5. CASE PushLink(t)
  BY <1>1, <1>5, PushRows DEF PushLink
<1>6. CASE PopUnlink(t)
  BY <1>1, <1>6, PopRows DEF PopUnlink
<1>7. CASE ~PushLink(t) /\ (PushStep(t) \/ PushCall(t))
  <2>1. pc[t] # "o_cas"
    BY <1>7, PushRows DEF PushStep
  <2>2. ~PopUnlink(t)
    BY <2>1, PopRows
  <2>3. PushLength(t) => length' = (length + 1) % CountMod /\ UNCHANGED stat
    BY DEF PushLength
  <2>4. PushReturn(t) => UNCHANGED length /\ Count("push_count")
    BY DEF PushReturn
  <2>5. PushFull(t) => UNCHANGED length /\ Count("push_fails")
    BY DEF PushFull
  <2>6. PushTailStale(t) \/ PushTailMoved(t) => UNCHANGED length /\ Count("aba_prevented")
    BY DEF PushTailStale, PushTailMoved
  <2>7. PushCall(t) \/ PushAlloc(t) \/ PushInit(t) \/ PushLoadTail(t) \/ PushGetTail(t) \/ PushLoadNext(t)
        \/ PushCheckTail(t) \/ PushRetry(t) \/ PushHelp(t) \/ PushHelpFails(t) \/ PushLoadLast(t) \/ PushSwing(t)
        => UNCHANGED <<length, stat>>
    BY DEF PushCall, PushAlloc, PushInit, PushLoadTail, PushGetTail, PushLoadNext, PushCheckTail, PushRetry,
           PushHelp, PushHelpFails, PushLoadLast, PushSwing
  <2> HIDE DEF shared, ends, counters, Counterfeit, Help, HelpFails, LoadHead, GetHead, LoadNext, GetNext,
            EndGeneration, PushFree
  <2> QED
    BY <1>1, <1>3, <1>4, <1>7, <2>2, <2>3, <2>4, <2>5, <2>6, <2>7, PushRows DEF PushStep
<1>8. CASE ~PopUnlink(t) /\ (PopStep(t) \/ PopCall(t))
  <2>1. pc[t] # "p_link"
    BY <1>8, PopRows DEF PopStep
  <2>2. ~PushLink(t)
    BY <2>1, PushRows
  <2>3. PopLength(t) => length' = (length - 1) % CountMod /\ UNCHANGED stat
    BY DEF PopLength
  <2>30. length - 1 = length + (-1)
    BY DEF TypeInv, TypeOK
  <2>4. PopReturn(t) => UNCHANGED length /\ Count("pop_count")
    BY DEF PopReturn
  <2>5. PopEmpty(t) => UNCHANGED length /\ Count("pop_fails")
    BY DEF PopEmpty
  <2>6. PopHeadStale(t) \/ PopHeadMoved(t) \/ PopNextStale(t) => UNCHANGED length /\ Count("aba_prevented")
    BY DEF PopHeadStale, PopHeadMoved, PopNextStale
  <2>7. PopCall(t) \/ PopLoadHead(t) \/ PopLoadTail(t) \/ PopGetHead(t) \/ PopLoadNext(t) \/ PopCheckHead(t)
        \/ PopHelp(t) \/ PopHelpFails(t) \/ PopGetNext(t) \/ PopRead(t) \/ PopRetry(t) \/ PopEndGeneration(t)
        \/ PopFree(t) => UNCHANGED <<length, stat>>
    BY DEF PopCall, PopLoadHead, PopLoadTail, PopGetHead, PopLoadNext, PopCheckHead, PopHelp, PopHelpFails,
           PopGetNext, PopRead, PopRetry, PopEndGeneration, PopFree
  <2> HIDE DEF shared, ends, counters, Counterfeit, Help, HelpFails, LoadHead, GetHead, LoadNext, GetNext,
            EndGeneration, PushFree
  <2> QED
    BY <1>1, <1>3, <1>4, <1>8, <2>2, <2>3, <2>30, <2>4, <2>5, <2>6, <2>7, PopRows DEF PopStep
<1>9. CASE PeekStep(t) \/ PeekCall(t) \/ DestroyStep(t) \/ Destroy(t)
  <2>1. pc[t] \notin {"p_link", "o_cas"} \cup LinkedCalls \cup UnlinkedCalls \cup {"p_count", "o_count"}
    BY <1>9, OtherRows DEF PeekStep, PeekReturn, EmptyReturn, DestroyStep
  <2>2. pc'[t] \notin LinkedCalls \cup UnlinkedCalls \cup {"p_count", "o_count"}
    BY <1>9, OtherRows DEF PeekStep, PeekReturn, EmptyReturn, DestroyStep
  <2>3. ~PushLink(t) /\ ~PopUnlink(t)
    BY <2>1, PushRows, PopRows
  <2>4. UNCHANGED <<length, stat>>
    BY <1>9 DEF PeekStep, PeekCall, PeekLoadHead, PeekGetHead, PeekLoadNext, PeekGetNext, PeekReturn,
       EmptyReturn, Answer, DestroyStep, Destroy, DestroyRelease, DestroyFree, DestroyReturn
  <2> QED
    BY <1>1, <2>1, <2>2, <2>3, <2>4
<1> QED
  BY <1>5, <1>6, <1>7, <1>8, <1>9 DEF CallStep, ClientStep

\* The items are one fewer than the nodes.
LEMMA ItemsLen ==
  ASSUME NEW L
  PROVE  /\ TypeInv /\ IsList(L) => Len(L) \in Nat \ {0} /\ Len(Contents) = Len(L) - 1
         /\ TypeInv' /\ IsList(L)' => Len(L) \in Nat \ {0} /\ Len(Contents') = Len(L) - 1
<1>1. IsList(L) => L \in Walks /\ Len(L) \in Nat \ {0}
  BY DEF IsList, Walks
<1>2. IsList(L)' => L \in Walks /\ Len(L) \in Nat \ {0}
  BY DEF IsList, Walks
<1>3. ASSUME TypeInv, IsList(L) PROVE Len(Contents) = Len(L) - 1
  <2>1. Contents = ContentsOf(L, node_data)
    BY <1>3, ChainIsList, ContentsIs
  <2>2. node_data \in [Slot -> Value \cup {NoValue}]
    BY <1>3 DEF TypeInv, TypeOK
  <2> QED
    BY <1>1, <1>3, <2>1, <2>2, ContentsSeq
<1>4. ASSUME TypeInv', IsList(L)' PROVE Len(Contents') = Len(L) - 1
  <2>1. Contents' = ContentsOf(L, node_data')
    BY <1>4, ChainIsList, ContentsIs
  <2>2. node_data' \in [Slot -> Value \cup {NoValue}]
    BY <1>4 DEF TypeInv, TypeOK
  <2> QED
    BY <1>2, <1>4, <2>1, <2>2, ContentsSeq
<1> QED
  BY <1>1, <1>2, <1>3, <1>4

\* A step adds an item, takes one or leaves their number alone.
LEMMA ItemsStep ==
  ASSUME QueueInv, Undisturbed, NEW t \in Thread, CallStep(t) \/ ClientStep(t), Watch
  PROVE  /\ Len(Contents) \in Nat
         /\ Len(Contents') = Len(Contents) + (IF PushLink(t) THEN 1 ELSE IF PopUnlink(t) THEN -1 ELSE 0)
<1>1. PICK L, M : L = Chain /\ M = Chain'
  OBVIOUS
<1>2. TypeInv /\ TypeInv' /\ IsList(L) /\ IsList(M)'
  BY <1>1, QueueStep DEF QueueInv, NodesOK
<1>3. IF PushLink(t) THEN Grown(M, L, loc[t].new_h.slot)
      ELSE IF PopUnlink(t) THEN Shrunk(M, L) ELSE M = L
  BY <1>1, QueueStep
<1>4. L \in Seq(Slot) /\ L # <<>>
  BY <1>2 DEF IsList
<1>5. PushLink(t) => Len(M) = Len(L) + 1
  BY <1>3, <1>4 DEF Grown
<1>6. ~PushLink(t) /\ PopUnlink(t) => Len(M) = Len(L) - 1
  BY <1>3, <1>4 DEF Shrunk
<1>7. PICK l \in Nat \ {0}, m \in Nat \ {0} : l = Len(L) /\ m = Len(M) /\ Len(Contents) = l - 1 /\ Len(Contents') = m - 1
  BY <1>2, ItemsLen
<1> QED
  BY <1>3, <1>5, <1>6, <1>7

LengthBalance == length + At(LinkedCalls) - At(UnlinkedCalls) - Len(Contents)
StatBalance == stat["push_count"] + At(LinkedCalls) + At({"p_count"})
                 - stat["pop_count"] - At(UnlinkedCalls) - At({"o_count"}) - Len(Contents)

\* The counters are exact up to the calls in progress and the wraps of size_t.
Balanced == Multiple(LengthBalance, CountMod) /\ Multiple(StatBalance, StatMod)

\* A multiple stays one when another multiple is subtracted.
LEMMA MultipleKept ==
  ASSUME NEW m \in Nat \ {0}, NEW x \in Int, NEW y \in Int, NEW w \in Int,
         Multiple(x, m), Multiple(w, m), y = x - w \/ y = x + w
  PROVE  Multiple(y, m)
<1>1. m \in Int
  OBVIOUS
<1>2. Multiple(x + w, m) /\ Multiple(x - w, m)
  BY <1>1, MultipleSum
<1>3. CASE y = x - w
  BY <1>2, <1>3
<1>4. CASE y = x + w
  BY <1>2, <1>4
<1> QED
  BY <1>3, <1>4

\* Every step keeps the balances: a CAS and its fetch_add are accounted for in between.
LEMMA BalancedStep ==
  ASSUME IsFiniteSet(Thread), QueueInv, Undisturbed, Balanced, NEW t \in Thread,
         CallStep(t) \/ ClientStep(t), Watch
  PROVE  Balanced'
<1>1. TypeInv /\ CountMod \in Nat \ {0} /\ StatMod \in Nat \ {0}
  BY QueueAssumption DEF QueueInv
<1>2. PICK n \in Nat, n1 \in Int :
        /\ n = Len(Contents) /\ n1 = Len(Contents')
        /\ n1 = n + (IF PushLink(t) THEN 1 ELSE IF PopUnlink(t) THEN -1 ELSE 0)
  BY ItemsStep
<1>3. PICK a \in Nat, b \in Nat, c \in Nat, d \in Nat :
        a = At(LinkedCalls) /\ b = At(UnlinkedCalls) /\ c = At({"p_count"}) /\ d = At({"o_count"})
  BY AtType
<1>4. PICK l \in Int, x \in Int, y \in Int : l = length /\ x = stat["push_count"] /\ y = stat["pop_count"]
  BY <1>1 DEF TypeInv, TypeOK
<1>50. PICK A \in Int, B \in Int : A = l + a - b - n /\ B = x + a + c - y - b - d - n
  OBVIOUS
<1>5. /\ A = l + a - b - n /\ A = LengthBalance
      /\ B = x + a + c - y - b - d - n /\ B = StatBalance
  BY <1>2, <1>3, <1>4, <1>50 DEF LengthBalance, StatBalance
<1>6. Multiple(A, CountMod) /\ Multiple(B, StatMod)
  BY <1>5 DEF Balanced
<1>7. \A u \in Thread \ {t} : pc'[u] = pc[u]
  BY <1>1, CountEffects
<1>8. /\ At(LinkedCalls)' = a + One(pc'[t] \in LinkedCalls) - One(pc[t] \in LinkedCalls)
      /\ At(UnlinkedCalls)' = b + One(pc'[t] \in UnlinkedCalls) - One(pc[t] \in UnlinkedCalls)
      /\ At({"p_count"})' = c + One(pc'[t] \in {"p_count"}) - One(pc[t] \in {"p_count"})
      /\ At({"o_count"})' = d + One(pc'[t] \in {"o_count"}) - One(pc[t] \in {"o_count"})
  BY <1>3, <1>7, AtMoves
<1>9. /\ LengthBalance' = length' + At(LinkedCalls)' - At(UnlinkedCalls)' - n1
      /\ StatBalance' = stat'["push_count"] + At(LinkedCalls)' + At({"p_count"})'
                          - stat'["pop_count"] - At(UnlinkedCalls)' - At({"o_count"})' - n1
  BY <1>2 DEF LengthBalance, StatBalance
<1> DEFINE Move(p, q) == /\ At(LinkedCalls)' = a + One(q \in LinkedCalls) - One(p \in LinkedCalls)
                         /\ At(UnlinkedCalls)' = b + One(q \in UnlinkedCalls) - One(p \in UnlinkedCalls)
                         /\ At({"p_count"})' = c + One(q = "p_count") - One(p = "p_count")
                         /\ At({"o_count"})' = d + One(q = "o_count") - One(p = "o_count")
<1>10. Move(pc[t], pc'[t])
  BY <1>8
<1>11. \A z : Multiple(z, CountMod) /\ z = LengthBalance' => Multiple(LengthBalance, CountMod)'
  BY DEF Multiple
<1>12. \A z : Multiple(z, StatMod) /\ z = StatBalance' => Multiple(StatBalance, StatMod)'
  BY DEF Multiple
<1> DEFINE Goal == /\ LengthBalance' = A \/ \E w \in Int : Multiple(w, CountMod) /\ LengthBalance' = A - w
                   /\ \/ StatBalance' = B
                      \/ \E w \in Int : Multiple(w, StatMod) /\ (StatBalance' = B - w \/ StatBalance' = B + w)
<1>13. SUFFICES Goal
  BY <1>1, <1>6, <1>11, <1>12, MultipleKept DEF Balanced
<1>14. CASE PushLink(t)
  <2>1. /\ length' = l /\ stat'["push_count"] = x /\ stat'["pop_count"] = y
        /\ Move("p_link", "p_last")
    BY <1>1, <1>4, <1>10, <1>14, CountEffects, PushRows DEF Row, PopUnlink, Goto
  <2>2. n1 = n + 1
    BY <1>2, <1>14
  <2>3. At(LinkedCalls)' = a + 1 /\ At(UnlinkedCalls)' = b /\ At({"p_count"})' = c /\ At({"o_count"})' = d
    BY <2>1 DEF One, LinkedCalls, UnlinkedCalls
  <2> QED
    BY <1>5, <1>9, <2>1, <2>2, <2>3
<1>15. CASE PopUnlink(t) /\ ~PushLink(t)
  <2>1. /\ length' = l /\ stat'["push_count"] = x /\ stat'["pop_count"] = y
        /\ Move("o_cas", "o_end")
    BY <1>1, <1>4, <1>10, <1>15, CountEffects
  <2>2. n1 = n - 1
    BY <1>2, <1>15
  <2>3. At(LinkedCalls)' = a /\ At(UnlinkedCalls)' = b + 1 /\ At({"p_count"})' = c /\ At({"o_count"})' = d
    BY <2>1 DEF One, LinkedCalls, UnlinkedCalls
  <2> QED
    BY <1>5, <1>9, <2>1, <2>2, <2>3
<1>16. CASE ~PopUnlink(t) /\ ~PushLink(t)
  <2>0. n1 = n
    BY <1>2, <1>16
  <2>1. CASE /\ length' = (length + 1) % CountMod /\ UNCHANGED stat /\ pc[t] = "p_length" /\ pc'[t] = "p_count"
    <3>0. length' = (l + 1) % CountMod
      BY <1>4, <2>1
    <3>1. PICK w \in Int : Multiple(w, CountMod) /\ length' = l + 1 - w
      BY <1>1, <3>0, Wraps
    <3>2. At(LinkedCalls)' = a - 1 /\ At(UnlinkedCalls)' = b /\ At({"p_count"})' = c + 1 /\ At({"o_count"})' = d
      BY <1>10, <2>1 DEF One, LinkedCalls, UnlinkedCalls
    <3>3. LengthBalance' = A - w
      BY <1>5, <1>9, <2>0, <3>1, <3>2
    <3>4. StatBalance' = B
      <4>1. StatBalance' = x + (a - 1) + (c + 1) - y - b - d - n
        BY <1>4, <1>9, <2>0, <2>1, <3>2
      <4> QED
        BY <1>5, <4>1
    <3> QED
      BY <3>1, <3>3, <3>4
  <2>2. CASE /\ length' = (length + (-1)) % CountMod /\ UNCHANGED stat /\ pc[t] = "o_length" /\ pc'[t] = "o_count"
    <3>0. length' = (l + (-1)) % CountMod
      BY <1>4, <2>2
    <3>1. PICK w \in Int : Multiple(w, CountMod) /\ length' = l + (-1) - w
      BY <1>1, <3>0, Wraps
    <3>2. At(LinkedCalls)' = a /\ At(UnlinkedCalls)' = b - 1 /\ At({"p_count"})' = c /\ At({"o_count"})' = d + 1
      BY <1>10, <2>2 DEF One, LinkedCalls, UnlinkedCalls
    <3>3. LengthBalance' = A - w
      BY <1>5, <1>9, <2>0, <3>1, <3>2
    <3>4. StatBalance' = B
      <4>1. StatBalance' = x + a + c - y - (b - 1) - (d + 1) - n
        BY <1>4, <1>9, <2>0, <2>2, <3>2
      <4> QED
        BY <1>5, <4>1
    <3> QED
      BY <3>1, <3>3, <3>4
  <2>3. CASE /\ UNCHANGED length /\ stat'["push_count"] = (stat["push_count"] + 1) % StatMod
             /\ stat'["pop_count"] = stat["pop_count"] /\ pc[t] = "p_count" /\ pc'[t] = "idle"
    <3>0. stat'["push_count"] = (x + 1) % StatMod
      BY <1>4, <2>3
    <3>1. PICK w \in Int : Multiple(w, StatMod) /\ stat'["push_count"] = x + 1 - w
      BY <1>1, <3>0, Wraps
    <3>2. At(LinkedCalls)' = a /\ At(UnlinkedCalls)' = b /\ At({"p_count"})' = c - 1 /\ At({"o_count"})' = d
      BY <1>10, <2>3 DEF One, LinkedCalls, UnlinkedCalls
    <3>3. StatBalance' = B - w
      BY <1>4, <1>5, <1>9, <2>0, <2>3, <3>1, <3>2
    <3>4. LengthBalance' = A
      BY <1>4, <1>5, <1>9, <2>0, <2>3, <3>2
    <3> QED
      BY <3>1, <3>3, <3>4
  <2>4. CASE /\ UNCHANGED length /\ stat'["pop_count"] = (stat["pop_count"] + 1) % StatMod
             /\ stat'["push_count"] = stat["push_count"] /\ pc[t] = "o_count" /\ pc'[t] \in {"o_head", "idle"}
    <3>0. stat'["pop_count"] = (y + 1) % StatMod
      BY <1>4, <2>4
    <3>1. PICK w \in Int : Multiple(w, StatMod) /\ stat'["pop_count"] = y + 1 - w
      BY <1>1, <3>0, Wraps
    <3>2. At(LinkedCalls)' = a /\ At(UnlinkedCalls)' = b /\ At({"p_count"})' = c /\ At({"o_count"})' = d - 1
      BY <1>10, <2>4 DEF One, LinkedCalls, UnlinkedCalls
    <3>3. StatBalance' = B + w
      BY <1>4, <1>5, <1>9, <2>0, <2>4, <3>1, <3>2
    <3>4. LengthBalance' = A
      BY <1>4, <1>5, <1>9, <2>0, <2>4, <3>2
    <3> QED
      BY <3>1, <3>3, <3>4
  <2>5. CASE /\ UNCHANGED length
             /\ stat'["push_count"] = stat["push_count"] /\ stat'["pop_count"] = stat["pop_count"]
             /\ pc[t] \in LinkedCalls <=> pc'[t] \in LinkedCalls
             /\ pc[t] \in UnlinkedCalls <=> pc'[t] \in UnlinkedCalls
             /\ pc[t] \notin {"p_count", "o_count"} /\ pc'[t] \notin {"p_count", "o_count"}
    <3>2. At(LinkedCalls)' = a /\ At(UnlinkedCalls)' = b /\ At({"p_count"})' = c /\ At({"o_count"})' = d
      BY <1>10, <2>5 DEF One
    <3> QED
      BY <1>4, <1>5, <1>9, <2>0, <2>5, <3>2
  <2> HIDE DEF Goal
  <2> QED
    BY <1>1, <1>16, <2>1, <2>2, <2>3, <2>4, <2>5, CountEffects
<1> QED
  BY <1>14, <1>15, <1>16

\* A new queue is balanced.
LEMMA BalancedInit == ASSUME IsFiniteSet(Thread) PROVE Init => Balanced
<1> SUFFICES ASSUME Init PROVE Balanced
  OBVIOUS
<1>1. PICK L : L = Chain
  OBVIOUS
<1>2. TypeInv /\ IsList(L)
  BY <1>1, QueueInit DEF QueueInv, NodesOK
<1>3. \A t \in Thread : pc[t] = "idle"
  BY DEF Init
<1>4. \A S : "idle" \notin S => At(S) = 0
  <2> SUFFICES ASSUME NEW S, "idle" \notin S PROVE At(S) = 0
    OBVIOUS
  <2>1. {t \in Thread : pc[t] \in S} = {}
    BY <1>3
  <2> QED
    BY <2>1, FS_EmptySet DEF At
<1>5. Len(L) = 1
  <2>1. head = Handle(0, 0) /\ node_next = [s \in Slot |-> ANAM_NULL] /\ 0 \in Slot
    BY HandleFields DEF Init, Slot, SP!Slot
  <2>2. node_next[head.slot] = ANAM_NULL
    BY <2>1, HandleFields DEF Handle
  <2>3. \A s \in Slot : Here(s) # ANAM_NULL
    BY <1>2, Loaded, HandleFields DEF Here
  <2> QED
    BY <1>2, <2>2, <2>3, FirstLink
<1>6. Len(Contents) = 0
  <2>1. Len(Contents) = Len(L) - 1
    BY <1>2, ItemsLen
  <2> QED
    BY <1>5, <2>1
<1>7. length = 0 /\ stat["push_count"] = 0 /\ stat["pop_count"] = 0
  BY DEF Init
<1>8. /\ At(LinkedCalls) = 0 /\ At(UnlinkedCalls) = 0 /\ At({"p_count"}) = 0 /\ At({"o_count"}) = 0
  BY <1>4 DEF LinkedCalls, UnlinkedCalls
<1>9. LengthBalance = 0 /\ StatBalance = 0
  BY <1>6, <1>7, <1>8 DEF LengthBalance, StatBalance
<1>10. Multiple(0, CountMod) /\ Multiple(0, StatMod)
  BY QueueAssumption DEF Multiple
<1> QED
  BY <1>9, <1>10 DEF Balanced

\* A step that changes nothing keeps the balances.
LEMMA BalancedStutter == Balanced /\ UNCHANGED vars => Balanced'
<1> SUFFICES ASSUME Balanced, UNCHANGED vars PROVE Balanced'
  OBVIOUS
<1>1. head' = head /\ node_next' = node_next /\ node_data' = node_data /\ pc' = pc /\ length' = length /\ stat' = stat
  BY DEF vars, shared, ends, counters, nodes
<1>2. Chain' = Chain
  BY <1>1, ChainIs
<1>3. Contents' = Contents
  BY <1>1, <1>2, ContentsIs
<1>4. \A S : At(S)' = At(S)
  BY <1>1 DEF At
<1>5. LengthBalance' = LengthBalance /\ StatBalance' = StatBalance
  BY <1>1, <1>3, <1>4 DEF LengthBalance, StatBalance
<1> QED
  BY <1>5 DEF Balanced

\* A balance that is a multiple of the number of counter values is 0 to the counter.
LEMMA CountersExactNow ==
  ASSUME IsFiniteSet(Thread), TypeInv, NodesOK(Chain), Balanced
  PROVE  CountersExact
<1>1. PICK n \in Nat : n = Len(Contents)
  <2>1. PICK L : L = Chain
    OBVIOUS
  <2> QED
    BY <2>1, ItemsLen DEF NodesOK
<1>2. PICK a \in Nat, b \in Nat, c \in Nat, d \in Nat :
        a = At(LinkedCalls) /\ b = At(UnlinkedCalls) /\ c = At({"p_count"}) /\ d = At({"o_count"})
  BY AtType
<1>3. PICK l \in Int, x \in Int, y \in Int : l = length /\ x = stat["push_count"] /\ y = stat["pop_count"]
  BY DEF TypeInv, TypeOK
<1>4. PICK A \in Int, B \in Int : A = l + a - b - n /\ B = x + a + c - y - b - d - n
  OBVIOUS
<1>5. Multiple(A, CountMod) /\ Multiple(B, StatMod)
  BY <1>1, <1>2, <1>3, <1>4 DEF Balanced, LengthBalance, StatBalance
<1>6. A % CountMod = 0 /\ B % StatMod = 0
  BY <1>5, MultipleRem, QueueAssumption
<1>7. /\ (length + At(LinkedCalls) - At(UnlinkedCalls) - Len(Contents)) % CountMod = 0
      /\ (stat["push_count"] + At(LinkedCalls) + At({"p_count"})
            - stat["pop_count"] - At(UnlinkedCalls) - At({"o_count"}) - Len(Contents)) % StatMod = 0
  BY <1>1, <1>2, <1>3, <1>4, <1>6
<1> QED
  BY <1>7 DEF CountersExact, LinkedCalls, UnlinkedCalls

\* q->length and the difference of push_count and pop_count are the number of queued items,
\* modulo the values of a size_t and up to the calls between their CAS and their fetch_add.
THEOREM QueueCountersExact ==
  ASSUME IsFiniteSet(Thread)
  PROVE  Spec /\ []Undisturbed => []CountersExact
<1>1. Init => QueueInv /\ Balanced
  BY QueueInit, BalancedInit
<1>2. QueueInv /\ Balanced /\ Undisturbed /\ [Next]_vars => (QueueInv /\ Balanced)'
  BY QueueStep, QueueStutter, BalancedStep, BalancedStutter DEF Next
<1>3. QueueInv /\ Balanced => CountersExact
  BY CountersExactNow DEF QueueInv
<1> QED
  BY <1>1, <1>2, <1>3, PTL DEF Spec

-----------------------------------------------------------------------------
(* How far the generations get: no more releases than pushes *)

Pending == {"p_alloc"} \cup Owning

\* A generation of a slot that ended was one node that a pop unlinked, and there are no
\* more of those than there are pushes that linked. The last one is ended by destroy.
GenBound(L) ==
  \A s \in Slot :
    IF Gone THEN generation[s] <= calls + 1
    ELSE generation[s] + One(Unlinked(s)) + At(Pending) + Len(L) <= calls + 1

\* The calls that have announced a push and not linked yet.
LEMMA PendingStep ==
  ASSUME TypeInv, NEW t \in Thread, CallStep(t) \/ ClientStep(t)
  PROVE  /\ PushLink(t) => pc[t] \in Pending /\ pc'[t] \notin Pending
         /\ ~PushLink(t) /\ pc'[t] \in Pending => pc[t] \in Pending \/ PushCall(t)
         /\ PushCall(t) => pc[t] \notin Pending /\ calls' = calls + 1
         /\ UNCHANGED calls \/ PushCall(t)
<1> USE DEF Row, Same, Clear, Restart, Pending, Owning
<1>0. PushCall(t) => calls' = calls + 1
  BY DEF PushCall
<1>1. /\ UNCHANGED calls \/ PushCall(t)
      /\ PushLink(t) => pc[t] \in Pending /\ pc'[t] \notin Pending
      /\ PushCall(t) => pc[t] \notin Pending
  BY Effects, PushRows
<1>2. ASSUME PushStep(t) \/ PushCall(t), pc'[t] \in Pending PROVE pc[t] \in Pending \/ PushCall(t)
  BY <1>2, PushRows DEF PushStep
<1>3. ASSUME PopStep(t) \/ PopCall(t) PROVE pc'[t] \notin Pending
  BY <1>3, PopRows DEF PopStep
<1>4. ASSUME PeekStep(t) \/ PeekCall(t) PROVE pc'[t] \notin Pending
  BY <1>4, OtherRows DEF PeekStep, PeekReturn, EmptyReturn
<1>5. ASSUME DestroyStep(t) \/ Destroy(t) PROVE pc'[t] \notin Pending
  BY <1>5, OtherRows DEF DestroyStep
<1> QED
  BY <1>0, <1>1, <1>2, <1>3, <1>4, <1>5 DEF CallStep, ClientStep

\* The pops that have unlinked a node and not released it.
LEMMA UnlinkedStep ==
  ASSUME TypeInv, ModesOK, NEW L, NodesOK(L), NEW t \in Thread, CallStep(t) \/ ClientStep(t)
  PROVE  /\ \A s \in Slot : Unlinked(s)' => Unlinked(s) \/ (PopUnlink(t) /\ s = head.slot)
         /\ PopEndGeneration(t) => \A q : q = loc[t].head_h.slot => Unlinked(q) /\ ~Unlinked(q)'
<1>1. \A u \in Thread \ {t} : pc'[u] = pc[u] /\ loc'[u] = loc[u]
  BY Flow
<1>2. ASSUME pc'[t] = "o_end" PROVE PopUnlink(t) /\ loc'[t].head_h = head
  <2>1. PopUnlink(t)
    <3> USE DEF Row, Same, Clear, Restart
    <3>1. CASE PushStep(t) \/ PushCall(t)
      BY <1>2, <3>1, PushRows DEF PushStep
    <3>2. CASE PopStep(t) \/ PopCall(t)
      BY <1>2, <3>2, PopRows DEF PopStep
    <3>3. CASE PeekStep(t) \/ PeekCall(t)
      BY <1>2, <3>3, OtherRows DEF PeekStep, PeekReturn, EmptyReturn
    <3>4. CASE DestroyStep(t) \/ Destroy(t)
      BY <1>2, <3>4, OtherRows DEF DestroyStep
    <3> QED
      BY <3>1, <3>2, <3>3, <3>4 DEF CallStep, ClientStep
  <2>2. loc'[t].head_h = loc[t].head_h /\ loc[t].head_h = head
    BY <2>1, PopRows DEF Row, PopUnlink
  <2> QED
    BY <2>1, <2>2
<1>3. ASSUME PopEndGeneration(t) PROVE \A q : q = loc[t].head_h.slot => Unlinked(q) /\ ~Unlinked(q)'
  <2>0. CallStep(t)
    BY <1>3 DEF CallStep, PopStep
  <2>1. pc[t] = "o_end" /\ pc'[t] = "o_free" /\ loc[t].head_h.slot \in Slot
    BY <1>3, <2>0, NodesEnd, AtWork, PopRows DEF Same, Row
  <2>2. PICK s \in Slot : s = loc[t].head_h.slot /\ Holds(t, s)
    BY <2>1 DEF Holds
  <2>3. \A u \in Thread : pc[u] = "o_end" /\ loc[u].head_h.slot = s => u = t
    BY <2>2 DEF NodesOK, Apart, Holds
  <2>5. Unlinked(s)
    BY <2>1, <2>2 DEF Unlinked
  <2>6. ~Unlinked(s)'
    BY <1>1, <2>1, <2>3 DEF Unlinked
  <2> QED
    BY <2>2, <2>5, <2>6
<1> QED
  BY <1>1, <1>2, <1>3 DEF Unlinked

\* The end of a generation as anam_release stores it.
LEMMA EndsAt ==
  ASSUME TypeInv, NEW q \in Slot, SP!EndGeneration(q), NEW s \in Slot
  PROVE  /\ s # q => generation'[s] = generation[s]
         /\ generation'[s] <= generation[s] + 1
<1>1. generation \in [Slot -> 0 .. GenMod - 1] /\ GenMod \in Nat \ {0}
  BY QueueAssumption DEF TypeInv, TypeOK
<1>2. s # q => generation'[s] = generation[s]
  BY <1>1 DEF SP!EndGeneration
<1>3. PICK g \in Nat : g = generation[s] /\ g <= GenMod - 1
  BY <1>1
<1>4. CASE s = q
  <2>1. generation'[s] = (g + 1) % GenMod
    BY <1>1, <1>3, <1>4 DEF SP!EndGeneration
  <2>2. PICK k \in Int : k = g + 1
    OBVIOUS
  <2>3. PICK x \in Int, r \in Int : k = GenMod * x + r /\ 0 <= r /\ r < GenMod /\ r = k % GenMod
    BY <1>1, Euclid
  <2>4. r <= k
    BY <1>1, <1>3, <2>2, <2>3
  <2>5. generation'[s] = r
    BY <2>1, <2>2, <2>3
  <2> QED
    BY <1>3, <1>4, <2>2, <2>4, <2>5
<1> QED
  BY <1>2, <1>3, <1>4

\* Every step keeps the bound: a generation grows by one for each push that used its slot.
LEMMA GenBoundStep ==
  ASSUME IsFiniteSet(Thread), QueueInv, Undisturbed, NEW t \in Thread, CallStep(t) \/ ClientStep(t), Watch,
         NEW L, NEW M, L = Chain, M = Chain', GenBound(L)
  PROVE  GenBound(M)'
<1>1. TypeInv /\ ModesOK /\ NodesOK(L) /\ NoWrap /\ Sound(t, L) /\ TypeInv' /\ NodesOK(M)'
  BY QueueStep DEF QueueInv, Undisturbed
<1>2. PICK l \in Nat, m \in Nat :
        /\ l = Len(L) /\ m = Len(M) /\ l # 0 /\ m # 0
        /\ m = l + (IF PushLink(t) THEN 1 ELSE IF PopUnlink(t) THEN -1 ELSE 0)
  <2>1. Len(L) \in Nat \ {0} /\ Len(Contents) = Len(L) - 1 /\ Len(M) \in Nat \ {0} /\ Len(Contents') = Len(M) - 1
    BY <1>1, ItemsLen DEF NodesOK
  <2>2. Len(Contents') = Len(Contents) + (IF PushLink(t) THEN 1 ELSE IF PopUnlink(t) THEN -1 ELSE 0)
    BY ItemsStep
  <2>3. Len(M) = Len(L) + (IF PushLink(t) THEN 1 ELSE IF PopUnlink(t) THEN -1 ELSE 0)
    BY <2>1, <2>2
  <2> QED
    BY <2>1, <2>3
<1>3. PICK a \in Nat, a1 \in Nat :
        /\ a = At(Pending) /\ a1 = At(Pending)'
        /\ a1 = a + One(pc'[t] \in Pending) - One(pc[t] \in Pending)
  BY <1>1, Flow, AtMoves
<1>4. /\ calls \in Nat /\ calls' \in Nat /\ \A s \in Slot : generation[s] \in Nat /\ generation'[s] \in Nat
  BY <1>1, QueueAssumption DEF TypeInv, TypeOK
<1>40. PICK c \in Nat, c1 \in Nat : c = calls /\ c1 = calls'
  BY <1>4
<1>5. /\ PushLink(t) => pc[t] \in Pending /\ pc'[t] \notin Pending
      /\ ~PushLink(t) /\ pc'[t] \in Pending => pc[t] \in Pending \/ PushCall(t)
      /\ PushCall(t) => pc[t] \notin Pending /\ calls' = calls + 1
      /\ UNCHANGED calls \/ PushCall(t)
  BY <1>1, PendingStep
<1>6. /\ \A s \in Slot : Unlinked(s)' => Unlinked(s) \/ (PopUnlink(t) /\ s = head.slot)
      /\ PopEndGeneration(t) => \A q : q = loc[t].head_h.slot => Unlinked(q) /\ ~Unlinked(q)'
  BY <1>1, UnlinkedStep
<1>7. calls <= calls'
  BY <1>4, <1>5
<1>8. PushCall(t) => ~PushLink(t)
  BY <1>1, PushRows DEF Row
<1>9. a1 + m + (IF PopUnlink(t) /\ ~PushLink(t) THEN 1 ELSE 0) - c1 <= a + l - c
  <2>1. PushLink(t) => a1 = a - 1
    BY <1>3, <1>5 DEF One
  <2>2. ~PushLink(t) /\ ~PushCall(t) => a1 <= a
    BY <1>3, <1>5 DEF One
  <2>3. PushCall(t) => a1 <= a + 1
    BY <1>3, <1>5 DEF One
  <2>4. CASE PushLink(t)
    <3>1. calls' = calls /\ m = l + 1
      BY <1>2, <1>5, <1>8, <2>4
    <3> QED
      BY <1>40, <2>1, <2>4, <3>1
  <2>5. CASE ~PushLink(t)
    <3>1. a1 - c1 <= a - c
      <4>1. CASE PushCall(t)
        <5>1. c1 = c + 1 /\ a1 <= a + 1
          BY <1>40, <1>5, <2>3, <4>1
        <5> QED
          BY <5>1
      <4>2. CASE ~PushCall(t)
        <5>1. c1 = c /\ a1 <= a
          BY <1>40, <1>5, <2>2, <2>5, <4>2
        <5> QED
          BY <5>1
      <4> QED
        BY <4>1, <4>2
    <3>2. m + (IF PopUnlink(t) THEN 1 ELSE 0) = l
      BY <1>2, <2>5
    <3> QED
      BY <2>5, <3>1, <3>2
  <2> QED
    BY <2>4, <2>5
<1>10. CASE DestroyRelease(t)
  <2>1. ~Gone /\ Gone'
    BY <1>1, <1>10, GoneKept
  <2>2. CallStep(t) /\ node_next[head.slot] = ANAM_NULL
    BY <1>1, <1>10 DEF CallStep, DestroyStep, Sound
  <2>3. SP!EndGeneration(head.slot) /\ head.slot \in Slot
    BY <1>1, <1>10, <2>2, NodesDestroyRelease, Live
  <2>4. ASSUME NEW s \in Slot PROVE generation'[s] <= calls' + 1
    <3>1. PICK g \in Nat, g1 \in Nat, o \in Nat : g = generation[s] /\ g1 = generation'[s] /\ o = One(Unlinked(s))
      BY <1>4 DEF One
    <3>2. g1 <= g + 1
      BY <1>1, <1>4, <2>3, <3>1, EndsAt
    <3>3. g + o + a + l <= c + 1
      BY <1>2, <1>3, <1>40, <2>1, <3>1 DEF GenBound
    <3>4. l >= 1 /\ c <= c1
      BY <1>2, <1>40, <1>7
    <3>5. g1 <= c1 + 1
      BY <3>2, <3>3, <3>4
    <3> QED
      BY <1>40, <3>1, <3>5
  <2> QED
    BY <2>1, <2>4 DEF GenBound
<1>11. CASE PopEndGeneration(t)
  <2>1. CallStep(t)
    BY <1>11 DEF CallStep, PopStep
  <2>2. SP!EndGeneration(loc[t].head_h.slot) /\ loc[t].head_h.slot \in Slot /\ pc[t] = "o_end"
    BY <1>1, <1>11, <2>1, NodesEnd, AtWork, PopRows DEF Same, Row
  <2>3. ~Gone /\ ~Gone'
    BY <1>1, <1>11, <2>2, Present, GoneKept, OtherRows DEF Same, Row
  <2>4. ~PopUnlink(t) /\ ~PushLink(t)
    BY <1>1, <2>2, PopRows, PushRows DEF Row
  <2>5. PICK q \in Slot : q = loc[t].head_h.slot
    BY <2>2
  <2>6. ASSUME NEW s \in Slot PROVE generation'[s] + One(Unlinked(s))' + At(Pending)' + Len(M) <= calls' + 1
    <3>1. PICK g \in Nat, g1 \in Nat, o \in Nat, o1 \in Nat :
            /\ g = generation[s] /\ g1 = generation'[s] /\ o = One(Unlinked(s)) /\ o1 = One(Unlinked(s))'
      BY <1>4 DEF One
    <3>2. g + o + a + l <= c + 1
      BY <1>2, <1>3, <1>40, <2>3, <3>1 DEF GenBound
    <3>3. CASE s = q
      <4>1. g1 <= g + 1
        BY <1>1, <1>4, <2>2, <3>1, EndsAt
      <4>2. Unlinked(s) /\ ~Unlinked(s)'
        BY <1>6, <1>11, <2>5, <3>3
      <4>3. o = 1 /\ o1 = 0
        BY <3>1, <4>2 DEF One
      <4>4. g1 + o1 + a1 + m <= c1 + 1
        BY <1>9, <2>4, <3>2, <4>1, <4>3
      <4> QED
        BY <1>2, <1>3, <1>40, <3>1, <4>4
    <3>4. CASE s # q
      <4>1. g1 = g
        BY <1>1, <2>2, <2>5, <3>1, <3>4, EndsAt
      <4>2. o1 <= o
        BY <1>6, <2>4, <3>1 DEF One
      <4>3. g1 + o1 + a1 + m <= c1 + 1
        BY <1>9, <2>4, <3>2, <4>1, <4>2
      <4> QED
        BY <1>2, <1>3, <1>40, <3>1, <4>3
    <3> QED
      BY <3>3, <3>4
  <2> QED
    BY <2>3, <2>6 DEF GenBound
<1>12. CASE ~DestroyRelease(t) /\ ~PopEndGeneration(t)
  <2>1. Gone' <=> Gone
    BY <1>1, <1>12, GoneKept
  <2>2. generation' = generation
    BY <1>12, Effects DEF memory, PushAlloc, PushInit, PushLink, PopUnlink, PopFree, DestroyFree, PushFree,
       pool, SP!Take, SP!GiveBack
  <2>3. ASSUME NEW s \in Slot, Gone PROVE generation'[s] <= calls' + 1
    BY <1>4, <1>7, <2>2, <2>3 DEF GenBound
  <2>4. ASSUME NEW s \in Slot, ~Gone
        PROVE  generation'[s] + One(Unlinked(s))' + At(Pending)' + Len(M) <= calls' + 1
    <3>1. PICK g \in Nat, o \in Nat, o1 \in Nat :
            g = generation[s] /\ o = One(Unlinked(s)) /\ o1 = One(Unlinked(s))'
      BY <1>4 DEF One
    <3>2. g + o + a + l <= c + 1
      BY <1>2, <1>3, <1>40, <2>4, <3>1 DEF GenBound
    <3>3. o1 <= o + (IF PopUnlink(t) /\ ~PushLink(t) THEN 1 ELSE 0)
      <4>1. PopUnlink(t) => ~PushLink(t)
        BY <1>1, PopRows, PushRows DEF Row
      <4> QED
        BY <1>6, <3>1, <4>1 DEF One
    <3>4. g + o1 + a1 + m <= c1 + 1
      BY <1>9, <3>2, <3>3
    <3> QED
      BY <1>2, <1>3, <1>40, <2>2, <3>1, <3>4
  <2> QED
    BY <2>1, <2>3, <2>4 DEF GenBound
<1> QED
  BY <1>10, <1>11, <1>12

\* A new queue satisfies it.
LEMMA GenBoundInit ==
  ASSUME IsFiniteSet(Thread)
  PROVE  Init => GenBound(Chain)
<1> SUFFICES ASSUME Init PROVE GenBound(Chain)
  OBVIOUS
<1>1. PICK L : L = Chain /\ Len(L) = 1
  BY NodesBegin
<1>2. \A t \in Thread : pc[t] = "idle"
  BY DEF Init
<1>3. At(Pending) = 0
  <2>1. {t \in Thread : pc[t] \in Pending} = {}
    BY <1>2 DEF Pending, Owning
  <2> QED
    BY <2>1, FS_EmptySet DEF At
<1>4. calls = 0 /\ mode = "open" /\ \A s \in Slot : generation[s] = 0
  BY DEF Init
<1>5. ~Gone /\ \A s \in Slot : ~Unlinked(s)
  BY <1>2, <1>4 DEF Gone, Unlinked
<1>6. \A s \in Slot : One(Unlinked(s)) = 0
  BY <1>5 DEF One
<1>7. \A s \in Slot : generation[s] + One(Unlinked(s)) + At(Pending) + Len(L) <= calls + 1
  BY <1>1, <1>3, <1>4, <1>6
<1> QED
  BY <1>1, <1>5, <1>7 DEF GenBound

\* A step that changes nothing keeps it.
LEMMA GenBoundStutter == GenBound(Chain) /\ UNCHANGED vars => GenBound(Chain)'
<1> SUFFICES ASSUME GenBound(Chain), UNCHANGED vars PROVE GenBound(Chain)'
  OBVIOUS
<1>1. /\ head' = head /\ node_next' = node_next /\ pc' = pc /\ loc' = loc /\ generation' = generation
      /\ mode' = mode /\ calls' = calls
  BY DEF vars, shared, ends, nodes, pool, client
<1>2. PICK L : L = Chain /\ L = Chain'
  BY <1>1, ChainIs
<1>3. At(Pending)' = At(Pending) /\ (Gone' <=> Gone) /\ \A s \in Slot : One(Unlinked(s))' = One(Unlinked(s))
  BY <1>1 DEF At, Gone, Unlinked
<1> QED
  BY <1>1, <1>2, <1>3 DEF GenBound

\* Fewer pushes than generations: none wraps.
FewPushes == IsFiniteSet(Thread) /\ MaxPush + 2 < GenMod

\* So no generation is about to wrap.
LEMMA GenBoundNow ==
  ASSUME FewPushes, TypeInv, NodesOK(Chain), GenBound(Chain)
  PROVE  NoWrap
<1> SUFFICES ASSUME NEW s \in Slot PROVE generation[s] < GenMod - 1
  BY DEF NoWrap
<1>1. PICK g \in Nat, c \in Nat : g = generation[s] /\ c = calls /\ c <= MaxPush
  BY QueueAssumption DEF TypeInv, TypeOK
<1>2. PICK L : L = Chain
  OBVIOUS
<1>3. PICK l \in Nat, a \in Nat, o \in Nat : l = Len(L) /\ a = At(Pending) /\ o = One(Unlinked(s))
  BY <1>2, AtType, ItemsLen DEF FewPushes, NodesOK, One
<1>4. g <= c + 1
  BY <1>1, <1>2, <1>3 DEF GenBound
<1>5. GenMod \in Nat /\ MaxPush \in Nat /\ MaxPush + 2 < GenMod
  BY QueueAssumption DEF FewPushes
<1> QED
  BY <1>1, <1>4, <1>5

\* Every step keeps the list and the bound together.
LEMMA FewPushesStep ==
  ASSUME FewPushes, QueueInv, LinkNeverStale, GenBound(Chain), [Next]_vars
  PROVE  QueueInv' /\ GenBound(Chain)' /\ NoWrap
<1>1. NoWrap /\ IsFiniteSet(Thread)
  BY GenBoundNow DEF QueueInv, FewPushes
<1>2. Undisturbed
  BY <1>1 DEF Undisturbed
<1>3. CASE UNCHANGED vars
  BY <1>1, <1>3, QueueStutter, GenBoundStutter
<1>4. ASSUME NEW t \in Thread, CallStep(t) \/ ClientStep(t), Watch PROVE QueueInv' /\ GenBound(Chain)'
  <2>1. PICK L, M : L = Chain /\ M = Chain'
    OBVIOUS
  <2>2. GenBound(M)'
    BY <1>1, <1>2, <1>4, <2>1, GenBoundStep
  <2> QED
    BY <1>2, <1>4, <2>1, <2>2, QueueStep
<1> QED
  BY <1>1, <1>3, <1>4 DEF Next

\* anam_release ends a generation of a slot at most once for every push, so with fewer
\* pushes than generations (65533 for the 16 bits of the code) no generation wraps.
THEOREM GenerationsDoNotWrap ==
  ASSUME FewPushes
  PROVE  Spec /\ []LinkNeverStale => []Undisturbed
<1>1. Init => QueueInv /\ GenBound(Chain)
  BY QueueInit, GenBoundInit DEF FewPushes
<1>2. QueueInv /\ GenBound(Chain) /\ LinkNeverStale /\ [Next]_vars => (QueueInv /\ GenBound(Chain))'
  BY FewPushesStep
<1>3. QueueInv /\ GenBound(Chain) /\ LinkNeverStale => Undisturbed
  BY GenBoundNow DEF QueueInv, Undisturbed
<1> QED
  BY <1>1, <1>2, <1>3, PTL DEF Spec

\* Every step keeps the invariant of one producer and the bound together.
LEMMA OneProducerStep ==
  ASSUME FewPushes, OneProducer, SingleInv, GenBound(Chain), [Next]_vars
  PROVE  SingleInv' /\ GenBound(Chain)'
<1>1. NoWrap
  BY GenBoundNow DEF SingleInv, QueueInv
<1>2. Undisturbed
  BY <1>1, SingleUndisturbed
<1>3. GenBound(Chain)'
  BY <1>2, FewPushesStep DEF SingleInv, Undisturbed
<1>4. SingleInv'
  BY <1>1, SingleStep, SingleStutter DEF Next
<1> QED
  BY <1>3, <1>4

\* The invariant with one producer, any number of consumers and observers, and fewer
\* pushes than generations: nothing is left to assume of the execution.
LEMMA OneProducerInvariance ==
  ASSUME FewPushes, OneProducer
  PROVE  Spec => [](SingleInv /\ GenBound(Chain))
<1>1. Init => SingleInv /\ GenBound(Chain)
  BY SingleInit, GenBoundInit DEF FewPushes
<1>2. SingleInv /\ GenBound(Chain) /\ [Next]_vars => (SingleInv /\ GenBound(Chain))'
  BY OneProducerStep
<1> QED
  BY <1>1, <1>2, PTL DEF Spec

\* One producer: the queue is undisturbed, in every execution.
THEOREM OneProducerUndisturbed ==
  ASSUME FewPushes, OneProducer
  PROVE  Spec => []Undisturbed
<1>1. SingleInv /\ GenBound(Chain) => Undisturbed
  BY GenBoundNow, SingleUndisturbed DEF SingleInv, QueueInv
<1> QED
  BY <1>1, OneProducerInvariance, PTL

\* One producer: every pop that moves head releases the old dummy alone, no slot is lost or
\* in two places, tail names a node of the list, the counters are exact and destroy gives
\* every node back, in every execution.
THEOREM OneProducerCorrect ==
  ASSUME FewPushes, OneProducer
  PROVE  Spec => [](ReleasesOnce /\ SlotsConserved /\ TailInList /\ DestroyReleasesAll /\ CountersExact)
<1>1. IsFiniteSet(Thread)
  BY DEF FewPushes
<1>2. Spec => []CountersExact
  BY <1>1, OneProducerUndisturbed, QueueCountersExact, PTL
<1>3. SingleInv /\ GenBound(Chain) => ReleasesOnce /\ SlotsConserved /\ TailInList /\ DestroyReleasesAll
  BY ReleasesOnceNow, SlotsConservedNow, TailInListNow, DestroyReleasesAllNow DEF SingleInv
<1> QED
  BY <1>2, <1>3, OneProducerInvariance, PTL

-----------------------------------------------------------------------------
(* The queue implements FifoQueue *)

\* The mapping of Fifo, one part of it at a time.
OpOf(p, m) ==
  CASE p \in {"p_alloc", "p_init", "p_tail", "p_get", "p_next", "p_check",
              "p_link", "p_help"} -> "push"
    [] p \in {"p_last", "p_swing", "p_length", "p_count"} -> "pushed"
    [] p \in Popping /\ m = "open" -> "pop"
    [] p \in {"o_end", "o_free", "o_length", "o_count"} /\ m = "open" -> "popped"
    [] OTHER -> "idle"

ops == [t \in Thread |-> OpOf(pc[t], mode)]
vals == [t \in Thread |-> IF pc[t] \in Popping THEN NoValue ELSE loc[t].data]
saws == [t \in Thread |-> pc[t] \in Popping /\ mode = "open" /\ NoValue \in seen[t]]

Pushed == {"p_last", "p_swing", "p_length", "p_count"}
Popped == {"o_end", "o_free", "o_length", "o_count"}

\* What the labels mean for FifoQueue.
LEMMA OpTable ==
  ASSUME NEW p, NEW m
  PROVE  /\ p \in Pending => OpOf(p, m) = "push"
         /\ p \in Pushed => OpOf(p, m) = "pushed"
         /\ p \in Popping /\ m = "open" => OpOf(p, m) = "pop"
         /\ p \in Popped /\ m = "open" => OpOf(p, m) = "popped"
         /\ p \in Popping \cup Popped /\ m # "open" => OpOf(p, m) = "idle"
         /\ p \in Peeking \cup Testing \cup Destroying \cup {"idle"} => OpOf(p, m) = "idle"
         /\ OpOf(p, m) = "pop" <=> p \in Popping /\ m = "open"
BY DEF OpOf, Pending, Owning, Pushed, Popped, Popping, Peeking, Testing, Destroying

\* The item of a call is kept from push to its link and from the read of pop to its return;
\* destroy takes no item.
DataOK(t) ==
  /\ pc[t] \in {"idle"} \cup Pushed \cup Peeking \cup Testing \cup Destroying => loc[t].data = NoValue
  /\ mode # "open" /\ pc[t] \in {"o_cas"} \cup Popped => loc[t].data = NoValue

\* A pop has noticed an empty queue, and only calls in progress notice anything.
NoticeOK(t) ==
  /\ pc[t] = "idle" => seen[t] = {}
  /\ pc[t] \in Popping /\ Contents = <<>> => NoValue \in seen[t]

\* What each step of the code is for FifoQueue: the calls, the two moments at which push
\* and pop take effect, the two failures, the returns, and steps that it does not see.
Becomes(t, o, v, o1, v1) ==
  /\ OpOf(pc[t], mode) = o /\ OpOf(pc[t], mode)' = o1
  /\ (IF pc[t] \in Popping THEN NoValue ELSE loc[t].data) = v
  /\ (IF pc[t] \in Popping THEN NoValue ELSE loc[t].data)' = v1

Unseen(t) == \E o, v : Becomes(t, o, v, o, v)

\* What FifoQueue sees of push.
LEMMA PushSeen ==
  ASSUME TypeInv, ModesOK, NEW t \in Thread, DataOK(t), PushStep(t) \/ PushCall(t)
  PROVE  /\ DataOK(t)'
         /\ \/ PushCall(t) /\ Becomes(t, "idle", NoValue, "push", calls + 1)
            \/ PushLink(t) /\ Becomes(t, "push", loc[t].data, "pushed", NoValue)
            \/ PushFull(t) /\ \E v : Becomes(t, "push", v, "idle", NoValue)
            \/ PushReturn(t) /\ Becomes(t, "pushed", NoValue, "idle", NoValue)
            \/ ~PushLink(t) /\ Unseen(t)
<1>0. mode' = mode
  BY Effects, OtherRows, PushRows DEF CallStep, ClientStep, PushStep, Row, Same, Clear, Restart
<1> DEFINE val(p, d) == IF p \in Popping THEN NoValue ELSE d
<1>1. ASSUME NEW from, NEW to, NEW d, pc[t] = from, pc'[t] = to, loc'[t].data = d,
             from \in Pending \cup Pushed \cup {"idle"}, to \in Pending \cup Pushed \cup {"idle"},
             to \in Pushed \cup {"idle"} => d = NoValue
      PROVE  /\ DataOK(t)' /\ Becomes(t, OpOf(from, mode), loc[t].data, OpOf(to, mode), d)
             /\ from \in Pushed \cup {"idle"} => loc[t].data = NoValue
  <2>1. from \notin Popping /\ to \notin Popping /\ to \notin {"o_cas"} \cup Popped \cup Peeking \cup Testing \cup Destroying
    BY <1>1 DEF Popping, Pending, Owning, Pushed, Popped, Peeking, Testing, Destroying
  <2>2. DataOK(t)'
    BY <1>1, <2>1 DEF DataOK
  <2>3. from \in Pushed \cup {"idle"} => loc[t].data = NoValue
    BY <1>1 DEF DataOK
  <2> QED
    BY <1>0, <1>1, <2>1, <2>2, <2>3 DEF Becomes
<1> USE DEF Row, Same, Clear, Restart, Pending, Owning, Pushed
<1>2. CASE PushCall(t)
  <2>1. pc[t] = "idle" /\ pc'[t] = "p_alloc" /\ loc'[t].data = calls + 1
    BY <1>2, PushRows
  <2> QED
    BY <1>1, <1>2, <2>1, OpTable
<1>3. CASE PushLink(t)
  <2>1. pc[t] = "p_link" /\ pc'[t] = "p_last" /\ loc'[t].data = NoValue
    BY <1>3, PushRows
  <2> QED
    BY <1>1, <1>3, <2>1, OpTable
<1>4. CASE PushFull(t)
  <2>1. pc[t] = "p_alloc" /\ pc'[t] = "idle" /\ loc'[t].data = NoValue
    BY <1>4, PushRows
  <2> QED
    BY <1>1, <1>4, <2>1, OpTable
<1>5. CASE PushReturn(t)
  <2>1. pc[t] = "p_count" /\ pc'[t] = "idle" /\ loc'[t].data = loc[t].data /\ loc[t].data = NoValue
    BY <1>5, PushRows DEF DataOK
  <2> QED
    BY <1>1, <1>5, <2>1, OpTable
<1>6. CASE PushStep(t) /\ ~PushLink(t) /\ ~PushFull(t) /\ ~PushReturn(t)
  <2>1. \/ pc[t] \in Pending /\ pc'[t] \in Pending /\ loc'[t].data = loc[t].data
        \/ pc[t] \in Pushed /\ pc'[t] \in Pushed /\ loc'[t].data = NoValue
    BY <1>6, PushRows DEF PushStep, DataOK
  <2>2. Unseen(t) /\ DataOK(t)'
    <3>1. CASE pc[t] \in Pending /\ pc'[t] \in Pending /\ loc'[t].data = loc[t].data
      <4>1. DataOK(t)' /\ Becomes(t, OpOf(pc[t], mode), loc[t].data, OpOf(pc'[t], mode), loc[t].data)
        BY <1>1, <3>1
      <4>2. OpOf(pc[t], mode) = "push" /\ OpOf(pc'[t], mode) = "push"
        BY <3>1, OpTable
      <4> QED
        BY <4>1, <4>2 DEF Unseen
    <3>2. CASE pc[t] \in Pushed /\ pc'[t] \in Pushed /\ loc'[t].data = NoValue
      <4>1. /\ DataOK(t)' /\ Becomes(t, OpOf(pc[t], mode), loc[t].data, OpOf(pc'[t], mode), NoValue)
            /\ loc[t].data = NoValue
        BY <1>1, <3>2
      <4>2. OpOf(pc[t], mode) = "pushed" /\ OpOf(pc'[t], mode) = "pushed"
        BY <3>2, OpTable
      <4> QED
        BY <4>1, <4>2 DEF Unseen
    <3> QED
      BY <2>1, <3>1, <3>2
  <2> QED
    BY <1>6, <2>2
<1> QED
  BY <1>2, <1>3, <1>4, <1>5, <1>6

\* What FifoQueue sees of pop.
LEMMA PopSeen ==
  ASSUME TypeInv, ModesOK, NEW t \in Thread, DataOK(t), PopStep(t) \/ PopCall(t)
  PROVE  /\ DataOK(t)'
         /\ \/ PopCall(t) /\ Becomes(t, "idle", NoValue, "pop", NoValue)
            \/ PopUnlink(t) /\ mode = "open" /\ Becomes(t, "pop", NoValue, "popped", loc[t].data)
            \/ PopUnlink(t) /\ mode # "open" /\ Becomes(t, "idle", NoValue, "idle", NoValue)
            \/ PopEmpty(t) /\ mode = "open" /\ Becomes(t, "pop", NoValue, "idle", NoValue)
            \/ PopReturn(t) /\ mode = "open" /\ \E v : Becomes(t, "popped", v, "idle", NoValue)
            \/ ~PopUnlink(t) /\ Unseen(t)
<1>0. mode' = mode
  <2>1. PopStep(t) => pc[t] \notin {"idle", "d_done"}
    BY PopRows DEF PopStep, Row, Same, Clear, Restart
  <2>2. PopStep(t) => ~Destroy(t) /\ ~DestroyReturn(t)
    BY <2>1 DEF Destroy, DestroyReturn, Goto
  <2>3. PopCall(t) => mode' = mode
    BY DEF PopCall, shared, client
  <2> QED
    BY <2>2, <2>3, Effects DEF CallStep, ClientStep
<1>00. pc[t] # "idle" => mode \in {"open", "draining"}
  BY DEF ModesOK, TypeInv, TypeOK
<1> DEFINE val(p, d) == IF p \in Popping THEN NoValue ELSE d
           Pops2 == Popping \cup Popped \cup {"idle", "d_release"}
<1>1. ASSUME pc[t] \in Pops2, pc'[t] \in Pops2,
             pc'[t] \in {"idle", "d_release"} => loc'[t].data = NoValue,
             mode # "open" /\ pc'[t] \in {"o_cas"} \cup Popped => loc'[t].data = NoValue
      PROVE  /\ DataOK(t)'
             /\ Becomes(t, OpOf(pc[t], mode), val(pc[t], loc[t].data), OpOf(pc'[t], mode), val(pc'[t], loc'[t].data))
  <2>1. pc'[t] \notin Pushed \cup Peeking \cup Testing \cup {"d_free", "d_done"}
    BY <1>1 DEF Popping, Pushed, Popped, Peeking, Testing
  <2>2. DataOK(t)'
    BY <1>0, <1>1, <2>1 DEF DataOK, Destroying
  <2> QED
    BY <1>0, <2>2 DEF Becomes
<1>2. CASE PopCall(t)
  <2>1. pc[t] = "idle" /\ pc'[t] = "o_head" /\ loc'[t].data = loc[t].data /\ mode = "open"
    BY <1>2, PopRows DEF Row, Same, PopCall
  <2>2. loc[t].data = NoValue
    BY <2>1 DEF DataOK
  <2> QED
    BY <1>1, <1>2, <2>1, <2>2, OpTable DEF Popping, Popped
<1>3. CASE PopUnlink(t)
  <2>1. pc[t] = "o_cas" /\ pc'[t] = "o_end" /\ loc'[t].data = loc[t].data
    BY <1>3, PopRows DEF Row
  <2>2. mode # "open" => loc[t].data = NoValue
    BY <2>1 DEF DataOK
  <2> QED
    BY <1>1, <1>3, <2>1, <2>2, OpTable DEF Popping, Popped
<1>4. CASE PopEmpty(t)
  <2>1. pc[t] = "o_check" /\ pc'[t] = (IF mode = "draining" THEN "d_release" ELSE "idle") /\ loc'[t].data = NoValue
    BY <1>4, PopRows DEF Row, Clear
  <2>2. ~PopUnlink(t)
    BY <2>1, PopRows DEF Row
  <2> QED
    BY <1>00, <1>1, <1>4, <2>1, <2>2, OpTable DEF Popping, Popped, Unseen, Destroying
<1>5. CASE PopReturn(t)
  <2>1. pc[t] = "o_count" /\ pc'[t] = (IF mode = "draining" THEN "o_head" ELSE "idle") /\ loc'[t].data = NoValue
    BY <1>5, PopRows DEF Row, Clear
  <2>2. ~PopUnlink(t)
    BY <2>1, PopRows DEF Row
  <2>3. mode # "open" => loc[t].data = NoValue
    BY <2>1 DEF DataOK, Popped
  <2> QED
    BY <1>00, <1>1, <1>5, <2>1, <2>2, <2>3, OpTable DEF Popping, Popped, Unseen
<1>6. CASE PopStep(t) /\ ~PopUnlink(t) /\ ~PopEmpty(t) /\ ~PopReturn(t)
  <2>1. \/ /\ pc[t] \in Popping /\ pc'[t] \in Popping
           /\ pc'[t] = "o_cas" /\ mode = "draining" => loc'[t].data = NoValue
        \/ pc[t] \in Popped /\ pc'[t] \in Popped /\ loc'[t].data = loc[t].data
    BY <1>6, PopRows DEF PopStep, Row, Same, Clear, Restart, Popping, Popped
  <2>2. Unseen(t) /\ DataOK(t)'
    <3>1. CASE pc[t] \in Popping /\ pc'[t] \in Popping /\ (pc'[t] = "o_cas" /\ mode = "draining" => loc'[t].data = NoValue)
      <4>0. pc[t] # "idle" /\ pc'[t] \notin Popped \cup {"idle", "d_release"}
        BY <3>1 DEF Popping, Popped
      <4>1. DataOK(t)' /\ Becomes(t, OpOf(pc[t], mode), NoValue, OpOf(pc'[t], mode), NoValue)
        BY <1>00, <1>1, <3>1, <4>0
      <4>2. OpOf(pc[t], mode) = OpOf(pc'[t], mode)
        <5>1. CASE mode = "open"
          BY <3>1, <5>1, OpTable
        <5>2. CASE mode # "open"
          BY <3>1, <5>2, OpTable
        <5> QED
          BY <5>1, <5>2
      <4> QED
        BY <4>1, <4>2 DEF Unseen
    <3>2. CASE pc[t] \in Popped /\ pc'[t] \in Popped /\ loc'[t].data = loc[t].data
      <4>0. pc[t] \notin Popping /\ pc'[t] \notin Popping /\ pc'[t] \notin {"idle", "d_release"}
        BY <3>2 DEF Popping, Popped
      <4>3. mode # "open" => loc[t].data = NoValue
        BY <3>2 DEF DataOK
      <4>1. DataOK(t)' /\ Becomes(t, OpOf(pc[t], mode), loc[t].data, OpOf(pc'[t], mode), loc[t].data)
        BY <1>1, <3>2, <4>0, <4>3
      <4>2. OpOf(pc[t], mode) = OpOf(pc'[t], mode)
        <5>1. CASE mode = "open"
          BY <3>2, <5>1, OpTable
        <5>2. CASE mode # "open"
          BY <3>2, <5>2, OpTable
        <5> QED
          BY <5>1, <5>2
      <4> QED
        BY <4>1, <4>2 DEF Unseen
    <3> QED
      BY <2>1, <3>1, <3>2
  <2> QED
    BY <1>6, <2>2
<1> QED
  BY <1>2, <1>3, <1>4, <1>5, <1>6

\* FifoQueue sees nothing of peek, empty and the release of the dummy.
LEMMA OtherSeen ==
  ASSUME TypeInv, ModesOK, NEW t \in Thread, DataOK(t), PeekStep(t) \/ PeekCall(t) \/ DestroyStep(t) \/ Destroy(t)
  PROVE  DataOK(t)' /\ Becomes(t, "idle", NoValue, "idle", NoValue) /\ ~PushLink(t) /\ ~PopUnlink(t)
<1> DEFINE Off == Peeking \cup Testing \cup Destroying \cup {"idle"}
<1>1. /\ pc[t] \in Off
      /\ pc'[t] \in Off \/ (Destroy(t) /\ pc'[t] = "o_head")
      /\ loc'[t].data \in {loc[t].data, NoValue}
  <2>1. CASE PeekStep(t) \/ PeekCall(t)
    BY <2>1, OtherRows DEF PeekStep, PeekReturn, EmptyReturn, Row, Same, Clear, Peeking, Testing
  <2>2. CASE DestroyStep(t) \/ Destroy(t)
    BY <2>2, OtherRows DEF DestroyStep, Row, Same, Destroying
  <2> QED
    BY <2>1, <2>2
<1>2. loc[t].data = NoValue /\ loc'[t].data = NoValue
  BY <1>1 DEF DataOK
<1>3. DataOK(t)'
  BY <1>2 DEF DataOK
<1>4. Destroy(t) => mode' = "draining"
  BY DEF Destroy
<1>5. OpOf(pc[t], mode) = "idle" /\ OpOf(pc[t], mode)' = "idle"
  <2>1. OpOf(pc[t], mode) = "idle"
    BY <1>1, OpTable
  <2>2. OpOf(pc[t], mode)' = OpOf(pc'[t], mode')
    OBVIOUS
  <2>3. OpOf(pc'[t], mode') = "idle"
    <3>1. CASE pc'[t] \in Off
      BY <3>1, OpTable
    <3>2. CASE Destroy(t) /\ pc'[t] = "o_head"
      <4>1. pc'[t] \in Popping /\ mode' # "open"
        BY <1>4, <3>2 DEF Popping
      <4> QED
        BY <4>1, OpTable
    <3> QED
      BY <1>1, <3>1, <3>2
  <2> QED
    BY <2>1, <2>2, <2>3
<1>6. ~PushLink(t) /\ ~PopUnlink(t)
  <2>1. pc[t] \notin {"p_link", "o_cas"}
    BY <1>1 DEF Peeking, Testing, Destroying
  <2> QED
    BY <2>1 DEF PushLink, PopUnlink, Goto
<1> QED
  BY <1>2, <1>3, <1>5, <1>6 DEF Becomes

\* The other threads look the same to FifoQueue.
LEMMA OthersSeen ==
  ASSUME TypeInv, ModesOK, NEW t \in Thread, CallStep(t) \/ ClientStep(t), NEW u \in Thread \ {t}, DataOK(u)
  PROVE  /\ DataOK(u)'
         /\ OpOf(pc[u], mode)' = OpOf(pc[u], mode)
         /\ (IF pc[u] \in Popping THEN NoValue ELSE loc[u].data)'
              = (IF pc[u] \in Popping THEN NoValue ELSE loc[u].data)
<1>1. pc'[u] = pc[u] /\ loc'[u] = loc[u]
  BY Flow
<1>2. CASE UNCHANGED mode
  BY <1>1, <1>2 DEF DataOK
<1>3. CASE Destroy(t) \/ DestroyReturn(t)
  <2>1. pc[u] = "idle"
    <3>1. DestroyReturn(t) => pc[t] = "d_done"
      BY DEF DestroyReturn, Goto
    <3>2. Destroy(t) => pc[u] = "idle"
      BY DEF Destroy
    <3> QED
      BY <1>3, <3>1, <3>2 DEF ModesOK, Destroying
  <2>2. OpOf(pc[u], mode) = "idle" /\ OpOf(pc'[u], mode') = "idle"
    BY <1>1, <2>1, OpTable
  <2>3. DataOK(u)'
    BY <1>1, <2>1 DEF DataOK, Popped
  <2> QED
    BY <1>1, <2>2, <2>3
<1> QED
  BY <1>2, <1>3, Effects

\* Sequences of slots and of items, lengthened and shortened.
LEMMA SeqGrown ==
  ASSUME NEW V, NEW q, q \in Seq(V), NEW s \in V, NEW r, Grown(r, q, s)
  PROVE  /\ r \in Seq(V) /\ Len(r) = Len(q) + 1 /\ Len(q) \in Nat
         /\ \A i \in 1 .. Len(q) : r[i] = q[i]
         /\ r[Len(q) + 1] = s
BY DEF Grown

\* A sequence without its first element.
LEMMA SeqShrunk ==
  ASSUME NEW V, NEW q, q \in Seq(V), Len(q) # 0, NEW r, Shrunk(r, q)
  PROVE  /\ r \in Seq(V) /\ Len(r) = Len(q) - 1 /\ Len(q) \in Nat \ {0}
         /\ \A i \in 1 .. Len(r) : r[i] = q[i + 1]
         /\ q # <<>> /\ Head(q) = q[1]
<1>1. Len(q) \in Nat \ {0} /\ q # <<>>
  OBVIOUS
<1> QED
  BY <1>1 DEF Shrunk

Item == Value \cup {NoValue}
NodeData == [Slot -> Item]
ItemsAre(C, c, data) == C = ContentsOf(c, data)

\* The items of a list of n + 1 nodes.
LEMMA ItemsOf ==
  ASSUME NEW data, data \in NodeData, NEW n \in Nat, NEW c, c \in Walks, Len(c) = n + 1,
         NEW C, ItemsAre(C, c, data)
  PROVE  C \in Seq(Item) /\ Len(C) = n /\ \A i \in 1 .. n : C[i] = data[c[i + 1]]
<1>1. Len(c) - 1 = n
  OBVIOUS
<1>2. C = ContentsOf(c, data)
  BY DEF ItemsAre
<1>3. ContentsOf(c, data) \in Seq(Item) /\ Len(ContentsOf(c, data)) = Len(c) - 1
      /\ \A i \in 1 .. Len(c) - 1 : ContentsOf(c, data)[i] = data[c[i + 1]]
  BY ContentsSeq DEF NodeData
<1> QED
  BY <1>1, <1>2, <1>3

\* The list of items when a node is linked and when one is unlinked.
LEMMA ItemsGrow ==
  ASSUME NEW c \in Walks, NEW data \in NodeData, NEW s \in Slot, NEW d, Grown(d, c, s)
  PROVE  ContentsOf(d, data) = Append(ContentsOf(c, data), data[s])
<1>1. c \in Seq(Slot) /\ Len(c) \in Nat \ {0}
  BY DEF Walks
<1>2. PICK n \in Nat : Len(c) = n + 1
  <2>1. Len(c) = (Len(c) - 1) + 1 /\ Len(c) - 1 \in Nat
    BY <1>1
  <2> QED
    BY <2>1
<1>3. /\ d \in Seq(Slot) /\ Len(d) = (n + 1) + 1 /\ d[(n + 1) + 1] = s
      /\ \A i \in 1 .. n + 1 : d[i] = c[i]
  BY <1>1, <1>2, SeqGrown
<1>4. d \in Walks
  BY <1>3 DEF Walks
<1>50. PICK x \in Item : x = data[s]
  BY DEF NodeData
<1>5. PICK C, D, E : ItemsAre(C, c, data) /\ ItemsAre(D, d, data) /\ Grown(E, C, x)
  BY DEF ItemsAre, Grown
<1>6. C \in Seq(Item) /\ Len(C) = n /\ \A i \in 1 .. n : C[i] = data[c[i + 1]]
  BY <1>2, <1>5, ItemsOf
<1>7. D \in Seq(Item) /\ Len(D) = n + 1 /\ \A i \in 1 .. n + 1 : D[i] = data[d[i + 1]]
  <2>1. PICK m \in Nat : m = n + 1
    OBVIOUS
  <2>2. D \in Seq(Item) /\ Len(D) = m /\ \A i \in 1 .. m : D[i] = data[d[i + 1]]
    <3>1. Len(d) = m + 1
      BY <1>3, <2>1
    <3> QED
      BY <1>4, <1>5, <3>1, ItemsOf
  <2> QED
    BY <2>1, <2>2
<1>8. E \in Seq(Item) /\ Len(E) = n + 1 /\ E[n + 1] = x /\ \A i \in 1 .. n : E[i] = C[i]
  <2>1. C \in Seq(Item) /\ Len(C) = n
    BY <1>6
  <2>2. /\ E \in Seq(Item) /\ Len(E) = Len(C) + 1 /\ E[Len(C) + 1] = x
        /\ \A i \in 1 .. Len(C) : E[i] = C[i]
    BY <1>5, <2>1, SeqGrown
  <2> QED
    BY <2>1, <2>2
<1>9. ASSUME NEW i \in 1 .. n + 1 PROVE D[i] = E[i]
  <2>1. CASE i = n + 1
    BY <1>3, <1>50, <1>7, <1>8, <2>1
  <2>2. CASE i # n + 1
    <3>1. i \in 1 .. n /\ i + 1 \in 1 .. n + 1
      BY <2>2
    <3>2. D[i] = data[c[i + 1]] /\ E[i] = data[c[i + 1]]
      BY <1>3, <1>6, <1>7, <1>8, <3>1
    <3> QED
      BY <3>2
  <2> QED
    BY <2>1, <2>2
<1>10. D = E
  BY <1>7, <1>8, <1>9
<1> QED
  BY <1>5, <1>50, <1>10 DEF ItemsAre, Grown

\* A list that loses its first node loses its first item.
LEMMA ItemsShrink ==
  ASSUME NEW c \in Walks, Len(c) > 1, NEW data \in NodeData, NEW d, Shrunk(d, c)
  PROVE  /\ ContentsOf(c, data) # <<>>
         /\ ContentsOf(d, data) = Tail(ContentsOf(c, data))
         /\ Head(ContentsOf(c, data)) = data[c[2]]
<1>1. c \in Seq(Slot) /\ Len(c) \in Nat /\ Len(c) # 0
  BY DEF Walks
<1>2. PICK n \in Nat : Len(c) = (n + 1) + 1
  <2>1. Len(c) = (Len(c) - 2 + 1) + 1 /\ Len(c) - 2 \in Nat
    BY <1>1
  <2> QED
    BY <2>1
<1>3. d \in Seq(Slot) /\ Len(d) = n + 1 /\ \A i \in 1 .. n + 1 : d[i] = c[i + 1]
  <2>1. d \in Seq(Slot) /\ Len(d) = Len(c) - 1 /\ \A i \in 1 .. Len(d) : d[i] = c[i + 1]
    BY <1>1, SeqShrunk
  <2>2. Len(d) = n + 1
    BY <1>2, <2>1
  <2> QED
    BY <2>1, <2>2
<1>4. d \in Walks
  BY <1>3 DEF Walks
<1>5. PICK C, D, E : ItemsAre(C, c, data) /\ ItemsAre(D, d, data) /\ Shrunk(E, C)
  BY DEF ItemsAre, Shrunk
<1>6. C \in Seq(Item) /\ Len(C) = n + 1 /\ \A i \in 1 .. n + 1 : C[i] = data[c[i + 1]]
  <2>1. PICK m \in Nat : m = n + 1
    OBVIOUS
  <2>2. C \in Seq(Item) /\ Len(C) = m /\ \A i \in 1 .. m : C[i] = data[c[i + 1]]
    <3>1. Len(c) = m + 1
      BY <1>2, <2>1
    <3> QED
      BY <1>5, <3>1, ItemsOf
  <2> QED
    BY <2>1, <2>2
<1>7. D \in Seq(Item) /\ Len(D) = n /\ \A i \in 1 .. n : D[i] = data[d[i + 1]]
  BY <1>3, <1>4, <1>5, ItemsOf
<1>8. E \in Seq(Item) /\ Len(E) = n /\ C # <<>> /\ Head(C) = C[1] /\ \A i \in 1 .. n : E[i] = C[i + 1]
  <2>1. Shrunk(E, C) /\ Len(C) # 0
    BY <1>5, <1>6
  <2>2. /\ E \in Seq(Item) /\ Len(E) = Len(C) - 1 /\ C # <<>> /\ Head(C) = C[1]
        /\ \A i \in 1 .. Len(E) : E[i] = C[i + 1]
    BY <1>6, <2>1, SeqShrunk
  <2>3. Len(E) = n
    BY <1>6, <2>2
  <2> QED
    BY <2>2, <2>3
<1>9. ASSUME NEW i \in 1 .. n PROVE D[i] = E[i]
  <2>1. i + 1 \in 1 .. n + 1
    OBVIOUS
  <2>2. D[i] = data[c[i + 1 + 1]] /\ E[i] = data[c[i + 1 + 1]]
    BY <1>3, <1>6, <1>7, <1>8, <2>1
  <2> QED
    BY <2>2
<1>10. D = E
  BY <1>7, <1>8, <1>9
<1>11. 1 \in 1 .. n + 1 /\ 1 + 1 = 2
  OBVIOUS
<1>12. Head(C) = data[c[2]]
  BY <1>6, <1>8, <1>11
<1> QED
  BY <1>5, <1>8, <1>10, <1>12 DEF ItemsAre, Shrunk

\* What a step does to the items: the link of push adds its item at the end, the move of
\* head takes the item that the pop has read, and no other step changes them.
LEMMA ItemsMove ==
  ASSUME QueueInv, Undisturbed, NEW t \in Thread, CallStep(t) \/ ClientStep(t), Watch
  PROVE  /\ PushLink(t) => Contents' = Append(Contents, loc[t].data)
         /\ PopUnlink(t) => /\ Contents # <<>> /\ Contents' = Tail(Contents)
                            /\ mode = "open" => loc[t].data = Head(Contents)
         /\ ~PushLink(t) /\ ~PopUnlink(t) => Contents' = Contents
<1>1. PICK L, M : L = Chain /\ M = Chain'
  OBVIOUS
<1>2. TypeInv /\ ModesOK /\ NodesOK(L) /\ Pops(t) /\ Sound(t, L)
  BY <1>1, QueueStep DEF QueueInv
<1>3. IF PushLink(t) THEN Grown(M, L, loc[t].new_h.slot)
      ELSE IF PopUnlink(t) THEN Shrunk(M, L) ELSE M = L
  BY <1>1, QueueStep
<1>4. Contents = ContentsOf(L, node_data) /\ Contents' = ContentsOf(M, node_data')
  BY <1>1, ContentsIs
<1>5. L \in Walks /\ node_data \in NodeData
  BY <1>2 DEF NodesOK, IsList, Walks, TypeInv, TypeOK, NodeData, Item
<1>6. ASSUME PushLink(t) PROVE Contents' = Append(Contents, loc[t].data)
  <2>1. node_data' = node_data /\ pc[t] = "p_link"
    BY <1>6 DEF PushLink, Goto
  <2>2. PICK s \in Slot : s = loc[t].new_h.slot /\ node_data[s] = loc[t].data
    <3>1. loc[t].new_h.slot \in Slot
      BY <1>2, <2>1, Live, HandleFields DEF Owning
    <3> QED
      BY <1>2, <2>1, <3>1 DEF NodesOK, HandOK, Owning
  <2>3. Grown(M, L, s)
    BY <1>3, <1>6, <2>2
  <2>4. ContentsOf(M, node_data) = Append(ContentsOf(L, node_data), node_data[s])
    BY <1>5, <2>3, ItemsGrow
  <2> QED
    BY <1>4, <2>1, <2>2, <2>4
<1>7. ASSUME PopUnlink(t)
      PROVE  /\ Contents # <<>> /\ Contents' = Tail(Contents)
             /\ mode = "open" => loc[t].data = Head(Contents)
  <2>1. /\ node_data' = node_data /\ pc[t] = "o_cas" /\ loc[t].head_h = head
        /\ head' = loc[t].next_h /\ CallStep(t) /\ ~PushLink(t)
    BY <1>7 DEF PopUnlink, Goto, CallStep, PopStep, PushLink, nodes
  <2>2. Shrunk(M, L)
    BY <1>3, <1>7, <2>1
  <2>3. Len(L) > 1 /\ head' = Here(L[2])
    BY <1>2, <1>7, <2>1, <2>2, NodesUnlink DEF Sound
  <2>4. /\ ContentsOf(L, node_data) # <<>>
        /\ ContentsOf(M, node_data) = Tail(ContentsOf(L, node_data))
        /\ Head(ContentsOf(L, node_data)) = node_data[L[2]]
    BY <1>5, <2>2, <2>3, ItemsShrink
  <2>5. loc[t].next_h.slot = L[2]
    BY <2>1, <2>3, HandleFields DEF Here, Handle
  <2>6. mode = "open" => loc[t].data = node_data[L[2]]
    BY <1>2, <2>1, <2>5 DEF Pops, AtHead
  <2> QED
    BY <1>4, <2>1, <2>4, <2>6
<1>8. ASSUME ~PushLink(t), ~PopUnlink(t) PROVE Contents' = Contents
  <2>1. M = L
    BY <1>3, <1>8
  <2>2. PICK n \in Nat : n = Len(L) - 1 /\ \A i \in 1 .. n : i + 1 \in 1 .. Len(L) /\ L[i + 1] \in Slot
    <3>1. L \in Seq(Slot) /\ Len(L) \in Nat \ {0}
      BY <1>5 DEF Walks
    <3>2. Len(L) - 1 \in Nat /\ \A i \in 1 .. Len(L) - 1 : i + 1 \in 1 .. Len(L) /\ L[i + 1] \in Slot
      BY <3>1
    <3> QED
      BY <3>2
  <2>3. \A i \in 1 .. n : node_data'[L[i + 1]] = node_data[L[i + 1]]
    BY <1>2, <2>2, MemoryStep DEF InSeq
  <2>4. /\ ContentsOf(L, node_data) = [i \in 1 .. n |-> node_data[L[i + 1]]]
        /\ ContentsOf(L, node_data') = [i \in 1 .. n |-> node_data'[L[i + 1]]]
    BY <2>2 DEF ContentsOf
  <2> QED
    BY <1>4, <2>1, <2>3, <2>4
<1> QED
  BY <1>6, <1>7, <1>8

\* There is no front item exactly when there is no item.
LEMMA NoFront ==
  /\ QueueInv => (Front = NoValue <=> Contents = <<>>)
  /\ QueueInv' => (Front' = NoValue <=> Contents' = <<>>)
<1>1. ASSUME NEW L, NEW data, data \in NodeData, NEW C, NEW F, L \in Walks, C = ContentsOf(L, data),
             F = (IF Len(L) = 1 THEN NoValue ELSE data[L[2]]), \A i \in 1 .. Len(L) : i = 1 \/ data[L[i]] \in Value
      PROVE  F = NoValue <=> C = <<>>
  <2>1. C = <<>> <=> Len(L) = 1
    BY <1>1, ContentsSeq DEF NodeData
  <2>2. Len(L) \in Nat \ {0}
    BY <1>1 DEF Walks
  <2>3. Len(L) # 1 => 2 \in 1 .. Len(L) /\ 2 # 1
    <3>1. PICK n \in Nat : n = Len(L) /\ n # 0
      BY <2>2
    <3>2. n # 1 => 2 \in 1 .. n
      BY <3>1
    <3> QED
      BY <3>1, <3>2
  <2>4. NoValue \notin Value
    BY DEF NoValue, Value
  <2> QED
    BY <1>1, <2>1, <2>3, <2>4
<1>2. ASSUME QueueInv PROVE Front = NoValue <=> Contents = <<>>
  <2>1. PICK L : L = Chain
    OBVIOUS
  <2>2. IsList(L) /\ TypeInv /\ node_data \in NodeData
    BY <1>2, <2>1 DEF QueueInv, NodesOK, TypeInv, TypeOK, NodeData, Item
  <2>3. L \in Walks /\ \A i \in 1 .. Len(L) : i = 1 \/ node_data[L[i]] \in Value
    BY <2>2 DEF IsList, Walks
  <2>4. Contents = ContentsOf(L, node_data)
    BY <2>1, ContentsIs
  <2>5. Front = IF Len(L) = 1 THEN NoValue ELSE node_data[L[2]]
    BY <2>2, FrontIs
  <2> QED
    BY <1>1, <2>2, <2>3, <2>4, <2>5
<1>3. ASSUME QueueInv' PROVE Front' = NoValue <=> Contents' = <<>>
  <2>1. PICK L : L = Chain'
    OBVIOUS
  <2>2. IsList(L)' /\ TypeInv' /\ node_data' \in NodeData
    BY <1>3, <2>1 DEF QueueInv, NodesOK, TypeInv, TypeOK, NodeData, Item
  <2>3. L \in Walks /\ \A i \in 1 .. Len(L) : i = 1 \/ node_data'[L[i]] \in Value
    BY <2>2 DEF IsList, Walks
  <2>4. Contents' = ContentsOf(L, node_data')
    BY <2>1, ContentsIs
  <2>5. Front' = IF Len(L) = 1 THEN NoValue ELSE node_data'[L[2]]
    BY <2>2, FrontIs
  <2> QED
    BY <1>1, <2>2, <2>3, <2>4, <2>5
<1> QED
  BY <1>2, <1>3

\* A step of the code is noticed as FifoQueue asks: every pop in progress notices each
\* moment at which the queue is empty, and forgets it only when it returns.
LEMMA NoticeStep ==
  ASSUME QueueInv, Undisturbed, NEW t \in Thread, CallStep(t) \/ ClientStep(t), Watch,
         NEW u \in Thread, NoticeOK(u)
  PROVE  /\ NoticeOK(u)'
         /\ (pc'[u] \in Popping /\ mode' = "open" /\ NoValue \in seen'[u])
              <=> /\ OpOf(pc'[u], mode') = "pop"
                  /\ \/ Contents' = <<>>
                     \/ /\ OpOf(pc[u], mode) = "pop"
                        /\ pc[u] \in Popping /\ mode = "open" /\ NoValue \in seen[u]
<1>1. Front' = NoValue <=> Contents' = <<>>
  BY QueueStep, NoFront
<1>2. TypeInv /\ ModesOK
  BY DEF QueueInv
<1>3. pc'[u] \in Popping => seen'[u] = seen[u] \cup ({Front'} \cap {NoValue})
  BY SeenStep
<1>4. pc'[u] = "idle" => seen'[u] = {}
  BY SeenStep DEF Popping, Peeking, Testing
<1>5. NoticeOK(u)'
  BY <1>1, <1>3, <1>4 DEF NoticeOK
<1>6. OpOf(pc'[u], mode') = "pop" <=> pc'[u] \in Popping /\ mode' = "open"
  BY OpTable
<1>7. OpOf(pc[u], mode) = "pop" <=> pc[u] \in Popping /\ mode = "open"
  BY OpTable
<1>8. ASSUME pc'[u] \in Popping, mode' = "open"
      PROVE  mode = "open" /\ (pc[u] \in Popping \/ seen[u] = {})
  <2>1. UNCHANGED mode
    BY <1>8, Effects DEF Destroy, DestroyReturn
  <2>2. mode = "open"
    BY <1>8, <2>1
  <2>3. pc[u] \in Popping \/ pc[u] = "idle"
    <3>1. CASE u # t
      BY <1>2, <1>8, <3>1, Flow
    <3>2. CASE u = t
      <4>1. CASE PushStep(t) \/ PushCall(t)
        BY <1>2, <1>8, <3>2, <4>1, PushRows DEF PushStep, Row, Same, Clear, Restart, Popping
      <4>2. CASE PopStep(t) \/ PopCall(t)
        BY <1>2, <1>8, <2>2, <3>2, <4>2, PopRows DEF PopStep, Row, Same, Clear, Restart, Popping
      <4>3. CASE PeekStep(t) \/ PeekCall(t)
        BY <1>2, <1>8, <3>2, <4>3, OtherRows DEF PeekStep, PeekReturn, EmptyReturn, Row, Same, Clear, Popping
      <4>4. CASE DestroyStep(t) \/ Destroy(t)
        BY <1>2, <1>8, <3>2, <4>4, OtherRows DEF DestroyStep, Row, Same, Popping
      <4> QED
        BY <4>1, <4>2, <4>3, <4>4 DEF CallStep, ClientStep
    <3> QED
      BY <3>1, <3>2
  <2> QED
    BY <2>2, <2>3 DEF NoticeOK
<1> QED
  BY <1>1, <1>3, <1>5, <1>6, <1>7, <1>8

\* The size of a set that is the image of another.
LEMMA ImageSize ==
  ASSUME NEW S, IsFiniteSet(S), NEW f, f \in [S -> {f[x] : x \in S}]
  PROVE  /\ IsFiniteSet({f[x] : x \in S}) /\ Cardinality({f[x] : x \in S}) \in Nat
         /\ Cardinality({f[x] : x \in S}) <= Cardinality(S) /\ Cardinality(S) \in Nat
<1> DEFINE T == {f[x] : x \in S}
<1>1. f \in Surjection(S, T)
  BY DEF Surjection
<1> HIDE DEF T
<1>2. IsFiniteSet(T) /\ Cardinality(T) <= Cardinality(S)
  BY <1>1, FS_Surjection
<1> QED
  BY <1>2, FS_CardinalityType DEF T

\* When the pool is empty, the nodes and the slots in the hands of other calls fill it: a
\* push fails only then.
LEMMA FullPool ==
  ASSUME IsFiniteSet(Thread), QueueInv, NEW t \in Thread, pc[t] = "p_alloc", free = <<>>
  PROVE  Len(Contents) + Cardinality({u \in Thread \ {t} : ops[u] \in {"push", "popped"}}) >= Capacity
<1>1. PICK L : L = Chain
  OBVIOUS
<1>2. TypeInv /\ ModesOK /\ NodesOK(L)
  BY <1>1 DEF QueueInv
<1>3. mode = "open" /\ ~Gone
  <2>1. mode = "open"
    BY <1>2 DEF ModesOK, Draining, Popping, Destroying
  <2> QED
    BY <1>2, <2>1, Present
<1> DEFINE H == {u \in Thread \ {t} : ops[u] \in {"push", "popped"}}
           f == [u \in H |-> IF pc[u] \in Owning THEN loc[u].new_h.slot ELSE loc[u].head_h.slot]
           T == {f[u] : u \in H}
           R == {L[i] : i \in 1 .. Len(L)}
<1>4. \A u \in Thread : ops[u] = OpOf(pc[u], mode)
  BY DEF ops
<1>5. ASSUME NEW s \in Slot PROVE s \in R \cup T
  <2>1. ~InSeq(s, free)
    <3>1. Len(free) = 0
      OBVIOUS
    <3> QED
      BY <3>1 DEF InSeq
  <2>2. CASE InSeq(s, L)
    BY <2>2 DEF InSeq
  <2>3. CASE ~InSeq(s, L)
    <3>1. PICK u \in Thread : Holds(u, s)
      BY <1>2, <2>1, <2>3 DEF NodesOK, Apart
    <3>2. \/ pc[u] \in Owning /\ s = loc[u].new_h.slot
          \/ pc[u] \in {"o_end", "o_free"} /\ pc[u] \notin Owning /\ s = loc[u].head_h.slot
      <4>1. pc[u] # "d_free"
        BY <1>2, <1>3 DEF ModesOK, Destroying
      <4> QED
        BY <3>1, <4>1 DEF Holds, Owning
    <3>3. u # t
      BY <3>2 DEF Owning
    <3>4. OpOf(pc[u], mode) \in {"push", "popped"}
      BY <1>3, <3>2, OpTable DEF Pending, Popped
    <3>5. u \in H
      BY <1>4, <3>3, <3>4
    <3>6. f[u] = s
      BY <3>2, <3>5
    <3> QED
      BY <3>5, <3>6
  <2> QED
    BY <2>2, <2>3
<1>6. IsFiniteSet(H) /\ f \in [H -> T]
  BY FS_Subset
<1>7. L \in [1 .. Len(L) -> R] /\ Len(L) \in Nat
  <2>1. L \in Seq(Slot)
    BY <1>2 DEF NodesOK, IsList
  <2> QED
    BY <2>1
<1> HIDE DEF f
<1>8. IsFiniteSet(T) /\ Cardinality(T) \in Nat /\ Cardinality(T) <= Cardinality(H) /\ Cardinality(H) \in Nat
  BY <1>6, ImageSize
<1>9. IsFiniteSet(1 .. Len(L)) /\ Cardinality(1 .. Len(L)) = Len(L)
  <2>1. PICK n \in Nat : n = Len(L)
    BY <1>7
  <2>2. IsFiniteSet(1 .. n) /\ Cardinality(1 .. n) = IF 1 > n THEN 0 ELSE n - 1 + 1
    BY FS_Interval
  <2> QED
    BY <2>1, <2>2
<1>10. IsFiniteSet(R) /\ Cardinality(R) \in Nat /\ Cardinality(R) <= Len(L)
  BY <1>7, <1>9, ImageSize
<1>11. IsFiniteSet(Slot) /\ Cardinality(Slot) = Capacity + 1
  BY FS_Interval, HandleFields
<1> HIDE DEF H, T, R
<1>12. IsFiniteSet(R \cup T) /\ Cardinality(R \cup T) <= Cardinality(R) + Cardinality(T)
  <2>1. /\ IsFiniteSet(R \cup T)
        /\ Cardinality(R \cup T) = Cardinality(R) + Cardinality(T) - Cardinality(R \cap T)
    BY <1>8, <1>10, FS_Union
  <2>2. IsFiniteSet(R \cap T)
    BY <1>10, FS_Subset
  <2>3. Cardinality(R \cap T) \in Nat
    BY <2>2, FS_CardinalityType
  <2> QED
    BY <1>8, <1>10, <2>1, <2>3
<1>13. Cardinality(Slot) <= Cardinality(R \cup T)
  BY <1>5, <1>12, FS_Subset
<1>14. PICK n \in Nat : n = Len(Contents) /\ Len(L) = n + 1
  <2>1. Len(L) \in Nat \ {0} /\ Len(Contents) = Len(L) - 1
    BY <1>2, ItemsLen DEF NodesOK
  <2> QED
    BY <2>1
<1>15. PICK r \in Nat, h \in Nat, k \in Nat, c \in Nat :
         r = Cardinality(R) /\ h = Cardinality(H) /\ k = Cardinality(T) /\ c = Capacity
  BY <1>8, <1>10, HandleFields
<1>16. PICK z \in Int : z = Cardinality(R \cup T)
  BY <1>12, FS_CardinalityType
<1>17. c + 1 <= z /\ z <= r + k /\ k <= h /\ r <= n + 1
  BY <1>8, <1>10, <1>11, <1>12, <1>13, <1>14, <1>15, <1>16
<1>18. n + h >= c
  BY <1>17
<1> QED
  BY <1>14, <1>15, <1>18 DEF H

\* FifoQueue under the mapping.
\* The instance has its own copy of Cardinality.
LEMMA CardinalitySame == \A S : Fifo!Cardinality(S) = Cardinality(S)
BY Zenon DEF Fifo!Cardinality, Cardinality

\* The actions of FifoQueue in terms of ops, vals and saws.
LEMMA FifoActs ==
  ASSUME NEW t
  PROVE  /\ Fifo!PushDo(t) <=>
              /\ ops[t] = "push" /\ ops' = [ops EXCEPT ![t] = "pushed"]
              /\ Contents' = Append(Contents, vals[t]) /\ vals' = [vals EXCEPT ![t] = NoValue]
              /\ (mode = "open")' = (mode = "open")
         /\ Fifo!PushFull(t) <=>
              /\ ops[t] = "push" /\ ops' = [ops EXCEPT ![t] = "idle"]
              /\ Len(Contents) + Cardinality({u \in Thread \ {t} : ops[u] \in {"push", "popped"}}) >= Capacity
              /\ vals' = [vals EXCEPT ![t] = NoValue]
              /\ Contents' = Contents /\ (mode = "open")' = (mode = "open")
         /\ \A v : Fifo!PushCall(t, v) <=>
              /\ mode = "open" /\ ops[t] = "idle" /\ ops' = [ops EXCEPT ![t] = "push"]
              /\ vals' = [vals EXCEPT ![t] = v]
              /\ Contents' = Contents /\ (mode = "open")' = (mode = "open")
         /\ Fifo!PopCall(t) <=>
              /\ mode = "open" /\ ops[t] = "idle" /\ ops' = [ops EXCEPT ![t] = "pop"]
              /\ Contents' = Contents /\ vals' = vals /\ (mode = "open")' = (mode = "open")
         /\ Fifo!PopDo(t) <=>
              /\ Contents # <<>> /\ ops[t] = "pop" /\ ops' = [ops EXCEPT ![t] = "popped"]
              /\ Contents' = Tail(Contents) /\ vals' = [vals EXCEPT ![t] = Head(Contents)]
              /\ (mode = "open")' = (mode = "open")
         /\ Fifo!PopEmpty(t) <=>
              /\ saws[t] /\ ops[t] = "pop" /\ ops' = [ops EXCEPT ![t] = "idle"]
              /\ Contents' = Contents /\ vals' = vals /\ (mode = "open")' = (mode = "open")
         /\ Fifo!Return(t) <=>
              /\ ops[t] \in {"pushed", "popped"} /\ ops' = [ops EXCEPT ![t] = "idle"]
              /\ vals' = [vals EXCEPT ![t] = NoValue]
              /\ Contents' = Contents /\ (mode = "open")' = (mode = "open")
         /\ Fifo!Close <=>
              /\ mode = "open" /\ (\A u \in Thread : ops[u] = "idle")
              /\ (mode = "open")' = FALSE
              /\ Contents' = Contents /\ ops' = ops /\ vals' = vals
         /\ Fifo!Discard <=>
              /\ ~(mode = "open") /\ Contents # <<>> /\ Contents' = Tail(Contents)
              /\ ops' = ops /\ vals' = vals /\ (mode = "open")' = (mode = "open")
         /\ Fifo!Notice <=>
              saws' = [u \in Thread |->
                         ops'[u] = "pop" /\ (Contents' = <<>> \/ (ops[u] = "pop" /\ saws[u]))]
         /\ Fifo!Init <=>
              /\ Contents = <<>> /\ ops = [u \in Thread |-> "idle"] /\ vals = [u \in Thread |-> NoValue]
              /\ saws = [u \in Thread |-> FALSE] /\ (mode = "open") = TRUE
         /\ UNCHANGED Fifo!vars <=>
              /\ Contents' = Contents /\ ops' = ops /\ vals' = vals /\ saws' = saws
              /\ (mode = "open")' = (mode = "open")
<1> USE DEF ops, vals, saws, OpOf
<1>1. Fifo!PushDo(t) <=>
              /\ ops[t] = "push" /\ ops' = [ops EXCEPT ![t] = "pushed"]
              /\ Contents' = Append(Contents, vals[t]) /\ vals' = [vals EXCEPT ![t] = NoValue]
              /\ (mode = "open")' = (mode = "open")
  BY DEF Fifo!PushDo, Fifo!Step
<1>2. Fifo!PushFull(t) <=>
              /\ ops[t] = "push" /\ ops' = [ops EXCEPT ![t] = "idle"]
              /\ Len(Contents) + Cardinality({u \in Thread \ {t} : ops[u] \in {"push", "popped"}}) >= Capacity
              /\ vals' = [vals EXCEPT ![t] = NoValue]
              /\ Contents' = Contents /\ (mode = "open")' = (mode = "open")
  <2>1. Fifo!InFlight(t) = {u \in Thread \ {t} : ops[u] \in {"push", "popped"}}
    BY DEF Fifo!InFlight
  <2> QED
    BY <2>1, CardinalitySame DEF Fifo!PushFull, Fifo!Step
<1>3. \A v : Fifo!PushCall(t, v) <=>
              /\ mode = "open" /\ ops[t] = "idle" /\ ops' = [ops EXCEPT ![t] = "push"]
              /\ vals' = [vals EXCEPT ![t] = v]
              /\ Contents' = Contents /\ (mode = "open")' = (mode = "open")
  BY DEF Fifo!PushCall, Fifo!Step
<1>4. Fifo!PopCall(t) <=>
              /\ mode = "open" /\ ops[t] = "idle" /\ ops' = [ops EXCEPT ![t] = "pop"]
              /\ Contents' = Contents /\ vals' = vals /\ (mode = "open")' = (mode = "open")
  BY DEF Fifo!PopCall, Fifo!Step
<1>5. Fifo!PopDo(t) <=>
              /\ Contents # <<>> /\ ops[t] = "pop" /\ ops' = [ops EXCEPT ![t] = "popped"]
              /\ Contents' = Tail(Contents) /\ vals' = [vals EXCEPT ![t] = Head(Contents)]
              /\ (mode = "open")' = (mode = "open")
  BY DEF Fifo!PopDo, Fifo!Step
<1>6. Fifo!PopEmpty(t) <=>
              /\ saws[t] /\ ops[t] = "pop" /\ ops' = [ops EXCEPT ![t] = "idle"]
              /\ Contents' = Contents /\ vals' = vals /\ (mode = "open")' = (mode = "open")
  BY DEF Fifo!PopEmpty, Fifo!Step
<1>7. Fifo!Return(t) <=>
              /\ ops[t] \in {"pushed", "popped"} /\ ops' = [ops EXCEPT ![t] = "idle"]
              /\ vals' = [vals EXCEPT ![t] = NoValue]
              /\ Contents' = Contents /\ (mode = "open")' = (mode = "open")
  BY DEF Fifo!Return
<1>8. Fifo!Close <=>
              /\ mode = "open" /\ (\A u \in Thread : ops[u] = "idle")
              /\ (mode = "open")' = FALSE
              /\ Contents' = Contents /\ ops' = ops /\ vals' = vals
  BY DEF Fifo!Close
<1>9. Fifo!Discard <=>
              /\ ~(mode = "open") /\ Contents # <<>> /\ Contents' = Tail(Contents)
              /\ ops' = ops /\ vals' = vals /\ (mode = "open")' = (mode = "open")
  BY DEF Fifo!Discard
<1>10. Fifo!Notice <=>
              saws' = [u \in Thread |->
                         ops'[u] = "pop" /\ (Contents' = <<>> \/ (ops[u] = "pop" /\ saws[u]))]
  BY DEF Fifo!Notice
<1>11. Fifo!Init <=>
              /\ Contents = <<>> /\ ops = [u \in Thread |-> "idle"] /\ vals = [u \in Thread |-> NoValue]
              /\ saws = [u \in Thread |-> FALSE] /\ (mode = "open") = TRUE
  BY DEF Fifo!Init
<1>12. UNCHANGED Fifo!vars <=>
              /\ Contents' = Contents /\ ops' = ops /\ vals' = vals /\ saws' = saws
              /\ (mode = "open")' = (mode = "open")
  BY DEF Fifo!vars
<1> HIDE DEF ops, vals, saws, OpOf
<1> QED
  BY <1>1, <1>2, <1>3, <1>4, <1>5, <1>6, <1>7, <1>8, <1>9, <1>10, <1>11, <1>12

\* A step of t changes only what FifoQueue sees of t.
LEMMA MappedStep ==
  ASSUME TypeInv, ModesOK, NEW t \in Thread, CallStep(t) \/ ClientStep(t), \A u \in Thread : DataOK(u),
         NEW o, NEW v, NEW o1, NEW v1, Becomes(t, o, v, o1, v1)
  PROVE  /\ ops[t] = o /\ vals[t] = v
         /\ ops' = [ops EXCEPT ![t] = o1] /\ vals' = [vals EXCEPT ![t] = v1]
         /\ o1 = o => ops' = ops
         /\ v1 = v => vals' = vals
<1> DEFINE A(u) == OpOf(pc[u], mode)
           B(u) == IF pc[u] \in Popping THEN NoValue ELSE loc[u].data
<1>1. A(t) = o /\ A(t)' = o1 /\ B(t) = v /\ B(t)' = v1
  BY DEF Becomes
<1>2. \A u \in Thread \ {t} : A(u)' = A(u) /\ B(u)' = B(u)
  BY OthersSeen
<1>3. /\ ops = [u \in Thread |-> A(u)] /\ ops' = [u \in Thread |-> A(u)']
      /\ vals = [u \in Thread |-> B(u)] /\ vals' = [u \in Thread |-> B(u)']
  BY DEF ops, vals
<1> HIDE DEF A, B
<1>4. ops[t] = o /\ vals[t] = v
  BY <1>1, <1>3
<1>5. ops' = [ops EXCEPT ![t] = o1]
  BY <1>1, <1>2, <1>3
<1>6. vals' = [vals EXCEPT ![t] = v1]
  BY <1>1, <1>2, <1>3
<1>7. o1 = o => ops' = ops
  BY <1>1, <1>2, <1>3
<1>8. v1 = v => vals' = vals
  BY <1>1, <1>2, <1>3
<1> QED
  BY <1>4, <1>5, <1>6, <1>7, <1>8

\* The queue stays open until destroy is called, and is never opened again.
LEMMA OpenKept ==
  ASSUME TypeInv, ModesOK, NEW t \in Thread, CallStep(t) \/ ClientStep(t)
  PROVE  /\ ~Destroy(t) => (mode = "open")' = (mode = "open")
         /\ Destroy(t) => mode = "open" /\ mode' # "open"
<1>1. CASE UNCHANGED mode /\ ~Destroy(t)
  BY <1>1
<1>2. CASE Destroy(t)
  BY <1>2 DEF Destroy
<1>3. CASE DestroyReturn(t)
  <2>1. pc[t] = "d_done" /\ mode' = "closed"
    BY <1>3 DEF DestroyReturn, Goto
  <2>2. mode = "draining"
    BY <2>1 DEF ModesOK, Destroying
  <2>3. ~Destroy(t)
    BY <2>2 DEF Destroy
  <2> QED
    BY <2>1, <2>2, <2>3
<1> QED
  BY <1>1, <1>2, <1>3, Effects

\* FifoQueue's watch for an empty queue is the ghost variable seen.
LEMMA NoticeNow ==
  ASSUME QueueInv, Undisturbed, NEW t \in Thread, CallStep(t) \/ ClientStep(t), Watch,
         \A u \in Thread : NoticeOK(u)
  PROVE  Fifo!Notice
<1> DEFINE W(u) == pc[u] \in Popping /\ mode = "open" /\ NoValue \in seen[u]
           A(u) == OpOf(pc[u], mode)
           R(u) == A(u)' = "pop" /\ (Contents' = <<>> \/ (A(u) = "pop" /\ W(u)))
<1>1. \A u \in Thread : W(u)' <=> R(u)
  BY NoticeStep
<1>2. /\ saws' = [u \in Thread |-> W(u)'] /\ saws = [u \in Thread |-> W(u)]
      /\ ops' = [u \in Thread |-> A(u)'] /\ ops = [u \in Thread |-> A(u)]
  BY DEF saws, ops
<1>3. \A u \in Thread : W(u)' \in BOOLEAN /\ R(u) \in BOOLEAN
  OBVIOUS
<1>4. \A u \in Thread : (ops'[u] = "pop" /\ (Contents' = <<>> \/ (ops[u] = "pop" /\ saws[u]))) = R(u)
  BY <1>2
<1> HIDE DEF W, A
<1>5. \A u \in Thread : W(u)' = R(u)
  BY <1>1, <1>3
<1> HIDE DEF R
<1>6. saws' = [u \in Thread |->
                 ops'[u] = "pop" /\ (Contents' = <<>> \/ (ops[u] = "pop" /\ saws[u]))]
  BY <1>2, <1>4, <1>5
<1> QED
  BY <1>6, FifoActs

\* What a step of the code leaves unsaid FifoQueue does not see: no new moment at which the
\* queue is empty is noticed.
LEMMA SawsKept ==
  ASSUME \A u \in Thread : NoticeOK(u), Fifo!Notice, ops' = ops, Contents' = Contents
  PROVE  saws' = saws
<1> DEFINE W(u) == pc[u] \in Popping /\ mode = "open" /\ NoValue \in seen[u]
<1>1. saws' = [u \in Thread |-> ops[u] = "pop" /\ (Contents = <<>> \/ (ops[u] = "pop" /\ saws[u]))]
  BY FifoActs
<1>2. saws = [u \in Thread |-> W(u)]
  BY DEF saws
<1>3. ASSUME NEW u \in Thread
      PROVE  (ops[u] = "pop" /\ (Contents = <<>> \/ (ops[u] = "pop" /\ saws[u]))) = W(u)
  <2>1. ops[u] = "pop" <=> pc[u] \in Popping /\ mode = "open"
    BY OpTable DEF ops
  <2>2. pc[u] \in Popping /\ Contents = <<>> => NoValue \in seen[u]
    BY DEF NoticeOK
  <2>3. saws[u] = W(u)
    BY <1>2
  <2> QED
    BY <2>1, <2>2, <2>3
<1> HIDE DEF W
<1> QED
  BY <1>1, <1>2, <1>3

\* What FifoQueue sees of a step.
Mapped == Fifo!Next \/ UNCHANGED Fifo!vars

\* A step that moves no item and changes no call is a stuttering step.
LEMMA UnseenStep ==
  ASSUME QueueInv, Undisturbed, NEW t \in Thread, CallStep(t) \/ ClientStep(t), Watch,
         \A u \in Thread : DataOK(u) /\ NoticeOK(u),
         Unseen(t), ~PushLink(t), ~PopUnlink(t), ~Destroy(t)
  PROVE  Mapped
<1>1. TypeInv /\ ModesOK
  BY DEF QueueInv
<1>2. ops' = ops /\ vals' = vals
  BY <1>1, MappedStep DEF Unseen
<1>3. Contents' = Contents
  BY ItemsMove
<1>4. saws' = saws
  BY <1>2, <1>3, NoticeNow, SawsKept
<1>5. (mode = "open")' = (mode = "open")
  BY <1>1, OpenKept
<1>6. UNCHANGED Fifo!vars
  BY <1>2, <1>3, <1>4, <1>5, FifoActs
<1> QED
  BY <1>6 DEF Mapped

\* The steps of push: the call, the link at which the item enters the queue, the failure
\* on a full pool, and the return.
LEMMA PushMapped ==
  ASSUME IsFiniteSet(Thread), QueueInv, Undisturbed, NEW t \in Thread, PushStep(t) \/ PushCall(t), Watch,
         \A u \in Thread : DataOK(u) /\ NoticeOK(u)
  PROVE  Mapped
<1>1. TypeInv /\ ModesOK /\ (CallStep(t) \/ ClientStep(t))
  BY DEF QueueInv, CallStep, ClientStep
<1>2. Fifo!Notice
  BY <1>1, NoticeNow
<1>3. pc[t] # "o_cas" /\ (pc[t] = "idle" => PushCall(t))
  BY <1>1, PushRows DEF PushStep, Row, Same, Clear, Restart
<1>4. ~PopUnlink(t) /\ ~Destroy(t)
  <2>1. PopUnlink(t) => pc[t] = "o_cas"
    BY DEF PopUnlink, Goto
  <2>2. Destroy(t) /\ PushCall(t) => FALSE
    BY DEF Destroy, PushCall
  <2>3. Destroy(t) => pc[t] = "idle"
    BY DEF Destroy, Goto
  <2> QED
    BY <1>3, <2>1, <2>2, <2>3
<1>5. (mode = "open")' = (mode = "open")
  BY <1>1, <1>4, OpenKept
<1>6. CASE PushCall(t) /\ Becomes(t, "idle", NoValue, "push", calls + 1)
  <2>1. calls + 1 \in Value /\ mode = "open"
    <3>1. PICK c \in Nat : c = calls
      BY <1>1, Loaded
    <3>2. c < MaxPush /\ mode = "open"
      BY <1>6, <3>1 DEF PushCall
    <3> QED
      BY <1>1, <3>1, <3>2, Loaded
  <2>2. ~PushLink(t)
    BY <1>6 DEF PushCall, PushLink, Goto
  <2>3. Contents' = Contents
    BY <1>1, <1>4, <2>2, ItemsMove
  <2>4. /\ ops[t] = "idle" /\ ops' = [ops EXCEPT ![t] = "push"]
        /\ vals' = [vals EXCEPT ![t] = calls + 1]
    BY <1>1, <1>6, MappedStep
  <2>5. PICK v \in Value : v = calls + 1
    BY <2>1
  <2>6. vals' = [vals EXCEPT ![t] = v]
    BY <2>4, <2>5
  <2>7. Fifo!PushCall(t, v)
    BY <1>5, <2>1, <2>3, <2>4, <2>6, FifoActs
  <2> QED
    BY <1>2, <2>7 DEF Mapped, Fifo!Next
<1>7. CASE PushLink(t) /\ Becomes(t, "push", loc[t].data, "pushed", NoValue)
  <2>1. Contents' = Append(Contents, loc[t].data)
    BY <1>1, <1>7, ItemsMove
  <2>2. /\ ops[t] = "push" /\ vals[t] = loc[t].data
        /\ ops' = [ops EXCEPT ![t] = "pushed"] /\ vals' = [vals EXCEPT ![t] = NoValue]
    BY <1>1, <1>7, MappedStep
  <2>3. Fifo!PushDo(t)
    BY <1>5, <2>1, <2>2, FifoActs
  <2> QED
    BY <1>2, <2>3 DEF Mapped, Fifo!Next
<1>8. CASE PushFull(t) /\ \E v : Becomes(t, "push", v, "idle", NoValue)
  <2>1. pc[t] = "p_alloc" /\ free = <<>>
    BY <1>8 DEF PushFull, Goto
  <2>2. Len(Contents) + Cardinality({u \in Thread \ {t} : ops[u] \in {"push", "popped"}}) >= Capacity
    BY <2>1, FullPool
  <2>3. ~PushLink(t)
    BY <2>1 DEF PushLink, Goto
  <2>4. Contents' = Contents
    BY <1>1, <1>4, <2>3, ItemsMove
  <2>5. /\ ops[t] = "push" /\ ops' = [ops EXCEPT ![t] = "idle"]
        /\ vals' = [vals EXCEPT ![t] = NoValue]
    BY <1>1, <1>8, MappedStep
  <2>6. Fifo!PushFull(t)
    BY <1>5, <2>2, <2>4, <2>5, FifoActs
  <2> QED
    BY <1>2, <2>6 DEF Mapped, Fifo!Next
<1>9. CASE PushReturn(t) /\ Becomes(t, "pushed", NoValue, "idle", NoValue)
  <2>1. ~PushLink(t)
    BY <1>9 DEF PushReturn, PushLink, Goto
  <2>2. Contents' = Contents
    BY <1>1, <1>4, <2>1, ItemsMove
  <2>3. /\ ops[t] = "pushed" /\ ops' = [ops EXCEPT ![t] = "idle"]
        /\ vals' = [vals EXCEPT ![t] = NoValue]
    BY <1>1, <1>9, MappedStep
  <2>4. Fifo!Return(t)
    BY <1>5, <2>2, <2>3, FifoActs
  <2> QED
    BY <1>2, <2>4 DEF Mapped, Fifo!Next
<1>10. CASE ~PushLink(t) /\ Unseen(t)
  BY <1>1, <1>4, <1>10, UnseenStep
<1> QED
  BY <1>1, <1>6, <1>7, <1>8, <1>9, <1>10, PushSeen

\* The steps of pop: the call, the move of head at which the item leaves the queue (or is
\* discarded by destroy), the failure on an empty queue, and the return.
LEMMA PopMapped ==
  ASSUME QueueInv, Undisturbed, NEW t \in Thread, PopStep(t) \/ PopCall(t), Watch,
         \A u \in Thread : DataOK(u) /\ NoticeOK(u)
  PROVE  Mapped
<1>1. TypeInv /\ ModesOK /\ (CallStep(t) \/ ClientStep(t))
  BY DEF QueueInv, CallStep, ClientStep
<1>2. Fifo!Notice
  BY <1>1, NoticeNow
<1>3. pc[t] # "p_link" /\ (pc[t] = "idle" => PopCall(t))
  BY <1>1, PopRows DEF PopStep, Row, Same, Clear, Restart
<1>4. ~PushLink(t) /\ ~Destroy(t)
  <2>1. PushLink(t) => pc[t] = "p_link"
    BY DEF PushLink, Goto
  <2>2. Destroy(t) /\ PopCall(t) => FALSE
    BY DEF Destroy, PopCall, client, shared
  <2>3. Destroy(t) => pc[t] = "idle"
    BY DEF Destroy, Goto
  <2> QED
    BY <1>3, <2>1, <2>2, <2>3
<1>5. (mode = "open")' = (mode = "open")
  BY <1>1, <1>4, OpenKept
<1>6. CASE PopCall(t) /\ Becomes(t, "idle", NoValue, "pop", NoValue)
  <2>1. mode = "open" /\ ~PopUnlink(t)
    BY <1>6 DEF PopCall, PopUnlink, Goto
  <2>2. Contents' = Contents
    BY <1>1, <1>4, <2>1, ItemsMove
  <2>3. ops[t] = "idle" /\ ops' = [ops EXCEPT ![t] = "pop"] /\ vals' = vals
    BY <1>1, <1>6, MappedStep
  <2>4. Fifo!PopCall(t)
    BY <1>5, <2>1, <2>2, <2>3, FifoActs
  <2> QED
    BY <1>2, <2>4 DEF Mapped, Fifo!Next
<1>7. CASE PopUnlink(t) /\ mode = "open" /\ Becomes(t, "pop", NoValue, "popped", loc[t].data)
  <2>1. Contents # <<>> /\ Contents' = Tail(Contents) /\ loc[t].data = Head(Contents)
    BY <1>1, <1>7, ItemsMove
  <2>2. /\ ops[t] = "pop" /\ ops' = [ops EXCEPT ![t] = "popped"]
        /\ vals' = [vals EXCEPT ![t] = loc[t].data]
    BY <1>1, <1>7, MappedStep
  <2>3. Fifo!PopDo(t)
    BY <1>5, <2>1, <2>2, FifoActs
  <2> QED
    BY <1>2, <2>3 DEF Mapped, Fifo!Next
<1>8. CASE PopUnlink(t) /\ mode # "open" /\ Becomes(t, "idle", NoValue, "idle", NoValue)
  <2>1. Contents # <<>> /\ Contents' = Tail(Contents)
    BY <1>1, <1>8, ItemsMove
  <2>2. ops' = ops /\ vals' = vals
    BY <1>1, <1>8, MappedStep
  <2>3. Fifo!Discard
    BY <1>5, <1>8, <2>1, <2>2, FifoActs
  <2> QED
    BY <1>2, <2>3 DEF Mapped, Fifo!Next
<1>9. CASE PopEmpty(t) /\ mode = "open" /\ Becomes(t, "pop", NoValue, "idle", NoValue)
  <2>1. pc[t] = "o_check" /\ loc[t].head_h = head /\ loc[t].next_h = ANAM_NULL
    BY <1>9 DEF PopEmpty, Goto
  <2>2. NoValue \in seen[t]
    BY <2>1 DEF QueueInv, Pops, AtHead
  <2>3. saws[t]
    BY <1>9, <2>1, <2>2 DEF saws, Popping
  <2>4. ~PopUnlink(t)
    BY <2>1 DEF PopUnlink, Goto
  <2>5. Contents' = Contents
    BY <1>1, <1>4, <2>4, ItemsMove
  <2>6. ops[t] = "pop" /\ ops' = [ops EXCEPT ![t] = "idle"] /\ vals' = vals
    BY <1>1, <1>9, MappedStep
  <2>7. Fifo!PopEmpty(t)
    BY <1>5, <2>3, <2>5, <2>6, FifoActs
  <2> QED
    BY <1>2, <2>7 DEF Mapped, Fifo!Next
<1>10. CASE PopReturn(t) /\ mode = "open" /\ \E v : Becomes(t, "popped", v, "idle", NoValue)
  <2>1. ~PopUnlink(t)
    BY <1>10 DEF PopReturn, PopUnlink, Goto
  <2>2. Contents' = Contents
    BY <1>1, <1>4, <2>1, ItemsMove
  <2>3. /\ ops[t] = "popped" /\ ops' = [ops EXCEPT ![t] = "idle"]
        /\ vals' = [vals EXCEPT ![t] = NoValue]
    BY <1>1, <1>10, MappedStep
  <2>4. Fifo!Return(t)
    BY <1>5, <2>2, <2>3, FifoActs
  <2> QED
    BY <1>2, <2>4 DEF Mapped, Fifo!Next
<1>11. CASE ~PopUnlink(t) /\ Unseen(t)
  BY <1>1, <1>4, <1>11, UnseenStep
<1> QED
  BY <1>1, <1>6, <1>7, <1>8, <1>9, <1>10, <1>11, PopSeen

\* peek, empty and the end of destroy move nothing; the call of destroy closes the queue.
LEMMA OtherMapped ==
  ASSUME QueueInv, Undisturbed, NEW t \in Thread, Watch,
         PeekStep(t) \/ PeekCall(t) \/ DestroyStep(t) \/ Destroy(t),
         \A u \in Thread : DataOK(u) /\ NoticeOK(u)
  PROVE  Mapped
<1>1. TypeInv /\ ModesOK /\ (CallStep(t) \/ ClientStep(t))
  BY DEF QueueInv, CallStep, ClientStep
<1>2. Becomes(t, "idle", NoValue, "idle", NoValue) /\ ~PushLink(t) /\ ~PopUnlink(t)
  BY <1>1, OtherSeen
<1>3. CASE ~Destroy(t)
  <2>1. Unseen(t)
    BY <1>2 DEF Unseen
  <2> QED
    BY <1>1, <1>2, <1>3, <2>1, UnseenStep
<1>4. CASE Destroy(t)
  <2>1. Contents' = Contents
    BY <1>1, <1>2, ItemsMove
  <2>2. ops' = ops /\ vals' = vals
    BY <1>1, <1>2, MappedStep
  <2>3. mode = "open" /\ mode' # "open"
    BY <1>1, <1>4, OpenKept
  <2>4. \A u \in Thread : ops[u] = "idle"
    <3>1. \A u \in Thread : pc[u] = "idle"
      BY <1>4 DEF Destroy
    <3> QED
      BY <3>1, OpTable DEF ops
  <2>5. Fifo!Close
    BY <2>1, <2>2, <2>3, <2>4, FifoActs
  <2>6. Fifo!Notice
    BY <1>1, NoticeNow
  <2> QED
    BY <2>5, <2>6 DEF Mapped, Fifo!Next
<1> QED
  BY <1>3, <1>4

\* The invariant of the refinement.
FifoInv == QueueInv /\ \A t \in Thread : DataOK(t) /\ NoticeOK(t)

\* Every step keeps it and is a step of FifoQueue, or one that it does not see.
LEMMA FifoStep ==
  ASSUME IsFiniteSet(Thread), FifoInv, Undisturbed, Next
  PROVE  FifoInv' /\ Mapped
<1>1. PICK t \in Thread : CallStep(t) \/ ClientStep(t)
  BY DEF Next
<1>2. Watch /\ QueueInv /\ TypeInv /\ ModesOK /\ \A u \in Thread : DataOK(u) /\ NoticeOK(u)
  BY DEF Next, FifoInv, QueueInv
<1>3. \/ PushStep(t) \/ PushCall(t)
      \/ PopStep(t) \/ PopCall(t)
      \/ PeekStep(t) \/ PeekCall(t) \/ DestroyStep(t) \/ Destroy(t)
  BY <1>1 DEF CallStep, ClientStep
<1>4. Mapped
  BY <1>2, <1>3, PushMapped, PopMapped, OtherMapped
<1>5. DataOK(t)'
  BY <1>2, <1>3, PushSeen, PopSeen, OtherSeen
<1>6. \A u \in Thread : DataOK(u)'
  BY <1>1, <1>2, <1>5, OthersSeen
<1>7. \A u \in Thread : NoticeOK(u)'
  BY <1>1, <1>2, NoticeStep
<1>8. QueueInv'
  BY <1>1, <1>2, QueueStep
<1> QED
  BY <1>4, <1>6, <1>7, <1>8 DEF FifoInv

\* A step that changes nothing is one that FifoQueue does not see.
LEMMA FifoStutter == FifoInv /\ UNCHANGED vars => FifoInv' /\ UNCHANGED Fifo!vars
<1> SUFFICES ASSUME FifoInv, UNCHANGED vars PROVE FifoInv' /\ UNCHANGED Fifo!vars
  OBVIOUS
<1>1. /\ head' = head /\ node_next' = node_next /\ node_data' = node_data
      /\ pc' = pc /\ loc' = loc /\ mode' = mode /\ seen' = seen
  BY DEF vars, shared, ends, pool, nodes, client
<1>2. Contents' = Contents
  BY <1>1 DEF Contents, Chain
<1>3. QueueInv'
  BY QueueStutter DEF FifoInv
<1>4. \A t \in Thread : DataOK(t)' /\ NoticeOK(t)'
  BY <1>1, <1>2 DEF FifoInv, DataOK, NoticeOK
<1>5. ops' = ops /\ vals' = vals /\ saws' = saws
  BY <1>1 DEF ops, vals, saws
<1>6. UNCHANGED Fifo!vars
  BY <1>1, <1>2, <1>5, FifoActs
<1> QED
  BY <1>3, <1>4, <1>6 DEF FifoInv

\* A new queue is an empty FifoQueue.
LEMMA FifoBegin == Init => FifoInv /\ Fifo!Init
<1> SUFFICES ASSUME Init PROVE FifoInv /\ Fifo!Init
  OBVIOUS
<1>1. /\ \A t \in Thread : pc[t] = "idle" /\ loc[t] = NoLocals /\ seen[t] = {}
      /\ mode = "open" /\ node_next = [s \in Slot |-> ANAM_NULL] /\ head = Handle(0, 0)
  BY DEF Init
<1>2. QueueInv
  BY QueueInit
<1>3. \A t \in Thread : DataOK(t) /\ NoticeOK(t)
  BY <1>1 DEF DataOK, NoticeOK, NoLocals, Popped, Popping
<1>4. /\ ops = [u \in Thread |-> "idle"] /\ vals = [u \in Thread |-> NoValue]
      /\ saws = [u \in Thread |-> FALSE]
  <2>1. \A u \in Thread : OpOf(pc[u], mode) = "idle" /\ pc[u] \notin Popping /\ loc[u].data = NoValue
    BY <1>1, OpTable DEF Popping, NoLocals
  <2> QED
    BY <2>1 DEF ops, vals, saws
<1>5. Contents = <<>>
  <2>1. PICK L : L = Chain
    OBVIOUS
  <2>2. L \in Walks /\ node_data \in [Slot -> Value \cup {NoValue}]
    BY <1>2, <2>1 DEF QueueInv, NodesOK, IsList, Walks, TypeInv, TypeOK
  <2>3. Len(L) = 1
    <3>1. L = <<0>>
      BY <2>1, NodesBegin
    <3> QED
      BY <3>1
  <2>4. Contents = ContentsOf(L, node_data)
    BY <2>1, ContentsIs
  <2> QED
    BY <2>2, <2>3, <2>4, ContentsSeq
<1>6. Fifo!Init
  BY <1>1, <1>4, <1>5, FifoActs
<1> QED
  BY <1>2, <1>3, <1>6 DEF FifoInv

\* anam_queue_push and anam_queue_pop are linearizable for any number of threads as long as no
\* push links to a reused slot and no generation wraps: every behaviour of the code's atomic
\* accesses is one of the bounded FIFO queue, with the link CAS of push and the head CAS of
\* pop as the moments at which the calls take effect.
THEOREM QueueImplementsFifo ==
  ASSUME IsFiniteSet(Thread)
  PROVE  Spec /\ []Undisturbed => ImplementsFifo
<1>1. FifoInv /\ Undisturbed /\ [Next]_vars => FifoInv' /\ [Fifo!Next]_(Fifo!vars)
  BY FifoStep, FifoStutter DEF Mapped
<1> QED
  BY <1>1, FifoBegin, PTL DEF Spec, ImplementsFifo, Fifo!Spec

\* With one producer and fewer pushes than generations the queue is a FIFO queue without any
\* further condition: single-producer use, which the header promises, is linearizable.
THEOREM OneProducerImplementsFifo ==
  ASSUME FewPushes, OneProducer
  PROVE  Spec => ImplementsFifo
<1>1. IsFiniteSet(Thread)
  BY DEF FewPushes
<1> QED
  BY <1>1, OneProducerUndisturbed, QueueImplementsFifo, PTL

-----------------------------------------------------------------------------
(* peek and empty, with any number of consumers *)

\* Nobody but the thread that peeks or tests takes items out.
OneReader == \A c \in Consumer, o \in Observer : c = o

\* The loads of peek and empty whose value is still in use.
HeadHeld == {"k_get", "k_next", "k_getn", "k_read", "e_get", "e_next", "e_ret"}
NextHeld == {"k_getn", "k_read", "e_ret"}

\* The link that a peek or empty has loaded is that of the dummy for as long as head is the
\* one it loaded, a link that was null tells of an empty queue, and a peek has seen the present
\* front. Head stays where it is under a reader who is the only consumer.
ReadOK(t) ==
  /\ pc[t] \in Popping \cup Popped => t \in Consumer
  /\ pc[t] \in Peeking \cup Testing => t \in Observer
  /\ OneReader /\ pc[t] \in HeadHeld => loc[t].head_h = head
  /\ pc[t] \in NextHeld /\ loc[t].head_h = head =>
       /\ loc[t].next_h \in {ANAM_NULL, node_next[head.slot]}
       /\ loc[t].next_h = ANAM_NULL => NoValue \in seen[t]
  /\ pc[t] = "k_read" => loc[t].next_h # ANAM_NULL
  /\ pc[t] \in Peeking => Front \in seen[t]

\* The steps of the other threads.
LEMMA ReadOthers ==
  ASSUME QueueInv, Undisturbed, NEW t \in Thread, CallStep(t) \/ ClientStep(t), Watch,
         ReadOK(t), NEW u \in Thread \ {t}, ReadOK(u)
  PROVE  ReadOK(u)'
<1>1. PICK L : L = Chain
  OBVIOUS
<1>2. TypeInv /\ ModesOK /\ NodesOK(L)
  BY <1>1 DEF QueueInv
<1>3. pc'[u] = pc[u] /\ loc'[u] = loc[u]
  BY <1>2, Flow
<1>4. pc'[u] \in Peeking => Front' \in seen'[u]
  BY SeenStep
<1>5. CASE pc[u] \notin Peeking \cup Testing
  BY <1>3, <1>4, <1>5 DEF ReadOK, HeadHeld, NextHeld, Peeking, Testing
<1>6. CASE pc[u] \in Peeking \cup Testing
  <2>1. OneReader => ~PopUnlink(t)
    <3>1. PopUnlink(t) => pc[t] = "o_cas"
      BY DEF PopUnlink, Goto
    <3> QED
      BY <1>6, <3>1 DEF ReadOK, OneReader, Popping
  <2>2. head' = head \/ (PopUnlink(t) /\ loc[u].head_h # head')
    <3>1. Refs /\ Pops(t)
      BY DEF QueueInv
    <3>2. Sound(t, L)
      BY <1>2, <3>1, SoundNow
    <3>3. PopUnlink(t) => loc[u].head_h # head'
      BY <1>2, <3>1, <3>2, NoReturn
    <3> QED
      BY <1>2, <3>3, MemoryStep
  <2>3. InSeq(head.slot, L) /\ head.slot \in Slot
    BY <1>2, Live, FirstLink DEF NodesOK
  <2>4. node_next'[head.slot] = node_next[head.slot] \/ node_next[head.slot] = ANAM_NULL
    BY <1>2, <2>3, MemoryStep
  <2>5. seen[u] \subseteq seen'[u]
    BY <1>3, <1>6, SeenStep
  <2>6. CASE head' = head
    BY <1>3, <1>4, <2>4, <2>5, <2>6 DEF ReadOK
  <2>7. CASE PopUnlink(t) /\ loc[u].head_h # head'
    BY <1>3, <1>4, <2>1, <2>7 DEF ReadOK
  <2> QED
    BY <2>2, <2>6, <2>7
<1> QED
  BY <1>5, <1>6

\* The thread's own steps.
LEMMA ReadOwn ==
  ASSUME QueueInv, Undisturbed, NEW t \in Thread, CallStep(t) \/ ClientStep(t), Watch, ReadOK(t)
  PROVE  ReadOK(t)'
<1>1. PICK L : L = Chain
  OBVIOUS
<1>2. TypeInv /\ ModesOK /\ NodesOK(L) /\ QueueInv' /\ TypeInv'
  BY <1>1, QueueStep DEF QueueInv
<1>3. pc'[t] \in Peeking => Front' \in seen'[t]
  BY SeenStep
<1> DEFINE Out(p) == p \notin Popping \cup Popped \cup Peeking \cup Testing
<1>4. ASSUME Out(pc'[t]) PROVE ReadOK(t)'
  BY <1>4 DEF ReadOK, HeadHeld, NextHeld, Peeking, Testing
<1>5. ASSUME pc'[t] \in Popping \cup Popped, t \in Consumer PROVE ReadOK(t)'
  BY <1>5 DEF ReadOK, HeadHeld, NextHeld, Peeking, Testing, Popping, Popped
<1>6. CASE PushStep(t) \/ PushCall(t)
  <2>1. Out(pc'[t])
    BY <1>2, <1>6, PushRows DEF PushStep, Row, Same, Clear, Restart, Popping, Popped, Peeking, Testing
  <2> QED
    BY <1>4, <2>1
<1>7. CASE PopStep(t) \/ PopCall(t)
  <2>1. /\ pc[t] \in Popping \cup Popped \/ PopCall(t)
        /\ pc'[t] \in Popping \cup Popped \cup {"idle", "d_release"}
    BY <1>2, <1>7, PopRows DEF PopStep, Row, Same, Clear, Restart, Popping, Popped
  <2>2. t \in Consumer
    BY <2>1 DEF ReadOK, PopCall
  <2>3. CASE pc'[t] \in {"idle", "d_release"}
    BY <1>4, <2>3 DEF Popping, Popped, Peeking, Testing
  <2> QED
    BY <1>5, <2>1, <2>2, <2>3
<1>8. CASE DestroyStep(t) \/ Destroy(t)
  <2>1. Destroy(t) => t \in Consumer /\ pc'[t] = "o_head"
    BY <1>2, OtherRows DEF Destroy, Same, Row
  <2>2. DestroyStep(t) => pc'[t] \in {"d_free", "d_done", "idle"}
    BY <1>2, OtherRows DEF DestroyStep, Same, Row
  <2>3. CASE Destroy(t)
    BY <1>5, <2>1, <2>3 DEF Popping
  <2>4. CASE DestroyStep(t)
    BY <1>4, <2>2, <2>4 DEF Popping, Popped, Peeking, Testing
  <2> QED
    BY <1>8, <2>3, <2>4
<1>9. CASE PeekStep(t) \/ PeekCall(t)
  <2>1. UNCHANGED <<head, node_next, node_data, free, generation>>
    BY <1>9 DEF PeekStep, PeekCall, PeekLoadHead, PeekGetHead, PeekLoadNext, PeekGetNext, PeekReturn,
         EmptyReturn, LoadHead, GetHead, LoadNext, GetNext, Answer, shared, ends, nodes, pool
  <2>2. ASSUME pc[t] \in Peeking \cup Testing, pc'[t] \in Peeking \cup Testing
        PROVE  t \in Observer /\ seen[t] \subseteq seen'[t] /\ pc'[t] \notin Popping \cup Popped
    <3>1. pc'[t] \notin Popping \cup Popped
      BY <2>2 DEF Popping, Popped, Peeking, Testing
    <3> QED
      BY <2>2, <3>1, SeenStep DEF ReadOK
  <2>3. CASE PeekCall(t)
    <3>1. pc'[t] \in {"k_head", "e_head"} /\ t \in Observer
      BY <1>2, <2>3, OtherRows DEF Same, Row, PeekCall
    <3> QED
      BY <1>3, <3>1 DEF ReadOK, HeadHeld, NextHeld, Popping, Popped
  <2>4. CASE PeekLoadHead(t)
    <3>1. /\ pc[t] \in {"k_head", "e_head"} /\ pc'[t] \in {"k_get", "e_get"} /\ loc'[t].head_h = head
      BY <1>2, <2>4, OtherRows DEF Row
    <3> QED
      BY <1>3, <2>1, <2>2, <3>1 DEF ReadOK, NextHeld, Peeking, Testing
  <2>5. CASE PeekGetHead(t)
    <3>1. /\ pc[t] \in {"k_get", "e_get"} /\ pc'[t] \in {"k_next", "e_next"}
          /\ loc'[t].head_h = loc[t].head_h
      BY <1>2, <2>5, OtherRows DEF Same, Row
    <3> QED
      BY <1>3, <2>1, <2>2, <3>1 DEF ReadOK, HeadHeld, NextHeld, Peeking, Testing
  <2>6. CASE PeekLoadNext(t)
    <3>1. /\ pc[t] \in {"k_next", "e_next"} /\ pc'[t] \in {"k_getn", "e_ret"}
          /\ loc'[t].head_h = loc[t].head_h /\ loc'[t].next_h = node_next[loc[t].head_h.slot]
      BY <1>2, <2>6, OtherRows DEF Row
    <3>2. OneReader => loc[t].head_h = head
      BY <3>1 DEF ReadOK, HeadHeld
    <3>3. ASSUME node_next[head.slot] = ANAM_NULL PROVE NoValue \in seen'[t]
      <4>1. \A s \in Slot : Here(s) # ANAM_NULL
        BY <1>2, Loaded, HandleFields DEF Here
      <4>2. Len(L) = 1
        BY <1>2, <3>3, <4>1, FirstLink DEF NodesOK
      <4>3. Front = NoValue
        BY <1>2, <4>2, FrontIs DEF NodesOK
      <4>4. Front' = Front
        <5>1. Chain' = Chain
          BY <2>1, ChainIs
        <5> QED
          BY <2>1, <5>1, ContentsIs DEF Front
      <4> QED
        BY <3>1, <4>3, <4>4, SeenStep DEF Peeking, Testing
    <3> QED
      BY <1>3, <2>1, <2>2, <3>1, <3>2, <3>3 DEF ReadOK, Peeking, Testing
  <2>7. CASE PeekGetNext(t)
    <3>1. /\ pc[t] = "k_getn" /\ pc'[t] = "k_read" /\ loc'[t].head_h = loc[t].head_h
          /\ loc'[t].next_h = loc[t].next_h /\ loc[t].next_h # ANAM_NULL
      BY <1>2, <2>7, OtherRows DEF Same, Row, PeekGetNext, GetNext, Valid
    <3> QED
      BY <1>3, <2>1, <2>2, <3>1 DEF ReadOK, HeadHeld, NextHeld, Peeking, Testing
  <2>8. CASE Answer(t)
    <3>1. pc'[t] = "idle"
      BY <1>2, <2>8, OtherRows DEF Clear, Row
    <3> QED
      BY <1>4, <3>1 DEF Popping, Popped, Peeking, Testing
  <2> QED
    BY <1>9, <2>3, <2>4, <2>5, <2>6, <2>7, <2>8 DEF PeekStep, PeekReturn, EmptyReturn
<1> QED
  BY <1>6, <1>7, <1>8, <1>9 DEF CallStep, ClientStep

\* The invariant of the readers.
ReadInv == QueueInv /\ \A t \in Thread : ReadOK(t)

\* A new queue satisfies it.
LEMMA ReadInit == Init => ReadInv
<1> SUFFICES ASSUME Init PROVE ReadInv
  OBVIOUS
<1>1. \A t \in Thread : pc[t] = "idle"
  BY DEF Init
<1> QED
  BY <1>1, QueueInit DEF ReadInv, ReadOK, HeadHeld, NextHeld, Popping, Popped, Peeking, Testing

\* Every step keeps it.
LEMMA ReadStep ==
  ASSUME ReadInv, Undisturbed, Next
  PROVE  ReadInv'
<1>1. PICK t \in Thread : CallStep(t) \/ ClientStep(t)
  BY DEF Next
<1>2. Watch /\ QueueInv /\ \A u \in Thread : ReadOK(u)
  BY DEF Next, ReadInv
<1>3. QueueInv'
  BY <1>1, <1>2, QueueStep
<1>4. \A u \in Thread : ReadOK(u)'
  BY <1>1, <1>2, ReadOwn, ReadOthers
<1> QED
  BY <1>3, <1>4 DEF ReadInv

\* A step that changes nothing keeps it.
LEMMA ReadStutter == ReadInv /\ UNCHANGED vars => ReadInv'
<1> SUFFICES ASSUME ReadInv, UNCHANGED vars PROVE ReadInv'
  OBVIOUS
<1>1. /\ head' = head /\ node_next' = node_next /\ node_data' = node_data
      /\ pc' = pc /\ loc' = loc /\ seen' = seen
  BY DEF vars, shared, ends, nodes
<1>2. Front' = Front
  <2>1. Chain' = Chain
    BY <1>1, ChainIs
  <2> QED
    BY <1>1, <2>1, ContentsIs DEF Front
<1>3. \A t \in Thread : ReadOK(t)'
  BY <1>1, <1>2 DEF ReadInv, ReadOK
<1> QED
  BY <1>3, QueueStutter DEF ReadInv

\* The answers of peek and empty: as long as head is the one they loaded, it and its successor
\* are valid, so "stale" is never the reason for an answer.
LEMMA Answers ==
  ASSUME ReadInv, NEW t \in Thread, loc[t].head_h = head
  PROVE  /\ \A v : PeekReturn(t, v) => v \in seen[t]
         /\ EmptyReturn(t, TRUE) => NoValue \in seen[t]
         /\ EmptyReturn(t, FALSE) => Contents # <<>>
<1>1. PICK L : L = Chain
  OBVIOUS
<1>2. TypeInv /\ ModesOK /\ NodesOK(L) /\ ReadOK(t)
  BY <1>1 DEF ReadInv, QueueInv
<1>3. \A s \in Slot : Valid(Here(s)) /\ Here(s) # ANAM_NULL /\ Here(s).slot = s
  BY <1>2, Loaded, HandleFields DEF Here, Valid
<1>4. ASSUME pc[t] \in HeadHeld PROVE Valid(loc[t].head_h)
  <2>1. ~Gone
    BY <1>2, <1>4, Present DEF HeadHeld
  <2>2. head = Here(L[1]) /\ L[1] \in Slot
    BY <1>2, <2>1, ListFacts, Live DEF NodesOK
  <2> QED
    BY <1>3, <2>2
<1>5. ASSUME pc[t] \in NextHeld, loc[t].next_h # ANAM_NULL
      PROVE  /\ Valid(loc[t].next_h) /\ Front = node_data[loc[t].next_h.slot]
             /\ Contents # <<>>
  <2>1. loc[t].next_h = node_next[head.slot]
    BY <1>2, <1>5 DEF ReadOK
  <2>2. Len(L) # 1 /\ loc[t].next_h = Here(L[2]) /\ L[2] \in Slot
    BY <1>2, <1>5, <2>1, FirstLink DEF NodesOK
  <2>3. Front = node_data[L[2]]
    BY <1>2, <2>2, FrontIs DEF NodesOK
  <2>4. Contents # <<>>
    <3>1. PICK C : C = Contents /\ C = ContentsOf(L, node_data)
      BY <1>1, ContentsIs
    <3>2. PICK n \in Nat : n = Len(L) /\ n # 0 /\ L \in Walks
      BY <1>2 DEF NodesOK, IsList, Walks
    <3>3. node_data \in [Slot -> Value \cup {NoValue}]
      BY <1>2 DEF TypeInv, TypeOK
    <3>4. C = <<>> <=> n = 1
      BY <3>1, <3>2, <3>3, ContentsSeq
    <3> QED
      BY <2>2, <3>1, <3>2, <3>4
  <2> QED
    BY <1>3, <2>2, <2>3, <2>4
<1>6. pc[t] \in NextHeld /\ loc[t].next_h = ANAM_NULL => NoValue \in seen[t]
  BY <1>2 DEF ReadOK
<1>7. ASSUME NEW v, PeekReturn(t, v) PROVE v \in seen[t]
  <2>1. CASE pc[t] = "k_get" /\ ~Valid(loc[t].head_h)
    BY <1>4, <2>1 DEF HeadHeld
  <2>2. CASE pc[t] = "k_getn" /\ ~Valid(loc[t].next_h) /\ v = NoValue
    BY <1>5, <1>6, <2>2 DEF NextHeld
  <2>3. CASE pc[t] = "k_read" /\ v = node_data[loc[t].next_h.slot]
    <3>1. loc[t].next_h # ANAM_NULL /\ Front \in seen[t]
      BY <1>2, <2>3 DEF ReadOK, Peeking
    <3> QED
      BY <1>5, <2>3, <3>1 DEF NextHeld
  <2> QED
    BY <1>7, <2>1, <2>2, <2>3 DEF PeekReturn
<1>8. ASSUME EmptyReturn(t, TRUE) PROVE NoValue \in seen[t]
  <2>1. CASE pc[t] = "e_get" /\ ~Valid(loc[t].head_h)
    BY <1>4, <2>1 DEF HeadHeld
  <2>2. CASE pc[t] = "e_ret" /\ loc[t].next_h = ANAM_NULL
    BY <1>6, <2>2 DEF NextHeld
  <2> QED
    BY <1>8, <2>1, <2>2 DEF EmptyReturn
<1>9. ASSUME EmptyReturn(t, FALSE) PROVE Contents # <<>>
  <2>1. pc[t] = "e_ret" /\ loc[t].next_h # ANAM_NULL
    BY <1>9 DEF EmptyReturn
  <2> QED
    BY <1>5, <2>1 DEF NextHeld
<1> QED
  BY <1>7, <1>8, <1>9

\* The invariant of the readers holds under Undisturbed.
LEMMA ReadInvariance == Spec /\ []Undisturbed => []ReadInv
<1>1. ReadInv /\ Undisturbed /\ [Next]_vars => ReadInv'
  BY ReadStep, ReadStutter
<1> QED
  BY <1>1, ReadInit, PTL DEF Spec

\* With any number of producers and consumers anam_queue_peek is wrong only if a pop moved head
\* during the call: otherwise its item was at the front, and false means an empty queue.
THEOREM PeekFrontAlways == Spec /\ []Undisturbed => PeekFront
<1>1. ReadInv => [\A t \in Thread : \A v \in Value \cup {NoValue} :
                    PeekReturn(t, v) => v \in seen[t] \/ loc[t].head_h # head]_vars
  BY Answers
<1> QED
  BY <1>1, ReadInvariance, PTL DEF PeekFront

\* Under the same condition anam_queue_empty is wrong only if a pop moved head during the call.
THEOREM EmptyHonestAlways == Spec /\ []Undisturbed => EmptyHonest
<1>1. ReadInv => [\A t \in Thread : \A is_empty \in BOOLEAN :
                    EmptyReturn(t, is_empty) =>
                      \/ IF is_empty THEN NoValue \in seen[t] ELSE Contents # <<>>
                      \/ loc[t].head_h # head]_vars
  <2> SUFFICES ASSUME ReadInv, NEW t \in Thread, NEW is_empty \in BOOLEAN, EmptyReturn(t, is_empty),
                      loc[t].head_h = head
               PROVE  IF is_empty THEN NoValue \in seen[t] ELSE Contents # <<>>
    OBVIOUS
  <2>1. CASE is_empty = TRUE
    BY <2>1, Answers
  <2>2. CASE is_empty = FALSE
    BY <2>2, Answers
  <2> QED
    BY <2>1, <2>2
<1> QED
  BY <1>1, ReadInvariance, PTL DEF EmptyHonest

\* What peek and empty say of the queue was true at some moment of the call.
NeverWrong ==
  [][\A t \in Thread :
       /\ \A v \in Value \cup {NoValue} : PeekReturn(t, v) => v \in seen[t]
       /\ EmptyReturn(t, TRUE) => NoValue \in seen[t]
       /\ EmptyReturn(t, FALSE) => Contents # <<>>]_vars

\* When the only consumer is the one that calls them, head cannot move during anam_queue_peek
\* and anam_queue_empty, whatever the producers do, and their answers are never wrong.
THEOREM OneReaderNeverWrong ==
  ASSUME OneReader
  PROVE  Spec /\ []Undisturbed => NeverWrong
<1>1. ASSUME ReadInv, NEW t \in Thread,
             (\E v : PeekReturn(t, v)) \/ EmptyReturn(t, TRUE) \/ EmptyReturn(t, FALSE)
      PROVE  loc[t].head_h = head
  <2>1. pc[t] \in HeadHeld
    BY <1>1 DEF PeekReturn, EmptyReturn, HeadHeld
  <2> QED
    BY <1>1, <2>1 DEF ReadInv, ReadOK
<1>2. ReadInv => [\A t \in Thread :
                    /\ \A v \in Value \cup {NoValue} : PeekReturn(t, v) => v \in seen[t]
                    /\ EmptyReturn(t, TRUE) => NoValue \in seen[t]
                    /\ EmptyReturn(t, FALSE) => Contents # <<>>]_vars
  BY <1>1, Answers
<1> QED
  BY <1>2, ReadInvariance, PTL DEF NeverWrong

=============================================================================
