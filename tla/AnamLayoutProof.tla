-------------------------- MODULE AnamLayoutProof ---------------------------
(***************************************************************************)
(* Machine-checked facts about AnamLayout, for every width of a size_t, of *)
(* an address and of a generation, every configuration and every place the *)
(* allocator may choose.                                                   *)
(***************************************************************************)
EXTENDS AnamLayout, Residues

-----------------------------------------------------------------------------
(* Powers of two *)

LEMMA PowerFacts ==
  ASSUME NEW n \in PowersOf2
  PROVE  n \in Nat \ {0} /\ n <= SizeMod /\ n \in Int
BY LayoutAssumption DEF PowersOf2

\* A power of two other than 1 is twice a power of two.
LEMMA Half ==
  ASSUME NEW n \in PowersOf2, n # 1
  PROVE  \E h \in PowersOf2 : n = 2 * h
<1>1. n \in Nat \ {0} /\ n <= SizeMod /\ n >= 2 /\ SizeMod \in Nat
  BY PowerFacts, LayoutAssumption
<1>2. Multiple(n, n)
  <2>1. n = 1 * n
    BY <1>1
  <2> QED
    BY <2>1 DEF Multiple
<1>3. n % n = 0
  BY <1>1, <1>2, MultipleRem
<1>4. n % 2 = 0
  BY <1>1, <1>3 DEF PowersOf2
<1>5. Multiple(n, 2)
  BY <1>1, <1>4, MultipleRem
<1>6. PICK h \in Int : n = h * 2
  BY <1>5 DEF Multiple
<1>7. h \in 1 .. SizeMod /\ n = 2 * h /\ h <= n /\ h \in Nat
  BY <1>1, <1>6
<1>8. ASSUME NEW d \in 2 .. h, h % d = 0 PROVE d % 2 = 0
  <2>1. d \in Nat \ {0} /\ d \in 2 .. n
    BY <1>1, <1>7
  <2>2. Multiple(h, d)
    BY <1>7, <1>8, <2>1, MultipleRem
  <2>3. Multiple(2 * h, d)
    BY <1>7, <2>1, <2>2, MultipleTimes
  <2>4. n % d = 0
    BY <1>1, <1>7, <2>1, <2>3, MultipleRem
  <2> QED
    BY <2>1, <2>4 DEF PowersOf2
<1>9. h \in PowersOf2
  BY <1>7, <1>8 DEF PowersOf2
<1> QED
  BY <1>7, <1>9

\* A power of two is a multiple of every smaller one.
LEMMA PowerDivides ==
  ASSUME NEW a \in PowersOf2, NEW b \in PowersOf2, a <= b
  PROVE  Multiple(b, a)
<1> DEFINE Bad(x, y) == x <= y /\ ~ Multiple(y, x)
           T == {x \in PowersOf2 : \E y \in PowersOf2 : Bad(x, y)}
<1> SUFFICES ASSUME T # {} PROVE FALSE
  OBVIOUS
<1>1. T \subseteq Nat
  BY PowerFacts
<1>2. PICK x \in T : \A z \in T : x <= z
  <2> HIDE DEF T
  <2> QED
    BY <1>1, NatMin, Zenon
<1>3. PICK y \in PowersOf2 : Bad(x, y)
  OBVIOUS
<1>4. x \in PowersOf2 /\ x \in Nat \ {0} /\ y \in Nat \ {0}
  BY PowerFacts
<1>5. x # 1
  <2> SUFFICES ASSUME x = 1 PROVE FALSE
    OBVIOUS
  <2>1. y = y * x /\ y \in Int
    BY <1>4
  <2>2. Multiple(y, x)
    BY <2>1 DEF Multiple
  <2> QED
    BY <1>3, <2>2
<1>6. y # 1
  BY <1>3, <1>4, <1>5
<1>7. PICK p \in PowersOf2 : x = 2 * p
  BY <1>4, <1>5, Half
<1>8. PICK q \in PowersOf2 : y = 2 * q
  BY <1>6, Half
<1>9. p \in Nat \ {0} /\ q \in Nat \ {0}
  BY PowerFacts
<1>10. p <= q /\ ~ (x <= p)
  BY <1>3, <1>4, <1>7, <1>8, <1>9
<1>11. p \notin T
  BY <1>2, <1>10
<1>12. Multiple(q, p)
  BY <1>10, <1>11
<1>13. PICK k \in Int : q = k * p
  BY <1>12 DEF Multiple
<1>14. y = k * x
  BY <1>7, <1>8, <1>9, <1>13
<1>15. Multiple(y, x)
  BY <1>14 DEF Multiple
<1> QED
  BY <1>3, <1>15

\* An alignment that is accepted leaves the three bits of the state free.
LEMMA EightDivides ==
  ASSUME NEW n \in PowersOf2, n >= 8
  PROVE  Multiple(n, 8)
<1>1. n \in Nat
  BY PowerFacts
<1>2. PICK a \in PowersOf2 : n = 2 * a
  BY <1>1, Half
<1>3. a \in Nat /\ a # 1
  BY <1>1, <1>2, PowerFacts
<1>4. PICK b \in PowersOf2 : a = 2 * b
  BY <1>3, Half
<1>5. b \in Nat /\ b # 1
  BY <1>1, <1>2, <1>3, <1>4, PowerFacts
<1>6. PICK c \in PowersOf2 : b = 2 * c
  BY <1>5, Half
<1>7. c \in Nat
  BY PowerFacts
<1>8. n = c * 8 /\ c \in Int
  BY <1>2, <1>3, <1>4, <1>5, <1>6, <1>7
<1> QED
  BY <1>8 DEF Multiple

\* Sizes are rounded to multiples of 8 by the same function.
LEMMA EightPower == 8 \in PowersOf2
<1>1. SizeMod \in Nat /\ 8 <= SizeMod
  BY LayoutAssumption, PowerFacts
<1>2. ASSUME NEW d \in 2 .. 8, 8 % d = 0 PROVE d % 2 = 0
  <2>1. d \in {2, 3, 4, 5, 6, 7, 8}
    OBVIOUS
  <2> QED
    BY <1>2, <2>1
<1> QED
  BY <1>1, <1>2 DEF PowersOf2

-----------------------------------------------------------------------------
(* Rounding *)

\* u is v rounded up to a multiple of a.
Rounded(u, v, a) == u \in Int /\ Multiple(u, a) /\ v <= u /\ u < v + a

LEMMA RoundedOnce ==
  ASSUME NEW a \in Nat \ {0}, NEW v \in Int, NEW u, NEW w, Rounded(u, v, a), Rounded(w, v, a)
  PROVE  u = w
<1>1. /\ u \in Int /\ Multiple(u, a) /\ v <= u /\ u < v + a
      /\ w \in Int /\ Multiple(w, a) /\ v <= w /\ w < v + a
  BY DEF Rounded
<1>2. (u < w => u + a <= w) /\ (w < u => w + a <= u)
  BY <1>1, MultipleGap
<1> QED
  BY <1>1, <1>2

LEMMA RoundUpRounds ==
  ASSUME NEW a \in Nat \ {0}, NEW v \in Int
  PROVE  Rounded(RoundUp(v, a), v, a)
<1>1. PICK x \in Int : x = v + a - 1
  OBVIOUS
<1>2. PICK q \in Int, r \in Int : x = a * q + r /\ 0 <= r /\ r < a /\ q = x \div a
  <2> DEFINE q == x \div a
             r == x % a
  <2>1. q \in Int /\ r \in Int /\ 0 <= r /\ r < a /\ x = a * q + r
    OBVIOUS
  <2> QED
    BY <2>1
<1>3. PICK u \in Int : u = q * a
  OBVIOUS
<1>4. RoundUp(v, a) = u
  BY <1>1, <1>2, <1>3 DEF RoundUp
<1>5. a * q = u
  BY <1>3
<1>6. x = u + r /\ 0 <= r /\ r < a
  BY <1>2, <1>5
<1>7. v <= u /\ u < v + a
  BY <1>1, <1>6
<1> QED
  BY <1>3, <1>4, <1>7 DEF Rounded, Multiple

\* What is a multiple already stays as it is.
LEMMA RoundUpMultiple ==
  ASSUME NEW a \in Nat \ {0}, NEW v \in Int, Multiple(v, a)
  PROVE  RoundUp(v, a) = v
<1>1. Rounded(v, v, a)
  BY DEF Rounded
<1> QED
  BY <1>1, RoundUpRounds, RoundedOnce

\* align_up rounds, if the result is a size_t.
LEMMA AlignUpRounds ==
  ASSUME NEW a \in PowersOf2, NEW v \in Nat, RoundUp(v, a) < SizeMod
  PROVE  align_up(v, a) = RoundUp(v, a)
<1>1. a \in Nat \ {0} /\ a <= SizeMod /\ SizeMod \in Nat \ {0} /\ SizeMod \in PowersOf2
  BY PowerFacts, LayoutAssumption
<1>2. PICK u : u = RoundUp(v, a)
  OBVIOUS
<1>3. u \in Int /\ Multiple(u, a) /\ v <= u /\ u < v + a
  BY <1>1, <1>2, RoundUpRounds DEF Rounded
<1>4. Multiple(SizeMod, a)
  BY <1>1, PowerDivides
<1>5. u + a <= SizeMod
  BY <1>1, <1>2, <1>3, <1>4, MultipleGap
<1>6. PICK x \in Int : x = v + a - 1
  BY <1>1
<1>7. 0 <= x /\ x < SizeMod
  BY <1>1, <1>3, <1>5, <1>6
<1>8. x % SizeMod = x
  <2>1. x = SizeMod * 0 + x
    BY <1>1
  <2> QED
    BY <1>1, <1>7, <2>1, QuotRem
<1>9. PICK q \in Int, r \in Int : x = a * q + r /\ 0 <= r /\ r < a /\ r = x % a
  BY <1>1, Euclid
<1>10. align_up(v, a) = x - r
  BY <1>6, <1>8, <1>9 DEF align_up
<1>11. PICK w \in Int : w = q * a
  BY <1>1
<1>12. a * q = w
  BY <1>1, <1>11
<1>13. Multiple(w, a)
  BY <1>11 DEF Multiple
<1>14. x = w + r /\ v <= w /\ w < v + a
  <2>1. x = w + r /\ 0 <= r /\ r < a
    BY <1>9, <1>12
  <2> QED
    BY <1>1, <1>6, <2>1
<1>15. Rounded(w, v, a)
  BY <1>13, <1>14 DEF Rounded
<1>16. w = u
  BY <1>1, <1>2, <1>15, RoundUpRounds, RoundedOnce
<1>17. x - r = w
  BY <1>14
<1> QED
  BY <1>2, <1>10, <1>16, <1>17

\* Whatever wraps, align_up gives a size_t that is a multiple.
LEMMA AlignUpType ==
  ASSUME NEW a \in PowersOf2, NEW v \in Int
  PROVE  align_up(v, a) \in 0 .. SizeMod - 1 /\ Multiple(align_up(v, a), a)
<1>1. a \in Nat \ {0} /\ SizeMod \in Nat \ {0}
  BY PowerFacts, LayoutAssumption
<1>2. PICK x \in Int : x = v + a - 1
  BY <1>1
<1>3. PICK p \in Int, s \in Int : x = SizeMod * p + s /\ 0 <= s /\ s < SizeMod /\ s = x % SizeMod
  BY <1>1, Euclid
<1>4. PICK q \in Int, r \in Int : s = a * q + r /\ 0 <= r /\ r < a /\ r = s % a
  BY <1>1, Euclid
<1>5. align_up(v, a) = s - r
  BY <1>2, <1>3, <1>4 DEF align_up
<1>6. PICK w \in Int : w = q * a
  BY <1>1
<1>7. a * q = w
  BY <1>1, <1>6
<1>8. s = w + r /\ 0 <= r /\ r < a /\ 0 <= s /\ s < SizeMod
  BY <1>3, <1>4, <1>7
<1>9. 0 < w + a
  BY <1>1, <1>8
<1>10. Multiple(w, a) /\ Multiple(0, a)
  <2>1. 0 = 0 * a
    BY <1>1
  <2> QED
    BY <1>6, <2>1 DEF Multiple
<1>11. 0 <= w
  BY <1>1, <1>9, <1>10, MultipleGap
<1> QED
  BY <1>1, <1>5, <1>8, <1>10, <1>11

-----------------------------------------------------------------------------
(* What anam_pool_create computes *)

\* A product of natural numbers is at least each of its factors.
LEMMA ProductBound ==
  ASSUME NEW x \in Nat, NEW n \in Nat \ {0}
  PROVE  x * n \in Nat /\ x <= x * n
<1>1. PICK k \in Nat : k = n - 1
  OBVIOUS
<1>2. x * n = x * k + x /\ x * k \in Nat
  BY <1>1
<1> QED
  BY <1>2

\* The sizes of a configuration that is accepted: a is the alignment, z the size and
\* n the number of the slots, H and U are header and user size rounded up, and P is
\* the product for all slots, in unbounded arithmetic.
Sizes(c, a, z, n, H, U, P) ==
  /\ a = Alignment(c) /\ z = c.slot_size /\ n = c.slot_count
  /\ a \in PowersOf2 /\ a >= 8 /\ Multiple(a, 8)
  /\ z \in Nat \ {0} /\ n \in Nat \ {0}
  /\ H = RoundUp(HeaderSize, a) /\ Rounded(H, HeaderSize, a)
  /\ U = RoundUp(z, a) /\ Rounded(U, z, a)
  /\ P = (H + U) * n

LEMMA SizesExist ==
  ASSUME NEW c \in Configs, Accepts(c)
  PROVE  \E a, z, n, H, U, P : Sizes(c, a, z, n, H, U, P)
<1>1. c \in AnamPoolConfig /\ SizeMod \in Nat
  BY LayoutAssumption
<1>2. c.slot_size \in Nat \ {0} /\ c.slot_count \in Nat \ {0}
  BY <1>1 DEF AnamPoolConfig, Accepts
<1>3. PICK a, z, n : a = Alignment(c) /\ z = c.slot_size /\ n = c.slot_count
  OBVIOUS
<1>4. a \in PowersOf2 /\ a >= 8
  BY <1>3 DEF Accepts
<1>5. Multiple(a, 8) /\ a \in Nat \ {0}
  BY <1>4, EightDivides, PowerFacts
<1>6. PICK H, U : H = RoundUp(HeaderSize, a) /\ U = RoundUp(z, a)
  OBVIOUS
<1>7. Rounded(H, HeaderSize, a) /\ Rounded(U, z, a)
  BY <1>2, <1>3, <1>5, <1>6, RoundUpRounds DEF HeaderSize
<1>8. PICK P : P = (H + U) * n
  OBVIOUS
<1>9. Sizes(c, a, z, n, H, U, P)
  BY <1>2, <1>3, <1>4, <1>5, <1>6, <1>7, <1>8 DEF Sizes
<1> QED
  BY <1>9

\* Their types and bounds.
LEMMA SizesFacts ==
  ASSUME NEW c, NEW a, NEW z, NEW n, NEW H, NEW U, NEW P, Sizes(c, a, z, n, H, U, P)
  PROVE  /\ a \in Nat \ {0} /\ z \in Nat \ {0} /\ n \in Nat \ {0}
         /\ H \in Nat /\ U \in Nat /\ P \in Nat /\ 16 <= H /\ z <= U
         /\ H + U <= P /\ H < 16 + a /\ U < z + a
         /\ Multiple(H, a) /\ Multiple(U, a) /\ Multiple(H + U, a) /\ Multiple(P, a)
         /\ Multiple(P + a, a) /\ Multiple(H + U, 8)
<1>1. /\ a \in Nat \ {0} /\ z \in Nat \ {0} /\ n \in Nat \ {0} /\ a \in PowersOf2 /\ Multiple(a, 8)
  BY PowerFacts DEF Sizes
<1>2. /\ H \in Int /\ 16 <= H /\ H < 16 + a /\ Multiple(H, a)
      /\ U \in Int /\ z <= U /\ U < z + a /\ Multiple(U, a)
  BY DEF Sizes, Rounded, HeaderSize
<1>3. PICK S \in Nat : S = H + U
  BY <1>1, <1>2
<1>4. P = S * n
  BY <1>3 DEF Sizes
<1>5. P \in Nat /\ S <= P
  BY <1>1, <1>3, <1>4, ProductBound
<1>6. Multiple(S, a)
  BY <1>1, <1>2, <1>3, MultipleSum
<1>7. Multiple(P, a)
  BY <1>1, <1>3, <1>4, <1>6, MultipleTimes
<1>8. Multiple(a, a)
  <2>1. a = 1 * a
    BY <1>1
  <2> QED
    BY <2>1 DEF Multiple
<1>9. Multiple(P + a, a)
  BY <1>1, <1>5, <1>7, <1>8, MultipleSum
<1>10. Multiple(S, 8)
  BY <1>1, <1>3, <1>6, MultipleTrans
<1> QED
  BY <1>1, <1>2, <1>3, <1>5, <1>6, <1>7, <1>9, <1>10

\* A size below the modulus is its own remainder.
LEMMA SmallRem ==
  ASSUME NEW m \in Nat \ {0}, NEW x \in Nat, x < m
  PROVE  x % m = x
<1>1. x = m * 0 + x
  OBVIOUS
<1> QED
  BY <1>1, QuotRem

\* If the sum of header and user size is a size_t, it is the stride.
LEMMA StrideIs ==
  ASSUME NEW c, NEW a, NEW z, NEW n, NEW H, NEW U, NEW P, Sizes(c, a, z, n, H, U, P),
         H + U < SizeMod
  PROVE  Stride(c) = H + U
<1>1. SizeMod \in Nat \ {0} /\ SizeMod \in PowersOf2
  BY LayoutAssumption, PowerFacts
<1>2. /\ a \in Nat \ {0} /\ z \in Nat \ {0} /\ H \in Nat /\ U \in Nat /\ Multiple(H + U, 8)
  BY SizesFacts
<1>3. H < SizeMod /\ U < SizeMod
  BY <1>1, <1>2
<1>4. a \in PowersOf2 /\ H = RoundUp(HeaderSize, a) /\ U = RoundUp(z, a)
  BY DEF Sizes
<1>5. align_up(HeaderSize, a) = H
  BY <1>3, <1>4, AlignUpRounds DEF HeaderSize
<1>6. align_up(z, a) = U
  BY <1>2, <1>3, <1>4, AlignUpRounds
<1>7. PICK S \in Nat : S = H + U
  BY <1>2
<1>8. S % SizeMod = S
  BY <1>1, <1>7, SmallRem
<1>9. RoundUp(S, 8) = S
  BY <1>2, <1>7, RoundUpMultiple
<1>10. 8 \in PowersOf2
  BY EightPower
<1>11. align_up(S, 8) = S
  BY <1>7, <1>9, <1>10, AlignUpRounds
<1>12. Stride(c) = align_up((align_up(HeaderSize, a) + align_up(z, a)) % SizeMod, 8)
  BY DEF Stride, Sizes
<1> QED
  BY <1>5, <1>6, <1>7, <1>8, <1>11, <1>12

\* Whatever wraps, the stride is a number.
LEMMA StrideType ==
  ASSUME NEW c, NEW a, NEW z, NEW n, NEW H, NEW U, NEW P, Sizes(c, a, z, n, H, U, P)
  PROVE  Stride(c) \in Int
<1>1. a \in PowersOf2 /\ z \in Int /\ HeaderSize \in Int
  BY DEF Sizes, HeaderSize
<1>2. PICK x, y : x = align_up(HeaderSize, a) /\ y = align_up(z, a)
  OBVIOUS
<1>3. x \in Int /\ y \in Int
  BY <1>1, <1>2, AlignUpType
<1>4. Stride(c) = align_up((x + y) % SizeMod, 8)
  BY <1>2 DEF Stride, Sizes
<1>5. (x + y) % SizeMod \in Int
  BY <1>3, LayoutAssumption, PowerFacts
<1> QED
  BY <1>4, <1>5, EightPower, AlignUpType

\* If the whole size is a size_t too, nothing wraps.
LEMMA TotalIs ==
  ASSUME NEW c, NEW a, NEW z, NEW n, NEW H, NEW U, NEW P, Sizes(c, a, z, n, H, U, P),
         Stride(c) = H + U, P + a < SizeMod
  PROVE  TotalSize(c) = P + a
<1>1. SizeMod \in Nat \ {0}
  BY LayoutAssumption, PowerFacts
<1>2. /\ a \in Nat \ {0} /\ P \in Nat /\ Multiple(P + a, a)
  BY SizesFacts
<1>3. PICK N \in Nat : N = P + a
  BY <1>2
<1>4. N % SizeMod = N
  BY <1>1, <1>3, SmallRem
<1>5. RoundUp(N, a) = N
  BY <1>2, <1>3, RoundUpMultiple
<1>6. align_up(N, a) = N
  BY <1>3, <1>5, AlignUpRounds DEF Sizes
<1>7. TotalSize(c) = align_up(N % SizeMod, a)
  BY <1>3 DEF TotalSize, Sizes
<1> QED
  BY <1>3, <1>4, <1>6, <1>7

\* The first slot comes after room for its header.
LEMMA BaseIs ==
  ASSUME NEW c, NEW a, NEW z, NEW n, NEW H, NEW U, NEW P, Sizes(c, a, z, n, H, U, P),
         NEW m \in Nat, Multiple(m, a), m + H < SizeMod
  PROVE  SlotsBase(c, m) = m + H
<1>1. a \in Nat \ {0} /\ H \in Nat /\ 16 <= H /\ H < 16 + a /\ Multiple(H, a)
  BY SizesFacts
<1>2. PICK v \in Nat, u \in Nat : v = m + 16 /\ u = m + H
  BY <1>1
<1>3. Multiple(u, a)
  BY <1>1, <1>2, MultipleSum
<1>4. v <= u /\ u < v + a
  BY <1>1, <1>2
<1>5. Rounded(u, v, a)
  BY <1>2, <1>3, <1>4 DEF Rounded
<1>6. RoundUp(v, a) = u
  BY <1>1, <1>2, <1>5, RoundUpRounds, RoundedOnce
<1>7. align_up(v, a) = u
  BY <1>2, <1>6, AlignUpRounds DEF Sizes
<1> QED
  BY <1>2, <1>7 DEF SlotsBase, Sizes, HeaderSize

\* The pool that anam_pool_create returns for c when the block is at m.
Made(c, m) ==
  [memory |-> m, total |-> TotalSize(c), slot_size |-> c.slot_size, slot_count |-> c.slot_count,
   alignment |-> Alignment(c), slot_stride |-> Stride(c), slot_stride_mask |-> StrideMask(c),
   slots_base |-> SlotsBase(c, m)]

Block(c, m) ==
  c \in Configs /\ Accepts(c) /\ m \in Memory /\ m % Alignment(c) = 0 /\ m + TotalSize(c) <= AddrMod

\* The inductive invariant: a pool is one that anam_pool_create has returned.
LayoutInv == pool # NULL => \E c, m : Block(c, m) /\ pool = Made(c, m)

\* A pool is created for a configuration that is accepted, and never changed.
LEMMA LayoutInvariance == Spec => []LayoutInv
<1>1. Init => LayoutInv
  BY DEF Init, LayoutInv
<1>2. LayoutInv /\ [Next]_pool => LayoutInv'
  <2> SUFFICES ASSUME LayoutInv, [Next]_pool PROVE LayoutInv'
    OBVIOUS
  <2>1. CASE UNCHANGED pool
    BY <2>1 DEF LayoutInv
  <2>2. CASE Destroy
    BY <2>2 DEF Destroy, LayoutInv
  <2>3. ASSUME NEW c \in Configs, Create(c) PROVE LayoutInv'
    <3>1. CASE pool' = NULL
      BY <3>1 DEF LayoutInv
    <3>2. ASSUME NEW m \in Memory, Accepts(c), m % Alignment(c) = 0, m + TotalSize(c) <= AddrMod,
                 pool' = Made(c, m)
          PROVE  LayoutInv'
      <4>1. Block(c, m)
        BY <3>2 DEF Block
      <4> QED
        BY <3>2, <4>1 DEF LayoutInv
    <3> QED
      BY <2>3, <3>1, <3>2 DEF Create, Made
  <2> QED
    BY <2>1, <2>2, <2>3 DEF Next
<1> QED
  BY <1>1, <1>2, PTL DEF Spec

\* The layout of a pool that fits: m is the address of the block, a the alignment, z
\* the size and n the number of its slots, H the room before the first one and S the
\* distance from one to the next.
Laid(m, a, z, n, H, S, P) ==
  /\ m \in Nat /\ z \in Nat \ {0} /\ n \in Nat \ {0} /\ H \in Nat /\ S \in Nat \ {0} /\ P \in Nat
  /\ a \in PowersOf2 /\ a \in Nat /\ a >= 8
  /\ 16 <= H /\ H + z <= S /\ P = S * n /\ m + P + a <= AddrMod /\ a <= m
  /\ Multiple(a, 8) /\ Multiple(m, a) /\ Multiple(H, a) /\ Multiple(S, a)
  /\ pool.memory = m /\ pool.total = P + a /\ pool.slot_size = z /\ pool.slot_count = n
  /\ pool.alignment = a /\ pool.slot_stride = S /\ pool.slots_base = m + H
  /\ pool.slot_stride_mask = IF S \in PowersOf2 THEN S - 1 ELSE 0

\* The address and the fields of a block.
LEMMA BlockFacts ==
  ASSUME NEW c, NEW m, Block(c, m)
  PROVE  \E a, z, n, H, U, P :
           /\ Sizes(c, a, z, n, H, U, P)
           /\ m \in Nat /\ Multiple(m, a) /\ a <= m /\ TotalSize(c) \in Nat /\ Multiple(TotalSize(c), a)
           /\ m + TotalSize(c) <= AddrMod
<1>1. PICK a, z, n, H, U, P : Sizes(c, a, z, n, H, U, P)
  BY SizesExist DEF Block
<1>2. a \in Nat \ {0} /\ a \in PowersOf2 /\ a = Alignment(c)
  BY <1>1, SizesFacts DEF Sizes
<1>3. m \in Nat \ {0} /\ m % a = 0
  BY <1>2, LayoutAssumption DEF Block
<1>4. Multiple(m, a)
  BY <1>2, <1>3, MultipleRem
<1>5. Multiple(0, a)
  <2>1. 0 = 0 * a
    BY <1>2
  <2> QED
    BY <2>1 DEF Multiple
<1>6. a <= m
  BY <1>2, <1>3, <1>4, <1>5, MultipleGap
<1>7. PICK v : v = (Stride(c) * c.slot_count + Alignment(c)) % SizeMod
  OBVIOUS
<1>8. TotalSize(c) = align_up(v, a)
  BY <1>2, <1>7 DEF TotalSize
<1>9. v \in Int
  <2>1. Stride(c) \in Int
    BY <1>1, StrideType
  <2>2. PICK x \in Int : x = Stride(c) * c.slot_count + Alignment(c)
    BY <1>1, <1>2, <2>1 DEF Sizes
  <2> QED
    BY <1>7, <2>2, LayoutAssumption, PowerFacts
<1>10. TotalSize(c) \in Nat /\ Multiple(TotalSize(c), a)
  BY <1>2, <1>8, <1>9, AlignUpType, LayoutAssumption
<1>11. m + TotalSize(c) <= AddrMod
  BY DEF Block
<1> QED
  BY <1>1, <1>3, <1>4, <1>6, <1>10, <1>11

LEMMA MadeFields ==
  ASSUME NEW c, NEW m, pool = Made(c, m), NEW a, NEW z, NEW n, NEW H, NEW U, NEW P,
         Sizes(c, a, z, n, H, U, P)
  PROVE  /\ pool.memory = m /\ pool.total = TotalSize(c) /\ pool.slot_size = z
         /\ pool.slot_count = n /\ pool.alignment = a /\ pool.slot_stride = Stride(c)
         /\ pool.slot_stride_mask = StrideMask(c) /\ pool.slots_base = SlotsBase(c, m)
BY DEF Made, Sizes

\* Fits says that the size for all slots and one alignment unit is a size_t.
LEMMA FitsIs ==
  ASSUME NEW c, NEW m, pool = Made(c, m), NEW a, NEW z, NEW n, NEW H, NEW U, NEW P,
         Sizes(c, a, z, n, H, U, P)
  PROVE  Fits <=> P + a < SizeMod
<1>1. pool.slot_size = z /\ pool.slot_count = n /\ pool.alignment = a
  BY MadeFields
<1>2. a \in Nat \ {0} /\ P \in Nat /\ Multiple(P + a, a)
  BY SizesFacts
<1>3. RoundUp(P + a, a) = P + a
  BY <1>2, RoundUpMultiple
<1>4. P = (RoundUp(HeaderSize, a) + RoundUp(z, a)) * n
  BY DEF Sizes
<1> QED
  BY <1>1, <1>3, <1>4 DEF Fits

\* In a pool that fits nothing has wrapped.
LEMMA SoundIsLaid ==
  ASSUME LayoutInv, Sound
  PROVE  \E m, a, z, n, H, S, P : Laid(m, a, z, n, H, S, P)
<1>1. PICK c, m : Block(c, m) /\ pool = Made(c, m)
  BY DEF LayoutInv, Sound
<1>2. PICK a, z, n, H, U, P :
        /\ Sizes(c, a, z, n, H, U, P)
        /\ m \in Nat /\ Multiple(m, a) /\ a <= m /\ TotalSize(c) \in Nat /\ Multiple(TotalSize(c), a)
        /\ m + TotalSize(c) <= AddrMod
  BY <1>1, BlockFacts
<1>3. /\ a \in Nat \ {0} /\ z \in Nat \ {0} /\ n \in Nat \ {0}
      /\ H \in Nat /\ U \in Nat /\ P \in Nat /\ 16 <= H /\ z <= U
      /\ H + U <= P /\ Multiple(H, a) /\ Multiple(H + U, a)
  BY <1>2, SizesFacts
<1>4. P + a < SizeMod
  BY <1>1, <1>2, FitsIs DEF Sound
<1>5. SizeMod \in Nat \ {0} /\ AddrMod \in Nat /\ AddrMod <= SizeMod
  BY LayoutAssumption, PowerFacts
<1>6. PICK S \in Nat \ {0} : S = H + U
  BY <1>3
<1>7. S < SizeMod
  BY <1>3, <1>4, <1>5, <1>6
<1>8. Stride(c) = S
  BY <1>2, <1>6, <1>7, StrideIs
<1>9. TotalSize(c) = P + a
  BY <1>2, <1>4, <1>6, <1>8, TotalIs
<1>10. m + P + a <= AddrMod
  BY <1>2, <1>3, <1>9
<1>11. m + H < SizeMod
  BY <1>2, <1>3, <1>5, <1>10
<1>12. SlotsBase(c, m) = m + H
  BY <1>2, <1>11, BaseIs
<1>13. StrideMask(c) = IF S \in PowersOf2 THEN S - 1 ELSE 0
  <2>1. PICK y \in Nat : y = S - 1
    BY <1>6
  <2>2. y % SizeMod = y
    BY <1>5, <1>7, <2>1, SmallRem
  <2> QED
    BY <1>6, <1>8, <2>1, <2>2 DEF StrideMask
<1>14. /\ pool.memory = m /\ pool.total = P + a /\ pool.slot_size = z /\ pool.slot_count = n
       /\ pool.alignment = a /\ pool.slot_stride = S /\ pool.slots_base = m + H
       /\ pool.slot_stride_mask = IF S \in PowersOf2 THEN S - 1 ELSE 0
  BY <1>1, <1>2, <1>8, <1>9, <1>12, <1>13, MadeFields
<1>15. P = S * n /\ a \in PowersOf2 /\ a >= 8 /\ Multiple(a, 8)
  BY <1>2, <1>6 DEF Sizes
<1>16. H + z <= S
  BY <1>3, <1>6
<1>17. Laid(m, a, z, n, H, S, P)
  BY <1>2, <1>3, <1>6, <1>10, <1>14, <1>15, <1>16 DEF Laid
<1> QED
  BY <1>17

-----------------------------------------------------------------------------
(* The slots of a pool that fits *)

\* Where slot i is. X is the distance from the first slot.
At(m, H, S, P, i, X) ==
  /\ X \in Nat /\ X = i * S /\ X + S <= P
  /\ slot_from_index(i) = m + H + X

LEMMA SlotAt ==
  ASSUME NEW m, NEW a, NEW z, NEW n, NEW H, NEW S, NEW P, Laid(m, a, z, n, H, S, P),
         NEW i \in Indices
  PROVE  \E X : At(m, H, S, P, i, X)
<1>1. /\ m \in Nat /\ H \in Nat /\ S \in Nat /\ P \in Nat /\ n \in Nat /\ P = S * n
      /\ pool.slot_stride = S /\ pool.slots_base = m + H /\ pool.slot_count = n
  BY DEF Laid
<1>2. i \in Nat /\ i <= n - 1
  BY <1>1 DEF Indices
<1>3. PICK j \in Nat : j = n - 1 - i
  BY <1>1, <1>2
<1>4. PICK X \in Nat, Y \in Nat : X = i * S /\ Y = j * S
  BY <1>1, <1>2
<1>5. n = i + j + 1
  BY <1>1, <1>2, <1>3
<1>6. S * n = X + Y + S
  BY <1>1, <1>2, <1>3, <1>4, <1>5
<1>7. X + S <= P
  BY <1>1, <1>4, <1>6
<1>8. slot_from_index(i) = m + H + X
  BY <1>1, <1>4 DEF slot_from_index
<1> QED
  BY <1>4, <1>7, <1>8 DEF At

\* A slot of a pool that fits, and its header, are inside the block.
LEMMA LaidInBlock ==
  ASSUME NEW m, NEW a, NEW z, NEW n, NEW H, NEW S, NEW P, Laid(m, a, z, n, H, S, P),
         NEW i \in Indices
  PROVE  Bytes(i) \subseteq pool.memory .. pool.memory + pool.total - 1
<1>1. PICK X : At(m, H, S, P, i, X)
  BY SlotAt
<1>2. /\ X \in Nat /\ X + S <= P /\ slot_from_index(i) = m + H + X
      /\ m \in Nat /\ H \in Nat /\ S \in Nat /\ P \in Nat /\ a \in Nat /\ z \in Nat
      /\ 16 <= H /\ H + z <= S
      /\ pool.memory = m /\ pool.total = P + a /\ pool.slot_size = z
  BY <1>1 DEF At, Laid
<1>3. Bytes(i) = m + H + X - 16 .. m + H + X + z - 1
  BY <1>2 DEF Bytes, get_header, HeaderSize
<1> QED
  BY <1>2, <1>3

\* The bytes of slots with different numbers do not meet.
LEMMA LaidApart ==
  ASSUME NEW m, NEW a, NEW z, NEW n, NEW H, NEW S, NEW P, Laid(m, a, z, n, H, S, P),
         NEW i \in Indices, NEW j \in Indices, i < j
  PROVE  Bytes(i) \cap Bytes(j) = {}
<1>1. PICK X : At(m, H, S, P, i, X)
  BY SlotAt
<1>2. PICK Y : At(m, H, S, P, j, Y)
  BY SlotAt
<1>3. /\ m \in Nat /\ H \in Nat /\ S \in Nat /\ z \in Nat /\ n \in Nat
      /\ 16 <= H /\ H + z <= S /\ pool.slot_size = z /\ pool.slot_count = n
  BY DEF Laid
<1>4. i \in Nat /\ j \in Nat
  BY <1>3 DEF Indices
<1>5. /\ X \in Nat /\ X = i * S /\ slot_from_index(i) = m + H + X
      /\ Y \in Nat /\ Y = j * S /\ slot_from_index(j) = m + H + Y
  BY <1>1, <1>2 DEF At
<1>6. PICK k \in Nat : k = j - i - 1
  BY <1>4
<1>7. PICK Z \in Nat : Z = k * S
  BY <1>3
<1>8. j * S = i * S + S + k * S
  <2>1. j = i + 1 + k
    BY <1>4, <1>6
  <2> QED
    BY <1>3, <1>4, <2>1
<1>9. X + S <= Y
  BY <1>3, <1>5, <1>7, <1>8
<1>10. /\ Bytes(i) = m + H + X - 16 .. m + H + X + z - 1
       /\ Bytes(j) = m + H + Y - 16 .. m + H + Y + z - 1
  BY <1>3, <1>5 DEF Bytes, get_header, HeaderSize
<1>11. X \in Nat /\ Y \in Nat
  BY <1>5
<1> SUFFICES ASSUME NEW b \in Bytes(i), b \in Bytes(j) PROVE FALSE
  OBVIOUS
<1>12. b \in Int /\ b <= m + H + X + z - 1 /\ m + H + Y - 16 <= b
  BY <1>3, <1>10, <1>11
<1> QED
  BY <1>3, <1>9, <1>11, <1>12

\* The slots of a pool never share a byte, headers included, whatever the size, the
\* number and the alignment of the slots, as long as the pool fits in a size_t.
THEOREM SlotsSeparateAlways == Spec => []SlotsSeparate
<1>1. LayoutInv => SlotsSeparate
  <2> SUFFICES ASSUME LayoutInv, Sound, NEW i \in Indices, NEW j \in Indices \ {i}
               PROVE  Bytes(i) \cap Bytes(j) = {}
    BY DEF SlotsSeparate
  <2>1. PICK m, a, z, n, H, S, P : Laid(m, a, z, n, H, S, P)
    BY SoundIsLaid
  <2>2. i \in Int /\ j \in Int
    BY <2>1 DEF Laid, Indices
  <2>3. CASE i < j
    BY <2>1, <2>3, LaidApart
  <2>4. CASE j < i
    BY <2>1, <2>4, LaidApart
  <2> QED
    BY <2>2, <2>3, <2>4
<1> QED
  BY <1>1, LayoutInvariance, PTL

\* The address of a slot as a multiple of the alignment.
LEMMA SlotMultiple ==
  ASSUME NEW m, NEW a, NEW z, NEW n, NEW H, NEW S, NEW P, Laid(m, a, z, n, H, S, P),
         NEW i, NEW X, At(m, H, S, P, i, X), i \in Int
  PROVE  slot_from_index(i) \in Nat /\ Multiple(slot_from_index(i), a)
<1>1. /\ m \in Nat /\ H \in Nat /\ S \in Nat /\ a \in Nat
      /\ Multiple(m, a) /\ Multiple(H, a) /\ Multiple(S, a)
  BY DEF Laid
<1>2. X \in Nat /\ X = i * S /\ slot_from_index(i) = m + H + X
  BY DEF At
<1>3. Multiple(X, a)
  BY <1>1, <1>2, MultipleTimes
<1>4. PICK y \in Nat : y = m + H
  BY <1>1
<1>5. Multiple(y, a)
  BY <1>1, <1>4, MultipleSum
<1>6. Multiple(y + X, a)
  BY <1>1, <1>2, <1>3, <1>4, <1>5, MultipleSum
<1> QED
  BY <1>1, <1>2, <1>4, <1>6

\* Every slot of a pool that fits is aligned as configured.
THEOREM SlotsAlignedAlways == Spec => []SlotsAligned
<1>1. LayoutInv => SlotsAligned
  <2> SUFFICES ASSUME LayoutInv, Sound, NEW i \in Indices
               PROVE  slot_from_index(i) % pool.alignment = 0
    BY DEF SlotsAligned
  <2>1. PICK m, a, z, n, H, S, P : Laid(m, a, z, n, H, S, P)
    BY SoundIsLaid
  <2>2. PICK X : At(m, H, S, P, i, X)
    BY <2>1, SlotAt
  <2>3. i \in Int /\ a \in Nat \ {0} /\ pool.alignment = a
    BY <2>1 DEF Laid, Indices
  <2>4. slot_from_index(i) \in Nat /\ Multiple(slot_from_index(i), a)
    BY <2>1, <2>2, <2>3, SlotMultiple
  <2>5. slot_from_index(i) % a = 0
    BY <2>3, <2>4, MultipleRem
  <2> QED
    BY <2>3, <2>5
<1> QED
  BY <1>1, LayoutInvariance, PTL

-----------------------------------------------------------------------------
(* Handles *)

\* A handle is built from fields that do not overlap, and taken apart again.
LEMMA Fields ==
  ASSUME NEW p \in Nat \ {0}, p < AddrMod, Multiple(p, 8), NEW g \in 0 .. GenMod - 1,
         NEW st \in 0 .. 7, NEW h, h = encode_handle(g, p, st)
  PROVE  h # 0 /\ decode_addr(h) = p /\ decode_gen(h) = g /\ anam_state(h) = st
<1>1. /\ AddrMod \in Nat \ {0} /\ GenMod \in Nat \ {0} /\ Multiple(AddrMod, 8)
  BY LayoutAssumption, PowerFacts, EightDivides
<1>2. g \in Nat /\ g < GenMod /\ st \in Nat /\ st < 8
  BY <1>1
<1>3. g % GenMod = g /\ p % AddrMod = p /\ st % 8 = st
  BY <1>1, <1>2, SmallRem
<1>4. p % 8 = 0
  BY MultipleRem
<1>5. PICK G \in Nat : G = g * AddrMod
  BY <1>1, <1>2
<1>6. h = G + p + st
  BY <1>3, <1>4, <1>5 DEF encode_handle
<1>7. p + 8 <= AddrMod
  BY <1>1, MultipleGap
<1>8. PICK r \in Nat : r = p + st
  BY <1>2
<1>9. AddrMod * g = G
  BY <1>1, <1>2, <1>5
<1>10. h = AddrMod * g + r /\ 0 <= r /\ r < AddrMod /\ h \in Int
  BY <1>1, <1>2, <1>5, <1>6, <1>7, <1>8, <1>9
<1>11. h \div AddrMod = g /\ h % AddrMod = r
  BY <1>1, <1>2, <1>10, QuotRem
<1>12. PICK k \in Int : G + p = k * 8
  <2>1. Multiple(G, 8)
    BY <1>1, <1>2, <1>5, MultipleTimes
  <2>2. Multiple(G + p, 8)
    BY <1>5, <2>1, MultipleSum
  <2> QED
    BY <2>2 DEF Multiple
<1>13. h = 8 * k + st
  BY <1>2, <1>5, <1>6, <1>12
<1>14. h % 8 = st
  <2>1. PICK e \in Nat \ {0} : e = 8
    OBVIOUS
  <2>2. h = e * k + st /\ 0 <= st /\ st < e /\ h \in Int /\ st \in Int
    BY <1>2, <1>10, <1>13, <2>1
  <2>3. h % e = st
    BY <2>2, QuotRem
  <2> QED
    BY <2>1, <2>3
<1>15. h # 0
  BY <1>2, <1>5, <1>6
<1>16. r - st = p
  BY <1>2, <1>8
<1> QED
  BY <1>3, <1>11, <1>14, <1>15, <1>16 DEF decode_addr, decode_gen, anam_state

\* Encoding a slot, a generation and a state in one word loses nothing, for every
\* pool that fits below the address field of a handle.
THEOREM HandleRoundTripAlways == Spec => []HandleRoundTrip
<1>1. LayoutInv => HandleRoundTrip
  <2> SUFFICES ASSUME LayoutInv, Sound, NEW i \in Indices, NEW g \in 0 .. GenMod - 1,
                      NEW st \in {FREE, LIVE}, NEW p, p = slot_from_index(i),
                      NEW h, h = encode_handle(g, p, st)
               PROVE  /\ h # 0
                      /\ decode_addr(h) = p /\ decode_gen(h) = g /\ anam_state(h) = st
                      /\ SlotIndex(decode_addr(h)) = i
    BY DEF HandleRoundTrip
  <2>1. PICK m, a, z, n, H, S, P : Laid(m, a, z, n, H, S, P)
    BY SoundIsLaid
  <2>2. PICK X : At(m, H, S, P, i, X)
    BY <2>1, SlotAt
  <2>3. /\ m \in Nat /\ a \in Nat /\ z \in Nat /\ n \in Nat /\ H \in Nat /\ S \in Nat \ {0} /\ P \in Nat
        /\ a >= 8 /\ m + P + a <= AddrMod /\ H + z <= S /\ 16 <= H /\ Multiple(a, 8)
        /\ pool.slot_stride = S /\ pool.slots_base = m + H /\ pool.slot_count = n
    BY <2>1 DEF Laid
  <2>4. i \in Nat
    BY <2>3 DEF Indices
  <2>5. X \in Nat /\ X = i * S /\ X + S <= P /\ p = m + H + X
    BY <2>2 DEF At
  <2>6. p \in Nat \ {0} /\ Multiple(p, a)
    <3>1. p \in Nat /\ Multiple(p, a)
      BY <2>1, <2>2, <2>4, SlotMultiple
    <3>2. p >= 16
      BY <2>3, <2>5
    <3> QED
      BY <3>1, <3>2
  <2>7. Multiple(p, 8)
    BY <2>3, <2>6, MultipleTrans
  <2>8. p < AddrMod
    <3>1. X \in Nat /\ X + S <= P /\ p = m + H + X /\ AddrMod \in Nat
      BY <2>5, LayoutAssumption, PowerFacts
    <3> QED
      BY <2>3, <3>1
  <2>9. st \in 0 .. 7
    BY DEF FREE, LIVE
  <2>10. h # 0 /\ decode_addr(h) = p /\ decode_gen(h) = g /\ anam_state(h) = st
    BY <2>6, <2>7, <2>8, <2>9, Fields
  <2>11. p - pool.slots_base = X
    BY <2>3, <2>5
  <2>12. X = S * i + 0
    BY <2>3, <2>4, <2>5
  <2>13. X \div S = i
    BY <2>3, <2>4, <2>5, <2>12, QuotRem
  <2> QED
    BY <2>3, <2>10, <2>11, <2>13 DEF SlotIndex
<1> QED
  BY <1>1, LayoutInvariance, PTL

-----------------------------------------------------------------------------
(* The slots and the block *)

\* A multiple that is large enough for z is large enough for z rounded up.
LEMMA RoomForUser ==
  ASSUME NEW a \in Nat \ {0}, NEW y \in Int, NEW z \in Int, NEW u,
         Multiple(y, a), z <= y, Rounded(u, z, a)
  PROVE  u <= y
<1>1. u \in Int /\ Multiple(u, a) /\ u < z + a
  BY DEF Rounded
<1>2. y < u => y + a <= u
  BY <1>1, MultipleGap
<1> QED
  BY <1>1, <1>2

\* If the first slot lies in the block, stride and base have not wrapped.
LEMMA FirstSlot ==
  ASSUME NEW c, NEW m, NEW a, NEW z, NEW n, NEW H, NEW U, NEW P, NEW B, NEW T,
         Sizes(c, a, z, n, H, U, P), m \in Nat, Multiple(m, a), T \in Nat, Multiple(T, a),
         m + T <= AddrMod, T < SizeMod,
         B = SlotsBase(c, m), B \in Int, m <= B - 16, B + z <= m + T
  PROVE  Stride(c) = H + U /\ B = m + H
<1>1. /\ a \in Nat \ {0} /\ z \in Nat \ {0} /\ H \in Nat /\ U \in Nat
      /\ 16 <= H /\ H < 16 + a /\ Multiple(H, a) /\ a \in PowersOf2
      /\ Rounded(U, z, a)
  BY SizesFacts DEF Sizes
<1>2. SizeMod \in Nat \ {0} /\ AddrMod \in Nat /\ AddrMod <= SizeMod
  BY LayoutAssumption, PowerFacts
<1>3. Multiple(B, a)
  <2>1. SlotsBase(c, m) = align_up(m + HeaderSize, a) /\ m + HeaderSize \in Int
    BY DEF SlotsBase, Sizes, HeaderSize
  <2> QED
    BY <1>1, <2>1, AlignUpType
<1>4. PICK v \in Int : v = m + H
  BY <1>1
<1>5. Multiple(v, a)
  BY <1>1, <1>4, MultipleSum
<1>6. B < v => B + a <= v
  BY <1>1, <1>3, <1>5, MultipleGap
<1>7. v <= B
  BY <1>1, <1>4, <1>6
<1>8. H + z <= T
  BY <1>1, <1>4, <1>7
<1>9. H + U <= T
  <2>1. PICK y \in Int : y = T - H
    BY <1>1
  <2>2. Multiple(y, a) /\ z <= y
    BY <1>1, <1>8, <2>1, MultipleSum
  <2>3. z \in Int
    BY <1>1
  <2>4. U <= y
    BY <1>1, <2>2, <2>3, RoomForUser, Zenon
  <2> QED
    BY <1>1, <2>1, <2>4
<1>10. H + U < SizeMod
  BY <1>1, <1>2, <1>9
<1>11. Stride(c) = H + U
  BY <1>10, StrideIs
<1>12. m + H < SizeMod
  BY <1>1, <1>2, <1>8
<1>13. B = m + H
  BY <1>12, BaseIs
<1> QED
  BY <1>11, <1>13

\* If the last slot lies in the block too, the whole size has not wrapped.
LEMMA LastSlot ==
  ASSUME NEW c, NEW a, NEW z, NEW n, NEW H, NEW U, NEW P, NEW X,
         Sizes(c, a, z, n, H, U, P), Stride(c) = H + U, TotalSize(c) \in Nat,
         Multiple(TotalSize(c), a), TotalSize(c) < SizeMod,
         X \in Nat, X = (n - 1) * (H + U), H + X + z <= TotalSize(c)
  PROVE  P + a < SizeMod
<1>1. /\ a \in Nat \ {0} /\ z \in Nat \ {0} /\ n \in Nat \ {0} /\ H \in Nat /\ U \in Nat /\ P \in Nat
      /\ 16 <= H /\ Multiple(H, a) /\ Multiple(H + U, a) /\ Multiple(P, a)
      /\ a \in PowersOf2 /\ Rounded(U, z, a)
  BY SizesFacts DEF Sizes
<1>2. SizeMod \in Nat \ {0} /\ SizeMod \in PowersOf2 /\ a <= SizeMod
  BY <1>1, LayoutAssumption, PowerFacts
<1>3. PICK S \in Nat, T \in Nat, k \in Nat : S = H + U /\ T = TotalSize(c) /\ k = n - 1
  BY <1>1
<1>4. X = k * S
  BY <1>3
<1>5. P = S * n /\ n = k + 1
  BY <1>1, <1>3 DEF Sizes
<1>6. P = X + S
  <2>1. S * n = k * S + S
    BY <1>1, <1>3, <1>5
  <2> QED
    BY <1>4, <1>5, <2>1
<1>7. Multiple(X, a)
  <2>1. Multiple(S, a)
    BY <1>1, <1>3
  <2>2. k \in Int /\ S \in Int /\ a \in Int
    BY <1>1
  <2>3. Multiple(k * S, a)
    BY <2>1, <2>2, MultipleTimes, Zenon
  <2> QED
    BY <1>4, <2>3
<1>8. PICK x \in Int : x = H + X
  BY <1>1
<1>9. Multiple(x, a)
  BY <1>1, <1>7, <1>8, MultipleSum
<1>10. x + U <= T
  <2>1. PICK y \in Int : y = T - x
    OBVIOUS
  <2>2. Multiple(T, a) /\ T \in Int /\ x + z <= T
    BY <1>1, <1>3, <1>8
  <2>3. Multiple(y, a)
    BY <1>1, <1>9, <2>1, <2>2, MultipleSum
  <2>4. z <= y
    BY <1>1, <2>1, <2>2
  <2>5. z \in Int
    BY <1>1
  <2>6. U <= y
    BY <1>1, <2>3, <2>4, <2>5, RoomForUser, Zenon
  <2> QED
    BY <1>1, <2>1, <2>6
<1>11. P <= T /\ P < SizeMod /\ 0 < P
  BY <1>1, <1>2, <1>3, <1>6, <1>8, <1>10
<1>12. Multiple(SizeMod, a)
  BY <1>1, <1>2, PowerDivides
<1>13. P + a <= SizeMod
  BY <1>1, <1>2, <1>11, <1>12, MultipleGap
<1>14. P + a # SizeMod
  <2> SUFFICES ASSUME P + a = SizeMod PROVE FALSE
    OBVIOUS
  <2>1. TotalSize(c) = align_up((Stride(c) * n + a) % SizeMod, a)
    BY DEF TotalSize, Sizes
  <2>2. Stride(c) * n + a = SizeMod
    BY <1>3, <1>5
  <2>3. SizeMod % SizeMod = 0
    <3>1. SizeMod = SizeMod * 1 + 0
      BY <1>2
    <3> QED
      BY <1>2, <3>1, QuotRem
  <2>4. RoundUp(0, a) = 0
    <3>1. 0 = 0 * a
      BY <1>1
    <3>2. Multiple(0, a)
      BY <3>1 DEF Multiple
    <3> QED
      BY <1>1, <3>2, RoundUpMultiple
  <2>5. align_up(0, a) = 0
    BY <1>1, <1>2, <2>4, AlignUpRounds
  <2>6. T = 0
    BY <1>3, <2>1, <2>2, <2>3, <2>5
  <2> QED
    BY <1>1, <1>11, <2>6
<1> QED
  BY <1>1, <1>2, <1>13, <1>14

\* A pool whose slots lie in its block fits.
LEMMA InBlockFits ==
  ASSUME NEW c, NEW m, Block(c, m), pool = Made(c, m),
         \A i \in Indices : Bytes(i) \subseteq pool.memory .. pool.memory + pool.total - 1
  PROVE  Fits
<1>1. PICK a, z, n, H, U, P :
        /\ Sizes(c, a, z, n, H, U, P)
        /\ m \in Nat /\ Multiple(m, a) /\ a <= m /\ TotalSize(c) \in Nat /\ Multiple(TotalSize(c), a)
        /\ m + TotalSize(c) <= AddrMod
  BY BlockFacts
<1>2. /\ a \in Nat \ {0} /\ z \in Nat \ {0} /\ n \in Nat \ {0} /\ H \in Nat /\ U \in Nat
      /\ 16 <= H /\ a \in PowersOf2
  BY <1>1, SizesFacts DEF Sizes
<1>3. SizeMod \in Nat \ {0} /\ AddrMod \in Nat /\ AddrMod <= SizeMod
  BY LayoutAssumption, PowerFacts
<1>4. PICK B, T, D : B = SlotsBase(c, m) /\ T = TotalSize(c) /\ D = Stride(c)
  OBVIOUS
<1>5. /\ pool.memory = m /\ pool.total = T /\ pool.slot_size = z /\ pool.slot_count = n
      /\ pool.slot_stride = D /\ pool.slots_base = B
  BY <1>1, <1>4, MadeFields
<1>6. T \in Nat /\ T < SizeMod
  <2>1. T \in Nat /\ m + T <= AddrMod /\ m \in Nat /\ 8 <= a /\ a <= m
    BY <1>1, <1>4 DEF Sizes
  <2> QED
    BY <1>2, <1>3, <2>1
<1>7. B \in Int
  <2>1. SlotsBase(c, m) = align_up(m + HeaderSize, a) /\ m + HeaderSize \in Int
    BY <1>1 DEF SlotsBase, Sizes, HeaderSize
  <2> QED
    BY <1>2, <1>3, <1>4, <2>1, AlignUpType
<1>8. D \in Int
  BY <1>1, <1>4, StrideType
<1>9. m <= B - 16 /\ B + z <= m + T
  <2>1. 0 \in Indices
    BY <1>2, <1>5 DEF Indices
  <2>2. slot_from_index(0) = B
    BY <1>5, <1>7, <1>8 DEF slot_from_index
  <2>3. Bytes(0) = B - 16 .. B + z - 1
    BY <1>5, <2>2 DEF Bytes, get_header, HeaderSize
  <2>4. B - 16 .. B + z - 1 \subseteq m .. m + T - 1
    BY <1>5, <2>1, <2>3
  <2>5. B - 16 \in B - 16 .. B + z - 1 /\ B + z - 1 \in B - 16 .. B + z - 1
    BY <1>2, <1>7
  <2>6. B - 16 \in m .. m + T - 1 /\ B + z - 1 \in m .. m + T - 1
    BY <2>4, <2>5
  <2> QED
    BY <1>1, <1>2, <1>6, <1>7, <2>6
<1>10. D = H + U /\ B = m + H
  BY <1>1, <1>4, <1>6, <1>7, <1>9, FirstSlot
<1>11. PICK k \in Nat, S \in Nat : k = n - 1 /\ S = H + U
  BY <1>2
<1>12. PICK X \in Nat : X = k * S
  BY <1>11
<1>13. H + X + z <= T
  <2>1. k \in Indices
    BY <1>2, <1>5, <1>11 DEF Indices
  <2>2. PICK p \in Nat : p = m + H + X
    BY <1>1, <1>2
  <2>3. slot_from_index(k) = p
    BY <1>5, <1>10, <1>11, <1>12, <2>2 DEF slot_from_index
  <2>4. Bytes(k) = p - 16 .. p + z - 1
    BY <1>5, <2>3 DEF Bytes, get_header, HeaderSize
  <2>5. p + z - 1 \in p - 16 .. p + z - 1
    BY <1>2
  <2>6. p + z - 1 \in m .. m + T - 1
    BY <1>5, <2>1, <2>4, <2>5
  <2>7. X \in Nat
    OBVIOUS
  <2> QED
    BY <1>1, <1>2, <1>6, <2>2, <2>6, <2>7
<1>14. P + a < SizeMod
  BY <1>1, <1>4, <1>6, <1>10, <1>11, <1>12, <1>13, LastSlot
<1> QED
  BY <1>1, <1>14, FitsIs

\* The slots of a pool lie in the block that was allocated for them exactly if the
\* size they need is a size_t, which anam_pool_create does not check.
THEOREM SlotsInBlockAlways == Spec => []SlotsInBlock
<1>1. LayoutInv => SlotsInBlock
  <2> SUFFICES ASSUME LayoutInv, pool # NULL
               PROVE  Fits <=> \A i \in Indices :
                                 Bytes(i) \subseteq pool.memory .. pool.memory + pool.total - 1
    BY DEF SlotsInBlock
  <2>1. PICK c, m : Block(c, m) /\ pool = Made(c, m)
    BY DEF LayoutInv
  <2>2. ASSUME Fits, NEW i \in Indices
        PROVE  Bytes(i) \subseteq pool.memory .. pool.memory + pool.total - 1
    <3>1. PICK p, a, z, n, H, S, P : Laid(p, a, z, n, H, S, P)
      BY <2>2, SoundIsLaid DEF Sound
    <3> QED
      BY <3>1, LaidInBlock
  <2> QED
    BY <2>1, <2>2, InBlockFits
<1> QED
  BY <1>1, LayoutInvariance, PTL

-----------------------------------------------------------------------------
(* Strict validation *)

\* A larger power of two is an even multiple of a smaller one.
LEMMA EvenMultiple ==
  ASSUME NEW b \in PowersOf2, NEW s \in PowersOf2, b < s
  PROVE  \E j \in Int : s = (2 * j) * b
<1>1. b \in Nat \ {0} /\ s \in Nat \ {0}
  BY PowerFacts
<1>2. PICK k \in Int : s = k * b
  BY <1>1, PowerDivides DEF Multiple
<1>3. k \in Nat /\ 2 <= k
  <2>1. k # 1 /\ k # 0
    BY <1>1, <1>2
  <2>2. ~ (k < 0)
    BY <1>1, <1>2
  <2> QED
    BY <2>1, <2>2
<1>4. k <= s
  <2>1. k * b \in Nat /\ k <= k * b
    BY <1>1, <1>3, ProductBound
  <2> QED
    BY <1>2, <2>1
<1>5. s % k = 0
  <2>1. s = k * b + 0 /\ k \in Nat \ {0} /\ 0 < k /\ s \in Int /\ b \in Int
    BY <1>1, <1>2, <1>3
  <2> QED
    BY <2>1, QuotRem
<1>6. k % 2 = 0
  BY <1>1, <1>3, <1>4, <1>5 DEF PowersOf2
<1>7. Multiple(k, 2)
  BY <1>6, MultipleRem
<1>8. PICK j \in Int : k = j * 2
  BY <1>7 DEF Multiple
<1>9. k = 2 * j
  BY <1>8
<1> QED
  BY <1>2, <1>9

\* The bits of a mask s - 1 are those below s.
LEMMA MaskBit ==
  ASSUME NEW b \in PowersOf2, NEW s \in PowersOf2
  PROVE  Bit(s - 1, b) = IF b < s THEN 1 ELSE 0
<1>1. b \in Nat \ {0} /\ s \in Nat \ {0}
  BY PowerFacts
<1>2. PICK x \in Nat : x = s - 1
  BY <1>1
<1>3. CASE b < s
  <2>1. PICK j \in Int : s = (2 * j) * b
    BY <1>3, EvenMultiple
  <2>2. PICK q \in Int, r \in Int : q = 2 * j - 1 /\ r = b - 1
    BY <1>1
  <2>3. PICK w \in Int : w = b * q
    BY <1>1
  <2>4. w = s - b
    <3>1. b * (2 * j - 1) = (2 * j) * b - b
      BY <1>1
    <3> QED
      BY <2>1, <2>2, <2>3, <3>1
  <2>5. x = b * q + r /\ 0 <= r /\ r < b
    BY <1>1, <1>2, <2>2, <2>3, <2>4
  <2>6. x \div b = q
    BY <1>1, <2>5, QuotRem
  <2>7. q % 2 = 1
    <3>1. PICK i \in Int, two \in Nat \ {0}, one \in Int : i = j - 1 /\ two = 2 /\ one = 1
      OBVIOUS
    <3>2. q = two * i + one /\ 0 <= one /\ one < two
      BY <2>2, <3>1
    <3>3. q % two = one
      BY <3>2, QuotRem
    <3> QED
      BY <3>1, <3>3
  <2> QED
    BY <1>2, <1>3, <2>6, <2>7 DEF Bit
<1>4. CASE ~ (b < s)
  <2>1. x = b * 0 + x /\ 0 <= x /\ x < b
    BY <1>1, <1>2, <1>4
  <2>2. x \div b = 0
    BY <1>1, <2>1, QuotRem
  <2>3. 0 % 2 = 0
    OBVIOUS
  <2> QED
    BY <1>2, <1>4, <2>2, <2>3 DEF Bit
<1> QED
  BY <1>3, <1>4

\* The lowest bits of a multiple are zero.
LEMMA LowBitsZero ==
  ASSUME NEW b \in PowersOf2, NEW s \in PowersOf2, b < s, NEW x \in Nat, Multiple(x, s)
  PROVE  Bit(x, b) = 0
<1>1. b \in Nat \ {0} /\ s \in Nat \ {0}
  BY PowerFacts
<1>2. PICK j \in Int : s = (2 * j) * b
  BY EvenMultiple
<1>3. PICK t \in Int : x = t * s
  BY DEF Multiple
<1>4. PICK k \in Int, q \in Int : k = t * j /\ q = 2 * k
  OBVIOUS
<1>5. x = b * q + 0
  <2>1. t * ((2 * j) * b) = b * (2 * (t * j))
    BY <1>1
  <2> QED
    BY <1>1, <1>2, <1>3, <1>4, <2>1
<1>6. x \div b = q
  BY <1>1, <1>5, QuotRem
<1>7. q % 2 = 0
  <2>1. q = k * 2
    BY <1>4
  <2>2. Multiple(q, 2)
    BY <2>1 DEF Multiple
  <2> QED
    BY <2>2, MultipleRem
<1> QED
  BY <1>6, <1>7 DEF Bit

\* The bits below s are zero in the multiples of s and in no other number.
LEMMA MaskExact ==
  ASSUME NEW s \in PowersOf2, NEW x \in Nat
  PROVE  Disjoint(x, s - 1) <=> Multiple(x, s)
<1>1. s \in Nat \ {0}
  BY PowerFacts
<1>2. ASSUME Multiple(x, s), NEW b \in PowersOf2 PROVE Bit(x, b) * Bit(s - 1, b) = 0
  <2>1. b \in Nat \ {0}
    BY PowerFacts
  <2>2. CASE b < s
    <3>1. Bit(x, b) = 0 /\ Bit(s - 1, b) = 1
      BY <1>2, <2>2, LowBitsZero, MaskBit
    <3> QED
      BY <3>1
  <2>3. CASE ~ (b < s)
    <3>1. Bit(s - 1, b) = 0
      BY <2>3, MaskBit
    <3>2. Bit(x, b) \in Int
      BY <2>1 DEF Bit
    <3> QED
      BY <3>1, <3>2
  <2> QED
    BY <2>2, <2>3
<1>3. ASSUME Disjoint(x, s - 1) PROVE Multiple(x, s)
  <2> DEFINE T == {y \in PowersOf2 : y <= s /\ ~ Multiple(x, y)}
  <2> SUFFICES ASSUME T # {} PROVE FALSE
    BY <1>1
  <2>1. T \subseteq Nat
    BY PowerFacts
  <2>2. PICK y \in T : \A v \in T : y <= v
    <3> HIDE DEF T
    <3> QED
      BY <2>1, NatMin, Zenon
  <2>3. y \in PowersOf2 /\ y \in Nat \ {0} /\ y <= s /\ ~ Multiple(x, y)
    BY PowerFacts
  <2>4. y # 1
    <3> SUFFICES ASSUME y = 1 PROVE FALSE
      OBVIOUS
    <3>1. x = x * y
      OBVIOUS
    <3> QED
      BY <2>3, <3>1 DEF Multiple
  <2>5. PICK h \in PowersOf2 : y = 2 * h
    BY <2>3, <2>4, Half
  <2>6. h \in Nat \ {0}
    BY PowerFacts
  <2>7. h < s /\ h <= s /\ ~ (y <= h)
    BY <1>1, <2>3, <2>5, <2>6
  <2>8. Multiple(x, h)
    BY <2>2, <2>7
  <2>9. PICK t \in Int : x = t * h
    BY <2>8 DEF Multiple
  <2>10. x \div h = t
    <3>1. x = h * t + 0 /\ 0 < h
      BY <2>6, <2>9
    <3> QED
      BY <2>6, <3>1, QuotRem
  <2>11. Bit(x, h) = 0
    <3>1. Bit(x, h) * Bit(s - 1, h) = 0
      BY <1>3 DEF Disjoint
    <3>2. Bit(s - 1, h) = 1
      BY <2>7, MaskBit
    <3>3. Bit(x, h) \in Int
      BY <2>6 DEF Bit
    <3> QED
      BY <3>1, <3>2, <3>3
  <2>12. t % 2 = 0
    BY <2>10, <2>11 DEF Bit
  <2>13. Multiple(t, 2)
    BY <2>12, MultipleRem
  <2>14. PICK w \in Int : t = w * 2
    BY <2>13 DEF Multiple
  <2>15. x = w * y
    <3>1. (w * 2) * h = w * (2 * h)
      BY <2>6
    <3> QED
      BY <2>5, <2>9, <2>14, <3>1
  <2> QED
    BY <2>3, <2>15 DEF Multiple
<1> QED
  BY <1>2, <1>3 DEF Disjoint

\* A distance below n * s that is a multiple of s is one of the first n multiples.
LEMMA WhichSlot ==
  ASSUME NEW s \in Nat \ {0}, NEW n \in Nat, NEW x \in Nat, x < s * n, Multiple(x, s)
  PROVE  \E i \in 0 .. n - 1 : x = i * s
<1>1. PICK i \in Int : x = i * s
  BY DEF Multiple
<1>2. 0 <= i
  BY <1>1
<1>3. i < n
  <2> SUFFICES ASSUME n <= i PROVE FALSE
    BY <1>1
  <2>1. PICK k \in Nat : k = i - n
    BY <1>1
  <2>2. k * s \in Nat /\ i * s = s * n + k * s /\ s * n \in Nat
    BY <2>1
  <2> QED
    BY <1>1, <2>2
<1> QED
  BY <1>1, <1>2, <1>3

\* With ANAM_STRICT_VALIDATION the mask for strides that are powers of two and the
\* remainder for the others accept the addresses of slots and no other address.
THEOREM StrictExactAlways == Spec => []StrictExact
<1>1. LayoutInv => StrictExact
  <2> SUFFICES ASSUME LayoutInv, Sound, NEW p \in pool.memory .. pool.memory + pool.total
               PROVE  in_pool_strict(p) <=> \E i \in Indices : p = slot_from_index(i)
    BY DEF StrictExact
  <2>1. PICK m, a, z, n, H, S, P : Laid(m, a, z, n, H, S, P)
    BY SoundIsLaid
  <2>2. /\ m \in Nat /\ a \in Nat /\ z \in Nat /\ n \in Nat \ {0} /\ H \in Nat /\ S \in Nat \ {0}
        /\ P \in Nat /\ P = S * n /\ 16 <= H /\ H + z <= S
        /\ pool.memory = m /\ pool.total = P + a /\ pool.slots_base = m + H
        /\ pool.slot_count = n /\ pool.slot_stride = S
        /\ pool.slot_stride_mask = IF S \in PowersOf2 THEN S - 1 ELSE 0
    BY <2>1 DEF Laid
  <2>3. p \in Int
    BY <2>2
  <2>4. PICK off \in Int : off = p - (m + H)
    BY <2>2, <2>3
  <2>5. S * n = n * S /\ S # 1
    BY <2>2
  <2>6. InRange(p) <=> 0 <= off /\ off < P
    BY <2>2, <2>3, <2>4, <2>5 DEF InRange
  <2>7. ASSUME 0 <= off
        PROVE  (IF pool.slot_stride_mask # 0 THEN Disjoint(off, pool.slot_stride_mask)
                ELSE off % pool.slot_stride = 0) <=> Multiple(off, S)
    <3>1. off \in Nat
      BY <2>7
    <3>2. CASE S \in PowersOf2
      <4>1. pool.slot_stride_mask = S - 1 /\ S - 1 # 0
        BY <2>2, <2>5, <3>2
      <4> QED
        BY <3>1, <3>2, <4>1, MaskExact
    <3>3. CASE S \notin PowersOf2
      <4>1. pool.slot_stride_mask = 0
        BY <2>2, <3>3
      <4> QED
        BY <2>2, <4>1, MultipleRem
    <3> QED
      BY <3>2, <3>3
  <2>8. in_pool_strict(p) <=> 0 <= off /\ off < P /\ Multiple(off, S)
    <3>1. p - pool.slots_base = off
      BY <2>2, <2>4
    <3> QED
      BY <2>6, <2>7, <3>1 DEF in_pool_strict
  <2>9. ASSUME 0 <= off, off < P, Multiple(off, S)
        PROVE  \E i \in Indices : p = slot_from_index(i)
    <3>1. off \in Nat /\ off < S * n
      BY <2>2, <2>9
    <3>2. PICK i \in 0 .. n - 1 : off = i * S
      BY <2>2, <2>9, <3>1, WhichSlot
    <3>3. i \in Indices
      BY <2>2 DEF Indices
    <3>4. slot_from_index(i) = m + H + off
      BY <2>2, <3>2 DEF slot_from_index
    <3>5. p = m + H + off
      BY <2>2, <2>3, <2>4
    <3> QED
      BY <3>3, <3>4, <3>5
  <2>10. ASSUME NEW i \in Indices, p = slot_from_index(i)
         PROVE  0 <= off /\ off < P /\ Multiple(off, S)
    <3>1. PICK X : At(m, H, S, P, i, X)
      BY <2>1, SlotAt
    <3>2. X \in Nat /\ X = i * S /\ X + S <= P /\ p = m + H + X
      BY <2>10, <3>1 DEF At
    <3>3. off = X
      BY <2>2, <2>4, <3>2
    <3>4. i \in Int
      BY <2>2 DEF Indices
    <3>5. Multiple(X, S)
      BY <3>2, <3>4 DEF Multiple
    <3>6. X \in Nat /\ X + S <= P
      BY <3>2
    <3> QED
      BY <2>2, <3>3, <3>5, <3>6
  <2> QED
    BY <2>8, <2>9, <2>10
<1> QED
  BY <1>1, LayoutInvariance, PTL

=============================================================================
