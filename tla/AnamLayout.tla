----------------------------- MODULE AnamLayout -----------------------------
(***************************************************************************)
(* The arithmetic under the pool of src/anamnesis.c: how anam_pool_create  *)
(* lays slots out in one block of memory, how an address, a generation and *)
(* a state share a 64-bit handle, and which addresses in_pool accepts.     *)
(* AnamPool uses handles whose fields are kept apart; this module is the   *)
(* reason why it may.                                                      *)
(***************************************************************************)
EXTENDS Integers

CONSTANTS
  SizeMod,      \* number of size_t values, 2^64 in the code
  AddrMod,      \* the address field of a handle ends here, 2^48 in the code
  GenMod,       \* number of generation values, 2^16 in the code
  Memory,       \* addresses at which the allocator may place the block
  Configs       \* the configurations given to create

\* The fields that concern the layout, each a size_t.
AnamPoolConfig ==
  LET size_t == 0 .. SizeMod - 1
  IN [slot_size : size_t, slot_count : size_t, alignment : size_t]

\* The numbers without an odd divisor other than 1, up to SizeMod.
PowersOf2 == {n \in 1 .. SizeMod : \A d \in 2 .. n : n % d = 0 => d % 2 = 0}

ASSUME LayoutAssumption ==
  /\ SizeMod \in Nat
  /\ {SizeMod, AddrMod, GenMod} \subseteq PowersOf2
  /\ 8 <= AddrMod
  /\ Memory \subseteq Nat \ {0}
  /\ Configs \subseteq AnamPoolConfig

VARIABLE pool   \* what anam_pool_create returned

HeaderSize == 16   \* sizeof(SlotHeader)
NULL == [memory |-> 0]

\* (value + alignment - 1) & ~(alignment - 1), for a power of two
align_up(value, alignment) ==
  LET sum == (value + alignment - 1) % SizeMod IN sum - (sum % alignment)

Alignment(c) == IF c.alignment = 0 THEN 8 ELSE c.alignment

\* Mutant: alignments below 8 are accepted.
AcceptsSmall(c) ==
  c.slot_size # 0 /\ c.slot_count # 0 /\ Alignment(c) \in PowersOf2

Accepts(c) ==
  c.slot_size # 0 /\ c.slot_count # 0 /\ Alignment(c) \in PowersOf2 /\ Alignment(c) >= 8

\* Mutant: the stride leaves no room for the header.
StrideNoHeader(c) == align_up(align_up(c.slot_size, Alignment(c)), 8)

\* Mutant: header and user bytes are not padded to the alignment.
StrideUnpadded(c) == align_up(HeaderSize + c.slot_size, 8)

Stride(c) ==
  LET header_size == align_up(HeaderSize, Alignment(c))
      user_size == align_up(c.slot_size, Alignment(c))
  IN align_up((header_size + user_size) % SizeMod, 8)

\* The product is not checked: it wraps.
TotalSize(c) ==
  align_up((Stride(c) * c.slot_count + Alignment(c)) % SizeMod, Alignment(c))

\* Mutant: the first header is placed in front of the block.
SlotsBaseNoHeader(c, memory) == align_up(memory, Alignment(c))

SlotsBase(c, memory) == align_up(memory + HeaderSize, Alignment(c))

\* Mutant: every stride is taken for a power of two.
StrideMaskAlways(c) == Stride(c) - 1

\* (stride & (stride - 1)) == 0 ? (stride - 1) : 0, where a stride that has wrapped
\* to 0 counts as a power of two.
StrideMask(c) ==
  IF Stride(c) \in PowersOf2 \cup {0} THEN (Stride(c) - 1) % SizeMod ELSE 0

\* aligned_alloc returns NULL, or a block in the address range of a handle.
Create(c) ==
  /\ pool = NULL
  /\ \/ pool' = NULL
     \/ \E memory \in Memory :
          /\ Accepts(c)
          /\ memory % Alignment(c) = 0 /\ memory + TotalSize(c) <= AddrMod
          /\ pool' = [memory |-> memory, total |-> TotalSize(c),
                      slot_size |-> c.slot_size, slot_count |-> c.slot_count,
                      alignment |-> Alignment(c), slot_stride |-> Stride(c),
                      slot_stride_mask |-> StrideMask(c),
                      slots_base |-> SlotsBase(c, memory)]

Destroy == pool # NULL /\ pool' = NULL

Init == pool = NULL
Next == (\E c \in Configs : Create(c)) \/ Destroy
Spec == Init /\ [][Next]_pool

-----------------------------------------------------------------------------

slot_from_index(i) == pool.slots_base + i * pool.slot_stride
get_header(user_ptr) == user_ptr - HeaderSize

FREE == 0
LIVE == 1

encode_handle(gen, addr, state) ==
  (gen % GenMod) * AddrMod + (addr % AddrMod) - (addr % 8) + (state % 8)
decode_addr(h) == (h % AddrMod) - (h % 8)
decode_gen(h) == (h \div AddrMod) % GenMod
anam_state(h) == h % 8

\* The slot number of an address, as the tracer and anam_foreach compute it.
SlotIndex(user_ptr) == (user_ptr - pool.slots_base) \div pool.slot_stride

InRange(p) ==
  p >= pool.slots_base /\ p < pool.slots_base + pool.slot_count * pool.slot_stride

\* (m & n) == 0, where b is the weight of a bit
Bit(n, b) == (n \div b) % 2
Disjoint(m, n) == \A b \in PowersOf2 : Bit(m, b) * Bit(n, b) = 0

\* With ANAM_STRICT_VALIDATION.
in_pool_strict(p) ==
  LET off == p - pool.slots_base IN
  /\ InRange(p)
  /\ IF pool.slot_stride_mask # 0 THEN Disjoint(off, pool.slot_stride_mask)
     ELSE off % pool.slot_stride = 0

-----------------------------------------------------------------------------
(* Properties *)

Indices == 0 .. pool.slot_count - 1
Bytes(i) == get_header(slot_from_index(i)) .. slot_from_index(i) + pool.slot_size - 1

\* n rounded up to a multiple of a, in unbounded arithmetic.
RoundUp(n, a) == ((n + a - 1) \div a) * a

\* The size the pool needs is a size_t.
Fits ==
  RoundUp((RoundUp(HeaderSize, pool.alignment) + RoundUp(pool.slot_size, pool.alignment))
            * pool.slot_count + pool.alignment, pool.alignment) < SizeMod

Sound == pool # NULL /\ Fits

\* The header and the user bytes of every slot lie in the block exactly if the
\* needed size is a size_t. anam_pool_create does not check that: a configuration
\* that is too large gets a block that does not hold its slots, unless the
\* allocator refuses what is left of the size.
SlotsInBlock ==
  pool # NULL =>
    (Fits <=> \A i \in Indices : Bytes(i) \subseteq pool.memory .. pool.memory + pool.total - 1)

\* The bytes of two slots do not overlap.
SlotsSeparate ==
  Sound => \A i \in Indices : \A j \in Indices \ {i} : Bytes(i) \cap Bytes(j) = {}

\* Slots are aligned as configured, so that the three low bits of an address
\* are free for the state of a handle.
SlotsAligned ==
  Sound => \A i \in Indices : slot_from_index(i) % pool.alignment = 0

\* A handle gives back the generation, slot and state it was made of, and is
\* never ANAM_NULL.
HandleRoundTrip ==
  Sound =>
    \A i \in Indices : \A g \in 0 .. GenMod - 1 : \A st \in {FREE, LIVE} :
      LET p == slot_from_index(i)
          h == encode_handle(g, p, st)
      IN /\ h # 0
         /\ decode_addr(h) = p /\ decode_gen(h) = g /\ anam_state(h) = st
         /\ SlotIndex(decode_addr(h)) = i

\* Strict validation accepts the addresses of slots and no other address.
StrictExact ==
  Sound =>
    \A p \in pool.memory .. pool.memory + pool.total :
      in_pool_strict(p) <=> \E i \in Indices : p = slot_from_index(i)

=============================================================================
