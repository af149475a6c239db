------------------------------ MODULE Residues ------------------------------
(***************************************************************************)
(* Multiples, quotients and remainders: the arithmetic behind ring indices *)
(* that wrap, rounded sizes, and fields packed into one word.              *)
(***************************************************************************)
EXTENDS Integers, TLAPS, WellFoundedInduction

Multiple(x, m) == \E k \in Int : x = k * m
IsRem(r, x, m) == r = x % m

\* Quotient and remainder.
LEMMA Euclid ==
  ASSUME NEW m \in Nat \ {0}, NEW x \in Int
  PROVE  \E q \in Int, r \in Int : x = m * q + r /\ 0 <= r /\ r < m /\ r = x % m
<1> DEFINE q == x \div m
           r == x % m
<1>1. q \in Int /\ r \in Int /\ 0 <= r /\ r < m /\ x = m * q + r
  OBVIOUS
<1> QED
  BY <1>1

\* A multiple of m that is smaller than m is 0.
LEMMA SmallMultiple ==
  ASSUME NEW m \in Nat \ {0}, NEW x \in Int, Multiple(x, m), -m < x, x < m
  PROVE  x = 0
<1>1. PICK k \in Int : x = k * m
  BY DEF Multiple
<1> QED
  BY <1>1

\* Numbers that differ by a multiple of m have the same remainder.
LEMMA Congruent ==
  ASSUME NEW m \in Nat \ {0}, NEW x \in Int, NEW y \in Int, NEW z \in Int,
         z = x - y, Multiple(z, m)
  PROVE  x % m = y % m
<1>1. PICK k \in Int : z = k * m
  BY DEF Multiple
<1>2. PICK q \in Int, r \in Int : x = m * q + r /\ 0 <= r /\ r < m /\ r = x % m
  BY Euclid
<1>3. PICK p \in Int, s \in Int : y = m * p + s /\ 0 <= s /\ s < m /\ s = y % m
  BY Euclid
<1>4. PICK d \in Int : d = r - s
  OBVIOUS
<1>5. d = (k - q + p) * m /\ k - q + p \in Int
  BY <1>1, <1>2, <1>3, <1>4
<1>6. Multiple(d, m)
  BY <1>5 DEF Multiple
<1>7. d = 0
  BY <1>2, <1>3, <1>4, <1>6, SmallMultiple
<1> QED
  BY <1>2, <1>3, <1>4, <1>7

\* Different numbers less than m apart have different remainders.
LEMMA ModDistinct ==
  ASSUME NEW m \in Nat \ {0}, NEW x \in Int, NEW y \in Int, y < x, x < y + m
  PROVE  x % m # y % m
<1> SUFFICES ASSUME x % m = y % m PROVE FALSE
  OBVIOUS
<1>1. PICK q \in Int, r \in Int : x = m * q + r /\ 0 <= r /\ r < m /\ r = x % m
  BY Euclid
<1>2. PICK p \in Int, s \in Int : y = m * p + s /\ 0 <= s /\ s < m /\ s = y % m
  BY Euclid
<1>3. PICK d \in Int : d = x - y
  OBVIOUS
<1>4. d = (q - p) * m /\ q - p \in Int
  BY <1>1, <1>2, <1>3
<1>5. Multiple(d, m)
  BY <1>4 DEF Multiple
<1>6. d = 0
  BY <1>3, <1>5, SmallMultiple
<1> QED
  BY <1>3, <1>6

\* An index may be reduced before it is advanced.
LEMMA ModSucc ==
  ASSUME NEW m \in Nat \ {0}, NEW x \in Int, NEW r \in Int, IsRem(r, x, m)
  PROVE  (r + 1) % m = (x + 1) % m
<1>1. PICK q \in Int : x = m * q + r
  BY Euclid DEF IsRem
<1>2. PICK a \in Int, b \in Int, d \in Int : a = x + 1 /\ b = r + 1 /\ d = a - b
  OBVIOUS
<1>3. d = q * m
  BY <1>1, <1>2
<1>4. Multiple(d, m)
  BY <1>3 DEF Multiple
<1>5. a % m = b % m
  BY <1>2, <1>4, Congruent
<1> QED
  BY <1>2, <1>5

\* Two indices may be reduced before they are subtracted.
LEMMA ModDiff ==
  ASSUME NEW m \in Nat \ {0}, NEW x \in Int, NEW y \in Int,
         NEW r \in Int, NEW s \in Int, IsRem(r, x, m), IsRem(s, y, m)
  PROVE  (r - s) % m = (x - y) % m
<1>1. PICK q \in Int : x = m * q + r
  BY Euclid DEF IsRem
<1>2. PICK p \in Int : y = m * p + s
  BY Euclid DEF IsRem
<1>3. PICK a \in Int, b \in Int, d \in Int : a = x - y /\ b = r - s /\ d = a - b
  OBVIOUS
<1>4. d = (q - p) * m /\ q - p \in Int
  BY <1>1, <1>2, <1>3
<1>5. Multiple(d, m)
  BY <1>4 DEF Multiple
<1>6. a % m = b % m
  BY <1>3, <1>5, Congruent
<1> QED
  BY <1>3, <1>6

\* A set of natural numbers that is not empty has a least element.
LEMMA NatMin ==
  ASSUME NEW T, T \subseteq Nat, T # {}
  PROVE  \E x \in T : \A y \in T : x <= y
<1>1. PICK x \in T : \A y \in T : ~ (<<y, x>> \in OpToRel(<, Nat))
  BY NatLessThanWellFounded, WFMin
<1>2. \A y \in T : ~ (y < x)
  BY <1>1 DEF OpToRel
<1> QED
  BY <1>2

\* A quotient and a remainder are determined by the number.
LEMMA QuotRem ==
  ASSUME NEW m \in Nat \ {0}, NEW x \in Int, NEW q \in Int, NEW r \in Int,
         x = m * q + r, 0 <= r, r < m
  PROVE  x \div m = q /\ x % m = r
<1>1. PICK p \in Int, s \in Int : x = m * p + s /\ 0 <= s /\ s < m /\ s = x % m /\ p = x \div m
  <2> DEFINE p == x \div m
             s == x % m
  <2>1. p \in Int /\ s \in Int /\ 0 <= s /\ s < m /\ x = m * p + s
    OBVIOUS
  <2> QED
    BY <2>1
<1>2. PICK d \in Int, e \in Int : d = r - s /\ e = p - q
  BY <1>1
<1>3. d = e * m
  <2>1. m * q + r = m * p + s
    BY <1>1
  <2>2. PICK a \in Int, b \in Int : a = m * q /\ b = m * p
    OBVIOUS
  <2>3. r - s = b - a
    BY <2>1, <2>2
  <2>4. b - a = e * m
    BY <1>2, <2>2
  <2> QED
    BY <1>2, <2>3, <2>4
<1>4. Multiple(d, m)
  BY <1>3 DEF Multiple
<1>5. d = 0
  BY <1>1, <1>2, <1>4, SmallMultiple
<1>6. e * m = 0 /\ m > 0
  BY <1>3, <1>5
<1>7. e = 0
  BY <1>6
<1> QED
  BY <1>1, <1>2, <1>5, <1>7

\* A number is a multiple exactly if it leaves no remainder.
LEMMA MultipleRem ==
  ASSUME NEW m \in Nat \ {0}, NEW x \in Int
  PROVE  x % m = 0 <=> Multiple(x, m)
<1>1. PICK q \in Int, r \in Int : x = m * q + r /\ 0 <= r /\ r < m /\ r = x % m
  BY Euclid
<1>2. ASSUME r = 0 PROVE Multiple(x, m)
  <2>1. x = q * m
    BY <1>1, <1>2
  <2> QED
    BY <2>1 DEF Multiple
<1>3. ASSUME Multiple(x, m) PROVE r = 0
  <2>1. PICK k \in Int : x = k * m
    BY <1>3 DEF Multiple
  <2>2. x = m * k + 0
    BY <2>1
  <2>3. x % m = 0
    BY <2>2, QuotRem
  <2> QED
    BY <1>1, <2>3
<1> QED
  BY <1>1, <1>2, <1>3

\* Sums, differences and products of multiples are multiples.
LEMMA MultipleSum ==
  ASSUME NEW m \in Int, NEW x \in Int, NEW y \in Int, Multiple(x, m), Multiple(y, m)
  PROVE  Multiple(x + y, m) /\ Multiple(x - y, m)
<1>1. PICK k \in Int, l \in Int : x = k * m /\ y = l * m
  BY DEF Multiple
<1>2. x + y = (k + l) * m /\ x - y = (k - l) * m /\ k + l \in Int /\ k - l \in Int
  BY <1>1
<1> QED
  BY <1>2 DEF Multiple

LEMMA MultipleTimes ==
  ASSUME NEW m \in Int, NEW x \in Int, NEW i \in Int, Multiple(x, m)
  PROVE  Multiple(i * x, m) /\ Multiple(x * i, m)
<1>1. PICK k \in Int : x = k * m
  BY DEF Multiple
<1>2. i * x = (i * k) * m /\ x * i = (i * k) * m /\ i * k \in Int
  BY <1>1
<1> QED
  BY <1>2 DEF Multiple

LEMMA MultipleTrans ==
  ASSUME NEW m \in Int, NEW n \in Int, NEW x \in Int, Multiple(x, n), Multiple(n, m)
  PROVE  Multiple(x, m)
<1>1. PICK k \in Int : x = k * n
  BY DEF Multiple
<1> QED
  BY <1>1, MultipleTimes

\* Multiples of m that are less than m apart are equal, and a multiple below another
\* is at least m below it.
LEMMA MultipleGap ==
  ASSUME NEW m \in Nat \ {0}, NEW x \in Int, NEW y \in Int, Multiple(x, m), Multiple(y, m)
  PROVE  x < y => x + m <= y
<1> SUFFICES ASSUME x < y, ~ (x + m <= y) PROVE FALSE
  OBVIOUS
<1>1. PICK d \in Int : d = y - x
  OBVIOUS
<1>2. Multiple(d, m)
  BY <1>1, MultipleSum
<1>3. -m < d /\ d < m
  BY <1>1
<1>4. d = 0
  BY <1>2, <1>3, SmallMultiple
<1> QED
  BY <1>1, <1>4

=============================================================================
