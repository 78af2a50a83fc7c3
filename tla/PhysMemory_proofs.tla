------------------------ MODULE PhysMemory_proofs -------------------------
(***************************************************************************)
(* The buddy allocator for every number of pages and every largest order:  *)
(* the blocks tile the memory, the lists, descriptors and statistics say   *)
(* what is there, the unsigned counters never wrap, and the whole          *)
(* implements PageAllocator.                                               *)
(***************************************************************************)
EXTENDS PhysMemory, FiniteSetTheorems, WellFoundedInduction, TLAPS

------------------------------------------------------------------------------
(* Powers of two, the least element of a set of numbers, and induction     *)
(* over one. The library's induction theorem takes a predicate as its      *)
(* parameter; taking a set instead makes it a first-order fact.            *)

(* A power of two is a natural number: that many subsets has 1 .. k.       *)
LEMMA PowNat ==
  ASSUME NEW k \in Nat PROVE 2 ^ k \in Nat
  <1> DEFINE S == 1 .. k
  <1>1. IsFiniteSet(S) /\ Cardinality(S) = k
    BY FS_Interval
  <1>2. Cardinality(SUBSET S) = 2 ^ k /\ IsFiniteSet(SUBSET S)
    BY <1>1, FS_SUBSET
  <1> QED BY <1>2, FS_CardinalityType

(* The first power of two.                                                 *)
LEMMA PowZero == 2 ^ 0 = 1
  OBVIOUS

(* The subsets of 1 .. k + 1 are those of 1 .. k, with k + 1 and without   *)
(* it.                                                                     *)
LEMMA PowDouble ==
  ASSUME NEW k \in Nat PROVE 2 ^ (k + 1) = 2 * 2 ^ k
  <1> DEFINE S == 1 .. k
             T == 1 .. k + 1
             W == {U \in SUBSET T : k + 1 \in U}
             f == [U \in SUBSET S |-> U \cup {k + 1}]
  <1>1. S = T \ {k + 1} /\ k + 1 \in T
    OBVIOUS
  <1>2. IsFiniteSet(S) /\ Cardinality(S) = k /\ IsFiniteSet(T) /\ Cardinality(T) = k + 1
    BY FS_Interval
  <1> HIDE DEF S, T
  <1>3. Cardinality(SUBSET S) = 2 ^ k /\ IsFiniteSet(SUBSET S)
    BY <1>2, FS_SUBSET
  <1>4. Cardinality(SUBSET T) = 2 ^ (k + 1) /\ IsFiniteSet(SUBSET T)
    BY <1>2, FS_SUBSET
  <1>5. f \in Bijection(SUBSET S, W)
    <2>1. f \in [SUBSET S -> W]
      BY <1>1
    <2>2. ASSUME NEW U \in SUBSET S, NEW V \in SUBSET S, f[U] = f[V]
          PROVE  U = V
      BY <2>2, <1>1
    <2>3. ASSUME NEW U \in W
          PROVE  \E V \in SUBSET S : f[V] = U
      <3>1. U \ {k + 1} \in SUBSET S
        BY <1>1
      <3>2. f[U \ {k + 1}] = U
        BY <3>1
      <3> QED BY <3>1, <3>2
    <2> HIDE DEF f, W
    <2> QED BY <2>1, <2>2, <2>3 DEF Bijection, Injection, Surjection, IsInjective
  <1>6. ExistsBijection(SUBSET S, W)
    BY <1>5 DEF ExistsBijection
  <1>7. IsFiniteSet(W) /\ Cardinality(W) = 2 ^ k
    BY <1>3, <1>6, FS_Bijection
  <1>8. SUBSET T = (SUBSET S) \cup W /\ (SUBSET S) \cap W = {}
    BY <1>1
  <1>9. Cardinality(SUBSET T) = Cardinality(SUBSET S) + Cardinality(W) - Cardinality({})
    BY <1>3, <1>7, <1>8, FS_Union
  <1> QED BY <1>3, <1>4, <1>7, <1>9, FS_EmptySet, PowNat

(* No power of two is zero.                                                *)
LEMMA PowPos ==
  ASSUME NEW k \in Nat PROVE 2 ^ k \in Nat \ {0}
  <1>1. IsFiniteSet(1 .. k) /\ Cardinality(1 .. k) = k
    BY FS_Interval
  <1>2. Cardinality(SUBSET (1 .. k)) = 2 ^ k /\ IsFiniteSet(SUBSET (1 .. k))
    BY <1>1, FS_SUBSET
  <1>3. SUBSET (1 .. k) # {}
    OBVIOUS
  <1> QED BY <1>2, <1>3, FS_EmptySet, FS_CardinalityType

(* Every set of natural numbers that is not empty has a least element.     *)
LEMMA LeastNat ==
  ASSUME NEW T \in SUBSET Nat, T # {}
  PROVE  \E m \in T : \A j \in T : m <= j
  <1>1. PICK m \in T : \A j \in T : <<j, m>> \notin OpToRel(<, Nat)
    BY NatLessThanWellFounded, WFMin, Zenon
  <1>2. \A j \in T : ~(j < m)
    BY <1>1 DEF OpToRel
  <1> QED BY <1>2

(* Induction from k on, over the set S of the numbers the claim holds of.  *)
LEMMA Induct ==
  ASSUME NEW S \in SUBSET Nat, NEW k \in Nat, k \in S,
         \A n \in S : n + 1 \in S
  PROVE  \A n \in Nat : k <= n => n \in S
  <1> DEFINE T == {n \in Nat : k <= n /\ n \notin S}
  <1> SUFFICES ASSUME T # {} PROVE FALSE
    OBVIOUS
  <1>1. PICK m \in T : \A j \in T : m <= j
    BY LeastNat
  <1>2. m - 1 \in Nat /\ k <= m - 1 /\ m - 1 \notin T
    BY <1>1
  <1> QED BY <1>1, <1>2

------------------------------------------------------------------------------
(* Numbers that are multiples of a power of two, and the dyadic blocks     *)
(* that start at them.                                                     *)

(* A block of order k may start at p.                                      *)
Aligned(p, k) == p % 2 ^ k = 0

(* To be aligned is to be a multiple.                                      *)
LEMMA MulAligned ==
  ASSUME NEW n \in Nat \ {0}, NEW p \in Nat
  PROVE  p % n = 0 <=> \E a \in Nat : p = a * n
  <1>1. \A a \in Nat : (a * n) % n = 0
    OBVIOUS
  <1>2. p = (n * (p \div n)) + (p % n) /\ p \div n \in Nat
    OBVIOUS
  <1>3. ASSUME p % n = 0 PROVE \E a \in Nat : p = a * n
    <2>1. p = (p \div n) * n
      BY <1>2, <1>3
    <2> QED BY <1>2, <2>1
  <1> QED BY <1>1, <1>3

(* Two multiples of n differ by at least n.                                *)
LEMMA MulGap ==
  ASSUME NEW n \in Nat \ {0}, NEW a \in Nat, NEW b \in Nat, a * n < b * n
  PROVE  a * n + n <= b * n
  <1>1. ASSUME b <= a PROVE b * n <= a * n
    <2>1. PICK d \in Nat : a = b + d
      BY <1>1
    <2>2. a * n = b * n + d * n /\ d * n \in Nat /\ b * n \in Nat
      BY <2>1
    <2> QED BY <2>2
  <1>2. a + 1 <= b
    BY <1>1
  <1>3. PICK d \in Nat : b = a + 1 + d
    BY <1>2
  <1>4. b * n = a * n + n + d * n /\ d * n \in Nat /\ a * n \in Nat
    BY <1>3
  <1> QED BY <1>4

(* Two starts of blocks of one order are a block apart.                    *)
LEMMA AlignedGap ==
  ASSUME NEW k \in Nat, NEW x \in Nat, NEW y \in Nat, Aligned(x, k), Aligned(y, k), x < y
  PROVE  x + 2 ^ k <= y
  <1> DEFINE n == 2 ^ k
  <1>1. n \in Nat \ {0}
    BY PowPos
  <1>2. PICK a \in Nat, b \in Nat : x = a * n /\ y = b * n
    BY <1>1, MulAligned DEF Aligned
  <1> HIDE DEF n
  <1>3. x + n <= y
    BY <1>1, <1>2, MulGap
  <1> QED BY <1>3 DEF n

(* Blocks of one order start one after another.                            *)
LEMMA AlignedNext ==
  ASSUME NEW k \in Nat, NEW x \in Nat, Aligned(x, k)
  PROVE  /\ Aligned(x + 2 ^ k, k)
         /\ x >= 2 ^ k => Aligned(x - 2 ^ k, k) /\ x - 2 ^ k \in Nat
  <1> DEFINE n == 2 ^ k
  <1>1. n \in Nat \ {0}
    BY PowPos
  <1>2. PICK a \in Nat : x = a * n
    BY <1>1, MulAligned DEF Aligned
  <1> HIDE DEF n
  <1>3. PICK b \in Nat : b = a + 1
    OBVIOUS
  <1>4. x + n = b * n
    BY <1>1, <1>2, <1>3
  <1>5. (x + n) % n = 0
    <2>1. (b * n) % n = 0
      BY <1>1
    <2> QED BY <1>4, <2>1
  <1>6. ASSUME x >= n PROVE (x - n) % n = 0 /\ x - n \in Nat
    <2>1. a # 0
      BY <1>1, <1>2, <1>6
    <2>2. PICK c \in Nat : a = c + 1
      BY <2>1
    <2>3. x - n = c * n
      BY <1>1, <1>2, <2>2
    <2> QED BY <1>1, <2>3, <1>6, MulAligned
  <1> QED BY <1>5, <1>6 DEF Aligned, n

(* Both halves of a block are blocks, and the binary digit of the order    *)
(* tells the lower from the upper.                                         *)
LEMMA AlignedHalf ==
  ASSUME NEW k \in Nat, NEW x \in Nat, Aligned(x, k + 1)
  PROVE  /\ Aligned(x, k)
         /\ Aligned(x + 2 ^ k, k)
         /\ (x \div 2 ^ k) % 2 = 0
         /\ ((x + 2 ^ k) \div 2 ^ k) % 2 = 1
  <1> DEFINE n == 2 ^ k
  <1>1. n \in Nat \ {0} /\ 2 ^ (k + 1) = 2 * n
    BY PowPos, PowDouble
  <1>2. PICK a \in Nat : x = a * (2 * n)
    BY <1>1, MulAligned DEF Aligned
  <1> HIDE DEF n
  <1> PICK c \in Nat : c = 2 * a
    OBVIOUS
  <1>3. x = c * n /\ x + n = (c + 1) * n
    BY <1>1, <1>2
  <1>4. /\ (c * n) % n = 0 /\ (c * n) \div n = c
        /\ ((c + 1) * n) % n = 0 /\ ((c + 1) * n) \div n = c + 1
    BY <1>1
  <1>5. c + 1 \in Nat /\ c % 2 = 0 /\ (c + 1) % 2 = 1
    OBVIOUS
  <1>6. x % n = 0 /\ x \div n = c /\ (x + n) % n = 0 /\ (x + n) \div n = c + 1
    BY <1>3, <1>4, <1>5
  <1> QED BY <1>5, <1>6 DEF Aligned, n

(* Every block is half of one that is twice as large.                      *)
LEMMA AlignedPair ==
  ASSUME NEW k \in Nat, NEW x \in Nat, Aligned(x, k)
  PROVE  \/ (x \div 2 ^ k) % 2 = 0 /\ Aligned(x, k + 1)
         \/ /\ (x \div 2 ^ k) % 2 = 1 /\ x - 2 ^ k \in Nat
            /\ Aligned(x - 2 ^ k, k + 1)
  <1> DEFINE n == 2 ^ k
  <1>1. n \in Nat \ {0} /\ 2 ^ (k + 1) = 2 * n
    BY PowPos, PowDouble
  <1>2. PICK a \in Nat : x = a * n
    BY <1>1, MulAligned DEF Aligned
  <1> HIDE DEF n
  <1>3. x \div n = a
    BY <1>1, <1>2
  <1>4. CASE a % 2 = 0
    <2>1. PICK b \in Nat : a = 2 * b
      BY <1>4
    <2>2. x = b * (2 * n)
      BY <1>1, <1>2, <2>1
    <2>3. x % (2 * n) = 0
      BY <1>1, <2>2, MulAligned
    <2> QED BY <1>1, <1>3, <1>4, <2>3 DEF Aligned, n
  <1>5. CASE a % 2 = 1
    <2>1. PICK b \in Nat : a = 2 * b + 1
      BY <1>5
    <2>2. x - n = b * (2 * n) /\ x - n \in Nat
      BY <1>1, <1>2, <2>1
    <2>3. (x - n) % (2 * n) = 0
      BY <1>1, <2>2, MulAligned
    <2> QED BY <1>1, <1>3, <1>5, <2>2, <2>3 DEF Aligned, n
  <1> QED BY <1>4, <1>5

(* Where a large block may start a smaller one may, too.                   *)
LEMMA AlignedBelow ==
  ASSUME NEW k \in Nat, NEW j \in 0 .. k, NEW x \in Nat, Aligned(x, k)
  PROVE  Aligned(x, j)
  <1> DEFINE S == {i \in Nat : i <= k => Aligned(x, k - i)}
  <1>1. 0 \in S
    OBVIOUS
  <1>2. ASSUME NEW i \in S PROVE i + 1 \in S
    <2> SUFFICES ASSUME i + 1 <= k PROVE Aligned(x, k - (i + 1))
      OBVIOUS
    <2>1. k - (i + 1) \in Nat /\ (k - (i + 1)) + 1 = k - i
      OBVIOUS
    <2>2. Aligned(x, (k - (i + 1)) + 1)
      BY <2>1
    <2> QED BY <2>1, <2>2, AlignedHalf
  <1>3. \A i \in Nat : 0 <= i => i \in S
    <2> HIDE DEF S
    <2> S \in SUBSET Nat
      BY DEF S
    <2> QED BY <1>1, <1>2, Induct
  <1>4. k - j \in Nat /\ k - j <= k /\ k - (k - j) = j
    OBVIOUS
  <1> QED BY <1>3, <1>4

(* A block of a higher order is at least twice as large.                   *)
LEMMA PowGrows ==
  ASSUME NEW j \in Nat, NEW k \in Nat, j < k
  PROVE  2 * 2 ^ j <= 2 ^ k
  <1> DEFINE S == {i \in Nat : j < i => 2 * 2 ^ j <= 2 ^ i}
  <1>1. j + 1 \in S
    BY PowDouble, PowPos
  <1>2. ASSUME NEW i \in S, j + 1 <= i PROVE i + 1 \in S
    <2>1. 2 * 2 ^ j <= 2 ^ i /\ 2 ^ (i + 1) = 2 * 2 ^ i
      BY <1>2, PowDouble
    <2> QED BY <2>1, PowPos
  <1>3. ASSUME NEW i \in S PROVE i + 1 \in S
    <2>1. CASE j + 1 <= i
      BY <2>1, <1>2
    <2>2. CASE i + 1 = j + 1
      BY <2>2, <1>1
    <2>3. CASE i + 1 < j + 1
      BY <2>3
    <2> QED BY <2>1, <2>2, <2>3
  <1>4. \A i \in Nat : j + 1 <= i => i \in S
    <2> S \in SUBSET Nat /\ j + 1 \in Nat
      OBVIOUS
    <2> HIDE DEF S
    <2> QED BY <1>1, <1>3, Induct
  <1> QED BY <1>4

(* Two aligned blocks are apart, or the smaller one lies inside the        *)
(* larger.                                                                 *)
LEMMA Nested ==
  ASSUME NEW k \in Nat, NEW j \in 0 .. k, NEW x \in Nat, NEW y \in Nat,
         Aligned(x, j), Aligned(y, k)
  PROVE  \/ x + 2 ^ j <= y
         \/ y + 2 ^ k <= x
         \/ y <= x /\ x + 2 ^ j <= y + 2 ^ k
  <1>1. Aligned(y, j)
    BY AlignedBelow
  <1>2. Aligned(y + 2 ^ k, j) /\ y + 2 ^ k \in Nat
    BY AlignedNext, AlignedBelow, PowPos
  <1>3. x < y => x + 2 ^ j <= y
    BY <1>1, AlignedGap
  <1>4. x < y + 2 ^ k => x + 2 ^ j <= y + 2 ^ k
    BY <1>2, AlignedGap
  <1> QED BY <1>3, <1>4, PowPos

(* pfn ^ 2^order: the buddy is the other half of the pair, and its buddy   *)
(* is the block itself.                                                    *)
LEMMA BuddyFacts ==
  ASSUME NEW k \in Nat, NEW x \in Nat, Aligned(x, k)
  PROVE  /\ Buddy(x, k) \in Nat
         /\ Aligned(Buddy(x, k), k)
         /\ Buddy(x, k) # x
         /\ Buddy(Buddy(x, k), k) = x
         /\ \/ Aligned(x, k + 1) /\ Buddy(x, k) = x + 2 ^ k
            \/ Aligned(Buddy(x, k), k + 1) /\ x = Buddy(x, k) + 2 ^ k
  <1>1. 2 ^ k \in Nat \ {0}
    BY PowPos
  <1>2. CASE (x \div 2 ^ k) % 2 = 0 /\ Aligned(x, k + 1)
    <2>1. Buddy(x, k) = x + 2 ^ k
      BY <1>2 DEF Buddy
    <2>2. ((x + 2 ^ k) \div 2 ^ k) % 2 = 1 /\ Aligned(x + 2 ^ k, k)
      BY <1>2, AlignedHalf
    <2>3. Buddy(x + 2 ^ k, k) = (x + 2 ^ k) - 2 ^ k
      BY <2>2 DEF Buddy
    <2> QED BY <1>1, <1>2, <2>1, <2>2, <2>3
  <1>3. CASE (x \div 2 ^ k) % 2 = 1 /\ x - 2 ^ k \in Nat /\ Aligned(x - 2 ^ k, k + 1)
    <2>1. Buddy(x, k) = x - 2 ^ k
      BY <1>3 DEF Buddy
    <2>2. ((x - 2 ^ k) \div 2 ^ k) % 2 = 0 /\ Aligned(x - 2 ^ k, k)
      BY <1>3, AlignedHalf
    <2>3. Buddy(x - 2 ^ k, k) = (x - 2 ^ k) + 2 ^ k
      BY <2>2 DEF Buddy
    <2> QED BY <1>1, <1>3, <2>1, <2>2, <2>3
  <1> QED BY <1>2, <1>3, AlignedPair

(* The merged block of order j that contains p is aligned and contains all *)
(* of the block that started the merge.                                    *)
LEMMA BaseFacts ==
  ASSUME NEW k \in Nat, NEW j \in Nat, k <= j, NEW p \in Nat, Aligned(p, k)
  PROVE  /\ Base(p, k, j) \in Nat
         /\ Aligned(Base(p, k, j), j)
         /\ Base(p, k, j) <= p
         /\ p + 2 ^ k <= Base(p, k, j) + 2 ^ j
  <1> DEFINE n == 2 ^ j
             b == Base(p, k, j)
  <1>1. n \in Nat \ {0} /\ 2 ^ k \in Nat \ {0}
    BY PowPos
  <1>2. b = p - (p % n)
    BY PowPos DEF Base, Aligned
  <1> HIDE DEF n
  <1>3. p % n \in 0 .. n - 1 /\ p = (n * (p \div n)) + (p % n) /\ p \div n \in Nat
    BY <1>1
  <1>4. b = (p \div n) * n
    BY <1>1, <1>2, <1>3
  <1>5. ((p \div n) * n) % n = 0 /\ (p \div n) * n \in Nat
    BY <1>1, <1>3
  <1>6. b \in Nat /\ Aligned(b, j)
    BY <1>4, <1>5 DEF Aligned, n
  <1>7. b <= p /\ p < b + n
    BY <1>1, <1>2, <1>3
  <1> HIDE DEF b
  <1>8. p + 2 ^ k <= b \/ b + 2 ^ j <= p \/ (b <= p /\ p + 2 ^ k <= b + 2 ^ j)
    BY <1>6, Nested
  <1> QED BY <1>1, <1>6, <1>7, <1>8 DEF b, n

(* There is one aligned block of order j that contains p.                  *)
LEMMA BaseUnique ==
  ASSUME NEW k \in Nat, NEW j \in Nat, k <= j, NEW p \in Nat, Aligned(p, k),
         NEW x \in Nat, Aligned(x, j), x <= p, p < x + 2 ^ j
  PROVE  Base(p, k, j) = x
  <1>1. /\ Base(p, k, j) \in Nat /\ Aligned(Base(p, k, j), j)
        /\ Base(p, k, j) <= p /\ p < Base(p, k, j) + 2 ^ j
    BY BaseFacts, PowPos
  <1>2. x < Base(p, k, j) => x + 2 ^ j <= Base(p, k, j)
    BY <1>1, AlignedGap
  <1>3. Base(p, k, j) < x => Base(p, k, j) + 2 ^ j <= x
    BY <1>1, AlignedGap
  <1> QED BY <1>1, <1>2, <1>3, PowPos

(* The merge starts where the block starts.                                *)
LEMMA BaseFirst ==
  ASSUME NEW k \in Nat, NEW p \in Nat, Aligned(p, k)
  PROVE  Base(p, k, k) = p
  BY BaseUnique, PowPos

(* Merging with the buddy gives the lower of the two starts.               *)
LEMMA BaseStep ==
  ASSUME NEW k \in Nat, NEW j \in Nat, k <= j, NEW p \in Nat, Aligned(p, k)
  PROVE  \/ /\ Base(p, k, j + 1) = Base(p, k, j)
            /\ Buddy(Base(p, k, j), j) = Base(p, k, j) + 2 ^ j
         \/ /\ Base(p, k, j + 1) = Buddy(Base(p, k, j), j)
            /\ Base(p, k, j) = Buddy(Base(p, k, j), j) + 2 ^ j
  <1> DEFINE x == Base(p, k, j)
             b == Buddy(x, j)
  <1>1. /\ x \in Nat /\ Aligned(x, j) /\ x <= p /\ p < x + 2 ^ j
    BY BaseFacts, PowPos
  <1>2. /\ 2 ^ j \in Nat \ {0} /\ 2 ^ (j + 1) = 2 * 2 ^ j /\ j + 1 \in Nat /\ k <= j + 1
    BY PowPos, PowDouble
  <1> HIDE DEF x
  <1>3. CASE Aligned(x, j + 1) /\ b = x + 2 ^ j
    <2>1. Base(p, k, j + 1) = x
      BY <1>1, <1>2, <1>3, BaseUnique
    <2> QED BY <1>3, <2>1 DEF x
  <1>4. CASE Aligned(b, j + 1) /\ x = b + 2 ^ j /\ b \in Nat
    <2>1. b <= p /\ p < b + 2 ^ (j + 1)
      BY <1>1, <1>2, <1>4
    <2> HIDE DEF b
    <2>2. Base(p, k, j + 1) = b
      BY <1>2, <1>4, <2>1, BaseUnique
    <2> QED BY <1>4, <2>2 DEF x, b
  <1> QED BY <1>1, <1>3, <1>4, BuddyFacts

------------------------------------------------------------------------------
(* The allocator.  Head(p, k): a block of order k starts at page p, on a   *)
(* free list or handed out.                                                *)

(* The types of the constants.                                             *)
LEMMA Bounds ==
  /\ TotalPages \in Nat \ {0} /\ MaxOrder \in Nat
  /\ Page \subseteq Nat /\ Order \subseteq Nat
  /\ \A k \in Order : 2 ^ k \in Nat \ {0}
  BY MemoryAssumption, PowPos DEF Page, Order

(* A block of order k that starts at page p is out.                        *)
Out(p, k) == ~pages[p].free /\ pages[p].order = k

(* A block of order k starts at page p.                                    *)
Head(p, k) == p \in lists[k] \/ Out(p, k)

(* Blocks are aligned and lie inside the memory.                           *)
Inside == \A p \in Page, k \in Order :
            Head(p, k) => Aligned(p, k) /\ p + 2 ^ k <= TotalPages

(* Two blocks never overlap.                                               *)
Apart == \A p, q \in Page, j, k \in Order :
           Head(p, j) /\ Head(q, k) /\ (p # q \/ j # k) =>
             p + 2 ^ j <= q \/ q + 2 ^ k <= p

(* Every page is in a block.                                               *)
Covered == ready => \A x \in Page : \E p \in Page, k \in Order :
                      Head(p, k) /\ p <= x /\ x < p + 2 ^ k

(* The descriptor of a listed block tells what it is.                      *)
Described == \A k \in Order : \A p \in lists[k] : pages[p].free /\ pages[p].order = k

(* No two buddies are listed side by side.                                 *)
Merged == \A k \in Order : k < MaxOrder => \A p \in lists[k] : Buddy(p, k) \notin lists[k]

(* While memory is down nothing is listed and nothing is out.              *)
Down == ~ready => /\ \A p \in Page : pages[p].free
                  /\ \A k \in Order : lists[k] = {}

(* The blocks tile the memory and are what their descriptors say.          *)
Shape == /\ ready \in BOOLEAN
         /\ pages \in [Page -> Descriptor]
         /\ lists \in [Order -> SUBSET Page]
         /\ Inside /\ Apart /\ Covered /\ Described /\ Merged /\ Down

(* The pages that are out.                                                 *)
OutPages == {x \in Page : \E p \in Page, k \in Order : Out(p, k) /\ p <= x /\ x < p + 2 ^ k}

(* g_free_count is the length of each list.                                *)
Lengths == listed = [k \in Order |-> Cardinality(lists[k])]

(* The statistics, as numbers of pages.                                    *)
Counted == /\ kernelPages = Cardinality(OutPages)
           /\ freePages = IF ready THEN TotalPages - kernelPages ELSE 0
           /\ kernelPages <= peak /\ peak \in 0 .. TotalPages

------------------------------------------------------------------------------
(* Allocation: a block is split.                                           *)

(* What split_block cuts off is aligned, follows the lower half that       *)
(* remains, and ends where the block ended.                                *)
LEMMA SplitFacts ==
  ASSUME NEW o \in Order, NEW k \in 0 .. o, NEW p \in Nat, Aligned(p, o)
  PROVE  /\ \A j \in k .. o - 1 :
              /\ p + 2 ^ j \in Nat
              /\ Aligned(p + 2 ^ j, j)
              /\ p + 2 ^ k <= p + 2 ^ j
              /\ (p + 2 ^ j) + 2 ^ j <= p + 2 ^ o
              /\ (p + 2 ^ j) + 2 ^ j = p + 2 ^ (j + 1)
         /\ \A i, j \in k .. o - 1 : i < j => (p + 2 ^ i) + 2 ^ i <= p + 2 ^ j
         /\ Aligned(p, k)
         /\ p + 2 ^ k <= p + 2 ^ o
  <1>1. o \in Nat /\ k \in Nat
    BY Bounds
  <1>2. ASSUME NEW j \in k .. o - 1
        PROVE  /\ p + 2 ^ j \in Nat
               /\ Aligned(p + 2 ^ j, j)
               /\ p + 2 ^ k <= p + 2 ^ j
               /\ (p + 2 ^ j) + 2 ^ j <= p + 2 ^ o
               /\ (p + 2 ^ j) + 2 ^ j = p + 2 ^ (j + 1)
    <2>1. j \in Nat /\ j + 1 \in 0 .. o /\ j < o
      BY <1>1
    <2>2. 2 ^ j \in Nat \ {0} /\ 2 ^ k \in Nat \ {0} /\ 2 ^ o \in Nat \ {0}
      BY <1>1, <2>1, PowPos
    <2>3. Aligned(p, j + 1)
      BY <1>1, <2>1, AlignedBelow
    <2>4. Aligned(p + 2 ^ j, j)
      BY <2>1, <2>3, AlignedHalf
    <2>5. 2 * 2 ^ j <= 2 ^ o /\ 2 ^ (j + 1) = 2 * 2 ^ j
      BY <1>1, <2>1, PowGrows, PowDouble
    <2>6. k < j => 2 * 2 ^ k <= 2 ^ j
      BY <1>1, <2>1, PowGrows
    <2> QED BY <2>1, <2>2, <2>4, <2>5, <2>6
  <1>3. ASSUME NEW i \in k .. o - 1, NEW j \in k .. o - 1, i < j
        PROVE  (p + 2 ^ i) + 2 ^ i <= p + 2 ^ j
    <2>1. i \in Nat /\ j \in Nat
      BY <1>1
    <2> QED BY <1>3, <2>1, PowGrows, PowPos
  <1>4. Aligned(p, k)
    BY <1>1, AlignedBelow
  <1>5. k < o => 2 * 2 ^ k <= 2 ^ o
    BY <1>1, PowGrows
  <1> QED BY <1>1, <1>2, <1>3, <1>4, <1>5, PowPos

(* The pieces of a split block leave no page out.                          *)
LEMMA SplitCovers ==
  ASSUME NEW o \in Order, NEW k \in 0 .. o, NEW p \in Nat, NEW x \in Nat,
         p + 2 ^ k <= x, x < p + 2 ^ o
  PROVE  \E j \in k .. o - 1 : p + 2 ^ j <= x /\ x < (p + 2 ^ j) + 2 ^ j
  <1>1. o \in Nat /\ k \in Nat
    BY Bounds
  <1> DEFINE T == {i \in Nat : k <= i /\ x < p + 2 ^ i}
  <1>2. PICK m \in T : \A i \in T : m <= i
    <2> T \in SUBSET Nat /\ o \in T
      BY <1>1
    <2> HIDE DEF T
    <2> QED BY LeastNat
  <1>3. m # k /\ m <= o
    BY <1>1, <1>2, PowPos
  <1>4. m - 1 \in k .. o - 1 /\ m - 1 \notin T /\ m - 1 \in Nat
    BY <1>1, <1>2, <1>3
  <1>5. 2 ^ ((m - 1) + 1) = 2 * 2 ^ (m - 1) /\ (m - 1) + 1 = m
    BY <1>4, PowDouble
  <1>6. p + 2 ^ (m - 1) <= x
    BY <1>4, PowPos
  <1>7. x < (p + 2 ^ (m - 1)) + 2 ^ (m - 1)
    BY <1>2, <1>4, <1>5, PowPos
  <1> QED BY <1>4, <1>6, <1>7

(* baios_mm_alloc_pages, in terms of the blocks: which are out afterwards, *)
(* and which are listed.                                                   *)
LEMMA AllocEffect ==
  ASSUME Shape, ready, NEW k \in Order, NEW o \in Order, Search(k, o),
         NEW p \in lists[o], Take(p, k, o)
  PROVE  /\ pages' \in [Page -> Descriptor]
         /\ lists' \in [Order -> SUBSET Page]
         /\ \A q \in Page, j \in Order : Out(q, j)' <=> Out(q, j) \/ (q = p /\ j = k)
         /\ \A j \in Order : lists'[j] = IF j = o THEN lists[o] \ {p}
                                         ELSE IF j \in k .. o - 1 THEN {p + 2 ^ j}
                                         ELSE lists[j]
         /\ \A j \in k .. o - 1 : lists[j] = {} /\ p + 2 ^ j \in Page
         /\ Described'
  <1> DEFINE split == SplitOff(p, k, o)
  <1>1. /\ k \in Nat /\ o \in Nat /\ k <= o /\ k \in 0 .. o
        /\ \A j \in k .. o - 1 : lists[j] = {}
        /\ k .. o - 1 \subseteq Order
    BY Bounds DEF Search, Order
  <1>2. p \in Page /\ p \in Nat /\ Head(p, o) /\ Aligned(p, o) /\ p + 2 ^ o <= TotalPages
    BY Bounds DEF Shape, Inside, Head
  <1>3. DOMAIN split = k .. o - 1 /\ \A j \in k .. o - 1 : split[j] = p + 2 ^ j
    BY DEF SplitOff
  <1>4. \A j \in k .. o - 1 :
          /\ p + 2 ^ j \in Nat /\ p + 2 ^ k <= p + 2 ^ j
          /\ (p + 2 ^ j) + 2 ^ j <= p + 2 ^ o
          /\ j \in Order /\ 2 ^ j \in Nat \ {0}
    BY <1>1, <1>2, SplitFacts, Bounds
  <1>5. \A j \in k .. o - 1 : p + 2 ^ j \in Page /\ p + 2 ^ j # p
    BY <1>2, <1>4, Bounds DEF Page
  <1>6. \A i, j \in k .. o - 1 : p + 2 ^ i = p + 2 ^ j => i = j
    <2> SUFFICES ASSUME NEW i \in k .. o - 1, NEW j \in k .. o - 1, i < j
                 PROVE  p + 2 ^ i # p + 2 ^ j
      BY <1>1
    <2> QED BY <1>1, <1>2, <1>4, SplitFacts
  <1> HIDE DEF split
  <1>7. pages' = [q \in Page |->
                       IF q = p THEN [free |-> FALSE, order |-> k]
                       ELSE IF \E j \in DOMAIN split : split[j] = q
                         THEN [free |-> TRUE,
                               order |-> CHOOSE j \in DOMAIN split : split[j] = q]
                         ELSE pages[q]]
    BY DEF Take, split
  <1>8. lists' = [j \in Order |->
                       IF j = o THEN lists[j] \ {p}
                       ELSE IF j \in DOMAIN split THEN lists[j] \cup {split[j]}
                       ELSE lists[j]]
    BY DEF Take, split
  <1>9. pages'[p] = [free |-> FALSE, order |-> k]
    BY <1>2, <1>7
  <1>10. ASSUME NEW j \in k .. o - 1
         PROVE  pages'[p + 2 ^ j] = [free |-> TRUE, order |-> j]
    <2>1. (CHOOSE i \in DOMAIN split : split[i] = p + 2 ^ j) = j
      BY <1>3, <1>6
    <2>2. \E i \in DOMAIN split : split[i] = p + 2 ^ j
      BY <1>3
    <2> QED BY <1>5, <1>7, <2>1, <2>2
  <1>11. \A q \in Page : q # p /\ (\A j \in k .. o - 1 : q # p + 2 ^ j) => pages'[q] = pages[q]
    BY <1>3, <1>7
  <1>12. \A j \in Order : lists'[j] = IF j = o THEN lists[o] \ {p}
                                         ELSE IF j \in k .. o - 1 THEN {p + 2 ^ j}
                                         ELSE lists[j]
    BY <1>1, <1>3, <1>8
  <1>13. pages' \in [Page -> Descriptor]
    <2>1. \A q \in Page : pages'[q] \in Descriptor
      <3> SUFFICES ASSUME NEW q \in Page PROVE pages'[q] \in Descriptor
        OBVIOUS
      <3>1. CASE q = p
        BY <3>1, <1>9 DEF Descriptor
      <3>2. CASE \E j \in k .. o - 1 : q = p + 2 ^ j
        <4>1. PICK j \in k .. o - 1 : q = p + 2 ^ j
          BY <3>2
        <4>2. j \in Order /\ pages'[q] = [free |-> TRUE, order |-> j]
          BY <4>1, <1>4, <1>10
        <4> QED BY <4>2 DEF Descriptor
      <3>3. CASE q # p /\ (\A j \in k .. o - 1 : q # p + 2 ^ j)
        BY <3>3, <1>11 DEF Shape
      <3> QED BY <3>1, <3>2, <3>3
    <2> QED BY <2>1, <1>7
  <1>14. lists' \in [Order -> SUBSET Page]
    <2>1. ASSUME NEW j \in Order PROVE lists'[j] \subseteq Page
      <3>1. lists[j] \subseteq Page /\ lists[o] \subseteq Page
        BY DEF Shape
      <3>2. j \in k .. o - 1 => {p + 2 ^ j} \subseteq Page
        BY <1>5
      <3>3. lists'[j] = IF j = o THEN lists[o] \ {p}
                        ELSE IF j \in k .. o - 1 THEN {p + 2 ^ j} ELSE lists[j]
        BY <1>12
      <3> QED BY <3>1, <3>2, <3>3
    <2> QED BY <2>1, <1>8
  \* no old block starts at one of the upper halves
  <1>15. ASSUME NEW j \in k .. o - 1, NEW i \in Order
         PROVE  ~Head(p + 2 ^ j, i)
    <2> SUFFICES ASSUME Head(p + 2 ^ j, i) PROVE FALSE
      OBVIOUS
    <2>1. p + 2 ^ j + 2 ^ i <= p \/ p + 2 ^ o <= p + 2 ^ j
      BY <1>2, <1>5 DEF Shape, Apart
    <2> QED BY <2>1, <1>2, <1>4, Bounds
  <1>16. \A j \in Order : ~Out(p, j)
    BY <1>2 DEF Shape, Described, Out
  <1>17. ASSUME NEW q \in Page, NEW j \in Order
         PROVE  Out(q, j)' <=> Out(q, j) \/ (q = p /\ j = k)
    <2>1. CASE q = p
      BY <2>1, <1>9, <1>16 DEF Out
    <2>2. CASE \E i \in k .. o - 1 : q = p + 2 ^ i
      <3>1. q # p /\ ~Out(q, j)
        BY <2>2, <1>5, <1>15 DEF Head
      <3>2. PICK i \in k .. o - 1 : q = p + 2 ^ i
        BY <2>2
      <3>3. pages'[q] = [free |-> TRUE, order |-> i]
        BY <3>2, <1>10
      <3>4. ~Out(q, j)'
        BY <3>3 DEF Out
      <3> QED BY <3>1, <3>4
    <2>3. CASE q # p /\ (\A i \in k .. o - 1 : q # p + 2 ^ i)
      BY <2>3, <1>11 DEF Out
    <2> QED BY <2>1, <2>2, <2>3
  <1>18. Described'
    <2> SUFFICES ASSUME NEW j \in Order, NEW q \in lists'[j]
                 PROVE  pages'[q].free /\ pages'[q].order = j
      BY DEF Described
    <2>1. CASE j \in k .. o - 1
      <3>1. lists'[j] = {p + 2 ^ j}
        BY <2>1, <1>1, <1>12
      <3>2. q = p + 2 ^ j
        BY <3>1
      <3>3. pages'[q] = [free |-> TRUE, order |-> j]
        BY <2>1, <3>2, <1>10
      <3> QED BY <3>3
    <2>2. CASE j \notin k .. o - 1
      <3>1. q \in lists[j] /\ (j # o \/ q # p) /\ q \in Page
        BY <2>2, <1>12 DEF Shape
      <3>2. q # p
        BY <3>1, <1>2 DEF Shape, Described
      <3>3. \A i \in k .. o - 1 : q # p + 2 ^ i
        BY <3>1, <1>15 DEF Head
      <3> QED BY <3>1, <3>2, <3>3, <1>11 DEF Shape, Described
    <2> QED BY <2>1, <2>2
  <1> QED BY <1>1, <1>5, <1>12, <1>13, <1>14, <1>17, <1>18

(* An allocation keeps the tiling.                                         *)
LEMMA AllocShape ==
  ASSUME Shape, ready, NEW k \in Order, NEW o \in Order, Search(k, o),
         NEW p \in lists[o], Take(p, k, o), ready' = ready
  PROVE  Shape'
  <1> DEFINE New(q, j) == \/ q = p /\ j = k
                          \/ j \in k .. o - 1 /\ q = p + 2 ^ j
             Old(q, j) == Head(q, j) /\ (q # p \/ j # o)
  <1>1. /\ k \in Nat /\ o \in Nat /\ k <= o /\ k \in 0 .. o
        /\ k .. o - 1 \subseteq Order
    BY Bounds DEF Search, Order
  <1>2. p \in Page /\ p \in Nat /\ Head(p, o) /\ Aligned(p, o) /\ p + 2 ^ o <= TotalPages
    BY Bounds DEF Shape, Inside, Head
  <1>3. /\ pages' \in [Page -> Descriptor]
        /\ lists' \in [Order -> SUBSET Page]
        /\ \A q \in Page, j \in Order : Out(q, j)' <=> Out(q, j) \/ (q = p /\ j = k)
        /\ \A j \in Order : lists'[j] = IF j = o THEN lists[o] \ {p}
                                        ELSE IF j \in k .. o - 1 THEN {p + 2 ^ j}
                                        ELSE lists[j]
        /\ \A j \in k .. o - 1 : lists[j] = {} /\ p + 2 ^ j \in Page
        /\ Described'
    BY AllocEffect
  <1>4. \A j \in Order : ~Out(p, j)
    BY <1>2 DEF Shape, Described, Out
  <1>5. ASSUME NEW q \in Page, NEW j \in Order
        PROVE  Head(q, j)' <=> New(q, j) \/ Old(q, j)
    <2>1. Head(q, j)' <=> q \in lists'[j] \/ Out(q, j)'
      BY DEF Head
    <2>2. CASE j = o
      BY <1>1, <1>3, <1>4, <2>1, <2>2 DEF Head
    <2>3. CASE j \in k .. o - 1
      BY <1>1, <1>3, <1>4, <2>1, <2>3 DEF Head
    <2>4. CASE j # o /\ j \notin k .. o - 1
      BY <1>1, <1>3, <1>4, <2>1, <2>4 DEF Head
    <2> QED BY <2>2, <2>3, <2>4
  <1>6. ASSUME NEW q \in Page, NEW j \in Order, New(q, j)
        PROVE  Aligned(q, j) /\ p <= q /\ q + 2 ^ j <= p + 2 ^ o
    BY <1>1, <1>2, <1>6, SplitFacts, Bounds
  <1>7. ASSUME NEW q \in Page, NEW j \in Order, NEW r \in Page, NEW i \in Order,
               New(q, j), New(r, i), q # r \/ j # i
        PROVE  q + 2 ^ j <= r \/ r + 2 ^ i <= q
    <2>1. CASE q = p /\ j = k /\ i \in k .. o - 1 /\ r = p + 2 ^ i
      BY <2>1, <1>1, <1>2, SplitFacts
    <2>2. CASE r = p /\ i = k /\ j \in k .. o - 1 /\ q = p + 2 ^ j
      BY <2>2, <1>1, <1>2, SplitFacts
    <2>3. CASE i \in k .. o - 1 /\ r = p + 2 ^ i /\ j \in k .. o - 1 /\ q = p + 2 ^ j
      <3>1. i \in Nat /\ j \in Nat /\ i # j
        BY <2>3, <1>1, <1>7
      <3> QED BY <2>3, <3>1, <1>1, <1>2, SplitFacts
    <2> QED BY <1>7, <2>1, <2>2, <2>3
  <1>8. ASSUME NEW q \in Page, NEW j \in Order, Old(q, j)
        PROVE  q + 2 ^ j <= p \/ p + 2 ^ o <= q
    BY <1>2, <1>8 DEF Shape, Apart
  <1> Page \subseteq Nat /\ Order \subseteq Nat /\ \A j \in Order : 2 ^ j \in Nat \ {0}
    BY Bounds
  <1>9. Inside'
    <2> SUFFICES ASSUME NEW q \in Page, NEW j \in Order, Head(q, j)'
                 PROVE  Aligned(q, j) /\ q + 2 ^ j <= TotalPages
      BY DEF Inside, Aligned
    <2>1. CASE New(q, j)
      <3> HIDE DEF New
      <3>1. Aligned(q, j) /\ q + 2 ^ j <= p + 2 ^ o
        BY <2>1, <1>6
      <3> QED BY <3>1, <1>2, Bounds
    <2>2. CASE Old(q, j)
      BY <2>2 DEF Shape, Inside
    <2> QED BY <1>5, <2>1, <2>2
  <1>10. Apart'
    <2> SUFFICES ASSUME NEW q \in Page, NEW j \in Order, NEW r \in Page, NEW i \in Order,
                        Head(q, j)', Head(r, i)', q # r \/ j # i
                 PROVE  q + 2 ^ j <= r \/ r + 2 ^ i <= q
      BY DEF Apart
    <2> HIDE DEF New
    <2>1. CASE New(q, j) /\ New(r, i)
      BY <2>1, <1>7
    <2>2. CASE New(q, j) /\ Old(r, i)
      <3>1. p <= q /\ q + 2 ^ j <= p + 2 ^ o
        BY <2>2, <1>6
      <3>2. r + 2 ^ i <= p \/ p + 2 ^ o <= r
        BY <2>2, <1>8
      <3> QED BY <3>1, <3>2, <1>2
    <2>3. CASE Old(q, j) /\ New(r, i)
      <3>1. p <= r /\ r + 2 ^ i <= p + 2 ^ o
        BY <2>3, <1>6
      <3>2. q + 2 ^ j <= p \/ p + 2 ^ o <= q
        BY <2>3, <1>8
      <3> QED BY <3>1, <3>2, <1>2
    <2>4. CASE Old(q, j) /\ Old(r, i)
      BY <2>4 DEF Shape, Apart
    <2> QED BY <1>5, <2>1, <2>2, <2>3, <2>4
  <1>11. Covered'
    <2> SUFFICES ASSUME NEW x \in Page
                 PROVE  \E q \in Page, j \in Order : Head(q, j)' /\ q <= x /\ x < q + 2 ^ j
      BY DEF Covered
    <2>1. PICK q \in Page, j \in Order : Head(q, j) /\ q <= x /\ x < q + 2 ^ j
      BY DEF Shape, Covered
    <2>2. CASE q # p \/ j # o
      BY <2>1, <2>2, <1>5
    <2>3. CASE q = p /\ j = o
      <3>1. CASE x < p + 2 ^ k
        <4>1. Head(p, k)'
          BY <1>2, <1>5
        <4> QED BY <2>1, <2>3, <3>1, <4>1
      <3>2. CASE p + 2 ^ k <= x
        <4>1. PICK i \in k .. o - 1 : p + 2 ^ i <= x /\ x < (p + 2 ^ i) + 2 ^ i
          BY <1>1, <1>2, <2>1, <2>3, <3>2, SplitCovers
        <4>2. i \in Order /\ p + 2 ^ i \in Page /\ Head(p + 2 ^ i, i)'
          BY <1>1, <1>3, <1>5
        <4> QED BY <4>1, <4>2
      <3> QED BY <1>2, <3>1, <3>2
    <2> QED BY <2>2, <2>3
  <1>12. Merged'
    <2> SUFFICES ASSUME NEW j \in Order, j < MaxOrder, NEW q \in lists'[j]
                 PROVE  Buddy(q, j) \notin lists'[j]
      BY DEF Merged, Buddy
    <2>1. CASE j \in k .. o - 1
      <3>1. lists'[j] = {p + 2 ^ j} /\ q = p + 2 ^ j
        BY <2>1, <1>1, <1>3
      <3>2. Aligned(q, j) /\ q \in Nat
        BY <2>1, <3>1, <1>1, <1>2, SplitFacts
      <3>3. Buddy(q, j) # q
        BY <3>2, BuddyFacts
      <3> QED BY <3>1, <3>3
    <2>2. CASE j \notin k .. o - 1
      <3>1. lists'[j] \subseteq lists[j]
        BY <2>2, <1>3
      <3>2. Buddy(q, j) \notin lists[j]
        BY <3>1 DEF Shape, Merged
      <3> QED BY <3>1, <3>2
    <2> QED BY <2>1, <2>2
  <1> QED BY <1>3, <1>9, <1>10, <1>11, <1>12 DEF Shape, Down

------------------------------------------------------------------------------
(* Release: a block is merged with its buddies.                            *)

(* A block and its buddy, as the halves of their pair.                     *)
LEMMA BuddyPair ==
  ASSUME NEW k \in Nat, NEW x \in Nat, Aligned(x, k)
  PROVE  \E s \in Nat : /\ Aligned(s, k + 1)
                        /\ \/ x = s /\ Buddy(x, k) = s + 2 ^ k
                           \/ x = s + 2 ^ k /\ Buddy(x, k) = s
  BY BuddyFacts, PowPos

(* The merge loop trusts a descriptor that may be stale.  It may: a page   *)
(* inside the memory whose descriptor says free and of order j, and which  *)
(* is the buddy of what has been merged up to order j, heads a listed      *)
(* block of order j.  A larger block around the page would contain the     *)
(* block being released as well, and a smaller one at it would have the    *)
(* smaller order in its descriptor.                                        *)
LEMMA MergeFinds ==
  ASSUME Shape, ready, NEW p \in Page, NEW k \in Order, Out(p, k),
         NEW j \in k .. MaxOrder, j < MaxOrder, Merges(p, k, j)
  PROVE  Buddy(Base(p, k, j), j) \in lists[j]
  <1> DEFINE x == Base(p, k, j)
             b == Buddy(x, j)
  <1> Page \subseteq Nat /\ Order \subseteq Nat /\ \A i \in Order : 2 ^ i \in Nat \ {0}
    BY Bounds
  <1>1. k \in Nat /\ j \in Nat /\ j \in Order /\ k <= j
    BY Bounds DEF Order
  <1>2. p \in Nat /\ Head(p, k) /\ Aligned(p, k)
    BY DEF Shape, Inside, Head
  <1>3. x \in Nat /\ Aligned(x, j) /\ x <= p /\ p + 2 ^ k <= x + 2 ^ j
    BY <1>1, <1>2, BaseFacts
  <1>4. b < TotalPages /\ pages[b].free /\ pages[b].order = j
    BY DEF Merges
  <1> HIDE DEF x
  <1>5. b \in Nat /\ Aligned(b, j)
    BY <1>1, <1>3, BuddyFacts
  <1>6. PICK s \in Nat : /\ Aligned(s, j + 1)
                         /\ \/ x = s /\ b = s + 2 ^ j
                            \/ x = s + 2 ^ j /\ b = s
    BY <1>1, <1>3, BuddyPair
  <1> HIDE DEF b
  <1>7. b \in Page
    BY <1>4, <1>5, Bounds DEF Page
  <1>8. PICK e \in Page, i \in Order : Head(e, i) /\ e <= b /\ b < e + 2 ^ i
    BY <1>7 DEF Shape, Covered
  <1>9. Aligned(e, i) /\ e \in Nat /\ i \in Nat
    BY <1>8 DEF Shape, Inside
  <1>10. CASE i <= j
    <2>1. Aligned(b, i)
      BY <1>1, <1>5, <1>9, <1>10, AlignedBelow
    <2>2. e = b
      BY <2>1, <1>5, <1>8, <1>9, AlignedGap
    <2>3. b \in lists[i]
      BY <2>2, <1>4, <1>8 DEF Head, Out
    <2>4. i = j
      BY <2>3, <1>4 DEF Shape, Described
    <2> QED BY <2>3, <2>4 DEF b, x
  <1>11. CASE j < i
    <2>1. j + 1 \in 0 .. i /\ 2 ^ (j + 1) = 2 * 2 ^ j
      BY <1>1, <1>9, <1>11, PowDouble
    <2>2. \/ s + 2 ^ (j + 1) <= e
          \/ e + 2 ^ i <= s
          \/ e <= s /\ s + 2 ^ (j + 1) <= e + 2 ^ i
      BY <2>1, <1>6, <1>9, Nested
    <2>3. e <= s /\ s + 2 ^ (j + 1) <= e + 2 ^ i
      BY <2>1, <2>2, <1>1, <1>6, <1>8
    <2>4. e <= p /\ p + 2 ^ k <= e + 2 ^ i
      BY <2>1, <2>3, <1>1, <1>3, <1>6
    <2>5. p + 2 ^ k <= e \/ e + 2 ^ i <= p
      BY <1>1, <1>2, <1>8, <1>11 DEF Shape, Apart
    <2> QED BY <2>4, <2>5, <1>2
  <1> QED BY <1>1, <1>9, <1>10, <1>11

(* What the merge loop has gathered when it has got to order n.            *)
Gathered(p, k, n, q, i) == \/ q = p /\ i = k
                           \/ i \in k .. n - 1 /\ q = Buddy(Base(p, k, i), i)

(* What has been gathered fills an aligned block that overlaps nothing     *)
(* else.                                                                   *)
Region(p, k, n) ==
  /\ Base(p, k, n) + 2 ^ n <= TotalPages
  /\ \A q \in Page, i \in Order :
       Head(q, i) /\ ~Gathered(p, k, n, q, i) =>
         q + 2 ^ i <= Base(p, k, n) \/ Base(p, k, n) + 2 ^ n <= q
  /\ \A q \in Page, i \in Order :
       Gathered(p, k, n, q, i) =>
         Base(p, k, n) <= q /\ q + 2 ^ i <= Base(p, k, n) + 2 ^ n
  /\ \E i \in Order : Gathered(p, k, n, Base(p, k, n), i)

(* One turn of the merge loop.                                             *)
LEMMA MergeStep ==
  ASSUME Shape, NEW p \in Page, NEW k \in Order, Out(p, k),
         NEW j \in k .. MaxOrder, j < MaxOrder,
         Buddy(Base(p, k, j), j) \in lists[j],
         Region(p, k, j)
  PROVE  Region(p, k, j + 1)
  <1> DEFINE x == Base(p, k, j)
             y == Base(p, k, j + 1)
             b == Buddy(Base(p, k, j), j)
  <1> Page \subseteq Nat /\ Order \subseteq Nat /\ \A i \in Order : 2 ^ i \in Nat \ {0}
    BY Bounds
  <1>1. k \in Nat /\ j \in Nat /\ j \in Order /\ k <= j
    BY Bounds DEF Order
  <1>2. p \in Nat /\ Head(p, k) /\ Aligned(p, k)
    BY DEF Shape, Inside, Head
  <1>3. 2 ^ (j + 1) = 2 * 2 ^ j
    BY <1>1, PowDouble
  <1>4. x \in Nat
    BY <1>1, <1>2, BaseFacts
  <1>5. b \in Page /\ Head(b, j) /\ b + 2 ^ j <= TotalPages
    BY <1>1 DEF Shape, Inside, Head
  <1>6. \/ y = x /\ b = x + 2 ^ j
        \/ y = b /\ x = b + 2 ^ j
    BY <1>1, <1>2, BaseStep
  <1>7. \A q \in Page, i \in Order :
          Gathered(p, k, j + 1, q, i) <=> Gathered(p, k, j, q, i) \/ (q = b /\ i = j)
    <2> SUFFICES ASSUME NEW q \in Page, NEW i \in Order
                 PROVE  Gathered(p, k, j + 1, q, i) <=> Gathered(p, k, j, q, i) \/ (q = b /\ i = j)
      OBVIOUS
    <2>1. i \in k .. (j + 1) - 1 <=> i \in k .. j - 1 \/ i = j
      BY <1>1
    <2> QED BY <2>1 DEF Gathered
  <1> HIDE DEF x, y, b
  <1>8. y + 2 ^ (j + 1) <= TotalPages
    BY <1>1, <1>3, <1>4, <1>5, <1>6, Bounds DEF x, Region
  <1>9. ASSUME NEW q \in Page, NEW i \in Order, Head(q, i), ~Gathered(p, k, j + 1, q, i)
        PROVE  q + 2 ^ i <= y \/ y + 2 ^ (j + 1) <= q
    <2>1. q + 2 ^ i <= x \/ x + 2 ^ j <= q
      BY <1>7, <1>9 DEF x, Region
    <2>2. q + 2 ^ i <= b \/ b + 2 ^ j <= q
      BY <1>1, <1>5, <1>7, <1>9 DEF Shape, Apart
    <2> QED BY <2>1, <2>2, <1>1, <1>3, <1>4, <1>5, <1>6
  <1>10. ASSUME NEW q \in Page, NEW i \in Order, Gathered(p, k, j + 1, q, i)
         PROVE  y <= q /\ q + 2 ^ i <= y + 2 ^ (j + 1)
    <2>1. CASE q = b /\ i = j
      <3> b \in Nat /\ 2 ^ j \in Nat
        BY <1>1, <1>5
      <3>1. y <= b /\ b + 2 ^ j <= y + 2 ^ (j + 1)
        <4>1. CASE y = x /\ b = x + 2 ^ j
          BY <4>1, <1>3, <1>4
        <4>2. CASE y = b /\ x = b + 2 ^ j
          BY <4>2, <1>3, <1>4
        <4> QED BY <4>1, <4>2, <1>6
      <3> QED BY <2>1, <3>1
    <2>2. CASE Gathered(p, k, j, q, i)
      <3>1. x <= q /\ q + 2 ^ i <= x + 2 ^ j
        BY <2>2 DEF x, Region
      <3> QED BY <3>1, <1>1, <1>3, <1>4, <1>5, <1>6
    <2> QED BY <1>7, <1>10, <2>1, <2>2
  <1>11. \E i \in Order : Gathered(p, k, j + 1, y, i)
    <2>1. CASE y = x
      <3>1. PICK i \in Order : Gathered(p, k, j, x, i)
        BY DEF x, Region
      <3>2. x \in Page
        BY <1>1, <1>4, Bounds DEF x, Page, Region
      <3> QED BY <3>1, <3>2, <2>1, <1>7
    <2>2. CASE y = b
      BY <2>2, <1>1, <1>5, <1>7
    <2> QED BY <1>6, <2>1, <2>2
  <1> QED BY <1>8, <1>9, <1>10, <1>11 DEF y, Region

(* Every turn of the merge loop finds a listed buddy.                      *)
LEMMA MergeRegion ==
  ASSUME Shape, ready, NEW p \in Page, NEW k \in Order, Out(p, k),
         NEW m \in k .. MaxOrder, \A j \in k .. m - 1 : Merges(p, k, j)
  PROVE  /\ \A n \in k .. m : Region(p, k, n)
         /\ \A j \in k .. m - 1 : Buddy(Base(p, k, j), j) \in lists[j]
  <1> Page \subseteq Nat /\ Order \subseteq Nat /\ \A i \in Order : 2 ^ i \in Nat \ {0}
    BY Bounds
  <1>1. k \in Nat /\ m \in Nat /\ m <= MaxOrder /\ MaxOrder \in Nat
    BY Bounds
  <1>2. p \in Nat /\ Head(p, k) /\ Aligned(p, k) /\ p + 2 ^ k <= TotalPages
    BY DEF Shape, Inside, Head
  <1>3. ASSUME NEW j \in k .. m - 1
        PROVE  Buddy(Base(p, k, j), j) \in lists[j]
    <2>1. j \in k .. MaxOrder /\ j < MaxOrder /\ Merges(p, k, j)
      BY <1>1
    <2> QED BY <2>1, MergeFinds
  <1> DEFINE S == {n \in Nat : n \in k .. m => Region(p, k, n)}
  <1>4. k \in S
    <2>1. Base(p, k, k) = p
      BY <1>1, <1>2, BaseFirst
    <2>2. \A q \in Page, i \in Order : Gathered(p, k, k, q, i) <=> q = p /\ i = k
      BY <1>1 DEF Gathered
    <2>3. Base(p, k, k) + 2 ^ k <= TotalPages
      BY <1>2, <2>1
    <2>4. \A q \in Page, i \in Order :
            Head(q, i) /\ ~Gathered(p, k, k, q, i) =>
              q + 2 ^ i <= Base(p, k, k) \/ Base(p, k, k) + 2 ^ k <= q
      BY <1>2, <2>1, <2>2 DEF Shape, Apart
    <2>5. \A q \in Page, i \in Order :
            Gathered(p, k, k, q, i) =>
              Base(p, k, k) <= q /\ q + 2 ^ i <= Base(p, k, k) + 2 ^ k
      BY <1>2, <2>1, <2>2
    <2>6. \E i \in Order : Gathered(p, k, k, Base(p, k, k), i)
      BY <2>1, <2>2
    <2> QED BY <1>1, <2>3, <2>4, <2>5, <2>6 DEF Region
  <1>5. ASSUME NEW n \in S PROVE n + 1 \in S
    <2> SUFFICES ASSUME n + 1 \in k .. m, n + 1 # k PROVE Region(p, k, n + 1)
      BY <1>4
    <2>1. n \in k .. m - 1 /\ n \in k .. MaxOrder /\ n < MaxOrder
      BY <1>1
    <2>2. Region(p, k, n) /\ Buddy(Base(p, k, n), n) \in lists[n]
      BY <1>1, <1>3, <2>1
    <2> QED BY <2>1, <2>2, MergeStep
  <1>6. \A n \in Nat : k <= n => n \in S
    <2> S \in SUBSET Nat
      OBVIOUS
    <2> HIDE DEF S
    <2> QED BY <1>1, <1>4, <1>5, Induct
  <1> QED BY <1>1, <1>3, <1>6

(* The maximum of a bounded set of numbers.                                *)
LEMMA MaxOf ==
  ASSUME NEW m \in Nat, NEW S \in SUBSET (0 .. m), S # {}
  PROVE  Max(S) \in S /\ \A y \in S : y <= Max(S)
  <1> DEFINE T == {m - y : y \in S}
  <1>1. T \in SUBSET Nat /\ T # {}
    <2>1. \A y \in S : m - y \in Nat
      OBVIOUS
    <2> QED BY <2>1
  <1>2. PICK t \in T : \A j \in T : t <= j
    <2> HIDE DEF T
    <2> QED BY <1>1, LeastNat
  <1>3. PICK x \in S : t = m - x
    OBVIOUS
  <1>4. \A y \in S : x >= y
    <2> TAKE y \in S
    <2>1. t <= m - y
      BY <1>2
    <2> QED BY <1>3, <2>1
  <1>5. \E z \in S : \A y \in S : z >= y
    BY <1>4
  <1>6. Max(S) = CHOOSE z \in S : \A y \in S : z >= y
    BY DEF Max
  <1>7. Max(S) \in S /\ \A y \in S : Max(S) >= y
    BY <1>5, <1>6
  <1> QED BY <1>7

(* What a release writes to the descriptors and the lists.                 *)
Freed(p, k, m) ==
  /\ pages' = [q \in Page |->
                 IF Writes(p, k, m, q) = {} THEN pages[q]
                 ELSE [free |-> TRUE, order |-> Max(Writes(p, k, m, q))]]
  /\ lists' = [j \in Order |->
                 IF j = m THEN lists[j] \cup {Base(p, k, m)}
                 ELSE IF j \in k .. m - 1
                   THEN lists[j] \ {Buddy(Base(p, k, j), j)}
                 ELSE lists[j]]

(* baios_mm_free_pages, in terms of the blocks.                            *)
LEMMA FreeEffect ==
  ASSUME Shape, ready, NEW p \in Page, NEW k \in Order, Out(p, k),
         NEW m \in k .. MaxOrder, Reaches(p, k, m), Freed(p, k, m)
  PROVE  /\ pages' \in [Page -> Descriptor]
         /\ lists' \in [Order -> SUBSET Page]
         /\ Base(p, k, m) \in Page /\ m \in Order
         /\ \A q \in Page, j \in Order : Out(q, j)' <=> Out(q, j) /\ q # p
         /\ \A q \in Page, j \in Order :
              q \in lists'[j] <=> \/ q = Base(p, k, m) /\ j = m
                                  \/ q \in lists[j] /\ ~Gathered(p, k, m, q, j)
         /\ Described'
  <1> Page \subseteq Nat /\ Order \subseteq Nat /\ \A i \in Order : 2 ^ i \in Nat \ {0}
    BY Bounds
  <1>1. /\ k \in Nat /\ m \in Nat /\ m <= MaxOrder /\ MaxOrder \in Nat /\ k <= m
        /\ k .. m \subseteq Order /\ m \in Order
    BY Bounds DEF Order
  <1>2. p \in Nat /\ Head(p, k) /\ Aligned(p, k) /\ ~pages[p].free
    BY DEF Shape, Inside, Head, Out
  <1>3. /\ \A n \in k .. m : Region(p, k, n)
        /\ \A j \in k .. m - 1 : Buddy(Base(p, k, j), j) \in lists[j]
    BY MergeRegion DEF Reaches
  <1>4. \A j \in Order : p \notin lists[j]
    BY <1>2 DEF Shape, Described
  <1>5. \A n \in k .. m : Base(p, k, n) \in Page
    <2> TAKE n \in k .. m
    <2>1. n \in Nat /\ k <= n /\ n \in Order
      BY <1>1
    <2>2. Base(p, k, n) \in Nat /\ Base(p, k, n) + 2 ^ n <= TotalPages
      BY <1>2, <1>1, <1>3, <2>1, BaseFacts DEF Region
    <2> QED BY <2>1, <2>2, Bounds DEF Page
  \* the descriptors written are those of the block and of the buddies merged
  <1>6. ASSUME NEW q \in Page, NEW n \in k .. m, Base(p, k, n) = q
        PROVE  q = p \/ \E i \in k .. m - 1 : q \in lists[i] /\ Gathered(p, k, m, q, i)
    <2>1. PICK i \in Order : Gathered(p, k, n, q, i)
      BY <1>3, <1>6 DEF Region
    <2>2. CASE q # p
      <3>1. i \in k .. n - 1 /\ q = Buddy(Base(p, k, i), i)
        BY <2>1, <2>2 DEF Gathered
      <3>2. i \in k .. m - 1
        BY <1>1, <3>1
      <3> QED BY <1>3, <3>1, <3>2 DEF Gathered
    <2> QED BY <2>2
  <1>7. ASSUME NEW q \in Page, Writes(p, k, m, q) # {}
        PROVE  /\ q = p \/ \E i \in k .. m - 1 : q \in lists[i] /\ Gathered(p, k, m, q, i)
               /\ pages'[q].free /\ pages'[q] \in Descriptor
               /\ Base(p, k, m) = q => pages'[q].order = m
    <2> DEFINE W == Writes(p, k, m, q)
    <2>1. W \subseteq k .. m /\ \A n \in W : Base(p, k, n) = q
      BY DEF Writes
    <2>2. q = p \/ \E i \in k .. m - 1 : q \in lists[i] /\ Gathered(p, k, m, q, i)
      BY <1>6, <1>7, <2>1
    <2>3. W \in SUBSET (0 .. m)
      BY <1>1, <2>1
    <2>4. Max(W) \in W /\ \A n \in W : n <= Max(W)
      <3> HIDE DEF W
      <3> QED BY <1>1, <1>7, <2>3, MaxOf DEF W
    <2>5. pages'[q] = [free |-> TRUE, order |-> Max(W)]
      BY <1>7 DEF Freed
    <2>6. Base(p, k, m) = q => m \in W
      BY <1>1 DEF Writes
    <2> HIDE DEF W
    <2>7. Max(W) \in Order /\ Max(W) <= m /\ Max(W) \in Nat
      <3>1. Max(W) \in k .. m
        BY <2>1, <2>4
      <3> QED BY <1>1, <3>1
    <2>8. Base(p, k, m) = q => Max(W) = m
      BY <1>1, <2>4, <2>6, <2>7
    <2> QED BY <2>2, <2>5, <2>7, <2>8 DEF Descriptor
  <1>8. \A q \in Page : Writes(p, k, m, q) = {} => pages'[q] = pages[q]
    BY DEF Freed
  <1>9. Writes(p, k, m, p) # {}
    <2>1. Base(p, k, k) = p /\ k \in k .. m
      BY <1>1, <1>2, BaseFirst
    <2> QED BY <2>1 DEF Writes
  <1>10. pages' \in [Page -> Descriptor]
    <2>1. \A q \in Page : pages'[q] \in Descriptor
      BY <1>7, <1>8 DEF Shape
    <2> QED BY <2>1 DEF Freed
  <1>11. ASSUME NEW q \in Page, NEW j \in Order
         PROVE  Out(q, j)' <=> Out(q, j) /\ q # p
    <2>1. CASE q = p
      BY <2>1, <1>7, <1>9 DEF Out
    <2>2. CASE q # p /\ Writes(p, k, m, q) = {}
      BY <2>2, <1>8 DEF Out
    <2>3. CASE q # p /\ Writes(p, k, m, q) # {}
      <3>1. pages'[q].free
        BY <2>3, <1>7
      <3>2. PICK i \in k .. m - 1 : q \in lists[i]
        BY <2>3, <1>7
      <3>3. pages[q].free
        BY <3>2, <1>1 DEF Shape, Described
      <3> QED BY <3>1, <3>3 DEF Out
    <2> QED BY <2>1, <2>2, <2>3
  <1>12. ASSUME NEW q \in Page, NEW j \in Order
         PROVE  q \in lists'[j] <=> \/ q = Base(p, k, m) /\ j = m
                                    \/ q \in lists[j] /\ ~Gathered(p, k, m, q, j)
    <2>1. lists'[j] = IF j = m THEN lists[j] \cup {Base(p, k, m)}
                      ELSE IF j \in k .. m - 1 THEN lists[j] \ {Buddy(Base(p, k, j), j)}
                      ELSE lists[j]
      BY DEF Freed
    <2>2. CASE j = m
      <3>1. q \in lists[j] => ~Gathered(p, k, m, q, j)
        BY <2>2, <1>1, <1>4 DEF Gathered
      <3> QED BY <2>1, <2>2, <3>1
    <2>3. CASE j # m /\ j \in k .. m - 1
      <3>1. q \in lists[j] => (Gathered(p, k, m, q, j) <=> q = Buddy(Base(p, k, j), j))
        BY <2>3, <1>4 DEF Gathered
      <3> QED BY <2>1, <2>3, <3>1
    <2>4. CASE j # m /\ j \notin k .. m - 1
      <3>1. q \in lists[j] => ~Gathered(p, k, m, q, j)
        BY <2>4, <1>4 DEF Gathered
      <3> QED BY <2>1, <2>4, <3>1
    <2> QED BY <2>2, <2>3, <2>4
  <1>13. lists' \in [Order -> SUBSET Page]
    <2>1. ASSUME NEW j \in Order PROVE lists'[j] \subseteq Page
      <3>1. lists'[j] = IF j = m THEN lists[j] \cup {Base(p, k, m)}
                        ELSE IF j \in k .. m - 1 THEN lists[j] \ {Buddy(Base(p, k, j), j)}
                        ELSE lists[j]
        BY DEF Freed
      <3>2. lists[j] \subseteq Page /\ Base(p, k, m) \in Page
        BY <1>1, <1>5 DEF Shape
      <3> QED BY <3>1, <3>2
    <2> QED BY <2>1 DEF Freed
  <1>14. Described'
    <2> SUFFICES ASSUME NEW j \in Order, NEW q \in lists'[j]
                 PROVE  pages'[q].free /\ pages'[q].order = j
      BY DEF Described
    <2>1. q \in Page
      BY <1>13
    <2>2. CASE q = Base(p, k, m) /\ j = m
      <3>1. m \in Writes(p, k, m, q)
        BY <2>2, <1>1 DEF Writes
      <3> QED BY <2>1, <2>2, <3>1, <1>7
    <2>3. CASE q \in lists[j] /\ ~Gathered(p, k, m, q, j)
      <3>1. pages[q].free /\ pages[q].order = j
        BY <2>3 DEF Shape, Described
      <3>2. Writes(p, k, m, q) = {}
        <4> SUFFICES ASSUME Writes(p, k, m, q) # {} PROVE FALSE
          OBVIOUS
        <4>1. q # p
          BY <1>2, <3>1
        <4>2. PICK i \in k .. m - 1 : q \in lists[i] /\ Gathered(p, k, m, q, i)
          BY <2>1, <4>1, <1>7
        <4>3. i = j
          BY <4>2, <3>1, <1>1 DEF Shape, Described
        <4> QED BY <4>2, <4>3, <2>3
      <3> QED BY <2>1, <3>1, <3>2, <1>8
    <2> QED BY <2>1, <2>2, <2>3, <1>12
  <1> QED BY <1>1, <1>5, <1>10, <1>11, <1>12, <1>13, <1>14

(* A release keeps the tiling, and leaves no two buddies unmerged.         *)
LEMMA FreeShape ==
  ASSUME Shape, ready, NEW p \in Page, NEW k \in Order, Out(p, k),
         NEW m \in k .. MaxOrder, Reaches(p, k, m), Freed(p, k, m), ready' = ready
  PROVE  Shape'
  <1> DEFINE b == Base(p, k, m)
             Kept(q, j) == Head(q, j) /\ ~Gathered(p, k, m, q, j)
  <1> Page \subseteq Nat /\ Order \subseteq Nat /\ \A i \in Order : 2 ^ i \in Nat \ {0}
    BY Bounds
  <1>1. k \in Nat /\ m \in Nat /\ m \in Order /\ k <= m /\ k .. m - 1 \subseteq Order
    BY Bounds DEF Order
  <1>2. p \in Nat /\ Head(p, k) /\ Aligned(p, k) /\ ~pages[p].free
    BY DEF Shape, Inside, Head, Out
  <1>3. /\ Region(p, k, m)
        /\ \A j \in k .. m - 1 : Buddy(Base(p, k, j), j) \in lists[j]
    BY <1>1, MergeRegion DEF Reaches
  <1>4. b \in Nat /\ Aligned(b, m) /\ b + 2 ^ m <= TotalPages
    BY <1>1, <1>2, <1>3, BaseFacts DEF Region
  <1>5. /\ pages' \in [Page -> Descriptor]
        /\ lists' \in [Order -> SUBSET Page]
        /\ b \in Page
        /\ \A q \in Page, j \in Order : Out(q, j)' <=> Out(q, j) /\ q # p
        /\ \A q \in Page, j \in Order :
             q \in lists'[j] <=> \/ q = b /\ j = m
                                 \/ q \in lists[j] /\ ~Gathered(p, k, m, q, j)
        /\ Described'
    BY FreeEffect
  <1> HIDE DEF b
  <1>6. ASSUME NEW q \in Page, NEW j \in Order
        PROVE  Head(q, j)' <=> (q = b /\ j = m) \/ Kept(q, j)
    <2>1. Head(q, j)' <=> q \in lists'[j] \/ Out(q, j)'
      BY DEF Head
    <2>2. Out(q, j) /\ q # p => ~Gathered(p, k, m, q, j)
      BY <1>1, <1>3 DEF Gathered, Out, Shape, Described
    <2>3. Out(q, j) /\ q = p => Gathered(p, k, m, q, j)
      BY DEF Gathered, Out
    <2> QED BY <1>5, <2>1, <2>2, <2>3 DEF Head
  <1>7. ASSUME NEW q \in Page, NEW j \in Order, Kept(q, j)
        PROVE  q + 2 ^ j <= b \/ b + 2 ^ m <= q
    BY <1>3, <1>7 DEF Region, b
  <1>8. ASSUME NEW q \in Page, NEW j \in Order, Gathered(p, k, m, q, j)
        PROVE  b <= q /\ q + 2 ^ j <= b + 2 ^ m
    BY <1>3, <1>8 DEF Region, b
  <1>9. Inside'
    <2> SUFFICES ASSUME NEW q \in Page, NEW j \in Order, Head(q, j)'
                 PROVE  Aligned(q, j) /\ q + 2 ^ j <= TotalPages
      BY DEF Inside, Aligned
    <2>1. CASE q = b /\ j = m
      BY <2>1, <1>4
    <2>2. CASE Kept(q, j)
      BY <2>2 DEF Shape, Inside
    <2> QED BY <1>6, <2>1, <2>2
  <1>10. Apart'
    <2> SUFFICES ASSUME NEW q \in Page, NEW j \in Order, NEW r \in Page, NEW i \in Order,
                        Head(q, j)', Head(r, i)', q # r \/ j # i
                 PROVE  q + 2 ^ j <= r \/ r + 2 ^ i <= q
      BY DEF Apart
    <2>1. CASE q = b /\ j = m /\ Kept(r, i)
      BY <2>1, <1>7
    <2>2. CASE Kept(q, j) /\ r = b /\ i = m
      BY <2>2, <1>7
    <2>3. CASE Kept(q, j) /\ Kept(r, i)
      BY <2>3 DEF Shape, Apart
    <2> QED BY <1>6, <2>1, <2>2, <2>3
  <1>11. Covered'
    <2> SUFFICES ASSUME NEW x \in Page
                 PROVE  \E q \in Page, j \in Order : Head(q, j)' /\ q <= x /\ x < q + 2 ^ j
      BY DEF Covered
    <2>1. PICK q \in Page, j \in Order : Head(q, j) /\ q <= x /\ x < q + 2 ^ j
      BY DEF Shape, Covered
    <2>2. CASE Gathered(p, k, m, q, j)
      <3>1. b <= x /\ x < b + 2 ^ m
        BY <2>1, <2>2, <1>1, <1>4, <1>8
      <3>2. Head(b, m)'
        BY <1>1, <1>5, <1>6
      <3> QED BY <3>1, <3>2, <1>1, <1>5
    <2>3. CASE ~Gathered(p, k, m, q, j)
      BY <2>1, <2>3, <1>6
    <2> QED BY <2>2, <2>3
  <1>12. Merged'
    <2> SUFFICES ASSUME NEW j \in Order, j < MaxOrder, NEW q \in lists'[j],
                        Buddy(q, j) \in lists'[j]
                 PROVE  FALSE
      BY DEF Merged, Buddy
    <2>1. q \in Page /\ Buddy(q, j) \in Page
      BY <1>5
    <2>2. q \in Nat /\ Aligned(q, j) /\ j \in Nat
      <3>1. Head(q, j)'
        BY DEF Head
      <3> QED BY <3>1, <2>1, <1>9 DEF Inside, Aligned
    <2>3. Buddy(q, j) # q /\ Buddy(Buddy(q, j), j) = q
      BY <2>2, BuddyFacts
    <2>4. ASSUME j = m, Buddy(b, m) \in lists[m]
          PROVE  FALSE
      <3>1. pages[Buddy(b, m)].free /\ pages[Buddy(b, m)].order = m /\ Buddy(b, m) \in Page
        BY <2>4, <1>1 DEF Shape, Described
      <3>2. Buddy(b, m) < TotalPages
        BY <3>1, Bounds DEF Page
      <3>3. Merges(p, k, m)
        BY <3>1, <3>2 DEF Merges, b
      <3> QED BY <3>3, <2>4 DEF Reaches
    <2>5. CASE q = b /\ j = m
      <3>1. Buddy(b, m) \in lists[m]
        BY <2>1, <2>3, <2>5, <1>1, <1>5
      <3> QED BY <2>4, <2>5, <3>1
    <2>6. CASE Buddy(q, j) = b /\ j = m
      <3>1. q \in lists[m] /\ q = Buddy(b, m)
        BY <2>1, <2>3, <2>6, <1>1, <1>5
      <3> QED BY <2>4, <2>6, <3>1
    <2>7. CASE q \in lists[j] /\ Buddy(q, j) \in lists[j]
      BY <2>7 DEF Shape, Merged
    <2> QED BY <2>1, <1>5, <2>5, <2>6, <2>7
  <1> QED BY <1>5, <1>9, <1>10, <1>11, <1>12 DEF Shape, Down

------------------------------------------------------------------------------
(* Start: memory is carved.                                                *)

(* The pages in front of the last incomplete block of order k.             *)
Floor(k) == (TotalPages \div 2 ^ k) * 2 ^ k

(* Floor(k) is the last page where a block of order k may start and        *)
(* TotalPages the page after the last.                                     *)
LEMMA FloorFacts ==
  ASSUME NEW k \in Nat
  PROVE  /\ Floor(k) \in Nat
         /\ Aligned(Floor(k), k)
         /\ Floor(k) <= TotalPages
         /\ TotalPages < Floor(k) + 2 ^ k
         /\ Floor(k) \div 2 ^ k = TotalPages \div 2 ^ k
  <1> DEFINE n == 2 ^ k
             a == TotalPages \div n
  <1>1. n \in Nat \ {0} /\ TotalPages \in Nat
    BY PowPos, Bounds
  <1>2. Floor(k) = a * n
    BY DEF Floor
  <1> HIDE DEF n
  <1>3. /\ a \in Nat /\ TotalPages % n \in 0 .. n - 1
        /\ TotalPages = (n * a) + (TotalPages % n)
    BY <1>1
  <1> HIDE DEF a
  <1>4. a * n \in Nat /\ (a * n) % n = 0 /\ (a * n) \div n = a
    BY <1>1, <1>3
  <1>5. a * n <= TotalPages /\ TotalPages < a * n + n
    BY <1>1, <1>3
  <1> QED BY <1>2, <1>4, <1>5 DEF Aligned, n, a

(* What is aligned and less than a block in front of the end is Floor(k).  *)
LEMMA FloorUnique ==
  ASSUME NEW k \in Nat, NEW x \in Nat, Aligned(x, k), x <= TotalPages, TotalPages < x + 2 ^ k
  PROVE  Floor(k) = x
  <1>1. x < Floor(k) => x + 2 ^ k <= Floor(k)
    BY FloorFacts, AlignedGap
  <1>2. Floor(k) < x => Floor(k) + 2 ^ k <= x
    BY FloorFacts, AlignedGap
  <1> QED BY <1>1, <1>2, FloorFacts, PowPos, Bounds

(* The larger the blocks, the earlier the last one ends.                   *)
LEMMA FloorFalls ==
  ASSUME NEW j \in Nat, NEW i \in 0 .. j
  PROVE  Floor(j) <= Floor(i)
  <1>1. Aligned(Floor(j), i)
    BY FloorFacts, AlignedBelow
  <1>2. Floor(i) < Floor(j) => Floor(i) + 2 ^ i <= Floor(j)
    BY <1>1, FloorFacts, AlignedGap
  <1> QED BY <1>2, FloorFacts, PowPos, Bounds

(* The binary digit k of the number of pages decides whether there is a    *)
(* block of order k between the two floors.                                *)
LEMMA FloorDigit ==
  ASSUME NEW k \in Nat
  PROVE  \/ (TotalPages \div 2 ^ k) % 2 = 0 /\ Floor(k) = Floor(k + 1)
         \/ (TotalPages \div 2 ^ k) % 2 = 1 /\ Floor(k) = Floor(k + 1) + 2 ^ k
  <1> DEFINE x == Floor(k)
  <1>1. /\ x \in Nat /\ Aligned(x, k) /\ x <= TotalPages /\ TotalPages < x + 2 ^ k
        /\ x \div 2 ^ k = TotalPages \div 2 ^ k
        /\ TotalPages \in Nat
    BY FloorFacts, Bounds
  <1>2. 2 ^ k \in Nat \ {0} /\ 2 ^ (k + 1) = 2 * 2 ^ k /\ k + 1 \in Nat
    BY PowPos, PowDouble
  <1> HIDE DEF x
  <1>3. CASE (x \div 2 ^ k) % 2 = 0 /\ Aligned(x, k + 1)
    <2>1. Floor(k + 1) = x
      BY <1>1, <1>2, <1>3, FloorUnique
    <2> QED BY <1>1, <1>3, <2>1 DEF x
  <1>4. CASE /\ (x \div 2 ^ k) % 2 = 1 /\ x - 2 ^ k \in Nat
             /\ Aligned(x - 2 ^ k, k + 1)
    <2>1. x - 2 ^ k <= TotalPages /\ TotalPages < (x - 2 ^ k) + 2 ^ (k + 1)
      BY <1>1, <1>2
    <2>2. Floor(k + 1) = x - 2 ^ k
      BY <1>2, <1>4, <2>1, FloorUnique
    <2> QED BY <1>1, <1>2, <1>4, <2>2 DEF x
  <1> QED BY <1>1, <1>3, <1>4, AlignedPair

(* Where a carved block lies.                                              *)
LEMMA CarvedBlock ==
  ASSUME NEW k \in Order, NEW p \in Nat, Carved(p, k)
  PROVE  /\ Aligned(p, k) /\ p + 2 ^ k <= Floor(k)
         /\ k < MaxOrder => /\ p = Floor(k + 1) /\ Floor(k) = p + 2 ^ k
                            /\ Aligned(p, k + 1)
  <1>1. k \in Nat /\ k + 1 \in Nat /\ 2 ^ k \in Nat \ {0} /\ TotalPages \in Nat
    BY Bounds
  <1>2. CASE k = MaxOrder
    <2>1. Aligned(p, k) /\ p + 2 ^ k <= TotalPages
      BY <1>2 DEF Carved, Aligned
    <2>2. p < Floor(k)
      <3>1. Floor(k) \in Nat /\ TotalPages < Floor(k) + 2 ^ k
        BY <1>1, FloorFacts
      <3> QED BY <1>1, <2>1, <3>1
    <2>3. p + 2 ^ k <= Floor(k)
      BY <1>1, <2>1, <2>2, AlignedGap, FloorFacts
    <2> QED BY <1>1, <1>2, <2>1, <2>3
  <1>3. CASE k # MaxOrder
    <2>1. (TotalPages \div 2 ^ k) % 2 = 1 /\ p = Floor(k + 1)
      BY <1>3 DEF Carved, Floor
    <2>2. Floor(k) = p + 2 ^ k
      BY <1>1, <2>1, FloorDigit
    <2>3. Aligned(p, k + 1) /\ Aligned(p, k)
      BY <1>1, <2>1, FloorFacts, AlignedHalf
    <2> QED BY <1>1, <2>1, <2>2, <2>3
  <1> QED BY <1>2, <1>3

(* Carved blocks do not overlap.                                           *)
LEMMA CarvedApart ==
  ASSUME NEW q \in Nat, NEW j \in Order, NEW r \in Nat, NEW i \in Order,
         Carved(q, j), Carved(r, i), q # r \/ j # i
  PROVE  q + 2 ^ j <= r \/ r + 2 ^ i <= q
  <1>1. ASSUME NEW x \in Nat, NEW m \in Order, NEW y \in Nat, NEW n \in Order,
               Carved(x, m), Carved(y, n), m < n
        PROVE  y + 2 ^ n <= x
    <2>1. m \in Nat /\ n \in Nat /\ m + 1 \in 0 .. n /\ m < MaxOrder
      BY <1>1, Bounds DEF Order
    <2>2. x = Floor(m + 1) /\ y + 2 ^ n <= Floor(n)
      BY <1>1, <2>1, CarvedBlock
    <2>3. Floor(n) <= Floor(m + 1)
      BY <2>1, FloorFalls
    <2> QED BY <2>1, <2>2, <2>3, FloorFacts, PowPos
  <1>2. i \in Nat /\ j \in Nat
    BY Bounds
  <1>3. CASE j < i
    BY <1>1, <1>3
  <1>4. CASE i < j
    BY <1>1, <1>4
  <1>5. CASE i = j
    <2>1. Aligned(q, j) /\ Aligned(r, j)
      BY <1>5, CarvedBlock
    <2> QED BY <1>2, <1>5, <2>1, AlignedGap
  <1> QED BY <1>2, <1>3, <1>4, <1>5

(* Carving leaves no page out.                                             *)
LEMMA CarvedCovers ==
  ASSUME NEW x \in Page
  PROVE  \E q \in Page, k \in Order : Carved(q, k) /\ q <= x /\ x < q + 2 ^ k
  <1>1. /\ x \in Nat /\ x < TotalPages /\ TotalPages \in Nat /\ MaxOrder \in Nat
        /\ MaxOrder \in Order
    BY Bounds DEF Page, Order
  <1>2. CASE x < Floor(MaxOrder)
    <2>0. PICK z \in Nat : z = 0
      OBVIOUS
    <2> DEFINE q == Base(x, z, MaxOrder)
    <2>1. Aligned(x, z) /\ z <= MaxOrder
      BY <1>1, <2>0, PowZero DEF Aligned
    <2>2. q \in Nat /\ Aligned(q, MaxOrder) /\ q <= x /\ x + 2 ^ z <= q + 2 ^ MaxOrder
      BY <1>1, <2>1, BaseFacts
    <2> HIDE DEF q
    <2>3. x < q + 2 ^ MaxOrder
      BY <2>2, <1>1, PowPos
    <2>4. q + 2 ^ MaxOrder <= Floor(MaxOrder)
      BY <1>1, <1>2, <2>2, AlignedGap, FloorFacts
    <2>5. q + 2 ^ MaxOrder <= TotalPages /\ q \in Page
      <3>1. Floor(MaxOrder) \in Nat /\ Floor(MaxOrder) <= TotalPages
        BY <1>1, FloorFacts
      <3>2. 2 ^ MaxOrder \in Nat \ {0}
        BY <1>1, PowPos
      <3> QED BY <1>1, <2>2, <2>4, <3>1, <3>2 DEF Page
    <2>6. Carved(q, MaxOrder)
      BY <2>2, <2>5 DEF Carved, Aligned
    <2> QED BY <1>1, <2>2, <2>3, <2>5, <2>6
  <1>3. CASE Floor(MaxOrder) <= x
    <2> DEFINE S == {k \in Nat : Floor(k) <= x}
    <2>1. PICK m \in S : \A k \in S : m <= k
      <3> S \in SUBSET Nat /\ MaxOrder \in S
        BY <1>1, <1>3
      <3> HIDE DEF S
      <3> QED BY LeastNat
    <2>2. m # 0
      <3>0. PICK z \in Nat : z = 0
        OBVIOUS
      <3>1. Aligned(TotalPages, z)
        BY <1>1, <3>0, PowZero DEF Aligned
      <3>2. TotalPages < TotalPages + 2 ^ z
        BY <1>1, PowPos
      <3>3. Floor(z) = TotalPages
        BY <1>1, <3>1, <3>2, FloorUnique
      <3> QED BY <2>1, <3>0, <3>3, <1>1
    <2>3. m <= MaxOrder
      BY <1>1, <1>3, <2>1
    <2>4. PICK k \in Nat : m = k + 1
      BY <2>1, <2>2
    <2>5. x < Floor(k)
      <3>1. k \notin S
        BY <2>1, <2>4
      <3> QED BY <3>1, <1>1, FloorFacts
    <2>6. Floor(k + 1) <= x
      BY <2>1, <2>4
    <2>7. (TotalPages \div 2 ^ k) % 2 = 1 /\ Floor(k) = Floor(k + 1) + 2 ^ k
      BY <2>5, <2>6, <1>1, FloorDigit, FloorFacts
    <2>8. k \in Order /\ k # MaxOrder /\ Floor(k + 1) \in Page
      BY <1>1, <2>3, <2>4, <2>6, FloorFacts DEF Order, Page
    <2>9. Carved(Floor(k + 1), k)
      BY <2>7, <2>8 DEF Carved, Floor
    <2> QED BY <2>5, <2>6, <2>7, <2>8, <2>9
  <1> QED BY <1>1, <1>2, <1>3, FloorFacts

(* baios_mm_init establishes the tiling, also when the number of pages is  *)
(* not a multiple of the largest block.                                    *)
LEMMA MmInitShape ==
  ASSUME MmInit
  PROVE  Shape'
  <1> Page \subseteq Nat /\ Order \subseteq Nat /\ \A i \in Order : 2 ^ i \in Nat \ {0}
    BY Bounds
  <1>1. /\ ready' = TRUE
        /\ pages' = [p \in Page |-> [free |-> TRUE,
                         order |-> IF \E k \in Order : Carved(p, k)
                                     THEN CHOOSE k \in Order : Carved(p, k)
                                     ELSE 0]]
        /\ lists' = [k \in Order |-> {p \in Page : Carved(p, k)}]
    BY DEF MmInit
  <1>2. \A p \in Page : /\ pages'[p].free
                        /\ pages'[p] \in Descriptor
                        /\ \A k \in Order : Carved(p, k) => pages'[p].order = k
    <2> TAKE p \in Page
    <2>1. 0 \in Order
      BY Bounds DEF Order
    <2>2. ASSUME NEW k \in Order, Carved(p, k)
          PROVE  (CHOOSE i \in Order : Carved(p, i)) = k
      <3>1. \A i \in Order : Carved(p, i) => i = k
        BY <2>2, CarvedApart
      <3> QED BY <2>2, <3>1
    <2>3. CASE \E k \in Order : Carved(p, k)
      <3>1. PICK k \in Order : Carved(p, k)
        BY <2>3
      <3>2. pages'[p] = [free |-> TRUE, order |-> k]
        BY <1>1, <2>2, <3>1
      <3>3. \A i \in Order : Carved(p, i) => i = k
        BY <3>1, CarvedApart
      <3>4. pages'[p].free /\ pages'[p].order = k
        BY <3>2
      <3>5. pages'[p] \in Descriptor
        BY <3>1, <3>2 DEF Descriptor
      <3> QED BY <3>3, <3>4, <3>5
    <2>4. CASE ~\E k \in Order : Carved(p, k)
      BY <1>1, <2>1, <2>4 DEF Descriptor
    <2> QED BY <2>3, <2>4
  <1>3. pages' \in [Page -> Descriptor] /\ lists' \in [Order -> SUBSET Page]
    BY <1>1, <1>2
  <1>4. \A q \in Page, j \in Order : Head(q, j)' <=> Carved(q, j)
    BY <1>1, <1>2 DEF Head, Out
  <1>5. Inside'
    <2> SUFFICES ASSUME NEW q \in Page, NEW j \in Order, Carved(q, j)
                 PROVE  Aligned(q, j) /\ q + 2 ^ j <= TotalPages
      BY <1>4 DEF Inside, Aligned
    <2> QED BY CarvedBlock, FloorFacts, Bounds
  <1>6. Apart'
    BY <1>4, CarvedApart DEF Apart
  <1>7. Covered'
    BY <1>4, CarvedCovers DEF Covered
  <1>8. Described'
    BY <1>1, <1>2 DEF Described
  <1>9. Merged'
    <2> SUFFICES ASSUME NEW j \in Order, j < MaxOrder, NEW q \in Page, Carved(q, j),
                        Carved(Buddy(q, j), j), Buddy(q, j) \in Page
                 PROVE  FALSE
      BY <1>1 DEF Merged, Buddy
    <2>1. q = Floor(j + 1) /\ Buddy(q, j) = Floor(j + 1)
      BY CarvedBlock
    <2>2. Aligned(q, j) /\ q \in Nat
      BY CarvedBlock
    <2> QED BY <2>1, <2>2, BuddyFacts
  <1> QED BY <1>1, <1>3, <1>5, <1>6, <1>7, <1>8, <1>9 DEF Shape, Down

------------------------------------------------------------------------------
(* The statistics: how many pages the blocks have.                         *)

(* Sets of pages are finite.                                               *)
LEMMA PageSets ==
  ASSUME NEW S \in SUBSET Page
  PROVE  IsFiniteSet(S) /\ Cardinality(S) \in 0 .. TotalPages
  <1>1. IsFiniteSet(Page) /\ Cardinality(Page) = TotalPages
    BY FS_Interval, Bounds DEF Page
  <1>2. IsFiniteSet(S) /\ Cardinality(S) <= TotalPages
    BY <1>1, FS_Subset
  <1> QED BY <1>2, FS_CardinalityType, Bounds

(* A run of n pages next to a set of pages.                                *)
LEMMA RunAdded ==
  ASSUME NEW A \in SUBSET Page, NEW B \in SUBSET Page, NEW p \in Page, NEW n \in Nat \ {0},
         \A x \in Page : x \in B <=> x \in A \/ (p <= x /\ x < p + n),
         \A x \in A : x < p \/ p + n <= x,
         p + n <= TotalPages
  PROVE  Cardinality(B) = Cardinality(A) + n
  <1> DEFINE R == p .. p + n - 1
  <1>1. p \in Nat /\ Page \subseteq Nat /\ TotalPages \in Nat
    BY Bounds
  <1>2. IsFiniteSet(R) /\ Cardinality(R) = n
    BY <1>1, FS_Interval
  <1>3. R \subseteq Page
    BY <1>1 DEF Page
  <1>4. B = A \cup R /\ A \cap R = {}
    <2>1. \A x \in Page : x \in R <=> p <= x /\ x < p + n
      BY <1>1
    <2> HIDE DEF R
    <2>2. \A x \in Page : x \in B <=> x \in A \/ x \in R
      BY <2>1
    <2>3. \A x \in A : x \notin R
      BY <2>1, <1>1
    <2> QED BY <1>3, <2>2, <2>3
  <1> HIDE DEF R
  <1>5. Cardinality(A \cup R) = Cardinality(A) + Cardinality(R) - Cardinality(A \cap R)
    BY <1>2, PageSets, FS_Union
  <1>6. Cardinality(A) \in Nat
    BY PageSets
  <1>7. Cardinality(A \cap R) = 0 /\ Cardinality(B) = Cardinality(A \cup R)
    BY <1>4, FS_EmptySet
  <1> QED BY <1>2, <1>5, <1>6, <1>7

(* An allocation keeps the statistics.                                     *)
LEMMA AllocCounted ==
  ASSUME Shape, Counted, ready, NEW k \in Order, NEW o \in Order, Search(k, o),
         NEW p \in lists[o], Take(p, k, o), CountTaken(k), ready' = ready
  PROVE  Counted'
  <1>1. p \in Page /\ Head(p, o) /\ p + 2 ^ o <= TotalPages /\ Aligned(p, o)
    BY DEF Shape, Inside, Head
  <1>2. p \in Nat /\ k \in Nat /\ o \in Nat /\ k \in 0 .. o /\ TotalPages \in Nat
    BY <1>1, Bounds DEF Search
  <1>3. p + 2 ^ k <= p + 2 ^ o /\ 2 ^ k \in Nat \ {0}
    BY <1>1, <1>2, SplitFacts, PowPos
  <1>4. \A j \in Order : ~Out(p, j)
    BY <1>1 DEF Shape, Described, Out
  <1>5. \A q \in Page, j \in Order : Out(q, j)' <=> Out(q, j) \/ (q = p /\ j = k)
    BY AllocEffect
  <1>6. ASSUME NEW x \in OutPages
        PROVE  x < p \/ p + 2 ^ k <= x
    <2>1. PICK q \in Page, j \in Order : Out(q, j) /\ q <= x /\ x < q + 2 ^ j
      BY DEF OutPages
    <2>2. q + 2 ^ j <= p \/ p + 2 ^ o <= q
      BY <2>1, <1>1, <1>4 DEF Shape, Apart, Head
    <2>3. x \in Nat /\ q \in Nat /\ 2 ^ j \in Nat
      BY Bounds DEF OutPages
    <2>4. 2 ^ o \in Nat
      BY Bounds
    <2> QED BY <2>1, <2>2, <2>3, <2>4, <1>2, <1>3
  <1>7. \A x \in Page : x \in OutPages' <=> x \in OutPages \/ (p <= x /\ x < p + 2 ^ k)
    BY <1>1, <1>5 DEF OutPages
  <1>8. OutPages \in SUBSET Page /\ OutPages' \in SUBSET Page
    BY DEF OutPages
  <1>9. Cardinality(OutPages') = Cardinality(OutPages) + 2 ^ k
    <2>1. p + 2 ^ k <= TotalPages
      BY <1>1, <1>2, <1>3, PowPos
    <2> QED BY <2>1, <1>1, <1>3, <1>6, <1>7, <1>8, RunAdded
  <1>10. Cardinality(OutPages) \in 0 .. TotalPages /\ Cardinality(OutPages') \in 0 .. TotalPages
    BY <1>8, PageSets
  <1>11. kernelPages' = Cardinality(OutPages')
    BY <1>9 DEF Counted, CountTaken
  <1>12. freePages' = TotalPages - kernelPages'
    BY <1>2, <1>3, <1>9, <1>10 DEF Counted, CountTaken
  <1>13. kernelPages' <= peak' /\ peak' \in 0 .. TotalPages
    BY <1>2, <1>10, <1>11, <1>12 DEF Counted, CountTaken
  <1> QED BY <1>11, <1>12, <1>13 DEF Counted

(* A release keeps the statistics.                                         *)
LEMMA FreeCounted ==
  ASSUME Shape, Counted, ready, NEW p \in Page, NEW k \in Order, Out(p, k),
         NEW m \in k .. MaxOrder, Reaches(p, k, m), Freed(p, k, m), ready' = ready,
         freePages' = freePages + 2 ^ k, kernelPages' = kernelPages - 2 ^ k, peak' = peak
  PROVE  Counted'
  <1>1. p \in Nat /\ 2 ^ k \in Nat \ {0} /\ TotalPages \in Nat /\ p + 2 ^ k <= TotalPages
    BY Bounds DEF Shape, Inside, Head
  <1>2. \A q \in Page, j \in Order : Out(q, j)' <=> Out(q, j) /\ q # p
    BY FreeEffect
  <1>3. ASSUME NEW x \in OutPages'
        PROVE  x < p \/ p + 2 ^ k <= x
    <2>1. PICK q \in Page, j \in Order : Out(q, j)' /\ q <= x /\ x < q + 2 ^ j
      BY DEF OutPages
    <2>2. q + 2 ^ j <= p \/ p + 2 ^ k <= q
      BY <2>1, <1>2 DEF Shape, Apart, Head
    <2>3. x \in Nat /\ q \in Nat /\ 2 ^ j \in Nat
      BY Bounds DEF OutPages
    <2> QED BY <2>1, <2>2, <2>3, <1>1
  <1>4. \A j \in Order : Out(p, j) => j = k
    BY DEF Out
  <1>5. \A x \in Page : x \in OutPages <=> x \in OutPages' \/ (p <= x /\ x < p + 2 ^ k)
    BY <1>2, <1>4 DEF OutPages
  <1>6. OutPages \in SUBSET Page /\ OutPages' \in SUBSET Page
    BY DEF OutPages
  <1>7. Cardinality(OutPages) = Cardinality(OutPages') + 2 ^ k
    BY <1>1, <1>3, <1>5, <1>6, RunAdded
  <1>8. Cardinality(OutPages) \in 0 .. TotalPages /\ Cardinality(OutPages') \in 0 .. TotalPages
    BY <1>6, PageSets
  <1> QED BY <1>1, <1>7, <1>8 DEF Counted

(* An allocation keeps the lengths of the lists.                           *)
LEMMA AllocLengths ==
  ASSUME Shape, Lengths, ready, NEW k \in Order, NEW o \in Order, Search(k, o),
         NEW p \in lists[o], Take(p, k, o)
  PROVE  Lengths'
  <1> DEFINE split == SplitOff(p, k, o)
  <1>1. DOMAIN split = k .. o - 1
    BY DEF SplitOff
  <1>2. listed' = [j \in Order |->
                       IF j = o THEN listed[j] - 1
                       ELSE IF j \in k .. o - 1 THEN listed[j] + 1
                       ELSE listed[j]]
    BY <1>1 DEF Take
  <1>3. /\ \A j \in Order : lists'[j] = IF j = o THEN lists[o] \ {p}
                                        ELSE IF j \in k .. o - 1 THEN {p + 2 ^ j}
                                        ELSE lists[j]
        /\ \A j \in k .. o - 1 : lists[j] = {}
    BY AllocEffect
  <1>4. ASSUME NEW j \in Order
        PROVE  listed'[j] = Cardinality(lists'[j])
    <2>1. IsFiniteSet(lists[j]) /\ listed[j] = Cardinality(lists[j])
      BY PageSets DEF Shape, Lengths
    <2>2. CASE j = o
      <3>1. Cardinality(lists[o] \ {p}) = Cardinality(lists[o]) - 1
        BY <2>1, <2>2, FS_RemoveElement
      <3> QED BY <2>1, <2>2, <3>1, <1>2, <1>3
    <2>3. CASE j # o /\ j \in k .. o - 1
      <3>1. lists[j] = {} /\ lists'[j] = {p + 2 ^ j} /\ listed'[j] = listed[j] + 1
        BY <2>3, <1>2, <1>3
      <3>2. Cardinality(lists[j]) = 0 /\ Cardinality(lists'[j]) = 1
        BY <3>1, FS_EmptySet, FS_Singleton
      <3>3. listed[j] = 0
        BY <2>1, <3>2
      <3> QED BY <3>1, <3>2, <3>3
    <2>4. CASE j # o /\ j \notin k .. o - 1
      BY <2>1, <2>4, <1>2, <1>3
    <2> QED BY <2>2, <2>3, <2>4
  <1> QED BY <1>2, <1>4 DEF Lengths

(* A release keeps the lengths of the lists.                               *)
LEMMA FreeLengths ==
  ASSUME Shape, Lengths, ready, NEW p \in Page, NEW k \in Order, Out(p, k),
         NEW m \in k .. MaxOrder, Reaches(p, k, m), Freed(p, k, m),
         listed' = [j \in Order |->
                        IF j = m THEN listed[j] + 1
                        ELSE IF j \in k .. m - 1 THEN listed[j] - 1
                        ELSE listed[j]]
  PROVE  Lengths'
  <1>1. k \in Nat /\ m \in Nat /\ m \in Order /\ k <= m /\ k .. m - 1 \subseteq Order
    BY Bounds DEF Order
  <1>2. \A j \in k .. m - 1 : Buddy(Base(p, k, j), j) \in lists[j]
    BY MergeRegion DEF Reaches
  <1>3. Base(p, k, m) \notin lists[m]
    <2>1. Region(p, k, m) /\ p \in Nat /\ Aligned(p, k) /\ Head(p, k)
      BY <1>1, MergeRegion, Bounds DEF Reaches, Shape, Inside, Head
    <2>2. Base(p, k, m) \in Nat
      BY <1>1, <2>1, BaseFacts
    <2>3. 2 ^ m \in Nat \ {0}
      BY <1>1, PowPos
    <2> SUFFICES ASSUME Base(p, k, m) \in lists[m] PROVE FALSE
      OBVIOUS
    <2>4. Base(p, k, m) \in Page /\ Head(Base(p, k, m), m)
      BY <1>1 DEF Shape, Head
    <2>5. ~Gathered(p, k, m, Base(p, k, m), m)
      <3>1. p \notin lists[m]
        BY <1>1 DEF Shape, Described, Out
      <3> QED BY <1>1, <3>1 DEF Gathered
    <2> QED BY <1>1, <2>1, <2>2, <2>3, <2>4, <2>5 DEF Region
  <1>4. lists' = [j \in Order |->
                 IF j = m THEN lists[j] \cup {Base(p, k, m)}
                 ELSE IF j \in k .. m - 1
                   THEN lists[j] \ {Buddy(Base(p, k, j), j)}
                 ELSE lists[j]]
    BY DEF Freed
  <1>5. ASSUME NEW j \in Order
        PROVE  listed'[j] = Cardinality(lists'[j])
    <2>1. IsFiniteSet(lists[j]) /\ listed[j] = Cardinality(lists[j])
      BY PageSets DEF Shape, Lengths
    <2>2. CASE j = m
      <3>1. Cardinality(lists[j] \cup {Base(p, k, m)}) = Cardinality(lists[j]) + 1
        BY <2>1, <2>2, <1>3, FS_AddElement
      <3> QED BY <2>1, <2>2, <3>1, <1>4
    <2>3. CASE j # m /\ j \in k .. m - 1
      <3>1. Cardinality(lists[j] \ {Buddy(Base(p, k, j), j)}) = Cardinality(lists[j]) - 1
        BY <2>1, <2>3, <1>2, FS_RemoveElement
      <3> QED BY <2>1, <2>3, <3>1, <1>4
    <2>4. CASE j # m /\ j \notin k .. m - 1
      BY <2>1, <2>4, <1>4
    <2> QED BY <2>2, <2>3, <2>4
  <1> QED BY <1>5 DEF Lengths

------------------------------------------------------------------------------
(* The inductive invariant, and what follows from it.                      *)

(* The inductive invariant.                                                *)
IInv == Shape /\ Lengths /\ Counted /\ refused \in Order \cup {None}

(* It holds at the start ...                                               *)
LEMMA InitInv == Init => IInv
  <1> SUFFICES ASSUME Init PROVE IInv
    OBVIOUS
  <1>1. 0 \in Order /\ TotalPages \in Nat /\ Page \subseteq Nat
    BY Bounds DEF Order
  <1>2. /\ ready = FALSE
        /\ pages \in [Page -> Descriptor] /\ \A p \in Page : pages[p].free
        /\ lists \in [Order -> SUBSET Page] /\ \A k \in Order : lists[k] = {}
        /\ listed = [k \in Order |-> 0]
    BY <1>1 DEF Init, Blank, NoLists, NoneListed, Descriptor
  <1>3. \A p \in Page, k \in Order : ~Out(p, k) /\ ~Head(p, k)
    BY <1>2 DEF Out, Head
  <1>4. Shape
    BY <1>2, <1>3 DEF Shape, Inside, Apart, Covered, Described, Merged, Down
  <1>5. Lengths
    BY <1>2, FS_EmptySet DEF Lengths
  <1>6. OutPages = {}
    BY <1>3 DEF OutPages
  <1>7. Counted
    BY <1>1, <1>6, FS_EmptySet DEF Counted, Init
  <1> QED BY <1>4, <1>5, <1>7 DEF IInv, Init

(* ... after a shutdown, whatever is still out ...                         *)
LEMMA ShutdownInv == MmShutdown => IInv'
  <1> SUFFICES ASSUME MmShutdown PROVE IInv'
    OBVIOUS
  <1>1. 0 \in Order /\ TotalPages \in Nat /\ Page \subseteq Nat
    BY Bounds DEF Order
  <1>2. /\ ready' = FALSE
        /\ pages' \in [Page -> Descriptor] /\ \A p \in Page : pages'[p].free
        /\ lists' \in [Order -> SUBSET Page] /\ \A k \in Order : lists'[k] = {}
        /\ listed' = [k \in Order |-> 0]
    BY <1>1 DEF MmShutdown, Blank, NoLists, NoneListed, Descriptor
  <1>3. \A p \in Page, k \in Order : ~Out(p, k)' /\ ~Head(p, k)'
    BY <1>2 DEF Out, Head
  <1>4. Shape'
    BY <1>2, <1>3 DEF Shape, Inside, Apart, Covered, Described, Merged, Down
  <1>5. Lengths'
    BY <1>2, FS_EmptySet DEF Lengths
  <1>6. OutPages' = {}
    BY <1>3 DEF OutPages
  <1>7. Counted'
    BY <1>1, <1>6, FS_EmptySet DEF Counted, MmShutdown
  <1> QED BY <1>4, <1>5, <1>7 DEF IInv, MmShutdown

(* ... after memory has been carved ...                                    *)
LEMMA MmInitInv == MmInit => IInv'
  <1> SUFFICES ASSUME MmInit PROVE IInv'
    OBVIOUS
  <1>1. Shape'
    BY MmInitShape
  <1>2. Lengths'
    BY DEF MmInit, Lengths
  <1>3. \A p \in Page : pages'[p].free
    BY DEF MmInit
  <1>4. OutPages' = {}
    BY <1>3 DEF OutPages, Out
  <1>5. Counted'
    BY <1>4, FS_EmptySet, Bounds DEF Counted, MmInit
  <1> QED BY <1>1, <1>2, <1>5 DEF IInv, MmInit

(* ... after an allocation ...                                             *)
LEMMA AllocInv == ASSUME IInv, NEW k \in Order, Alloc(k) PROVE IInv'
  <1>0. PICK o \in Order : Search(k, o) /\ \E p \in lists[o] : Take(p, k, o)
    BY DEF Alloc
  <1>1. PICK p \in lists[o] : Take(p, k, o)
    BY <1>0
  <1>2. Shape /\ Lengths /\ Counted /\ ready /\ ready' = ready /\ CountTaken(k) /\ refused' = None
    BY DEF IInv, Alloc
  <1>3. Shape' /\ Lengths' /\ Counted'
    BY <1>0, <1>1, <1>2, AllocShape, AllocLengths, AllocCounted
  <1> QED BY <1>2, <1>3 DEF IInv

(* ... after a release ...                                                 *)
LEMMA FreeInv == ASSUME IInv, NEW p \in Page, Free(p, pages[p].order) PROVE IInv'
  <1> DEFINE k == pages[p].order
  <1>1. k \in Order /\ Out(p, k) /\ ready
    BY DEF Free, Out, IInv, Shape, Descriptor
  <1> HIDE DEF k
  <1>2. PICK m \in k .. MaxOrder :
           /\ Reaches(p, k, m)
           /\ Freed(p, k, m)
           /\ listed' = [j \in Order |->
                        IF j = m THEN listed[j] + 1
                        ELSE IF j \in k .. m - 1 THEN listed[j] - 1
                        ELSE listed[j]]
    BY DEF Free, Freed, k
  <1>3. /\ Shape /\ Lengths /\ Counted /\ ready' = ready /\ refused' = None
        /\ freePages' = freePages + 2 ^ k /\ kernelPages' = kernelPages - 2 ^ k /\ peak' = peak
    BY DEF IInv, Free, k
  <1>4. Shape' /\ Lengths' /\ Counted'
    BY <1>1, <1>2, <1>3, FreeShape, FreeLengths, FreeCounted
  <1> QED BY <1>3, <1>4 DEF IInv

(* ... and when nothing has changed.                                       *)
LEMMA SameInv ==
  ASSUME IInv, UNCHANGED <<ready, pages, lists, listed, stats>>, refused' \in Order \cup {None}
  PROVE  IInv'
  BY DEF IInv, Shape, Inside, Apart, Covered, Described, Merged, Down, Lengths, Counted,
         OutPages, Out, Head, Aligned, Buddy, stats

(* So every step keeps it.                                                 *)
LEMMA NextInv == IInv /\ [Next]_vars => IInv'
  <1> SUFFICES ASSUME IInv, [Next]_vars PROVE IInv'
    OBVIOUS
  <1>1. CASE MmInit
    BY <1>1, MmInitInv
  <1>2. CASE MmShutdown
    BY <1>2, ShutdownInv
  <1>3. ASSUME NEW k \in Order, Alloc(k) PROVE IInv'
    BY <1>3, AllocInv
  <1>4. ASSUME NEW k \in Order, AllocFails(k) PROVE IInv'
    BY <1>4, SameInv DEF AllocFails
  <1>5. ASSUME NEW p \in Page, Free(p, pages[p].order) PROVE IInv'
    BY <1>5, FreeInv
  <1>6. ASSUME NEW p \in Page, FreeIgnored(p) PROVE IInv'
    BY <1>6, SameInv DEF FreeIgnored, vars, stats, IInv
  <1>7. CASE UNCHANGED vars
    BY <1>7, SameInv DEF vars, stats, IInv
  <1> QED BY <1>1, <1>2, <1>3, <1>4, <1>5, <1>6, <1>7 DEF Next

(* The inductive invariant holds of every reachable state                  *)
(* (phys_memory.c:32-229).                                                 *)
THEOREM Invariance == Spec => []IInv
  BY InitInv, NextInv, PTL DEF Spec

(* The invariant implies the types; among them that the unsigned counters  *)
(* never pass zero or the number of pages.                                 *)
LEMMA InvTypeOK == IInv => TypeOK
  <1> SUFFICES ASSUME IInv PROVE TypeOK
    OBVIOUS
  <1>1. listed \in [Order -> 0 .. TotalPages]
    <2>1. \A k \in Order : Cardinality(lists[k]) \in 0 .. TotalPages
      BY PageSets DEF IInv, Shape
    <2> QED BY <2>1 DEF IInv, Lengths
  <1>2. OutPages \in SUBSET Page /\ TotalPages \in Nat
    BY Bounds DEF OutPages
  <1>3. kernelPages \in 0 .. TotalPages
    BY <1>2, PageSets DEF IInv, Counted
  <1>4. freePages \in 0 .. TotalPages /\ peak \in 0 .. TotalPages
    BY <1>2, <1>3 DEF IInv, Counted
  <1> QED BY <1>1, <1>3, <1>4 DEF IInv, Shape, TypeOK

(* The free counts, the page statistics and the peak stay between zero and *)
(* the number of pages: none of the unsigned subtractions of phys_memory.c *)
(* wraps.                                                                  *)
THEOREM TypeCorrect == Spec => []TypeOK
  BY Invariance, InvTypeOK, PTL

(* The sets of records of PhysMemory, in terms of Out and the lists.       *)
LEMMA BlocksOf ==
  ASSUME Shape
  PROVE  /\ \A b : b \in Owned <=> \E q \in Page, j \in Order :
                                     b = [pfn |-> q, order |-> j] /\ Out(q, j)
         /\ \A b : b \in Listed <=> \E q \in Page, j \in Order :
                                     b = [pfn |-> q, order |-> j] /\ q \in lists[j]
         /\ \A q \in Page, j \in Order, x \in Page :
              x \in Run([pfn |-> q, order |-> j]) <=> q <= x /\ x < q + 2 ^ j
  <1>1. ASSUME NEW b
        PROVE  b \in Owned <=> \E q \in Page, j \in Order :
                                     b = [pfn |-> q, order |-> j] /\ Out(q, j)
    BY DEF Owned, Out, Shape, Descriptor
  <1>2. ASSUME NEW b
        PROVE  b \in Listed <=> \E q \in Page, j \in Order :
                                     b = [pfn |-> q, order |-> j] /\ q \in lists[j]
    BY DEF Listed, Shape
  <1>3. \A q \in Page, j \in Order, x \in Page :
              x \in Run([pfn |-> q, order |-> j]) <=> q <= x /\ x < q + 2 ^ j
    BY Bounds DEF Run
  <1> QED BY <1>1, <1>2, <1>3

(* Apart and Covered are what BlocksTile counts.                           *)
LEMMA InvTile == IInv => BlocksTile
  <1> SUFFICES ASSUME IInv, ready, NEW x \in Page
               PROVE  Cardinality({b \in Owned \cup Listed : x \in Run(b)}) = 1
    BY DEF BlocksTile
  <1> Shape
    BY DEF IInv
  <1>1. PICK p \in Page, k \in Order : Head(p, k) /\ p <= x /\ x < p + 2 ^ k
    BY DEF Shape, Covered
  <1>2. ASSUME NEW b
        PROVE  b \in Owned \cup Listed /\ x \in Run(b) <=> b = [pfn |-> p, order |-> k]
    <2>1. ASSUME b \in Owned \cup Listed, x \in Run(b)
          PROVE  b = [pfn |-> p, order |-> k]
      <3>1. PICK q \in Page, j \in Order : b = [pfn |-> q, order |-> j] /\ Head(q, j)
        BY <2>1, BlocksOf DEF Head
      <3>2. q <= x /\ x < q + 2 ^ j
        BY <2>1, <3>1, BlocksOf
      <3>3. q = p /\ j = k
        BY <1>1, <3>1, <3>2, Bounds DEF Shape, Apart
      <3> QED BY <3>1, <3>3
    <2>2. ASSUME b = [pfn |-> p, order |-> k]
          PROVE  b \in Owned \cup Listed /\ x \in Run(b)
      BY <2>2, <1>1, BlocksOf DEF Head
    <2> QED BY <2>1, <2>2
  <1>3. {b \in Owned \cup Listed : x \in Run(b)} = {[pfn |-> p, order |-> k]}
    BY <1>2
  <1> QED BY <1>3, FS_Singleton

(* Every page is in exactly one block, on a free list or handed out, after *)
(* any history of splits and merges (phys_memory.c:142-229): for every     *)
(* memory size and every largest order.                                    *)
THEOREM Tiled == Spec => []BlocksTile
  BY Invariance, InvTile, PTL

(* Described, Lengths and Merged are ListsSound.                           *)
LEMMA InvLists == IInv => ListsSound
  <1> SUFFICES ASSUME IInv PROVE ListsSound
    OBVIOUS
  <1> Shape
    BY DEF IInv
  <1>1. \A k \in Order : listed[k] = Cardinality(lists[k])
    BY DEF IInv, Lengths
  <1>2. ASSUME NEW b \in Listed
        PROVE  /\ pages[b.pfn] = [free |-> TRUE, order |-> b.order]
               /\ b.order < MaxOrder => Buddy(b.pfn, b.order) \notin lists[b.order]
    <2>1. PICK q \in Page, j \in Order : b = [pfn |-> q, order |-> j] /\ q \in lists[j]
      BY BlocksOf
    <2>2. b.pfn = q /\ b.order = j
      BY <2>1
    <2>3. pages[q] \in Descriptor /\ pages[q].free /\ pages[q].order = j
      BY <2>1 DEF Shape, Described
    <2>4. pages[q] = [free |-> TRUE, order |-> j]
      BY <2>3 DEF Descriptor
    <2>5. j < MaxOrder => Buddy(q, j) \notin lists[j]
      BY <2>1 DEF Shape, Merged
    <2> QED BY <2>2, <2>4, <2>5
  <1> QED BY <1>1, <1>2 DEF ListsSound, ListsDescribed, Coalesced

(* The free lists hold what the descriptors and g_free_count say, and no   *)
(* two free buddies are left side by side (phys_memory.c:195-229).         *)
THEOREM ListsAreSound == Spec => []ListsSound
  BY Invariance, InvLists, PTL

(* Listed pages are all that are not out.                                  *)
LEMMA InvStats == IInv => StatsExact
  <1> SUFFICES ASSUME IInv PROVE StatsExact
    OBVIOUS
  <1> Shape
    BY DEF IInv
  <1>1. PagesOf(Owned) = OutPages
    <2>1. ASSUME NEW x \in Page
          PROVE  (\E b \in Owned : x \in Run(b)) <=>
                 \E p \in Page, k \in Order : Out(p, k) /\ p <= x /\ x < p + 2 ^ k
      <3>1. ASSUME NEW b \in Owned, x \in Run(b)
            PROVE  \E p \in Page, k \in Order : Out(p, k) /\ p <= x /\ x < p + 2 ^ k
        <4>1. PICK p \in Page, k \in Order : b = [pfn |-> p, order |-> k] /\ Out(p, k)
          BY BlocksOf
        <4> QED BY <3>1, <4>1, BlocksOf
      <3>2. ASSUME NEW p \in Page, NEW k \in Order, Out(p, k), p <= x, x < p + 2 ^ k
            PROVE  \E b \in Owned : x \in Run(b)
        <4>1. [pfn |-> p, order |-> k] \in Owned /\ x \in Run([pfn |-> p, order |-> k])
          BY <3>2, BlocksOf
        <4> QED BY <4>1
      <3> QED BY <3>1, <3>2
    <2> QED BY <2>1 DEF PagesOf, OutPages
  <1>2. \A x \in Page : x \in PagesOf(Listed) <=>
           \E p \in Page, k \in Order : p \in lists[k] /\ p <= x /\ x < p + 2 ^ k
    <2> TAKE x \in Page
    <2>1. ASSUME NEW b \in Listed, x \in Run(b)
          PROVE  \E p \in Page, k \in Order : p \in lists[k] /\ p <= x /\ x < p + 2 ^ k
      <3>1. PICK p \in Page, k \in Order : b = [pfn |-> p, order |-> k] /\ p \in lists[k]
        BY BlocksOf
      <3> QED BY <2>1, <3>1, BlocksOf
    <2>2. ASSUME NEW p \in Page, NEW k \in Order, p \in lists[k], p <= x, x < p + 2 ^ k
          PROVE  \E b \in Listed : x \in Run(b)
      <3>1. [pfn |-> p, order |-> k] \in Listed /\ x \in Run([pfn |-> p, order |-> k])
        BY <2>2, BlocksOf
      <3> QED BY <3>1
    <2> QED BY <2>1, <2>2 DEF PagesOf
  <1>3. CASE ready
    <2>1. ASSUME NEW x \in Page
          PROVE  x \in PagesOf(Listed) <=> x \notin OutPages
      <3>1. x \in PagesOf(Listed) \/ x \in OutPages
        <4>1. PICK p \in Page, k \in Order : Head(p, k) /\ p <= x /\ x < p + 2 ^ k
          BY <1>3 DEF Shape, Covered
        <4> QED BY <4>1, <1>2 DEF Head, OutPages
      <3>2. ASSUME x \in PagesOf(Listed), x \in OutPages PROVE FALSE
        <4>1. PICK p \in Page, k \in Order : p \in lists[k] /\ p <= x /\ x < p + 2 ^ k
          BY <3>2, <1>2
        <4>2. PICK q \in Page, j \in Order : Out(q, j) /\ q <= x /\ x < q + 2 ^ j
          BY <3>2 DEF OutPages
        <4>3. q = p /\ j = k
          BY <4>1, <4>2, Bounds DEF Shape, Apart, Head
        <4> QED BY <4>1, <4>2, <4>3 DEF Shape, Described, Out
      <3> QED BY <3>1, <3>2
    <2>2. PagesOf(Listed) = Page \ OutPages /\ OutPages = Page \cap OutPages
      BY <2>1 DEF PagesOf, OutPages
    <2>3. IsFiniteSet(Page) /\ Cardinality(Page) = TotalPages
      BY FS_Interval, Bounds DEF Page
    <2>4. Cardinality(Page \ OutPages) = Cardinality(Page) - Cardinality(Page \cap OutPages)
      BY <2>3, FS_Difference
    <2>5. Cardinality(PagesOf(Listed)) = TotalPages - Cardinality(OutPages)
      BY <2>2, <2>3, <2>4
    <2> QED BY <1>1, <1>3, <2>5 DEF IInv, Counted, StatsExact
  <1>4. CASE ~ready
    <2>1. PagesOf(Listed) = {}
      BY <1>2, <1>4 DEF Shape, Down, PagesOf
    <2> QED BY <1>1, <1>4, <2>1, FS_EmptySet DEF IInv, Counted, StatsExact
  <1> QED BY <1>3, <1>4

(* The statistics are the numbers of pages that are listed and that are    *)
(* out, and the peak is never below what is out (phys_memory.c:142-229).   *)
THEOREM Statistics == Spec => []StatsExact
  BY Invariance, InvStats, PTL

------------------------------------------------------------------------------
(* The buddy system implements PageAllocator.                              *)

(* The blocks that are out after a step.                                   *)
LEMMA OwnedNext ==
  ASSUME pages' \in [Page -> Descriptor], NEW b
  PROVE  b \in Owned' <=> \E q \in Page, j \in Order :
                            b = [pfn |-> q, order |-> j] /\ Out(q, j)'
  BY DEF Owned, Out, Descriptor

(* An allocation grants an aligned run that overlaps no other.             *)
LEMMA AllocGrants ==
  ASSUME IInv, NEW k \in Order, Alloc(k)
  PROVE  \E b \in Allocator!Block : Allocator!Grant(b)
  <1>0. PICK o \in Order : Search(k, o) /\ \E p \in lists[o] : Take(p, k, o)
    BY DEF Alloc
  <1>1. PICK p \in lists[o] : Take(p, k, o)
    BY <1>0
  <1> DEFINE b == [pfn |-> p, order |-> k]
  <1>2. Shape /\ ready /\ ready' = ready /\ refused' = None
    BY DEF IInv, Alloc
  <1>3. /\ pages' \in [Page -> Descriptor]
        /\ \A q \in Page, j \in Order : Out(q, j)' <=> Out(q, j) \/ (q = p /\ j = k)
    BY <1>0, <1>1, <1>2, AllocEffect
  <1>4. p \in Page /\ Head(p, o) /\ Aligned(p, o) /\ p + 2 ^ o <= TotalPages
    BY <1>2 DEF Shape, Inside, Head
  <1>5. p \in Nat /\ o \in Nat /\ k \in 0 .. o /\ 2 ^ k \in Nat \ {0} /\ 2 ^ o \in Nat
    BY <1>0, <1>4, Bounds DEF Search
  <1>6. Aligned(p, k) /\ p + 2 ^ k <= p + 2 ^ o
    BY <1>4, <1>5, SplitFacts
  <1>7. b \in Allocator!Block
    BY <1>4 DEF Allocator!Block, Page, Order
  <1>8. ASSUME NEW a \in Owned PROVE ~Allocator!Overlap(a, b)
    <2>1. PICK q \in Page, j \in Order : a = [pfn |-> q, order |-> j] /\ Out(q, j)
      BY <1>2, BlocksOf
    <2>2. ~Out(p, o)
      BY <1>2 DEF Shape, Described, Out
    <2>3. q + 2 ^ j <= p \/ p + 2 ^ o <= q
      BY <2>1, <2>2, <1>2, <1>4 DEF Shape, Apart, Head, Out
    <2>4. q \in Nat /\ 2 ^ j \in Nat
      BY Bounds
    <2> QED BY <2>1, <2>3, <2>4, <1>5, <1>6 DEF Allocator!Overlap
  <1>9. Allocator!Available(b)
    <2>1. b.pfn = p /\ b.order = k
      OBVIOUS
    <2>2. p % 2 ^ k = 0 /\ p + 2 ^ k <= TotalPages
      BY <1>4, <1>5, <1>6, Bounds DEF Aligned
    <2> HIDE DEF b
    <2> QED BY <1>8, <2>1, <2>2 DEF Allocator!Available
  <1>10. Owned' = Owned \cup {b}
    <2>1. ASSUME NEW a PROVE a \in Owned' <=> a \in Owned \/ a = b
      <3>1. a \in Owned' <=> \E q \in Page, j \in Order :
                               a = [pfn |-> q, order |-> j] /\ Out(q, j)'
        BY <1>3, OwnedNext
      <3>2. a \in Owned <=> \E q \in Page, j \in Order :
                              a = [pfn |-> q, order |-> j] /\ Out(q, j)
        BY <1>2, BlocksOf
      <3> QED BY <3>1, <3>2, <1>3, <1>4
    <2> QED BY <2>1
  <1> QED BY <1>2, <1>7, <1>9, <1>10 DEF Allocator!Grant, Allocator!None, None

(* A release gives back exactly the block.                                 *)
LEMMA FreeReleases ==
  ASSUME IInv, NEW p \in Page, Free(p, pages[p].order)
  PROVE  \E b \in Allocator!Block : Allocator!Release(b)
  <1> DEFINE k == pages[p].order
             b == [pfn |-> p, order |-> k]
  <1>1. k \in Order /\ Out(p, k) /\ ready /\ Shape /\ ready' = ready /\ refused' = None
    BY DEF Free, Out, IInv, Shape, Descriptor
  <1> HIDE DEF k
  <1>2. PICK m \in k .. MaxOrder : Reaches(p, k, m) /\ Freed(p, k, m)
    BY DEF Free, Freed, k
  <1>3. /\ pages' \in [Page -> Descriptor]
        /\ \A q \in Page, j \in Order : Out(q, j)' <=> Out(q, j) /\ q # p
    BY <1>1, <1>2, FreeEffect
  <1>4. b \in Allocator!Block
    BY <1>1 DEF Allocator!Block, Page, Order
  <1>5. b \in Owned
    BY <1>1, BlocksOf
  <1>6. Owned' = Owned \ {b}
    <2>1. ASSUME NEW a PROVE a \in Owned' <=> a \in Owned /\ a # b
      <3>1. a \in Owned' <=> \E q \in Page, j \in Order :
                               a = [pfn |-> q, order |-> j] /\ Out(q, j)'
        BY <1>3, OwnedNext
      <3>2. a \in Owned <=> \E q \in Page, j \in Order :
                              a = [pfn |-> q, order |-> j] /\ Out(q, j)
        BY <1>1, BlocksOf
      <3>3. \A j \in Order : Out(p, j) => j = k
        BY <1>1 DEF Out
      <3>4. \A q \in Page, j \in Order : Out(q, j) =>
              (q # p <=> [pfn |-> q, order |-> j] # b)
        BY <3>3
      <3> QED BY <3>1, <3>2, <3>4, <1>3
    <2> QED BY <2>1
  <1> QED BY <1>1, <1>4, <1>5, <1>6 DEF Allocator!Release, Allocator!None, None

(* A free aligned run of 2^k pages is never left in smaller blocks: the    *)
(* smallest of them would lie next to its buddy, which is free and not     *)
(* smaller, so it would have been merged.                                  *)
LEMMA NoneAvailable ==
  ASSUME Shape, ready, NEW k \in Order, \A j \in k .. MaxOrder : lists[j] = {},
         NEW x \in Page, Aligned(x, k), x + 2 ^ k <= TotalPages,
         \A p \in Page, i \in Order : Out(p, i) => p + 2 ^ i <= x \/ x + 2 ^ k <= p
  PROVE  FALSE
  <1> Page \subseteq Nat /\ Order \subseteq Nat /\ \A i \in Order : 2 ^ i \in Nat \ {0}
    BY Bounds
  <1>1. x \in Nat /\ k \in Nat /\ MaxOrder \in Nat /\ 2 ^ k \in Nat \ {0}
    BY Bounds
  \* every page of the run is in a listed block, which lies inside the run
  <1>2. ASSUME NEW y \in Page, x <= y, y < x + 2 ^ k
        PROVE  \E p \in Page, i \in Order : /\ p \in lists[i] /\ i < k
                                            /\ p <= y /\ y < p + 2 ^ i
                                            /\ x <= p /\ p + 2 ^ i <= x + 2 ^ k
    <2>1. PICK p \in Page, i \in Order : Head(p, i) /\ p <= y /\ y < p + 2 ^ i
      BY DEF Shape, Covered
    <2>2. p \in lists[i]
      BY <2>1, <1>1, <1>2 DEF Head
    <2>3. i < k
      BY <2>2, <1>1, Bounds DEF Order
    <2>4. Aligned(p, i) /\ i \in 0 .. k
      BY <2>1, <2>3, <1>1 DEF Shape, Inside
    <2>5. \/ p + 2 ^ i <= x
          \/ x + 2 ^ k <= p
          \/ x <= p /\ p + 2 ^ i <= x + 2 ^ k
      BY <2>4, <1>1, Nested
    <2> QED BY <2>1, <2>2, <2>3, <2>5, <1>2, <1>1
  <1> DEFINE T == {i \in Nat : i \in Order /\ \E p \in lists[i] : x <= p /\ p + 2 ^ i <= x + 2 ^ k}
  <1>3. PICK i \in T : \A j \in T : i <= j
    <2>1. T # {}
      <3>1. x <= x /\ x < x + 2 ^ k
        BY <1>1
      <3>2. PICK p \in Page, i \in Order : p \in lists[i] /\ x <= p /\ p + 2 ^ i <= x + 2 ^ k
        BY <1>2, <3>1
      <3>3. i \in T
        BY <3>2
      <3> QED BY <3>3
    <2>2. T \in SUBSET Nat
      OBVIOUS
    <2> HIDE DEF T
    <2> QED BY <2>1, <2>2, LeastNat
  <1>4. PICK p \in lists[i] : x <= p /\ p + 2 ^ i <= x + 2 ^ k
    BY <1>3
  <1>5. i \in Order /\ p \in Page /\ Head(p, i) /\ Aligned(p, i) /\ i \in Nat
    BY <1>3, <1>4 DEF Shape, Inside, Head
  <1>6. i < k
    BY <1>1, <1>4, <1>5, Bounds DEF Order
  <1> DEFINE b == Buddy(p, i)
  <1>7. b \in Nat /\ Aligned(b, i) /\ b # p
    BY <1>5, BuddyFacts
  <1>8. PICK s \in Nat : /\ Aligned(s, i + 1)
                         /\ \/ p = s /\ b = s + 2 ^ i
                            \/ p = s + 2 ^ i /\ b = s
    BY <1>5, BuddyPair
  <1> HIDE DEF b
  <1>9. 2 ^ (i + 1) = 2 * 2 ^ i /\ 2 ^ i \in Nat \ {0} /\ i + 1 \in 0 .. k
    BY <1>1, <1>5, <1>6, PowDouble
  <1>10. x <= s /\ s + 2 ^ (i + 1) <= x + 2 ^ k
    <2>1. \/ s + 2 ^ (i + 1) <= x
          \/ x + 2 ^ k <= s
          \/ x <= s /\ s + 2 ^ (i + 1) <= x + 2 ^ k
      BY <1>1, <1>8, <1>9, Nested
    <2>2. s <= p /\ p + 2 ^ i <= s + 2 ^ (i + 1) /\ p \in Nat
      BY <1>5, <1>8, <1>9
    <2> QED BY <2>1, <2>2, <1>1, <1>4, <1>9
  <1>11. s <= b /\ b + 2 ^ i <= s + 2 ^ (i + 1)
    BY <1>8, <1>9
  <1>12. b \in Page /\ x <= b /\ b < x + 2 ^ k
    <2>1. x <= b /\ b + 2 ^ i <= x + 2 ^ k
      BY <1>1, <1>7, <1>8, <1>9, <1>10, <1>11
    <2> QED BY <2>1, <1>1, <1>7, <1>9, Bounds DEF Page
  <1>13. PICK e \in Page, j \in Order : /\ e \in lists[j] /\ j < k
                                        /\ e <= b /\ b < e + 2 ^ j
                                        /\ x <= e /\ e + 2 ^ j <= x + 2 ^ k
    BY <1>2, <1>12
  <1>14. Head(e, j) /\ Aligned(e, j) /\ j \in Nat /\ e \in Nat
    BY <1>13 DEF Shape, Inside, Head
  <1>15. i <= j
    <2>1. j \in T
      BY <1>13
    <2> QED BY <2>1, <1>3
  <1>16. CASE i = j
    <2>1. e = b
      <3>1. Aligned(e, i) /\ e <= b /\ b < e + 2 ^ i
        BY <1>13, <1>14, <1>16
      <3>2. e < b => e + 2 ^ i <= b
        BY <3>1, <1>5, <1>7, <1>14, AlignedGap
      <3> QED BY <3>1, <3>2, <1>7, <1>9, <1>14
    <2>2. i < MaxOrder
      BY <1>1, <1>6, Bounds DEF Order
    <2> QED BY <2>1, <2>2, <1>4, <1>5, <1>13, <1>16 DEF Shape, Merged, b
  <1>17. CASE i < j
    <2>1. i + 1 \in 0 .. j
      BY <1>5, <1>14, <1>17
    <2>2. \/ s + 2 ^ (i + 1) <= e
          \/ e + 2 ^ j <= s
          \/ e <= s /\ s + 2 ^ (i + 1) <= e + 2 ^ j
      BY <2>1, <1>8, <1>14, Nested
    <2>3. e <= s /\ s + 2 ^ (i + 1) <= e + 2 ^ j
      BY <2>2, <1>7, <1>8, <1>9, <1>11, <1>13, <1>14
    <2>4. e <= p /\ p + 2 ^ i <= e + 2 ^ j
      BY <2>3, <1>8, <1>9, <1>14
    <2>5. p + 2 ^ i <= e \/ e + 2 ^ j <= p
      BY <1>5, <1>14, <1>17 DEF Shape, Apart
    <2> QED BY <2>4, <2>5, <1>5, <1>9, <1>14
  <1> QED BY <1>5, <1>14, <1>15, <1>16, <1>17

(* So a request is refused only if no such run is free.                    *)
LEMMA AllocRefuses ==
  ASSUME IInv, NEW k \in Order, AllocFails(k)
  PROVE  Allocator!Refuse(k)
  <1>1. UNCHANGED <<ready, Owned>> /\ refused' = k
    BY DEF AllocFails, Owned
  <1>2. ASSUME ready, NEW b \in Allocator!Block, b.order = k, Allocator!Available(b)
        PROVE  FALSE
    <2>1. b.pfn \in Page /\ Aligned(b.pfn, k) /\ b.pfn + 2 ^ k <= TotalPages
      BY <1>2 DEF Allocator!Block, Allocator!Available, Page, Aligned
    <2>2. ASSUME NEW p \in Page, NEW i \in Order, Out(p, i)
          PROVE  p + 2 ^ i <= b.pfn \/ b.pfn + 2 ^ k <= p
      <3>1. [pfn |-> p, order |-> i] \in Owned
        BY <2>2, BlocksOf DEF IInv
      <3>2. ~Allocator!Overlap([pfn |-> p, order |-> i], b)
        BY <3>1, <1>2 DEF Allocator!Available
      <3>3. p \in Nat /\ b.pfn \in Nat /\ 2 ^ i \in Nat /\ 2 ^ k \in Nat
        BY <2>1, Bounds
      <3> QED BY <3>2, <3>3, <1>2 DEF Allocator!Overlap
    <2>3. ASSUME NEW j \in k .. MaxOrder PROVE lists[j] = {}
      <3> DEFINE T == {i \in Nat : i \in k .. MaxOrder /\ lists[i] # {}}
      <3> SUFFICES ASSUME lists[j] # {} PROVE FALSE
        OBVIOUS
      <3>1. k \in Nat /\ j \in Nat
        BY Bounds
      <3>2. PICK o \in T : \A i \in T : o <= i
        <4> T \in SUBSET Nat /\ j \in T
          BY <3>1
        <4> HIDE DEF T
        <4> QED BY LeastNat
      <3>3. o \in Order /\ Search(k, o)
        <4>1. \A i \in k .. o - 1 : i \notin T
          BY <3>1, <3>2
        <4>2. \A i \in k .. o - 1 : i \in Nat /\ i \in k .. MaxOrder
          <5>1. o \in Nat /\ o <= MaxOrder /\ MaxOrder \in Nat
            BY <3>1, <3>2, Bounds
          <5> HIDE DEF T
          <5> QED BY <3>1, <5>1
        <4>3. \A i \in k .. o - 1 : lists[i] = {}
          BY <4>1, <4>2
        <4>4. o \in k .. MaxOrder /\ lists[o] # {} /\ o \in Nat /\ o <= MaxOrder
          BY <3>1, <3>2
        <4>5. o \in Order
          BY <4>4, Bounds DEF Order
        <4> QED BY <4>3, <4>4, <4>5 DEF Search
      <3> QED BY <3>3, <1>2 DEF AllocFails
    <2> QED BY <2>1, <2>2, <2>3, <1>2, NoneAvailable DEF IInv
  <1> QED BY <1>1, <1>2 DEF Allocator!Refuse

(* Every step of the buddy system is one of the allocator, or changes      *)
(* nothing it promises about.                                              *)
LEMMA StepRefines == IInv /\ [Next]_vars => [Allocator!Next]_(Allocator!vars)
  <1> SUFFICES ASSUME IInv, [Next]_vars
               PROVE  Allocator!Next \/ UNCHANGED <<ready, Owned, refused>>
    BY DEF Allocator!vars
  <1>1. CASE MmInit
    <2>1. Owned = {}
      BY <1>1 DEF Owned, IInv, Shape, Down, MmInit
    <2>2. \A p \in Page : pages'[p].free
      BY <1>1 DEF MmInit
    <2>3. Owned' = {}
      BY <2>2 DEF Owned
    <2> QED BY <1>1, <2>3 DEF MmInit, Allocator!Next, Allocator!Start, Allocator!None, None
  <1>2. CASE MmShutdown
    <2>1. \A p \in Page : pages'[p].free
      BY <1>2 DEF MmShutdown, Blank
    <2>2. Owned' = {}
      BY <2>1 DEF Owned
    <2> QED BY <1>2, <2>2 DEF MmShutdown, Allocator!Next, Allocator!Stop, Allocator!None, None
  <1>3. ASSUME NEW k \in Order, Alloc(k) PROVE Allocator!Next
    BY <1>3, AllocGrants DEF Allocator!Next
  <1>4. ASSUME NEW k \in Order, AllocFails(k) PROVE Allocator!Next
    BY <1>4, AllocRefuses DEF Allocator!Next, Order
  <1>5. ASSUME NEW p \in Page, Free(p, pages[p].order) PROVE Allocator!Next
    BY <1>5, FreeReleases DEF Allocator!Next
  <1>6. ASSUME NEW p \in Page, FreeIgnored(p) PROVE UNCHANGED <<ready, Owned, refused>>
    BY <1>6 DEF FreeIgnored, vars, Owned
  <1>7. CASE UNCHANGED vars
    BY <1>7 DEF vars, Owned
  <1> QED BY <1>1, <1>2, <1>3, <1>4, <1>5, <1>6, <1>7 DEF Next

(* The buddy system implements the abstract allocator: what it grants is   *)
(* aligned and overlaps nothing that is out, and it refuses a request only *)
(* if no aligned run of that size is free (phys_memory.c:142-229).         *)
THEOREM Refinement == Spec => IsAllocator
  <1>1. Init => Allocator!Init
    BY DEF Init, Allocator!Init, Owned, Blank, None, Allocator!None
  <1> QED BY <1>1, StepRefines, Invariance, PTL DEF Spec, IsAllocator, Allocator!Spec

==============================================================================
