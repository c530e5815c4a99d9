---------------------------- MODULE McHeapProofs ----------------------------
(***************************************************************************)
(* What the arenas and Memcheck's heap on them promise, for any sizes,     *)
(* alignments, redzones, lists and number of blocks.                       *)
(*                                                                         *)
(* An arena is looked at as a map of free blocks and one of used blocks    *)
(* (FreeOf, UseOf).  Each function of the allocator has lemmas that it     *)
(* keeps ArenaInv and what it does to the two maps; the actions put those  *)
(* together with what callers hold, Memcheck's chunks, its queue and its   *)
(* shadow memory.  Sums are taken one element at a time, and facts about   *)
(* every index are proved by a least counterexample (LeastNat).            *)
(***************************************************************************)
EXTENDS McHeap, FiniteSetTheorems, WellFoundedInduction, TLAPS

-----------------------------------------------------------------------------
(* Numbers *)

(* Sets of naturals have a least element. *)
LEMMA LeastNat ==
  ASSUME NEW S \in SUBSET Nat, S # {}
  PROVE  \E m \in S : \A x \in S : m <= x
PROOF
<1> DEFINE R == OpToRel(<, Nat)
<1>1. IsWellFoundedOn(R, Nat)
  BY NatLessThanWellFounded
<1>2. \A x, y \in Nat : x < y => <<x, y>> \in R
  BY DEF OpToRel
<1> HIDE DEF R
<1>3. PICK m \in S : \A x \in S : <<x, m>> \notin R
  BY <1>1, WFMin
<1>4. \A x \in S : ~ (x < m)
  BY <1>2, <1>3
<1> QED
  BY <1>3, <1>4

LEMMA MinNat ==
  ASSUME NEW S \in SUBSET Nat, S # {}
  PROVE  Min(S) \in S /\ \A x \in S : Min(S) <= x
PROOF
<1>1. \E m \in S : \A x \in S : m <= x
  BY LeastNat
<1> QED
  BY <1>1 DEF Min

LEMMA DivMod ==
  \A x \in Nat, n \in Nat \ {0} : x \div n \in Nat /\ x % n \in 0 .. n - 1 /\ x = n * (x \div n) + (x % n)
OBVIOUS

LEMMA ModOfMultiple ==
  \A k \in Nat, n \in Nat \ {0} : (n * k) % n = 0
OBVIOUS

LEMMA ModSmall ==
  \A x \in Nat, n \in Nat \ {0} : (x < n => x % n = x) /\ (x >= n /\ x < 2 * n => x % n = x - n)
OBVIOUS

(* Multiples of n: sums and differences. *)
LEMMA ModSum ==
  ASSUME NEW n \in Nat \ {0}, NEW x \in Nat, NEW y \in Nat, x % n = 0, y % n = 0
  PROVE  (x + y) % n = 0 /\ (x >= y => (x - y) % n = 0)
PROOF
<1> DEFINE i == x \div n
           j == y \div n
<1>1. i \in Nat /\ j \in Nat /\ x = n * i /\ y = n * j
  BY DivMod
<1> HIDE DEF i, j
<1>2. x + y = n * (i + j)
  BY <1>1
<1>3. (x + y) % n = 0
  BY <1>1, <1>2, ModOfMultiple
<1>4. ASSUME x >= y PROVE (x - y) % n = 0
  <2>1. x - y = n * (i - j)
    BY <1>1
  <2>2. i >= j
    BY <1>1, <1>4
  <2> QED
    BY <1>1, <2>1, <2>2, ModOfMultiple
<1> QED
  BY <1>3, <1>4

LEMMA RoundUp ==
  ASSUME NEW x \in Nat, NEW n \in Nat \ {0}
  PROVE  round_up(x, n) \in Nat /\ round_up(x, n) >= x /\ round_up(x, n) < x + n /\ round_up(x, n) % n = 0
BY DEF round_up

(* A multiple of m is rounded up to a multiple. *)
LEMMA ModMod ==
  ASSUME NEW x \in Nat, NEW n \in Nat \ {0}, NEW m \in Nat \ {0}, x % n = 0, n % m = 0
  PROVE  x % m = 0
PROOF
<1> DEFINE i == x \div n
           j == n \div m
<1>1. i \in Nat /\ j \in Nat /\ x = n * i /\ n = m * j
  BY DivMod
<1> HIDE DEF i, j
<1>2. x = m * (j * i) /\ j * i \in Nat
  BY <1>1
<1> QED
  BY <1>2, ModOfMultiple

LEMMA RoundUpFixed ==
  ASSUME NEW x \in Nat, NEW n \in Nat \ {0}, x % n = 0
  PROVE  round_up(x, n) = x
PROOF
<1> DEFINE i == x \div n
           r == round_up(x, n)
           j == r \div n
<1>0. r \in Nat /\ r >= x /\ r < x + n /\ r % n = 0
  BY RoundUp
<1> HIDE DEF r
<1>1. i \in Nat /\ j \in Nat /\ x = n * i /\ r = n * j
  BY <1>0, DivMod
<1> HIDE DEF i, j
<1>2. j < i + 1
  BY <1>0, <1>1
<1>3. j >= i
  BY <1>0, <1>1
<1> QED
  BY <1>1, <1>2, <1>3 DEF r

-----------------------------------------------------------------------------
(* The overhead of a block *)

LEMMA Rz ==
  /\ rz_szB \in Nat /\ rz_szB >= RZ /\ rz_szB >= WORD
PROOF
<1> DEFINE least == Max({RZ, WORD})
           R == {r \in least .. least + VG_MIN_MALLOC_SZB - 1 :
                   (HP_OVERHEAD + WORD + r) % VG_MIN_MALLOC_SZB = 0}
           x == HP_OVERHEAD + WORD + least
           m == x % VG_MIN_MALLOC_SZB
<1>1. least \in Nat /\ least >= RZ /\ least >= WORD
  <2>1. \E y \in {RZ, WORD} : \A z \in {RZ, WORD} : y >= z
    BY SizesAssumption
  <2> QED
    BY <2>1, SizesAssumption DEF Max
<1> HIDE DEF least
<1>2. x \in Nat /\ m \in 0 .. VG_MIN_MALLOC_SZB - 1 /\ x = VG_MIN_MALLOC_SZB * (x \div VG_MIN_MALLOC_SZB) + m
      /\ x \div VG_MIN_MALLOC_SZB \in Nat
  <2>1. x \in Nat /\ VG_MIN_MALLOC_SZB \in Nat \ {0}
    BY <1>1, SizesAssumption
  <2> HIDE DEF x
  <2> QED
    BY <2>1, DivMod
<1>3. R # {}
  <2>1. CASE m = 0
    <3>1. least \in R
      BY <1>1, <2>1, SizesAssumption
    <3> QED
      BY <3>1
  <2>2. CASE m # 0
    <3> DEFINE r == least + VG_MIN_MALLOC_SZB - m
    <3>1. HP_OVERHEAD + WORD + r = VG_MIN_MALLOC_SZB * (x \div VG_MIN_MALLOC_SZB + 1)
      <4> HIDE DEF m
      <4>1. HP_OVERHEAD + WORD + r = x + VG_MIN_MALLOC_SZB - m
        BY <1>1, <1>2, SizesAssumption
      <4> HIDE DEF r, x
      <4> QED
        BY <1>2, <4>1, SizesAssumption
    <3>2. (HP_OVERHEAD + WORD + r) % VG_MIN_MALLOC_SZB = 0
      <4> HIDE DEF m, r, x
      <4>1. x \div VG_MIN_MALLOC_SZB + 1 \in Nat /\ VG_MIN_MALLOC_SZB \in Nat \ {0}
        BY <1>2, SizesAssumption
      <4> QED
        BY <3>1, <4>1, ModOfMultiple
    <3>3. r \in least .. least + VG_MIN_MALLOC_SZB - 1
      <4> HIDE DEF m
      <4> QED
        BY <1>1, <1>2, <2>2, SizesAssumption
    <3>4. r \in R
      BY <3>2, <3>3
    <3> QED
      BY <3>4
  <2> QED
    BY <2>1, <2>2
<1>4. R \in SUBSET Nat
  BY <1>1, SizesAssumption
<1>5. Min(R) \in R
  <2> HIDE DEF R
  <2> QED
    BY <1>3, <1>4, MinNat
<1>6. Min(R) \in Nat /\ Min(R) >= least
  BY <1>1, <1>5, SizesAssumption
<1>7. rz_szB = Min(R)
  BY DEF rz_szB, R, least
<1> QED
  BY <1>1, <1>6, <1>7, SizesAssumption

LEMMA Overhead ==
  /\ overhead_szB_lo \in Nat \ {0} /\ overhead_szB_hi \in Nat \ {0} /\ overhead_szB \in Nat \ {0}
  /\ overhead_szB = overhead_szB_lo + overhead_szB_hi
  /\ overhead_szB_lo >= RZ /\ overhead_szB_hi >= RZ
  /\ overhead_szB_lo % VG_MIN_MALLOC_SZB = 0 /\ overhead_szB % VG_MIN_MALLOC_SZB = 0
PROOF
<1>1. /\ overhead_szB_lo \in Nat \ {0} /\ overhead_szB_hi \in Nat \ {0}
      /\ overhead_szB_lo >= RZ /\ overhead_szB_hi >= RZ
  BY Rz, SizesAssumption DEF overhead_szB_lo, overhead_szB_hi
<1>2. overhead_szB = overhead_szB_lo + overhead_szB_hi
  BY DEF overhead_szB
<1>3. overhead_szB % VG_MIN_MALLOC_SZB = 0
  BY <1>1, <1>2, OverheadAssumption, SizesAssumption, ModSum, ZenonT(60)
<1> QED
  BY <1>1, <1>2, <1>3, OverheadAssumption

-----------------------------------------------------------------------------
(* Rings *)

LEMMA IsSeq ==
  ASSUME NEW X, NEW n \in Nat, NEW f \in [1 .. n -> X]
  PROVE  f \in Seq(X) /\ Len(f) = n
OBVIOUS

(* Entered elsewhere, a ring has the same blocks. *)
LEMMA EnterRing ==
  ASSUME NEW s \in Seq(Nat), IsInjective(s), NEW k \in DOMAIN s
  PROVE  /\ enter(s, k) \in Seq(Nat) /\ Len(enter(s, k)) = Len(s)
         /\ IsInjective(enter(s, k)) /\ Range(enter(s, k)) = Range(s)
         /\ enter(s, k)[1] = s[k]
PROOF
<1> DEFINE n == Len(s)
           J(i) == IF k + i - 1 <= n THEN k + i - 1 ELSE k + i - 1 - n
           e == enter(s, k)
<1>1. n \in Nat \ {0} /\ DOMAIN s = 1 .. n /\ k \in 1 .. n
  OBVIOUS
<1>2. ASSUME NEW i \in 1 .. n
      PROVE  J(i) \in 1 .. n /\ ((k + i - 2) % n) + 1 = J(i)
  <2>1. k + i - 2 \in Nat /\ k + i - 2 < 2 * n
    BY <1>1
  <2>2. (k + i - 2 < n => (k + i - 2) % n = k + i - 2) /\ (k + i - 2 >= n => (k + i - 2) % n = k + i - 2 - n)
    <3> DEFINE x == k + i - 2
    <3> HIDE DEF x, n
    <3>1. (x < n => x % n = x) /\ (x >= n => x % n = x - n)
      BY <1>1, <2>1, ModSmall DEF x
    <3> QED
      BY <3>1, SMTT(30) DEF x, n
  <2> DEFINE y == (k + i - 2) % n
  <2> HIDE DEF y, n
  <2> QED
    BY <1>1, <2>2, SMTT(30) DEF y
<1>3. e = [i \in 1 .. n |-> s[J(i)]]
  BY <1>1, <1>2 DEF enter
<1>4. e \in [1 .. n -> Nat]
  <2>1. ASSUME NEW i \in 1 .. n PROVE s[J(i)] \in Nat
    <3>1. J(i) \in 1 .. n
      BY <1>2
    <3> HIDE DEF J
    <3> QED
      BY <1>1, <3>1
  <2> HIDE DEF n, J
  <2> QED
    BY <1>3, <2>1
<1>5. e \in Seq(Nat) /\ Len(e) = n
  <2> HIDE DEF e, n
  <2> QED
    BY <1>1, <1>4, IsSeq
<1>6. IsInjective(e)
  <2>1. ASSUME NEW i \in 1 .. n, NEW j \in 1 .. n, e[i] = e[j] PROVE i = j
    <3>1. J(i) \in 1 .. n /\ J(j) \in 1 .. n /\ s[J(i)] = s[J(j)]
      BY <1>2, <1>3, <2>1
    <3>2. J(i) = J(j)
      BY <1>1, <3>1 DEF IsInjective
    <3> QED
      BY <1>1, <3>2, SMTT(30)
  <2>2. DOMAIN e = 1 .. n
    BY <1>3
  <2> QED
    BY <2>1, <2>2 DEF IsInjective
<1>7. Range(e) = Range(s)
  <2>1. ASSUME NEW i \in 1 .. n PROVE e[i] \in Range(s)
    BY <1>1, <1>2, <1>3, <2>1 DEF Range
  <2>2. ASSUME NEW j \in 1 .. n PROVE \E i \in 1 .. n : e[i] = s[j]
    <3> DEFINE i == IF j >= k THEN j - k + 1 ELSE j - k + 1 + n
    <3>1. i \in 1 .. n /\ J(i) = j
      BY <1>1, SMTT(30)
    <3> HIDE DEF i
    <3> QED
      BY <1>3, <3>1
  <2>3. DOMAIN e = 1 .. n
    BY <1>3
  <2>4. Range(s) \subseteq Range(e)
    <3> HIDE DEF e
    <3> QED
      BY <1>1, <2>2, <2>3 DEF Range
  <2>5. Range(e) \subseteq Range(s)
    <3>1. ASSUME NEW x \in Range(e) PROVE x \in Range(s)
      <4> HIDE DEF e
      <4>1. PICK i \in 1 .. n : x = e[i]
        BY <2>3, <3>1 DEF Range
      <4> QED
        BY <2>1, <4>1
    <3> QED
      BY <3>1
  <2> QED
    BY <2>4, <2>5
<1>8. e[1] = s[k]
  BY <1>1, <1>3
<1> QED
  BY <1>5, <1>6, <1>7, <1>8

LEMMA SwizzleRing ==
  ASSUME NEW s \in Seq(Nat), IsInjective(s), s # << >>
  PROVE  swizzle(s) \in Seq(Nat) /\ IsInjective(swizzle(s)) /\ Range(swizzle(s)) = Range(s)
PROOF
<1> DEFINE near == {k \in DOMAIN s : k - 1 <= SWIZZLE \/ Len(s) + 1 - k <= SWIZZLE}
           V == {s[k] : k \in near}
<1>1. 1 \in near
  BY ListsAssumption
<1>2. V \in SUBSET Nat /\ V # {}
  BY <1>1
<1>3. PICK v \in V : \A x \in V : v <= x
  <2> HIDE DEF V
  <2> QED
    BY <1>2, LeastNat
<1>4. \E k \in near : \A j \in near : s[k] <= s[j]
  BY <1>3
<1> DEFINE c == CHOOSE k \in near : \A j \in near : s[k] <= s[j]
<1>5. c \in DOMAIN s
  BY <1>4
<1>6. swizzle(s) = enter(s, c)
  BY DEF swizzle
<1> HIDE DEF c
<1> QED
  BY <1>5, <1>6, EnterRing

LEMMA UnlinkedRing ==
  ASSUME NEW s \in Seq(Nat), IsInjective(s), NEW b \in Range(s)
  PROVE  /\ unlinked(s, b) \in Seq(Nat) /\ IsInjective(unlinked(s, b))
         /\ Range(unlinked(s, b)) = Range(s) \ {b}
PROOF
<1> DEFINE k == CHOOSE i \in DOMAIN s : s[i] = b
           r == enter(s, k)
           n == Len(s)
           t == Tail(r)
<1>1. k \in DOMAIN s /\ s[k] = b
  BY DEF Range
<1> HIDE DEF k
<1>2. r \in Seq(Nat) /\ Len(r) = n /\ IsInjective(r) /\ Range(r) = Range(s) /\ r[1] = b
  BY <1>1, EnterRing
<1>3. n \in Nat \ {0}
  BY <1>1
<1> HIDE DEF r, n
<1>4. CASE n = 1
  <2>1. unlinked(s, b) = << >>
    BY <1>4 DEF unlinked, n
  <2>2. \A x \in Range(r) : x = b
    <3>1. DOMAIN r = {1}
      BY <1>2, <1>4
    <3> QED
      BY <1>2, <3>1 DEF Range
  <2>3. IsInjective(<< >>) /\ Range(<< >>) = {}
    BY DEF IsInjective, Range
  <2> QED
    BY <1>2, <2>1, <2>2, <2>3
<1>5. CASE n # 1
  <2>1. t \in Seq(Nat) /\ Len(t) = n - 1 /\ \A i \in 1 .. n - 1 : t[i] = r[i + 1]
    BY <1>2, <1>3, <1>5
  <2>2. DOMAIN t = 1 .. n - 1 /\ DOMAIN r = 1 .. n
    BY <1>2, <2>1
  <2> HIDE DEF t
  <2>3. IsInjective(t)
    <3>1. ASSUME NEW i \in 1 .. n - 1, NEW j \in 1 .. n - 1, t[i] = t[j] PROVE i = j
      <4>1. r[i + 1] = r[j + 1] /\ i + 1 \in 1 .. n /\ j + 1 \in 1 .. n
        BY <1>3, <2>1, <3>1
      <4>2. i + 1 = j + 1
        BY <1>2, <2>2, <4>1 DEF IsInjective
      <4> QED
        BY <4>2
    <3> QED
      BY <2>2, <3>1 DEF IsInjective
  <2>4. Range(t) = Range(r) \ {b}
    <3>1. ASSUME NEW i \in 1 .. n - 1 PROVE t[i] \in Range(r) /\ t[i] # b
      <4>1. i + 1 \in 1 .. n /\ i + 1 # 1 /\ 1 \in 1 .. n
        BY <1>3
      <4>2. r[i + 1] # r[1]
        BY <1>2, <2>2, <4>1 DEF IsInjective
      <4> QED
        BY <1>2, <2>1, <2>2, <4>1, <4>2 DEF Range
    <3>2. ASSUME NEW j \in 1 .. n, r[j] # b PROVE \E i \in 1 .. n - 1 : t[i] = r[j]
      <4>1. j # 1
        BY <1>2, <3>2
      <4>2. j - 1 \in 1 .. n - 1 /\ (j - 1) + 1 = j
        BY <1>3, <4>1
      <4>3. t[j - 1] = r[j]
        BY <2>1, <4>2
      <4> QED
        BY <4>2, <4>3
    <3>3. Range(t) = {t[i] : i \in 1 .. n - 1} /\ Range(r) = {r[i] : i \in 1 .. n}
      BY <2>2 DEF Range
    <3>4. \A x \in Range(t) : x \in Range(r) /\ x # b
      BY <3>1, <3>3
    <3>5. \A x \in Range(r) : x # b => x \in Range(t)
      BY <3>2, <3>3
    <3> QED
      BY <3>4, <3>5
  <2> DEFINE e == enter(t, n - 1)
  <2>5. n - 1 \in DOMAIN t
    BY <1>3, <1>5, <2>2
  <2>6. e \in Seq(Nat) /\ Len(e) = n - 1 /\ IsInjective(e) /\ Range(e) = Range(t)
    BY <2>1, <2>3, <2>5, EnterRing
  <2>7. unlinked(s, b) = swizzle(e)
    BY <1>5 DEF unlinked, n, t, r, k
  <2> HIDE DEF e
  <2>8. e # << >>
    BY <1>3, <1>5, <2>6
  <2> QED
    BY <1>2, <2>4, <2>6, <2>7, <2>8, SwizzleRing
<1> QED
  BY <1>4, <1>5

-----------------------------------------------------------------------------
(* The free lists *)

(* Every size has a list, and a larger size has no lower one. *)
LEMMA ListNo ==
  ASSUME NEW n \in Nat, n >= overhead_szB
  PROVE  listNo_of(n) \in Lists
PROOF
<1> DEFINE L == Len(ListBounds)
           k == (n - overhead_szB) \div VG_MIN_MALLOC_SZB
           B == {i \in DOMAIN ListBounds : ListBounds[i] <= k}
<1>1. L \in Nat /\ DOMAIN ListBounds = 1 .. L
  BY ListsAssumption
<1>2. k \in Nat
  <2>1. n - overhead_szB \in Nat /\ VG_MIN_MALLOC_SZB \in Nat \ {0}
    BY Overhead, SizesAssumption
  <2> QED
    BY <2>1, DivMod
<1>3. IsFiniteSet(1 .. L) /\ Cardinality(1 .. L) = L
  <2> HIDE DEF L
  <2>1. 1 \in Int /\ L \in Int /\ (1 > L => L = 0) /\ L - 1 + 1 = L
    BY <1>1
  <2> QED
    BY <2>1, FS_Interval
<1>4. Cardinality(B) \in Nat /\ Cardinality(B) <= L
  <2>1. B \subseteq 1 .. L
    BY <1>1
  <2> HIDE DEF B, L
  <2>2. IsFiniteSet(B) /\ Cardinality(B) <= Cardinality(1 .. L)
    BY <1>3, <2>1, FS_Subset
  <2> QED
    BY <1>3, <2>2, FS_CardinalityType
<1>5. listNo_of(n) = IF k < EXACT_LISTS THEN k ELSE EXACT_LISTS + Cardinality(B)
  BY DEF listNo_of, pszB_to_listNo, bszB_to_pszB
<1> HIDE DEF B, k, L
<1>6. Lists = 0 .. EXACT_LISTS + L
  BY <1>1, ListsAssumption DEF Lists, N_MALLOC_LISTS, L
<1> QED
  BY <1>1, <1>2, <1>4, <1>5, <1>6, ListsAssumption

LEMMA ListNoGrows ==
  ASSUME NEW n \in Nat, n >= overhead_szB, NEW m \in Nat, n <= m
  PROVE  listNo_of(n) <= listNo_of(m)
PROOF
<1> DEFINE V == VG_MIN_MALLOC_SZB
           k == (n - overhead_szB) \div V
           l == (m - overhead_szB) \div V
           B(x) == {i \in DOMAIN ListBounds : ListBounds[i] <= x}
<1>1. k \in Nat /\ l \in Nat /\ k <= l
  <2> DEFINE x == n - overhead_szB
             y == m - overhead_szB
  <2>1. x \in Nat /\ y \in Nat /\ x <= y /\ V \in Nat \ {0}
    BY Overhead, SizesAssumption
  <2> HIDE DEF x, y, V
  <2>2. \A a, b \in Nat : a <= b => a \div V <= b \div V
    BY <2>1
  <2>3. x \div V \in Nat /\ y \div V \in Nat
    BY <2>1, DivMod
  <2> QED
    BY <2>1, <2>2, <2>3 DEF x, y
<1>2. IsFiniteSet(DOMAIN ListBounds)
  BY ListsAssumption, FS_Interval
<1> HIDE DEF k, l
<1>3. B(k) \subseteq B(l) /\ B(l) \subseteq DOMAIN ListBounds
  <2>1. \A i \in DOMAIN ListBounds : ListBounds[i] \in Nat
    BY ListsAssumption
  <2> QED
    BY <1>1, <2>1
<1>4. IsFiniteSet(B(l))
  <2> HIDE DEF B
  <2> QED
    BY <1>2, <1>3, FS_Subset
<1>5. Cardinality(B(k)) <= Cardinality(B(l)) /\ Cardinality(B(k)) \in Nat /\ Cardinality(B(l)) \in Nat
  <2> HIDE DEF B
  <2>1. IsFiniteSet(B(k)) /\ Cardinality(B(k)) <= Cardinality(B(l))
    BY <1>3, <1>4, FS_Subset
  <2> QED
    BY <1>4, <2>1, FS_CardinalityType
<1>6. /\ listNo_of(n) = IF k < EXACT_LISTS THEN k ELSE EXACT_LISTS + Cardinality(B(k))
      /\ listNo_of(m) = IF l < EXACT_LISTS THEN l ELSE EXACT_LISTS + Cardinality(B(l))
  BY DEF listNo_of, pszB_to_listNo, bszB_to_pszB, k, l
<1> HIDE DEF B
<1> QED
  BY <1>1, <1>5, <1>6, ListsAssumption

(* The lists fl hold the blocks of which F gives the size. *)
Linked(fl, F) ==
  /\ fl \in [Lists -> Seq(Nat)]
  /\ \A l \in Lists : IsInjective(fl[l])
  /\ \A l \in Lists : Range(fl[l]) = {b \in DOMAIN F : listNo_of(F[b]) = l}

Without(F, b) == [c \in DOMAIN F \ {b} |-> F[c]]
With(F, b, n) == [c \in DOMAIN F \cup {b} |-> IF c = b THEN n ELSE F[c]]

(* The lists once b has left, or joined, the list l. *)
Left(fl, l, b)   == [fl EXCEPT ![l] = unlinked(@, b)]
Joined(fl, l, b) == [fl EXCEPT ![l] = Append(@, b)]

LEMMA UnlinkLinked ==
  ASSUME NEW fl, NEW F, Linked(fl, F), NEW b \in DOMAIN F, NEW l \in Lists, l = listNo_of(F[b])
  PROVE  Linked(Left(fl, l, b), Without(F, b))
PROOF
<1> DEFINE s == unlinked(fl[l], b)
           g == [fl EXCEPT ![l] = s]
<1>1. fl \in [Lists -> Seq(Nat)] /\ IsInjective(fl[l]) /\ b \in Range(fl[l]) /\ fl[l] \in Seq(Nat)
  BY DEF Linked
<1>2. s \in Seq(Nat) /\ IsInjective(s) /\ Range(s) = Range(fl[l]) \ {b}
  BY <1>1, UnlinkedRing
<1> HIDE DEF s
<1>3. g \in [Lists -> Seq(Nat)]
  BY <1>1, <1>2
<1>4. ASSUME NEW m \in Lists
      PROVE  IsInjective(g[m]) /\ Range(g[m]) = {c \in DOMAIN Without(F, b) : listNo_of(Without(F, b)[c]) = m}
  <2>1. {c \in DOMAIN Without(F, b) : listNo_of(Without(F, b)[c]) = m} = {c \in DOMAIN F : listNo_of(F[c]) = m} \ {b}
    BY DEF Without
  <2>2. CASE m = l
    <3>1. g[m] = s
      BY <1>1, <2>2
    <3> QED
      BY <1>2, <2>1, <2>2, <3>1 DEF Linked
  <2>3. CASE m # l
    <3>1. g[m] = fl[m]
      BY <1>1, <2>3
    <3>2. b \notin Range(fl[m])
      BY <2>3 DEF Linked
    <3> QED
      BY <2>1, <3>1, <3>2 DEF Linked
  <2> QED
    BY <2>2, <2>3
<1> HIDE DEF g
<1>5. Linked(g, Without(F, b))
  BY <1>3, <1>4 DEF Linked
<1> QED
  BY <1>5 DEF g, s, Left

LEMMA AppendRing ==
  ASSUME NEW s \in Seq(Nat), IsInjective(s), NEW b \in Nat, b \notin Range(s)
  PROVE  Append(s, b) \in Seq(Nat) /\ IsInjective(Append(s, b)) /\ Range(Append(s, b)) = Range(s) \cup {b}
PROOF
<1> DEFINE t == Append(s, b)
           n == Len(s)
<1>1. n \in Nat /\ DOMAIN s = 1 .. n
  OBVIOUS
<1>2. t \in Seq(Nat) /\ DOMAIN t = 1 .. n + 1 /\ t[n + 1] = b /\ \A i \in 1 .. n : t[i] = s[i]
  OBVIOUS
<1> HIDE DEF t, n
<1>3. \A i \in 1 .. n : s[i] # b
  BY <1>1 DEF Range
<1>4. \A i \in 1 .. n + 1 : i \in 1 .. n \/ i = n + 1
  BY <1>1
<1>5. \A i \in 1 .. n : i \in 1 .. n + 1
  BY <1>1
<1>6. n + 1 \in 1 .. n + 1
  BY <1>1
<1>7. IsInjective(t)
  <2>1. ASSUME NEW i \in 1 .. n + 1, NEW j \in 1 .. n + 1, t[i] = t[j] PROVE i = j
    <3>1. CASE i \in 1 .. n /\ j \in 1 .. n
      BY <1>1, <1>2, <2>1, <3>1 DEF IsInjective
    <3>2. CASE i = n + 1 \/ j = n + 1
      BY <1>2, <1>3, <1>4, <2>1, <3>2
    <3> QED
      BY <1>4, <3>1, <3>2
  <2> QED
    BY <1>2, <2>1 DEF IsInjective
<1>8. Range(t) = Range(s) \cup {b}
  <2>1. Range(t) = {t[i] : i \in 1 .. n + 1} /\ Range(s) = {s[i] : i \in 1 .. n}
    BY <1>1, <1>2 DEF Range
  <2>2. \A x \in Range(t) : x \in Range(s) \cup {b}
    BY <1>2, <1>4, <2>1
  <2>3. \A x \in Range(s) : x \in Range(t)
    BY <1>2, <1>5, <2>1
  <2>4. b \in Range(t)
    BY <1>2, <1>6, <2>1
  <2> QED
    BY <2>2, <2>3, <2>4
<1> QED
  BY <1>2, <1>7, <1>8 DEF t

LEMMA LinkLinked ==
  ASSUME NEW fl, NEW F, Linked(fl, F), NEW b \in Nat, b \notin DOMAIN F,
         NEW n, NEW l \in Lists, l = listNo_of(n)
  PROVE  Linked(Joined(fl, l, b), With(F, b, n))
PROOF
<1> DEFINE s == Append(fl[l], b)
           g == [fl EXCEPT ![l] = s]
<1>1. fl \in [Lists -> Seq(Nat)] /\ IsInjective(fl[l]) /\ b \notin Range(fl[l]) /\ fl[l] \in Seq(Nat)
  BY DEF Linked
<1>2. s \in Seq(Nat) /\ IsInjective(s) /\ Range(s) = Range(fl[l]) \cup {b}
  BY <1>1, AppendRing
<1> HIDE DEF s
<1>3. g \in [Lists -> Seq(Nat)]
  BY <1>1, <1>2
<1>4. ASSUME NEW m \in Lists
      PROVE  IsInjective(g[m]) /\ Range(g[m]) = {c \in DOMAIN With(F, b, n) : listNo_of(With(F, b, n)[c]) = m}
  <2>1. {c \in DOMAIN With(F, b, n) : listNo_of(With(F, b, n)[c]) = m}
          = {c \in DOMAIN F : listNo_of(F[c]) = m} \cup (IF m = l THEN {b} ELSE {})
    BY DEF With
  <2>2. CASE m = l
    <3>1. g[m] = s
      BY <1>1, <2>2
    <3> QED
      BY <1>2, <2>1, <2>2, <3>1 DEF Linked
  <2>3. CASE m # l
    <3>1. g[m] = fl[m]
      BY <1>1, <2>3
    <3> QED
      BY <2>1, <2>3, <3>1 DEF Linked
  <2> QED
    BY <2>2, <2>3
<1> HIDE DEF g
<1>5. Linked(g, With(F, b, n))
  BY <1>3, <1>4 DEF Linked
<1> QED
  BY <1>5 DEF g, s, Joined

-----------------------------------------------------------------------------
(* The search for the superblock of a block *)

ProbeStep(a, b, g, r) ==
  LET pos == r[1] + (r[2] - r[1]) \div 2
      s == a.sblocks[pos + 1]
  IN  IF r[1] > r[2] \/ pos >= Len(a.sblocks) THEN NULL
      ELSE IF payload_bytes(s) <= b /\ b < sb_end(a, s) THEN s
      ELSE IF payload_bytes(s) <= b THEN g[<<pos + 1, r[2]>>]
      ELSE g[<<r[1], pos - 1>>]

Probes(n) == (0 .. n + 1) \X (-1 .. n)

Width(r) == IF r[1] > r[2] THEN 0 ELSE r[2] - r[1] + 1

(* The places that are probed next are in a smaller range. *)
LEMMA Narrower ==
  ASSUME NEW n \in Nat, NEW r \in Probes(n), NEW pos, pos = r[1] + (r[2] - r[1]) \div 2,
         r[1] <= r[2], pos < n
  PROVE  /\ pos \in r[1] .. r[2] /\ pos \in 0 .. n - 1
         /\ <<pos + 1, r[2]>> \in Probes(n) /\ Width(<<pos + 1, r[2]>>) < Width(r)
         /\ <<r[1], pos - 1>> \in Probes(n) /\ Width(<<r[1], pos - 1>>) < Width(r)
PROOF
<1>1. r[1] \in 0 .. n + 1 /\ r[2] \in -1 .. n
  BY DEF Probes
<1>2. pos \in r[1] .. r[2]
  BY <1>1
<1>3. pos \in 0 .. n - 1
  BY <1>1, <1>2
<1>4. <<pos + 1, r[2]>> \in Probes(n) /\ <<r[1], pos - 1>> \in Probes(n)
  BY <1>1, <1>3 DEF Probes
<1>5. Width(<<pos + 1, r[2]>>) < Width(r)
  BY <1>1, <1>2 DEF Width
<1>6. Width(<<r[1], pos - 1>>) < Width(r)
  BY <1>1, <1>2 DEF Width
<1> QED
  BY <1>2, <1>3, <1>4, <1>5, <1>6

LEMMA ProbeExists ==
  ASSUME NEW a, NEW b, Len(a.sblocks) \in Nat
  PROVE  \E g : g = [r \in Probes(Len(a.sblocks)) |-> ProbeStep(a, b, g, r)]
PROOF
<1> DEFINE n == Len(a.sblocks)
           D(m) == {r \in Probes(n) : Width(r) <= m}
           Steps(g, m) == g = [r \in D(m) |-> ProbeStep(a, b, g, r)]
           Bad == {m \in Nat : ~ \E g : Steps(g, m)}
<1>0. \A r \in Probes(n) : Width(r) \in 0 .. n + 1
  BY DEF Width, Probes
<1>1. ASSUME Bad # {} PROVE FALSE
  <2>0. Bad \in SUBSET Nat
    OBVIOUS
  <2>1. PICK m \in Bad : \A k \in Bad : m <= k
    <3> HIDE DEF Bad
    <3> QED
      BY <1>1, <2>0, LeastNat
  <2>2. m # 0
    <3>1. \A r \in D(0) : r[1] > r[2]
      BY DEF Width, Probes
    <3>2. \A g : \A r \in D(0) : ProbeStep(a, b, g, r) = NULL
      BY <3>1 DEF ProbeStep
    <3>3. Steps([r \in D(0) |-> NULL], 0)
      <4> HIDE DEF D
      <4> QED
        BY <3>2
    <3> QED
      BY <2>1, <3>3, ZenonT(60)
  <2>3. m - 1 \in Nat /\ m - 1 \notin Bad /\ m \in Nat
    <3> HIDE DEF Bad
    <3> QED
      BY <2>0, <2>1, <2>2
  <2>4. PICK g : Steps(g, m - 1)
    BY <2>3
  <2> DEFINE h == [r \in D(m) |-> IF r \in D(m - 1) THEN g[r] ELSE ProbeStep(a, b, g, r)]
  <2>5. D(m - 1) \subseteq D(m)
    BY <1>0, <2>3
  <2>6. ASSUME NEW r \in D(m) PROVE ProbeStep(a, b, h, r) = ProbeStep(a, b, g, r)
    <3> DEFINE pos == r[1] + (r[2] - r[1]) \div 2
    <3>1. r \in Probes(n) /\ Width(r) <= m
      BY SMTT(30)
    <3>2. CASE r[1] > r[2] \/ pos >= n
      BY <3>2 DEF ProbeStep
    <3>3. CASE ~ (r[1] > r[2] \/ pos >= n)
      <4>1. r[1] <= r[2] /\ pos < n
        <5>1. r[1] \in Int /\ r[2] \in Int
          BY <3>1 DEF Probes
        <5> QED
          BY <3>3, <5>1
      <4>2. <<pos + 1, r[2]>> \in D(m - 1) /\ <<r[1], pos - 1>> \in D(m - 1)
        <5> HIDE DEF pos
        <5>1. /\ <<pos + 1, r[2]>> \in Probes(n) /\ Width(<<pos + 1, r[2]>>) < Width(r)
              /\ <<r[1], pos - 1>> \in Probes(n) /\ Width(<<r[1], pos - 1>>) < Width(r)
          BY <3>1, <4>1, Narrower DEF pos
        <5> QED
          BY <1>0, <2>3, <3>1, <5>1
      <4>3. h[<<pos + 1, r[2]>>] = g[<<pos + 1, r[2]>>] /\ h[<<r[1], pos - 1>>] = g[<<r[1], pos - 1>>]
        <5> HIDE DEF D, pos
        <5> QED
          BY <2>5, <4>2
      <4> HIDE DEF h
      <4> QED
        BY <4>3 DEF ProbeStep
    <3> QED
      BY <3>2, <3>3
  <2>7. Steps(h, m)
    <3>1. \A r \in D(m) : h[r] = ProbeStep(a, b, g, r)
      <4> HIDE DEF D
      <4> QED
        BY <2>4, <2>5
    <3> HIDE DEF D
    <3>2. \A r \in D(m) : h[r] = ProbeStep(a, b, h, r)
      BY <2>6, <3>1
    <3> QED
      BY <3>2
  <2> QED
    BY <2>1, <2>7
<1>2. \E g : Steps(g, n + 1)
  <2>1. n + 1 \in Nat
    OBVIOUS
  <2> HIDE DEF n, Steps
  <2> QED
    BY <1>1, <2>1
<1>3. D(n + 1) = Probes(n)
  BY <1>0
<1> QED
  BY <1>2, <1>3

(* Superblocks, of which sb gives the size, are apart, and q is the sorted *)
(* array of them.                                                          *)
Superblocks(sb, q) ==
  /\ DOMAIN sb \subseteq Nat \ {0} /\ IsFiniteSet(DOMAIN sb)
  /\ \A s \in DOMAIN sb : /\ sb[s] \in Nat /\ sb[s] % VG_MIN_MALLOC_SZB = 0 /\ s % VG_MIN_MALLOC_SZB = 0
                          /\ s .. s + SB_ADMIN + sb[s] - 1 \subseteq Space
  /\ \A s, t \in DOMAIN sb : s < t => s + SB_ADMIN + sb[s] <= t
  /\ q \in Seq(Nat) /\ Increasing(q) /\ Range(q) = DOMAIN sb

LEMMA findSbFinds ==
  ASSUME NEW a, Superblocks(a.sb, a.sblocks), NEW s \in DOMAIN a.sb, NEW b \in Nat,
         payload_bytes(s) <= b, b < sb_end(a, s)
  PROVE  findSb(a, b) = s
PROOF
<1> DEFINE q == a.sblocks
           n == Len(q)
           F == CHOOSE g : g = [r \in Probes(n) |-> ProbeStep(a, b, g, r)]
<1>1. n \in Nat /\ q \in Seq(Nat) /\ DOMAIN q = 1 .. n
  BY DEF Superblocks
<1>2. findSb(a, b) = F[<<0, n>>]
  BY DEF findSb, ProbeStep, Probes
<1>3. \A r \in Probes(n) : F[r] = ProbeStep(a, b, F, r)
  <2>1. F = [r \in Probes(n) |-> ProbeStep(a, b, F, r)]
    BY <1>1, ProbeExists
  <2> HIDE DEF F
  <2> QED
    BY <2>1
<1>4. PICK j \in 1 .. n : q[j] = s
  BY <1>1 DEF Superblocks, Range
<1> HIDE DEF F
<1>5. ASSUME NEW i \in 1 .. n
      PROVE  /\ i = j => payload_bytes(q[i]) <= b /\ b < sb_end(a, q[i])
             /\ i < j => payload_bytes(q[i]) <= b /\ ~ (b < sb_end(a, q[i]))
             /\ i > j => ~ (payload_bytes(q[i]) <= b)
  <2>1. q[i] \in DOMAIN a.sb /\ q[i] \in Nat /\ a.sb[q[i]] \in Nat /\ s \in Nat /\ a.sb[s] \in Nat
    BY <1>1 DEF Superblocks, Range
  <2>2. CASE i < j
    <3>1. q[i] < s
      BY <1>1, <1>4, <2>2 DEF Superblocks, Increasing
    <3>2. q[i] + SB_ADMIN + a.sb[q[i]] <= s
      BY <2>1, <3>1 DEF Superblocks
    <3>3. payload_bytes(q[i]) = q[i] + SB_ADMIN /\ sb_end(a, q[i]) = q[i] + SB_ADMIN + a.sb[q[i]]
      BY DEF payload_bytes, sb_end
    <3>4. s + SB_ADMIN <= b /\ b < s + SB_ADMIN + a.sb[s] /\ i # j /\ ~ (i > j)
      BY <1>1, <1>4, <2>2 DEF payload_bytes, sb_end
    <3> HIDE DEF q
    <3> QED
      BY <2>1, <3>2, <3>3, <3>4, SizesAssumption, SMTT(30)
  <2>3. CASE i > j
    <3>1. s < q[i]
      BY <1>1, <1>4, <2>3 DEF Superblocks, Increasing
    <3>2. s + SB_ADMIN + a.sb[s] <= q[i]
      BY <2>1, <3>1 DEF Superblocks
    <3>3. payload_bytes(q[i]) = q[i] + SB_ADMIN /\ sb_end(a, q[i]) = q[i] + SB_ADMIN + a.sb[q[i]]
      BY DEF payload_bytes, sb_end
    <3>4. s + SB_ADMIN <= b /\ b < s + SB_ADMIN + a.sb[s] /\ i # j /\ ~ (i < j)
      BY <1>1, <1>4, <2>3 DEF payload_bytes, sb_end
    <3> HIDE DEF q
    <3> QED
      BY <2>1, <3>2, <3>3, <3>4, SizesAssumption, SMTT(30)
  <2>4. CASE i = j
    BY <1>4, <2>4
  <2> QED
    BY <2>2, <2>3, <2>4
<1> DEFINE Good(r) == j - 1 \in r[1] .. r[2] => F[r] = s
           Bad == {m \in Nat : \E r \in Probes(n) : Width(r) = m /\ ~ Good(r)}
<1>6. ASSUME Bad # {} PROVE FALSE
  <2>0. Bad \in SUBSET Nat
    OBVIOUS
  <2>1. PICK m \in Bad : \A k \in Bad : m <= k
    <3> HIDE DEF Bad
    <3> QED
      BY <1>6, <2>0, LeastNat
  <2>2. PICK r \in Probes(n) : Width(r) = m /\ ~ Good(r)
    BY <2>1
  <2> DEFINE pos == r[1] + (r[2] - r[1]) \div 2
  <2>3. j - 1 \in r[1] .. r[2] /\ F[r] # s /\ r[1] \in 0 .. n + 1 /\ r[2] \in -1 .. n
    BY <2>2 DEF Probes
  <2>4. r[1] <= r[2] /\ pos < n /\ pos \in Int
    BY <1>1, <2>3, SMTT(30)
  <2>5. /\ pos \in r[1] .. r[2] /\ pos \in 0 .. n - 1
        /\ <<pos + 1, r[2]>> \in Probes(n) /\ Width(<<pos + 1, r[2]>>) < Width(r)
        /\ <<r[1], pos - 1>> \in Probes(n) /\ Width(<<r[1], pos - 1>>) < Width(r)
    <3> HIDE DEF pos
    <3> QED
      BY <1>1, <2>4, Narrower DEF pos
  <2>6. \A p \in Probes(n) : Width(p) < Width(r) => Good(p)
    <3>1. \A p \in Probes(n) : Width(p) \in Nat
      BY <1>1 DEF Width, Probes
    <3> HIDE DEF Good
    <3> QED
      BY <2>1, <2>2, <3>1
  <2>7. F[r] = ProbeStep(a, b, F, r)
    BY <1>3, <2>2
  <2>8. pos + 1 \in 1 .. n
    BY <1>1, <2>5, SMTT(30)
  <2>9. CASE pos + 1 = j
    <3>1. ProbeStep(a, b, F, r) = q[pos + 1]
      <4>1. ~ (r[1] > r[2] \/ pos >= n)
        BY <1>1, <2>3, <2>4, SMTT(30)
      <4> HIDE DEF pos
      <4> QED
        BY <1>5, <2>8, <2>9, <4>1 DEF ProbeStep, pos
    <3> QED
      BY <1>4, <2>3, <2>7, <2>9, <3>1
  <2>10. CASE pos + 1 < j
    <3>1. ProbeStep(a, b, F, r) = F[<<pos + 1, r[2]>>]
      <4>1. ~ (r[1] > r[2] \/ pos >= n)
        BY <1>1, <2>3, <2>4, SMTT(30)
      <4> HIDE DEF pos
      <4> QED
        BY <1>5, <2>8, <2>10, <4>1 DEF ProbeStep, pos
    <3>2. Good(<<pos + 1, r[2]>>)
      BY <2>5, <2>6
    <3>3. j - 1 \in pos + 1 .. r[2]
      BY <2>3, <2>5, <2>10
    <3> HIDE DEF pos
    <3> QED
      BY <2>3, <2>7, <3>1, <3>2, <3>3
  <2>11. CASE pos + 1 > j
    <3>1. ProbeStep(a, b, F, r) = F[<<r[1], pos - 1>>]
      <4>1. ~ (r[1] > r[2] \/ pos >= n)
        BY <1>1, <2>3, <2>4
      <4> HIDE DEF pos
      <4> QED
        BY <1>5, <2>8, <2>11, <4>1 DEF ProbeStep, pos
    <3>2. Good(<<r[1], pos - 1>>)
      BY <2>5, <2>6
    <3>3. j - 1 \in r[1] .. pos - 1
      BY <2>3, <2>5, <2>11
    <3> HIDE DEF pos
    <3> QED
      BY <2>3, <2>7, <3>1, <3>2, <3>3
  <2> QED
    BY <2>8, <2>9, <2>10, <2>11
<1>7. <<0, n>> \in Probes(n) /\ Width(<<0, n>>) \in Nat
  BY <1>1 DEF Probes, Width
<1>8. Good(<<0, n>>)
  <2> HIDE DEF Good
  <2> QED
    BY <1>6, <1>7
<1>9. j - 1 \in 0 .. n
  BY <1>1
<1> QED
  BY <1>2, <1>8, <1>9

LEMMA InsertedSorted ==
  ASSUME NEW q \in Seq(Nat), Increasing(q), NEW s \in Nat, s \notin Range(q)
  PROVE  inserted(q, s) \in Seq(Nat) /\ Increasing(inserted(q, s)) /\ Range(inserted(q, s)) = Range(q) \cup {s}
PROOF
<1> DEFINE n == Len(q)
           X == {m \in 0 .. n : m = n \/ q[m + 1] > s}
           B == {i \in DOMAIN q : q[i] <= s}
<1>1. n \in Nat /\ DOMAIN q = 1 .. n /\ \A i \in 1 .. n : q[i] \in Nat
  OBVIOUS
<1>2. PICK m \in X : \A x \in X : m <= x
  <2>1. X \in SUBSET Nat /\ n \in X
    BY <1>1
  <2> HIDE DEF X
  <2> QED
    BY <2>1, LeastNat
<1>3. m \in 0 .. n /\ (m # n => q[m + 1] > s)
  BY <1>2
<1> HIDE DEF n
<1>4. ASSUME NEW i \in 1 .. m PROVE i \in 1 .. n /\ q[i] <= s
  <2>1. i - 1 \in 0 .. n /\ i - 1 # n /\ i - 1 < m /\ i \in 1 .. n /\ (i - 1) + 1 = i
    BY <1>1, <1>3
  <2>2. i - 1 \notin X
    <3>1. m \in Nat /\ i \in Nat
      BY <1>1, <1>3, <2>1
    <3> HIDE DEF X
    <3> QED
      BY <1>2, <2>1, <3>1
  <2>3. ~ (q[i] > s)
    BY <2>1, <2>2
  <2> QED
    BY <1>1, <2>1, <2>3
<1>5. ASSUME NEW i \in m + 1 .. n PROVE i \in 1 .. n /\ q[i] > s
  <2>1. i \in 1 .. n /\ m + 1 \in 1 .. n /\ m # n
    BY <1>1, <1>3
  <2>2. q[m + 1] > s
    BY <1>3, <2>1
  <2>3. m + 1 = i \/ q[m + 1] < q[i]
    BY <1>1, <1>3, <2>1, SMTT(30) DEF Increasing
  <2> QED
    BY <1>1, <2>1, <2>2, <2>3
<1>6. B = 1 .. m
  <2>1. \A i \in 1 .. n : i \in 1 .. m \/ i \in m + 1 .. n
    BY <1>3
  <2>2. \A i \in 1 .. n : q[i] <= s <=> i \in 1 .. m
    BY <1>1, <1>4, <1>5, <2>1
  <2> QED
    BY <1>1, <1>4, <2>2
<1>7. Cardinality(B) = m
  <2>1. 1 \in Int /\ m \in Int /\ (1 > m => m = 0) /\ m - 1 + 1 = m
    BY <1>3
  <2> HIDE DEF B
  <2> QED
    BY <1>6, <2>1, FS_Interval
<1> DEFINE t == inserted(q, s)
<1>8. t = SubSeq(q, 1, m) \o <<s>> \o SubSeq(q, m + 1, n)
  BY <1>7 DEF inserted, n
<1> HIDE DEF X, B
<1>9. /\ t \in Seq(Nat) /\ Len(t) = n + 1
      /\ \A i \in 1 .. n + 1 : t[i] = IF i <= m THEN q[i] ELSE IF i = m + 1 THEN s ELSE q[i - 1]
  <2> DEFINE u == SubSeq(q, 1, m)
             v == SubSeq(q, m + 1, n)
  <2>1. u \in Seq(Nat) /\ Len(u) = m /\ \A i \in 1 .. m : u[i] = q[i]
    <3>1. 1 \in Int /\ m \in Int /\ \A i \in 1 .. m : q[i] \in Nat
      BY <1>1, <1>3, <1>4
    <3>2. u \in Seq(Nat)
      BY <3>1
    <3>3. Len(u) = m
      BY <1>3, <3>1
    <3>4. ASSUME NEW i \in 1 .. m PROVE u[i] = q[i]
      <4>1. u[i] = q[1 + i - 1]
        BY <3>1
      <4>2. 1 + i - 1 = i
        BY <1>3
      <4> QED
        BY <4>1, <4>2
    <3> QED
      BY <3>2, <3>3, <3>4
  <2>2. v \in Seq(Nat) /\ Len(v) = n - m /\ \A i \in 1 .. n - m : v[i] = q[m + i]
    <3>1. m + 1 \in Int /\ n \in Int /\ \A i \in m + 1 .. n : q[i] \in Nat
      BY <1>1, <1>3
    <3>2. v \in Seq(Nat)
      BY <1>1, <1>3, <3>1
    <3>3. Len(v) = n - m
      BY <1>1, <1>3, <3>1
    <3>4. ASSUME NEW i \in 1 .. n - m PROVE v[i] = q[m + i]
      <4>1. v[i] = q[(m + 1) + i - 1]
        BY <1>1, <1>3, <3>1
      <4>2. (m + 1) + i - 1 = m + i
        BY <1>1, <1>3
      <4> QED
        BY <4>1, <4>2
    <3> QED
      BY <3>2, <3>3, <3>4
  <2> HIDE DEF u, v, t
  <2>3. /\ u \o <<s>> \in Seq(Nat) /\ Len(u \o <<s>>) = m + 1
        /\ \A i \in 1 .. m + 1 : (u \o <<s>>)[i] = IF i <= m THEN q[i] ELSE s
    BY <1>3, <2>1
  <2> DEFINE w == u \o <<s>>
  <2> HIDE DEF w
  <2>4. t = w \o v
    BY <1>8 DEF u, v, w
  <2>5. /\ w \in Seq(Nat) /\ Len(w) = m + 1 
        /\ \A i \in 1 .. m + 1 : w[i] = IF i <= m THEN q[i] ELSE s
    BY <2>3 DEF w
  <2>6. t \in Seq(Nat) /\ Len(t) = n + 1
    <3>1. w \o v \in Seq(Nat) /\ Len(w \o v) = Len(w) + Len(v)
      <4>1. w \in Seq(Nat) /\ v \in Seq(Nat)
        BY <2>2, <2>5
      <4> QED
        BY <4>1
    <3>2. Len(w) + Len(v) = n + 1
      BY <1>1, <1>3, <2>2, <2>5
    <3> QED
      BY <2>4, <3>1, <3>2
  <2>7. ASSUME NEW i \in 1 .. n + 1
        PROVE  t[i] = IF i <= m THEN q[i] ELSE IF i = m + 1 THEN s ELSE q[i - 1]
    <3>1. CASE i <= m + 1
      <4>1. i \in 1 .. m + 1
        BY <1>3, <3>1
      <4>2. t[i] = w[i]
        BY <1>1, <1>3, <2>2, <2>4, <2>5, <4>1
      <4> QED
        BY <1>3, <2>5, <4>1, <4>2
    <3>2. CASE i > m + 1
      <4>1. i - (m + 1) \in 1 .. n - m /\ m + (i - (m + 1)) = i - 1 /\ ~ (i <= m) /\ i # m + 1
        BY <1>1, <1>3, <3>2
      <4>2. t[i] = v[i - (m + 1)]
        <5>1. i \in Len(w) + 1 .. Len(w) + Len(v)
          BY <1>1, <1>3, <2>2, <2>5, <3>2
        <5>2. (w \o v)[i] = v[i - Len(w)]
          BY <2>2, <2>5, <5>1, SMTT(30)
        <5> QED
          BY <2>4, <2>5, <5>2
      <4> QED
        BY <2>2, <4>1, <4>2
    <3> QED
      BY <1>3, <3>1, <3>2
  <2> QED
    BY <2>6, <2>7
<1> HIDE DEF t
<1>10. DOMAIN t = 1 .. n + 1
  BY <1>9
<1>11. ASSUME NEW i \in 1 .. n + 1, NEW j \in 1 .. n + 1, i < j PROVE t[i] < t[j]
  <2>1. \A k, l \in 1 .. n : k < l => q[k] < q[l]
    BY <1>1 DEF Increasing
  <2>2. ASSUME NEW k \in 1 .. n, q[k] = s PROVE FALSE
    BY <1>1, <2>2 DEF Range
  <2>3. \A k \in 1 .. m : k \in 1 .. n /\ q[k] < s
    BY <1>1, <1>4, <2>2
  <2>4. \A k \in m + 1 .. n : k \in 1 .. n /\ q[k] > s
    BY <1>5
  <2>5. CASE j <= m
    <3>1. i \in 1 .. n /\ j \in 1 .. n /\ i <= m
      BY <1>1, <1>3, <1>11, <2>5
    <3>2. t[i] = q[i] /\ t[j] = q[j]
      BY <1>9, <2>5, <3>1
    <3> QED
      BY <1>11, <2>1, <3>1, <3>2
  <2>6. CASE j = m + 1
    <3>1. i \in 1 .. m /\ i <= m /\ ~ (j <= m)
      BY <1>1, <1>3, <1>11, <2>6
    <3>2. t[i] = q[i] /\ t[j] = s
      BY <1>9, <2>6, <3>1
    <3> QED
      BY <2>3, <3>1, <3>2
  <2>7. CASE j > m + 1
    <3>1. j - 1 \in m + 1 .. n /\ t[j] = q[j - 1]
      BY <1>1, <1>3, <1>9, <2>7
    <3>2. CASE i <= m
      <4>1. i \in 1 .. n /\ t[i] = q[i] /\ i < j - 1 /\ j - 1 \in 1 .. n
        BY <1>1, <1>3, <1>9, <3>1, <3>2
      <4> QED
        BY <2>1, <3>1, <4>1
    <3>3. CASE i = m + 1
      BY <1>3, <1>9, <2>4, <3>1, <3>3
    <3>4. CASE i > m + 1
      <4>1. i - 1 \in 1 .. n /\ j - 1 \in 1 .. n /\ i - 1 < j - 1 /\ t[i] = q[i - 1]
        BY <1>1, <1>3, <1>9, <1>11, <3>4
      <4> QED
        BY <2>1, <3>1, <4>1
    <3> QED
      BY <1>3, <3>2, <3>3, <3>4
  <2> QED
    BY <1>3, <2>5, <2>6, <2>7
<1>12. Increasing(t)
  BY <1>10, <1>11 DEF Increasing
<1>13. Range(t) = Range(q) \cup {s}
  <2>1. Range(t) = {t[i] : i \in 1 .. n + 1} /\ Range(q) = {q[i] : i \in 1 .. n}
    BY <1>1, <1>10 DEF Range
  <2>2. ASSUME NEW i \in 1 .. n + 1 PROVE t[i] = s \/ \E j \in 1 .. n : t[i] = q[j]
    <3>1. CASE i <= m
      BY <1>3, <1>4, <1>9, <3>1
    <3>2. CASE i > m + 1
      <4>1. i - 1 \in 1 .. n /\ t[i] = q[i - 1]
        BY <1>1, <1>3, <1>9, <3>2
      <4> QED
        BY <4>1
    <3>3. CASE i = m + 1
      BY <1>3, <1>9, <3>3
    <3> QED
      BY <1>3, <3>1, <3>2, <3>3
  <2>3. ASSUME NEW j \in 1 .. n PROVE \E i \in 1 .. n + 1 : t[i] = q[j]
    <3>1. CASE j <= m
      <4>1. j \in 1 .. n + 1 /\ t[j] = q[j]
        BY <1>1, <1>9, <3>1
      <4> QED
        BY <4>1
    <3>2. CASE j > m
      <4>1. j + 1 \in 1 .. n + 1 /\ ~ (j + 1 <= m) /\ j + 1 # m + 1 /\ (j + 1) - 1 = j
        BY <1>1, <1>3, <3>2
      <4>2. t[j + 1] = q[j]
        BY <1>9, <4>1
      <4> QED
        BY <4>1, <4>2
    <3> QED
      BY <1>3, <3>1, <3>2
  <2>4. m + 1 \in 1 .. n + 1 /\ t[m + 1] = s
    BY <1>1, <1>3, <1>9
  <2>5. \A x \in Range(t) : x \in Range(q) \cup {s}
    BY <2>1, <2>2
  <2>6. \A x \in Range(q) : x \in Range(t)
    BY <2>1, <2>3
  <2>7. s \in Range(t)
    BY <2>1, <2>4
  <2> QED
    BY <2>5, <2>6, <2>7
<1> QED
  BY <1>9, <1>12, <1>13 DEF t

-----------------------------------------------------------------------------
(* Blocks *)

Inside(blk, sb, b, s) == s + SB_ADMIN <= b /\ b + blk[b].bszB <= s + SB_ADMIN + sb[s]

Typed(blk) ==
  /\ DOMAIN blk \subseteq Nat /\ IsFiniteSet(DOMAIN blk)
  /\ \A b \in DOMAIN blk :
       /\ blk[b].bszB \in Nat /\ blk[b].bszB >= overhead_szB /\ blk[b].inuse \in BOOLEAN
       /\ b % VG_MIN_MALLOC_SZB = 0 /\ blk[b].bszB % VG_MIN_MALLOC_SZB = 0

Disjoint(blk) == \A b, c \in DOMAIN blk : b < c => b + blk[b].bszB <= c

(* Every block lies in a superblock, and in it one follows the other. *)
Covers(blk, sb) ==
  /\ \A b \in DOMAIN blk : \E s \in DOMAIN sb : Inside(blk, sb, b, s)
  /\ \A s \in DOMAIN sb : s + SB_ADMIN \in DOMAIN blk
  /\ \A b \in DOMAIN blk, s \in DOMAIN sb : Inside(blk, sb, b, s) =>
       /\ b + blk[b].bszB = s + SB_ADMIN + sb[s] \/ b + blk[b].bszB \in DOMAIN blk
       /\ b = s + SB_ADMIN \/ \E c \in DOMAIN blk : c + blk[c].bszB = b

Tiled(blk, sb) == Typed(blk) /\ Disjoint(blk) /\ Covers(blk, sb)

UseOf(blk)  == [b \in {c \in DOMAIN blk : blk[c].inuse} |-> blk[b].bszB]
FreeOf(blk) == [b \in {c \in DOMAIN blk : ~ blk[c].inuse} |-> blk[b].bszB]

Block(n, i) == [bszB |-> n, inuse |-> i]

(* What set_bszB makes of blocks that tile. *)
Resized(blk, b, n, i) == [c \in DOMAIN blk |-> IF c = b THEN Block(n, i) ELSE blk[c]]
Split(blk, b, n, i, j) ==
  [c \in DOMAIN blk \cup {b + n} |->
     IF c = b THEN Block(n, i) ELSE IF c = b + n THEN Block(blk[b].bszB - n, j) ELSE blk[c]]
Fused(blk, b, c, i) ==
  [d \in DOMAIN blk \ {c} |-> IF d = b THEN Block(blk[b].bszB + blk[c].bszB, i) ELSE blk[d]]

LEMMA SetResized ==
  ASSUME NEW blk, Typed(blk), Disjoint(blk), NEW b \in DOMAIN blk, NEW n \in 1 .. blk[b].bszB, NEW i
  PROVE  set_bszB(blk, b, n, i) = Resized(blk, b, n, i)
PROOF
<1>1. ASSUME NEW c \in DOMAIN blk, c # b PROVE c \notin b .. b + n - 1
  <2>1. b \in Nat /\ c \in Nat /\ blk[b].bszB \in Nat
    BY DEF Typed
  <2>2. b < c => b + blk[b].bszB <= c
    BY DEF Disjoint
  <2> QED
    BY <1>1, <2>1, <2>2
<1>2. (DOMAIN blk \ (b .. b + n - 1)) \cup {b} = DOMAIN blk
  BY <1>1
<1> QED
  BY <1>2 DEF set_bszB, Resized, Block

LEMMA SetSplit ==
  ASSUME NEW blk, Typed(blk), Disjoint(blk), NEW b \in DOMAIN blk, NEW n \in 1 .. blk[b].bszB - 1, NEW i, NEW j
  PROVE  set_bszB(set_bszB(blk, b, n, i), b + n, blk[b].bszB - n, j) = Split(blk, b, n, i, j)
PROOF
<1> DEFINE m == blk[b].bszB - n
           R == Resized(blk, b, n, i)
<1>0. b \in Nat /\ blk[b].bszB \in Nat /\ m \in Nat
  BY DEF Typed
<1>1. set_bszB(blk, b, n, i) = R
  BY <1>0, SetResized
<1>2. DOMAIN R = DOMAIN blk
  BY DEF Resized
<1>3. ASSUME NEW c \in DOMAIN blk PROVE c \notin b + n .. b + n + m - 1
  <2>1. c \in Nat
    BY DEF Typed
  <2>2. b < c => b + blk[b].bszB <= c
    BY DEF Disjoint
  <2> QED
    BY <1>0, <2>1, <2>2
<1>4. (DOMAIN R \ (b + n .. b + n + m - 1)) \cup {b + n} = DOMAIN blk \cup {b + n}
  BY <1>2, <1>3
<1>5. b # b + n
  BY <1>0
<1> HIDE DEF m
<1>6. set_bszB(R, b + n, m, j) = [c \in DOMAIN blk \cup {b + n} |-> IF c = b + n THEN Block(m, j) ELSE R[c]]
  BY <1>4 DEF set_bszB, Block
<1>7. \A c \in DOMAIN blk \cup {b + n} : (IF c = b + n THEN Block(m, j) ELSE R[c]) =
        IF c = b THEN Block(n, i) ELSE IF c = b + n THEN Block(m, j) ELSE blk[c]
  BY <1>5 DEF Resized
<1> QED
  BY <1>1, <1>6, <1>7 DEF Split, m

LEMMA SetFused ==
  ASSUME NEW blk, Typed(blk), Disjoint(blk), NEW b \in DOMAIN blk, NEW c \in DOMAIN blk, c = b + blk[b].bszB, NEW i
  PROVE  set_bszB(blk, b, blk[b].bszB + blk[c].bszB, i) = Fused(blk, b, c, i)
PROOF
<1> DEFINE n == blk[b].bszB + blk[c].bszB
<1>0. b \in Nat /\ c \in Nat /\ blk[b].bszB \in Nat \ {0} /\ blk[c].bszB \in Nat \ {0}
  BY Overhead DEF Typed
<1>1. ASSUME NEW d \in DOMAIN blk PROVE d \in b .. b + n - 1 <=> d = b \/ d = c
  <2>1. d \in Nat
    BY DEF Typed
  <2>2. (b < d => b + blk[b].bszB <= d) /\ (c < d => c + blk[c].bszB <= d)
    BY DEF Disjoint
  <2> QED
    BY <1>0, <2>1, <2>2
<1>2. b # c
  BY <1>0
<1>3. (DOMAIN blk \ (b .. b + n - 1)) \cup {b} = DOMAIN blk \ {c}
  BY <1>1, <1>2
<1> HIDE DEF n
<1>4. set_bszB(blk, b, n, i) = [d \in DOMAIN blk \ {c} |-> IF d = b THEN Block(n, i) ELSE blk[d]]
  BY <1>3 DEF set_bszB, Block
<1> QED
  BY <1>4 DEF Fused, n

(* Blocks and superblocks: a block is in one superblock only. *)
LEMMA OneHome ==
  ASSUME NEW blk, NEW sb, NEW q, Superblocks(sb, q), Typed(blk), NEW b \in DOMAIN blk,
         NEW s \in DOMAIN sb, Inside(blk, sb, b, s), NEW t \in DOMAIN sb,
         t + SB_ADMIN <= b, b < t + SB_ADMIN + sb[t]
  PROVE  s = t
PROOF
<1>1. s \in Nat /\ t \in Nat /\ sb[s] \in Nat /\ sb[t] \in Nat /\ b \in Nat /\ blk[b].bszB \in Nat \ {0}
  BY Overhead DEF Superblocks, Typed
<1>2. (s < t => s + SB_ADMIN + sb[s] <= t) /\ (t < s => t + SB_ADMIN + sb[t] <= s)
  BY DEF Superblocks
<1> QED
  BY <1>1, <1>2, SizesAssumption DEF Inside

LEMMA ResizedTiled ==
  ASSUME NEW blk, NEW sb, Tiled(blk, sb), NEW b \in DOMAIN blk, NEW i \in BOOLEAN
  PROVE  Tiled(Resized(blk, b, blk[b].bszB, i), sb)
PROOF
<1> DEFINE R == Resized(blk, b, blk[b].bszB, i)
<1>1. DOMAIN R = DOMAIN blk /\ \A c \in DOMAIN blk : R[c].bszB = blk[c].bszB
  BY DEF Resized, Block
<1>2. \A c \in DOMAIN blk : R[c].inuse = IF c = b THEN i ELSE blk[c].inuse
  BY DEF Resized, Block
<1> HIDE DEF R
<1>3. Typed(R)
  BY <1>1, <1>2 DEF Tiled, Typed
<1>4. Disjoint(R)
  BY <1>1 DEF Tiled, Disjoint
<1>5. Covers(R, sb)
  <2>1. \A c \in DOMAIN blk, s \in DOMAIN sb : Inside(R, sb, c, s) <=> Inside(blk, sb, c, s)
    BY <1>1 DEF Inside
  <2> QED
    BY <1>1, <2>1 DEF Tiled, Covers
<1> QED
  BY <1>3, <1>4, <1>5 DEF Tiled, R

LEMMA SplitTiled ==
  ASSUME NEW blk, NEW sb, Tiled(blk, sb), NEW q, Superblocks(sb, q), NEW b \in DOMAIN blk,
         NEW n \in Nat, n >= overhead_szB, n % VG_MIN_MALLOC_SZB = 0,
         blk[b].bszB >= n + overhead_szB, NEW i \in BOOLEAN, NEW j \in BOOLEAN
  PROVE  Tiled(Split(blk, b, n, i, j), sb) /\ b + n \notin DOMAIN blk
PROOF
<1> DEFINE R == Split(blk, b, n, i, j)
           d == b + n
           m == blk[b].bszB - n
<1>0. /\ b \in Nat /\ blk[b].bszB \in Nat /\ m \in Nat /\ m >= overhead_szB /\ d \in Nat /\ b < d
      /\ n + m = blk[b].bszB /\ d + m = b + blk[b].bszB /\ overhead_szB \in Nat \ {0}
  BY Overhead DEF Tiled, Typed
<1>1. \A c \in DOMAIN blk : c \in Nat /\ blk[c].bszB \in Nat \ {0}
  BY Overhead DEF Tiled, Typed
<1>2. \A c \in DOMAIN blk : (b < c => d + m <= c) /\ (c < b => c + blk[c].bszB <= b)
  BY <1>0 DEF Tiled, Disjoint
<1>3. d \notin DOMAIN blk
  BY <1>0, <1>2
<1> HIDE DEF d, m
<1>4. DOMAIN R = DOMAIN blk \cup {d}
  BY DEF Split, d
<1>5. /\ R[b].bszB = n /\ R[b].inuse = i
      /\ R[d].bszB = m /\ R[d].inuse = j
      /\ \A c \in DOMAIN blk : c # b => R[c].bszB = blk[c].bszB /\ R[c].inuse = blk[c].inuse
  BY <1>0, <1>3 DEF Split, Block, d, m
<1> HIDE DEF R
<1>6. Typed(R)
  <2>1. IsFiniteSet(DOMAIN R)
    BY <1>4, FS_AddElement DEF Tiled, Typed
  <2>2. d % VG_MIN_MALLOC_SZB = 0 /\ m % VG_MIN_MALLOC_SZB = 0
    <3>1. b % VG_MIN_MALLOC_SZB = 0 /\ blk[b].bszB % VG_MIN_MALLOC_SZB = 0
      BY DEF Tiled, Typed
    <3>2. VG_MIN_MALLOC_SZB \in Nat \ {0} /\ blk[b].bszB >= n
      BY <1>0, SizesAssumption
    <3>3. (b + n) % VG_MIN_MALLOC_SZB = 0
      BY <1>0, <3>1, <3>2, ModSum
    <3>4. (blk[b].bszB - n) % VG_MIN_MALLOC_SZB = 0
      BY <1>0, <3>1, <3>2, ModSum
    <3> QED
      BY <3>3, <3>4 DEF d, m
  <2>3. DOMAIN R \subseteq Nat
    BY <1>0, <1>1, <1>4
  <2>4. ASSUME NEW c \in DOMAIN R
        PROVE  /\ R[c].bszB \in Nat /\ R[c].bszB >= overhead_szB /\ R[c].inuse \in BOOLEAN
               /\ c % VG_MIN_MALLOC_SZB = 0 /\ R[c].bszB % VG_MIN_MALLOC_SZB = 0
    <3>1. CASE c = b
      BY <1>5, <3>1 DEF Tiled, Typed
    <3>2. CASE c = d
      BY <1>0, <1>5, <2>2, <3>2
    <3>3. CASE c \in DOMAIN blk /\ c # b
      BY <1>5, <3>3 DEF Tiled, Typed
    <3> QED
      BY <1>4, <3>1, <3>2, <3>3
  <2> QED
    BY <2>1, <2>3, <2>4 DEF Typed
<1>7. Disjoint(R)
  <2>1. ASSUME NEW c \in DOMAIN R, NEW e \in DOMAIN R, c < e PROVE c + R[c].bszB <= e
    <3>1. CASE c = b /\ e = d
      BY <1>0, <1>5, <3>1 DEF d
    <3>2. CASE c = b /\ e \in DOMAIN blk
      BY <1>0, <1>1, <1>2, <1>5, <2>1, <3>2 DEF d
    <3>3. CASE c = d /\ e \in DOMAIN blk
      BY <1>0, <1>1, <1>2, <1>5, <2>1, <3>3
    <3>4. CASE c \in DOMAIN blk /\ c # b /\ e = d
      BY <1>0, <1>1, <1>2, <1>5, <2>1, <3>4
    <3>5. CASE c \in DOMAIN blk /\ c # b /\ e \in DOMAIN blk
      BY <1>5, <2>1, <3>5 DEF Tiled, Disjoint
    <3>6. CASE c = d /\ e = d
      BY <1>0, <2>1, <3>6
    <3> QED
      BY <1>4, <3>1, <3>2, <3>3, <3>4, <3>5, <3>6
  <2> QED
    BY <2>1 DEF Disjoint
<1>8. Covers(R, sb)
  <2>0. \A s \in DOMAIN sb : s \in Nat /\ sb[s] \in Nat
    BY DEF Superblocks
  <2>1. \A s \in DOMAIN sb : Inside(blk, sb, b, s) => Inside(R, sb, b, s) /\ Inside(R, sb, d, s)
    BY <1>0, <1>5, <2>0, SizesAssumption DEF Inside
  <2>2. \A s \in DOMAIN sb : Inside(R, sb, b, s) \/ Inside(R, sb, d, s) => Inside(blk, sb, b, s)
    <3>1. PICK t \in DOMAIN sb : Inside(blk, sb, b, t)
      BY DEF Tiled, Covers
    <3>2. ASSUME NEW s \in DOMAIN sb, Inside(R, sb, b, s) PROVE s = t
      <4>1. s + SB_ADMIN <= b /\ b < s + SB_ADMIN + sb[s]
        BY <1>0, <1>5, <2>0, <3>2, SizesAssumption DEF Inside
      <4> QED
        BY <3>1, <4>1, OneHome DEF Tiled
    <3>3. ASSUME NEW s \in DOMAIN sb, Inside(R, sb, d, s) PROVE s = t
      <4>1. s + SB_ADMIN <= d /\ d + m <= s + SB_ADMIN + sb[s]
        BY <1>5, <3>3 DEF Inside
      <4>2. t + SB_ADMIN <= b /\ d + m <= t + SB_ADMIN + sb[t]
        BY <1>0, <3>1 DEF Inside
      <4>3. (s < t => s + SB_ADMIN + sb[s] <= t) /\ (t < s => t + SB_ADMIN + sb[t] <= s)
        BY DEF Superblocks
      <4> QED
        BY <1>0, <2>0, <4>1, <4>2, <4>3, SizesAssumption
    <3> QED
      BY <3>1, <3>2, <3>3
  <2>3. \A c \in DOMAIN blk, s \in DOMAIN sb : c # b => (Inside(R, sb, c, s) <=> Inside(blk, sb, c, s))
    BY <1>5 DEF Inside
  <2>4. \A c \in DOMAIN R : \E s \in DOMAIN sb : Inside(R, sb, c, s)
    BY <1>4, <2>1, <2>3 DEF Tiled, Covers
  <2>5. \A s \in DOMAIN sb : s + SB_ADMIN \in DOMAIN R
    BY <1>4 DEF Tiled, Covers
  <2>6. ASSUME NEW c \in DOMAIN R, NEW s \in DOMAIN sb, Inside(R, sb, c, s)
        PROVE  c + R[c].bszB = s + SB_ADMIN + sb[s] \/ c + R[c].bszB \in DOMAIN R
    <3>1. CASE c = b
      BY <1>4, <1>5, <3>1 DEF d
    <3>2. CASE c = d
      <4>1. Inside(blk, sb, b, s)
        BY <2>2, <2>6, <3>2
      <4>2. d + m = s + SB_ADMIN + sb[s] \/ d + m \in DOMAIN blk
        BY <1>0, <4>1 DEF Tiled, Covers
      <4> QED
        BY <1>4, <1>5, <3>2, <4>2
    <3>3. CASE c \in DOMAIN blk /\ c # b
      BY <1>4, <1>5, <2>3, <2>6, <3>3 DEF Tiled, Covers
    <3> QED
      BY <1>4, <3>1, <3>2, <3>3
  <2>7. ASSUME NEW c \in DOMAIN R, NEW s \in DOMAIN sb, Inside(R, sb, c, s)
        PROVE  c = s + SB_ADMIN \/ \E e \in DOMAIN R : e + R[e].bszB = c
    <3>1. CASE c = d
      <4>1. b \in DOMAIN R /\ b + R[b].bszB = d
        BY <1>4, <1>5 DEF d
      <4> QED
        BY <3>1, <4>1
    <3>2. CASE c \in DOMAIN blk
      <4>1. Inside(blk, sb, c, s)
        BY <2>2, <2>3, <2>6, <2>7, <3>2
      <4>2. CASE c = s + SB_ADMIN
        BY <4>2
      <4>3. CASE c # s + SB_ADMIN
        <5>1. PICK e \in DOMAIN blk : e + blk[e].bszB = c
          BY <3>2, <4>1, <4>3 DEF Tiled, Covers
        <5>2. CASE e = b
          <6>1. d \in DOMAIN R /\ d + R[d].bszB = c
            BY <1>0, <1>4, <1>5, <5>1, <5>2
          <6> QED
            BY <6>1
        <5>3. CASE e # b
          BY <1>4, <1>5, <5>1, <5>3
        <5> QED
          BY <5>2, <5>3
      <4> QED
        BY <4>2, <4>3
    <3> QED
      BY <1>4, <3>1, <3>2
  <2> QED
    BY <2>4, <2>5, <2>6, <2>7 DEF Covers
<1> QED
  BY <1>3, <1>6, <1>7, <1>8 DEF Tiled, R, d

LEMMA FusedTiled ==
  ASSUME NEW blk, NEW sb, Tiled(blk, sb), NEW q, Superblocks(sb, q),
         NEW b \in DOMAIN blk, NEW c \in DOMAIN blk, c = b + blk[b].bszB, NEW i \in BOOLEAN
  PROVE  Tiled(Fused(blk, b, c, i), sb)
PROOF
<1> DEFINE R == Fused(blk, b, c, i)
<1>0. /\ b \in Nat /\ c \in Nat /\ blk[b].bszB \in Nat \ {0} /\ blk[c].bszB \in Nat \ {0} /\ b < c
      /\ blk[b].bszB >= overhead_szB /\ overhead_szB \in Nat
  BY Overhead DEF Tiled, Typed
<1>1. \A d \in DOMAIN blk : d \in Nat /\ blk[d].bszB \in Nat \ {0}
  BY Overhead DEF Tiled, Typed
<1>2. \A d, e \in DOMAIN blk : d < e => d + blk[d].bszB <= e
  BY DEF Tiled, Disjoint
<1>3. DOMAIN R = DOMAIN blk \ {c} /\ b \in DOMAIN R
  BY <1>0 DEF Fused
<1>4. /\ R[b].bszB = blk[b].bszB + blk[c].bszB /\ R[b].inuse = i
      /\ \A d \in DOMAIN R : d # b => R[d].bszB = blk[d].bszB /\ R[d].inuse = blk[d].inuse
  BY <1>3 DEF Fused, Block
<1> HIDE DEF R
<1>5. Typed(R)
  <2>1. IsFiniteSet(DOMAIN R)
    BY <1>3, FS_RemoveElement DEF Tiled, Typed
  <2>2. (blk[b].bszB + blk[c].bszB) % VG_MIN_MALLOC_SZB = 0
    <3>1. VG_MIN_MALLOC_SZB \in Nat \ {0} /\ blk[b].bszB % VG_MIN_MALLOC_SZB = 0 /\ blk[c].bszB % VG_MIN_MALLOC_SZB = 0
      BY SizesAssumption DEF Tiled, Typed
    <3> QED
      BY <1>0, <3>1, ModSum
  <2>3. DOMAIN R \subseteq Nat
    BY <1>1, <1>3
  <2>4. ASSUME NEW d \in DOMAIN R
        PROVE  /\ R[d].bszB \in Nat /\ R[d].bszB >= overhead_szB /\ R[d].inuse \in BOOLEAN
               /\ d % VG_MIN_MALLOC_SZB = 0 /\ R[d].bszB % VG_MIN_MALLOC_SZB = 0
    <3>1. CASE d = b
      <4>1. b % VG_MIN_MALLOC_SZB = 0
        BY DEF Tiled, Typed
      <4> QED
        BY <1>0, <1>4, <2>2, <3>1, <4>1
    <3>2. CASE d # b
      BY <1>3, <1>4, <3>2 DEF Tiled, Typed
    <3> QED
      BY <3>1, <3>2
  <2> QED
    BY <2>1, <2>3, <2>4 DEF Typed
<1>6. Disjoint(R)
  <2>1. ASSUME NEW d \in DOMAIN R, NEW e \in DOMAIN R, d < e PROVE d + R[d].bszB <= e
    <3>1. CASE d = b
      <4>1. c < e
        BY <1>0, <1>1, <1>2, <1>3, <2>1, <3>1
      <4>2. c + blk[c].bszB <= e
        BY <1>2, <1>3, <4>1
      <4> QED
        BY <1>0, <1>1, <1>3, <1>4, <3>1, <4>2
    <3>2. CASE d # b
      BY <1>2, <1>3, <1>4, <2>1, <3>2
    <3> QED
      BY <3>1, <3>2
  <2> QED
    BY <2>1 DEF Disjoint
<1>7. Covers(R, sb)
  <2>0. \A s \in DOMAIN sb : s \in Nat /\ sb[s] \in Nat
    BY DEF Superblocks
  <2>1. PICK t \in DOMAIN sb : Inside(blk, sb, b, t)
    BY DEF Tiled, Covers
  <2>2. Inside(blk, sb, c, t)
    <3>1. PICK s \in DOMAIN sb : Inside(blk, sb, c, s)
      BY DEF Tiled, Covers
    <3>2. (s < t => s + SB_ADMIN + sb[s] <= t) /\ (t < s => t + SB_ADMIN + sb[t] <= s)
      BY DEF Superblocks
    <3>3. s = t
      BY <1>0, <2>0, <2>1, <3>1, <3>2, SizesAssumption DEF Inside
    <3> QED
      BY <3>1, <3>3
  <2>3. Inside(R, sb, b, t)
    BY <1>0, <1>4, <2>0, <2>1, <2>2, SizesAssumption DEF Inside
  <2>4. \A s \in DOMAIN sb : Inside(R, sb, b, s) => s = t
    <3>1. ASSUME NEW s \in DOMAIN sb, Inside(R, sb, b, s) PROVE s = t
      <4>1. s + SB_ADMIN <= b /\ b < s + SB_ADMIN + sb[s]
        BY <1>0, <1>4, <2>0, <3>1, SizesAssumption DEF Inside
      <4> QED
        BY <2>1, <4>1, OneHome DEF Tiled
    <3> QED
      BY <3>1
  <2>5. \A d \in DOMAIN R, s \in DOMAIN sb : d # b => (Inside(R, sb, d, s) <=> Inside(blk, sb, d, s))
    BY <1>4 DEF Inside
  <2>6. \A d \in DOMAIN R : \E s \in DOMAIN sb : Inside(R, sb, d, s)
    BY <1>3, <2>3, <2>5 DEF Tiled, Covers
  <2>7. \A s \in DOMAIN sb : s + SB_ADMIN \in DOMAIN R
    <3>1. ASSUME NEW s \in DOMAIN sb, s + SB_ADMIN = c PROVE FALSE
      <4>1. s = t
        <5>1. (s < t => s + SB_ADMIN + sb[s] <= t) /\ (t < s => t + SB_ADMIN + sb[t] <= s)
          BY DEF Superblocks
        <5> QED
          BY <1>0, <2>0, <2>1, <2>2, <3>1, <5>1, SizesAssumption DEF Inside
      <4> QED
        BY <1>0, <2>0, <2>1, <3>1, <4>1, SizesAssumption DEF Inside
    <3> QED
      BY <1>3, <3>1 DEF Tiled, Covers
  <2>8. ASSUME NEW d \in DOMAIN R, NEW s \in DOMAIN sb, Inside(R, sb, d, s)
        PROVE  d + R[d].bszB = s + SB_ADMIN + sb[s] \/ d + R[d].bszB \in DOMAIN R
    <3>1. CASE d = b
      <4>1. c + blk[c].bszB = t + SB_ADMIN + sb[t] \/ c + blk[c].bszB \in DOMAIN blk
        BY <2>2 DEF Tiled, Covers
      <4>2. c + blk[c].bszB # c /\ b + R[b].bszB = c + blk[c].bszB
        BY <1>0, <1>4
      <4> QED
        BY <1>3, <2>4, <2>8, <3>1, <4>1, <4>2
    <3>2. CASE d # b
      <4>1. d + blk[d].bszB = s + SB_ADMIN + sb[s] \/ d + blk[d].bszB \in DOMAIN blk
        BY <1>3, <2>5, <2>8, <3>2 DEF Tiled, Covers
      <4>2. d + blk[d].bszB # c
        <5>1. (d < b => d + blk[d].bszB <= b) /\ (b < d => c <= d)
          BY <1>2, <1>3
        <5> QED
          BY <1>0, <1>1, <1>3, <3>2, <5>1
      <4> QED
        BY <1>3, <1>4, <3>2, <4>1, <4>2
    <3> QED
      BY <3>1, <3>2
  <2>9. ASSUME NEW d \in DOMAIN R, NEW s \in DOMAIN sb, Inside(R, sb, d, s)
        PROVE  d = s + SB_ADMIN \/ \E e \in DOMAIN R : e + R[e].bszB = d
    <3>1. Inside(blk, sb, d, s)
      BY <2>1, <2>4, <2>5, <2>9
    <3>2. CASE d # s + SB_ADMIN
      <4>1. PICK e \in DOMAIN blk : e + blk[e].bszB = d
        BY <1>3, <3>1, <3>2 DEF Tiled, Covers
      <4>2. CASE e = c
        <5>1. b + R[b].bszB = d
          BY <1>0, <1>4, <4>1, <4>2
        <5> QED
          BY <1>3, <5>1
      <4>3. CASE e # c
        <5>1. e # b
          BY <1>3, <4>1
        <5> QED
          BY <1>3, <1>4, <4>1, <4>3, <5>1
      <4> QED
        BY <4>2, <4>3
    <3> QED
      BY <3>2
  <2> QED
    BY <2>6, <2>7, <2>8, <2>9 DEF Covers
<1> QED
  BY <1>5, <1>6, <1>7 DEF Tiled, R

(* A new superblock, with one block. *)
LEMMA GrownTiled ==
  ASSUME NEW blk, NEW sb, Tiled(blk, sb), NEW q, NEW s \in Nat, s \notin DOMAIN sb, NEW n \in Nat, n >= overhead_szB,
         NEW sb2, sb2 = With(sb, s, n), NEW q2, Superblocks(sb, q), Superblocks(sb2, q2), NEW i \in BOOLEAN
  PROVE  /\ s + SB_ADMIN \notin DOMAIN blk
         /\ \A c \in DOMAIN blk : c \notin s + SB_ADMIN .. s + SB_ADMIN + n - 1
         /\ Tiled(With(blk, s + SB_ADMIN, Block(n, i)), sb2)
PROOF
<1> DEFINE b == s + SB_ADMIN
           R == With(blk, b, Block(n, i))
<1>0. /\ DOMAIN sb2 = DOMAIN sb \cup {s} /\ sb2[s] = n /\ \A t \in DOMAIN sb : sb2[t] = sb[t]
      /\ b \in Nat /\ n \in Nat \ {0} /\ \A t \in DOMAIN sb2 : t \in Nat /\ sb2[t] \in Nat
  BY Overhead, SizesAssumption DEF With, Superblocks
<1>1. \A c \in DOMAIN blk : c \in Nat /\ blk[c].bszB \in Nat \ {0}
  BY Overhead DEF Tiled, Typed
<1>2. ASSUME NEW c \in DOMAIN blk PROVE c + blk[c].bszB <= s \/ c >= b + n
  <2>1. PICK t \in DOMAIN sb : Inside(blk, sb, c, t)
    BY DEF Tiled, Covers
  <2>2. (s < t => s + SB_ADMIN + n <= t) /\ (t < s => t + SB_ADMIN + sb[t] <= s) /\ s # t
    <3>1. s \in DOMAIN sb2 /\ t \in DOMAIN sb2
      BY <1>0
    <3>2. (s < t => s + SB_ADMIN + sb2[s] <= t) /\ (t < s => t + SB_ADMIN + sb2[t] <= s)
      BY <3>1 DEF Superblocks
    <3> QED
      BY <1>0, <3>2
  <2> QED
    BY <1>0, <1>1, <2>1, <2>2, SizesAssumption DEF Inside
<1>3. b \notin DOMAIN blk /\ \A c \in DOMAIN blk : c \notin b .. b + n - 1
  BY <1>0, <1>1, <1>2, SizesAssumption
<1>4. b = s + SB_ADMIN
  OBVIOUS
<1> HIDE DEF b
<1>5. /\ DOMAIN R = DOMAIN blk \cup {b} /\ R[b].bszB = n /\ R[b].inuse = i
      /\ \A c \in DOMAIN blk : R[c] = blk[c]
  BY <1>3 DEF With, Block
<1> HIDE DEF R
<1>6. Typed(R)
  <2>1. IsFiniteSet(DOMAIN R)
    BY <1>5, FS_AddElement DEF Tiled, Typed
  <2>2. b % VG_MIN_MALLOC_SZB = 0 /\ n % VG_MIN_MALLOC_SZB = 0
    <3>1. s % VG_MIN_MALLOC_SZB = 0 /\ n % VG_MIN_MALLOC_SZB = 0
      BY <1>0 DEF Superblocks
    <3>2. VG_MIN_MALLOC_SZB \in Nat \ {0} /\ SB_ADMIN \in Nat /\ SB_ADMIN % VG_MIN_MALLOC_SZB = 0
      BY SizesAssumption
    <3>3. (s + SB_ADMIN) % VG_MIN_MALLOC_SZB = 0
      BY <3>1, <3>2, ModSum
    <3> QED
      BY <3>1, <3>3, <1>4
  <2>3. DOMAIN R \subseteq Nat
    BY <1>0, <1>1, <1>5
  <2>4. ASSUME NEW c \in DOMAIN R
        PROVE  /\ R[c].bszB \in Nat /\ R[c].bszB >= overhead_szB /\ R[c].inuse \in BOOLEAN
               /\ c % VG_MIN_MALLOC_SZB = 0 /\ R[c].bszB % VG_MIN_MALLOC_SZB = 0
    BY <1>5, <2>2 DEF Tiled, Typed
  <2> QED
    BY <2>1, <2>3, <2>4 DEF Typed
<1>7. Disjoint(R)
  <2>1. ASSUME NEW c \in DOMAIN R, NEW e \in DOMAIN R, c < e PROVE c + R[c].bszB <= e
    <3>1. CASE c = b /\ e \in DOMAIN blk
      BY <1>0, <1>1, <1>2, <1>4, <1>5, <2>1, <3>1, SizesAssumption
    <3>2. CASE c \in DOMAIN blk /\ e = b
      BY <1>0, <1>1, <1>2, <1>4, <1>5, <2>1, <3>2, SizesAssumption
    <3>3. CASE c \in DOMAIN blk /\ e \in DOMAIN blk
      BY <1>5, <2>1, <3>3 DEF Tiled, Disjoint
    <3>4. CASE c = b /\ e = b
      BY <1>0, <2>1, <3>4
    <3> QED
      BY <1>5, <3>1, <3>2, <3>3, <3>4
  <2> QED
    BY <2>1 DEF Disjoint
<1>8. Covers(R, sb2)
  <2>1. Inside(R, sb2, b, s)
    BY <1>0, <1>4, <1>5, SizesAssumption DEF Inside
  <2>2. \A c \in DOMAIN blk, t \in DOMAIN sb : Inside(R, sb2, c, t) <=> Inside(blk, sb, c, t)
    BY <1>0, <1>5 DEF Inside
  <2>3. \A c \in DOMAIN blk : ~ Inside(R, sb2, c, s)
    BY <1>0, <1>1, <1>2, <1>4, <1>5, SizesAssumption DEF Inside
  <2>4. \A t \in DOMAIN sb : ~ Inside(R, sb2, b, t)
    <3>1. ASSUME NEW t \in DOMAIN sb, Inside(R, sb2, b, t) PROVE FALSE
      <4>1. t \in DOMAIN sb2 /\ s \in DOMAIN sb2 /\ t # s /\ b \in DOMAIN R
        BY <1>0, <1>5
      <4>2. s + SB_ADMIN <= b /\ b < s + SB_ADMIN + sb2[s]
        BY <1>0, <1>4, SizesAssumption
      <4> QED
        BY <1>6, <3>1, <4>1, <4>2, OneHome
    <3> QED
      BY <3>1
  <2>5. \A c \in DOMAIN R : \E t \in DOMAIN sb2 : Inside(R, sb2, c, t)
    BY <1>0, <1>5, <2>1, <2>2 DEF Tiled, Covers
  <2>6. \A t \in DOMAIN sb2 : t + SB_ADMIN \in DOMAIN R
    BY <1>0, <1>4, <1>5 DEF Tiled, Covers
  <2>7. ASSUME NEW c \in DOMAIN R, NEW t \in DOMAIN sb2, Inside(R, sb2, c, t)
        PROVE  /\ c + R[c].bszB = t + SB_ADMIN + sb2[t] \/ c + R[c].bszB \in DOMAIN R
               /\ c = t + SB_ADMIN \/ \E e \in DOMAIN R : e + R[e].bszB = c
    <3>1. CASE c = b
      <4>1. t = s
        BY <1>0, <2>4, <2>7, <3>1
      <4> QED
        BY <1>0, <1>4, <1>5, <3>1, <4>1
    <3>2. CASE c \in DOMAIN blk
      <4>1. t \in DOMAIN sb /\ Inside(blk, sb, c, t)
        BY <1>0, <2>2, <2>3, <2>7, <3>2
      <4>2. /\ c + blk[c].bszB = t + SB_ADMIN + sb[t] \/ c + blk[c].bszB \in DOMAIN blk
            /\ c = t + SB_ADMIN \/ \E e \in DOMAIN blk : e + blk[e].bszB = c
        BY <3>2, <4>1 DEF Tiled, Covers
      <4> QED
        BY <1>0, <1>5, <3>2, <4>1, <4>2
    <3> QED
      BY <1>5, <3>1, <3>2
  <2> QED
    BY <2>5, <2>6, <2>7 DEF Covers
<1> QED
  BY <1>3, <1>6, <1>7, <1>8 DEF Tiled, R, b

-----------------------------------------------------------------------------
(* Sums *)

SumStep(f, g, T) == IF T = {} THEN 0 ELSE f[CHOOSE x \in T : TRUE] + g[T \ {CHOOSE x \in T : TRUE}]
Sums(f) == CHOOSE g : g = [T \in SUBSET DOMAIN f |-> SumStep(f, g, T)]
Total(f) == Sums(f)[DOMAIN f]

LEMMA SumsStep ==
  ASSUME NEW f, IsFiniteSet(DOMAIN f)
  PROVE  \A T \in SUBSET DOMAIN f : Sums(f)[T] = SumStep(f, Sums(f), T)
PROOF
<1> DEFINE D == DOMAIN f
           P(m) == {T \in SUBSET D : Cardinality(T) <= m}
           Steps(g, m) == g = [T \in P(m) |-> SumStep(f, g, T)]
           Bad == {m \in Nat : ~ \E g : Steps(g, m)}
<1>0. \A T \in SUBSET D : IsFiniteSet(T) /\ Cardinality(T) \in Nat /\ Cardinality(T) <= Cardinality(D)
  BY FS_Subset, FS_CardinalityType
<1>1. ASSUME Bad # {} PROVE FALSE
  <2>0. Bad \in SUBSET Nat
    OBVIOUS
  <2>1. PICK m \in Bad : \A k \in Bad : m <= k
    <3> HIDE DEF Bad
    <3> QED
      BY <1>1, <2>0, LeastNat
  <2>2. m # 0
    <3>1. P(0) = {{}}
      BY <1>0, FS_EmptySet
    <3>2. \A g : SumStep(f, g, {}) = 0
      BY DEF SumStep
    <3>3. Steps([T \in P(0) |-> 0], 0)
      <4> HIDE DEF P
      <4> QED
        BY <3>1, <3>2
    <3> QED
      BY <2>1, <3>3, ZenonT(60)
  <2>3. m - 1 \in Nat /\ m - 1 \notin Bad /\ m \in Nat
    <3> HIDE DEF Bad
    <3> QED
      BY <2>0, <2>1, <2>2
  <2>4. PICK g : Steps(g, m - 1)
    BY <2>3
  <2> DEFINE h == [T \in P(m) |-> IF T \in P(m - 1) THEN g[T] ELSE SumStep(f, g, T)]
  <2>5. P(m - 1) \subseteq P(m)
    BY <1>0, <2>3
  <2>6. ASSUME NEW T \in P(m) PROVE SumStep(f, h, T) = SumStep(f, g, T)
    <3> DEFINE x == CHOOSE y \in T : TRUE
    <3>1. CASE T = {}
      BY <3>1 DEF SumStep
    <3>2. CASE T # {}
      <4>1. x \in T
        BY <3>2
      <4> HIDE DEF x
      <4>2. T \ {x} \in P(m - 1)
        <5>1. Cardinality(T \ {x}) = Cardinality(T) - 1
          BY <1>0, <4>1, FS_RemoveElement
        <5> QED
          BY <1>0, <2>3, <5>1
      <4>3. h[T \ {x}] = g[T \ {x}]
        <5> HIDE DEF P
        <5> QED
          BY <2>5, <4>2
      <4> HIDE DEF h
      <4> QED
        BY <3>2, <4>3 DEF SumStep, x
    <3> QED
      BY <3>1, <3>2
  <2>7. Steps(h, m)
    <3>1. \A T \in P(m) : h[T] = SumStep(f, g, T)
      <4> HIDE DEF P
      <4> QED
        BY <2>4, <2>5
    <3> HIDE DEF P
    <3>2. \A T \in P(m) : h[T] = SumStep(f, h, T)
      BY <2>6, <3>1
    <3> QED
      BY <3>2
  <2> QED
    BY <2>1, <2>7
<1>2. \E g : Steps(g, Cardinality(D))
  <2>1. Cardinality(D) \in Nat
    BY FS_CardinalityType
  <2> HIDE DEF D, Steps
  <2> QED
    BY <1>1, <2>1
<1>3. P(Cardinality(D)) = SUBSET D
  BY <1>0
<1>4. \E g : g = [T \in SUBSET D |-> SumStep(f, g, T)]
  BY <1>2, <1>3
<1>5. Sums(f) = [T \in SUBSET D |-> SumStep(f, Sums(f), T)]
  BY <1>4 DEF Sums
<1> QED
  BY <1>5

(* The order does not matter. *)
LEMMA SumsTake ==
  ASSUME NEW f, IsFiniteSet(DOMAIN f), \A x \in DOMAIN f : f[x] \in Int
  PROVE  \A T \in SUBSET DOMAIN f : Sums(f)[T] \in Int /\ \A y \in T : Sums(f)[T] = f[y] + Sums(f)[T \ {y}]
PROOF
<1> DEFINE D == DOMAIN f
           g == Sums(f)
           Good(T) == g[T] \in Int /\ \A y \in T : g[T] = f[y] + g[T \ {y}]
           Bad == {m \in Nat : \E T \in SUBSET D : Cardinality(T) = m /\ ~ Good(T)}
<1>0. \A T \in SUBSET D : IsFiniteSet(T) /\ Cardinality(T) \in Nat
  BY FS_Subset, FS_CardinalityType
<1>1. \A T \in SUBSET D : g[T] = SumStep(f, g, T)
  BY SumsStep
<1> HIDE DEF g
<1>2. ASSUME Bad # {} PROVE FALSE
  <2>0. Bad \in SUBSET Nat
    OBVIOUS
  <2>1. PICK m \in Bad : \A k \in Bad : m <= k
    <3> HIDE DEF Bad
    <3> QED
      BY <1>2, <2>0, LeastNat
  <2>2. PICK T \in SUBSET D : Cardinality(T) = m /\ ~ Good(T)
    BY <2>1
  <2>3. ASSUME NEW U \in SUBSET T, U # T PROVE Good(U)
    <3>1. U \in SUBSET D
      OBVIOUS
    <3>2. Cardinality(U) < m
      <4>1. Cardinality(U) <= Cardinality(T) /\ (Cardinality(T) = Cardinality(U) => T = U)
        BY <1>0, FS_Subset
      <4> QED
        BY <1>0, <2>2, <2>3, <3>1, <4>1
    <3> HIDE DEF Good
    <3> QED
      BY <1>0, <2>0, <2>1, <2>2, <3>1, <3>2
  <2>4. CASE T = {}
    BY <1>1, <2>2, <2>4 DEF SumStep
  <2>5. CASE T # {}
    <3> DEFINE x == CHOOSE z \in T : TRUE
    <3>1. x \in T
      BY <2>5
    <3>2. g[T] = f[x] + g[T \ {x}]
      BY <1>1, <2>5 DEF SumStep
    <3> HIDE DEF x
    <3>3. Good(T \ {x})
      BY <2>3, <3>1
    <3>4. g[T] \in Int
      BY <3>1, <3>2, <3>3
    <3>5. ASSUME NEW y \in T PROVE g[T] = f[y] + g[T \ {y}]
      <4>1. CASE x = y
        BY <3>2, <4>1
      <4>2. CASE x # y
        <5>1. Good(T \ {y}) /\ x \in T \ {y} /\ y \in T \ {x}
          BY <2>3, <3>1, <4>2
        <5>2. g[T \ {x}] = f[y] + g[(T \ {x}) \ {y}] /\ g[T \ {y}] = f[x] + g[(T \ {y}) \ {x}]
          BY <3>3, <5>1
        <5>3. (T \ {x}) \ {y} = (T \ {y}) \ {x}
          OBVIOUS
        <5>4. g[(T \ {y}) \ {x}] \in Int /\ f[x] \in Int /\ f[y] \in Int
          <6>1. Good((T \ {y}) \ {x})
            BY <2>3, <3>1
          <6> QED
            BY <3>1, <6>1
        <5> DEFINE z == g[(T \ {y}) \ {x}]
        <5>5. g[T] = f[x] + (f[y] + z) /\ g[T \ {y}] = f[x] + z /\ z \in Int
          BY <3>2, <5>2, <5>3, <5>4
        <5> HIDE DEF z
        <5> QED
          BY <5>4, <5>5
      <4> QED
        BY <4>1, <4>2
    <3> QED
      BY <2>2, <3>4, <3>5
  <2> QED
    BY <2>4, <2>5
<1>3. \A T \in SUBSET D : Good(T)
  <2> HIDE DEF Good
  <2> QED
    BY <1>0, <1>2
<1> QED
  BY <1>3 DEF g

LEMMA SumsAgree ==
  ASSUME NEW f, IsFiniteSet(DOMAIN f), \A x \in DOMAIN f : f[x] \in Int,
         NEW h, DOMAIN h \subseteq DOMAIN f, \A x \in DOMAIN h : h[x] = f[x]
  PROVE  \A T \in SUBSET DOMAIN h : Sums(h)[T] = Sums(f)[T]
PROOF
<1> DEFINE D == DOMAIN h
           Bad == {m \in Nat : \E T \in SUBSET D : Cardinality(T) = m /\ Sums(h)[T] # Sums(f)[T]}
<1>0. IsFiniteSet(D) /\ \A T \in SUBSET D : IsFiniteSet(T) /\ Cardinality(T) \in Nat
  BY FS_Subset, FS_CardinalityType
<1>1. \A T \in SUBSET D : Sums(f)[T] = SumStep(f, Sums(f), T)
  BY SumsStep
<1>2. \A T \in SUBSET D : Sums(h)[T] = SumStep(h, Sums(h), T)
  BY <1>0, SumsStep
<1>3. ASSUME Bad # {} PROVE FALSE
  <2>0. Bad \in SUBSET Nat
    OBVIOUS
  <2>1. PICK m \in Bad : \A k \in Bad : m <= k
    <3> HIDE DEF Bad
    <3> QED
      BY <1>3, <2>0, LeastNat
  <2>2. PICK T \in SUBSET D : Cardinality(T) = m /\ Sums(h)[T] # Sums(f)[T]
    BY <2>1
  <2>3. CASE T = {}
    BY <1>1, <1>2, <2>2, <2>3 DEF SumStep
  <2>4. CASE T # {}
    <3> DEFINE x == CHOOSE z \in T : TRUE
    <3>1. x \in T
      BY <2>4
    <3>2. Sums(f)[T] = f[x] + Sums(f)[T \ {x}]
      BY <1>1, <2>4 DEF SumStep
    <3>3. Sums(h)[T] = h[x] + Sums(h)[T \ {x}]
      BY <1>2, <2>4 DEF SumStep
    <3> HIDE DEF x
    <3>4. Cardinality(T \ {x}) = Cardinality(T) - 1 /\ T \ {x} \in SUBSET D
      BY <1>0, <3>1, FS_RemoveElement
    <3>5. Sums(h)[T \ {x}] = Sums(f)[T \ {x}]
      <4>1. Cardinality(T \ {x}) \in Nat /\ ~ (m <= Cardinality(T \ {x}))
        BY <1>0, <2>0, <2>2, <3>4
      <4> QED
        BY <2>1, <3>4, <4>1
    <3> QED
      BY <2>2, <3>1, <3>2, <3>3, <3>5
  <2> QED
    BY <2>3, <2>4
<1> QED
  BY <1>0, <1>3

LEMMA TotalWithout ==
  ASSUME NEW f, IsFiniteSet(DOMAIN f), \A x \in DOMAIN f : f[x] \in Int, NEW y \in DOMAIN f
  PROVE  Total(f) = f[y] + Total(Without(f, y)) /\ Total(f) \in Int /\ Total(Without(f, y)) \in Int
PROOF
<1> DEFINE D == DOMAIN f
<1>1. Sums(f)[D] \in Int /\ Sums(f)[D] = f[y] + Sums(f)[D \ {y}] /\ Sums(f)[D \ {y}] \in Int
  <2>1. D \in SUBSET DOMAIN f /\ D \ {y} \in SUBSET DOMAIN f /\ y \in D
    OBVIOUS
  <2> HIDE DEF D
  <2> QED
    BY <2>1, SumsTake
<1>2. DOMAIN Without(f, y) = D \ {y} /\ \A x \in D \ {y} : Without(f, y)[x] = f[x]
  BY DEF Without
<1>3. Sums(Without(f, y))[D \ {y}] = Sums(f)[D \ {y}]
  BY <1>2, SumsAgree
<1> QED
  BY <1>1, <1>2, <1>3 DEF Total

LEMMA TotalWith ==
  ASSUME NEW D, IsFiniteSet(D), NEW f \in [D -> Int], NEW y, y \notin D, NEW v \in Int
  PROVE  Total(With(f, y, v)) = v + Total(f) /\ Total(f) \in Int
PROOF
<1> DEFINE h == With(f, y, v)
<1>1. /\ DOMAIN h = D \cup {y} /\ h[y] = v /\ \A x \in DOMAIN h : h[x] \in Int
      /\ Without(h, y) = [x \in D |-> f[x]]
  BY DEF With, Without
<1>2. Without(h, y) = f
  BY <1>1
<1>3. IsFiniteSet(DOMAIN h)
  BY <1>1, FS_AddElement
<1> HIDE DEF h
<1>4. Total(h) = h[y] + Total(Without(h, y)) /\ Total(Without(h, y)) \in Int
  BY <1>1, <1>3, TotalWithout
<1> QED
  BY <1>1, <1>2, <1>4 DEF h

LEMMA TotalEmpty ==
  ASSUME NEW f, DOMAIN f = {}
  PROVE  Total(f) = 0
PROOF
<1>1. Sums(f)[{}] = SumStep(f, Sums(f), {})
  BY SumsStep, FS_EmptySet
<1> QED
  BY <1>1 DEF Total, SumStep

-----------------------------------------------------------------------------
(* The arena *)

IsArena(a) ==
  a = [clientmem |-> a.clientmem, blk |-> a.blk, sb |-> a.sb, freelist |-> a.freelist,
       sblocks |-> a.sblocks, sblocks_size |-> a.sblocks_size,
       bytes_on_loan |-> a.bytes_on_loan, bytes_mmaped |-> a.bytes_mmaped]

(* The superblocks are the same. *)
SameSuper(a, c) ==
  /\ c.sb = a.sb /\ c.sblocks = a.sblocks /\ c.sblocks_size = a.sblocks_size
  /\ c.clientmem = a.clientmem /\ c.bytes_mmaped = a.bytes_mmaped

Sane(a) ==
  IsArena(a) /\ Superblocks(a.sb, a.sblocks) /\ Tiled(a.blk, a.sb) /\ Linked(a.freelist, FreeOf(a.blk))

(* No two neighbours are both free. *)
Merged(blk) ==
  \A b \in DOMAIN blk : ~ blk[b].inuse /\ b + blk[b].bszB \in DOMAIN blk => blk[b + blk[b].bszB].inuse

(* The payloads of blocks of which U gives the size, and what is mapped. *)
Pay(U)     == [b \in DOMAIN U |-> U[b] - overhead_szB]
Mapped(sb) == [s \in DOMAIN sb |-> sb[s] + SB_ADMIN]

Counted(a) == a.bytes_on_loan = Total(Pay(UseOf(a.blk))) /\ a.bytes_mmaped = Total(Mapped(a.sb))

ArenaInv(a) == Sane(a) /\ Merged(a.blk) /\ Counted(a)

(* A block is set to be in use, or to be free. *)
SetUse(blk, b, n)  == set_bszB(blk, b, n, TRUE)
SetFree(blk, b, n) == set_bszB(blk, b, n, FALSE)

LEMMA SetBlkOnly ==
  ASSUME NEW a, IsArena(a), NEW B, NEW c, c = [a EXCEPT !.blk = B]
  PROVE  IsArena(c) /\ SameSuper(a, c) /\ c.blk = B /\ c.freelist = a.freelist /\ c.bytes_on_loan = a.bytes_on_loan
PROOF
<1>1. c = [clientmem |-> a.clientmem, blk |-> B, sb |-> a.sb, freelist |-> a.freelist,
           sblocks |-> a.sblocks, sblocks_size |-> a.sblocks_size,
           bytes_on_loan |-> a.bytes_on_loan, bytes_mmaped |-> a.bytes_mmaped]
  BY DEF IsArena
<1> QED
  BY <1>1 DEF IsArena, SameSuper

LEMMA MkFree ==
  ASSUME NEW a, IsArena(a), NEW b, NEW n, NEW c, c = mkFreeBlock(a, b, n)
  PROVE  /\ IsArena(c) /\ SameSuper(a, c)
         /\ c.blk = SetFree(a.blk, b, n) /\ c.freelist = Joined(a.freelist, listNo_of(n), b)
         /\ c.bytes_on_loan = a.bytes_on_loan
PROOF
<1> DEFINE B == set_bszB(a.blk, b, n, FALSE)
           f == [a.freelist EXCEPT ![listNo_of(n)] = Append(@, b)]
<1>1. c = [a EXCEPT !.blk = B, !.freelist = f]
  <2>1. c = [a EXCEPT !.blk = B, !.freelist[listNo_of(n)] = Append(@, b)]
    BY DEF mkFreeBlock
  <2> HIDE DEF B
  <2> QED
    BY <2>1 DEF IsArena
<1> HIDE DEF B, f
<1>2. c = [clientmem |-> a.clientmem, blk |-> B, sb |-> a.sb, freelist |-> f,
           sblocks |-> a.sblocks, sblocks_size |-> a.sblocks_size,
           bytes_on_loan |-> a.bytes_on_loan, bytes_mmaped |-> a.bytes_mmaped]
  BY <1>1 DEF IsArena
<1>3. IsArena(c) /\ SameSuper(a, c) /\ c.blk = B /\ c.freelist = f /\ c.bytes_on_loan = a.bytes_on_loan
  BY <1>2 DEF IsArena, SameSuper
<1> QED
  BY <1>3 DEF B, f, Joined, SetFree

LEMMA MkInuse ==
  ASSUME NEW a, IsArena(a), NEW b, NEW n, NEW c, c = mkInuseBlock(a, b, n)
  PROVE  /\ IsArena(c) /\ SameSuper(a, c) /\ c.blk = SetUse(a.blk, b, n)
         /\ c.freelist = a.freelist /\ c.bytes_on_loan = a.bytes_on_loan
PROOF
<1> DEFINE B == set_bszB(a.blk, b, n, TRUE)
<1>1. c = [a EXCEPT !.blk = B]
  BY DEF mkInuseBlock
<1> HIDE DEF B
<1>2. IsArena(c) /\ SameSuper(a, c) /\ c.blk = B /\ c.freelist = a.freelist /\ c.bytes_on_loan = a.bytes_on_loan
  BY <1>1, SetBlkOnly
<1> QED
  BY <1>2 DEF B, SetUse

LEMMA Unlink ==
  ASSUME NEW a, IsArena(a), NEW b, NEW l, NEW c, c = unlinkBlock(a, b, l)
  PROVE  /\ IsArena(c) /\ SameSuper(a, c) /\ c.blk = a.blk /\ c.freelist = Left(a.freelist, l, b)
         /\ c.bytes_on_loan = a.bytes_on_loan
PROOF
<1> DEFINE f == [a.freelist EXCEPT ![l] = unlinked(@, b)]
<1>1. c = [a EXCEPT !.freelist[l] = unlinked(@, b)]
  BY DEF unlinkBlock
<1>2. c = [a EXCEPT !.freelist = f]
  BY <1>1 DEF IsArena
<1> HIDE DEF f
<1>3. c = [clientmem |-> a.clientmem, blk |-> a.blk, sb |-> a.sb, freelist |-> f,
           sblocks |-> a.sblocks, sblocks_size |-> a.sblocks_size,
           bytes_on_loan |-> a.bytes_on_loan, bytes_mmaped |-> a.bytes_mmaped]
  BY <1>2 DEF IsArena
<1>4. IsArena(c) /\ SameSuper(a, c) /\ c.blk = a.blk /\ c.freelist = f /\ c.bytes_on_loan = a.bytes_on_loan
  BY <1>3 DEF IsArena, SameSuper
<1> QED
  BY <1>4 DEF f, Left

LEMMA SetLoan ==
  ASSUME NEW a, IsArena(a), NEW n, NEW c, c = [a EXCEPT !.bytes_on_loan = n]
  PROVE  IsArena(c) /\ SameSuper(a, c) /\ c.blk = a.blk /\ c.freelist = a.freelist /\ c.bytes_on_loan = n
BY DEF IsArena, SameSuper

LEMMA SameSuperTrans ==
  ASSUME NEW a, NEW c, NEW d, SameSuper(a, c), SameSuper(c, d)
  PROVE  SameSuper(a, d)
BY DEF SameSuper

(* How blocks in use and free blocks change. *)
LEMMA ResizedMaps ==
  ASSUME NEW blk, NEW b \in DOMAIN blk
  PROVE  /\ FreeOf(Resized(blk, b, blk[b].bszB, TRUE)) = Without(FreeOf(blk), b)
         /\ UseOf(Resized(blk, b, blk[b].bszB, TRUE)) = With(UseOf(blk), b, blk[b].bszB)
         /\ FreeOf(Resized(blk, b, blk[b].bszB, FALSE)) = With(FreeOf(blk), b, blk[b].bszB)
         /\ UseOf(Resized(blk, b, blk[b].bszB, FALSE)) = Without(UseOf(blk), b)
PROOF
<1> DEFINE R(i) == Resized(blk, b, blk[b].bszB, i)
<1>1. ASSUME NEW i \in BOOLEAN
      PROVE  /\ DOMAIN R(i) = DOMAIN blk /\ \A c \in DOMAIN blk : R(i)[c].bszB = blk[c].bszB
             /\ R(i)[b].inuse = i /\ \A c \in DOMAIN blk : c # b => R(i)[c].inuse = blk[c].inuse
  BY DEF Resized, Block
<1> HIDE DEF R
<1>2. FreeOf(R(TRUE)) = Without(FreeOf(blk), b)
  <2>1. {c \in DOMAIN R(TRUE) : ~ R(TRUE)[c].inuse} = {c \in DOMAIN blk : ~ blk[c].inuse} \ {b}
    BY <1>1
  <2> QED
    BY <1>1, <2>1 DEF FreeOf, Without
<1>3. UseOf(R(TRUE)) = With(UseOf(blk), b, blk[b].bszB)
  <2>1. {c \in DOMAIN R(TRUE) : R(TRUE)[c].inuse} = {c \in DOMAIN blk : blk[c].inuse} \cup {b}
    BY <1>1
  <2> QED
    BY <1>1, <2>1, ZenonT(60) DEF UseOf, With
<1>4. FreeOf(R(FALSE)) = With(FreeOf(blk), b, blk[b].bszB)
  <2>1. {c \in DOMAIN R(FALSE) : ~ R(FALSE)[c].inuse} = {c \in DOMAIN blk : ~ blk[c].inuse} \cup {b}
    BY <1>1
  <2> QED
    BY <1>1, <2>1, ZenonT(60) DEF FreeOf, With
<1>5. UseOf(R(FALSE)) = Without(UseOf(blk), b)
  <2>1. {c \in DOMAIN R(FALSE) : R(FALSE)[c].inuse} = {c \in DOMAIN blk : blk[c].inuse} \ {b}
    BY <1>1
  <2> QED
    BY <1>1, <2>1 DEF UseOf, Without
<1> QED
  BY <1>2, <1>3, <1>4, <1>5 DEF R

LEMMA SplitMaps ==
  ASSUME NEW blk, NEW b \in DOMAIN blk, NEW n, b # b + n, b + n \notin DOMAIN blk
  PROVE  /\ ~ blk[b].inuse =>
              /\ FreeOf(Split(blk, b, n, TRUE, FALSE)) = With(Without(FreeOf(blk), b), b + n, blk[b].bszB - n)
              /\ UseOf(Split(blk, b, n, TRUE, FALSE)) = With(UseOf(blk), b, n)
         /\ blk[b].inuse =>
              /\ FreeOf(Split(blk, b, n, FALSE, TRUE)) = With(FreeOf(blk), b, n)
              /\ UseOf(Split(blk, b, n, FALSE, TRUE)) = With(Without(UseOf(blk), b), b + n, blk[b].bszB - n)
PROOF
<1> DEFINE R(i, j) == Split(blk, b, n, i, j)
           d == b + n
           m == blk[b].bszB - n
<1>1. ASSUME NEW i \in BOOLEAN, NEW j \in BOOLEAN
      PROVE  /\ DOMAIN R(i, j) = DOMAIN blk \cup {d}
             /\ R(i, j)[b].bszB = n /\ R(i, j)[b].inuse = i /\ R(i, j)[d].bszB = m /\ R(i, j)[d].inuse = j
             /\ \A c \in DOMAIN blk : c # b => R(i, j)[c].bszB = blk[c].bszB /\ R(i, j)[c].inuse = blk[c].inuse
  BY DEF Split, Block
<1>0. b # d /\ d \notin DOMAIN blk
  OBVIOUS
<1> HIDE DEF R, d, m
<1>2. ASSUME ~ blk[b].inuse
      PROVE  FreeOf(R(TRUE, FALSE)) = With(Without(FreeOf(blk), b), d, m) /\ UseOf(R(TRUE, FALSE)) = With(UseOf(blk), b, n)
  <2>1. {c \in DOMAIN R(TRUE, FALSE) : ~ R(TRUE, FALSE)[c].inuse} = ({c \in DOMAIN blk : ~ blk[c].inuse} \ {b}) \cup {d}
    BY <1>0, <1>1
  <2>2. {c \in DOMAIN R(TRUE, FALSE) : R(TRUE, FALSE)[c].inuse} = {c \in DOMAIN blk : blk[c].inuse} \cup {b}
    BY <1>0, <1>1
  <2>3. FreeOf(R(TRUE, FALSE)) = With(Without(FreeOf(blk), b), d, m)
    BY <1>0, <1>1, <2>1, ZenonT(60) DEF FreeOf, With, Without
  <2>4. UseOf(R(TRUE, FALSE)) = With(UseOf(blk), b, n)
    BY <1>0, <1>1, <2>2, ZenonT(60) DEF UseOf, With
  <2> QED
    BY <2>3, <2>4
<1>3. ASSUME blk[b].inuse
      PROVE  FreeOf(R(FALSE, TRUE)) = With(FreeOf(blk), b, n) /\ UseOf(R(FALSE, TRUE)) = With(Without(UseOf(blk), b), d, m)
  <2>1. {c \in DOMAIN R(FALSE, TRUE) : ~ R(FALSE, TRUE)[c].inuse} = {c \in DOMAIN blk : ~ blk[c].inuse} \cup {b}
    BY <1>0, <1>1
  <2>2. {c \in DOMAIN R(FALSE, TRUE) : R(FALSE, TRUE)[c].inuse} = ({c \in DOMAIN blk : blk[c].inuse} \ {b}) \cup {d}
    BY <1>0, <1>1
  <2>3. UseOf(R(FALSE, TRUE)) = With(Without(UseOf(blk), b), d, m)
    BY <1>0, <1>1, <2>2, ZenonT(60) DEF UseOf, With, Without
  <2>4. FreeOf(R(FALSE, TRUE)) = With(FreeOf(blk), b, n)
    BY <1>0, <1>1, <2>1 DEF FreeOf, With
  <2> QED
    BY <2>3, <2>4
<1> QED
  BY <1>2, <1>3 DEF R, d, m

LEMMA FusedMaps ==
  ASSUME NEW blk, NEW b \in DOMAIN blk, NEW c \in DOMAIN blk, b # c, ~ blk[b].inuse, ~ blk[c].inuse
  PROVE  /\ FreeOf(Fused(blk, b, c, FALSE)) = With(Without(Without(FreeOf(blk), b), c), b, blk[b].bszB + blk[c].bszB)
         /\ Without(Without(FreeOf(blk), b), c) = Without(Without(FreeOf(blk), c), b)
         /\ UseOf(Fused(blk, b, c, FALSE)) = UseOf(blk)
PROOF
<1> DEFINE R == Fused(blk, b, c, FALSE)
           n == blk[b].bszB + blk[c].bszB
<1>1. /\ DOMAIN R = DOMAIN blk \ {c} /\ R[b].bszB = n /\ ~ R[b].inuse
      /\ \A d \in DOMAIN R : d # b => R[d].bszB = blk[d].bszB /\ R[d].inuse = blk[d].inuse
  BY DEF Fused, Block
<1> HIDE DEF R, n
<1>2. {d \in DOMAIN R : ~ R[d].inuse} = (({d \in DOMAIN blk : ~ blk[d].inuse} \ {b}) \ {c}) \cup {b}
  BY <1>1
<1>3. FreeOf(R) = With(Without(Without(FreeOf(blk), b), c), b, n)
  BY <1>1, <1>2 DEF FreeOf, With, Without
<1>4. {d \in DOMAIN R : R[d].inuse} = {d \in DOMAIN blk : blk[d].inuse}
  BY <1>1
<1>5. UseOf(R) = UseOf(blk)
  BY <1>1, <1>4 DEF UseOf
<1>6. Without(Without(FreeOf(blk), b), c) = Without(Without(FreeOf(blk), c), b)
  <2>1. (DOMAIN FreeOf(blk) \ {b}) \ {c} = (DOMAIN FreeOf(blk) \ {c}) \ {b}
    OBVIOUS
  <2> QED
    BY <2>1 DEF Without
<1> QED
  BY <1>3, <1>5, <1>6 DEF R, n

LEMMA GrownMaps ==
  ASSUME NEW blk, NEW b, b \notin DOMAIN blk, NEW n
  PROVE  /\ FreeOf(With(blk, b, Block(n, FALSE))) = With(FreeOf(blk), b, n)
         /\ UseOf(With(blk, b, Block(n, FALSE))) = UseOf(blk)
PROOF
<1> DEFINE R == With(blk, b, Block(n, FALSE))
<1>1. DOMAIN R = DOMAIN blk \cup {b} /\ R[b].bszB = n /\ ~ R[b].inuse /\ \A c \in DOMAIN blk : R[c] = blk[c]
  BY DEF With, Block
<1> HIDE DEF R
<1>2. {d \in DOMAIN R : ~ R[d].inuse} = {d \in DOMAIN blk : ~ blk[d].inuse} \cup {b}
  BY <1>1
<1>3. {d \in DOMAIN R : R[d].inuse} = {d \in DOMAIN blk : blk[d].inuse}
  BY <1>1
<1>4. FreeOf(R) = With(FreeOf(blk), b, n)
  BY <1>1, <1>2 DEF FreeOf, With
<1>5. UseOf(R) = UseOf(blk)
  BY <1>1, <1>3 DEF UseOf
<1> QED
  BY <1>4, <1>5 DEF R

(* What becomes of the blocks when they are set: b is used as it is, or freed; its first n bytes are cut  *)
(* off for use, or cut off as free; c behind b is fused with it.           *)
ToUse(blk, b)      == Resized(blk, b, blk[b].bszB, TRUE)
ToFree(blk, b)     == Resized(blk, b, blk[b].bszB, FALSE)
CutUse(blk, b, n)  == Split(blk, b, n, TRUE, FALSE)
CutFree(blk, b, n) == Split(blk, b, n, FALSE, TRUE)
Joint(blk, b, c)   == Fused(blk, b, c, FALSE)

LEMMA SetWhole ==
  ASSUME NEW blk, Typed(blk), Disjoint(blk), NEW b \in DOMAIN blk
  PROVE  /\ SetUse(blk, b, blk[b].bszB) = ToUse(blk, b)
         /\ SetFree(blk, b, blk[b].bszB) = ToFree(blk, b)
PROOF
<1>1. blk[b].bszB \in 1 .. blk[b].bszB
  BY Overhead DEF Typed
<1>2. ASSUME NEW i PROVE set_bszB(blk, b, blk[b].bszB, i) = Resized(blk, b, blk[b].bszB, i)
  BY <1>1, SetResized
<1> QED
  BY <1>2, Zenon DEF SetUse, SetFree, ToUse, ToFree

LEMMA SetCut ==
  ASSUME NEW blk, Typed(blk), Disjoint(blk), NEW b \in DOMAIN blk, NEW n \in 1 .. blk[b].bszB - 1
  PROVE  /\ SetFree(SetUse(blk, b, n), b + n, blk[b].bszB - n) = CutUse(blk, b, n)
         /\ SetUse(SetFree(blk, b, n), b + n, blk[b].bszB - n) = CutFree(blk, b, n)
PROOF
<1>1. ASSUME NEW i, NEW j
      PROVE  set_bszB(set_bszB(blk, b, n, i), b + n, blk[b].bszB - n, j) = Split(blk, b, n, i, j)
  BY SetSplit
<1> QED
  BY <1>1, Zenon DEF SetUse, SetFree, CutUse, CutFree

LEMMA SetJoint ==
  ASSUME NEW blk, Typed(blk), Disjoint(blk), NEW b \in DOMAIN blk, NEW c \in DOMAIN blk, c = b + blk[b].bszB
  PROVE  SetFree(blk, b, blk[b].bszB + blk[c].bszB) = Joint(blk, b, c)
PROOF
<1>1. ASSUME NEW i PROVE set_bszB(blk, b, blk[b].bszB + blk[c].bszB, i) = Fused(blk, b, c, i)
  BY SetFused
<1> QED
  BY <1>1, Zenon DEF SetFree, Joint

LEMMA WholeTiled ==
  ASSUME NEW blk, NEW sb, Tiled(blk, sb), NEW b \in DOMAIN blk
  PROVE  /\ Tiled(ToUse(blk, b), sb) /\ Tiled(ToFree(blk, b), sb)
         /\ FreeOf(ToUse(blk, b)) = Without(FreeOf(blk), b)
         /\ UseOf(ToUse(blk, b)) = With(UseOf(blk), b, blk[b].bszB)
         /\ FreeOf(ToFree(blk, b)) = With(FreeOf(blk), b, blk[b].bszB)
         /\ UseOf(ToFree(blk, b)) = Without(UseOf(blk), b)
PROOF
<1>1. Tiled(Resized(blk, b, blk[b].bszB, TRUE), sb) /\ Tiled(Resized(blk, b, blk[b].bszB, FALSE), sb)
  BY ResizedTiled
<1> QED
  BY <1>1, ResizedMaps DEF ToUse, ToFree

LEMMA CutTiled ==
  ASSUME NEW blk, NEW sb, Tiled(blk, sb), NEW q, Superblocks(sb, q), NEW b \in DOMAIN blk,
         NEW n \in Nat, n >= overhead_szB, n % VG_MIN_MALLOC_SZB = 0, blk[b].bszB >= n + overhead_szB
  PROVE  /\ b + n \notin DOMAIN blk /\ Tiled(CutUse(blk, b, n), sb) /\ Tiled(CutFree(blk, b, n), sb)
         /\ ~ blk[b].inuse =>
              /\ FreeOf(CutUse(blk, b, n)) = With(Without(FreeOf(blk), b), b + n, blk[b].bszB - n)
              /\ UseOf(CutUse(blk, b, n)) = With(UseOf(blk), b, n)
         /\ blk[b].inuse =>
              /\ FreeOf(CutFree(blk, b, n)) = With(FreeOf(blk), b, n)
              /\ UseOf(CutFree(blk, b, n)) = With(Without(UseOf(blk), b), b + n, blk[b].bszB - n)
PROOF
<1>1. b + n \notin DOMAIN blk /\ Tiled(Split(blk, b, n, TRUE, FALSE), sb) /\ Tiled(Split(blk, b, n, FALSE, TRUE), sb)
  BY SplitTiled
<1>2. b # b + n
  BY Overhead DEF Tiled, Typed
<1> QED
  BY <1>1, <1>2, SplitMaps, ZenonT(60) DEF CutUse, CutFree

LEMMA JointTiled ==
  ASSUME NEW blk, NEW sb, Tiled(blk, sb), NEW q, Superblocks(sb, q), NEW b \in DOMAIN blk, NEW c \in DOMAIN blk,
         c = b + blk[b].bszB, ~ blk[b].inuse, ~ blk[c].inuse
  PROVE  /\ Tiled(Joint(blk, b, c), sb)
         /\ FreeOf(Joint(blk, b, c)) = With(Without(Without(FreeOf(blk), b), c), b, blk[b].bszB + blk[c].bszB)
         /\ Without(Without(FreeOf(blk), b), c) = Without(Without(FreeOf(blk), c), b)
         /\ UseOf(Joint(blk, b, c)) = UseOf(blk)
PROOF
<1>1. Tiled(Fused(blk, b, c, FALSE), sb)
  BY FusedTiled
<1>2. b # c
  BY Overhead DEF Tiled, Typed
<1> QED
  BY <1>1, <1>2, FusedMaps DEF Joint

LEMMA LoanWith ==
  ASSUME NEW blk, Typed(blk), NEW U, U = UseOf(blk), NEW b, b \notin DOMAIN U, NEW z \in Nat
  PROVE  Total(Pay(With(U, b, z))) = Total(Pay(U)) + (z - overhead_szB) /\ Total(Pay(U)) \in Int
PROOF
<1> DEFINE D == DOMAIN U
<1>1. IsFiniteSet(D) /\ \A c \in D : U[c] \in Nat
  <2>1. D \subseteq DOMAIN blk /\ \A c \in D : U[c] \in Nat
    BY DEF UseOf, Typed
  <2> QED
    BY <2>1, FS_Subset DEF Typed
<1>2. Pay(U) \in [D -> Int]
  BY <1>1, Overhead DEF Pay
<1>3. Pay(With(U, b, z)) = With(Pay(U), b, z - overhead_szB)
  BY DEF Pay, With
<1>4. z - overhead_szB \in Int /\ overhead_szB \in Int
  BY Overhead
<1>5. Total(With(Pay(U), b, z - overhead_szB)) = (z - overhead_szB) + Total(Pay(U)) /\ Total(Pay(U)) \in Int
  <2> HIDE DEF D
  <2>1. b \notin D
    BY DEF D
  <2> QED
    BY <1>1, <1>2, <1>4, <2>1, TotalWith
<1> QED
  BY <1>3, <1>4, <1>5

LEMMA LoanWithout ==
  ASSUME NEW blk, Typed(blk), NEW U, U = UseOf(blk), NEW b \in DOMAIN U
  PROVE  /\ Total(Pay(Without(U, b))) = Total(Pay(U)) - (blk[b].bszB - overhead_szB)
         /\ Total(Pay(U)) \in Int /\ Total(Pay(Without(U, b))) \in Int
PROOF
<1>1. IsFiniteSet(DOMAIN U) /\ U[b] = blk[b].bszB /\ \A c \in DOMAIN U : U[c] \in Nat
  <2>1. DOMAIN U \subseteq DOMAIN blk /\ U[b] = blk[b].bszB /\ \A c \in DOMAIN U : U[c] \in Nat
    BY DEF UseOf, Typed
  <2> QED
    BY <2>1, FS_Subset DEF Typed
<1>2. /\ DOMAIN Pay(U) = DOMAIN U /\ \A c \in DOMAIN U : Pay(U)[c] \in Int
      /\ Pay(U)[b] = blk[b].bszB - overhead_szB
  BY <1>1, Overhead DEF Pay
<1>3. Pay(Without(U, b)) = Without(Pay(U), b)
  BY DEF Pay, Without
<1>4. /\ Total(Pay(U)) = Pay(U)[b] + Total(Without(Pay(U), b))
      /\ Total(Pay(U)) \in Int /\ Total(Without(Pay(U), b)) \in Int
  BY <1>1, <1>2, TotalWithout
<1>5. Pay(U)[b] \in Int
  BY <1>2
<1> QED
  BY <1>2, <1>3, <1>4, <1>5

(* No free block ends where b begins. *)
UsedBefore(blk, b) == \A c \in DOMAIN blk : c + blk[c].bszB = b => blk[c].inuse

(* The arena c is a, with a block at b of at least n bytes in use as well. *)
Lent(a, c, b, n) ==
  /\ ArenaInv(c) /\ b \notin DOMAIN UseOf(a.blk) /\ b \in Nat /\ UsedBefore(c.blk, b)
  /\ \E z \in Nat : z >= n /\ UseOf(c.blk) = With(UseOf(a.blk), b, z)

LEMMA Obtained ==
  ASSUME NEW a, ArenaInv(a), NEW b \in DOMAIN FreeOf(a.blk), NEW n \in Nat,
         n >= overhead_szB, n % VG_MIN_MALLOC_SZB = 0, a.blk[b].bszB >= n
  PROVE  LET r == obtained_block(a, b, listNo_of(a.blk[b].bszB), n)
         IN  r.p = b + overhead_szB_lo /\ Lent(a, r.a, b, n) /\ SameSuper(a, r.a)
PROOF
<1> DEFINE r == obtained_block(a, b, listNo_of(a.blk[b].bszB), n)
           blk == a.blk
           F == FreeOf(a.blk)
           z == blk[b].bszB
           l == listNo_of(z)
           frag == z - n
           u == unlinkBlock(a, b, l)
           taken == IF frag >= overhead_szB
                    THEN mkFreeBlock(mkInuseBlock(u, b, n), b + n, frag)
                    ELSE mkInuseBlock(u, b, z)
<1>0. /\ b \in DOMAIN blk /\ ~ blk[b].inuse /\ F[b] = z /\ b \in Nat /\ z \in Nat /\ z >= overhead_szB
      /\ overhead_szB \in Nat \ {0} /\ frag \in Nat /\ b \notin DOMAIN UseOf(a.blk)
      /\ Typed(blk) /\ Disjoint(blk) /\ Tiled(blk, a.sb) /\ Superblocks(a.sb, a.sblocks) /\ IsArena(a)
  BY Overhead DEF ArenaInv, Sane, Tiled, Typed, FreeOf, UseOf
<1>1. l \in Lists
  BY <1>0, ListNo
<1>2. r = [a |-> [taken EXCEPT !.bytes_on_loan = @ + get_pszB(taken, b)], p |-> get_block_payload(b)]
  BY DEF obtained_block, get_bszB
<1>a. u = unlinkBlock(a, b, l) /\ z = blk[b].bszB /\ l = listNo_of(z) /\ Linked(a.freelist, F) /\ b \in DOMAIN F
  BY DEF ArenaInv, Sane
<1> HIDE DEF u, taken, l, F, z, frag
<1>3. /\ IsArena(u) /\ SameSuper(a, u) /\ u.blk = blk
      /\ u.freelist = Left(a.freelist, l, b) /\ u.bytes_on_loan = a.bytes_on_loan
  BY <1>0, <1>a, Unlink
<1>4. Linked(u.freelist, Without(F, b))
  BY <1>0, <1>1, <1>3, <1>a, UnlinkLinked
<1>5. ASSUME NEW R, NEW m \in Nat, m >= n, IsArena(taken), SameSuper(a, taken), taken.blk = R, taken.bytes_on_loan = a.bytes_on_loan,
             R[b].bszB = m, Tiled(R, a.sb), Linked(taken.freelist, FreeOf(R)), UseOf(R) = With(UseOf(blk), b, m),
             Merged(R), UsedBefore(R, b)
      PROVE  r.p = b + overhead_szB_lo /\ Lent(a, r.a, b, n) /\ SameSuper(a, r.a)
  <2> DEFINE c == [taken EXCEPT !.bytes_on_loan = a.bytes_on_loan + (m - overhead_szB)]
  <2>0. c = [taken EXCEPT !.bytes_on_loan = a.bytes_on_loan + (m - overhead_szB)]
    OBVIOUS
  <2>1. get_pszB(taken, b) = m - overhead_szB
    BY <1>5 DEF get_pszB, bszB_to_pszB, get_bszB
  <2>2. r.p = b + overhead_szB_lo /\ r.a = c
    BY <1>2, <1>5, <2>1 DEF get_block_payload
  <2>3. /\ IsArena(c) /\ SameSuper(taken, c) /\ c.blk = R /\ c.freelist = taken.freelist
        /\ c.bytes_on_loan = a.bytes_on_loan + (m - overhead_szB)
    <3> HIDE DEF c
    <3> QED
      BY <1>5, <2>0, SetLoan
  <2> HIDE DEF c
  <2>4. SameSuper(a, c)
    BY <1>5, <2>3, SameSuperTrans
  <2>5. Sane(c)
    BY <1>0, <1>5, <2>3, <2>4 DEF Sane, SameSuper
  <2>6. Counted(c)
    <3>1. Total(Pay(With(UseOf(blk), b, m))) = Total(Pay(UseOf(blk))) + (m - overhead_szB)
      BY <1>0, <1>5, LoanWith
    <3>2. a.bytes_on_loan = Total(Pay(UseOf(blk))) /\ a.bytes_mmaped = Total(Mapped(a.sb))
      BY DEF ArenaInv, Counted
    <3> QED
      BY <1>5, <2>3, <2>4, <3>1, <3>2 DEF Counted, SameSuper
  <2>7. ArenaInv(c)
    BY <1>5, <2>3, <2>5, <2>6 DEF ArenaInv
  <2> QED
    BY <1>0, <1>5, <2>2, <2>3, <2>4, <2>7 DEF Lent
<1>6. /\ \A c \in DOMAIN blk : c \in Nat /\ blk[c].bszB \in Nat \ {0}
      /\ \A c \in DOMAIN blk : ~ blk[c].inuse /\ c + blk[c].bszB \in DOMAIN blk => blk[c + blk[c].bszB].inuse
      /\ \A c \in DOMAIN blk : c + blk[c].bszB = b => blk[c].inuse
  BY <1>0 DEF Typed, ArenaInv, Merged
<1>7. CASE frag >= overhead_szB
  <2> DEFINE v == mkInuseBlock(u, b, n)
             R == CutUse(blk, b, n)
  <2>1. taken = mkFreeBlock(v, b + n, frag) /\ v = mkInuseBlock(u, b, n)
    BY <1>7 DEF taken
  <2> HIDE DEF v
  <2>2. /\ IsArena(v) /\ SameSuper(u, v) /\ v.blk = SetUse(blk, b, n) /\ v.freelist = u.freelist
        /\ v.bytes_on_loan = u.bytes_on_loan
    BY <1>3, <2>1, MkInuse
  <2>3. /\ IsArena(taken) /\ SameSuper(v, taken) /\ taken.blk = SetFree(v.blk, b + n, frag)
        /\ taken.freelist = Joined(u.freelist, listNo_of(frag), b + n)
        /\ taken.bytes_on_loan = a.bytes_on_loan
    BY <1>3, <2>1, <2>2, MkFree
  <2>4. taken.blk = R
    <3>1. n \in 1 .. blk[b].bszB - 1
      BY <1>0, <1>7 DEF frag, z
    <3> QED
      <4>1. SetFree(SetUse(blk, b, n), b + n, blk[b].bszB - n) = R
        BY <1>0, <3>1, SetCut
      <4>2. frag = blk[b].bszB - n
        BY DEF frag, z
      <4> QED
        BY <2>2, <2>3, <4>1, <4>2
  <2>c. blk[b].bszB >= n + overhead_szB
    BY <1>0, <1>7 DEF frag, z
  <2>5. Tiled(R, a.sb) /\ b + n \notin DOMAIN blk
    BY <1>0, <2>c, CutTiled
  <2>6. FreeOf(R) = With(Without(F, b), b + n, frag) /\ UseOf(R) = With(UseOf(blk), b, n)
    BY <1>0, <2>c, CutTiled DEF F, frag, z
  <2>7. Linked(taken.freelist, FreeOf(R))
    <3>1. listNo_of(frag) \in Lists
      BY <1>0, <1>7, ListNo
    <3>2. b + n \notin DOMAIN Without(F, b) /\ b + n \in Nat
      BY <1>0, <2>5 DEF Without, F, FreeOf
    <3> QED
      BY <1>4, <2>3, <2>6, <3>1, <3>2, LinkLinked
  <2>8. /\ DOMAIN R = DOMAIN blk \cup {b + n} /\ R[b].bszB = n /\ R[b].inuse /\ R[b + n].bszB = frag /\ b + n + frag = b + z
        /\ \A c \in DOMAIN blk : c # b => R[c] = blk[c]
    BY <1>0, <2>5 DEF CutUse, Split, Block, frag, z
  <2> HIDE DEF R
  <2>9. Merged(R)
    <3>1. ASSUME NEW c \in DOMAIN R, ~ R[c].inuse, c + R[c].bszB \in DOMAIN R PROVE R[c + R[c].bszB].inuse
      <4>1. CASE c = b + n
        <5>1. c + R[c].bszB = b + z /\ b + z # b /\ b + z # b + n
          BY <1>0, <1>7, <2>8, <4>1
        <5>2. b + z \in DOMAIN blk
          BY <2>8, <3>1, <5>1
        <5>3. blk[b + z].inuse
          BY <1>0, <1>6, <5>2 DEF z
        <5> QED
          BY <2>8, <5>1, <5>2, <5>3
      <4>2. CASE c \in DOMAIN blk /\ c # b
        <5>1. R[c] = blk[c] /\ c \in Nat /\ blk[c].bszB \in Nat \ {0}
          BY <1>6, <2>8, <4>2
        <5>2. c + blk[c].bszB # b + n
          <6>1. (c < b => c + blk[c].bszB <= b) /\ (b < c => b + z <= c)
            BY <1>0, <4>2 DEF Disjoint, z
          <6> QED
            BY <1>0, <1>7, <4>2, <5>1, <6>1 DEF frag
        <5>3. c + blk[c].bszB \in DOMAIN blk
          BY <2>8, <3>1, <5>1, <5>2
        <5>4. blk[c + blk[c].bszB].inuse
          BY <1>6, <3>1, <4>2, <5>1, <5>3
        <5> QED
          BY <2>8, <5>1, <5>3, <5>4
      <4> QED
        BY <2>8, <3>1, <4>1, <4>2
    <3> QED
      BY <3>1 DEF Merged
  <2>10. UsedBefore(R, b)
    <3>1. ASSUME NEW c \in DOMAIN R, c + R[c].bszB = b PROVE R[c].inuse
      <4>1. c # b + n
        BY <1>0, <2>8, <3>1
      <4>2. CASE c # b
        BY <1>6, <2>8, <3>1, <4>1, <4>2
      <4> QED
        BY <2>8, <4>2
    <3> QED
      BY <3>1 DEF UsedBefore
  <2>11. SameSuper(a, taken)
    BY <1>3, <2>2, <2>3, SameSuperTrans
  <2>12. n >= n
    OBVIOUS
  <2> QED
    BY <1>5, <2>3, <2>4, <2>5, <2>6, <2>7, <2>8, <2>9, <2>10, <2>11, <2>12
<1>8. CASE ~ (frag >= overhead_szB)
  <2> DEFINE R == ToUse(blk, b)
  <2>1. taken = mkInuseBlock(u, b, z)
    BY <1>8 DEF taken
  <2>2. /\ IsArena(taken) /\ SameSuper(u, taken) /\ taken.blk = SetUse(blk, b, z) /\ taken.freelist = u.freelist
        /\ taken.bytes_on_loan = a.bytes_on_loan
    BY <1>3, <2>1, MkInuse
  <2>3. taken.blk = R
    BY <1>0, <2>2, SetWhole DEF z
  <2>4. Tiled(R, a.sb)
    BY <1>0, WholeTiled
  <2>5. FreeOf(R) = Without(F, b) /\ UseOf(R) = With(UseOf(blk), b, z)
    BY <1>0, WholeTiled DEF z, F
  <2>6. /\ DOMAIN R = DOMAIN blk /\ R[b].bszB = z /\ R[b].inuse /\ \A c \in DOMAIN blk : c # b => R[c] = blk[c]
        /\ \A c \in DOMAIN blk : R[c].bszB = blk[c].bszB
    BY <1>0 DEF ToUse, Resized, Block, z
  <2> HIDE DEF R
  <2>7. Merged(R)
    <3>1. ASSUME NEW c \in DOMAIN R, ~ R[c].inuse, c + R[c].bszB \in DOMAIN R PROVE R[c + R[c].bszB].inuse
      <4>1. c # b /\ R[c] = blk[c] /\ c \in DOMAIN blk
        BY <2>6, <3>1
      <4>2. blk[c + R[c].bszB].inuse
        BY <1>6, <2>6, <3>1, <4>1
      <4> QED
        BY <2>6, <3>1, <4>2
    <3> QED
      BY <3>1 DEF Merged
  <2>8. UsedBefore(R, b)
    BY <1>6, <2>6 DEF UsedBefore
  <2>9. SameSuper(a, taken)
    BY <1>3, <2>2, SameSuperTrans
  <2>10. z >= n
    BY DEF z
  <2> QED
    BY <1>0, <1>4, <1>5, <2>2, <2>3, <2>4, <2>5, <2>6, <2>7, <2>8, <2>9, <2>10
<1> QED
  BY <1>7, <1>8 DEF z, l

-----------------------------------------------------------------------------
(* VG_(arena_malloc) *)

LEMMA NewSize ==
  ASSUME NEW n \in Nat
  PROVE  new_sb_szB(n) \in Nat /\ new_sb_szB(n) >= n + SB_ADMIN /\ new_sb_szB(n) % VG_MIN_MALLOC_SZB = 0
PROOF
<1> DEFINE m == Max({n + SB_ADMIN, MIN_SBLOCK_SZB})
<1>1. m \in Nat /\ m >= n + SB_ADMIN
  <2> DEFINE x == n + SB_ADMIN
  <2>0. x \in Nat /\ MIN_SBLOCK_SZB \in Nat
    BY SizesAssumption
  <2> HIDE DEF x
  <2>1. \E y \in {x, MIN_SBLOCK_SZB} : \A z \in {x, MIN_SBLOCK_SZB} : y >= z
    BY <2>0
  <2>2. Max({x, MIN_SBLOCK_SZB}) \in Nat /\ Max({x, MIN_SBLOCK_SZB}) >= x
    BY <2>0, <2>1 DEF Max
  <2> QED
    BY <2>2 DEF x
<1>2. new_sb_szB(n) = round_up(m, PAGE)
  BY DEF new_sb_szB
<1> HIDE DEF m
<1>3. /\ round_up(m, PAGE) \in Nat /\ round_up(m, PAGE) >= m /\ round_up(m, PAGE) % PAGE = 0
      /\ PAGE \in Nat \ {0} /\ VG_MIN_MALLOC_SZB \in Nat \ {0} /\ PAGE % VG_MIN_MALLOC_SZB = 0
  BY <1>1, RoundUp, SizesAssumption
<1>4. round_up(m, PAGE) % VG_MIN_MALLOC_SZB = 0
  BY <1>3, ModMod
<1> QED
  BY <1>1, <1>2, <1>3, <1>4, SizesAssumption

(* A superblock where the address space manager finds room is apart from *)
(* the others, and goes to its place in the array.                       *)
LEMMA SuperblocksGrow ==
  ASSUME NEW a, Superblocks(a.sb, a.sblocks), NEW n \in Nat, n > SB_ADMIN, n % VG_MIN_MALLOC_SZB = 0,
         NEW s \in am_sbrk_anon_float(a, n)
  PROVE  /\ s \in Nat \ {0} /\ s \notin DOMAIN a.sb /\ n - SB_ADMIN \in Nat
         /\ Superblocks(With(a.sb, s, n - SB_ADMIN), inserted(a.sblocks, s))
PROOF
<1> DEFINE V == VG_MIN_MALLOC_SZB
           m == n - SB_ADMIN
           sb == a.sb
           sb2 == With(sb, s, m)
<1>1. /\ s \in Nat \ {0} /\ s % PAGE = 0 /\ s .. s + n - 1 \subseteq Space /\ SB_ADMIN \in Nat \ {0} /\ m \in Nat
      /\ \A t \in DOMAIN sb : s + n <= t \/ t + SB_ADMIN + sb[t] <= s
      /\ \A t \in DOMAIN sb : t \in Nat \ {0} /\ sb[t] \in Nat
  BY SizesAssumption DEF am_sbrk_anon_float, sb_end, payload_bytes, Superblocks
<1>2. s \notin DOMAIN sb
  BY <1>1
<1>3. s % V = 0 /\ m % V = 0
  <2>1. s % V = 0
    BY <1>1, SizesAssumption, ModMod, ZenonT(60)
  <2>2. m % V = 0
    <3>1. n >= SB_ADMIN /\ SB_ADMIN % V = 0 /\ V \in Nat \ {0} /\ SB_ADMIN \in Nat
      BY <1>1, SizesAssumption
    <3> QED
      BY <3>1, ModSum
  <2> QED
    BY <2>1, <2>2
<1>4. /\ DOMAIN sb2 = DOMAIN sb \cup {s} /\ sb2[s] = m /\ \A t \in DOMAIN sb : sb2[t] = sb[t]
  BY <1>2 DEF With
<1> HIDE DEF m, sb2
<1>5. s + SB_ADMIN + m = s + n
  BY <1>1 DEF m
<1>6. DOMAIN sb2 \subseteq Nat \ {0} /\ IsFiniteSet(DOMAIN sb2)
  <2>1. DOMAIN sb \subseteq Nat \ {0} /\ IsFiniteSet(DOMAIN sb)
    BY DEF Superblocks
  <2>2. IsFiniteSet(DOMAIN sb \cup {s})
    BY <2>1, FS_AddElement
  <2>3. s \in Nat \ {0}
    BY <1>1
  <2> QED
    BY <1>4, <2>1, <2>2, <2>3
<1>7. ASSUME NEW t \in DOMAIN sb2
      PROVE  sb2[t] \in Nat /\ sb2[t] % V = 0 /\ t % V = 0 /\ t .. t + SB_ADMIN + sb2[t] - 1 \subseteq Space
  <2>1. CASE t = s
    <3>1. s .. s + SB_ADMIN + m - 1 = s .. s + n - 1
      BY <1>1, <1>5
    <3> QED
      BY <1>1, <1>3, <1>4, <2>1, <3>1
  <2>2. CASE t \in DOMAIN sb
    BY <1>4, <2>2 DEF Superblocks
  <2> QED
    BY <1>4, <2>1, <2>2
<1>8. ASSUME NEW t \in DOMAIN sb2, NEW u \in DOMAIN sb2, t < u
      PROVE  t + SB_ADMIN + sb2[t] <= u
  <2>1. CASE t = s /\ u # s
    <3>1. u \in DOMAIN sb
      BY <1>4, <2>1
    <3>2. s + n <= u \/ u + SB_ADMIN + sb[u] <= s
      BY <1>1, <3>1
    <3>3. s < u /\ u \in Nat /\ sb[u] \in Nat
      BY <1>1, <1>8, <2>1, <3>1
    <3>4. s + n <= u
      BY <1>1, <3>2, <3>3
    <3> QED
      BY <1>4, <1>5, <2>1, <3>4
  <2>2. CASE u = s /\ t # s
    <3>1. t \in DOMAIN sb
      BY <1>4, <2>2
    <3>2. s + n <= t \/ t + SB_ADMIN + sb[t] <= s
      BY <1>1, <3>1
    <3>3. t < s /\ t \in Nat /\ sb[t] \in Nat
      BY <1>1, <1>8, <2>2, <3>1
    <3>4. t + SB_ADMIN + sb[t] <= s
      BY <1>1, <3>2, <3>3
    <3> QED
      BY <1>4, <2>2, <3>1, <3>4
  <2>3. CASE t # s /\ u # s
    <3>1. t \in DOMAIN sb /\ u \in DOMAIN sb
      BY <1>4, <2>3
    <3> QED
      BY <1>4, <1>8, <3>1 DEF Superblocks
  <2>4. t # s \/ u # s
    BY <1>1, <1>8
  <2> QED
    BY <2>1, <2>2, <2>3, <2>4
<1>9. /\ inserted(a.sblocks, s) \in Seq(Nat) /\ Increasing(inserted(a.sblocks, s))
      /\ Range(inserted(a.sblocks, s)) = DOMAIN sb2
  <2>1. a.sblocks \in Seq(Nat) /\ Increasing(a.sblocks) /\ Range(a.sblocks) = DOMAIN sb
    BY DEF Superblocks
  <2>2. s \notin Range(a.sblocks) /\ s \in Nat
    BY <1>1, <1>2, <2>1
  <2>3. /\ inserted(a.sblocks, s) \in Seq(Nat) /\ Increasing(inserted(a.sblocks, s))
        /\ Range(inserted(a.sblocks, s)) = Range(a.sblocks) \cup {s}
    BY <2>1, <2>2, InsertedSorted
  <2> QED
    BY <1>4, <2>1, <2>3
<1>10. Superblocks(sb2, inserted(a.sblocks, s))
  BY <1>6, <1>7, <1>8, <1>9 DEF Superblocks
<1> QED
  BY <1>1, <1>2, <1>10 DEF sb2, m

LEMMA NewSb ==
  ASSUME NEW a, IsArena(a), NEW s, NEW n, NEW g, g = newSuperblock(a, s, n)
  PROVE  /\ IsArena(g) /\ g.clientmem = a.clientmem /\ g.blk = a.blk /\ g.freelist = a.freelist
         /\ g.bytes_on_loan = a.bytes_on_loan /\ g.sb = With(a.sb, s, n - SB_ADMIN)
         /\ g.sblocks = inserted(a.sblocks, s) /\ g.bytes_mmaped = a.bytes_mmaped + n
PROOF
<1> DEFINE sb2 == [t \in DOMAIN a.sb \cup {s} |-> IF t = s THEN n - SB_ADMIN ELSE a.sb[t]]
           q2 == inserted(a.sblocks, s)
           z2 == IF Len(a.sblocks) = a.sblocks_size THEN 2 * a.sblocks_size ELSE a.sblocks_size
           m2 == a.bytes_mmaped + n
<1>1. g = [a EXCEPT !.sb = sb2, !.sblocks = q2, !.sblocks_size = z2, !.bytes_mmaped = m2]
  BY DEF newSuperblock
<1>2. sb2 = With(a.sb, s, n - SB_ADMIN)
  BY DEF With
<1> HIDE DEF sb2, q2, z2, m2
<1>3. g = [clientmem |-> a.clientmem, blk |-> a.blk, sb |-> sb2, freelist |-> a.freelist,
           sblocks |-> q2, sblocks_size |-> z2,
           bytes_on_loan |-> a.bytes_on_loan, bytes_mmaped |-> m2]
  BY <1>1 DEF IsArena
<1>4. /\ IsArena(g) /\ g.clientmem = a.clientmem /\ g.blk = a.blk /\ g.freelist = a.freelist
      /\ g.bytes_on_loan = a.bytes_on_loan /\ g.sb = sb2 /\ g.sblocks = q2 /\ g.bytes_mmaped = m2
  BY <1>3 DEF IsArena
<1> QED
  BY <1>2, <1>4 DEF q2, m2

(* A new superblock is one free block. *)
LEMMA Grown ==
  ASSUME NEW a, ArenaInv(a), NEW n \in Nat, n >= overhead_szB,
         NEW s \in am_sbrk_anon_float(a, new_sb_szB(n)),
         NEW g, g = newSuperblock(a, s, new_sb_szB(n)), NEW h, h = mkFreeBlock(g, payload_bytes(s), g.sb[s])
  PROVE  /\ ArenaInv(h) /\ h.clientmem = a.clientmem /\ UseOf(h.blk) = UseOf(a.blk) /\ s \in Nat /\ s \notin DOMAIN a.sb
         /\ h.sb = With(a.sb, s, g.sb[s]) /\ g.sb[s] \in Nat /\ g.sb[s] >= n
         /\ s + SB_ADMIN \in DOMAIN FreeOf(h.blk) /\ h.blk[s + SB_ADMIN].bszB = g.sb[s]
PROOF
<1> DEFINE c == new_sb_szB(n)
           m == c - SB_ADMIN
           b == s + SB_ADMIN
           blk == a.blk
           R == With(blk, b, Block(m, FALSE))
           sb2 == With(a.sb, s, m)
<1>0. SB_ADMIN \in Nat \ {0} /\ overhead_szB \in Nat \ {0}
  BY SizesAssumption, Overhead
<1>1. c \in Nat /\ c > SB_ADMIN /\ c % VG_MIN_MALLOC_SZB = 0 /\ m \in Nat /\ m >= n /\ m + SB_ADMIN = c
  <2>1. c \in Nat /\ c >= n + SB_ADMIN /\ c % VG_MIN_MALLOC_SZB = 0
    BY NewSize
  <2> HIDE DEF c
  <2> QED
    BY <1>0, <2>1
<1>2. /\ Superblocks(a.sb, a.sblocks) /\ Tiled(blk, a.sb) /\ Typed(blk) /\ IsArena(a)
      /\ Linked(a.freelist, FreeOf(blk)) /\ Merged(blk) /\ Counted(a)
  BY DEF ArenaInv, Sane, Tiled
<1>a. s \in am_sbrk_anon_float(a, c) /\ g = newSuperblock(a, s, c)
  OBVIOUS
<1> HIDE DEF c
<1>3. s \in Nat \ {0} /\ s \notin DOMAIN a.sb /\ Superblocks(sb2, inserted(a.sblocks, s))
  BY <1>1, <1>2, <1>a, SuperblocksGrow
<1>4. /\ IsArena(g) /\ g.clientmem = a.clientmem /\ g.blk = a.blk /\ g.freelist = a.freelist
      /\ g.bytes_on_loan = a.bytes_on_loan /\ g.sb = sb2
      /\ g.sblocks = inserted(a.sblocks, s) /\ g.bytes_mmaped = a.bytes_mmaped + c
  BY <1>2, <1>a, NewSb
<1>5. g.sb[s] = m /\ payload_bytes(s) = b /\ b \in Nat
  BY <1>0, <1>3, <1>4 DEF With, payload_bytes
<1> HIDE DEF m
<1>6. /\ IsArena(h) /\ SameSuper(g, h) /\ h.blk = SetFree(blk, b, m)
      /\ h.freelist = Joined(a.freelist, listNo_of(m), b) /\ h.bytes_on_loan = a.bytes_on_loan
  <2>1. h = mkFreeBlock(g, b, m)
    BY <1>5
  <2> HIDE DEF b
  <2> QED
    BY <1>4, <2>1, MkFree
<1>7. b \notin DOMAIN blk /\ (\A d \in DOMAIN blk : d \notin b .. b + m - 1) /\ Tiled(R, sb2)
  <2>1. m >= overhead_szB
    BY <1>0, <1>1
  <2> QED
    BY <1>1, <1>2, <1>3, <2>1, GrownTiled
<1>8. h.blk = R
  <2>1. (DOMAIN blk \ (b .. b + m - 1)) \cup {b} = DOMAIN blk \cup {b}
    BY <1>7
  <2> QED
    BY <1>6, <2>1 DEF SetFree, set_bszB, With, Block
<1>9. FreeOf(R) = With(FreeOf(blk), b, m) /\ UseOf(R) = UseOf(blk)
  BY <1>7, GrownMaps, ZenonT(60)
<1>10. DOMAIN R = DOMAIN blk \cup {b} /\ R[b].bszB = m /\ ~ R[b].inuse /\ \A d \in DOMAIN blk : R[d] = blk[d]
  BY <1>7 DEF With, Block
<1> HIDE DEF R
<1>11. Linked(h.freelist, FreeOf(R))
  <2>1. listNo_of(m) \in Lists
    BY <1>0, <1>1, ListNo
  <2>2. b \notin DOMAIN FreeOf(blk)
    BY <1>7 DEF FreeOf
  <2> HIDE DEF b
  <2> QED
    BY <1>2, <1>5, <1>6, <1>9, <2>1, <2>2, LinkLinked
<1>12. Sane(h)
  BY <1>3, <1>4, <1>6, <1>7, <1>8, <1>11 DEF Sane, SameSuper
<1>13. ASSUME NEW d \in DOMAIN blk
       PROVE  d \in Nat /\ blk[d].bszB \in Nat /\ d + blk[d].bszB # b /\ d # b + m
  <2>1. PICK t \in DOMAIN a.sb : Inside(blk, a.sb, d, t)
    BY <1>2 DEF Tiled, Covers
  <2>2. d \in Nat /\ blk[d].bszB \in Nat \ {0} /\ t \in Nat /\ a.sb[t] \in Nat
    BY <1>0, <1>2 DEF Typed, Superblocks
  <2>3. s \in DOMAIN sb2 /\ t \in DOMAIN sb2 /\ sb2[s] = m /\ sb2[t] = a.sb[t] /\ s # t
    BY <1>3 DEF With
  <2>4. (s < t => s + SB_ADMIN + m <= t) /\ (t < s => t + SB_ADMIN + a.sb[t] <= s)
    BY <1>3, <2>3 DEF Superblocks
  <2> QED
    BY <1>0, <1>1, <1>3, <2>1, <2>2, <2>3, <2>4 DEF Inside
<1>14. Merged(R)
  <2>1. ASSUME NEW d \in DOMAIN R, ~ R[d].inuse, d + R[d].bszB \in DOMAIN R PROVE R[d + R[d].bszB].inuse
    <3>1. d # b
      <4>1. ASSUME d = b PROVE FALSE
        <5>1. b + m \in DOMAIN R
          BY <1>10, <2>1, <4>1
        <5>2. b + m \in DOMAIN blk
          BY <1>0, <1>1, <1>5, <1>10, <5>1
        <5> QED
          BY <1>13, <5>2
      <4> QED
        BY <4>1
    <3>2. d \in DOMAIN blk /\ R[d] = blk[d]
      BY <1>10, <3>1
    <3>3. d + blk[d].bszB \in DOMAIN blk
      BY <1>10, <1>13, <2>1, <3>2
    <3>4. blk[d + blk[d].bszB].inuse
      BY <1>2, <2>1, <3>2, <3>3 DEF Merged
    <3> QED
      BY <1>10, <3>2, <3>3, <3>4
  <2> QED
    BY <2>1 DEF Merged
<1>15. Counted(h)
  <2>1. Mapped(sb2) = With(Mapped(a.sb), s, m + SB_ADMIN)
    BY <1>3 DEF Mapped, With
  <2>2. Mapped(a.sb) \in [DOMAIN a.sb -> Int] /\ IsFiniteSet(DOMAIN a.sb) /\ m + SB_ADMIN \in Int
    BY <1>0, <1>1, <1>2 DEF Mapped, Superblocks
  <2>3. Total(With(Mapped(a.sb), s, m + SB_ADMIN)) = (m + SB_ADMIN) + Total(Mapped(a.sb)) /\ Total(Mapped(a.sb)) \in Int
    <3> DEFINE f == Mapped(a.sb)
               D == DOMAIN a.sb
               v == m + SB_ADMIN
    <3>1. f \in [D -> Int] /\ IsFiniteSet(D) /\ v \in Int /\ s \notin D
      BY <1>3, <2>2
    <3> HIDE DEF f, D, v
    <3>2. Total(With(f, s, v)) = v + Total(f) /\ Total(f) \in Int
      BY <3>1, TotalWith
    <3> QED
      BY <3>2 DEF f, v
  <2>4. a.bytes_on_loan = Total(Pay(UseOf(blk))) /\ a.bytes_mmaped = Total(Mapped(a.sb))
    BY <1>2 DEF Counted
  <2>5. h.bytes_mmaped = a.bytes_mmaped + c /\ h.sb = sb2
    BY <1>4, <1>6 DEF SameSuper
  <2>6. h.bytes_mmaped = Total(Mapped(h.sb))
    <3>1. m + SB_ADMIN = c /\ c \in Int
      BY <1>1
    <3> QED
      BY <2>1, <2>3, <2>4, <2>5, <3>1
  <2>7. h.bytes_on_loan = Total(Pay(UseOf(h.blk)))
    BY <1>6, <1>8, <1>9, <2>4
  <2> QED
    BY <2>6, <2>7 DEF Counted
<1>16. b \in DOMAIN FreeOf(R)
  BY <1>10 DEF FreeOf
<1> QED
  BY <1>1, <1>3, <1>4, <1>5, <1>6, <1>8, <1>9, <1>10, <1>12, <1>14, <1>15, <1>16 DEF ArenaInv, SameSuper

(* The block that a request takes. *)
LEMMA Request ==
  ASSUME NEW k \in Nat
  PROVE  LET n == pszB_to_bszB(align_req_pszB(k))
         IN  /\ n \in Nat /\ n >= k + overhead_szB /\ n % VG_MIN_MALLOC_SZB = 0 /\ n >= overhead_szB
             /\ k % VG_MIN_MALLOC_SZB = 0 => n = k + overhead_szB
PROOF
<1> DEFINE V == VG_MIN_MALLOC_SZB
           m == align_req_pszB(k)
<1>1. V \in Nat \ {0} /\ overhead_szB \in Nat /\ overhead_szB % V = 0
  BY SizesAssumption, Overhead
<1>2. m \in Nat /\ m >= k /\ m % V = 0 /\ (k % V = 0 => m = k)
  BY <1>1, RoundUp, RoundUpFixed DEF align_req_pszB
<1> HIDE DEF m
<1>3. (m + overhead_szB) % V = 0
  BY <1>1, <1>2, ModSum
<1>4. /\ m + overhead_szB \in Nat /\ m + overhead_szB >= k + overhead_szB /\ (m + overhead_szB) % V = 0 /\ m + overhead_szB >= overhead_szB
      /\ k % V = 0 => m + overhead_szB = k + overhead_szB
  BY <1>1, <1>2, <1>3
<1> QED
  BY <1>4 DEF m, pszB_to_bszB

(* The arena c has a superblock that a has not only if no free block of a  *)
(* was large enough, and for a block b of at least n bytes.                *)
GrowsFor(a, c, b, n) ==
  \A s \in DOMAIN c.sb \ DOMAIN a.sb :
    /\ Inside(c.blk, c.sb, b, s)
    /\ \A f \in DOMAIN FreeOf(a.blk) : FreeOf(a.blk)[f] < n

(* The search misses no block that is large enough. *)
LEMMA NoHits ==
  ASSUME NEW a, ArenaInv(a), NEW n \in Nat, n >= overhead_szB, hits(a, n) = {}
  PROVE  \A f \in DOMAIN FreeOf(a.blk) : FreeOf(a.blk)[f] < n
PROOF
<1> DEFINE F == FreeOf(a.blk)
<1>1. Linked(a.freelist, F) /\ Typed(a.blk)
  BY DEF ArenaInv, Sane, Tiled
<1>2. SUFFICES ASSUME NEW f \in DOMAIN F, ~ (F[f] < n) PROVE FALSE
  OBVIOUS
<1>3. F[f] = a.blk[f].bszB /\ F[f] \in Nat /\ F[f] >= overhead_szB /\ n <= F[f] /\ overhead_szB \in Nat
  <2>1. f \in DOMAIN a.blk /\ F[f] = a.blk[f].bszB
    BY DEF FreeOf
  <2> HIDE DEF F
  <2> QED
    BY <1>1, <1>2, <2>1, Overhead DEF Typed
<1> DEFINE l == listNo_of(F[f])
<1>4. l \in Lists /\ listNo_of(n) <= l /\ listNo_of(n) \in Lists
  <2> HIDE DEF F
  <2> QED
    BY <1>3, ListNo, ListNoGrows
<1>5. l \in listNo_of(n) .. N_MALLOC_LISTS - 1
  <2>1. N_MALLOC_LISTS \in Nat
    BY ListsAssumption DEF N_MALLOC_LISTS
  <2> HIDE DEF l
  <2> QED
    BY <1>4, <2>1 DEF Lists
<1>6. f \in Range(a.freelist[l])
  <2> HIDE DEF F
  <2> QED
    BY <1>1, <1>2, <1>4 DEF Linked
<1>7. PICK i \in DOMAIN a.freelist[l] : a.freelist[l][i] = f
  BY <1>6 DEF Range
<1>8. i \in big_enough(a, l, n)
  BY <1>3, <1>7 DEF big_enough, get_bszB
<1>9. l \in hits(a, n)
  BY <1>5, <1>8 DEF hits
<1> QED
  BY <1>9

LEMMA Hits ==
  ASSUME NEW a, ArenaInv(a), NEW n \in Nat, n >= overhead_szB, hits(a, n) # {}
  PROVE  LET l == Min(hits(a, n))
             b == first_fit(a, l, n)
         IN  b \in DOMAIN FreeOf(a.blk) /\ a.blk[b].bszB >= n /\ l = listNo_of(a.blk[b].bszB)
PROOF
<1> DEFINE F == FreeOf(a.blk)
           H == hits(a, n)
           l == Min(H)
           E == big_enough(a, l, n)
           i == Min(E)
           b == first_fit(a, l, n)
<1>1. Linked(a.freelist, F) /\ Typed(a.blk)
  BY DEF ArenaInv, Sane, Tiled
<1>2. l \in H /\ H \subseteq Lists
  <2>1. listNo_of(n) \in Lists /\ N_MALLOC_LISTS \in Nat
    BY ListNo, ListsAssumption DEF N_MALLOC_LISTS
  <2>2. H \subseteq Lists
    BY <2>1 DEF hits, Lists
  <2>3. H \in SUBSET Nat /\ H # {}
    BY <2>1, <2>2 DEF Lists
  <2> HIDE DEF H
  <2> QED
    BY <2>2, <2>3, MinNat
<1>3. E # {} /\ l \in Lists
  BY <1>2 DEF hits
<1> HIDE DEF H, l
<1>4. i \in E
  <2>1. E \in SUBSET Nat
    BY <1>1, <1>3 DEF big_enough, Linked
  <2> HIDE DEF E
  <2> QED
    BY <1>3, <2>1, MinNat
<1>5. i \in DOMAIN a.freelist[l] /\ a.blk[a.freelist[l][i]].bszB >= n /\ b = a.freelist[l][i]
  <2>1. b = a.freelist[l][i]
    BY DEF first_fit
  <2> HIDE DEF i, b
  <2> QED
    BY <1>4, <2>1 DEF big_enough, get_bszB
<1> HIDE DEF i, b, F
<1>6. b \in Range(a.freelist[l])
  BY <1>5 DEF Range
<1>7. b \in DOMAIN F /\ listNo_of(F[b]) = l
  BY <1>1, <1>3, <1>6 DEF Linked
<1>8. F[b] = a.blk[b].bszB
  BY <1>7 DEF F, FreeOf
<1> QED
  BY <1>5, <1>7, <1>8 DEF F, b, l, H

(* What VG_(arena_malloc) does to the arena, in each of its outcomes. *)
LEMMA ArenaMalloc ==
  ASSUME NEW a, ArenaInv(a), NEW k \in Nat, NEW n, n = pszB_to_bszB(align_req_pszB(k)), NEW r \in arena_malloc(a, k)
  PROVE  \/ r.p \in {NULL, NORETURN} /\ r.a = a /\ (r.p = NULL => a.clientmem)
         \/ \E b \in Nat : /\ r.p = b + overhead_szB_lo /\ r.a.clientmem = a.clientmem
                           /\ Lent(a, r.a, b, n) /\ GrowsFor(a, r.a, b, n)
PROOF
<1>1. n \in Nat /\ n >= overhead_szB /\ n % VG_MIN_MALLOC_SZB = 0
  BY Request
<1>2. CASE hits(a, n) # {}
  <2> DEFINE l == Min(hits(a, n))
             b == first_fit(a, l, n)
  <2>1. r = obtained_block(a, b, l, n)
    BY <1>2 DEF arena_malloc
  <2>2. b \in DOMAIN FreeOf(a.blk) /\ a.blk[b].bszB >= n /\ l = listNo_of(a.blk[b].bszB)
    BY <1>1, <1>2, Hits
  <2> HIDE DEF l, b
  <2>3. r.p = b + overhead_szB_lo /\ Lent(a, r.a, b, n) /\ SameSuper(a, r.a)
    BY <1>1, <2>1, <2>2, Obtained
  <2>4. b \in Nat /\ r.a.clientmem = a.clientmem /\ GrowsFor(a, r.a, b, n)
    BY <2>3 DEF Lent, SameSuper, GrowsFor
  <2> QED
    BY <2>3, <2>4
<1>3. CASE hits(a, n) = {} /\ r.p \in {NULL, NORETURN} /\ r.a = a /\ (r.p = NULL => a.clientmem)
  BY <1>3
<1>4. ASSUME hits(a, n) = {}, NEW s \in am_sbrk_anon_float(a, new_sb_szB(n)), r = with_superblock(a, s, n)
      PROVE  \E b \in Nat : /\ r.p = b + overhead_szB_lo /\ r.a.clientmem = a.clientmem
                            /\ Lent(a, r.a, b, n) /\ GrowsFor(a, r.a, b, n)
  <2> DEFINE g == newSuperblock(a, s, new_sb_szB(n))
             h == mkFreeBlock(g, payload_bytes(s), g.sb[s])
             b == s + SB_ADMIN
  <2>1. r = obtained_block(h, b, listNo_of(g.sb[s]), n)
    BY <1>4 DEF with_superblock, payload_bytes
  <2>2. g = newSuperblock(a, s, new_sb_szB(n)) /\ h = mkFreeBlock(g, payload_bytes(s), g.sb[s])
    OBVIOUS
  <2> HIDE DEF g, h
  <2>3. /\ ArenaInv(h) /\ h.clientmem = a.clientmem /\ UseOf(h.blk) = UseOf(a.blk) /\ s \in Nat /\ s \notin DOMAIN a.sb
        /\ h.sb = With(a.sb, s, g.sb[s]) /\ g.sb[s] \in Nat /\ g.sb[s] >= n
        /\ b \in DOMAIN FreeOf(h.blk) /\ h.blk[b].bszB = g.sb[s]
    BY <1>1, <1>4, <2>2, Grown
  <2> HIDE DEF b
  <2>4. r.p = b + overhead_szB_lo /\ Lent(h, r.a, b, n) /\ SameSuper(h, r.a)
    BY <1>1, <2>1, <2>3, Obtained
  <2>5. Lent(a, r.a, b, n) /\ b \in Nat /\ ArenaInv(r.a) /\ b \in DOMAIN UseOf(r.a.blk)
    BY <2>3, <2>4 DEF Lent, With
  <2>6. GrowsFor(a, r.a, b, n)
    <3>1. r.a.sb = h.sb /\ DOMAIN h.sb = DOMAIN a.sb \cup {s} /\ h.sb[s] = g.sb[s]
      BY <2>3, <2>4 DEF SameSuper, With
    <3>2. Inside(r.a.blk, r.a.sb, b, s)
      <4> DEFINE B == r.a.blk
                 S == r.a.sb
      <4>1. Tiled(B, S) /\ Typed(B) /\ Superblocks(S, r.a.sblocks) /\ b \in DOMAIN B
        BY <2>5 DEF ArenaInv, Sane, Tiled, UseOf
      <4>2. PICK t \in DOMAIN S : Inside(B, S, b, t)
        BY <4>1 DEF Tiled, Covers
      <4>3. s \in DOMAIN S /\ s + SB_ADMIN <= b /\ b < s + SB_ADMIN + S[s]
        BY <1>1, <2>3, <3>1, SizesAssumption, Overhead DEF b
      <4> HIDE DEF B, S
      <4>4. t = s
        BY <4>1, <4>2, <4>3, OneHome
      <4> QED
        BY <4>2, <4>4 DEF B, S
    <3>3. \A f \in DOMAIN FreeOf(a.blk) : FreeOf(a.blk)[f] < n
      BY <1>1, <1>4, NoHits
    <3> QED
      BY <3>1, <3>2, <3>3 DEF GrowsFor
  <2>7. r.a.clientmem = a.clientmem
    BY <2>3, <2>4 DEF SameSuper
  <2> QED
    BY <2>4, <2>5, <2>6, <2>7
<1>5. hits(a, n) = {} =>
        \/ r.p \in {NULL, NORETURN} /\ r.a = a /\ (r.p = NULL => a.clientmem)
        \/ \E s \in am_sbrk_anon_float(a, new_sb_szB(n)) : r = with_superblock(a, s, n)
  <2>1. NULL # NORETURN
    BY DEF NULL, NORETURN
  <2>2. hits(a, n) = {} =>
          \/ r = [a |-> a, p |-> IF a.clientmem THEN NULL ELSE NORETURN]
          \/ r = [a |-> a, p |-> NORETURN]
          \/ \E s \in am_sbrk_anon_float(a, new_sb_szB(n)) : r = with_superblock(a, s, n)
    BY DEF arena_malloc
  <2> QED
    BY <2>1, <2>2
<1> QED
  BY <1>2, <1>3, <1>4, <1>5

-----------------------------------------------------------------------------
(* VG_(arena_memalign) *)

(* As Lent, but what lies before b may be free. *)
Given(a, c, b, n) ==
  /\ ArenaInv(c) /\ b \notin DOMAIN UseOf(a.blk) /\ b \in Nat
  /\ \E z \in Nat : z >= n /\ UseOf(c.blk) = With(UseOf(a.blk), b, z)

LEMMA LentGiven ==
  ASSUME NEW a, NEW c, NEW b, NEW n, Lent(a, c, b, n)
  PROVE  Given(a, c, b, n)
BY DEF Lent, Given

(* Where the aligned block begins, within the larger one. *)
LEMMA AlignedCut ==
  ASSUME NEW b \in Nat, b % VG_MIN_MALLOC_SZB = 0, NEW al \in Nat \ {0}, al % VG_MIN_MALLOC_SZB = 0,
         NEW p, p = align_upwards(b + 2 * overhead_szB_lo + overhead_szB_hi, al),
         NEW f, f = p - overhead_szB_lo - b
  PROVE  /\ p \in Nat /\ p % al = 0 /\ f \in Nat /\ f % VG_MIN_MALLOC_SZB = 0
         /\ f >= overhead_szB /\ f < overhead_szB + al /\ b + f = p - overhead_szB_lo
PROOF
<1> DEFINE V == VG_MIN_MALLOC_SZB
           lo == overhead_szB_lo
           x == b + 2 * lo + overhead_szB_hi
<1>1. /\ V \in Nat \ {0} /\ lo \in Nat /\ overhead_szB_hi \in Nat /\ lo % V = 0
      /\ overhead_szB = lo + overhead_szB_hi
  BY SizesAssumption, Overhead
<1>2. x \in Nat
  BY <1>1
<1>3. p \in Nat /\ p >= x /\ p < x + al /\ p % al = 0
  <2>1. p = round_up(x, al)
    BY DEF align_upwards
  <2> HIDE DEF x
  <2> QED
    BY <1>2, <2>1, RoundUp
<1> DEFINE w == b + lo
<1>4. f = p - w /\ p >= w /\ f \in Nat /\ f >= overhead_szB /\ f < overhead_szB + al /\ b + f = p - lo /\ w \in Nat
  BY <1>1, <1>3
<1>5. p % V = 0
  BY <1>1, <1>3, ModMod
<1>6. w % V = 0
  BY <1>1, ModSum
<1> HIDE DEF w
<1>7. (p - w) % V = 0
  BY <1>1, <1>3, <1>4, <1>5, <1>6, ModSum
<1> QED
  BY <1>3, <1>4, <1>7

(* The part of a block on loan before b + f becomes a free block. *)
LEMMA CutMerged ==
  ASSUME NEW blk, NEW sb, Tiled(blk, sb), Merged(blk), NEW b \in DOMAIN blk, UsedBefore(blk, b),
         NEW f \in Nat, f >= overhead_szB, blk[b].bszB >= f + overhead_szB
  PROVE  Merged(CutFree(blk, b, f))
PROOF
<1> DEFINE R == CutFree(blk, b, f)
           z == blk[b].bszB
<1>1. /\ b \in Nat /\ z \in Nat /\ overhead_szB \in Nat \ {0}
      /\ \A d \in DOMAIN blk : d \in Nat /\ blk[d].bszB \in Nat \ {0}
      /\ \A d \in DOMAIN blk : (d < b => d + blk[d].bszB <= b) /\ (b < d => b + z <= d)
  BY Overhead DEF Tiled, Typed, Disjoint
<1>2. b + f \notin DOMAIN blk /\ b # b + f
  BY <1>1
<1>3. /\ DOMAIN R = DOMAIN blk \cup {b + f} /\ R[b].bszB = f /\ R[b + f].inuse
      /\ \A d \in DOMAIN blk : d # b => R[d] = blk[d]
  BY <1>2 DEF CutFree, Split, Block
<1> HIDE DEF R, z
<1>4. ASSUME NEW d \in DOMAIN R, ~ R[d].inuse, d + R[d].bszB \in DOMAIN R PROVE R[d + R[d].bszB].inuse
  <2>1. CASE d = b
    BY <1>3, <2>1
  <2>2. CASE d # b
    <3>1. d \in DOMAIN blk /\ R[d] = blk[d] /\ d \in Nat /\ blk[d].bszB \in Nat \ {0}
      BY <1>1, <1>3, <1>4, <2>2
    <3> DEFINE e == d + blk[d].bszB
    <3>2. e # b
      BY <1>4, <3>1 DEF UsedBefore
    <3>3. e # b + f
      <4>1. (d < b => e <= b) /\ (b < d => b + z <= d)
        BY <1>1, <3>1
      <4> QED
        BY <1>1, <2>2, <3>1, <4>1 DEF z
    <3>4. e \in DOMAIN blk
      BY <1>3, <1>4, <3>1, <3>3
    <3>5. blk[e].inuse
      BY <1>4, <3>1, <3>4 DEF Merged
    <3> QED
      BY <1>3, <3>1, <3>2, <3>4, <3>5
  <2> QED
    BY <2>1, <2>2
<1> QED
  BY <1>4 DEF Merged, R

LEMMA WithoutWith ==
  ASSUME NEW D, NEW U, DOMAIN U = D, U = [d \in D |-> U[d]], NEW b, b \notin D, NEW z
  PROVE  Without(With(U, b, z), b) = U
PROOF
<1>1. DOMAIN With(U, b, z) \ {b} = D
  BY DEF With
<1>2. Without(With(U, b, z), b) = [d \in D |-> With(U, b, z)[d]]
  BY <1>1 DEF Without
<1>3. \A d \in D : With(U, b, z)[d] = U[d]
  BY DEF With
<1> QED
  BY <1>2, <1>3

LEMMA CutAligned ==
  ASSUME NEW a, ArenaInv(a), NEW r, NEW b \in Nat, NEW n \in Nat, Lent(a, r.a, b, n), GrowsFor(a, r.a, b, n),
         r.p = b + overhead_szB_lo,
         NEW al \in Nat \ {0}, al % VG_MIN_MALLOC_SZB = 0, NEW m \in Nat, m >= overhead_szB, n >= m + overhead_szB + al,
         NEW e, e = cut_aligned(a.bytes_on_loan, r, al)
  PROVE  /\ e.a.clientmem = r.a.clientmem /\ e.p % al = 0
         /\ \E c \in Nat : e.p = c + overhead_szB_lo /\ Given(a, e.a, c, m) /\ GrowsFor(a, e.a, c, n)
PROOF
<1> DEFINE V == VG_MIN_MALLOC_SZB
           lo == overhead_szB_lo
           g == r.a
           blk == g.blk
           z == blk[b].bszB
           p == align_upwards(b + 2 * lo + overhead_szB_hi, al)
           f == p - lo - b
           t == mkFreeBlock(g, b, f)
           cut == mkInuseBlock(t, b + f, z - f)
           U == UseOf(a.blk)
           R == CutFree(blk, b, f)
<1>0. lo \in Nat /\ overhead_szB_hi \in Nat /\ overhead_szB \in Nat \ {0} /\ V \in Nat \ {0}
  BY Overhead, SizesAssumption
<1>1. /\ ArenaInv(g) /\ Sane(g) /\ IsArena(g) /\ Superblocks(g.sb, g.sblocks) /\ Tiled(blk, g.sb) /\ Typed(blk)
      /\ Disjoint(blk) /\ Linked(g.freelist, FreeOf(blk)) /\ Merged(blk) /\ Counted(g) /\ b \notin DOMAIN U /\ UsedBefore(blk, b)
      /\ \E y \in Nat : y >= n /\ UseOf(blk) = With(U, b, y)
  BY DEF Lent, ArenaInv, Sane, Tiled
<1>2. b \in DOMAIN blk /\ blk[b].inuse /\ UseOf(blk) = With(U, b, z) /\ z \in Nat /\ z >= n /\ b % V = 0
  <2>1. PICK y \in Nat : y >= n /\ UseOf(blk) = With(U, b, y)
    BY <1>1
  <2>2. b \in DOMAIN With(U, b, y) /\ With(U, b, y)[b] = y
    BY DEF With
  <2>3. b \in DOMAIN blk /\ blk[b].inuse /\ UseOf(blk)[b] = blk[b].bszB
    <3>1. b \in DOMAIN UseOf(blk)
      BY <2>1, <2>2
    <3> QED
      BY <3>1 DEF UseOf
  <2> QED
    BY <1>1, <2>1, <2>2, <2>3 DEF Typed
<1>3. /\ p \in Nat /\ p % al = 0 /\ f \in Nat /\ f % V = 0 /\ f >= overhead_szB /\ f < overhead_szB + al /\ b + f = p - lo
  BY <1>2, AlignedCut
<1>4. e = [a |-> [cut EXCEPT !.bytes_on_loan = a.bytes_on_loan + (z - f - overhead_szB)], p |-> p]
  <2>1. get_payload_block(r.p) = b
    BY <1>0 DEF get_payload_block
  <2>2. get_payload_block(p) = b + f
    BY <1>3 DEF get_payload_block
  <2>3. (b + f) - b = f
    BY <1>3
  <2> HIDE DEF p, f
  <2> QED
    BY <2>1, <2>2, <2>3 DEF cut_aligned, get_bszB, bszB_to_pszB, p
<1>a. t = mkFreeBlock(g, b, f) /\ cut = mkInuseBlock(t, b + f, z - f) /\ z = blk[b].bszB
  OBVIOUS
<1> HIDE DEF p, f, t, cut, z
<1>5. z - f \in Nat /\ z - f >= m /\ z >= f + overhead_szB /\ f \in 1 .. z - 1
  BY <1>0, <1>2, <1>3
<1>6. /\ IsArena(t) /\ SameSuper(g, t) /\ t.blk = SetFree(blk, b, f)
      /\ t.freelist = Joined(g.freelist, listNo_of(f), b) /\ t.bytes_on_loan = g.bytes_on_loan
  BY <1>1, <1>a, MkFree
<1>7. /\ IsArena(cut) /\ SameSuper(t, cut) /\ cut.blk = SetUse(t.blk, b + f, z - f)
      /\ cut.freelist = t.freelist
  BY <1>6, <1>a, MkInuse
<1>8. cut.blk = R
  <2>1. f \in 1 .. blk[b].bszB - 1
    BY <1>5, <1>a
  <2>2. SetUse(SetFree(blk, b, f), b + f, blk[b].bszB - f) = R
    BY <1>1, <1>2, <2>1, SetCut
  <2> QED
    BY <1>6, <1>7, <1>a, <2>2
<1>9. /\ b + f \notin DOMAIN blk /\ Tiled(R, g.sb)
      /\ FreeOf(R) = With(FreeOf(blk), b, f) /\ UseOf(R) = With(Without(UseOf(blk), b), b + f, z - f)
  <2>1. blk[b].bszB >= f + overhead_szB
    BY <1>5, <1>a
  <2> QED
    BY <1>1, <1>2, <1>3, <1>a, <2>1, CutTiled
<1>10. UseOf(R) = With(U, b + f, z - f)
  <2>1. Without(With(U, b, z), b) = U
    <3>1. U = [d \in DOMAIN U |-> U[d]]
      BY DEF UseOf
    <3> HIDE DEF U
    <3> QED
      BY <1>1, <3>1, WithoutWith
  <2> QED
    BY <1>2, <1>9, <2>1
<1>11. Merged(R)
  <2>1. blk[b].bszB >= f + overhead_szB
    BY <1>5, <1>a
  <2> QED
    BY <1>1, <1>2, <1>3, <2>1, CutMerged
<1>12. Linked(cut.freelist, FreeOf(R))
  <2>1. listNo_of(f) \in Lists
    BY <1>3, ListNo
  <2>2. b \notin DOMAIN FreeOf(blk)
    BY <1>2 DEF FreeOf
  <2> QED
    BY <1>1, <1>6, <1>7, <1>9, <2>1, <2>2, LinkLinked
<1>13. b + f \notin DOMAIN U /\ b + f \in Nat
  <2>1. DOMAIN U \subseteq DOMAIN blk
    <3>1. DOMAIN U \subseteq DOMAIN UseOf(blk)
      BY <1>2 DEF With
    <3> QED
      BY <3>1 DEF UseOf
  <2> QED
    BY <1>3, <1>9, <2>1
<1>14. /\ DOMAIN R = DOMAIN blk \cup {b + f} /\ R[b + f].bszB = z - f
  BY <1>2, <1>9, <1>a DEF CutFree, Split, Block
<1> HIDE DEF R
<1> DEFINE L == a.bytes_on_loan + (z - f - overhead_szB)
           c == [cut EXCEPT !.bytes_on_loan = L]
<1>15. c = [cut EXCEPT !.bytes_on_loan = L] /\ e.a = c /\ e.p = p
  BY <1>4
<1>16. /\ IsArena(c) /\ SameSuper(cut, c) /\ c.blk = R /\ c.freelist = cut.freelist /\ c.bytes_on_loan = L
  <2> HIDE DEF c, L
  <2> QED
    BY <1>7, <1>8, <1>15, SetLoan
<1> HIDE DEF c
<1>17. SameSuper(g, c)
  BY <1>6, <1>7, <1>16, SameSuperTrans
<1>18. Sane(c)
  BY <1>1, <1>9, <1>12, <1>16, <1>17 DEF Sane, SameSuper
<1>19. Counted(c)
  <2>1. Total(Pay(With(U, b + f, z - f))) = Total(Pay(U)) + ((z - f) - overhead_szB)
    <3>1. Typed(a.blk)
      BY DEF ArenaInv, Sane, Tiled
    <3> HIDE DEF U
    <3>2. U = UseOf(a.blk)
      BY DEF U
    <3> QED
      BY <1>5, <1>13, <3>1, <3>2, LoanWith
  <2>2. a.bytes_on_loan = Total(Pay(U))
    BY DEF ArenaInv, Counted
  <2>3. g.bytes_mmaped = Total(Mapped(g.sb))
    BY <1>1 DEF Counted
  <2>4. c.bytes_on_loan = Total(Pay(UseOf(c.blk)))
    BY <1>10, <1>16, <2>1, <2>2
  <2>5. c.bytes_mmaped = Total(Mapped(c.sb))
    BY <1>17, <2>3 DEF SameSuper
  <2> QED
    BY <2>4, <2>5 DEF Counted
<1>20. ArenaInv(c)
  BY <1>11, <1>16, <1>18, <1>19 DEF ArenaInv
<1>21. Given(a, c, b + f, m)
  BY <1>5, <1>10, <1>13, <1>16, <1>20 DEF Given
<1>22. GrowsFor(a, c, b + f, n)
  <2>1. ASSUME NEW s \in DOMAIN c.sb \ DOMAIN a.sb PROVE Inside(c.blk, c.sb, b + f, s)
    <3>1. c.sb = g.sb /\ s \in DOMAIN g.sb \ DOMAIN a.sb
      BY <1>17 DEF SameSuper
    <3>2. Inside(blk, g.sb, b, s)
      BY <3>1 DEF GrowsFor
    <3>3. s \in Nat /\ g.sb[s] \in Nat
      BY <1>1, <3>1 DEF Superblocks
    <3>4. b + f + (z - f) = b + z
      BY <1>2, <1>3
    <3>5. s + SB_ADMIN <= b /\ b + z <= s + SB_ADMIN + g.sb[s]
      BY <1>a, <3>2 DEF Inside
    <3>6. s + SB_ADMIN <= b + f
      BY <1>2, <1>3, <3>3, <3>5, SizesAssumption
    <3> QED
      BY <1>14, <1>16, <3>1, <3>4, <3>5, <3>6 DEF Inside
  <2>2. ASSUME NEW s \in DOMAIN c.sb \ DOMAIN a.sb PROVE \A d \in DOMAIN FreeOf(a.blk) : FreeOf(a.blk)[d] < n
    BY <1>17 DEF GrowsFor, SameSuper
  <2> QED
    BY <2>1, <2>2 DEF GrowsFor
<1>23. e.p = (b + f) + overhead_szB_lo
  BY <1>0, <1>3, <1>15
<1> QED
  BY <1>3, <1>13, <1>15, <1>17, <1>21, <1>22, <1>23 DEF SameSuper

(* What VG_(arena_memalign) does to the arena, in each of its outcomes. *)
LEMMA ArenaMemalign ==
  ASSUME NEW a, ArenaInv(a), NEW k \in Nat, NEW n, n = pszB_to_bszB(align_req_pszB(k)),
         NEW al \in Nat \ {0}, al % VG_MIN_MALLOC_SZB = 0, NEW e \in arena_memalign(a, al, k)
  PROVE  \/ e.p \in {NULL, NORETURN} /\ e.a = a /\ (e.p = NULL => a.clientmem)
         \/ /\ e.p % al = 0
            /\ \E b \in Nat : /\ e.p = b + overhead_szB_lo /\ e.a.clientmem = a.clientmem
                              /\ Given(a, e.a, b, n) /\ GrowsFor(a, e.a, b, n + (overhead_szB + al))
PROOF
<1> DEFINE V == VG_MIN_MALLOC_SZB
           i == align_req_pszB(k)
           j == i + overhead_szB + al
           y == pszB_to_bszB(align_req_pszB(j))
<1>0. overhead_szB \in Nat \ {0} /\ overhead_szB % V = 0 /\ V \in Nat \ {0}
  BY Overhead, SizesAssumption
<1>1. i \in Nat /\ i % V = 0 /\ n = i + overhead_szB /\ n >= overhead_szB /\ n \in Nat
  <2>1. i \in Nat /\ i % V = 0
    BY <1>0, RoundUp DEF align_req_pszB
  <2> HIDE DEF i
  <2>2. n = i + overhead_szB
    BY DEF pszB_to_bszB, i
  <2> QED
    BY <1>0, <2>1, <2>2
<1>2. PICK r \in arena_malloc(a, j) :
        e = IF r.p \in {NULL, NORETURN} THEN r ELSE cut_aligned(a.bytes_on_loan, r, al)
  BY DEF arena_memalign
<1> HIDE DEF i
<1>3. j \in Nat /\ j % V = 0
  <2> DEFINE w == i + overhead_szB
  <2>1. w \in Nat /\ w % V = 0
    BY <1>0, <1>1, ModSum
  <2>2. j = w + al
    OBVIOUS
  <2> HIDE DEF w, j
  <2>3. (w + al) % V = 0
    BY <1>0, <2>1, ModSum
  <2> QED
    BY <2>1, <2>2, <2>3
<1>4. y = n + (overhead_szB + al) /\ y \in Nat
  <2>1. y = j + overhead_szB
    <3> HIDE DEF j
    <3> QED
      BY <1>3, Request
  <2> QED
    BY <1>0, <1>1, <2>1
<1>5. \/ r.p \in {NULL, NORETURN} /\ r.a = a /\ (r.p = NULL => a.clientmem)
      \/ \E b \in Nat : /\ r.p = b + overhead_szB_lo /\ r.a.clientmem = a.clientmem
                        /\ Lent(a, r.a, b, y) /\ GrowsFor(a, r.a, b, y)
  <2>1. y = pszB_to_bszB(align_req_pszB(j))
    OBVIOUS
  <2> HIDE DEF j, y
  <2> QED
    BY <1>2, <1>3, <2>1, ArenaMalloc
<1> HIDE DEF j, y
<1>6. CASE r.p \in {NULL, NORETURN} /\ r.a = a /\ (r.p = NULL => a.clientmem)
  BY <1>2, <1>6
<1>7. ASSUME NEW b \in Nat, r.p = b + overhead_szB_lo, r.a.clientmem = a.clientmem,
             Lent(a, r.a, b, y), GrowsFor(a, r.a, b, y)
      PROVE  /\ e.p % al = 0
             /\ \E c \in Nat : /\ e.p = c + overhead_szB_lo /\ e.a.clientmem = a.clientmem
                               /\ Given(a, e.a, c, n) /\ GrowsFor(a, e.a, c, n + (overhead_szB + al))
  <2>1. r.p \notin {NULL, NORETURN}
    BY <1>7, Overhead DEF NULL, NORETURN
  <2>2. e = cut_aligned(a.bytes_on_loan, r, al)
    BY <1>2, <2>1
  <2>3. y >= n + overhead_szB + al
    BY <1>0, <1>1, <1>4
  <2>4. /\ e.a.clientmem = r.a.clientmem /\ e.p % al = 0
        /\ \E c \in Nat : e.p = c + overhead_szB_lo /\ Given(a, e.a, c, n) /\ GrowsFor(a, e.a, c, y)
    BY <1>1, <1>4, <1>7, <2>2, <2>3, CutAligned
  <2> QED
    BY <1>4, <1>7, <2>4
<1> QED
  BY <1>5, <1>6, <1>7

-----------------------------------------------------------------------------
(* VG_(arena_free) *)

LEMMA Relink ==
  ASSUME NEW a, IsArena(a), NEW x, NEW l, NEW y, NEW k, NEW b, NEW n,
         NEW d, d = mkFreeBlock(unlinkBlock(unlinkBlock(a, x, l), y, k), b, n)
  PROVE  /\ IsArena(d) /\ SameSuper(a, d) /\ d.blk = SetFree(a.blk, b, n)
         /\ d.freelist = Joined(Left(Left(a.freelist, l, x), k, y), listNo_of(n), b)
         /\ d.bytes_on_loan = a.bytes_on_loan
PROOF
<1> DEFINE u == unlinkBlock(a, x, l)
           v == unlinkBlock(u, y, k)
<1>1. u = unlinkBlock(a, x, l) /\ v = unlinkBlock(u, y, k) /\ d = mkFreeBlock(v, b, n)
  OBVIOUS
<1> HIDE DEF u, v
<1>2. IsArena(u) /\ SameSuper(a, u) /\ u.blk = a.blk /\ u.freelist = Left(a.freelist, l, x)
      /\ u.bytes_on_loan = a.bytes_on_loan
  BY <1>1, Unlink
<1>3. IsArena(v) /\ SameSuper(u, v) /\ v.blk = u.blk /\ v.freelist = Left(u.freelist, k, y)
      /\ v.bytes_on_loan = u.bytes_on_loan
  BY <1>1, <1>2, Unlink
<1>4. /\ IsArena(d) /\ SameSuper(v, d) /\ d.blk = SetFree(v.blk, b, n)
      /\ d.freelist = Joined(v.freelist, listNo_of(n), b) /\ d.bytes_on_loan = v.bytes_on_loan
  BY <1>1, <1>3, MkFree, SMTT(30)
<1> QED
  BY <1>2, <1>3, <1>4 DEF SameSuper

(* The free neighbours b and c leave their lists, x first, and b joins one *)
(* again with the size of both.                                            *)
Fuses(a, b, c, x, y, n, d) ==
  /\ Sane(a) /\ b \in DOMAIN a.blk /\ c \in DOMAIN a.blk /\ c = b + a.blk[b].bszB
  /\ ~ a.blk[b].inuse /\ ~ a.blk[c].inuse /\ ((x = b /\ y = c) \/ (x = c /\ y = b))
  /\ n = a.blk[b].bszB + a.blk[c].bszB
  /\ d = mkFreeBlock(unlinkBlock(unlinkBlock(a, x, listNo_of(a.blk[x].bszB)), y, listNo_of(a.blk[y].bszB)), b, n)

FusedTo(a, b, c, d) ==
  /\ Sane(d) /\ SameSuper(a, d) /\ d.bytes_on_loan = a.bytes_on_loan
  /\ d.blk = Joint(a.blk, b, c) /\ UseOf(d.blk) = UseOf(a.blk)

(* Two free neighbours become one block, whichever leaves its list first. *)
LEMMA Merge ==
  ASSUME NEW a, NEW b, NEW c, NEW x, NEW y, NEW n, NEW d, Fuses(a, b, c, x, y, n, d)
  PROVE  FusedTo(a, b, c, d)
PROOF
<1> SUFFICES ASSUME Sane(a), b \in DOMAIN a.blk, c \in DOMAIN a.blk, c = b + a.blk[b].bszB,
                    ~ a.blk[b].inuse, ~ a.blk[c].inuse, (x = b /\ y = c) \/ (x = c /\ y = b),
                    n = a.blk[b].bszB + a.blk[c].bszB,
                    d = mkFreeBlock(unlinkBlock(unlinkBlock(a, x, listNo_of(a.blk[x].bszB)), y, listNo_of(a.blk[y].bszB)), b, n)
             PROVE  FusedTo(a, b, c, d)
  BY DEF Fuses
<1> DEFINE blk == a.blk
           F == FreeOf(a.blk)
           R == Joint(blk, b, c)
<1>0. /\ IsArena(a) /\ Superblocks(a.sb, a.sblocks) /\ Tiled(blk, a.sb) /\ Typed(blk) /\ Disjoint(blk)
      /\ Linked(a.freelist, F) /\ overhead_szB \in Nat \ {0}
  BY Overhead, SMTT(30) DEF Sane, Tiled
<1>1. /\ b \in Nat /\ blk[b].bszB \in Nat /\ blk[b].bszB >= overhead_szB /\ blk[c].bszB \in Nat /\ blk[c].bszB >= overhead_szB
      /\ b # c /\ x # y /\ n \in Nat /\ n >= overhead_szB
  BY <1>0, SMTT(30) DEF Typed
<1>2. x \in DOMAIN F /\ y \in DOMAIN F /\ F[x] = blk[x].bszB /\ F[y] = blk[y].bszB /\ b \in DOMAIN F /\ c \in DOMAIN F
  BY SMTT(30) DEF FreeOf
<1>3. listNo_of(blk[x].bszB) \in Lists /\ listNo_of(blk[y].bszB) \in Lists /\ listNo_of(n) \in Lists
  BY <1>1, ListNo, SMTT(30)
<1> DEFINE fu == Left(a.freelist, listNo_of(blk[x].bszB), x)
           fv == Left(fu, listNo_of(blk[y].bszB), y)
<1> HIDE DEF F
<1>6. /\ IsArena(d) /\ SameSuper(a, d) /\ d.blk = SetFree(blk, b, n)
      /\ d.freelist = Joined(fv, listNo_of(n), b) /\ d.bytes_on_loan = a.bytes_on_loan
  BY <1>0, Relink, SMTT(30)
<1>7. SameSuper(a, d) /\ d.bytes_on_loan = a.bytes_on_loan
  BY <1>6, ZenonT(60)
<1>8. d.blk = R
  <2>1. SetFree(blk, b, blk[b].bszB + blk[c].bszB) = R
    BY <1>0, SetJoint, SMTT(30)
  <2> QED
    BY <1>6, <2>1, ZenonT(60)
<1>9. /\ Tiled(R, a.sb) /\ FreeOf(R) = With(Without(Without(F, b), c), b, n)
      /\ Without(Without(F, b), c) = Without(Without(F, c), b) /\ UseOf(R) = UseOf(blk)
  BY <1>0, JointTiled, SMTT(30) DEF F
<1>10. Linked(fu, Without(F, x))
  BY <1>0, <1>2, <1>3, UnlinkLinked, SMTT(30)
<1> HIDE DEF fu
<1>11. Linked(fv, Without(Without(F, x), y))
  <2> DEFINE G == Without(F, x)
  <2>1. y \in DOMAIN G /\ G[y] = blk[y].bszB
    BY <1>1, <1>2, SMTT(30) DEF Without
  <2> HIDE DEF G
  <2>2. Linked(fu, G)
    BY <1>10, SMTT(30) DEF G
  <2>3. Linked(fv, Without(G, y))
    BY <1>3, <2>1, <2>2, UnlinkLinked, SMTT(30)
  <2> QED
    BY <2>3, SMTT(30) DEF G
<1> HIDE DEF fv
<1>12. Without(Without(F, x), y) = Without(Without(F, b), c)
  BY <1>9, SMTT(30)
<1>13. Linked(d.freelist, FreeOf(R))
  <2> DEFINE G == Without(Without(F, b), c)
  <2>1. b \notin DOMAIN G
    BY SMTT(30) DEF Without
  <2>2. Linked(fv, G)
    BY <1>11, <1>12, SMTT(30)
  <2> HIDE DEF G
  <2>3. Linked(Joined(fv, listNo_of(n), b), With(G, b, n))
    BY <1>1, <1>3, <2>1, <2>2, LinkLinked, SMTT(30)
  <2> QED
    BY <1>6, <1>9, <2>3, ZenonT(60) DEF G
<1>14. Sane(d)
  BY <1>0, <1>6, <1>7, <1>8, <1>9, <1>13 DEF Sane, SameSuper
<1> QED
  BY <1>7, <1>8, <1>9, <1>14 DEF FusedTo

(* A block of the superblock s has a neighbour if and only if it is far    *)
(* enough from the end of s, and from its beginning.                       *)
LEMMA Neighbours ==
  ASSUME NEW blk, NEW sb, NEW q, Superblocks(sb, q), Tiled(blk, sb), NEW b \in DOMAIN blk,
         NEW s \in DOMAIN sb, Inside(blk, sb, b, s)
  PROVE  /\ b + blk[b].bszB + overhead_szB <= s + SB_ADMIN + sb[s] <=> b + blk[b].bszB \in DOMAIN blk
         /\ \A c \in DOMAIN blk : c + blk[c].bszB = b => b >= s + SB_ADMIN + overhead_szB
         /\ b >= s + SB_ADMIN + overhead_szB => \E c \in DOMAIN blk : c + blk[c].bszB = b
         /\ \A c, d \in DOMAIN blk : c + blk[c].bszB = b /\ d + blk[d].bszB = b => c = d
PROOF
<1> DEFINE e == b + blk[b].bszB
           hi == s + SB_ADMIN + sb[s]
<1>0. /\ overhead_szB \in Nat \ {0} /\ SB_ADMIN \in Nat \ {0} /\ s \in Nat /\ sb[s] \in Nat
      /\ b \in Nat /\ blk[b].bszB \in Nat /\ blk[b].bszB >= overhead_szB /\ s + SB_ADMIN <= b /\ e <= hi
  BY Overhead, SizesAssumption DEF Superblocks, Tiled, Typed, Inside
<1>1. \A c \in DOMAIN blk : c \in Nat /\ blk[c].bszB \in Nat /\ blk[c].bszB >= overhead_szB
  BY DEF Tiled, Typed
<1>2. ASSUME NEW t \in DOMAIN sb PROVE t \in Nat /\ sb[t] \in Nat /\ (s < t => hi <= t) /\ (t < s => t + SB_ADMIN + sb[t] <= s)
  BY DEF Superblocks
<1>3. ASSUME e + overhead_szB <= hi PROVE e \in DOMAIN blk
  <2>1. e # hi
    BY <1>0, <1>3
  <2> QED
    BY <2>1 DEF Tiled, Covers
<1>4. ASSUME e \in DOMAIN blk PROVE e + overhead_szB <= hi
  <2>1. PICK t \in DOMAIN sb : Inside(blk, sb, e, t)
    BY <1>4 DEF Tiled, Covers
  <2>2. t + SB_ADMIN <= e /\ e + blk[e].bszB <= t + SB_ADMIN + sb[t] /\ e \in Nat /\ blk[e].bszB \in Nat /\ blk[e].bszB >= overhead_szB
    BY <1>1, <1>4, <2>1 DEF Inside
  <2> HIDE DEF e
  <2>3. e > s
    BY <1>0 DEF e
  <2>4. t = s
    BY <1>0, <1>2, <2>2, <2>3
  <2> QED
    BY <1>0, <2>2, <2>4
<1>5. ASSUME NEW c \in DOMAIN blk, c + blk[c].bszB = b PROVE b >= s + SB_ADMIN + overhead_szB
  <2>1. PICK t \in DOMAIN sb : Inside(blk, sb, c, t)
    BY DEF Tiled, Covers
  <2>2. t + SB_ADMIN <= c /\ b <= t + SB_ADMIN + sb[t] /\ c \in Nat /\ blk[c].bszB \in Nat /\ blk[c].bszB >= overhead_szB
    BY <1>1, <1>5, <2>1 DEF Inside
  <2>3. t = s
    BY <1>0, <1>2, <1>5, <2>2
  <2> QED
    BY <1>0, <1>5, <2>2, <2>3
<1>6. ASSUME b >= s + SB_ADMIN + overhead_szB PROVE \E c \in DOMAIN blk : c + blk[c].bszB = b
  <2>1. b # s + SB_ADMIN
    BY <1>0, <1>6
  <2> QED
    BY <2>1 DEF Tiled, Covers
<1>7. ASSUME NEW c \in DOMAIN blk, NEW d \in DOMAIN blk, c + blk[c].bszB = b, d + blk[d].bszB = b PROVE c = d
  <2>1. (c < d => c + blk[c].bszB <= d) /\ (d < c => d + blk[d].bszB <= c)
    BY DEF Tiled, Disjoint
  <2> QED
    BY <1>0, <1>1, <1>7, <2>1
<1> QED
  BY <1>3, <1>4, <1>5, <1>6, <1>7

(* No two neighbours but b and those next to it are both free; and what *)
(* follows b is not free.                                               *)
Loose(blk, b) ==
  \A d \in DOMAIN blk : ~ blk[d].inuse /\ d # b /\ d + blk[d].bszB # b /\ d + blk[d].bszB \in DOMAIN blk
                          => blk[d + blk[d].bszB].inuse
NextUsed(blk, b) == b + blk[b].bszB \in DOMAIN blk => blk[b + blk[b].bszB].inuse

(* The arena while b is being freed. *)
Freeing(a, b, s) ==
  Sane(a) /\ b \in DOMAIN a.blk /\ ~ a.blk[b].inuse /\ s \in DOMAIN a.sb /\ Inside(a.blk, a.sb, b, s) /\ Loose(a.blk, b)

LEMMA MergeSuccessor ==
  ASSUME NEW a, NEW b, NEW s, Freeing(a, b, s), NEW c, c = merge_successor(a, b, s)
  PROVE  /\ Freeing(c, b, s) /\ NextUsed(c.blk, b) /\ SameSuper(a, c)
         /\ c.bytes_on_loan = a.bytes_on_loan /\ UseOf(c.blk) = UseOf(a.blk)
PROOF
<1> DEFINE blk == a.blk
           e == b + blk[b].bszB
           n == blk[b].bszB + blk[e].bszB
<1>0. /\ Sane(a) /\ Superblocks(a.sb, a.sblocks) /\ Tiled(blk, a.sb) /\ b \in DOMAIN blk /\ ~ blk[b].inuse
      /\ s \in DOMAIN a.sb /\ Inside(blk, a.sb, b, s) /\ Loose(blk, b) /\ overhead_szB \in Nat \ {0}
  BY Overhead DEF Freeing, Sane
<1>1. e + overhead_szB <= sb_end(a, s) <=> e \in DOMAIN blk
  BY <1>0, Neighbours DEF sb_end, payload_bytes
<1>2. CASE e \in DOMAIN blk /\ ~ blk[e].inuse
  <2> DEFINE R == Joint(blk, b, e)
  <2>1. c = mkFreeBlock(unlinkBlock(unlinkBlock(a, b, listNo_of(blk[b].bszB)), e, listNo_of(blk[e].bszB)), b, n)
    BY <1>1, <1>2 DEF merge_successor, get_bszB, is_inuse_block
  <2>2. e = b + blk[b].bszB /\ n = blk[b].bszB + blk[e].bszB
    BY SMTT(30)
  <2>3. Sane(c) /\ SameSuper(a, c) /\ c.bytes_on_loan = a.bytes_on_loan /\ c.blk = R /\ UseOf(c.blk) = UseOf(blk)
    <3>1. b \in DOMAIN a.blk /\ e \in DOMAIN a.blk /\ ~ a.blk[b].inuse /\ ~ a.blk[e].inuse /\ Sane(a)
      BY <1>0, <1>2
    <3> HIDE DEF e, n
    <3> DEFINE x == b
               y == e
    <3>2. /\ (x = b /\ y = e) \/ (x = e /\ y = b)
          /\ c = mkFreeBlock(unlinkBlock(unlinkBlock(a, x, listNo_of(a.blk[x].bszB)), y, listNo_of(a.blk[y].bszB)), b, n)
      BY <2>1, SMTT(30)
    <3> HIDE DEF x, y
    <3>3. Fuses(a, b, e, x, y, n, c)
      BY <2>2, <3>1, <3>2 DEF Fuses
    <3>4. FusedTo(a, b, e, c)
      BY <3>3, Merge
    <3> QED
      BY <3>4 DEF FusedTo
  <2>4. /\ \A d \in DOMAIN blk : d \in Nat /\ blk[d].bszB \in Nat \ {0}
        /\ \A d \in DOMAIN blk : (d < b => d + blk[d].bszB <= b) /\ (d < e => d + blk[d].bszB <= e)
    BY <1>0, <1>2 DEF Tiled, Typed, Disjoint
  <2>5. b \in Nat /\ e \in Nat /\ b < e /\ n \in Nat /\ b + n = e + blk[e].bszB /\ e + blk[e].bszB > e
    BY <1>0, <1>2, <2>4, SMTT(30)
  <2>6. /\ DOMAIN R = DOMAIN blk \ {e} /\ b \in DOMAIN R /\ R[b].bszB = n /\ ~ R[b].inuse
        /\ \A d \in DOMAIN R : d # b => R[d] = blk[d]
    BY <1>0, <2>5 DEF Joint, Fused, Block
  <2> HIDE DEF R, e, n
  <2>7. NextUsed(R, b)
    <3>1. ASSUME b + n \in DOMAIN R PROVE R[b + n].inuse
      <4>1. e + blk[e].bszB \in DOMAIN blk /\ e + blk[e].bszB # b /\ e # b
        BY <2>5, <2>6, <3>1
      <4>2. blk[e + blk[e].bszB].inuse
        BY <1>0, <1>2, <4>1 DEF Loose
      <4> QED
        BY <2>5, <2>6, <3>1, <4>1, <4>2
    <3> QED
      BY <2>6, <3>1 DEF NextUsed
  <2>8. Loose(R, b)
    <3>1. ASSUME NEW d \in DOMAIN R, ~ R[d].inuse, d # b, d + R[d].bszB # b, d + R[d].bszB \in DOMAIN R
          PROVE  R[d + R[d].bszB].inuse
      <4>1. d \in DOMAIN blk /\ R[d] = blk[d] /\ d + blk[d].bszB \in DOMAIN blk
        BY <2>6, <3>1
      <4>2. blk[d + blk[d].bszB].inuse
        BY <1>0, <3>1, <4>1 DEF Loose
      <4> QED
        BY <2>6, <3>1, <4>1, <4>2
    <3> QED
      BY <3>1 DEF Loose
  <2>9. Inside(R, c.sb, b, s) /\ s \in DOMAIN c.sb
    <3>1. c.sb = a.sb
      BY <2>3 DEF SameSuper
    <3>2. Inside(blk, a.sb, e, s)
      <4>1. PICK t \in DOMAIN a.sb : Inside(blk, a.sb, e, t)
        BY <1>0, <1>2 DEF Tiled, Covers
      <4>2. s + SB_ADMIN <= e /\ e < s + SB_ADMIN + a.sb[s]
        <5>1. s \in Nat /\ a.sb[s] \in Nat /\ SB_ADMIN \in Nat
          BY <1>0, SizesAssumption DEF Superblocks
        <5>2. e + overhead_szB <= s + SB_ADMIN + a.sb[s]
          BY <1>1, <1>2 DEF sb_end, payload_bytes, e
        <5> QED
          BY <1>0, <2>5, <5>1, <5>2 DEF Inside
      <4>3. Typed(blk)
        BY <1>0 DEF Tiled
      <4>4. t = s
        BY <1>0, <1>2, <4>1, <4>2, <4>3, OneHome
      <4> QED
        BY <4>1, <4>4
    <3> QED
      BY <1>0, <2>5, <2>6, <3>1, <3>2 DEF Inside
  <2> QED
    BY <2>3, <2>6, <2>7, <2>8, <2>9 DEF Freeing
<1>3. CASE ~ (e \in DOMAIN blk /\ ~ blk[e].inuse)
  <2>1. c = a
    BY <1>1, <1>3 DEF merge_successor, get_bszB, is_inuse_block
  <2> QED
    BY <1>3, <2>1 DEF NextUsed, SameSuper
<1> QED
  BY <1>2, <1>3

LEMMA MergePredecessor ==
  ASSUME NEW a, NEW b, NEW s, Freeing(a, b, s), NextUsed(a.blk, b), NEW c, c = merge_predecessor(a, b, s)
  PROVE  /\ Sane(c) /\ Merged(c.blk) /\ SameSuper(a, c)
         /\ c.bytes_on_loan = a.bytes_on_loan /\ UseOf(c.blk) = UseOf(a.blk)
PROOF
<1> DEFINE blk == a.blk
           o == get_predecessor_block(a, b)
           n == blk[b].bszB + blk[o].bszB
           far == b >= payload_bytes(s) + overhead_szB
<1>0. /\ Sane(a) /\ Superblocks(a.sb, a.sblocks) /\ Tiled(blk, a.sb) /\ b \in DOMAIN blk /\ ~ blk[b].inuse
      /\ s \in DOMAIN a.sb /\ Inside(blk, a.sb, b, s) /\ Loose(blk, b)
      /\ \A d \in DOMAIN blk : d \in Nat /\ blk[d].bszB \in Nat \ {0}
  BY Overhead DEF Freeing, Sane, Tiled, Typed
<1>1. /\ far => o \in DOMAIN blk /\ o + blk[o].bszB = b
      /\ \A d \in DOMAIN blk : d + blk[d].bszB = b => far /\ d = o
  <2>1. /\ far => \E d \in DOMAIN blk : d + blk[d].bszB = b
        /\ \A d \in DOMAIN blk : d + blk[d].bszB = b => far
        /\ \A d, f \in DOMAIN blk : d + blk[d].bszB = b /\ f + blk[f].bszB = b => d = f
    BY <1>0, Neighbours DEF payload_bytes
  <2>2. ASSUME NEW d \in DOMAIN blk, d + blk[d].bszB = b PROVE o \in DOMAIN blk /\ o + blk[o].bszB = b
    BY <2>2 DEF get_predecessor_block, get_bszB
  <2> HIDE DEF o, far
  <2> QED
    BY <2>1, <2>2
<1>2. c = IF far /\ ~ blk[o].inuse
          THEN mkFreeBlock(unlinkBlock(unlinkBlock(a, b, listNo_of(blk[b].bszB)), o, listNo_of(blk[o].bszB)), o, n)
          ELSE a
  BY DEF merge_predecessor, get_bszB, is_inuse_block
<1> HIDE DEF o, far, n
<1>3. CASE far /\ ~ blk[o].inuse
  <2> DEFINE R == Joint(blk, o, b)
  <2>1. o \in DOMAIN blk /\ b = o + blk[o].bszB
    BY <1>1, <1>3
  <2>2. n = blk[o].bszB + blk[b].bszB /\ n \in Nat /\ o + n = b + blk[b].bszB /\ o < b /\ o \in Nat
    BY <1>0, <2>1, SMTT(30) DEF n
  <2>3. Sane(c) /\ SameSuper(a, c) /\ c.bytes_on_loan = a.bytes_on_loan /\ c.blk = R /\ UseOf(c.blk) = UseOf(blk)
    <3>1. c = mkFreeBlock(unlinkBlock(unlinkBlock(a, b, listNo_of(blk[b].bszB)), o, listNo_of(blk[o].bszB)), o, n)
      BY <1>2, <1>3, SMTT(30)
    <3>2. Fuses(a, o, b, b, o, n, c)
      BY <1>0, <1>3, <2>1, <2>2, <3>1 DEF Fuses
    <3>3. FusedTo(a, o, b, c)
      BY <3>2, Merge, SMTT(30)
    <3> QED
      BY <3>3 DEF FusedTo
  <2>4. /\ DOMAIN R = DOMAIN blk \ {b} /\ o \in DOMAIN R /\ R[o].bszB = n /\ ~ R[o].inuse
        /\ \A d \in DOMAIN R : d # o => R[d] = blk[d]
    BY <2>1, <2>2 DEF Joint, Fused, Block
  <2> HIDE DEF R
  <2>5. ASSUME NEW d \in DOMAIN R, ~ R[d].inuse, d + R[d].bszB \in DOMAIN R PROVE R[d + R[d].bszB].inuse
    <3>1. CASE d = o
      <4>1. d + R[d].bszB = b + blk[b].bszB /\ b + blk[b].bszB \in DOMAIN blk
        BY <2>2, <2>4, <2>5, <3>1
      <4>2. blk[b + blk[b].bszB].inuse
        BY <4>1 DEF NextUsed
      <4>3. b + blk[b].bszB # o
        BY <1>0, <2>2
      <4> QED
        BY <2>4, <2>5, <4>1, <4>2, <4>3
    <3>2. CASE d # o
      <4>1. d \in DOMAIN blk /\ d # b /\ R[d] = blk[d] /\ d + blk[d].bszB \in DOMAIN blk /\ d + blk[d].bszB # b
        BY <2>4, <2>5, <3>2
      <4>2. blk[d + blk[d].bszB].inuse
        BY <1>0, <2>5, <4>1 DEF Loose
      <4>3. d + blk[d].bszB # o
        BY <1>3, <4>2
      <4> QED
        BY <2>4, <2>5, <4>1, <4>2, <4>3
    <3> QED
      BY <3>1, <3>2
  <2> QED
    BY <2>3, <2>5 DEF Merged
<1>4. CASE ~ (far /\ ~ blk[o].inuse)
  <2>1. c = a
    BY <1>2, <1>4
  <2>2. ASSUME NEW d \in DOMAIN blk, ~ blk[d].inuse, d + blk[d].bszB \in DOMAIN blk PROVE blk[d + blk[d].bszB].inuse
    <3>1. CASE d = b
      BY <2>2, <3>1 DEF NextUsed
    <3>2. d + blk[d].bszB # b
      BY <1>1, <1>4, <2>2
    <3> QED
      BY <1>0, <2>2, <3>1, <3>2 DEF Loose
  <2> QED
    BY <1>0, <2>1, <2>2 DEF Merged, SameSuper
<1> QED
  BY <1>3, <1>4

(* What VG_(arena_free) does to the arena: the block is out of use, and    *)
(* merged with what is free around it.                                     *)
LEMMA ArenaFree ==
  ASSUME NEW a, ArenaInv(a), NEW b \in DOMAIN UseOf(a.blk), NEW c, c = arena_free(a, b + overhead_szB_lo)
  PROVE  ArenaInv(c) /\ SameSuper(a, c) /\ UseOf(c.blk) = Without(UseOf(a.blk), b)
PROOF
<1> DEFINE blk == a.blk
           z == blk[b].bszB
           s == findSb(a, b)
           L == a.bytes_on_loan - (z - overhead_szB)
           a0 == [a EXCEPT !.bytes_on_loan = L]
           f == mkFreeBlock(a0, b, z)
           g == merge_successor(f, b, s)
           R == ToFree(blk, b)
<1>0. /\ Sane(a) /\ IsArena(a) /\ Superblocks(a.sb, a.sblocks) /\ Tiled(blk, a.sb) /\ Typed(blk) /\ Disjoint(blk)
      /\ Linked(a.freelist, FreeOf(blk)) /\ Merged(blk) /\ Counted(a)
      /\ b \in DOMAIN blk /\ blk[b].inuse /\ b \in Nat /\ z \in Nat /\ z >= overhead_szB /\ overhead_szB \in Nat \ {0}
  BY Overhead DEF ArenaInv, Sane, Tiled, Typed, UseOf
<1>1. s \in DOMAIN a.sb /\ Inside(blk, a.sb, b, s)
  <2>1. PICK t \in DOMAIN a.sb : Inside(blk, a.sb, b, t)
    BY <1>0 DEF Tiled, Covers
  <2>2. payload_bytes(t) <= b /\ b < sb_end(a, t)
    <3>1. t \in Nat /\ a.sb[t] \in Nat
      BY <1>0 DEF Superblocks
    <3> QED
      BY <1>0, <2>1, <3>1, SizesAssumption DEF Inside, payload_bytes, sb_end
  <2>3. findSb(a, b) = t
    BY <1>0, <2>2, findSbFinds
  <2> QED
    BY <2>1, <2>3
<1>2. c = merge_predecessor(g, b, s)
  <2>1. get_payload_block(b + overhead_szB_lo) = b
    BY <1>0, Overhead DEF get_payload_block
  <2> QED
    BY <2>1 DEF arena_free, get_pszB, get_bszB, bszB_to_pszB
<1>a. a0 = [a EXCEPT !.bytes_on_loan = L]
  OBVIOUS
<1>b. f = mkFreeBlock(a0, b, z)
  OBVIOUS
<1>c. g = merge_successor(f, b, s)
  OBVIOUS
<1> HIDE DEF a0, f, g, s
<1>3. IsArena(a0) /\ SameSuper(a, a0) /\ a0.blk = blk /\ a0.freelist = a.freelist /\ a0.bytes_on_loan = L
  <2> HIDE DEF L
  <2> QED
    BY <1>0, <1>a, SetLoan
<1>4. /\ IsArena(f) /\ SameSuper(a0, f) /\ f.blk = SetFree(a0.blk, b, z)
      /\ f.freelist = Joined(a0.freelist, listNo_of(z), b) /\ f.bytes_on_loan = a0.bytes_on_loan
  <2> HIDE DEF z
  <2> QED
    BY <1>3, <1>b, MkFree
<1>5. f.blk = R
  BY <1>0, <1>3, <1>4, SetWhole
<1>6. /\ Tiled(R, a.sb) /\ FreeOf(R) = With(FreeOf(blk), b, z) /\ UseOf(R) = Without(UseOf(blk), b)
  BY <1>0, WholeTiled
<1>7. /\ DOMAIN R = DOMAIN blk /\ ~ R[b].inuse /\ (\A d \in DOMAIN blk : R[d].bszB = blk[d].bszB)
      /\ \A d \in DOMAIN blk : d # b => R[d] = blk[d]
  BY <1>0 DEF ToFree, Resized, Block
<1> HIDE DEF R
<1>8. Linked(f.freelist, FreeOf(R))
  <2>1. listNo_of(z) \in Lists
    BY <1>0, ListNo
  <2>2. b \notin DOMAIN FreeOf(blk)
    BY <1>0 DEF FreeOf
  <2> HIDE DEF z
  <2> QED
    BY <1>0, <1>3, <1>4, <1>6, <2>1, <2>2, LinkLinked
<1>9. SameSuper(a, f)
  BY <1>3, <1>4, SameSuperTrans
<1>10. Freeing(f, b, s)
  <2>1. Sane(f)
    BY <1>0, <1>4, <1>5, <1>6, <1>8, <1>9 DEF Sane, SameSuper
  <2>2. f.sb = a.sb
    BY <1>9 DEF SameSuper
  <2>3. Inside(R, a.sb, b, s)
    BY <1>0, <1>1, <1>7 DEF Inside
  <2>4. Loose(R, b)
    <3>1. ASSUME NEW d \in DOMAIN R, ~ R[d].inuse, d # b, d + R[d].bszB # b, d + R[d].bszB \in DOMAIN R
          PROVE  R[d + R[d].bszB].inuse
      <4>1. d \in DOMAIN blk /\ R[d] = blk[d] /\ d + blk[d].bszB \in DOMAIN blk
        BY <1>7, <3>1
      <4>2. blk[d + blk[d].bszB].inuse
        BY <1>0, <3>1, <4>1 DEF Merged
      <4> QED
        BY <1>7, <3>1, <4>1, <4>2
    <3> QED
      BY <3>1 DEF Loose
  <2> QED
    BY <1>0, <1>1, <1>5, <1>7, <2>1, <2>2, <2>3, <2>4 DEF Freeing
<1>11. /\ Freeing(g, b, s) /\ NextUsed(g.blk, b) /\ SameSuper(f, g)
       /\ g.bytes_on_loan = f.bytes_on_loan /\ UseOf(g.blk) = UseOf(f.blk)
  BY <1>10, <1>c, MergeSuccessor
<1>12. /\ Sane(c) /\ Merged(c.blk) /\ SameSuper(g, c)
       /\ c.bytes_on_loan = g.bytes_on_loan /\ UseOf(c.blk) = UseOf(g.blk)
  BY <1>2, <1>11, MergePredecessor
<1>13. SameSuper(a, c)
  BY <1>9, <1>11, <1>12 DEF SameSuper
<1>14. UseOf(c.blk) = Without(UseOf(blk), b) /\ c.bytes_on_loan = L
  BY <1>3, <1>4, <1>5, <1>6, <1>11, <1>12
<1>15. Counted(c)
  <2> DEFINE U == UseOf(blk)
  <2>1. Total(Pay(Without(U, b))) = Total(Pay(U)) - (z - overhead_szB)
    <3>1. U = UseOf(blk) /\ b \in DOMAIN U
      OBVIOUS
    <3> HIDE DEF U
    <3> QED
      BY <1>0, <3>1, LoanWithout
  <2>2. a.bytes_on_loan = Total(Pay(U)) /\ a.bytes_mmaped = Total(Mapped(a.sb))
    BY <1>0 DEF Counted
  <2>3. c.bytes_mmaped = Total(Mapped(c.sb))
    BY <1>13, <2>2 DEF SameSuper
  <2>4. c.bytes_on_loan = Total(Pay(UseOf(c.blk)))
    BY <1>14, <2>1, <2>2
  <2> QED
    BY <2>3, <2>4 DEF Counted
<1> QED
  BY <1>12, <1>13, <1>14, <1>15 DEF ArenaInv

-----------------------------------------------------------------------------
(* The queue of freed chunks *)

LEMMA MaxNat ==
  ASSUME NEW n \in Nat, NEW T \in SUBSET (1 .. n), T # {}
  PROVE  Max(T) \in T /\ \A y \in T : Max(T) >= y
PROOF
<1> DEFINE S == {n - y : y \in T}
<1>0. \A y \in T : n - y \in Nat
  OBVIOUS
<1>1. S \in SUBSET Nat /\ S # {}
  BY <1>0
<1> HIDE DEF S
<1>2. PICK m \in S : \A x \in S : m <= x
  BY <1>1, LeastNat
<1>3. PICK z \in T : m = n - z
  BY <1>2 DEF S
<1>4. \A y \in T : z >= y
  <2>1. ASSUME NEW y \in T PROVE z >= y
    <3>1. n - y \in S
      BY DEF S
    <3>2. m <= n - y
      BY <1>2, <3>1
    <3> QED
      BY <1>3, <3>2
  <2> QED
    BY <2>1
<1> QED
  BY <1>3, <1>4 DEF Max

(* The folds over a queue q: the arena a once all its chunks are freed, *)
(* and its volume.                                                      *)
FreeStep(a, q, g, T) == IF T = {} THEN a ELSE arena_free(g[T \ {Max(T)}], q[Max(T)].data)
Frees(a, q)   == CHOOSE g : g = [T \in SUBSET DOMAIN q |-> FreeStep(a, q, g, T)]
FreeAll(a, q) == Frees(a, q)[DOMAIN q]

VolStep(q, g, T) == IF T = {} THEN 0 ELSE g[T \ {Max(T)}] + q[Max(T)].szB
Vols(q) == CHOOSE g : g = [T \in SUBSET DOMAIN q |-> VolStep(q, g, T)]

LEMMA FreeAllFold ==
  ASSUME NEW a, NEW q
  PROVE  FoldLeft(LAMBDA x, c : arena_free(x, c.data), a, q) = FreeAll(a, q)
BY DEF FoldLeft, MapThenFoldSet, FreeAll, Frees, FreeStep

LEMMA VolFold ==
  ASSUME NEW q
  PROVE  volume(q) = Vols(q)[DOMAIN q]
BY DEF volume, FoldLeft, MapThenFoldSet, Vols, VolStep

LEMMA FreesStep ==
  ASSUME NEW X, NEW q \in Seq(X), NEW a
  PROVE  \A T \in SUBSET DOMAIN q : Frees(a, q)[T] = FreeStep(a, q, Frees(a, q), T)
PROOF
<1> DEFINE D == DOMAIN q
           P(m) == {T \in SUBSET D : Cardinality(T) <= m}
           Steps(g, m) == g = [T \in P(m) |-> FreeStep(a, q, g, T)]
           Bad == {m \in Nat : ~ \E g : Steps(g, m)}
<1>d. D = 1 .. Len(q) /\ Len(q) \in Nat /\ IsFiniteSet(D)
  BY FS_Interval
<1>0. \A T \in SUBSET D : IsFiniteSet(T) /\ Cardinality(T) \in Nat /\ Cardinality(T) <= Cardinality(D)
  BY <1>d, FS_Subset, FS_CardinalityType
<1>1. ASSUME Bad # {} PROVE FALSE
  <2>0. Bad \in SUBSET Nat
    OBVIOUS
  <2>1. PICK m \in Bad : \A k \in Bad : m <= k
    <3> HIDE DEF Bad
    <3> QED
      BY <1>1, <2>0, LeastNat
  <2>2. m # 0
    <3>1. P(0) = {{}}
      BY <1>0, FS_EmptySet
    <3>2. \A g : FreeStep(a, q, g, {}) = a
      BY DEF FreeStep
    <3>3. Steps([T \in P(0) |-> a], 0)
      <4> HIDE DEF P
      <4> QED
        BY <3>1, <3>2
    <3> QED
      BY <2>1, <3>3, ZenonT(60)
  <2>3. m - 1 \in Nat /\ m - 1 \notin Bad /\ m \in Nat
    <3> HIDE DEF Bad
    <3> QED
      BY <2>0, <2>1, <2>2
  <2>4. PICK g : Steps(g, m - 1)
    BY <2>3
  <2> DEFINE h == [T \in P(m) |-> IF T \in P(m - 1) THEN g[T] ELSE FreeStep(a, q, g, T)]
  <2>5. P(m - 1) \subseteq P(m)
    BY <1>0, <2>3
  <2>6. ASSUME NEW T \in P(m) PROVE FreeStep(a, q, h, T) = FreeStep(a, q, g, T)
    <3> DEFINE x == Max(T)
    <3>1. CASE T = {}
      BY <3>1 DEF FreeStep
    <3>2. CASE T # {}
      <4>1. x \in T
        BY <1>d, <3>2, MaxNat
      <4> HIDE DEF x
      <4>2. T \ {x} \in P(m - 1)
        <5>1. Cardinality(T \ {x}) = Cardinality(T) - 1
          BY <1>0, <4>1, FS_RemoveElement
        <5> QED
          BY <1>0, <2>3, <5>1
      <4>3. h[T \ {x}] = g[T \ {x}]
        <5> HIDE DEF P
        <5> QED
          BY <2>5, <4>2
      <4> HIDE DEF h
      <4> QED
        BY <3>2, <4>3 DEF FreeStep, x
    <3> QED
      BY <3>1, <3>2
  <2>7. Steps(h, m)
    <3>1. \A T \in P(m) : h[T] = FreeStep(a, q, g, T)
      <4> HIDE DEF P
      <4> QED
        BY <2>4, <2>5
    <3> HIDE DEF P
    <3>2. \A T \in P(m) : h[T] = FreeStep(a, q, h, T)
      BY <2>6, <3>1
    <3> QED
      BY <3>2
  <2> QED
    BY <2>1, <2>7
<1>2. \E g : Steps(g, Cardinality(D))
  <2>1. Cardinality(D) \in Nat
    BY <1>d, FS_CardinalityType
  <2> HIDE DEF D, Steps
  <2> QED
    BY <1>1, <2>1
<1>3. P(Cardinality(D)) = SUBSET D
  BY <1>0
<1>4. \E g : g = [T \in SUBSET D |-> FreeStep(a, q, g, T)]
  BY <1>2, <1>3
<1>5. Frees(a, q) = [T \in SUBSET D |-> FreeStep(a, q, Frees(a, q), T)]
  BY <1>4 DEF Frees
<1> QED
  BY <1>5

LEMMA VolsStep ==
  ASSUME NEW X, NEW q \in Seq(X)
  PROVE  \A T \in SUBSET DOMAIN q : Vols(q)[T] = VolStep(q, Vols(q), T)
PROOF
<1> DEFINE D == DOMAIN q
           P(m) == {T \in SUBSET D : Cardinality(T) <= m}
           Steps(g, m) == g = [T \in P(m) |-> VolStep(q, g, T)]
           Bad == {m \in Nat : ~ \E g : Steps(g, m)}
<1>d. D = 1 .. Len(q) /\ Len(q) \in Nat /\ IsFiniteSet(D)
  BY FS_Interval
<1>0. \A T \in SUBSET D : IsFiniteSet(T) /\ Cardinality(T) \in Nat /\ Cardinality(T) <= Cardinality(D)
  BY <1>d, FS_Subset, FS_CardinalityType
<1>1. ASSUME Bad # {} PROVE FALSE
  <2>0. Bad \in SUBSET Nat
    OBVIOUS
  <2>1. PICK m \in Bad : \A k \in Bad : m <= k
    <3> HIDE DEF Bad
    <3> QED
      BY <1>1, <2>0, LeastNat
  <2>2. m # 0
    <3>1. P(0) = {{}}
      BY <1>0, FS_EmptySet
    <3>2. \A g : VolStep(q, g, {}) = 0
      BY DEF VolStep
    <3>3. Steps([T \in P(0) |-> 0], 0)
      <4> HIDE DEF P
      <4> QED
        BY <3>1, <3>2
    <3> QED
      BY <2>1, <3>3, ZenonT(60)
  <2>3. m - 1 \in Nat /\ m - 1 \notin Bad /\ m \in Nat
    <3> HIDE DEF Bad
    <3> QED
      BY <2>0, <2>1, <2>2
  <2>4. PICK g : Steps(g, m - 1)
    BY <2>3
  <2> DEFINE h == [T \in P(m) |-> IF T \in P(m - 1) THEN g[T] ELSE VolStep(q, g, T)]
  <2>5. P(m - 1) \subseteq P(m)
    BY <1>0, <2>3
  <2>6. ASSUME NEW T \in P(m) PROVE VolStep(q, h, T) = VolStep(q, g, T)
    <3> DEFINE x == Max(T)
    <3>1. CASE T = {}
      BY <3>1 DEF VolStep
    <3>2. CASE T # {}
      <4>1. x \in T
        BY <1>d, <3>2, MaxNat
      <4> HIDE DEF x
      <4>2. T \ {x} \in P(m - 1)
        <5>1. Cardinality(T \ {x}) = Cardinality(T) - 1
          BY <1>0, <4>1, FS_RemoveElement
        <5> QED
          BY <1>0, <2>3, <5>1
      <4>3. h[T \ {x}] = g[T \ {x}]
        <5> HIDE DEF P
        <5> QED
          BY <2>5, <4>2
      <4> HIDE DEF h
      <4> QED
        BY <3>2, <4>3 DEF VolStep, x
    <3> QED
      BY <3>1, <3>2
  <2>7. Steps(h, m)
    <3>1. \A T \in P(m) : h[T] = VolStep(q, g, T)
      <4> HIDE DEF P
      <4> QED
        BY <2>4, <2>5
    <3> HIDE DEF P
    <3>2. \A T \in P(m) : h[T] = VolStep(q, h, T)
      BY <2>6, <3>1
    <3> QED
      BY <3>2
  <2> QED
    BY <2>1, <2>7
<1>2. \E g : Steps(g, Cardinality(D))
  <2>1. Cardinality(D) \in Nat
    BY <1>d, FS_CardinalityType
  <2> HIDE DEF D, Steps
  <2> QED
    BY <1>1, <2>1
<1>3. P(Cardinality(D)) = SUBSET D
  BY <1>0
<1>4. \E g : g = [T \in SUBSET D |-> VolStep(q, g, T)]
  BY <1>2, <1>3
<1>5. Vols(q) = [T \in SUBSET D |-> VolStep(q, Vols(q), T)]
  BY <1>4 DEF Vols
<1> QED
  BY <1>5

(* The first j chunks. *)
LEMMA Firsts ==
  ASSUME NEW j \in Nat \ {0}
  PROVE  Max(1 .. j) = j /\ (1 .. j) \ {j} = 1 .. (j - 1) /\ 1 .. j # {}
PROOF
<1>0. j \in 1 .. j
  OBVIOUS
<1>1. (1 .. j) \ {j} = 1 .. (j - 1) /\ 1 .. j # {} /\ j \in 1 .. j
  <2>1. \A x : x \in (1 .. j) \ {j} <=> x \in 1 .. (j - 1)
    OBVIOUS
  <2>2. (1 .. j) \ {j} = 1 .. (j - 1)
    BY <2>1
  <2> QED
    BY <1>0, <2>2
<1>2. 1 .. j \in SUBSET (1 .. j)
  OBVIOUS
<1>3. Max(1 .. j) \in 1 .. j /\ \A y \in 1 .. j : Max(1 .. j) >= y
  BY <1>1, <1>2, MaxNat
<1>4. Max(1 .. j) >= j /\ Max(1 .. j) <= j /\ Max(1 .. j) \in Nat
  BY <1>1, <1>3
<1> QED
  BY <1>1, <1>4

(* The blocks of which U gives the size, without those of S. *)
Except(U, S) == [b \in DOMAIN U \ S |-> U[b]]

(* The blocks of chunks. *)
BlocksOf(q, n) == {q[i].data - overhead_szB_lo : i \in 1 .. n}

LEMMA AllFreed ==
  ASSUME NEW X, NEW q \in Seq(X), NEW a, ArenaInv(a),
         \A i \in DOMAIN q : q[i].data \in Nat /\ q[i].data - overhead_szB_lo \in DOMAIN UseOf(a.blk),
         \A i, j \in DOMAIN q : i # j => q[i].data # q[j].data,
         NEW c, c = FreeAll(a, q)
  PROVE  /\ ArenaInv(c) /\ SameSuper(a, c)
         /\ UseOf(c.blk) = Except(UseOf(a.blk), BlocksOf(q, Len(q)))
PROOF
<1> DEFINE g == Frees(a, q)
           U == UseOf(a.blk)
           Good(j) == /\ ArenaInv(g[1 .. j]) /\ SameSuper(a, g[1 .. j])
                      /\ UseOf(g[1 .. j].blk) = Except(U, BlocksOf(q, j))
           Bad == {j \in 0 .. Len(q) : ~ Good(j)}
<1>0. DOMAIN q = 1 .. Len(q) /\ Len(q) \in Nat /\ overhead_szB_lo \in Nat
  BY Overhead
<1>1. \A T \in SUBSET DOMAIN q : g[T] = FreeStep(a, q, g, T)
  BY FreesStep
<1> HIDE DEF g
<1>2. Good(0)
  <2>1. 1 .. 0 = {} /\ {} \in SUBSET DOMAIN q
    OBVIOUS
  <2>2. g[1 .. 0] = a
    BY <1>1, <2>1 DEF FreeStep
  <2>3. BlocksOf(q, 0) = {}
    BY <2>1 DEF BlocksOf
  <2>4. Except(U, {}) = U
    <3>1. U = [b \in DOMAIN U |-> U[b]]
      BY DEF UseOf
    <3>2. DOMAIN U \ {} = DOMAIN U
      OBVIOUS
    <3> HIDE DEF U
    <3> QED
      BY <3>1, <3>2 DEF Except
  <2> QED
    BY <2>2, <2>3, <2>4 DEF SameSuper
<1>3. ASSUME NEW j \in 1 .. Len(q), Good(j - 1) PROVE Good(j)
  <2> DEFINE d == g[1 .. (j - 1)]
             b == q[j].data - overhead_szB_lo
  <2>1. j \in Nat \ {0} /\ j \in DOMAIN q /\ 1 .. j \in SUBSET DOMAIN q
    BY <1>0
  <2>2. g[1 .. j] = arena_free(d, q[j].data)
    BY <1>1, <2>1, Firsts, ZenonT(60) DEF FreeStep
  <2>3. ArenaInv(d) /\ SameSuper(a, d) /\ UseOf(d.blk) = Except(U, BlocksOf(q, j - 1))
    BY <1>3
  <2>4. b \in DOMAIN U /\ q[j].data = b + overhead_szB_lo /\ b \in Int
    BY <1>0, <2>1
  <2>5. b \notin BlocksOf(q, j - 1)
    <3>1. ASSUME NEW i \in 1 .. (j - 1), b = q[i].data - overhead_szB_lo PROVE FALSE
      <4>1. i \in DOMAIN q /\ i # j
        BY <1>0
      <4>2. q[i].data # q[j].data /\ q[i].data \in Nat /\ q[j].data \in Nat
        BY <2>1, <4>1
      <4> QED
        BY <1>0, <3>1, <4>2
    <3> QED
      BY <3>1 DEF BlocksOf
  <2>6. b \in DOMAIN UseOf(d.blk)
    BY <2>3, <2>4, <2>5 DEF Except
  <2> HIDE DEF b, d
  <2>7. /\ ArenaInv(g[1 .. j]) /\ SameSuper(d, g[1 .. j]) /\ UseOf(g[1 .. j].blk) = Without(UseOf(d.blk), b)
    BY <2>2, <2>3, <2>4, <2>6, ArenaFree
  <2>8. Without(Except(U, BlocksOf(q, j - 1)), b) = Except(U, BlocksOf(q, j))
    <3>1. BlocksOf(q, j) = BlocksOf(q, j - 1) \cup {b}
      <4>1. 1 .. j = 1 .. (j - 1) \cup {j}
        OBVIOUS
      <4> QED
        BY <4>1 DEF BlocksOf, b
    <3>2. (DOMAIN U \ BlocksOf(q, j - 1)) \ {b} = DOMAIN U \ BlocksOf(q, j)
      BY <3>1
    <3> HIDE DEF U
    <3>3. DOMAIN Except(U, BlocksOf(q, j - 1)) = DOMAIN U \ BlocksOf(q, j - 1)
      BY DEF Except
    <3> QED
      BY <3>2, <3>3 DEF Except, Without
  <2> QED
    BY <2>3, <2>7, <2>8, SameSuperTrans
<1>4. ASSUME Bad # {} PROVE FALSE
  <2>1. Bad \in SUBSET Nat
    BY <1>0
  <2>2. PICK m \in Bad : \A k \in Bad : m <= k
    <3> HIDE DEF Bad
    <3> QED
      BY <1>4, <2>1, LeastNat
  <2>3. m \in 0 .. Len(q) /\ ~ Good(m)
    OBVIOUS
  <2> HIDE DEF Good
  <2>4. m \in 1 .. Len(q) /\ m - 1 \in 0 .. Len(q) /\ m \in Nat
    BY <1>0, <1>2, <2>3
  <2>5. m - 1 \notin Bad
    <3> HIDE DEF Bad
    <3> QED
      BY <2>2, <2>4
  <2>6. Good(m - 1)
    BY <2>4, <2>5
  <2> QED
    BY <1>3, <2>3, <2>4, <2>6
<1>5. Good(Len(q))
  <2>1. Len(q) \in 0 .. Len(q)
    BY <1>0
  <2> HIDE DEF Good
  <2> QED
    BY <1>4, <2>1
<1>6. c = g[1 .. Len(q)]
  BY <1>0 DEF FreeAll, g
<1> QED
  BY <1>5, <1>6

(* What the first j chunks of the queue q add up to. *)
Vol(q, j) == Vols(q)[1 .. j]

IsQueue(q) == q \in Seq(Range(q)) /\ \A i \in DOMAIN q : q[i].szB \in Nat

LEMMA VolTake ==
  ASSUME NEW q, IsQueue(q)
  PROVE  Vol(q, 0) = 0 /\ \A j \in 1 .. Len(q) : Vol(q, j) = Vol(q, j - 1) + q[j].szB
PROOF
<1>0. DOMAIN q = 1 .. Len(q) /\ Len(q) \in Nat /\ q \in Seq(Range(q))
  BY DEF IsQueue
<1>1. \A T \in SUBSET DOMAIN q : Vols(q)[T] = VolStep(q, Vols(q), T)
  BY <1>0, VolsStep
<1>2. Vol(q, 0) = 0
  <2>1. 1 .. 0 = {} /\ {} \in SUBSET DOMAIN q
    OBVIOUS
  <2> QED
    BY <1>1, <2>1 DEF Vol, VolStep
<1>3. ASSUME NEW j \in 1 .. Len(q) PROVE Vol(q, j) = Vol(q, j - 1) + q[j].szB
  <2>1. j \in Nat \ {0} /\ 1 .. j \in SUBSET DOMAIN q
    BY <1>0
  <2> QED
    BY <1>1, <2>1, Firsts, ZenonT(60) DEF Vol, VolStep
<1> QED
  BY <1>2, <1>3

(* An induction over the chunks of a queue. *)
LEMMA VolNat ==
  ASSUME NEW q, IsQueue(q), NEW j \in 0 .. Len(q)
  PROVE  Vol(q, j) \in Nat
PROOF
<1> DEFINE Bad == {i \in 0 .. Len(q) : Vol(q, i) \notin Nat}
<1>0. DOMAIN q = 1 .. Len(q) /\ Len(q) \in Nat
  BY DEF IsQueue
<1>1. ASSUME Bad # {} PROVE FALSE
  <2>1. Bad \in SUBSET Nat
    BY <1>0
  <2>2. PICK m \in Bad : \A k \in Bad : m <= k
    <3> HIDE DEF Bad
    <3> QED
      BY <1>1, <2>1, LeastNat
  <2>3. m \in 0 .. Len(q) /\ Vol(q, m) \notin Nat
    OBVIOUS
  <2>4. m \in 1 .. Len(q) /\ m - 1 \in 0 .. Len(q) /\ m \in Nat
    BY <1>0, <2>3, VolTake
  <2>5. m - 1 \notin Bad
    <3> HIDE DEF Bad
    <3> QED
      BY <2>2, <2>4
  <2>6. Vol(q, m - 1) \in Nat
    BY <2>4, <2>5
  <2>7. q[m].szB \in Nat /\ Vol(q, m) = Vol(q, m - 1) + q[m].szB
    BY <1>0, <2>4, VolTake DEF IsQueue
  <2> QED
    BY <2>3, <2>6, <2>7
<1> QED
  BY <1>1

(* The first n chunks of u have the sizes of those of q from k on. *)
Shifted(u, q, k, n) == \A i \in 1 .. n : u[i].szB = q[k + i].szB

LEMMA VolShift ==
  ASSUME NEW q, IsQueue(q), NEW u, IsQueue(u), NEW k \in Nat, NEW n \in Nat, n <= Len(u), k + n <= Len(q),
         Shifted(u, q, k, n), NEW e \in k .. k + n
  PROVE  Vol(u, e - k) = Vol(q, e) - Vol(q, k)
PROOF
<1> DEFINE Good(i) == Vol(u, i) = Vol(q, k + i) - Vol(q, k)
           Bad == {i \in 0 .. n : ~ Good(i)}
<1>0. Len(q) \in Nat /\ Len(u) \in Nat /\ (\A i \in 0 .. Len(q) : Vol(q, i) \in Nat) /\ \A i \in 0 .. Len(u) : Vol(u, i) \in Nat
  BY VolNat DEF IsQueue
<1>1. Good(0)
  <2>1. k \in 0 .. Len(q) /\ k + 0 = k
    BY <1>0
  <2> QED
    BY <1>0, <2>1, VolTake
<1>2. ASSUME NEW m \in 1 .. n, Good(m - 1) PROVE Good(m)
  <2>1. m \in 1 .. Len(u) /\ k + m \in 1 .. Len(q) /\ (k + m) - 1 = k + (m - 1) /\ k \in 0 .. Len(q)
        /\ k + (m - 1) \in 0 .. Len(q) /\ m - 1 \in 0 .. Len(u)
    BY <1>0
  <2>2. Vol(u, m) = Vol(u, m - 1) + u[m].szB
    BY <2>1, VolTake
  <2>3. Vol(q, k + m) = Vol(q, k + (m - 1)) + q[k + m].szB
    BY <2>1, VolTake
  <2>4. u[m].szB = q[k + m].szB /\ u[m].szB \in Nat
    <3>1. DOMAIN u = 1 .. Len(u)
      BY DEF IsQueue
    <3> QED
      BY <2>1, <3>1 DEF IsQueue, Shifted
  <2>5. Vol(q, k) \in Nat /\ Vol(q, k + (m - 1)) \in Nat /\ Vol(u, m - 1) \in Nat
    BY <1>0, <2>1
  <2> QED
    BY <1>2, <2>2, <2>3, <2>4, <2>5, SMTT(30)
<1>3. ASSUME Bad # {} PROVE FALSE
  <2>1. Bad \in SUBSET Nat
    OBVIOUS
  <2>2. PICK m \in Bad : \A i \in Bad : m <= i
    <3> HIDE DEF Bad
    <3> QED
      BY <1>3, <2>1, LeastNat
  <2>3. m \in 0 .. n /\ ~ Good(m)
    OBVIOUS
  <2> HIDE DEF Good
  <2>4. m \in 1 .. n /\ m - 1 \in 0 .. n /\ m \in Nat
    BY <1>1, <2>3
  <2>5. m - 1 \notin Bad
    <3> HIDE DEF Bad
    <3> QED
      BY <2>2, <2>4
  <2> QED
    BY <1>2, <2>3, <2>4, <2>5
<1>4. e - k \in 0 .. n /\ k + (e - k) = e
  OBVIOUS
<1>5. Good(e - k)
  <2> HIDE DEF Good
  <2> QED
    BY <1>3, <1>4
<1> QED
  BY <1>4, <1>5

LEMMA VolumeIs ==
  ASSUME NEW q, IsQueue(q)
  PROVE  volume(q) = Vol(q, Len(q)) /\ volume(q) \in Nat
PROOF
<1>1. DOMAIN q = 1 .. Len(q) /\ Len(q) \in 0 .. Len(q)
  BY DEF IsQueue
<1> QED
  BY <1>1, VolFold, VolNat DEF Vol

(* A queue, a chunk at its end, and a part of it. *)
LEMMA VolumeAppend ==
  ASSUME NEW q, IsQueue(q), NEW mc, mc.szB \in Nat
  PROVE  IsQueue(Append(q, mc)) /\ volume(Append(q, mc)) = volume(q) + mc.szB
PROOF
<1> DEFINE u == Append(q, mc)
           n == Len(q)
           X == Range(q) \cup {mc}
<1>0. q \in Seq(X) /\ n \in Nat /\ mc \in X
  <2>1. q \in Seq(Range(q))
    BY DEF IsQueue
  <2> QED
    BY <2>1
<1>1. /\ u \in Seq(X) /\ Len(u) = n + 1 /\ u[n + 1] = mc /\ (\A i \in 1 .. n : u[i] = q[i])
      /\ DOMAIN u = 1 .. (n + 1) /\ DOMAIN q = 1 .. n
  BY <1>0
<1> HIDE DEF u
<1>2. IsQueue(u)
  <2>1. ASSUME NEW i \in DOMAIN u PROVE u[i].szB \in Nat
    BY <1>0, <1>1 DEF IsQueue
  <2>2. u \in Seq(Range(u))
    <3>1. u \in [1 .. (n + 1) -> Range(u)]
      BY <1>0, <1>1 DEF Range
    <3> QED
      BY <1>0, <3>1, IsSeq
  <2> QED
    BY <2>1, <2>2 DEF IsQueue
<1>3. Vol(u, n) = Vol(q, n) - Vol(q, 0)
  <2>1. /\ 0 \in Nat /\ n <= Len(u) /\ 0 + n <= Len(q) /\ n - 0 = n /\ n \in 0 .. 0 + n
        /\ Shifted(u, q, 0, n)
    BY <1>0, <1>1 DEF Shifted
  <2> QED
    BY <1>0, <1>2, <2>1, VolShift
<1>4. Vol(q, 0) = 0 /\ Vol(u, n + 1) = Vol(u, n) + mc.szB /\ Vol(q, n) \in Nat
  <2>1. Vol(q, 0) = 0
    BY VolTake
  <2>2. \A j \in 1 .. Len(u) : Vol(u, j) = Vol(u, j - 1) + u[j].szB
    BY <1>2, VolTake
  <2>3. n + 1 \in 1 .. Len(u) /\ (n + 1) - 1 = n
    BY <1>0, <1>1
  <2>4. Vol(u, n + 1) = Vol(u, n) + mc.szB
    BY <1>1, <2>2, <2>3
  <2>5. n \in 0 .. Len(q)
    BY <1>0
  <2>6. Vol(q, n) \in Nat
    BY <2>5, VolNat
  <2> QED
    BY <2>1, <2>4, <2>6
<1>5. volume(u) = Vol(u, n + 1) /\ volume(q) = Vol(q, n)
  BY <1>1, <1>2, VolumeIs
<1>7. volume(u) = volume(q) + mc.szB
  BY <1>3, <1>4, <1>5
<1> QED
  BY <1>2, <1>7 DEF u

LEMMA VolumeParts ==
  ASSUME NEW q, IsQueue(q), NEW k \in 0 .. Len(q)
  PROVE  /\ IsQueue(SubSeq(q, 1, k)) /\ IsQueue(SubSeq(q, k + 1, Len(q)))
         /\ volume(q) - volume(SubSeq(q, 1, k)) = volume(SubSeq(q, k + 1, Len(q)))
PROOF
<1> DEFINE u == SubSeq(q, 1, k)
           w == SubSeq(q, k + 1, Len(q))
           n == Len(q)
<1>0. q \in Seq(Range(q)) /\ n \in Nat /\ DOMAIN q = 1 .. n /\ k \in Nat /\ k <= n
  BY DEF IsQueue
<1>1. /\ Len(u) = k /\ (\A i \in 1 .. k : u[i] = q[i]) /\ DOMAIN u = 1 .. k
  BY <1>0
<1>2. Len(w) = n - k /\ (\A i \in 1 .. (n - k) : w[i] = q[k + i]) /\ DOMAIN w = 1 .. (n - k)
  <2>1. k + 1 \in Int /\ n \in Int /\ \A i \in k + 1 .. n : q[i] \in Range(q)
    BY <1>0
  <2>2. w \in Seq(Range(q))
    BY <1>0, <2>1
  <2>3. Len(w) = n - k
    <3> DEFINE l == k + 1
    <3>1. w = SubSeq(q, l, n) /\ l \in Nat /\ l <= n + 1 /\ l >= 1
      BY <1>0
    <3> HIDE DEF l, w, n
    <3>2. Len(w) = n - l + 1
      BY <1>0, <3>1
    <3> QED
      BY <1>0, <3>2 DEF l
  <2>4. ASSUME NEW i \in 1 .. n - k PROVE w[i] = q[k + i]
    <3>1. w[i] = q[(k + 1) + i - 1]
      BY <1>0, <2>1
    <3>2. (k + 1) + i - 1 = k + i
      BY <1>0
    <3> QED
      BY <3>1, <3>2
  <2> HIDE DEF w
  <2> QED
    BY <2>2, <2>3, <2>4
<1>3. IsQueue(u)
  <2>1. u \in Seq(Range(q))
    BY <1>0
  <2> HIDE DEF u
  <2>2. \A i \in DOMAIN u : u[i].szB \in Nat
    BY <1>0, <1>1 DEF IsQueue
  <2>3. u \in Seq(Range(u))
    <3>1. u \in [1 .. k -> Range(u)]
      BY <1>1, <2>1 DEF Range
    <3> QED
      BY <3>1, IsSeq
  <2> QED
    BY <2>2, <2>3 DEF IsQueue
<1>4. IsQueue(w)
  <2>1. w \in Seq(Range(q)) /\ n - k \in Nat
    BY <1>0
  <2> HIDE DEF w
  <2>2. ASSUME NEW i \in DOMAIN w PROVE w[i].szB \in Nat
    <3>1. i \in 1 .. (n - k) /\ w[i] = q[k + i] /\ k + i \in DOMAIN q
      BY <1>0, <1>2, <2>1
    <3> QED
      BY <3>1 DEF IsQueue
  <2>3. w \in Seq(Range(w))
    <3>1. w \in [1 .. (n - k) -> Range(w)]
      BY <1>2, <2>1 DEF Range
    <3> QED
      BY <2>1, <3>1, IsSeq
  <2> QED
    BY <2>2, <2>3 DEF IsQueue
<1> HIDE DEF u, w
<1>5. Vol(u, k) = Vol(q, k) - Vol(q, 0)
  <2>1. /\ 0 \in Nat /\ k <= Len(u) /\ 0 + k <= Len(q) /\ k - 0 = k /\ k \in 0 .. 0 + k
        /\ Shifted(u, q, 0, k)
    BY <1>0, <1>1 DEF Shifted
  <2> QED
    BY <1>3, <2>1, VolShift
<1>6. Vol(w, n - k) = Vol(q, n) - Vol(q, k)
  <2>1. n - k \in Nat /\ n - k <= Len(w) /\ k + (n - k) <= Len(q) /\ n - k \in 0 .. n - k
        /\ Shifted(w, q, k, n - k)
    BY <1>0, <1>2 DEF Shifted
  <2> DEFINE m == n - k
  <2> HIDE DEF m
  <2>2. IsQueue(q) /\ IsQueue(w) /\ m \in Nat /\ m <= Len(w) /\ k + m <= Len(q) /\ n - k = m /\ n \in k .. k + m /\ k \in Nat
        /\ Shifted(w, q, k, m)
    BY <1>0, <1>4, <2>1 DEF m
  <2> HIDE DEF n
  <2>3. Vol(w, m) = Vol(q, n) - Vol(q, k)
    BY <2>2, VolShift
  <2> QED
    BY <2>3 DEF m
<1>7. Vol(q, 0) = 0 /\ Vol(q, k) \in Nat /\ Vol(q, n) \in Nat
  BY <1>0, VolTake, VolNat
<1>8. volume(u) = Vol(u, k) /\ volume(w) = Vol(w, n - k) /\ volume(q) = Vol(q, n)
  BY <1>1, <1>2, <1>3, <1>4, VolumeIs
<1>10. volume(q) - volume(u) = volume(w)
  BY <1>5, <1>6, <1>7, <1>8
<1> QED
  BY <1>3, <1>4, <1>10 DEF u, w

(* A sum of some is at most the sum of all. *)
LEMMA SumsPart ==
  ASSUME NEW f, IsFiniteSet(DOMAIN f), \A x \in DOMAIN f : f[x] \in Nat, NEW T \in SUBSET DOMAIN f
  PROVE  Sums(f)[T] <= Total(f)
PROOF
<1> DEFINE D == DOMAIN f
           Bad == {m \in Nat : \E S \in SUBSET D : Cardinality(D \ S) = m /\ ~ (Sums(f)[S] <= Sums(f)[D])}
<1>i. \A x \in DOMAIN f : f[x] \in Int
  OBVIOUS
<1>0. \A S \in SUBSET D : Sums(f)[S] \in Int /\ \A y \in S : Sums(f)[S] = f[y] + Sums(f)[S \ {y}]
  BY <1>i, SumsTake
<1>1. ASSUME Bad # {} PROVE FALSE
  <2>1. Bad \in SUBSET Nat
    OBVIOUS
  <2>2. PICK m \in Bad : \A k \in Bad : m <= k
    <3> HIDE DEF Bad
    <3> QED
      BY <1>1, <2>1, LeastNat
  <2>3. m \in Nat /\ \E S \in SUBSET D : Cardinality(D \ S) = m /\ ~ (Sums(f)[S] <= Sums(f)[D])
    OBVIOUS
  <2>4. PICK S \in SUBSET D : Cardinality(D \ S) = m /\ ~ (Sums(f)[S] <= Sums(f)[D])
    BY <2>3
  <2>5. S # D
    BY <1>0, <2>4
  <2>6. PICK y \in D : y \notin S
    BY <2>5
  <2> DEFINE Z == S \cup {y}
  <2>7. Z \in SUBSET D /\ D \ Z = (D \ S) \ {y} /\ Z \ {y} = S /\ y \in D \ S
    BY <2>6
  <2>8. Cardinality(D \ Z) = m - 1 /\ m - 1 \in Nat
    <3>1. IsFiniteSet(D \ S) /\ D \ S # {}
      BY <2>7, FS_Subset
    <3>2. Cardinality((D \ S) \ {y}) = Cardinality(D \ S) - 1
      BY <2>7, <3>1, FS_RemoveElement
    <3>3. IsFiniteSet(D \ Z)
      BY <2>7, FS_Subset
    <3>4. Cardinality(D \ Z) \in Nat
      BY <3>3, FS_CardinalityType
    <3> QED
      BY <2>4, <2>7, <3>2, <3>4
  <2>9. ~ (Sums(f)[Z] <= Sums(f)[D])
    <3>1. Sums(f)[Z] = f[y] + Sums(f)[S] /\ Sums(f)[S] \in Int /\ Sums(f)[D] \in Int
      <4>1. y \in Z
        OBVIOUS
      <4> HIDE DEF Z
      <4> QED
        BY <1>0, <2>7, <4>1
    <3>2. f[y] \in Nat
      BY <2>6
    <3> QED
      BY <2>4, <3>1, <3>2
  <2>10. m - 1 \in Bad
    <3> HIDE DEF Z
    <3> QED
      BY <2>7, <2>8, <2>9
  <2> HIDE DEF Bad
  <2> QED
    BY <2>2, <2>3, <2>10
<1>2. IsFiniteSet(D \ T) /\ T \in SUBSET D
  BY FS_Subset
<1>3. Cardinality(D \ T) \in Nat
  BY <1>2, FS_CardinalityType
<1>4. Sums(f)[T] <= Sums(f)[D]
  BY <1>1, <1>2, <1>3
<1> QED
  BY <1>4 DEF Total

(* The chunks of a queue have blocks of their own, large enough. *)
LEMMA VolumeBound ==
  ASSUME NEW q, IsQueue(q), NEW f, IsFiniteSet(DOMAIN f), \A x \in DOMAIN f : f[x] \in Nat,
         \A i \in DOMAIN q : /\ q[i].data \in Nat /\ q[i].data - overhead_szB_lo \in DOMAIN f
                             /\ q[i].szB <= f[q[i].data - overhead_szB_lo],
         \A i, j \in DOMAIN q : i # j => q[i].data # q[j].data
  PROVE  volume(q) <= Total(f)
PROOF
<1> DEFINE Good(j) == Vol(q, j) <= Sums(f)[BlocksOf(q, j)]
           Bad == {j \in 0 .. Len(q) : ~ Good(j)}
<1>0. /\ DOMAIN q = 1 .. Len(q) /\ Len(q) \in Nat /\ overhead_szB_lo \in Nat
      /\ \A i \in DOMAIN q : q[i].szB \in Nat
  BY Overhead DEF IsQueue
<1>i. \A x \in DOMAIN f : f[x] \in Int
  OBVIOUS
<1>1. \A S \in SUBSET DOMAIN f : Sums(f)[S] \in Int /\ \A y \in S : Sums(f)[S] = f[y] + Sums(f)[S \ {y}]
  BY <1>i, SumsTake
<1>2. \A j \in 0 .. Len(q) : BlocksOf(q, j) \in SUBSET DOMAIN f
  BY <1>0 DEF BlocksOf
<1>3. Good(0)
  <2>1. BlocksOf(q, 0) = {}
    BY DEF BlocksOf
  <2>2. Sums(f)[{}] = 0
    BY SumsStep, FS_EmptySet DEF SumStep
  <2>3. Vol(q, 0) = 0
    BY VolTake
  <2> QED
    BY <2>1, <2>2, <2>3
<1>4. ASSUME NEW j \in 1 .. Len(q), Good(j - 1) PROVE Good(j)
  <2> DEFINE b == q[j].data - overhead_szB_lo
  <2>1. j \in DOMAIN q /\ j \in 0 .. Len(q) /\ j - 1 \in 0 .. Len(q) /\ b \in DOMAIN f /\ q[j].szB <= f[b] /\ f[b] \in Nat
    BY <1>0
  <2>2. b \notin BlocksOf(q, j - 1)
    <3>1. ASSUME NEW i \in 1 .. (j - 1), b = q[i].data - overhead_szB_lo PROVE FALSE
      <4>1. i \in DOMAIN q /\ i # j
        BY <1>0
      <4>2. q[i].data # q[j].data /\ q[i].data \in Nat /\ q[j].data \in Nat
        BY <2>1, <4>1
      <4> QED
        BY <1>0, <3>1, <4>2
    <3> QED
      BY <3>1 DEF BlocksOf
  <2>3. BlocksOf(q, j) = BlocksOf(q, j - 1) \cup {b}
    <3>1. 1 .. j = 1 .. (j - 1) \cup {j}
      OBVIOUS
    <3> QED
      BY <3>1 DEF BlocksOf
  <2> HIDE DEF b
  <2>4. b \in BlocksOf(q, j) /\ BlocksOf(q, j) \ {b} = BlocksOf(q, j - 1)
    BY <2>2, <2>3
  <2>5. /\ Sums(f)[BlocksOf(q, j)] = f[b] + Sums(f)[BlocksOf(q, j - 1)]
        /\ Sums(f)[BlocksOf(q, j - 1)] \in Int
    BY <1>1, <1>2, <2>1, <2>4, ZenonT(60)
  <2>6. Vol(q, j) = Vol(q, j - 1) + q[j].szB /\ Vol(q, j - 1) \in Nat /\ q[j].szB \in Nat
    BY <1>0, <2>1, VolTake, VolNat
  <2> QED
    BY <1>4, <2>1, <2>5, <2>6
<1>5. ASSUME Bad # {} PROVE FALSE
  <2>1. Bad \in SUBSET Nat
    BY <1>0
  <2>2. PICK m \in Bad : \A k \in Bad : m <= k
    <3> HIDE DEF Bad
    <3> QED
      BY <1>5, <2>1, LeastNat
  <2>3. m \in 0 .. Len(q) /\ ~ Good(m)
    OBVIOUS
  <2> HIDE DEF Good
  <2>4. m \in 1 .. Len(q) /\ m - 1 \in 0 .. Len(q) /\ m \in Nat
    BY <1>0, <1>3, <2>3
  <2>5. m - 1 \notin Bad
    <3> HIDE DEF Bad
    <3> QED
      BY <2>2, <2>4
  <2> QED
    BY <1>4, <2>3, <2>4, <2>5
<1>6. Good(Len(q))
  <2>1. Len(q) \in 0 .. Len(q)
    BY <1>0
  <2> HIDE DEF Good
  <2> QED
    BY <1>5, <2>1
<1>7. Len(q) \in 0 .. Len(q)
  BY <1>0
<1>8. Sums(f)[BlocksOf(q, Len(q))] <= Total(f) /\ Sums(f)[BlocksOf(q, Len(q))] \in Int
  BY <1>1, <1>2, <1>7, SumsPart
<1>9. Total(f) \in Int
  BY <1>1 DEF Total
<1>10. volume(q) = Vol(q, Len(q)) /\ volume(q) \in Nat
  BY VolumeIs
<1> QED
  BY <1>6, <1>8, <1>9, <1>10

(* The sums that sanity_check_malloc_arena makes. *)
LoanStep(a, g, T) ==
  IF T = {} THEN 0 ELSE get_pszB(a, CHOOSE x \in T : TRUE) + g[T \ {CHOOSE x \in T : TRUE}]
LoanSums(a, S) == CHOOSE g : g = [T \in SUBSET S |-> LoanStep(a, g, T)]

LEMMA LoanSum ==
  ASSUME NEW a, NEW S, S = {b \in DOMAIN a.blk : is_inuse_block(a, b)}
  PROVE  MapThenSumSet(LAMBDA b : get_pszB(a, b), S) = Total(Pay(UseOf(a.blk)))
PROOF
<1> DEFINE f == Pay(UseOf(a.blk))
<1>1. MapThenSumSet(LAMBDA b : get_pszB(a, b), S) = LoanSums(a, S)[S]
  BY DEF MapThenSumSet, MapThenFoldSet, LoanSums, LoanStep
<1>2. DOMAIN f = S /\ \A x \in S : f[x] = get_pszB(a, x)
  BY DEF Pay, UseOf, is_inuse_block, get_pszB, bszB_to_pszB, get_bszB
<1> HIDE DEF f
<1>3. ASSUME NEW g PROVE [T \in SUBSET S |-> LoanStep(a, g, T)] = [T \in SUBSET S |-> SumStep(f, g, T)]
  <2>1. ASSUME NEW T \in SUBSET S PROVE LoanStep(a, g, T) = SumStep(f, g, T)
    <3>1. T # {} => (CHOOSE x \in T : TRUE) \in S
      OBVIOUS
    <3> QED
      BY <1>2, <3>1 DEF LoanStep, SumStep
  <2> QED
    BY <2>1
<1>4. LoanSums(a, S) = Sums(f)
  <2>1. Sums(f) = CHOOSE g : g = [T \in SUBSET S |-> SumStep(f, g, T)]
    BY <1>2 DEF Sums
  <2>2. \A g : [T \in SUBSET S |-> LoanStep(a, g, T)] = [T \in SUBSET S |-> SumStep(f, g, T)]
    BY <1>3
  <2> QED
    BY <2>1, <2>2, ZenonT(60) DEF LoanSums
<1> QED
  BY <1>1, <1>2, <1>4 DEF Total, f

MapStep(a, g, T) ==
  IF T = {} THEN 0 ELSE (a.sb[CHOOSE x \in T : TRUE] + SB_ADMIN) + g[T \ {CHOOSE x \in T : TRUE}]
MapSums(a, S) == CHOOSE g : g = [T \in SUBSET S |-> MapStep(a, g, T)]

LEMMA MapSum ==
  ASSUME NEW a, NEW S, S = DOMAIN a.sb
  PROVE  MapThenSumSet(LAMBDA s : a.sb[s] + SB_ADMIN, S) = Total(Mapped(a.sb))
PROOF
<1> DEFINE f == Mapped(a.sb)
<1>1. MapThenSumSet(LAMBDA s : a.sb[s] + SB_ADMIN, S) = MapSums(a, S)[S]
  BY DEF MapThenSumSet, MapThenFoldSet, MapSums, MapStep
<1>2. DOMAIN f = S /\ \A x \in S : f[x] = a.sb[x] + SB_ADMIN
  BY DEF Mapped
<1> HIDE DEF f
<1>3. ASSUME NEW g PROVE [T \in SUBSET S |-> MapStep(a, g, T)] = [T \in SUBSET S |-> SumStep(f, g, T)]
  <2>1. ASSUME NEW T \in SUBSET S PROVE MapStep(a, g, T) = SumStep(f, g, T)
    <3>1. T # {} => (CHOOSE x \in T : TRUE) \in S
      OBVIOUS
    <3> QED
      BY <1>2, <3>1 DEF MapStep, SumStep
  <2> QED
    BY <2>1
<1>4. MapSums(a, S) = Sums(f)
  <2>1. Sums(f) = CHOOSE g : g = [T \in SUBSET S |-> SumStep(f, g, T)]
    BY <1>2 DEF Sums
  <2>2. \A g : [T \in SUBSET S |-> MapStep(a, g, T)] = [T \in SUBSET S |-> SumStep(f, g, T)]
    BY <1>3
  <2> QED
    BY <2>1, <2>2, ZenonT(60) DEF MapSums
<1> QED
  BY <1>1, <1>2, <1>4 DEF Total, f

-----------------------------------------------------------------------------
(* What callers hold of an arena whose blocks in use are U: each block is  *)
(* held at the address of its payload, with room for what was asked for.   *)

Holds(U, h) ==
  /\ \A b \in DOMAIN U : b + overhead_szB_lo \in DOMAIN h
  /\ \A p \in DOMAIN h :
       /\ p \in Nat /\ p - overhead_szB_lo \in DOMAIN U
       /\ h[p].szB \in Nat /\ h[p].szB + overhead_szB <= U[p - overhead_szB_lo]
       /\ h[p].alignB \in Nat \ {0} /\ p % h[p].alignB = 0

(* A block is handed out. *)
LEMMA HoldsLend ==
  ASSUME NEW U, DOMAIN U \subseteq Nat, NEW h, Holds(U, h), NEW b \in Nat, b \notin DOMAIN U,
         NEW n \in Nat, NEW z \in Nat, n + overhead_szB <= z, NEW al \in Nat \ {0}, NEW p, p = b + overhead_szB_lo, p % al = 0
  PROVE  Holds(With(U, b, z), lend(h, p, n, al)) /\ p \notin DOMAIN h /\ p \in Nat
PROOF
<1> DEFINE V == With(U, b, z)
           g == lend(h, p, n, al)
<1>0. overhead_szB_lo \in Nat /\ overhead_szB \in Nat
  BY Overhead
<1>1. p \in Nat /\ p \notin DOMAIN h /\ p - overhead_szB_lo = b
  <2>1. p \in Nat /\ p - overhead_szB_lo = b
    BY <1>0
  <2> QED
    BY <2>1 DEF Holds
<1>2. DOMAIN V = DOMAIN U \cup {b} /\ V[b] = z /\ \A c \in DOMAIN U : V[c] = U[c]
  BY DEF With
<1>3. /\ DOMAIN g = DOMAIN h \cup {p} /\ g[p].szB = n /\ g[p].alignB = al
      /\ \A q \in DOMAIN h : g[q].szB = h[q].szB /\ g[q].alignB = h[q].alignB
  BY <1>1 DEF lend
<1> HIDE DEF V, g
<1>4. \A c \in DOMAIN V : c + overhead_szB_lo \in DOMAIN g
  BY <1>2, <1>3 DEF Holds
<1>5. ASSUME NEW q \in DOMAIN g
      PROVE  /\ q \in Nat /\ q - overhead_szB_lo \in DOMAIN V
             /\ g[q].szB \in Nat /\ g[q].szB + overhead_szB <= V[q - overhead_szB_lo]
             /\ g[q].alignB \in Nat \ {0} /\ q % g[q].alignB = 0
  <2>1. CASE q = p
    BY <1>0, <1>1, <1>2, <1>3, <2>1
  <2>2. CASE q \in DOMAIN h
    <3>1. /\ q \in Nat /\ q - overhead_szB_lo \in DOMAIN U
          /\ h[q].szB \in Nat /\ h[q].szB + overhead_szB <= U[q - overhead_szB_lo]
          /\ h[q].alignB \in Nat \ {0} /\ q % h[q].alignB = 0
      BY <2>2 DEF Holds
    <3> QED
      BY <1>2, <1>3, <2>2, <3>1
  <2> QED
    BY <1>3, <2>1, <2>2
<1>6. Holds(V, g)
  BY <1>4, <1>5 DEF Holds
<1> QED
  BY <1>1, <1>6 DEF V, g

(* Blocks are given back. *)
LEMMA HoldsTake ==
  ASSUME NEW U, DOMAIN U \subseteq Nat, NEW h, Holds(U, h), NEW S, NEW B,
         \A b \in DOMAIN U : b \in B <=> b + overhead_szB_lo \in S
  PROVE  Holds(Except(U, B), take_back(h, S))
PROOF
<1> DEFINE V == Except(U, B)
           g == take_back(h, S)
<1>0. overhead_szB_lo \in Nat
  BY Overhead
<1>1. DOMAIN V = DOMAIN U \ B /\ \A c \in DOMAIN V : V[c] = U[c]
  BY DEF Except
<1>2. DOMAIN g = DOMAIN h \ S /\ \A q \in DOMAIN g : g[q] = h[q]
  BY DEF take_back
<1> HIDE DEF V, g
<1>3. \A c \in DOMAIN V : c + overhead_szB_lo \in DOMAIN g
  BY <1>1, <1>2 DEF Holds
<1>4. ASSUME NEW q \in DOMAIN g
      PROVE  /\ q \in Nat /\ q - overhead_szB_lo \in DOMAIN V
             /\ g[q].szB \in Nat /\ g[q].szB + overhead_szB <= V[q - overhead_szB_lo]
             /\ g[q].alignB \in Nat \ {0} /\ q % g[q].alignB = 0
  <2>1. q \in DOMAIN h /\ q \notin S /\ g[q] = h[q]
    BY <1>2
  <2>2. /\ q \in Nat /\ q - overhead_szB_lo \in DOMAIN U
        /\ h[q].szB \in Nat /\ h[q].szB + overhead_szB <= U[q - overhead_szB_lo]
        /\ h[q].alignB \in Nat \ {0} /\ q % h[q].alignB = 0
    BY <2>1 DEF Holds
  <2>3. (q - overhead_szB_lo) + overhead_szB_lo = q
    BY <1>0, <2>2
  <2>4. q - overhead_szB_lo \notin B
    BY <2>1, <2>2, <2>3
  <2> QED
    BY <1>1, <2>1, <2>2, <2>4
<1>5. Holds(V, g)
  BY <1>3, <1>4 DEF Holds
<1> QED
  BY <1>5 DEF V, g

(* A block that has the room is held for another size. *)
LEMMA HoldsResize ==
  ASSUME NEW U, NEW h, Holds(U, h), NEW p \in DOMAIN h, NEW n \in Nat,
         n + overhead_szB <= U[p - overhead_szB_lo]
  PROVE  Holds(U, lend(h, p, n, h[p].alignB))
PROOF
<1> DEFINE g == lend(h, p, n, h[p].alignB)
<1>3. /\ DOMAIN g = DOMAIN h /\ g[p].szB = n /\ g[p].alignB = h[p].alignB
      /\ \A q \in DOMAIN h : q # p => g[q].szB = h[q].szB /\ g[q].alignB = h[q].alignB
  BY DEF lend
<1> HIDE DEF g
<1>4. Holds(U, g)
  BY <1>3 DEF Holds
<1> QED
  BY <1>4 DEF g

(* What lies between two blocks that are held, and around one. *)
LEMMA HoldsRoom ==
  ASSUME NEW a, ArenaInv(a), NEW h, Holds(UseOf(a.blk), h)
  PROVE  /\ \A p, q \in DOMAIN h : p < q => p + h[p].szB + overhead_szB <= q
         /\ \A p \in DOMAIN h :
              /\ p \in Nat /\ p > 0 /\ h[p].szB \in Nat
              /\ p - RZ .. p + h[p].szB + RZ - 1 \subseteq Space /\ p \in Space
PROOF
<1> DEFINE U == UseOf(a.blk)
<1>0. /\ overhead_szB_lo \in Nat \ {0} /\ overhead_szB_hi \in Nat \ {0} /\ overhead_szB = overhead_szB_lo + overhead_szB_hi
      /\ overhead_szB_lo >= RZ /\ overhead_szB_hi >= RZ /\ RZ \in Nat /\ SB_ADMIN \in Nat
  BY Overhead, SizesAssumption
<1>1. Typed(a.blk) /\ Disjoint(a.blk) /\ Covers(a.blk, a.sb) /\ Superblocks(a.sb, a.sblocks)
  BY DEF ArenaInv, Sane, Tiled
<1>2. \A b \in DOMAIN U : b \in DOMAIN a.blk /\ U[b] = a.blk[b].bszB /\ b \in Nat /\ U[b] \in Nat
  BY <1>1 DEF UseOf, Typed
<1> HIDE DEF U
<1>3. \A p \in DOMAIN h : /\ p \in Nat /\ p - overhead_szB_lo \in DOMAIN U
                          /\ h[p].szB \in Nat /\ h[p].szB + overhead_szB <= U[p - overhead_szB_lo]
  BY DEF Holds, U
<1>4. ASSUME NEW p \in DOMAIN h, NEW q \in DOMAIN h, p < q
      PROVE  p + h[p].szB + overhead_szB <= q
  <2> DEFINE b == p - overhead_szB_lo
             c == q - overhead_szB_lo
  <2>1. p \in Nat /\ q \in Nat /\ b \in DOMAIN U /\ c \in DOMAIN U /\ h[p].szB \in Nat /\ h[p].szB + overhead_szB <= U[b]
    BY <1>3
  <2>2. b < c
    BY <1>0, <1>4, <2>1
  <2>3. b + U[b] <= c
    <3> HIDE DEF b, c
    <3> QED
      BY <1>1, <1>2, <2>1, <2>2 DEF Disjoint
  <2>4. U[b] \in Nat
    BY <1>2, <2>1
  <2> QED
    BY <1>0, <2>1, <2>3, <2>4
<1>5. ASSUME NEW p \in DOMAIN h
      PROVE  /\ p \in Nat /\ p > 0 /\ h[p].szB \in Nat
             /\ p - RZ .. p + h[p].szB + RZ - 1 \subseteq Space /\ p \in Space
  <2> DEFINE b == p - overhead_szB_lo
  <2>1. p \in Nat /\ b \in DOMAIN U /\ h[p].szB \in Nat /\ h[p].szB + overhead_szB <= U[b]
    BY <1>3
  <2>2. b \in Nat /\ U[b] \in Nat /\ b \in DOMAIN a.blk /\ U[b] = a.blk[b].bszB
    BY <1>2, <2>1
  <2>3. PICK s \in DOMAIN a.sb : Inside(a.blk, a.sb, b, s)
    BY <1>1, <2>2 DEF Covers
  <2>4. s \in Nat /\ a.sb[s] \in Nat /\ s .. s + SB_ADMIN + a.sb[s] - 1 \subseteq Space
    BY <1>1 DEF Superblocks
  <2>5. s + SB_ADMIN <= b /\ b + U[b] <= s + SB_ADMIN + a.sb[s]
    BY <2>2, <2>3 DEF Inside
  <2>6. p > 0
    BY <1>0, <2>1, <2>2
  <2>7. p - RZ .. p + h[p].szB + RZ - 1 \subseteq s .. s + SB_ADMIN + a.sb[s] - 1
    BY <1>0, <2>1, <2>2, <2>4, <2>5
  <2>8. p \in s .. s + SB_ADMIN + a.sb[s] - 1
    BY <1>0, <2>1, <2>2, <2>4, <2>5
  <2> QED
    BY <2>1, <2>4, <2>6, <2>7, <2>8
<1> QED
  BY <1>4, <1>5

(* The loop of add_to_freed_queue stops within the queue, the volume in bounds. *)
LEMMA Discards ==
  ASSUME NEW q, IsQueue(q), clo_freelist_vol \in Nat, NEW k, k = discards(q, volume(q))
  PROVE  k \in 0 .. Len(q) /\ volume(q) - volume(SubSeq(q, 1, k)) <= clo_freelist_vol
PROOF
<1> DEFINE K == {j \in 0 .. Len(q) : volume(q) - volume(SubSeq(q, 1, j)) <= clo_freelist_vol}
<1>0. Len(q) \in Nat /\ q \in Seq(Range(q)) /\ Len(q) \in 0 .. Len(q)
  BY DEF IsQueue
<1>1. Len(q) \in K
  <2>1. SubSeq(q, Len(q) + 1, Len(q)) = << >>
    BY <1>0
  <2>2. volume(q) - volume(SubSeq(q, 1, Len(q))) = volume(SubSeq(q, Len(q) + 1, Len(q))) /\ IsQueue(SubSeq(q, Len(q) + 1, Len(q)))
    BY <1>0, VolumeParts
  <2>3. IsQueue(<< >>) /\ volume(<< >>) = Vol(<< >>, 0) /\ Vol(<< >>, 0) = 0
    <3>1. IsQueue(<< >>) /\ Len(<< >>) = 0
      BY <2>1, <2>2
    <3>2. volume(<< >>) = Vol(<< >>, Len(<< >>)) /\ Vol(<< >>, 0) = 0
      BY <3>1, VolumeIs, VolTake
    <3> QED
      BY <3>1, <3>2
  <2>4. volume(q) - volume(SubSeq(q, 1, Len(q))) = volume(<< >>)
    BY <2>1, <2>2
  <2>5. volume(q) - volume(SubSeq(q, 1, Len(q))) = 0
    BY <2>3, <2>4
  <2>6. volume(q) - volume(SubSeq(q, 1, Len(q))) <= clo_freelist_vol
    BY <2>5
  <2> QED
    BY <1>0, <2>6
<1>2. K \in SUBSET Nat
  BY <1>0
<1>3. k = Min(K)
  BY DEF discards
<1>4. k \in K
  <2> HIDE DEF K
  <2> QED
    BY <1>1, <1>2, <1>3, MinNat
<1> QED
  BY <1>4

-----------------------------------------------------------------------------
(* The chunks of Memcheck. *)

Live(ml) == {p \in DOMAIN ml : ml[p].allockind # "Custom"}
Data(fl) == {fl[i].data : i \in DOMAIN fl}

(* A live chunk is a block that is held, or lies where the client's own    *)
(* allocator has its blocks.                                               *)
Chunks(ml, h) ==
  \A p \in DOMAIN ml :
    /\ p \in Nat /\ ml[p].data = p /\ ml[p].szB \in Nat
    /\ ml[p].allockind = "Custom" => p \in CustomAddrs /\ ml[p].szB = CustomSzB
    /\ ml[p].allockind # "Custom" => p \in DOMAIN h /\ h[p].szB = ml[p].szB

(* A queued chunk is a block that is held, and not live. *)
Queue(fl, h, ml) ==
  /\ IsQueue(fl)
  /\ \A i \in DOMAIN fl :
       fl[i].data \in DOMAIN h /\ fl[i].szB = h[fl[i].data].szB /\ fl[i].data \notin Live(ml)
  /\ \A i, j \in DOMAIN fl : i # j => fl[i].data # fl[j].data

Owned(h, ml, fl) == Chunks(ml, h) /\ Queue(fl, h, ml) /\ DOMAIN h \subseteq Live(ml) \cup Data(fl)

(* Chunks lie apart, redzones included. *)
Spaced(ml) == \A p, q \in DOMAIN ml : p < q => p + ml[p].szB + RZ <= q

LEMMA ChunksSpaced ==
  ASSUME NEW a, ArenaInv(a), NEW h, Holds(UseOf(a.blk), h), NEW ml, Chunks(ml, h)
  PROVE  Spaced(ml)
PROOF
<1>0. overhead_szB \in Nat /\ overhead_szB >= RZ /\ RZ \in Nat /\ CustomSzB \in Nat
  BY Overhead, SizesAssumption, CustomAssumption
<1>1. SUFFICES ASSUME NEW p \in DOMAIN ml, NEW q \in DOMAIN ml, p < q PROVE p + ml[p].szB + RZ <= q
  BY DEF Spaced
<1>2. p \in Nat /\ q \in Nat /\ ml[p].szB \in Nat /\ ml[q].szB \in Nat
  BY DEF Chunks
<1>3. CASE ml[p].allockind # "Custom" /\ ml[q].allockind # "Custom"
  <2>1. p \in DOMAIN h /\ q \in DOMAIN h /\ h[p].szB = ml[p].szB
    BY <1>3 DEF Chunks
  <2>2. p + h[p].szB + overhead_szB <= q
    BY <1>1, <2>1, HoldsRoom
  <2> QED
    BY <1>0, <1>2, <2>1, <2>2
<1>4. CASE ml[p].allockind = "Custom" /\ ml[q].allockind = "Custom"
  <2>1. p \in CustomAddrs /\ q \in CustomAddrs /\ ml[p].szB = CustomSzB
    BY <1>4 DEF Chunks
  <2> QED
    BY <1>1, <2>1, CustomAssumption
<1>5. CASE ml[p].allockind = "Custom" /\ ml[q].allockind # "Custom"
  <2>1. p \in CustomAddrs /\ ml[p].szB = CustomSzB /\ q \in DOMAIN h
    BY <1>5 DEF Chunks
  <2>2. q \in Space
    BY <2>1, HoldsRoom
  <2>3. q \notin bytes(p - RZ, CustomSzB + 2 * RZ)
    BY <2>1, <2>2, CustomAssumption
  <2>4. ~ (q \in p - RZ .. (p - RZ) + (CustomSzB + 2 * RZ) - 1)
    BY <2>3 DEF bytes
  <2> QED
    BY <1>0, <1>1, <1>2, <2>1, <2>4
<1>6. CASE ml[p].allockind # "Custom" /\ ml[q].allockind = "Custom"
  <2>1. q \in CustomAddrs /\ p \in DOMAIN h /\ h[p].szB = ml[p].szB
    BY <1>6 DEF Chunks
  <2>2. p - RZ .. p + h[p].szB + RZ - 1 \subseteq Space
    BY <2>1, HoldsRoom
  <2>3. q \notin Space
    BY <2>1, CustomAssumption
  <2>4. q \notin p - RZ .. p + h[p].szB + RZ - 1
    BY <2>2, <2>3
  <2> QED
    BY <1>0, <1>1, <1>2, <2>1, <2>4
<1> QED
  BY <1>3, <1>4, <1>5, <1>6

(* A new block gets a chunk. *)
Mallocd(p, n) == chunk(p, n, "Malloc")
Extra(ml, m, p, n) ==
  /\ p \notin DOMAIN ml /\ DOMAIN m = DOMAIN ml \cup {p}
  /\ m[p] = chunk(p, n, "Malloc") /\ \A q \in DOMAIN ml : m[q] = ml[q]

LEMMA OwnedNew ==
  ASSUME NEW h, NEW ml, NEW fl, Owned(h, ml, fl), NEW p, p \in Nat, p \notin DOMAIN h, p \notin CustomAddrs,
         NEW n, n \in Nat, NEW al
  PROVE  /\ Owned(lend(h, p, n, al), HT_add_node(ml, Mallocd(p, n)), fl)
         /\ Extra(ml, HT_add_node(ml, Mallocd(p, n)), p, n)
PROOF
<1> DEFINE m == HT_add_node(ml, Mallocd(p, n))
           g == lend(h, p, n, al)
<1>1. p \notin DOMAIN ml
  BY DEF Owned, Chunks
<1>2. /\ DOMAIN m = DOMAIN ml \cup {p} /\ m[p] = chunk(p, n, "Malloc")
      /\ m[p].data = p /\ m[p].szB = n /\ m[p].allockind = "Malloc" /\ \A q \in DOMAIN ml : m[q] = ml[q]
  BY <1>1 DEF HT_add_node, chunk, Mallocd
<1>3. DOMAIN g = DOMAIN h \cup {p} /\ g[p].szB = n /\ \A q \in DOMAIN h : g[q] = h[q]
  BY DEF lend
<1> HIDE DEF m, g
<1>4. Chunks(m, g)
  BY <1>2, <1>3 DEF Owned, Chunks
<1>5. Live(m) = Live(ml) \cup {p}
  BY <1>2 DEF Live
<1>6. Queue(fl, g, m)
  BY <1>3, <1>5 DEF Owned, Queue
<1>7. DOMAIN g \subseteq Live(m) \cup Data(fl)
  BY <1>3, <1>5 DEF Owned
<1>8. Owned(g, m, fl) /\ Extra(ml, m, p, n)
  BY <1>1, <1>2, <1>4, <1>6, <1>7 DEF Owned, Extra
<1> QED
  BY <1>8 DEF m, g

(* A block of the client's own allocator gets a chunk. *)
LEMMA OwnedCustom ==
  ASSUME NEW h, NEW ml, NEW fl, Owned(h, ml, fl), NEW p \in CustomAddrs, p \notin DOMAIN ml,
         NEW m, m = HT_add_node(ml, chunk(p, CustomSzB, "Custom"))
  PROVE  /\ Owned(h, m, fl)
         /\ DOMAIN m = DOMAIN ml \cup {p} /\ m[p] = chunk(p, CustomSzB, "Custom") /\ \A q \in DOMAIN ml : m[q] = ml[q]
PROOF
<1>2. /\ DOMAIN m = DOMAIN ml \cup {p} /\ m[p] = chunk(p, CustomSzB, "Custom")
      /\ m[p].data = p /\ m[p].szB = CustomSzB /\ m[p].allockind = "Custom" /\ \A q \in DOMAIN ml : m[q] = ml[q]
  BY DEF HT_add_node, chunk
<1>3. p \in Nat /\ CustomSzB \in Nat
  BY CustomAssumption
<1>4. Chunks(m, h)
  BY <1>2, <1>3 DEF Owned, Chunks
<1>5. Live(m) = Live(ml)
  BY <1>2 DEF Live
<1> QED
  BY <1>2, <1>4, <1>5 DEF Owned, Queue

Longer(fl, mc) == Append(fl, mc)
Oldest(q, k)   == SubSeq(q, 1, k)
Newest(q, k)   == SubSeq(q, k + 1, Len(q))

(* A live chunk joins the queue. *)
LEMMA QueueJoin ==
  ASSUME NEW h, NEW ml, NEW fl, Owned(h, ml, fl), NEW p \in DOMAIN ml, ml[p].allockind # "Custom",
         NEW q, q = Longer(fl, ml[p]), NEW m, m = HT_remove(ml, p)
  PROVE  Owned(h, m, q) /\ volume(q) = volume(fl) + ml[p].szB
PROOF
<1> DEFINE mc == ml[p]
<1>1. IsQueue(fl) /\ fl \in Seq(Range(fl)) /\ Len(fl) \in Nat /\ DOMAIN fl = 1 .. Len(fl)
  BY DEF Owned, Queue, IsQueue
<1>2. mc.data = p /\ mc.szB \in Nat /\ p \in DOMAIN h /\ h[p].szB = mc.szB /\ p \in Live(ml)
  BY DEF Owned, Chunks, Live
<1> HIDE DEF mc
<1>3. IsQueue(q) /\ volume(q) = volume(fl) + mc.szB
  BY <1>1, <1>2, VolumeAppend DEF mc, Longer
<1>4. /\ DOMAIN q = 1 .. Len(fl) + 1 /\ q[Len(fl) + 1] = mc /\ \A i \in DOMAIN fl : q[i] = fl[i]
      /\ \A i \in DOMAIN q : i \in DOMAIN fl \/ i = Len(fl) + 1
      /\ Len(fl) + 1 \notin DOMAIN fl
  <2>1. q = Append(fl, mc)
    BY DEF mc, Longer
  <2> QED
    BY <1>1, <2>1
<1>5. DOMAIN m = DOMAIN ml \ {p} /\ \A c \in DOMAIN m : m[c] = ml[c]
  BY DEF HT_remove
<1>6. Live(m) = Live(ml) \ {p}
  BY <1>5 DEF Live
<1>7. Chunks(m, h)
  BY <1>5 DEF Owned, Chunks
<1>8. /\ \A i \in DOMAIN fl : fl[i].data \in DOMAIN h /\ fl[i].szB = h[fl[i].data].szB /\ fl[i].data \notin Live(ml)
      /\ \A i, j \in DOMAIN fl : i # j => fl[i].data # fl[j].data
  BY DEF Owned, Queue
<1>9. ASSUME NEW i \in DOMAIN q
      PROVE  q[i].data \in DOMAIN h /\ q[i].szB = h[q[i].data].szB /\ q[i].data \notin Live(m)
  <2>1. CASE i \in DOMAIN fl
    BY <1>4, <1>6, <1>8, <2>1
  <2>2. CASE i = Len(fl) + 1
    BY <1>2, <1>4, <1>6, <2>2
  <2> QED
    BY <1>4, <2>1, <2>2
<1>10. ASSUME NEW i \in DOMAIN q, NEW j \in DOMAIN q, i # j PROVE q[i].data # q[j].data
  <2>1. CASE i \in DOMAIN fl /\ j \in DOMAIN fl
    BY <1>4, <1>8, <1>10, <2>1
  <2>2. CASE i \in DOMAIN fl /\ j = Len(fl) + 1
    BY <1>2, <1>4, <1>8, <2>2
  <2>3. CASE i = Len(fl) + 1 /\ j \in DOMAIN fl
    BY <1>2, <1>4, <1>8, <2>3
  <2> QED
    BY <1>4, <1>10, <2>1, <2>2, <2>3
<1>11. Queue(q, h, m)
  BY <1>3, <1>9, <1>10 DEF Queue
<1>12. DOMAIN h \subseteq Live(m) \cup Data(q)
  <2>1. p \in Data(q)
    BY <1>2, <1>4 DEF Data
  <2>2. Data(fl) \subseteq Data(q)
    BY <1>4 DEF Data
  <2> QED
    BY <1>6, <2>1, <2>2 DEF Owned
<1> QED
  BY <1>3, <1>7, <1>11, <1>12 DEF Owned, mc

(* The oldest chunks leave the queue, and their blocks are given back. *)
LEMMA QueueCut ==
  ASSUME NEW h, NEW m, NEW q, Owned(h, m, q), NEW k \in 0 .. Len(q),
         NEW old, old = Oldest(q, k), NEW rest, rest = Newest(q, k), NEW g, g = take_back(h, Data(old))
  PROVE  /\ Owned(g, m, rest) /\ IsQueue(old) /\ Data(old) \subseteq DOMAIN h
         /\ volume(rest) = volume(q) - volume(old)
         /\ \A i, j \in DOMAIN old : i # j => old[i].data # old[j].data
PROOF
<1>1. IsQueue(q) /\ q \in Seq(Range(q)) /\ Len(q) \in Nat /\ DOMAIN q = 1 .. Len(q)
  BY DEF Owned, Queue, IsQueue
<1>2. IsQueue(old) /\ IsQueue(rest) /\ volume(rest) = volume(q) - volume(old)
  BY <1>1, VolumeParts DEF Oldest, Newest
<1>3. DOMAIN old = 1 .. k /\ \A i \in DOMAIN old : old[i] = q[i]
  BY <1>1 DEF Oldest
<1>4. DOMAIN rest = 1 .. (Len(q) - k) /\ \A i \in DOMAIN rest : rest[i] = q[k + i] /\ k + i \in DOMAIN q
  BY <1>1 DEF Newest
<1>5. /\ \A i \in DOMAIN q : q[i].data \in DOMAIN h /\ q[i].szB = h[q[i].data].szB /\ q[i].data \notin Live(m)
      /\ \A i, j \in DOMAIN q : i # j => q[i].data # q[j].data
  BY DEF Owned, Queue
<1>6. DOMAIN g = DOMAIN h \ Data(old) /\ \A p \in DOMAIN g : g[p] = h[p]
  BY DEF take_back
<1>7. DOMAIN old \subseteq DOMAIN q
  BY <1>1, <1>3
<1>8. Data(old) \subseteq DOMAIN h /\ Data(old) \cap Live(m) = {}
  BY <1>3, <1>5, <1>7 DEF Data
<1>9. ASSUME NEW i \in DOMAIN rest PROVE rest[i].data \notin Data(old)
  <2>1. \A j \in DOMAIN old : j # k + i
    BY <1>1, <1>3, <1>4
  <2> QED
    BY <1>3, <1>4, <1>5, <1>7, <2>1 DEF Data
<1>10. ASSUME NEW i \in DOMAIN rest
       PROVE  rest[i].data \in DOMAIN g /\ rest[i].szB = g[rest[i].data].szB /\ rest[i].data \notin Live(m)
  <2>1. rest[i].data \in DOMAIN h /\ rest[i].szB = h[rest[i].data].szB /\ rest[i].data \notin Live(m)
    BY <1>4, <1>5
  <2> QED
    BY <1>6, <1>9, <2>1
<1>11. ASSUME NEW i \in DOMAIN rest, NEW j \in DOMAIN rest, i # j PROVE rest[i].data # rest[j].data
  <2>1. k + i # k + j
    BY <1>4, <1>11
  <2> QED
    BY <1>4, <1>5, <2>1
<1>12. Queue(rest, g, m)
  BY <1>2, <1>10, <1>11 DEF Queue
<1>13. Chunks(m, g)
  <2>1. \A p \in DOMAIN m : m[p].allockind # "Custom" => p \in Live(m)
    BY DEF Live
  <2> QED
    BY <1>6, <1>8, <2>1 DEF Owned, Chunks
<1>14. DOMAIN g \subseteq Live(m) \cup Data(rest)
  <2>1. ASSUME NEW i \in DOMAIN q, q[i].data \notin Data(old) PROVE q[i].data \in Data(rest)
    <3>1. i \notin DOMAIN old
      BY <1>3, <2>1 DEF Data
    <3>2. i - k \in DOMAIN rest /\ k + (i - k) = i
      BY <1>1, <1>3, <1>4, <3>1
    <3>3. rest[i - k] = q[i]
      BY <1>4, <3>2
    <3> QED
      BY <3>2, <3>3 DEF Data
  <2>2. ASSUME NEW p \in DOMAIN g PROVE p \in Live(m) \cup Data(rest)
    <3>1. p \in DOMAIN h /\ p \notin Data(old)
      BY <1>6
    <3>2. p \in Live(m) \/ \E i \in DOMAIN q : p = q[i].data
      BY <3>1 DEF Owned, Data
    <3> QED
      BY <2>1, <3>1, <3>2
  <2> QED
    BY <2>2
<1>15. \A i, j \in DOMAIN old : i # j => old[i].data # old[j].data
  BY <1>3, <1>5, <1>7
<1> QED
  BY <1>2, <1>8, <1>12, <1>13, <1>14, <1>15 DEF Owned

(* A chunk of the client's own allocator goes. *)
LEMMA OwnedCustomGone ==
  ASSUME NEW h, NEW ml, NEW fl, Owned(h, ml, fl), NEW p \in DOMAIN ml, ml[p].allockind = "Custom",
         NEW m, m = HT_remove(ml, p)
  PROVE  Owned(h, m, fl)
PROOF
<1>1. DOMAIN m = DOMAIN ml \ {p} /\ \A c \in DOMAIN m : m[c] = ml[c]
  BY DEF HT_remove
<1>2. Live(m) = Live(ml)
  BY <1>1 DEF Live
<1>3. Chunks(m, h)
  BY <1>1 DEF Owned, Chunks
<1> QED
  BY <1>2, <1>3 DEF Owned, Queue

(* The blocks of a queue, as addresses of blocks and of payloads. *)
LEMMA SameBlocks ==
  ASSUME NEW q, IsQueue(q), \A i \in DOMAIN q : q[i].data \in Nat, NEW b \in Nat
  PROVE  b \in BlocksOf(q, Len(q)) <=> b + overhead_szB_lo \in Data(q)
PROOF
<1>0. overhead_szB_lo \in Nat /\ DOMAIN q = 1 .. Len(q)
  BY Overhead DEF IsQueue
<1>1. ASSUME NEW i \in DOMAIN q PROVE b = q[i].data - overhead_szB_lo <=> b + overhead_szB_lo = q[i].data
  <2>1. q[i].data \in Nat
    OBVIOUS
  <2> QED
    BY <1>0, <2>1
<1>2. b \in BlocksOf(q, Len(q)) <=> \E i \in DOMAIN q : b = q[i].data - overhead_szB_lo
  BY <1>0 DEF BlocksOf
<1>3. b + overhead_szB_lo \in Data(q) <=> \E i \in DOMAIN q : b + overhead_szB_lo = q[i].data
  BY DEF Data
<1> QED
  BY <1>1, <1>2, <1>3

(* The volume is that of the chunks, and within its limit. *)
Within(fl, vol) == vol = volume(fl) /\ vol <= clo_freelist_vol

(* What callers hold after some blocks were taken back. *)
Kept(h, g, S) == g = h \/ g = take_back(h, S)

(* What is true of the heap once a chunk has died: die_and_free_mem. *)
Died(a, h, m) ==
  /\ ArenaInv(arena') /\ SameSuper(a, arena') /\ Holds(UseOf(arena'.blk), handed')
  /\ Owned(handed', m, freed_list') /\ Within(freed_list', free_queue_volume')

LEMMA Die ==
  ASSUME NEW a, ArenaInv(a), NEW h, Holds(UseOf(a.blk), h), NEW ml, Owned(h, ml, freed_list),
         NEW p \in DOMAIN ml, clo_freelist_vol \in Nat, Within(freed_list, free_queue_volume),
         die_and_free_mem(a, h, ml[p]), NEW m, m = HT_remove(ml, p)
  PROVE  Died(a, h, m) /\ \E S \in SUBSET (Data(freed_list) \cup {p}) : Kept(h, handed', S)
PROOF
<1>1. CASE ml[p].allockind = "Custom"
  <2>1. arena' = a /\ handed' = h /\ freed_list' = freed_list /\ free_queue_volume' = free_queue_volume
    BY <1>1 DEF die_and_free_mem
  <2>2. Owned(h, m, freed_list)
    BY <1>1, OwnedCustomGone
  <2>3. SameSuper(a, a)
    BY DEF SameSuper
  <2>4. Kept(h, handed', {}) /\ {} \in SUBSET (Data(freed_list) \cup {p})
    BY <2>1 DEF Kept
  <2> QED
    BY <2>1, <2>2, <2>3, <2>4 DEF Died
<1>2. CASE ml[p].allockind # "Custom"
  <2> DEFINE mc   == ml[p]
             q    == Append(freed_list, mc)
             vol  == IF freed_list = << >> THEN mc.szB ELSE free_queue_volume + mc.szB
             k    == discards(q, vol)
             old  == SubSeq(q, 1, k)
             rest == SubSeq(q, k + 1, Len(q))
             U    == UseOf(a.blk)
  <2>1. /\ freed_list' = rest /\ free_queue_volume' = vol - volume(old)
        /\ arena' = FoldLeft(LAMBDA x, c : arena_free(x, c.data), a, old)
        /\ handed' = take_back(h, Data(old))
    BY <1>2 DEF die_and_free_mem, add_to_freed_queue, Data
  <2>2. Owned(h, m, q) /\ volume(q) = volume(freed_list) + mc.szB
    <3>1. q = Longer(freed_list, ml[p])
      BY DEF Longer
    <3> HIDE DEF q
    <3> QED
      BY <1>2, <3>1, QueueJoin
  <2>3. IsQueue(q) /\ IsQueue(freed_list) /\ mc.szB \in Nat /\ mc.data = p
    BY <2>2 DEF Owned, Queue, Chunks
  <2>4. vol = volume(q)
    <3>1. CASE freed_list = << >>
      <4>1. volume(freed_list) = Vol(freed_list, Len(freed_list)) /\ Vol(freed_list, 0) = 0
        BY <2>3, VolumeIs, VolTake
      <4>2. Len(freed_list) = 0
        BY <3>1
      <4>3. volume(freed_list) = 0
        BY <4>1, <4>2
      <4> QED
        BY <2>2, <2>3, <3>1, <4>3
    <3>2. CASE freed_list # << >>
      BY <2>2, <3>2 DEF Within
    <3> QED
      BY <3>1, <3>2
  <2> HIDE DEF vol
  <2>5. k \in 0 .. Len(q) /\ volume(q) - volume(SubSeq(q, 1, k)) <= clo_freelist_vol
    BY <2>3, <2>4, Discards
  <2> HIDE DEF k
  <2> HIDE DEF q
  <2>6. /\ Owned(handed', m, rest) /\ IsQueue(old) /\ Data(old) \subseteq DOMAIN h
        /\ volume(rest) = volume(q) - volume(old)
        /\ \A i, j \in DOMAIN old : i # j => old[i].data # old[j].data
    <3>1. old = Oldest(q, k) /\ rest = Newest(q, k)
      BY DEF Oldest, Newest
    <3> HIDE DEF old, rest
    <3>2. handed' = take_back(h, Data(old))
      BY <2>1
    <3>3. k \in 0 .. Len(q) /\ Owned(h, m, q)
      BY <2>2, <2>5
    <3> QED
      BY <3>1, <3>2, <3>3, QueueCut
  <2>7. Data(old) \subseteq Data(freed_list) \cup {p}
    <3>1. freed_list \in Seq(Range(freed_list)) /\ q \in Seq(Range(q))
      BY <2>3 DEF IsQueue
    <3>2. DOMAIN old \subseteq DOMAIN q /\ \A i \in DOMAIN old : old[i] = q[i]
      BY <2>5, <3>1
    <3>3. \A i \in DOMAIN q : (i \in DOMAIN freed_list /\ q[i] = freed_list[i]) \/ q[i] = mc
      BY <3>1 DEF q
    <3> HIDE DEF old, mc
    <3> QED
      BY <2>3, <3>2, <3>3 DEF Data
  <2> HIDE DEF old, rest
  <2>8. Within(freed_list', free_queue_volume')
    BY <2>1, <2>4, <2>5, <2>6 DEF Within, old
  <2>9. arena' = FreeAll(a, old)
    BY <2>1, FreeAllFold
  <2>10. Typed(a.blk) /\ DOMAIN U \subseteq Nat
    BY DEF ArenaInv, Sane, Tiled, Typed, UseOf
  <2> HIDE DEF U
  <2>11. \A i \in DOMAIN old : old[i].data \in Nat /\ old[i].data - overhead_szB_lo \in DOMAIN U
    <3>1. \A i \in DOMAIN old : old[i].data \in DOMAIN h
      BY <2>6 DEF Data
    <3> QED
      BY <3>1 DEF Holds, U
  <2>12. ArenaInv(arena') /\ SameSuper(a, arena') /\ UseOf(arena'.blk) = Except(U, BlocksOf(old, Len(old)))
    <3>1. old \in Seq(Range(old))
      BY <2>6 DEF IsQueue
    <3> QED
      BY <2>6, <2>9, <2>11, <3>1, AllFreed DEF U
  <2>13. \A b \in DOMAIN U : b \in BlocksOf(old, Len(old)) <=> b + overhead_szB_lo \in Data(old)
    BY <2>6, <2>10, <2>11, SameBlocks
  <2>14. Holds(Except(U, BlocksOf(old, Len(old))), take_back(h, Data(old)))
    <3>1. Holds(U, h)
      BY DEF U
    <3> QED
      BY <2>10, <2>13, <3>1, HoldsTake
  <2>15. Holds(UseOf(arena'.blk), handed')
    BY <2>1, <2>12, <2>14
  <2>16. Kept(h, handed', Data(old))
    BY <2>1 DEF Kept
  <2> QED
    BY <2>1, <2>6, <2>7, <2>8, <2>12, <2>15, <2>16 DEF Died
<1> QED
  BY <1>1, <1>2

-----------------------------------------------------------------------------
(* The shadow of the chunks: the first L[p] bytes of each. *)

Bytes(L) == UNION {bytes(p, L[p]) : p \in DOMAIN L}
SzB(ml)  == [p \in DOMAIN ml |-> ml[p].szB]

(* Part of every chunk of m. *)
PartOf(L, m) ==
  DOMAIN L = DOMAIN m /\ \A p \in DOMAIN m : p \in Nat /\ m[p].szB \in Nat /\ L[p] \in 0 .. m[p].szB

LEMMA InBytes ==
  ASSUME NEW L, NEW x
  PROVE  x \in Bytes(L) <=> \E p \in DOMAIN L : x \in p .. p + L[p] - 1
BY DEF Bytes, bytes

LEMMA SameBytes ==
  ASSUME NEW L, NEW M, DOMAIN L = DOMAIN M, \A p \in DOMAIN M : L[p] = M[p]
  PROVE  Bytes(L) = Bytes(M)
BY DEF Bytes

(* What is dead of a chunk is none of the others', and all of its own. *)
LEMMA OnlyDead ==
  ASSUME NEW m, NEW L, PartOf(L, m), Spaced(m), NEW p \in DOMAIN m, NEW q \in DOMAIN m, NEW x \in q .. q + L[q] - 1
  PROVE  x \in p - RZ .. p + m[p].szB + RZ - 1 <=> q = p
PROOF
<1>0. RZ \in Nat
  BY SizesAssumption
<1>1. p \in Nat /\ q \in Nat /\ m[p].szB \in Nat /\ m[q].szB \in Nat /\ L[q] \in 0 .. m[q].szB
  BY DEF PartOf
<1>2. CASE q = p
  BY <1>0, <1>1, <1>2
<1>3. CASE q < p
  <2>1. q + m[q].szB + RZ <= p
    BY <1>3 DEF Spaced
  <2> QED
    BY <1>0, <1>1, <1>3, <2>1
<1>4. CASE p < q
  <2>1. p + m[p].szB + RZ <= q
    BY <1>4 DEF Spaced
  <2> QED
    BY <1>0, <1>1, <1>4, <2>1
<1> QED
  BY <1>1, <1>2, <1>3, <1>4

LEMMA DeadBytes ==
  ASSUME NEW mc, mc.data \in Nat, mc.szB \in Nat
  PROVE  dead_bytes(mc, MC_MALLOC_REDZONE_SZB) = mc.data - RZ .. mc.data + mc.szB + RZ - 1
PROOF
<1>0. RZ \in Nat
  BY SizesAssumption
<1>1. (mc.data - RZ) + (mc.szB + 2 * RZ) - 1 = mc.data + mc.szB + RZ - 1
  BY <1>0
<1> QED
  BY <1>1 DEF dead_bytes, bytes, MC_MALLOC_REDZONE_SZB

(* A chunk dies. *)
LEMMA ShadowDies ==
  ASSUME NEW m, NEW L, PartOf(L, m), Spaced(m), NEW p \in DOMAIN m, m[p].data = p
  PROVE  /\ Bytes(L) \ dead_bytes(m[p], MC_MALLOC_REDZONE_SZB) = Bytes(Without(L, p))
         /\ PartOf(Without(L, p), HT_remove(m, p))
PROOF
<1> DEFINE W == Without(L, p)
           R == HT_remove(m, p)
<1>1. DOMAIN W = DOMAIN L \ {p} /\ \A q \in DOMAIN W : W[q] = L[q]
  BY DEF Without
<1>2. DOMAIN R = DOMAIN m \ {p} /\ \A q \in DOMAIN R : R[q] = m[q]
  BY DEF HT_remove
<1> HIDE DEF W, R
<1>3. p \in Nat /\ m[p].szB \in Nat /\ DOMAIN L = DOMAIN m
  BY DEF PartOf
<1>4. dead_bytes(m[p], MC_MALLOC_REDZONE_SZB) = p - RZ .. p + m[p].szB + RZ - 1
  BY <1>3, DeadBytes
<1>5. ASSUME NEW x PROVE x \in Bytes(L) /\ x \notin p - RZ .. p + m[p].szB + RZ - 1 <=> x \in Bytes(W)
  <2>1. ASSUME x \in Bytes(L), x \notin p - RZ .. p + m[p].szB + RZ - 1 PROVE x \in Bytes(W)
    <3>1. PICK q \in DOMAIN L : x \in q .. q + L[q] - 1
      BY <2>1, InBytes
    <3>2. q # p
      BY <1>3, <2>1, <3>1, OnlyDead
    <3> QED
      BY <1>1, <3>1, <3>2, InBytes
  <2>2. ASSUME x \in Bytes(W) PROVE x \in Bytes(L) /\ x \notin p - RZ .. p + m[p].szB + RZ - 1
    <3>1. PICK q \in DOMAIN W : x \in q .. q + W[q] - 1
      BY <2>2, InBytes
    <3>2. q \in DOMAIN L /\ q # p /\ x \in q .. q + L[q] - 1
      BY <1>1, <3>1
    <3> QED
      BY <1>3, <3>2, OnlyDead, InBytes
  <2> QED
    BY <2>1, <2>2
<1>6. PartOf(W, R)
  BY <1>1, <1>2 DEF PartOf
<1>7. Bytes(L) \ (p - RZ .. p + m[p].szB + RZ - 1) = Bytes(W)
  BY <1>5
<1> QED
  BY <1>4, <1>6, <1>7 DEF W, R

(* A chunk p is new in m, where it lies apart. *)
LEMMA ShadowNew ==
  ASSUME NEW ml, NEW L, PartOf(L, ml), NEW p \in Nat, p \notin DOMAIN ml, NEW m, Spaced(m),
         DOMAIN m = DOMAIN ml \cup {p}, \A q \in DOMAIN ml : m[q] = ml[q], m[p].szB \in Nat, m[p].data = p, NEW z \in 0 .. m[p].szB
  PROVE  /\ Bytes(With(L, p, z)) = Bytes(L) \cup bytes(p, z)
         /\ PartOf(With(L, p, z), m)
         /\ Bytes(L) \ bytes(p, m[p].szB) = Bytes(L)
         /\ Bytes(L) \ dead_bytes(m[p], MC_MALLOC_REDZONE_SZB) = Bytes(L)
PROOF
<1> DEFINE W == With(L, p, z)
<1>0. DOMAIN L = DOMAIN ml /\ RZ \in Nat
  BY SizesAssumption DEF PartOf
<1>1. DOMAIN W = DOMAIN L \cup {p} /\ W[p] = z /\ \A q \in DOMAIN L : W[q] = L[q]
  BY <1>0 DEF With
<1> HIDE DEF W
<1>2. PartOf(W, m)
  BY <1>0, <1>1 DEF PartOf
<1>3. ASSUME NEW x PROVE x \in Bytes(W) <=> x \in Bytes(L) \/ x \in p .. p + z - 1
  <2>1. x \in Bytes(W) <=> \E q \in DOMAIN W : x \in q .. q + W[q] - 1
    BY InBytes
  <2>2. x \in Bytes(L) <=> \E q \in DOMAIN L : x \in q .. q + L[q] - 1
    BY InBytes
  <2> QED
    BY <1>1, <2>1, <2>2
<1>4. Bytes(W) = Bytes(L) \cup bytes(p, z)
  BY <1>3 DEF bytes
<1>5. ASSUME NEW x \in Bytes(L) PROVE x \notin p - RZ .. p + m[p].szB + RZ - 1
  <2>1. PICK q \in DOMAIN L : x \in q .. q + L[q] - 1
    BY InBytes
  <2>2. q \in DOMAIN m /\ q # p /\ p \in DOMAIN m /\ x \in q .. q + W[q] - 1
    BY <1>0, <1>1, <2>1
  <2> QED
    BY <1>2, <2>2, OnlyDead
<1>6. bytes(p, m[p].szB) \subseteq p - RZ .. p + m[p].szB + RZ - 1
  BY <1>0 DEF bytes
<1>7. dead_bytes(m[p], MC_MALLOC_REDZONE_SZB) = p - RZ .. p + m[p].szB + RZ - 1
  BY DeadBytes
<1> QED
  BY <1>2, <1>4, <1>5, <1>6, <1>7 DEF W

(* The lesser of two. *)
LEMMA Lesser ==
  ASSUME NEW x \in Nat, NEW y \in Nat, NEW z, z = Min({x, y})
  PROVE  z \in Nat /\ z <= x /\ z <= y /\ (z = x \/ z = y)
PROOF
<1>1. {x, y} \in SUBSET Nat /\ {x, y} # {}
  OBVIOUS
<1>2. Min({x, y}) \in {x, y} /\ \A w \in {x, y} : Min({x, y}) <= w
  BY <1>1, MinNat
<1> QED
  BY <1>2

(* Of the first k bytes at p, those in the shadow, once copied to q. *)
Copy(set, p, q, k) == {q + i : i \in {j \in 0 .. k - 1 : p + j \in set}}

LEMMA CopyBytes ==
  ASSUME NEW ml, NEW L, PartOf(L, ml), Spaced(ml), NEW p \in DOMAIN ml, NEW k \in 0 .. ml[p].szB,
         NEW q \in Nat, NEW z, z = Min({L[p], k})
  PROVE  Copy(Bytes(L), p, q, k) = bytes(q, z) /\ z \in 0 .. ml[p].szB /\ z <= k
PROOF
<1>0. RZ \in Nat /\ p \in Nat /\ ml[p].szB \in Nat /\ L[p] \in 0 .. ml[p].szB /\ DOMAIN L = DOMAIN ml /\ k \in Nat /\ L[p] \in Nat
  BY SizesAssumption DEF PartOf
<1>1. z \in Nat /\ z <= L[p] /\ z <= k /\ (z = L[p] \/ z = k)
  BY <1>0, Lesser
<1>2. ASSUME NEW j \in 0 .. k - 1 PROVE p + j \in Bytes(L) <=> j < L[p]
  <2>1. ASSUME p + j \in Bytes(L) PROVE j < L[p]
    <3>1. PICK c \in DOMAIN L : p + j \in c .. c + L[c] - 1
      BY <2>1, InBytes
    <3>2. p + j \in p - RZ .. p + ml[p].szB + RZ - 1
      BY <1>0
    <3>3. c = p
      BY <1>0, <3>1, <3>2, OnlyDead
    <3> QED
      BY <1>0, <3>1, <3>3
  <2>2. ASSUME j < L[p] PROVE p + j \in Bytes(L)
    <3>1. p + j \in p .. p + L[p] - 1 /\ p \in DOMAIN L
      BY <1>0, <2>2
    <3> QED
      BY <3>1, InBytes
  <2> QED
    BY <2>1, <2>2
<1>3. ASSUME NEW x PROVE x \in Copy(Bytes(L), p, q, k) <=> x \in q .. q + z - 1
  <2>1. x \in Copy(Bytes(L), p, q, k) <=> \E j \in 0 .. k - 1 : p + j \in Bytes(L) /\ x = q + j
    BY DEF Copy
  <2>2. x \in Copy(Bytes(L), p, q, k) <=> \E j \in 0 .. k - 1 : j < L[p] /\ x = q + j
    BY <1>2, <2>1
  <2>3. ASSUME NEW j \in 0 .. k - 1, j < L[p], x = q + j PROVE x \in q .. q + z - 1
    BY <1>0, <1>1, <2>3
  <2>4. ASSUME x \in q .. q + z - 1 PROVE x - q \in 0 .. k - 1 /\ x - q < L[p] /\ x = q + (x - q)
    BY <1>0, <1>1, <2>4
  <2> QED
    BY <2>2, <2>3, <2>4
<1>4. Copy(Bytes(L), p, q, k) = bytes(q, z)
  BY <1>3 DEF bytes
<1> QED
  BY <1>0, <1>1, <1>4

CopyAcc(set, p, q, k, n)  == copied(set, p, q, k, n, TRUE)
CopyDefd(set, p, q, k, n) == copied(set, p, q, k, n, FALSE)

(* A chunk moves from p to q: what realloc makes of the shadow. *)
Moving(ml, L, m, p, q, n, k, z) ==
  /\ PartOf(L, ml) /\ q \in Nat /\ n \in Nat /\ Spaced(m) /\ Extra(ml, m, q, n)
  /\ p \in DOMAIN ml /\ ml[p].data = p /\ k = Min({n, ml[p].szB}) /\ z = Min({L[p], k})

LEMMA ShadowMoves ==
  ASSUME NEW ml, NEW L, NEW m, NEW p, NEW q, NEW n, NEW k, NEW z, Moving(ml, L, m, p, q, n, k, z)
  PROVE  /\ CopyDefd(Bytes(L), p, q, k, n) \ dead_bytes(ml[p], MC_MALLOC_REDZONE_SZB) = Bytes(Without(With(L, q, z), p))
         /\ PartOf(Without(With(L, q, z), p), HT_remove(m, p))
         /\ L[p] = ml[p].szB =>
              CopyAcc(Bytes(L), p, q, k, n) \ dead_bytes(ml[p], MC_MALLOC_REDZONE_SZB) = Bytes(Without(With(L, q, n), p))
PROOF
<1> DEFINE V == With(L, q, z)
           W == With(L, q, n)
           dead == dead_bytes(chunk(q, n, "Malloc"), MC_MALLOC_REDZONE_SZB)
<1>y. /\ PartOf(L, ml) /\ q \in Nat /\ n \in Nat /\ Spaced(m) /\ Extra(ml, m, q, n)
      /\ p \in DOMAIN ml /\ ml[p].data = p /\ k = Min({n, ml[p].szB}) /\ z = Min({L[p], k})
  BY DEF Moving
<1> USE <1>y
<1>x. /\ q \notin DOMAIN ml /\ DOMAIN m = DOMAIN ml \cup {q}
      /\ m[q] = chunk(q, n, "Malloc") /\ \A c \in DOMAIN ml : m[c] = ml[c]
  BY DEF Extra
<1>0. /\ p \in Nat /\ ml[p].szB \in Nat /\ L[p] \in 0 .. ml[p].szB /\ L[p] \in Nat /\ p # q
      /\ m[q].szB = n /\ m[q].data = q /\ m[p] = ml[p] /\ p \in DOMAIN m
  BY <1>x DEF PartOf, chunk
<1>1. k \in Nat /\ k <= n /\ k <= ml[p].szB /\ (k = n \/ k = ml[p].szB) /\ k \in 0 .. ml[p].szB
  <2>1. k \in Nat /\ k <= n /\ k <= ml[p].szB /\ (k = n \/ k = ml[p].szB)
    BY <1>0, Lesser
  <2> QED
    BY <1>0, <2>1
<1>2. Spaced(ml)
  BY <1>x DEF Spaced
<1>3. Copy(Bytes(L), p, q, k) = bytes(q, z) /\ z \in 0 .. ml[p].szB /\ z <= k
  BY <1>1, <1>2, CopyBytes
<1>4. z \in 0 .. m[q].szB /\ n \in 0 .. m[q].szB
  BY <1>0, <1>1, <1>3
<1>5. Bytes(V) = Bytes(L) \cup bytes(q, z) /\ PartOf(V, m) /\ Bytes(L) \ dead_bytes(m[q], MC_MALLOC_REDZONE_SZB) = Bytes(L)
  BY <1>x, <1>0, <1>4, ShadowNew
<1>6. Bytes(W) = Bytes(L) \cup bytes(q, n) /\ PartOf(W, m)
  BY <1>x, <1>0, <1>4, ShadowNew
<1>7. CopyDefd(Bytes(L), p, q, k, n) = (Bytes(L) \ dead) \cup Copy(Bytes(L), p, q, k)
  BY DEF CopyDefd, copied, Copy
<1>8. CopyAcc(Bytes(L), p, q, k, n) = (Bytes(L) \ dead) \cup Copy(Bytes(L), p, q, k) \cup bytes(q + k, n - k)
  BY DEF CopyAcc, copied, Copy
<1>9. CopyDefd(Bytes(L), p, q, k, n) = Bytes(V)
  BY <1>x, <1>3, <1>5, <1>7
<1>10. ASSUME L[p] = ml[p].szB PROVE CopyAcc(Bytes(L), p, q, k, n) = Bytes(W)
  <2>1. z = k
    <3>1. z \in Nat /\ z <= L[p] /\ z <= k /\ (z = L[p] \/ z = k)
      BY <1>0, <1>1, Lesser
    <3> QED
      BY <1>0, <1>1, <1>10, <3>1
  <2>2. bytes(q, n) = bytes(q, k) \cup bytes(q + k, n - k)
    BY <1>1 DEF bytes
  <2> QED
    BY <1>x, <1>3, <1>5, <1>6, <1>8, <2>1, <2>2, ZenonT(60)
<1> HIDE DEF V, W
<1>11. /\ Bytes(V) \ dead_bytes(m[p], MC_MALLOC_REDZONE_SZB) = Bytes(Without(V, p)) /\ PartOf(Without(V, p), HT_remove(m, p))
       /\ Bytes(W) \ dead_bytes(m[p], MC_MALLOC_REDZONE_SZB) = Bytes(Without(W, p))
  <2>1. PartOf(V, m) /\ PartOf(W, m) /\ p \in DOMAIN m /\ m[p].data = p
    BY <1>0, <1>5, <1>6
  <2>2. Bytes(V) \ dead_bytes(m[p], MC_MALLOC_REDZONE_SZB) = Bytes(Without(V, p)) /\ PartOf(Without(V, p), HT_remove(m, p))
    BY <2>1, ShadowDies
  <2>3. Bytes(W) \ dead_bytes(m[p], MC_MALLOC_REDZONE_SZB) = Bytes(Without(W, p))
    BY <2>1, ShadowDies
  <2> QED
    BY <2>2, <2>3
<1> QED
  BY <1>0, <1>9, <1>10, <1>11 DEF V, W

(* What the client knows of its chunks, and what it can touch. *)
Shadow(ml, ct, A, D) == PartOf(ct, ml) /\ A = Bytes(SzB(ml)) /\ D = Bytes(ct)

LEMMA ShadowAdds ==
  ASSUME NEW ml, NEW ct, NEW A, NEW D, Shadow(ml, ct, A, D), NEW p \in Nat, p \notin DOMAIN ml, NEW n \in Nat, NEW kind,
         NEW m, Spaced(m), DOMAIN m = DOMAIN ml \cup {p}, \A q \in DOMAIN ml : m[q] = ml[q], m[p] = chunk(p, n, kind),
         NEW z, z = 0 \/ z = n
  PROVE  /\ PartOf(With(ct, p, z), m) /\ A \cup bytes(p, n) = Bytes(SzB(m))
         /\ z = 0 => D \ bytes(p, n) = Bytes(With(ct, p, z))
         /\ z = n => D \cup bytes(p, n) = Bytes(With(ct, p, z))
PROOF
<1>0. m[p].szB = n /\ m[p].data = p /\ n \in 0 .. m[p].szB /\ z \in 0 .. m[p].szB
  BY DEF chunk
<1>1. PartOf(ct, ml) /\ PartOf(SzB(ml), ml) /\ A = Bytes(SzB(ml)) /\ D = Bytes(ct)
  BY DEF Shadow, PartOf, SzB
<1>2. Bytes(With(SzB(ml), p, n)) = A \cup bytes(p, n)
  BY <1>0, <1>1, ShadowNew
<1>3. Bytes(With(SzB(ml), p, n)) = Bytes(SzB(m))
  <2>1. DOMAIN With(SzB(ml), p, n) = DOMAIN SzB(m) /\ \A q \in DOMAIN SzB(m) : With(SzB(ml), p, n)[q] = SzB(m)[q]
    BY <1>0 DEF With, SzB
  <2> QED
    BY <2>1, SameBytes
<1>4. Bytes(With(ct, p, z)) = D \cup bytes(p, z) /\ PartOf(With(ct, p, z), m) /\ D \ bytes(p, m[p].szB) = D
  BY <1>0, <1>1, ShadowNew
<1>5. bytes(p, 0) = {}
  BY DEF bytes
<1> QED
  BY <1>0, <1>2, <1>3, <1>4, <1>5

-----------------------------------------------------------------------------
(* The inductive invariant of the heap. *)

HInv ==
  /\ ArenaInv(arena) /\ Holds(UseOf(arena.blk), handed) /\ arena.clientmem \in BOOLEAN
  /\ clo_freelist_vol \in Nat
  /\ arena.clientmem => Owned(handed, malloc_list, freed_list)
  /\ ~ arena.clientmem => DOMAIN malloc_list = {} /\ freed_list = << >>
  /\ Shadow(malloc_list, content, acc, defd)
  /\ Within(freed_list, free_queue_volume)

(* A block for the request [n, al] is handed out at p, the arena being c then. *)
Lending(c, p, n, al) ==
  /\ ArenaInv(c) /\ Holds(UseOf(c.blk), lend(handed, p, n, al)) /\ p \notin DOMAIN handed
  /\ c.clientmem = arena.clientmem
  /\ GrowsFor(arena, c, p - overhead_szB_lo, needed_bszB([szB |-> n, alignB |-> al]))

Requests == Aligns \cup {VG_MIN_MALLOC_SZB}

LEMMA AnyRequest ==
  ASSUME NEW al \in Requests
  PROVE  al \in Nat \ {0} /\ al % VG_MIN_MALLOC_SZB = 0
PROOF
<1>1. VG_MIN_MALLOC_SZB \in Nat \ {0}
  BY SizesAssumption
<1>2. VG_MIN_MALLOC_SZB % VG_MIN_MALLOC_SZB = 0
  <2>1. (VG_MIN_MALLOC_SZB * 1) % VG_MIN_MALLOC_SZB = 0
    BY <1>1, ModOfMultiple
  <2>2. VG_MIN_MALLOC_SZB * 1 = VG_MIN_MALLOC_SZB
    BY <1>1
  <2> QED
    BY <2>1, <2>2
<1> QED
  BY <1>1, <1>2, AlignsAssumption DEF Requests

(* The new block of an arena is held for a request that it has room for. *)
LEMMA GivenLends ==
  ASSUME HInv, NEW c, NEW b \in Nat, NEW m \in Nat, Given(arena, c, b, m), c.clientmem = arena.clientmem,
         NEW n \in Nat, n + overhead_szB <= m, NEW al \in Nat \ {0}, NEW p, p = b + overhead_szB_lo,
         p % al = 0 \/ al = VG_MIN_MALLOC_SZB,
         GrowsFor(arena, c, b, needed_bszB([szB |-> n, alignB |-> al]))
  PROVE  Lending(c, p, n, al) /\ p > 0
PROOF
<1> DEFINE U == UseOf(arena.blk)
<1>0. /\ overhead_szB_lo \in Nat \ {0} /\ overhead_szB \in Nat /\ overhead_szB_lo % VG_MIN_MALLOC_SZB = 0
      /\ VG_MIN_MALLOC_SZB \in Nat \ {0}
  BY Overhead, SizesAssumption
<1>1. DOMAIN U \subseteq Nat /\ Holds(U, handed)
  BY DEF HInv, ArenaInv, Sane, Tiled, Typed, UseOf
<1> HIDE DEF U
<1>2. ArenaInv(c) /\ b \notin DOMAIN U
  BY DEF Given, U
<1>3. PICK z \in Nat : z >= m /\ UseOf(c.blk) = With(U, b, z)
  BY DEF Given, U
<1>4. n + overhead_szB <= z
  BY <1>0, <1>3
<1>5. b % VG_MIN_MALLOC_SZB = 0
  <2>1. b \in DOMAIN UseOf(c.blk)
    BY <1>3 DEF With
  <2> QED
    BY <1>2, <2>1 DEF ArenaInv, Sane, Tiled, Typed, UseOf
<1>6. p % al = 0
  <2>1. p % VG_MIN_MALLOC_SZB = 0
    BY <1>0, <1>5, ModSum, ZenonT(60)
  <2> QED
    BY <2>1
<1>7. Holds(With(U, b, z), lend(handed, p, n, al)) /\ p \notin DOMAIN handed /\ p \in Nat
  BY <1>1, <1>2, <1>4, <1>6, HoldsLend
<1>8. p - overhead_szB_lo = b /\ p > 0
  BY <1>0
<1> QED
  BY <1>2, <1>3, <1>7, <1>8 DEF Lending

LEMMA CliMalloc ==
  ASSUME HInv, NEW n \in Nat, NEW al \in Requests, NEW r \in cli_malloc(arena, al, n)
  PROVE  \/ r.p \in {NULL, NORETURN} /\ r.a = arena /\ (r.p = NULL => arena.clientmem)
         \/ r.p \notin {NULL, NORETURN} /\ Lending(r.a, r.p, n, al)
PROOF
<1> DEFINE m == pszB_to_bszB(align_req_pszB(n))
<1>0. ArenaInv(arena) /\ overhead_szB \in Nat
  BY Overhead DEF HInv
<1>1. m \in Nat /\ n + overhead_szB <= m
  <2>1. m \in Nat /\ m >= n + overhead_szB
    BY Request
  <2> QED
    BY <1>0, <2>1
<1>2. al \in Nat \ {0} /\ al % VG_MIN_MALLOC_SZB = 0
  BY AnyRequest
<1>3. /\ al = VG_MIN_MALLOC_SZB => needed_bszB([szB |-> n, alignB |-> al]) = m
      /\ al # VG_MIN_MALLOC_SZB => needed_bszB([szB |-> n, alignB |-> al]) = m + (overhead_szB + al)
  <2>1. [szB |-> n, alignB |-> al].szB = n /\ [szB |-> n, alignB |-> al].alignB = al
    OBVIOUS
  <2>2. needed_bszB([szB |-> n, alignB |-> al]) = m + IF al = VG_MIN_MALLOC_SZB THEN 0 ELSE overhead_szB + al
    BY <2>1 DEF needed_bszB
  <2> HIDE DEF m
  <2> QED
    BY <1>1, <2>2
<1> HIDE DEF m
<1>4. CASE al = VG_MIN_MALLOC_SZB
  <2>1. r \in arena_malloc(arena, n)
    BY <1>4 DEF cli_malloc
  <2>2. \/ r.p \in {NULL, NORETURN} /\ r.a = arena /\ (r.p = NULL => arena.clientmem)
        \/ \E b \in Nat : /\ r.p = b + overhead_szB_lo /\ r.a.clientmem = arena.clientmem
                          /\ Lent(arena, r.a, b, m) /\ GrowsFor(arena, r.a, b, m)
    BY <1>0, <2>1, ArenaMalloc DEF m
  <2>3. ASSUME NEW b \in Nat, r.p = b + overhead_szB_lo, r.a.clientmem = arena.clientmem,
               Lent(arena, r.a, b, m), GrowsFor(arena, r.a, b, m)
        PROVE  r.p \notin {NULL, NORETURN} /\ Lending(r.a, r.p, n, al)
    <3>1. Given(arena, r.a, b, m)
      BY <2>3, LentGiven
    <3>2. GrowsFor(arena, r.a, b, needed_bszB([szB |-> n, alignB |-> al]))
      BY <1>3, <1>4, <2>3
    <3>3. Lending(r.a, r.p, n, al) /\ r.p > 0
      BY <1>1, <1>2, <1>4, <2>3, <3>1, <3>2, GivenLends
    <3> QED
      BY <3>3 DEF NULL, NORETURN
  <2> QED
    BY <2>2, <2>3
<1>5. CASE al # VG_MIN_MALLOC_SZB
  <2>1. r \in arena_memalign(arena, al, n)
    BY <1>5 DEF cli_malloc
  <2>2. \/ r.p \in {NULL, NORETURN} /\ r.a = arena /\ (r.p = NULL => arena.clientmem)
        \/ /\ r.p % al = 0
           /\ \E b \in Nat : /\ r.p = b + overhead_szB_lo /\ r.a.clientmem = arena.clientmem
                             /\ Given(arena, r.a, b, m) /\ GrowsFor(arena, r.a, b, m + (overhead_szB + al))
    BY <1>0, <1>2, <2>1, ArenaMemalign DEF m
  <2>3. ASSUME NEW b \in Nat, r.p = b + overhead_szB_lo, r.a.clientmem = arena.clientmem, r.p % al = 0,
               Given(arena, r.a, b, m), GrowsFor(arena, r.a, b, m + (overhead_szB + al))
        PROVE  r.p \notin {NULL, NORETURN} /\ Lending(r.a, r.p, n, al)
    <3>2. GrowsFor(arena, r.a, b, needed_bszB([szB |-> n, alignB |-> al]))
      BY <1>3, <1>5, <2>3
    <3>3. Lending(r.a, r.p, n, al) /\ r.p > 0
      BY <1>1, <1>2, <2>3, <3>2, GivenLends
    <3> QED
      BY <3>3 DEF NULL, NORETURN
  <2> QED
    BY <2>2, <2>3
<1> QED
  BY <1>4, <1>5

(* What a step does to the arena's superblocks and to what callers hold. *)
Changed ==
  \/ handed' = handed /\ arena'.sb = arena.sb
  \/ arena'.sb = arena.sb /\ \E S : handed' = take_back(handed, S)
  \/ \E c, p, S : \E n \in Nat, al \in Nat \ {0} :
       /\ Lending(c, p, n, al) /\ p \notin S /\ arena'.sb = c.sb
       /\ handed' = take_back(lend(handed, p, n, al), S)
  \/ arena' = arena /\ \E p \in DOMAIN handed, n \in Nat : handed' = lend(handed, p, n, handed[p].alignB)

LEMMA TakeNothing ==
  ASSUME NEW h, NEW p, NEW n, NEW al
  PROVE  take_back(lend(h, p, n, al), {}) = lend(h, p, n, al)
BY DEF take_back, lend

(* One block is given back. *)
LEMMA FreeOne ==
  ASSUME NEW a, ArenaInv(a), NEW h, Holds(UseOf(a.blk), h), NEW p \in DOMAIN h, NEW c, c = arena_free(a, p)
  PROVE  ArenaInv(c) /\ SameSuper(a, c) /\ Holds(UseOf(c.blk), take_back(h, {p}))
PROOF
<1> DEFINE U == UseOf(a.blk)
           b == p - overhead_szB_lo
<1>0. overhead_szB_lo \in Nat
  BY Overhead
<1>1. DOMAIN U \subseteq Nat /\ Holds(U, h)
  BY DEF ArenaInv, Sane, Tiled, Typed, UseOf
<1>2. p \in Nat /\ b \in DOMAIN U
  BY DEF Holds
<1>3. b + overhead_szB_lo = p
  BY <1>0, <1>2
<1> HIDE DEF b
<1>4. ArenaInv(c) /\ SameSuper(a, c) /\ UseOf(c.blk) = Without(U, b)
  BY <1>2, <1>3, ArenaFree
<1> HIDE DEF U
<1>5. Without(U, b) = Except(U, {b})
  BY DEF Without, Except
<1>6. \A d \in DOMAIN U : d \in {b} <=> d + overhead_szB_lo \in {p}
  BY <1>0, <1>1, <1>2, <1>3
<1>7. Holds(Except(U, {b}), take_back(h, {p}))
  BY <1>1, <1>6, HoldsTake
<1> QED
  BY <1>4, <1>5, <1>7

(* The core's arenas: Memcheck has no chunks. *)
CoreMove == ~ arena.clientmem /\ UNCHANGED <<mcvars, clo_freelist_vol>>

LEMMA CoreKeeps ==
  ASSUME HInv, CoreMove, ArenaInv(arena'), Holds(UseOf(arena'.blk), handed'), arena'.clientmem = arena.clientmem
  PROVE  HInv'
PROOF
<1>1. /\ malloc_list' = malloc_list /\ freed_list' = freed_list /\ free_queue_volume' = free_queue_volume
      /\ acc' = acc /\ defd' = defd /\ content' = content /\ clo_freelist_vol' = clo_freelist_vol
  BY DEF CoreMove, mcvars
<1>2. ~ arena'.clientmem /\ arena'.clientmem \in BOOLEAN
  BY DEF HInv, CoreMove
<1>3. DOMAIN malloc_list = {} /\ freed_list = << >>
  BY DEF HInv, CoreMove
<1>4. Shadow(malloc_list, content, acc, defd)' /\ Within(freed_list, free_queue_volume)'
  <2>1. Shadow(malloc_list, content, acc, defd) /\ Within(freed_list, free_queue_volume)
    BY DEF HInv
  <2> QED
    BY <1>1, <2>1 DEF Within
<1> QED
  BY <1>1, <1>2, <1>3, <1>4 DEF HInv

LEMMA CoreMalloc ==
  ASSUME HInv, CoreMove, NEW n \in Sizes, Malloc(n)
  PROVE  HInv' /\ Changed
PROOF
<1>0. n \in Nat /\ VG_MIN_MALLOC_SZB \in Requests /\ ~ arena.clientmem /\ VG_MIN_MALLOC_SZB \in Nat \ {0}
  BY SizesAssumption DEF Requests, CoreMove
<1>1. PICK r \in arena_malloc(arena, n) :
        /\ arena' = r.a
        /\ handed' = IF r.p = NORETURN THEN handed ELSE lend(handed, r.p, n, VG_MIN_MALLOC_SZB)
  BY DEF Malloc
<1>2. r \in cli_malloc(arena, VG_MIN_MALLOC_SZB, n)
  BY DEF cli_malloc
<1>3. \/ r.p = NORETURN /\ r.a = arena
      \/ r.p # NORETURN /\ Lending(r.a, r.p, n, VG_MIN_MALLOC_SZB)
  BY <1>0, <1>2, CliMalloc
<1>4. CASE r.p = NORETURN /\ r.a = arena
  <2>1. arena' = arena /\ handed' = handed
    BY <1>1, <1>4
  <2>2. ArenaInv(arena') /\ Holds(UseOf(arena'.blk), handed') /\ arena'.clientmem = arena.clientmem
    BY <2>1 DEF HInv
  <2> QED
    BY <2>1, <2>2, CoreKeeps DEF Changed
<1>5. CASE r.p # NORETURN /\ Lending(r.a, r.p, n, VG_MIN_MALLOC_SZB)
  <2>1. arena' = r.a /\ handed' = lend(handed, r.p, n, VG_MIN_MALLOC_SZB)
    BY <1>1, <1>5
  <2>2. ArenaInv(arena') /\ Holds(UseOf(arena'.blk), handed') /\ arena'.clientmem = arena.clientmem
    BY <1>5, <2>1 DEF Lending
  <2>3. HInv'
    BY <2>2, CoreKeeps
  <2>4. handed' = take_back(lend(handed, r.p, n, VG_MIN_MALLOC_SZB), {}) /\ arena'.sb = r.a.sb /\ r.p \notin {}
    BY <2>1, TakeNothing
  <2>5. Changed
    BY <1>0, <1>5, <2>4 DEF Changed
  <2> QED
    BY <2>3, <2>5
<1> QED
  BY <1>3, <1>4, <1>5

LEMMA CoreFree ==
  ASSUME HInv, CoreMove, NEW p \in DOMAIN handed, Free(p)
  PROVE  HInv' /\ Changed
PROOF
<1>1. arena' = arena_free(arena, p) /\ handed' = take_back(handed, {p})
  BY DEF Free
<1>2. ArenaInv(arena) /\ Holds(UseOf(arena.blk), handed)
  BY DEF HInv
<1>3. ArenaInv(arena') /\ SameSuper(arena, arena') /\ Holds(UseOf(arena'.blk), handed')
  BY <1>1, <1>2, FreeOne
<1>4. HInv'
  BY <1>3, CoreKeeps DEF SameSuper
<1> QED
  BY <1>1, <1>3, <1>4 DEF Changed, SameSuper

LEMMA CoreRealloc ==
  ASSUME HInv, CoreMove, NEW p \in DOMAIN handed, NEW n \in Sizes, Realloc(p, n)
  PROVE  HInv' /\ Changed
PROOF
<1>0. /\ n \in Nat /\ VG_MIN_MALLOC_SZB \in Requests /\ ~ arena.clientmem /\ VG_MIN_MALLOC_SZB \in Nat \ {0}
      /\ overhead_szB \in Nat
  BY SizesAssumption, Overhead DEF Requests, CoreMove
<1>1. ArenaInv(arena) /\ Holds(UseOf(arena.blk), handed)
  BY DEF HInv
<1>2. CASE n <= get_pszB(arena, get_payload_block(p))
  <2>1. handed' = lend(handed, p, n, handed[p].alignB) /\ arena' = arena
    BY <1>2 DEF Realloc
  <2>2. p - overhead_szB_lo \in DOMAIN UseOf(arena.blk)
    BY <1>1 DEF Holds
  <2>3. UseOf(arena.blk)[p - overhead_szB_lo] = arena.blk[p - overhead_szB_lo].bszB /\ arena.blk[p - overhead_szB_lo].bszB \in Nat
    BY <1>1, <2>2 DEF UseOf, ArenaInv, Sane, Tiled, Typed
  <2>4. n <= arena.blk[p - overhead_szB_lo].bszB - overhead_szB
    BY <1>2 DEF get_pszB, get_payload_block, bszB_to_pszB, get_bszB
  <2>5. n + overhead_szB <= UseOf(arena.blk)[p - overhead_szB_lo]
    BY <1>0, <2>3, <2>4
  <2>6. Holds(UseOf(arena.blk), handed')
    BY <1>0, <1>1, <2>1, <2>5, HoldsResize
  <2>7. ArenaInv(arena') /\ Holds(UseOf(arena'.blk), handed') /\ arena'.clientmem = arena.clientmem
    BY <1>1, <2>1, <2>6
  <2>8. HInv'
    BY <2>7, CoreKeeps
  <2> QED
    BY <1>0, <2>1, <2>8 DEF Changed
<1>3. CASE ~ (n <= get_pszB(arena, get_payload_block(p)))
  <2>1. PICK r \in arena_malloc(arena, n) :
          IF r.p = NORETURN THEN arena' = r.a /\ handed' = handed
          ELSE /\ arena' = arena_free(r.a, p)
               /\ handed' = take_back(lend(handed, r.p, n, VG_MIN_MALLOC_SZB), {p})
    BY <1>3 DEF Realloc
  <2>2. r \in cli_malloc(arena, VG_MIN_MALLOC_SZB, n)
    BY DEF cli_malloc
  <2>3. \/ r.p = NORETURN /\ r.a = arena
        \/ r.p # NORETURN /\ Lending(r.a, r.p, n, VG_MIN_MALLOC_SZB)
    BY <1>0, <2>2, CliMalloc
  <2>4. CASE r.p = NORETURN /\ r.a = arena
    <3>1. arena' = arena /\ handed' = handed
      BY <2>1, <2>4
    <3>2. ArenaInv(arena') /\ Holds(UseOf(arena'.blk), handed') /\ arena'.clientmem = arena.clientmem
      BY <1>1, <3>1
    <3> QED
      BY <3>1, <3>2, CoreKeeps DEF Changed
  <2>5. CASE r.p # NORETURN /\ Lending(r.a, r.p, n, VG_MIN_MALLOC_SZB)
    <3> DEFINE h == lend(handed, r.p, n, VG_MIN_MALLOC_SZB)
    <3>1. arena' = arena_free(r.a, p) /\ handed' = take_back(h, {p})
      BY <2>1, <2>5
    <3>2. ArenaInv(r.a) /\ Holds(UseOf(r.a.blk), h) /\ r.p \notin DOMAIN handed /\ r.a.clientmem = arena.clientmem
      BY <2>5 DEF Lending
    <3>3. p \in DOMAIN h /\ r.p # p
      BY <3>2 DEF lend
    <3> HIDE DEF h
    <3>4. ArenaInv(arena') /\ SameSuper(r.a, arena') /\ Holds(UseOf(arena'.blk), handed')
      BY <3>1, <3>2, <3>3, FreeOne
    <3>5. arena'.clientmem = arena.clientmem /\ arena'.sb = r.a.sb
      BY <3>2, <3>4 DEF SameSuper
    <3>6. HInv'
      BY <3>4, <3>5, CoreKeeps
    <3>7. r.p \notin {p}
      BY <3>3
    <3>8. Changed
      BY <1>0, <2>5, <3>1, <3>5, <3>7 DEF Changed, h
    <3> QED
      BY <3>6, <3>8
  <2> QED
    BY <2>3, <2>4, <2>5
<1> QED
  BY <1>2, <1>3

(* The client's arena: a new block gets a chunk. *)
Fresh(ml, m, p, n) == Spaced(m) /\ p \in Nat /\ Extra(ml, m, p, n)

LEMMA NewChunk ==
  ASSUME HInv, arena.clientmem, NEW c, NEW p, NEW n, n \in Nat, NEW al, Lending(c, p, n, al)
  PROVE  /\ Owned(lend(handed, p, n, al), HT_add_node(malloc_list, Mallocd(p, n)), freed_list)
         /\ Fresh(malloc_list, HT_add_node(malloc_list, Mallocd(p, n)), p, n)
PROOF
<1> DEFINE m == HT_add_node(malloc_list, Mallocd(p, n))
           g == lend(handed, p, n, al)
<1>1. ArenaInv(c) /\ Holds(UseOf(c.blk), g) /\ p \notin DOMAIN handed
  BY DEF Lending
<1>2. p \in DOMAIN g
  BY DEF lend
<1>3. p \in Nat /\ p \in Space
  BY <1>1, <1>2, HoldsRoom
<1>4. p \notin CustomAddrs
  BY <1>3, CustomAssumption
<1>5. Owned(handed, malloc_list, freed_list)
  BY DEF HInv
<1>6. Owned(g, m, freed_list) /\ Extra(malloc_list, m, p, n)
  BY <1>1, <1>3, <1>4, <1>5, OwnedNew
<1> HIDE DEF m, g
<1>7. Spaced(m)
  BY <1>1, <1>6, ChunksSpaced DEF Owned
<1>8. Owned(g, m, freed_list) /\ Fresh(malloc_list, m, p, n)
  BY <1>3, <1>6, <1>7 DEF Fresh
<1> QED
  BY <1>8 DEF m, g

(* The invariant, from its parts in the next state. *)
LEMMA ClientKeeps ==
  ASSUME HInv, arena.clientmem, arena'.clientmem = arena.clientmem, clo_freelist_vol' = clo_freelist_vol,
         ArenaInv(arena'), Holds(UseOf(arena'.blk), handed'), Owned(handed', malloc_list', freed_list'),
         Within(freed_list', free_queue_volume'), Shadow(malloc_list', content', acc', defd')
  PROVE  HInv'
PROOF
<1>1. Within(freed_list, free_queue_volume)'
  BY DEF Within
<1>2. clo_freelist_vol' \in Nat
  BY DEF HInv
<1> QED
  BY <1>1, <1>2 DEF HInv

LEMMA NewContent ==
  ASSUME NEW ct, NEW p, NEW z
  PROVE  [q \in DOMAIN ct \cup {p} |-> IF q = p THEN z ELSE ct[q]] = With(ct, p, z)
BY DEF With

(* new_chunk: the shadow of the new chunk. *)
LEMMA NewShadow ==
  ASSUME Shadow(malloc_list, content, acc, defd), NEW p \in Nat, p \notin DOMAIN malloc_list, NEW n \in Nat, NEW kind,
         NEW zeroed \in BOOLEAN, new_chunk(p, n, kind, zeroed), NEW m, m = malloc_list', Spaced(m),
         DOMAIN m = DOMAIN malloc_list \cup {p}, \A q \in DOMAIN malloc_list : m[q] = malloc_list[q], m[p] = chunk(p, n, kind)
  PROVE  Shadow(malloc_list', content', acc', defd')
PROOF
<1> DEFINE z == IF zeroed THEN n ELSE 0
<1>1. /\ acc' = acc \cup bytes(p, n)
      /\ defd' = IF zeroed THEN defd \cup bytes(p, n) ELSE defd \ bytes(p, n)
      /\ content' = [q \in DOMAIN content \cup {p} |-> IF q = p THEN z ELSE content[q]]
  BY DEF new_chunk
<1>2. (zeroed => z = n) /\ (~ zeroed => z = 0) /\ (z = 0 \/ z = n)
  OBVIOUS
<1> HIDE DEF z
<1>3. content' = With(content, p, z)
  BY <1>1, NewContent
<1>4. /\ PartOf(With(content, p, z), m) /\ acc \cup bytes(p, n) = Bytes(SzB(m))
      /\ z = 0 => defd \ bytes(p, n) = Bytes(With(content, p, z))
      /\ z = n => defd \cup bytes(p, n) = Bytes(With(content, p, z))
  BY <1>2, ShadowAdds
<1>5. defd' = Bytes(With(content, p, z))
  <2>1. CASE zeroed
    <3>1. defd' = defd \cup bytes(p, n)
      BY <1>1, <2>1
    <3> QED
      BY <1>2, <1>4, <2>1, <3>1
  <2>2. CASE ~ zeroed
    <3>1. defd' = defd \ bytes(p, n)
      BY <1>1, <2>2
    <3> QED
      BY <1>2, <1>4, <2>2, <3>1
  <2> QED
    BY <2>1, <2>2
<1>6. acc' = Bytes(SzB(m))
  BY <1>1, <1>4
<1> QED
  BY <1>3, <1>4, <1>5, <1>6 DEF Shadow

LEMMA NewBlock ==
  ASSUME HInv, NEW n \in Sizes, NEW al \in Requests, NEW zeroed \in BOOLEAN, new_block(n, al, zeroed)
  PROVE  HInv' /\ Changed
PROOF
<1>0. n \in Nat /\ arena.clientmem /\ al \in Nat \ {0}
  BY SizesAssumption, AnyRequest DEF new_block, Running
<1>1. freed_list' = freed_list /\ free_queue_volume' = free_queue_volume /\ clo_freelist_vol' = clo_freelist_vol
  BY DEF new_block
<1>2. PICK r \in cli_malloc(arena, al, n) :
        /\ arena' = r.a
        /\ IF r.p \in {NULL, NORETURN}
           THEN UNCHANGED <<handed, malloc_list, acc, defd, content>>
           ELSE handed' = lend(handed, r.p, n, al) /\ new_chunk(r.p, n, "Malloc", zeroed)
  BY DEF new_block
<1>3. \/ r.p \in {NULL, NORETURN} /\ r.a = arena
      \/ r.p \notin {NULL, NORETURN} /\ Lending(r.a, r.p, n, al)
  BY <1>0, CliMalloc
<1>4. Shadow(malloc_list, content, acc, defd) /\ Within(freed_list, free_queue_volume)
  BY DEF HInv
<1>5. Within(freed_list', free_queue_volume')
  BY <1>1, <1>4
<1>6. CASE r.p \in {NULL, NORETURN} /\ r.a = arena
  <2>1. /\ arena' = arena /\ handed' = handed /\ malloc_list' = malloc_list
        /\ acc' = acc /\ defd' = defd /\ content' = content
    BY <1>2, <1>6
  <2>2. /\ ArenaInv(arena') /\ Holds(UseOf(arena'.blk), handed') /\ Owned(handed', malloc_list', freed_list')
        /\ arena'.clientmem = arena.clientmem /\ Shadow(malloc_list', content', acc', defd')
    BY <1>0, <1>1, <1>4, <2>1 DEF HInv
  <2>3. HInv'
    BY <1>0, <1>1, <1>5, <2>2, ClientKeeps
  <2> QED
    BY <2>1, <2>3 DEF Changed
<1>7. CASE r.p \notin {NULL, NORETURN} /\ Lending(r.a, r.p, n, al)
  <2> DEFINE p == r.p
  <2>1. arena' = r.a /\ handed' = lend(handed, p, n, al) /\ new_chunk(p, n, "Malloc", zeroed)
    BY <1>2, <1>7
  <2>2. malloc_list' = HT_add_node(malloc_list, chunk(p, n, "Malloc"))
    BY <2>1 DEF new_chunk
  <2>3. Lending(r.a, p, n, al)
    BY <1>7
  <2> HIDE DEF p
  <2>4. /\ Owned(handed', malloc_list', freed_list) /\ Spaced(malloc_list') /\ p \in Nat /\ p \notin DOMAIN malloc_list
        /\ DOMAIN malloc_list' = DOMAIN malloc_list \cup {p} /\ malloc_list'[p] = chunk(p, n, "Malloc")
        /\ \A q \in DOMAIN malloc_list : malloc_list'[q] = malloc_list[q]
    <3>1. handed' = lend(handed, p, n, al)
      BY <2>1
    <3>2. n \in Nat
      BY <1>0
    <3>6. arena.clientmem
      BY <1>0
    <3>3. malloc_list' = HT_add_node(malloc_list, chunk(p, n, "Malloc"))
      BY <2>2
    <3> DEFINE m == HT_add_node(malloc_list, Mallocd(p, n))
               g == lend(handed, p, n, al)
    <3>4. Owned(g, m, freed_list) /\ Fresh(malloc_list, m, p, n)
      BY <2>3, <3>2, <3>6, NewChunk
    <3>5. malloc_list' = m /\ handed' = g
      BY <3>1, <3>3 DEF Mallocd
    <3> HIDE DEF m, g
    <3> QED
      BY <3>4, <3>5 DEF Fresh, Extra
  <2>5. Shadow(malloc_list', content', acc', defd')
    <3>1. new_chunk(p, n, "Malloc", zeroed)
      BY <2>1
    <3> QED
      BY <1>0, <1>4, <2>4, <3>1, NewShadow
  <2>6. ArenaInv(arena') /\ Holds(UseOf(arena'.blk), handed') /\ arena'.clientmem = arena.clientmem
    BY <2>1, <2>3 DEF Lending
  <2>7. Owned(handed', malloc_list', freed_list')
    BY <1>1, <2>4
  <2>8. HInv'
    BY <1>0, <1>1, <1>5, <2>5, <2>6, <2>7, ClientKeeps
  <2>9. handed' = take_back(lend(handed, p, n, al), {}) /\ arena'.sb = r.a.sb /\ p \notin {}
    BY <2>1, TakeNothing
  <2>10. Changed
    BY <1>0, <2>3, <2>9 DEF Changed
  <2> QED
    BY <2>8, <2>10
<1> QED
  BY <1>3, <1>6, <1>7

LEMMA MallocLike ==
  ASSUME HInv, NEW p \in CustomAddrs, NEW zeroed \in BOOLEAN, malloclike_block(p, CustomSzB, zeroed)
  PROVE  HInv' /\ Changed
PROOF
<1>1. /\ arena.clientmem /\ p \notin DOMAIN malloc_list /\ new_chunk(p, CustomSzB, "Custom", zeroed)
      /\ arena' = arena /\ handed' = handed
      /\ freed_list' = freed_list /\ free_queue_volume' = free_queue_volume /\ clo_freelist_vol' = clo_freelist_vol
  BY DEF malloclike_block, Running, vars
<1>2. malloc_list' = HT_add_node(malloc_list, chunk(p, CustomSzB, "Custom"))
  BY <1>1 DEF new_chunk
<1>3. /\ ArenaInv(arena) /\ Holds(UseOf(arena.blk), handed) /\ Owned(handed, malloc_list, freed_list)
      /\ Shadow(malloc_list, content, acc, defd) /\ Within(freed_list, free_queue_volume)
  BY <1>1 DEF HInv
<1>4. /\ Owned(handed, malloc_list', freed_list)
      /\ DOMAIN malloc_list' = DOMAIN malloc_list \cup {p} /\ malloc_list'[p] = chunk(p, CustomSzB, "Custom")
      /\ \A q \in DOMAIN malloc_list : malloc_list'[q] = malloc_list[q]
  BY <1>1, <1>2, <1>3, OwnedCustom
<1>5. Spaced(malloc_list')
  BY <1>3, <1>4, ChunksSpaced DEF Owned
<1>6. p \in Nat /\ CustomSzB \in Nat
  BY CustomAssumption
<1>7. Shadow(malloc_list', content', acc', defd')
  BY <1>1, <1>3, <1>4, <1>5, <1>6, NewShadow
<1>8. HInv'
  <2>1. /\ ArenaInv(arena') /\ Holds(UseOf(arena'.blk), handed') /\ Owned(handed', malloc_list', freed_list')
        /\ Within(freed_list', free_queue_volume') /\ arena'.clientmem = arena.clientmem
    BY <1>1, <1>3, <1>4
  <2> QED
    BY <1>1, <1>7, <2>1, ClientKeeps
<1> QED
  BY <1>1, <1>8 DEF Changed

LEMMA HandleFree ==
  ASSUME HInv, NEW p \in DOMAIN malloc_list, handle_free(p, MC_MALLOC_REDZONE_SZB)
  PROVE  HInv' /\ Changed
PROOF
<1> DEFINE m == HT_remove(malloc_list, p)
<1>1. arena.clientmem /\ die_and_free_mem(arena, handed, malloc_list[p]) /\ clo_freelist_vol' = clo_freelist_vol
  BY DEF handle_free, Running
<1>2. /\ malloc_list' = m /\ content' = HT_remove(content, p)
      /\ acc' = acc \ dead_bytes(malloc_list[p], MC_MALLOC_REDZONE_SZB)
      /\ defd' = defd \ dead_bytes(malloc_list[p], MC_MALLOC_REDZONE_SZB)
  BY DEF handle_free
<1>3. /\ ArenaInv(arena) /\ Holds(UseOf(arena.blk), handed) /\ Owned(handed, malloc_list, freed_list)
      /\ clo_freelist_vol \in Nat /\ Within(freed_list, free_queue_volume) /\ Shadow(malloc_list, content, acc, defd)
  BY <1>1 DEF HInv
<1>4. Died(arena, handed, m) /\ \E S \in SUBSET (Data(freed_list) \cup {p}) : Kept(handed, handed', S)
  BY <1>1, <1>3, Die
<1>5. Spaced(malloc_list) /\ malloc_list[p].data = p
  BY <1>3, ChunksSpaced DEF Owned, Chunks
<1>6. PartOf(content, malloc_list) /\ PartOf(SzB(malloc_list), malloc_list) /\ acc = Bytes(SzB(malloc_list)) /\ defd = Bytes(content)
  BY <1>3 DEF Shadow, PartOf, SzB
<1>7. content' = Without(content, p)
  BY <1>2 DEF HT_remove, Without
<1>8. Bytes(content) \ dead_bytes(malloc_list[p], MC_MALLOC_REDZONE_SZB) = Bytes(Without(content, p)) /\ PartOf(Without(content, p), m)
  BY <1>5, <1>6, ShadowDies
<1>9. Bytes(SzB(malloc_list)) \ dead_bytes(malloc_list[p], MC_MALLOC_REDZONE_SZB) = Bytes(Without(SzB(malloc_list), p))
  BY <1>5, <1>6, ShadowDies
<1>10. Bytes(Without(SzB(malloc_list), p)) = Bytes(SzB(m))
  <2>1. Without(SzB(malloc_list), p) = SzB(m)
    BY DEF Without, SzB, HT_remove
  <2> QED
    BY <2>1
<1> HIDE DEF m
<1>11. Shadow(malloc_list', content', acc', defd')
  BY <1>2, <1>6, <1>7, <1>8, <1>9, <1>10 DEF Shadow
<1>12. /\ ArenaInv(arena') /\ Holds(UseOf(arena'.blk), handed') /\ Owned(handed', malloc_list', freed_list')
       /\ Within(freed_list', free_queue_volume') /\ arena'.clientmem = arena.clientmem /\ arena'.sb = arena.sb
  BY <1>2, <1>4 DEF Died, SameSuper
<1>13. HInv'
  BY <1>1, <1>11, <1>12, ClientKeeps
<1>14. Changed
  BY <1>4, <1>12 DEF Kept, Changed
<1> QED
  BY <1>13, <1>14

(* The list is the same when the old chunk is put back. *)
LEMMA SameChunks ==
  ASSUME NEW ml, NEW m, DOMAIN m = DOMAIN ml, \A p \in DOMAIN ml : m[p] = ml[p],
         NEW h, NEW fl, Owned(h, ml, fl), NEW ct, NEW A, NEW D, Shadow(ml, ct, A, D)
  PROVE  Owned(h, m, fl) /\ Shadow(m, ct, A, D)
PROOF
<1>1. Live(m) = Live(ml)
  BY DEF Live
<1>2. Chunks(m, h)
  BY DEF Owned, Chunks
<1>3. SzB(m) = SzB(ml)
  BY DEF SzB
<1>4. PartOf(ct, m)
  BY DEF Shadow, PartOf
<1> QED
  BY <1>1, <1>2, <1>3, <1>4 DEF Owned, Queue, Shadow

LEMMA McReallocMoves ==
  ASSUME HInv, NEW p \in DOMAIN malloc_list, NEW n, n \in Nat, arena.clientmem, clo_freelist_vol' = clo_freelist_vol,
         NEW c, NEW q, Lending(c, q, n, VG_MIN_MALLOC_SZB),
         NEW k, k = Min({n, malloc_list[p].szB}), NEW dead, dead = dead_bytes(malloc_list[p], MC_MALLOC_REDZONE_SZB),
         malloc_list' = replaced(p, Mallocd(q, n)),
         acc' = CopyAcc(acc, p, q, k, n) \ dead, defd' = CopyDefd(defd, p, q, k, n) \ dead,
         content' = [x \in (DOMAIN content \ {p}) \cup {q} |-> IF x = q THEN Min({content[p], k}) ELSE content[x]],
         die_and_free_mem(c, lend(handed, q, n, VG_MIN_MALLOC_SZB), malloc_list[p])
  PROVE  HInv' /\ Changed
PROOF
<1> DEFINE m == HT_add_node(malloc_list, Mallocd(q, n))
           h == lend(handed, q, n, VG_MIN_MALLOC_SZB)
           z == Min({content[p], k})
<1>0. VG_MIN_MALLOC_SZB \in Nat \ {0}
  BY SizesAssumption
<1>1. ArenaInv(c) /\ Holds(UseOf(c.blk), h) /\ q \notin DOMAIN handed /\ c.clientmem = arena.clientmem
  BY DEF Lending
<1>2. Owned(h, m, freed_list) /\ Fresh(malloc_list, m, q, n)
  BY NewChunk
<1>3. /\ Spaced(m) /\ q \in Nat /\ q \notin DOMAIN malloc_list /\ DOMAIN m = DOMAIN malloc_list \cup {q}
      /\ m[q] = chunk(q, n, "Malloc") /\ \A x \in DOMAIN malloc_list : m[x] = malloc_list[x]
  BY <1>2 DEF Fresh, Extra
<1>f. Spaced(m) /\ Extra(malloc_list, m, q, n) /\ q \in Nat
  BY <1>2 DEF Fresh
<1>4. p # q /\ p \in DOMAIN m /\ m[p] = malloc_list[p]
  BY <1>3
<1>5. malloc_list' = HT_remove(m, p)
  <2>1. Mallocd(q, n).data = q
    BY DEF Mallocd, chunk
  <2>2. HT_remove(m, p) = HT_add_node(HT_remove(malloc_list, p), Mallocd(q, n))
    BY <1>4, <2>1 DEF HT_remove, HT_add_node
  <2> QED
    BY <2>2 DEF replaced
<1> HIDE DEF m, h, z
<1>6. /\ Owned(handed, malloc_list, freed_list) /\ clo_freelist_vol \in Nat
      /\ Within(freed_list, free_queue_volume) /\ Shadow(malloc_list, content, acc, defd)
  BY DEF HInv
<1>7. die_and_free_mem(c, h, m[p])
  BY <1>4 DEF h
<1>8. Died(c, h, malloc_list') /\ \E S \in SUBSET (Data(freed_list) \cup {p}) : Kept(h, handed', S)
  BY <1>1, <1>2, <1>4, <1>5, <1>6, <1>7, Die
<1>9. /\ PartOf(content, malloc_list) /\ PartOf(SzB(malloc_list), malloc_list) /\ acc = Bytes(SzB(malloc_list)) /\ defd = Bytes(content)
      /\ SzB(malloc_list)[p] = malloc_list[p].szB /\ malloc_list[p].data = p
  BY <1>6 DEF Shadow, PartOf, SzB, Owned, Chunks
<1>10. /\ CopyDefd(Bytes(content), p, q, k, n) \ dead = Bytes(Without(With(content, q, z), p))
       /\ PartOf(Without(With(content, q, z), p), HT_remove(m, p))
  <2>1. z = Min({content[p], k})
    BY DEF z
  <2>2. PartOf(content, malloc_list) /\ malloc_list[p].data = p
    BY <1>9
  <2>3. /\ CopyDefd(Bytes(content), p, q, k, n) \ dead_bytes(malloc_list[p], MC_MALLOC_REDZONE_SZB) = Bytes(Without(With(content, q, z), p))
        /\ PartOf(Without(With(content, q, z), p), HT_remove(m, p))
    <3>1. Moving(malloc_list, content, m, p, q, n, k, z)
      BY <1>f, <2>1, <2>2 DEF Moving
    <3> QED
      BY <3>1, ShadowMoves
  <2> QED
    BY <2>3
<1>11. CopyAcc(Bytes(SzB(malloc_list)), p, q, k, n) \ dead = Bytes(Without(With(SzB(malloc_list), q, n), p))
  <2> DEFINE L == SzB(malloc_list)
             y == Min({L[p], k})
  <2>1. y = Min({L[p], k})
    OBVIOUS
  <2>2. PartOf(L, malloc_list) /\ malloc_list[p].data = p /\ L[p] = malloc_list[p].szB
    BY <1>9
  <2> HIDE DEF L, y
  <2>3. CopyAcc(Bytes(L), p, q, k, n) \ dead_bytes(malloc_list[p], MC_MALLOC_REDZONE_SZB) = Bytes(Without(With(L, q, n), p))
    <3>1. Moving(malloc_list, L, m, p, q, n, k, y)
      BY <1>f, <2>1, <2>2 DEF Moving
    <3> QED
      BY <2>2, <3>1, ShadowMoves
  <2> QED
    BY <2>3 DEF L
<1>12. content' = Without(With(content, q, z), p)
  <2>1. content' = [x \in (DOMAIN content \ {p}) \cup {q} |-> IF x = q THEN z ELSE content[x]]
    BY DEF z
  <2>2. (DOMAIN content \ {p}) \cup {q} = (DOMAIN content \cup {q}) \ {p}
    BY <1>4
  <2> QED
    BY <2>1, <2>2 DEF Without, With
<1>13. Bytes(Without(With(SzB(malloc_list), q, n), p)) = Bytes(SzB(HT_remove(m, p)))
  <2>1. m[q].szB = n
    BY <1>3 DEF chunk
  <2>2. Without(With(SzB(malloc_list), q, n), p) = SzB(HT_remove(m, p))
    BY <1>3, <2>1 DEF Without, With, SzB, HT_remove
  <2> QED
    BY <2>2
<1>14. Shadow(malloc_list', content', acc', defd')
  BY <1>5, <1>9, <1>10, <1>11, <1>12, <1>13 DEF Shadow
<1>15. /\ ArenaInv(arena') /\ Holds(UseOf(arena'.blk), handed') /\ Owned(handed', malloc_list', freed_list')
       /\ Within(freed_list', free_queue_volume') /\ arena'.clientmem = arena.clientmem /\ arena'.sb = c.sb
  BY <1>1, <1>8 DEF Died, SameSuper
<1>16. HInv'
  BY <1>14, <1>15, ClientKeeps
<1>17. PICK S \in SUBSET (Data(freed_list) \cup {p}) : Kept(h, handed', S)
  BY <1>8
<1>18. q \notin S
  <2>1. Data(freed_list) \subseteq DOMAIN handed
    BY <1>6 DEF Owned, Queue, Data
  <2> QED
    BY <1>1, <1>4, <2>1
<1>19. \E T : handed' = take_back(h, T) /\ q \notin T
  <2>1. CASE handed' = take_back(h, S)
    BY <1>18, <2>1
  <2>2. CASE handed' = h
    <3>1. take_back(h, {}) = h /\ q \notin {}
      BY TakeNothing DEF h
    <3> QED
      BY <2>2, <3>1
  <2> QED
    BY <1>17, <2>1, <2>2 DEF Kept
<1>20. Changed
  BY <1>0, <1>15, <1>19 DEF Changed, h
<1> QED
  BY <1>16, <1>20

LEMMA McRealloc ==
  ASSUME HInv, NEW p \in DOMAIN malloc_list, NEW n \in Sizes, realloc(p, n)
  PROVE  HInv' /\ Changed
PROOF
<1> DEFINE k == Min({n, malloc_list[p].szB})
           dead == dead_bytes(malloc_list[p], MC_MALLOC_REDZONE_SZB)
<1>0. n \in Nat /\ arena.clientmem /\ clo_freelist_vol' = clo_freelist_vol /\ VG_MIN_MALLOC_SZB \in Requests
  BY SizesAssumption DEF realloc, Running, Requests
<1>1. PICK r \in cli_malloc(arena, VG_MIN_MALLOC_SZB, n) :
        IF r.p \in {NULL, NORETURN}
        THEN /\ arena' = r.a /\ malloc_list' = replaced(p, malloc_list[p])
             /\ UNCHANGED <<handed, freed_list, free_queue_volume, acc, defd, content>>
        ELSE /\ malloc_list' = replaced(p, chunk(r.p, n, "Malloc"))
             /\ acc' = copied(acc, p, r.p, k, n, TRUE) \ dead
             /\ defd' = copied(defd, p, r.p, k, n, FALSE) \ dead
             /\ content' = [q \in (DOMAIN content \ {p}) \cup {r.p} |->
                              IF q = r.p THEN Min({content[p], k}) ELSE content[q]]
             /\ die_and_free_mem(r.a, lend(handed, r.p, n, VG_MIN_MALLOC_SZB), malloc_list[p])
  BY DEF realloc
<1>2. \/ r.p \in {NULL, NORETURN} /\ r.a = arena
      \/ r.p \notin {NULL, NORETURN} /\ Lending(r.a, r.p, n, VG_MIN_MALLOC_SZB)
  BY <1>0, CliMalloc
<1>3. CASE r.p \in {NULL, NORETURN} /\ r.a = arena
  <2>1. /\ arena' = arena /\ handed' = handed /\ freed_list' = freed_list /\ free_queue_volume' = free_queue_volume
        /\ acc' = acc /\ defd' = defd /\ content' = content
        /\ malloc_list' = replaced(p, malloc_list[p])
    BY <1>1, <1>3
  <2>2. /\ ArenaInv(arena) /\ Holds(UseOf(arena.blk), handed) /\ Owned(handed, malloc_list, freed_list)
        /\ Within(freed_list, free_queue_volume) /\ Shadow(malloc_list, content, acc, defd)
    BY <1>0 DEF HInv
  <2>3. malloc_list[p].data = p
    BY <2>2 DEF Owned, Chunks
  <2>4. DOMAIN malloc_list' = DOMAIN malloc_list /\ \A q \in DOMAIN malloc_list : malloc_list'[q] = malloc_list[q]
    BY <2>1, <2>3 DEF replaced, HT_add_node, HT_remove
  <2>5. Owned(handed, malloc_list', freed_list) /\ Shadow(malloc_list', content, acc, defd)
    BY <2>2, <2>4, SameChunks
  <2>6. /\ ArenaInv(arena') /\ Holds(UseOf(arena'.blk), handed') /\ Owned(handed', malloc_list', freed_list')
        /\ Within(freed_list', free_queue_volume') /\ arena'.clientmem = arena.clientmem
        /\ Shadow(malloc_list', content', acc', defd')
    BY <2>1, <2>2, <2>5
  <2>7. HInv'
    BY <1>0, <2>6, ClientKeeps
  <2> QED
    BY <2>1, <2>7 DEF Changed
<1>4. CASE r.p \notin {NULL, NORETURN} /\ Lending(r.a, r.p, n, VG_MIN_MALLOC_SZB)
  <2>1. malloc_list' = replaced(p, Mallocd(r.p, n))
    BY <1>1, <1>4 DEF Mallocd
  <2>2. acc' = CopyAcc(acc, p, r.p, k, n) \ dead
    BY <1>1, <1>4 DEF CopyAcc
  <2>3. defd' = CopyDefd(defd, p, r.p, k, n) \ dead
    BY <1>1, <1>4 DEF CopyDefd
  <2>4. content' = [x \in (DOMAIN content \ {p}) \cup {r.p} |-> IF x = r.p THEN Min({content[p], k}) ELSE content[x]]
    BY <1>1, <1>4
  <2>5. die_and_free_mem(r.a, lend(handed, r.p, n, VG_MIN_MALLOC_SZB), malloc_list[p])
    BY <1>1, <1>4
  <2>6. Lending(r.a, r.p, n, VG_MIN_MALLOC_SZB)
    BY <1>4
  <2>7. k = Min({n, malloc_list[p].szB}) /\ dead = dead_bytes(malloc_list[p], MC_MALLOC_REDZONE_SZB)
    OBVIOUS
  <2> HIDE DEF k, dead
  <2> QED
    BY <1>0, <2>1, <2>2, <2>3, <2>4, <2>5, <2>6, <2>7, McReallocMoves
<1> QED
  BY <1>2, <1>3, <1>4

-----------------------------------------------------------------------------
(* The invariant holds, and every step is one of those that Changed lists. *)

LEMMA NewArena ==
  ASSUME NEW client \in BOOLEAN, NEW a, a = new_arena(client)
  PROVE  ArenaInv(a) /\ a.clientmem = client /\ DOMAIN UseOf(a.blk) = {}
PROOF
<1>1. /\ a.clientmem = client /\ DOMAIN a.blk = {} /\ DOMAIN a.sb = {} /\ a.freelist = [lno \in Lists |-> << >>]
      /\ a.sblocks = << >> /\ a.bytes_on_loan = 0 /\ a.bytes_mmaped = 0
  BY DEF new_arena
<1>2. IsArena(a)
  BY DEF new_arena, IsArena
<1>3. Superblocks(a.sb, a.sblocks)
  <2>1. << >> \in Seq(Nat) /\ DOMAIN << >> = {} /\ Range(<< >>) = {} /\ IsFiniteSet({})
    BY FS_EmptySet DEF Range
  <2>2. Increasing(<< >>)
    BY <2>1 DEF Increasing
  <2> QED
    BY <1>1, <2>1, <2>2 DEF Superblocks
<1>4. Tiled(a.blk, a.sb)
  BY <1>1, FS_EmptySet DEF Tiled, Typed, Disjoint, Covers
<1>5. DOMAIN UseOf(a.blk) = {} /\ DOMAIN FreeOf(a.blk) = {}
  BY <1>1 DEF UseOf, FreeOf
<1>6. Linked(a.freelist, FreeOf(a.blk))
  <2>1. << >> \in Seq(Nat) /\ DOMAIN << >> = {}
    OBVIOUS
  <2>2. Range(<< >>) = {} /\ IsInjective(<< >>)
    BY <2>1 DEF Range, IsInjective
  <2> QED
    BY <1>1, <1>5, <2>1, <2>2 DEF Linked
<1>7. Merged(a.blk)
  BY <1>1 DEF Merged
<1>8. Counted(a)
  <2>1. DOMAIN Pay(UseOf(a.blk)) = {} /\ DOMAIN Mapped(a.sb) = {}
    BY <1>1, <1>5 DEF Pay, Mapped
  <2>2. Total(Pay(UseOf(a.blk))) = 0 /\ Total(Mapped(a.sb)) = 0
    BY <2>1, TotalEmpty
  <2> QED
    BY <1>1, <2>2 DEF Counted
<1> QED
  BY <1>1, <1>2, <1>3, <1>4, <1>5, <1>6, <1>7, <1>8 DEF ArenaInv, Sane

LEMMA HeapInit ==
  ASSUME Init
  PROVE  HInv
PROOF
<1>1. PICK client \in BOOLEAN : arena = new_arena(client)
  BY DEF Init
<1>2. ArenaInv(arena) /\ arena.clientmem \in BOOLEAN /\ DOMAIN UseOf(arena.blk) = {}
  BY <1>1, NewArena
<1>3. /\ DOMAIN handed = {} /\ DOMAIN malloc_list = {} /\ freed_list = << >> /\ free_queue_volume = 0
      /\ acc = {} /\ defd = {} /\ DOMAIN content = {} /\ clo_freelist_vol \in Nat
  BY FreelistAssumption DEF Init
<1>4. Holds(UseOf(arena.blk), handed)
  BY <1>2, <1>3 DEF Holds
<1>5. IsQueue(<< >>)
  <2>1. << >> \in Seq(Range(<< >>)) /\ DOMAIN << >> = {}
    OBVIOUS
  <2> QED
    BY <2>1 DEF IsQueue
<1>6. Within(freed_list, free_queue_volume)
  <2>1. volume(<< >>) = Vol(<< >>, Len(<< >>)) /\ Vol(<< >>, 0) = 0 /\ Len(<< >>) = 0
    BY <1>5, VolumeIs, VolTake
  <2>2. volume(<< >>) = 0
    BY <2>1
  <2> QED
    BY <1>3, <2>2 DEF Within
<1>7. Shadow(malloc_list, content, acc, defd)
  <2>1. DOMAIN SzB(malloc_list) = {}
    BY <1>3 DEF SzB
  <2>2. Bytes(SzB(malloc_list)) = {} /\ Bytes(content) = {}
    BY <1>3, <2>1 DEF Bytes
  <2> QED
    BY <1>3, <2>2 DEF Shadow, PartOf
<1>8. Owned(handed, malloc_list, freed_list)
  BY <1>3, <1>5 DEF Owned, Chunks, Queue
<1> QED
  BY <1>2, <1>3, <1>4, <1>6, <1>7, <1>8 DEF HInv

LEMMA HeapStep ==
  ASSUME HInv, [Next]_allvars
  PROVE  HInv' /\ Changed
PROOF
<1>1. CASE UNCHANGED allvars
  <2>1. /\ arena' = arena /\ handed' = handed /\ malloc_list' = malloc_list /\ freed_list' = freed_list
        /\ free_queue_volume' = free_queue_volume /\ acc' = acc /\ defd' = defd /\ content' = content
        /\ clo_freelist_vol' = clo_freelist_vol
    BY <1>1 DEF allvars, vars, mcvars
  <2>2. Within(freed_list, free_queue_volume)'
    BY <2>1 DEF HInv, Within
  <2>3. HInv'
    BY <2>1, <2>2 DEF HInv
  <2> QED
    BY <2>1, <2>3 DEF Changed
<1>2. CASE Core
  <2>1. CoreMove /\ CoreNext
    BY <1>2 DEF Core, CoreMove
  <2> QED
    BY <2>1, CoreMalloc, CoreFree, CoreRealloc DEF CoreNext
<1>3. ASSUME NEW n \in Sizes, NEW al \in Requests, NEW zeroed \in BOOLEAN, new_block(n, al, zeroed)
      PROVE  HInv' /\ Changed
  BY <1>3, NewBlock
<1>4. CASE \E n \in Sizes : new_block(n, VG_MIN_MALLOC_SZB, FALSE)
  <2>1. VG_MIN_MALLOC_SZB \in Requests /\ FALSE \in BOOLEAN
    BY DEF Requests
  <2> QED
    BY <1>3, <1>4, <2>1, Zenon
<1>5. CASE \E n \in Sizes, al \in Aligns : new_block(n, al, FALSE)
  <2>1. Aligns \subseteq Requests /\ FALSE \in BOOLEAN
    BY DEF Requests
  <2> QED
    BY <1>3, <1>5, <2>1, Zenon
<1>6. CASE \E n \in Sizes : new_block(n, VG_MIN_MALLOC_SZB, TRUE)
  <2>1. VG_MIN_MALLOC_SZB \in Requests /\ TRUE \in BOOLEAN
    BY DEF Requests
  <2> QED
    BY <1>3, <1>6, <2>1, Zenon
<1>7. CASE \E p \in CustomAddrs : malloclike_block(p, CustomSzB, TRUE)
  <2>1. TRUE \in BOOLEAN
    OBVIOUS
  <2> QED
    BY <1>7, <2>1, MallocLike, Zenon
<1>8. CASE \E p \in DOMAIN malloc_list : handle_free(p, MC_MALLOC_REDZONE_SZB)
  BY <1>8, HandleFree
<1>9. CASE \E p \in DOMAIN malloc_list, n \in Sizes : realloc(p, n)
  BY <1>9, McRealloc
<1> QED
  BY <1>1, <1>2, <1>4, <1>5, <1>6, <1>7, <1>8, <1>9 DEF Next

(* The heap keeps its invariant: the arena's blocks, lists and counts,     *)
(* what callers hold of it, Memcheck's chunks, queue and shadow memory.    *)
THEOREM HeapInvariant == Spec => []HInv
PROOF
<1>1. Init => HInv
  BY HeapInit
<1>2. HInv /\ [Next]_allvars => HInv'
  BY HeapStep
<1> QED
  BY <1>1, <1>2, PTL DEF Spec

-----------------------------------------------------------------------------
(* What the invariant says of the arena. *)

(* The binary search finds the superblock that a block lies in. *)
LEMMA Home ==
  ASSUME NEW a, ArenaInv(a), NEW b \in DOMAIN a.blk
  PROVE  /\ findSb(a, b) \in DOMAIN a.sb /\ Inside(a.blk, a.sb, b, findSb(a, b))
         /\ payload_bytes(findSb(a, b)) <= b /\ b < sb_end(a, findSb(a, b))
PROOF
<1>0. SB_ADMIN \in Nat /\ overhead_szB \in Nat \ {0}
  BY SizesAssumption, Overhead
<1>1. Typed(a.blk) /\ Covers(a.blk, a.sb) /\ Superblocks(a.sb, a.sblocks)
  BY DEF ArenaInv, Sane, Tiled
<1>2. PICK s \in DOMAIN a.sb : Inside(a.blk, a.sb, b, s)
  BY <1>1 DEF Covers
<1>3. s \in Nat /\ a.sb[s] \in Nat /\ b \in Nat /\ a.blk[b].bszB \in Nat /\ a.blk[b].bszB >= overhead_szB
  BY <1>1 DEF Superblocks, Typed
<1>4. s + SB_ADMIN <= b /\ b + a.blk[b].bszB <= s + SB_ADMIN + a.sb[s]
  BY <1>2 DEF Inside
<1>5. payload_bytes(s) <= b /\ b < sb_end(a, s)
  BY <1>0, <1>3, <1>4 DEF payload_bytes, sb_end
<1>6. findSb(a, b) = s
  BY <1>1, <1>3, <1>5, findSbFinds
<1> QED
  BY <1>2, <1>5, <1>6

(* The blocks of a superblock, first to last. *)
LEMMA BlocksOfSb ==
  ASSUME NEW a, ArenaInv(a), NEW s \in DOMAIN a.sb, NEW bs, bs = {b \in DOMAIN a.blk : findSb(a, b) = s}
  PROVE  /\ payload_bytes(s) \in bs
         /\ \A b \in bs : \/ b + get_bszB(a, b) = sb_end(a, s)
                          \/ /\ b + get_bszB(a, b) \in bs
                             /\ ~ is_inuse_block(a, b) => is_inuse_block(a, b + get_bszB(a, b))
         /\ \A b, c \in bs : b < c => b + get_bszB(a, b) <= c
PROOF
<1>0. SB_ADMIN \in Nat /\ overhead_szB \in Nat \ {0}
  BY SizesAssumption, Overhead
<1>1. Typed(a.blk) /\ Disjoint(a.blk) /\ Covers(a.blk, a.sb) /\ Superblocks(a.sb, a.sblocks) /\ Merged(a.blk)
  BY DEF ArenaInv, Sane, Tiled
<1>2. /\ \A t \in DOMAIN a.sb : t \in Nat /\ a.sb[t] \in Nat
      /\ \A t, u \in DOMAIN a.sb : t < u => t + SB_ADMIN + a.sb[t] <= u
      /\ \A b \in DOMAIN a.blk : b \in Nat /\ a.blk[b].bszB \in Nat /\ a.blk[b].bszB >= overhead_szB
  BY <1>1 DEF Superblocks, Typed
<1>3. payload_bytes(s) \in bs
  <2> DEFINE b == s + SB_ADMIN
             t == findSb(a, b)
  <2>1. b \in DOMAIN a.blk
    BY <1>1 DEF Covers
  <2>2. t \in DOMAIN a.sb /\ Inside(a.blk, a.sb, b, t)
    BY <2>1, Home
  <2> HIDE DEF t
  <2>3. t + SB_ADMIN <= s + SB_ADMIN /\ s + SB_ADMIN + a.blk[b].bszB <= t + SB_ADMIN + a.sb[t]
    BY <2>2 DEF Inside
  <2>4. /\ t \in Nat /\ s \in Nat /\ a.sb[t] \in Nat /\ a.blk[b].bszB \in Nat /\ a.blk[b].bszB >= overhead_szB
        /\ t < s => t + SB_ADMIN + a.sb[t] <= s
    <3> HIDE DEF b
    <3> QED
      BY <1>2, <2>1, <2>2
  <2>5. t = s
    <3> HIDE DEF b
    <3> QED
      BY <1>0, <2>3, <2>4
  <2> QED
    BY <2>1, <2>5 DEF t, payload_bytes
<1>4. ASSUME NEW b \in bs
      PROVE  \/ b + get_bszB(a, b) = sb_end(a, s)
             \/ /\ b + get_bszB(a, b) \in bs
                /\ ~ is_inuse_block(a, b) => is_inuse_block(a, b + get_bszB(a, b))
  <2> DEFINE e == b + a.blk[b].bszB
  <2>1. b \in DOMAIN a.blk /\ findSb(a, b) = s
    OBVIOUS
  <2>2. Inside(a.blk, a.sb, b, s)
    BY <2>1, Home
  <2>3. e = s + SB_ADMIN + a.sb[s] \/ e \in DOMAIN a.blk
    BY <1>1, <2>1, <2>2 DEF Covers
  <2>4. CASE e = s + SB_ADMIN + a.sb[s]
    BY <2>4 DEF get_bszB, sb_end, payload_bytes
  <2>5. CASE e \in DOMAIN a.blk /\ e # s + SB_ADMIN + a.sb[s]
    <3>1. s + SB_ADMIN <= b /\ e <= s + SB_ADMIN + a.sb[s]
      BY <2>2 DEF Inside
    <3>2. s \in Nat /\ a.sb[s] \in Nat /\ b \in Nat /\ a.blk[b].bszB \in Nat
      BY <1>2, <2>1
    <3>3. payload_bytes(s) <= e /\ e < sb_end(a, s) /\ e \in Nat
      BY <1>0, <2>5, <3>1, <3>2 DEF payload_bytes, sb_end
    <3>4. findSb(a, e) = s
      <4> HIDE DEF e
      <4> QED
        BY <1>1, <3>3, findSbFinds
    <3>5. ~ a.blk[b].inuse => a.blk[e].inuse
      BY <1>1, <2>1, <2>5 DEF Merged
    <3> QED
      BY <2>5, <3>4, <3>5 DEF get_bszB, is_inuse_block
  <2> QED
    BY <2>3, <2>4, <2>5
<1>5. \A b, c \in bs : b < c => b + get_bszB(a, b) <= c
  BY <1>1 DEF Disjoint, get_bszB
<1> QED
  BY <1>3, <1>4, <1>5

LEMMA SaneArena ==
  ASSUME ArenaInv(arena)
  PROVE  ArenaSane
PROOF
<1>0. Typed(arena.blk) /\ Superblocks(arena.sb, arena.sblocks) /\ Linked(arena.freelist, FreeOf(arena.blk)) /\ Counted(arena)
  BY DEF ArenaInv, Sane, Tiled
<1>1. ASSUME NEW s \in DOMAIN arena.sb
      PROVE  LET bs == {b \in DOMAIN arena.blk : findSb(arena, b) = s}
             IN  /\ payload_bytes(s) \in bs
                 /\ \A b \in bs : LET e == b + get_bszB(arena, b)
                                  IN  \/ e = sb_end(arena, s)
                                      \/ e \in bs /\ (b \in FreeBlocks => e \in InUse)
                 /\ \A b, c \in bs : b < c => b + get_bszB(arena, b) <= c
  <2> DEFINE bs == {b \in DOMAIN arena.blk : findSb(arena, b) = s}
  <2>1. /\ payload_bytes(s) \in bs
        /\ \A b \in bs : \/ b + get_bszB(arena, b) = sb_end(arena, s)
                         \/ /\ b + get_bszB(arena, b) \in bs
                            /\ ~ is_inuse_block(arena, b) => is_inuse_block(arena, b + get_bszB(arena, b))
        /\ \A b, c \in bs : b < c => b + get_bszB(arena, b) <= c
    <3>1. bs = {b \in DOMAIN arena.blk : findSb(arena, b) = s}
      OBVIOUS
    <3> HIDE DEF bs
    <3> QED
      BY <3>1, BlocksOfSb
  <2>2. \A b \in bs : b \in DOMAIN arena.blk
    OBVIOUS
  <2> HIDE DEF bs
  <2>3. ASSUME NEW b \in bs
        PROVE  \/ b + get_bszB(arena, b) = sb_end(arena, s)
               \/ b + get_bszB(arena, b) \in bs /\ (b \in FreeBlocks => b + get_bszB(arena, b) \in InUse)
    BY <2>1, <2>2 DEF FreeBlocks, InUse
  <2>4. /\ payload_bytes(s) \in bs
        /\ \A b \in bs : LET e == b + get_bszB(arena, b)
                         IN  \/ e = sb_end(arena, s)
                             \/ e \in bs /\ (b \in FreeBlocks => e \in InUse)
        /\ \A b, c \in bs : b < c => b + get_bszB(arena, b) <= c
    BY <2>1, <2>3
  <2> QED
    BY <2>4 DEF bs
<1>2. ASSUME NEW b \in DOMAIN arena.blk
      PROVE  LET s == findSb(arena, b)
             IN  /\ s # NULL /\ payload_bytes(s) <= b /\ b < sb_end(arena, s)
                 /\ get_bszB(arena, b) >= overhead_szB
                 /\ b % VG_MIN_MALLOC_SZB = 0
  <2>1. findSb(arena, b) \in DOMAIN arena.sb /\ payload_bytes(findSb(arena, b)) <= b /\ b < sb_end(arena, findSb(arena, b))
    BY Home
  <2>2. findSb(arena, b) # NULL
    BY <1>0, <2>1 DEF Superblocks, NULL
  <2>3. get_bszB(arena, b) >= overhead_szB /\ b % VG_MIN_MALLOC_SZB = 0
    BY <1>0 DEF Typed, get_bszB
  <2> QED
    BY <2>1, <2>2, <2>3
<1>3. \A lno \in Lists : IsInjective(arena.freelist[lno])
  BY <1>0 DEF Linked
<1>4. \A lno \in Lists : Range(arena.freelist[lno]) = {b \in FreeBlocks : listNo_of(get_bszB(arena, b)) = lno}
  <2>1. DOMAIN FreeOf(arena.blk) = FreeBlocks /\ \A b \in FreeBlocks : FreeOf(arena.blk)[b] = get_bszB(arena, b)
    BY DEF FreeOf, FreeBlocks, InUse, is_inuse_block, get_bszB
  <2>2. \A lno \in Lists : Range(arena.freelist[lno]) = {b \in DOMAIN FreeOf(arena.blk) : listNo_of(FreeOf(arena.blk)[b]) = lno}
    BY <1>0 DEF Linked
  <2>3. ASSUME NEW lno \in Lists
        PROVE  {b \in DOMAIN FreeOf(arena.blk) : listNo_of(FreeOf(arena.blk)[b]) = lno}
                 = {b \in FreeBlocks : listNo_of(get_bszB(arena, b)) = lno}
    BY <2>1
  <2> QED
    BY <2>2, <2>3
<1>5. arena.bytes_on_loan = MapThenSumSet(LAMBDA b : get_pszB(arena, b), InUse)
  <2>1. InUse = {b \in DOMAIN arena.blk : is_inuse_block(arena, b)}
    BY DEF InUse
  <2>2. MapThenSumSet(LAMBDA b : get_pszB(arena, b), InUse) = Total(Pay(UseOf(arena.blk)))
    BY <2>1, LoanSum
  <2> QED
    BY <1>0, <2>2 DEF Counted
<1>6. arena.bytes_mmaped = MapThenSumSet(LAMBDA s : arena.sb[s] + SB_ADMIN, DOMAIN arena.sb)
  <2>1. MapThenSumSet(LAMBDA s : arena.sb[s] + SB_ADMIN, DOMAIN arena.sb) = Total(Mapped(arena.sb))
    BY MapSum
  <2> QED
    BY <1>0, <2>1 DEF Counted
<1> QED
  BY <1>1, <1>2, <1>3, <1>4, <1>5, <1>6 DEF ArenaSane

(* The addresses in a queue are as many as its chunks. *)
LEMMA QueuedCount ==
  ASSUME NEW q, IsQueue(q), \A i, j \in DOMAIN q : i # j => q[i].data # q[j].data
  PROVE  Cardinality(Data(q)) = Len(q)
PROOF
<1> DEFINE f == [i \in DOMAIN q |-> q[i].data]
<1>1. Len(q) \in Nat /\ DOMAIN q = 1 .. Len(q)
  BY DEF IsQueue
<1>2. f \in [DOMAIN q -> Data(q)]
  BY DEF Data
<1>3. \A i, j \in DOMAIN q : f[i] = f[j] => i = j
  OBVIOUS
<1>4. \A t \in Data(q) : \E i \in DOMAIN q : f[i] = t
  BY DEF Data
<1> HIDE DEF f
<1>5. DOMAIN f = DOMAIN q
  BY <1>2
<1>6. f \in Bijection(DOMAIN q, Data(q))
  BY <1>2, <1>3, <1>4, <1>5 DEF Bijection, Injection, Surjection, IsInjective
<1>7. ExistsBijection(DOMAIN q, Data(q))
  BY <1>6 DEF ExistsBijection
<1>8. IsFiniteSet(DOMAIN q) /\ Cardinality(DOMAIN q) = Len(q)
  BY <1>1, FS_Interval, SMTT(30)
<1> QED
  BY <1>7, <1>8, FS_Bijection

LEMMA OwnBlocks ==
  ASSUME HInv
  PROVE  ChunksOwnBlocks
PROOF
<1> DEFINE live == {p \in DOMAIN malloc_list : malloc_list[p].allockind # "Custom"}
           queued == {freed_list[i].data : i \in DOMAIN freed_list}
<1>0. overhead_szB_lo \in Nat /\ overhead_szB \in Nat /\ live = Live(malloc_list) /\ queued = Data(freed_list)
  BY Overhead DEF Live, Data
<1> HIDE DEF live, queued
<1>1. ASSUME arena.clientmem
      PROVE  /\ live \cap queued = {} /\ Cardinality(queued) = Len(freed_list)
             /\ DOMAIN handed = live \cup queued
             /\ \A p \in live : handed[p].szB = malloc_list[p].szB
  <2>1. Chunks(malloc_list, handed) /\ Queue(freed_list, handed, malloc_list) /\ DOMAIN handed \subseteq Live(malloc_list) \cup Data(freed_list)
    BY <1>1 DEF HInv, Owned
  <2>2. live \cap queued = {}
    BY <1>0, <2>1 DEF Queue, Data
  <2>3. Cardinality(queued) = Len(freed_list)
    BY <1>0, <2>1, QueuedCount DEF Queue
  <2>4. Live(malloc_list) \subseteq DOMAIN handed /\ Data(freed_list) \subseteq DOMAIN handed
    BY <2>1 DEF Live, Chunks, Queue, Data
  <2>5. \A p \in live : handed[p].szB = malloc_list[p].szB
    BY <1>0, <2>1 DEF Live, Chunks
  <2> QED
    BY <1>0, <2>1, <2>2, <2>3, <2>4, <2>5
<1>2. Holds(UseOf(arena.blk), handed) /\ Typed(arena.blk)
  BY DEF HInv, ArenaInv, Sane, Tiled
<1>3. DOMAIN UseOf(arena.blk) = InUse /\ \A b \in InUse : UseOf(arena.blk)[b] = get_bszB(arena, b) /\ b \in Nat /\ get_bszB(arena, b) \in Nat
  BY <1>2 DEF UseOf, InUse, is_inuse_block, get_bszB, Typed
<1>4. \A p \in DOMAIN handed : get_payload_block(p) = p - overhead_szB_lo
  BY DEF get_payload_block
<1>5. InUse = {get_payload_block(p) : p \in DOMAIN handed}
  <2>1. ASSUME NEW b \in InUse PROVE \E p \in DOMAIN handed : b = get_payload_block(p)
    <3>1. b + overhead_szB_lo \in DOMAIN handed /\ b \in Nat
      BY <1>2, <1>3 DEF Holds
    <3>2. (b + overhead_szB_lo) - overhead_szB_lo = b
      BY <1>0, <3>1
    <3> QED
      BY <1>4, <3>1, <3>2
  <2>2. ASSUME NEW p \in DOMAIN handed PROVE get_payload_block(p) \in InUse
    BY <1>2, <1>3, <1>4 DEF Holds
  <2> QED
    BY <2>1, <2>2
<1>6. ASSUME NEW p \in DOMAIN handed PROVE handed[p].szB <= get_pszB(arena, get_payload_block(p))
  <2>1. /\ p - overhead_szB_lo \in InUse /\ handed[p].szB \in Nat
        /\ handed[p].szB + overhead_szB <= UseOf(arena.blk)[p - overhead_szB_lo]
    BY <1>2, <1>3 DEF Holds
  <2>2. get_pszB(arena, get_payload_block(p)) = get_bszB(arena, p - overhead_szB_lo) - overhead_szB
    BY <1>4 DEF get_pszB, bszB_to_pszB
  <2>3. get_bszB(arena, p - overhead_szB_lo) \in Nat /\ UseOf(arena.blk)[p - overhead_szB_lo] = get_bszB(arena, p - overhead_szB_lo)
    BY <1>3, <2>1
  <2> QED
    BY <1>0, <2>1, <2>2, <2>3
<1> QED
  BY <1>1, <1>5, <1>6 DEF ChunksOwnBlocks, live, queued

LEMMA ShadowIs ==
  ASSUME HInv
  PROVE  ShadowMatches
PROOF
<1>1. acc = Bytes(SzB(malloc_list)) /\ defd = Bytes(content) /\ DOMAIN content = DOMAIN malloc_list
  BY DEF HInv, Shadow, PartOf
<1>2. Bytes(SzB(malloc_list)) = UNION {bytes(p, malloc_list[p].szB) : p \in DOMAIN malloc_list}
  BY DEF Bytes, SzB
<1>3. Bytes(content) = UNION {bytes(p, content[p]) : p \in DOMAIN malloc_list}
  BY <1>1 DEF Bytes
<1> QED
  BY <1>1, <1>2, <1>3 DEF ShadowMatches

LEMMA QueueBound ==
  ASSUME HInv
  PROVE  QueueWithinVolume
PROOF
<1> DEFINE U == UseOf(arena.blk)
           f == Pay(U)
<1>0. overhead_szB_lo \in Nat /\ overhead_szB \in Nat
  BY Overhead
<1>1. Typed(arena.blk) /\ Holds(U, handed) /\ arena.bytes_on_loan = Total(f)
  BY DEF HInv, ArenaInv, Sane, Tiled, Counted
<1>2. \A b \in DOMAIN U : U[b] \in Nat /\ U[b] >= overhead_szB
  BY <1>1 DEF UseOf, Typed
<1>3. IsFiniteSet(DOMAIN U)
  <2>1. DOMAIN U \subseteq DOMAIN arena.blk /\ IsFiniteSet(DOMAIN arena.blk)
    BY <1>1 DEF UseOf, Typed
  <2> QED
    BY <2>1, FS_Subset
<1> HIDE DEF U
<1>4. DOMAIN f = DOMAIN U /\ \A b \in DOMAIN U : f[b] = U[b] - overhead_szB /\ f[b] \in Nat
  BY <1>0, <1>2 DEF Pay
<1> HIDE DEF f
<1>5. \/ DOMAIN freed_list = {} /\ IsQueue(freed_list)
      \/ Queue(freed_list, handed, malloc_list)
  <2>1. CASE arena.clientmem
    BY <2>1 DEF HInv, Owned
  <2>2. CASE ~ arena.clientmem
    <3>1. freed_list = << >>
      BY <2>2 DEF HInv
    <3>2. << >> \in Seq(Range(<< >>)) /\ DOMAIN << >> = {}
      OBVIOUS
    <3> QED
      BY <3>1, <3>2 DEF IsQueue
  <2> QED
    BY <2>1, <2>2
<1>6. IsQueue(freed_list)
  BY <1>5 DEF Queue
<1>7. \A i \in DOMAIN freed_list :
        /\ freed_list[i].data \in Nat /\ freed_list[i].data - overhead_szB_lo \in DOMAIN f
        /\ freed_list[i].szB <= f[freed_list[i].data - overhead_szB_lo]
  <2>1. SUFFICES ASSUME NEW i \in DOMAIN freed_list
                 PROVE  /\ freed_list[i].data \in Nat /\ freed_list[i].data - overhead_szB_lo \in DOMAIN f
                        /\ freed_list[i].szB <= f[freed_list[i].data - overhead_szB_lo]
    OBVIOUS
  <2> DEFINE p == freed_list[i].data
  <2>2. p \in DOMAIN handed /\ freed_list[i].szB = handed[p].szB
    BY <1>5 DEF Queue
  <2> HIDE DEF p
  <2>3. p \in Nat /\ p - overhead_szB_lo \in DOMAIN U /\ handed[p].szB \in Nat /\ handed[p].szB + overhead_szB <= U[p - overhead_szB_lo]
    BY <1>1, <2>2 DEF Holds
  <2>4. handed[p].szB <= f[p - overhead_szB_lo]
    BY <1>0, <1>2, <1>4, <2>3
  <2> QED
    BY <1>4, <2>2, <2>3, <2>4 DEF p
<1>8. \A i, j \in DOMAIN freed_list : i # j => freed_list[i].data # freed_list[j].data
  BY <1>5 DEF Queue
<1>9. IsFiniteSet(DOMAIN f) /\ \A x \in DOMAIN f : f[x] \in Nat
  BY <1>3, <1>4
<1>10. volume(freed_list) <= Total(f)
  BY <1>6, <1>7, <1>8, <1>9, VolumeBound
<1>11. free_queue_volume = volume(freed_list) /\ free_queue_volume <= clo_freelist_vol
  BY DEF HInv, Within
<1> QED
  BY <1>1, <1>10, <1>11 DEF QueueWithinVolume

(* What sanity_check_malloc_arena looks for never happens, in any arena    *)
(* that has been used through its interface: ArenaSane is an invariant.    *)
THEOREM ArenaSaneHolds == Spec => []ArenaSane
PROOF
<1>1. HInv => ArenaSane
  BY SaneArena DEF HInv
<1> QED
  BY <1>1, HeapInvariant, PTL

(* Every block in use is one live or one queued chunk of Memcheck, with    *)
(* room for it: ChunksOwnBlocks is an invariant.                           *)
THEOREM ChunksOwnBlocksHolds == Spec => []ChunksOwnBlocks
PROOF
<1>1. HInv => ChunksOwnBlocks
  BY OwnBlocks
<1> QED
  BY <1>1, HeapInvariant, PTL

(* The client can touch the bytes of its live chunks, and only those, and  *)
(* realloc keeps what it knows of them: ShadowMatches is an invariant.     *)
THEOREM ShadowMatchesHolds == Spec => []ShadowMatches
PROOF
<1>1. HInv => ShadowMatches
  BY ShadowIs
<1> QED
  BY <1>1, HeapInvariant, PTL

(* The volume of the queue of freed chunks is their sum, within            *)
(* --freelist-vol and within what is on loan.                              *)
THEOREM QueueWithinVolumeHolds == Spec => []QueueWithinVolume
PROOF
<1>1. HInv => QueueWithinVolume
  BY QueueBound
<1> QED
  BY <1>1, HeapInvariant, PTL

(* The step lends p, out of the arena c, and takes back S. *)
HandsOut(c, p, S, n, al) ==
  /\ n \in Nat /\ al \in Nat \ {0} /\ Lending(c, p, n, al) /\ p \notin S
  /\ handed' = take_back(lend(handed, p, n, al), S)

(* What callers see of it: p is new to them, beside what they hold, and    *)
(* the payload of a block of c.                                            *)
HandedOut(c, p, n, al) ==
  /\ p \in DOMAIN handed' \ DOMAIN handed /\ handed'[p] = [szB |-> n, alignB |-> al]
  /\ \A q \in DOMAIN handed' : q # p => q \in DOMAIN handed /\ handed'[q] = handed[q]
  /\ \A q \in DOMAIN handed : p + n <= q \/ q + handed[q].szB <= p
  /\ \E b \in DOMAIN c.blk : /\ b = p - overhead_szB_lo /\ b \in Nat /\ p = b + overhead_szB_lo
                             /\ c.blk[b].bszB \in Nat /\ c.blk[b].bszB >= overhead_szB

(* A step that hands out p, as far as callers see it. *)
LEMMA LentStep ==
  ASSUME NEW c, NEW p, NEW S, NEW n, NEW al, HandsOut(c, p, S, n, al)
  PROVE  HandedOut(c, p, n, al)
PROOF
<1>a. n \in Nat /\ al \in Nat \ {0} /\ Lending(c, p, n, al) /\ p \notin S /\ handed' = take_back(lend(handed, p, n, al), S)
  BY DEF HandsOut
<1> DEFINE h == lend(handed, p, n, al)
<1>0. overhead_szB \in Nat /\ overhead_szB_lo \in Nat
  BY Overhead
<1>1. ArenaInv(c) /\ Holds(UseOf(c.blk), h) /\ p \notin DOMAIN handed
  BY <1>a DEF Lending
<1>2. DOMAIN h = DOMAIN handed \cup {p} /\ h[p] = [szB |-> n, alignB |-> al] /\ \A q \in DOMAIN handed : h[q] = handed[q]
  BY <1>1 DEF lend
<1>3. DOMAIN handed' = DOMAIN h \ S /\ \A q \in DOMAIN handed' : handed'[q] = h[q]
  BY <1>a DEF take_back
<1> HIDE DEF h
<1>4. /\ \A q, t \in DOMAIN h : q < t => q + h[q].szB + overhead_szB <= t
      /\ \A q \in DOMAIN h : q \in Nat /\ h[q].szB \in Nat
  BY <1>1, HoldsRoom
<1>5. h[p].szB = n
  BY <1>2
<1>6. ASSUME NEW q \in DOMAIN handed PROVE p + n <= q \/ q + handed[q].szB <= p
  <2>1. q \in DOMAIN h /\ p \in DOMAIN h /\ q # p /\ h[q] = handed[q]
    BY <1>1, <1>2
  <2>2. q \in Nat /\ p \in Nat /\ h[q].szB \in Nat
    BY <1>4, <2>1
  <2>3. CASE p < q
    <3>1. p + h[p].szB + overhead_szB <= q
      BY <1>4, <2>1, <2>3
    <3> QED
      BY <1>0, <1>a, <1>5, <2>2, <3>1
  <2>4. CASE q < p
    <3>1. q + h[q].szB + overhead_szB <= p
      BY <1>4, <2>1, <2>4
    <3> QED
      BY <1>0, <2>1, <2>2, <3>1
  <2> QED
    BY <2>1, <2>2, <2>3, <2>4
<1>7. p \in DOMAIN handed' \ DOMAIN handed /\ handed'[p] = [szB |-> n, alignB |-> al]
  BY <1>a, <1>1, <1>2, <1>3
<1>8. \A q \in DOMAIN handed' : q # p => q \in DOMAIN handed /\ handed'[q] = handed[q]
  BY <1>2, <1>3
<1>9. p \in Nat /\ p - overhead_szB_lo \in DOMAIN UseOf(c.blk)
  BY <1>1, <1>2 DEF Holds
<1>10. \A b \in DOMAIN UseOf(c.blk) : b \in DOMAIN c.blk /\ b \in Nat /\ c.blk[b].bszB \in Nat /\ c.blk[b].bszB >= overhead_szB
  BY <1>1 DEF UseOf, ArenaInv, Sane, Tiled, Typed
<1>11. p = (p - overhead_szB_lo) + overhead_szB_lo
  BY <1>0, <1>9
<1>12. \E b \in DOMAIN c.blk : /\ b = p - overhead_szB_lo /\ b \in Nat /\ p = b + overhead_szB_lo
                              /\ c.blk[b].bszB \in Nat /\ c.blk[b].bszB >= overhead_szB
  BY <1>9, <1>10, <1>11
<1> QED
  BY <1>6, <1>7, <1>8, <1>12 DEF HandedOut

LEMMA GrowStep ==
  ASSUME HInv, Changed, NEW s \in DOMAIN arena'.sb \ DOMAIN arena.sb
  PROVE  \E p \in DOMAIN handed' \ DOMAIN handed :
           /\ payload_bytes(s) <= p /\ p < sb_end(arena', s)
           /\ \A b \in FreeBlocks : get_bszB(arena, b) < needed_bszB(handed'[p])
PROOF
<1>0. overhead_szB \in Nat /\ overhead_szB_lo \in Nat /\ overhead_szB_hi \in Nat \ {0} /\ overhead_szB = overhead_szB_lo + overhead_szB_hi /\ SB_ADMIN \in Nat
  BY Overhead, SizesAssumption
<1>1. PICK c, p, S : \E n \in Nat, al \in Nat \ {0} :
        /\ Lending(c, p, n, al) /\ p \notin S /\ arena'.sb = c.sb
        /\ handed' = take_back(lend(handed, p, n, al), S)
  BY DEF Changed
<1>2. PICK n \in Nat, al \in Nat \ {0} :
        /\ Lending(c, p, n, al) /\ p \notin S /\ arena'.sb = c.sb
        /\ handed' = take_back(lend(handed, p, n, al), S)
  BY <1>1
<1>a. HandsOut(c, p, S, n, al)
  BY <1>2 DEF HandsOut
<1>b. HandedOut(c, p, n, al)
  BY <1>a, LentStep
<1>3. p \in DOMAIN handed' \ DOMAIN handed /\ handed'[p] = [szB |-> n, alignB |-> al]
  BY <1>b DEF HandedOut
<1>4. PICK b \in DOMAIN c.blk : /\ b = p - overhead_szB_lo /\ b \in Nat /\ p = b + overhead_szB_lo
                                /\ c.blk[b].bszB \in Nat /\ c.blk[b].bszB >= overhead_szB
  BY <1>b DEF HandedOut
<1>5. ArenaInv(c) /\ GrowsFor(arena, c, b, needed_bszB(handed'[p]))
  BY <1>2, <1>3, <1>4 DEF Lending
<1>6. s \in DOMAIN c.sb \ DOMAIN arena.sb
  BY <1>2
<1>7. Inside(c.blk, c.sb, b, s) /\ \A f \in DOMAIN FreeOf(arena.blk) : FreeOf(arena.blk)[f] < needed_bszB(handed'[p])
  BY <1>5, <1>6 DEF GrowsFor
<1>8. s \in Nat /\ c.sb[s] \in Nat
  BY <1>5, <1>6 DEF ArenaInv, Sane, Superblocks
<1>9. s + SB_ADMIN <= b /\ b + c.blk[b].bszB <= s + SB_ADMIN + c.sb[s]
  BY <1>7 DEF Inside
<1>10. payload_bytes(s) <= p /\ p < sb_end(arena', s)
  <2>1. s + SB_ADMIN <= p /\ p < s + SB_ADMIN + c.sb[s]
    BY <1>0, <1>4, <1>8, <1>9
  <2> QED
    BY <1>2, <2>1 DEF payload_bytes, sb_end
<1>11. \A f \in FreeBlocks : f \in DOMAIN FreeOf(arena.blk) /\ FreeOf(arena.blk)[f] = get_bszB(arena, f)
  BY DEF FreeOf, FreeBlocks, InUse, is_inuse_block, get_bszB
<1>12. \A f \in FreeBlocks : get_bszB(arena, f) < needed_bszB(handed'[p])
  BY <1>7, <1>11
<1> QED
  BY <1>3, <1>10, <1>12

(* An arena grows only for a request that no free block could have served: *)
(* every step satisfies GrowsOnlyWhenFull.                                 *)
THEOREM GrowsOnlyWhenFullHolds == Spec => GrowsOnlyWhenFull
PROOF
<1>1. HInv /\ [Next]_allvars =>
        [\A s \in DOMAIN arena'.sb \ DOMAIN arena.sb :
           \E p \in DOMAIN handed' \ DOMAIN handed :
             /\ payload_bytes(s) <= p /\ p < sb_end(arena', s)
             /\ \A b \in FreeBlocks : get_bszB(arena, b) < needed_bszB(handed'[p])
        ]_allvars
  BY HeapStep, GrowStep
<1> QED
  BY <1>1, HeapInvariant, PTL DEF Spec, GrowsOnlyWhenFull

LEMMA RegionsStep ==
  ASSUME HInv, HInv', Changed
  PROVE  [HeapRef!Step]_handed
PROOF
<1> DEFINE changed == {p \in DOMAIN handed' : p \notin DOMAIN handed \/ handed'[p] # handed[p]}
<1>0. overhead_szB \in Nat
  BY Overhead
<1>1. ArenaInv(arena') /\ Holds(UseOf(arena'.blk), handed')
  BY DEF HInv
<1>2. /\ \A p, q \in DOMAIN handed' : p < q => p + handed'[p].szB + overhead_szB <= q
      /\ \A p \in DOMAIN handed' : p \in Nat /\ p > 0 /\ handed'[p].szB \in Nat
  BY <1>1, HoldsRoom
<1>3. \A p, q \in DOMAIN handed' : p < q => p + handed'[p].szB <= q
  <2>1. SUFFICES ASSUME NEW p \in DOMAIN handed', NEW q \in DOMAIN handed', p < q PROVE p + handed'[p].szB <= q
    OBVIOUS
  <2>2. p + handed'[p].szB + overhead_szB <= q /\ p \in Nat /\ q \in Nat /\ handed'[p].szB \in Nat
    BY <1>2, <2>1
  <2> QED
    BY <1>0, <2>2
<1>4. \A p \in DOMAIN handed' : p > 0 /\ p % handed'[p].alignB = 0
  BY <1>1, <1>2 DEF Holds
<1>5. ASSUME NEW p, changed \subseteq {p}, p \in changed \ DOMAIN handed => HeapRef!Beside(p),
             p \in changed \cap DOMAIN handed => handed'[p].alignB = handed[p].alignB
      PROVE  HeapRef!Step
  <2>1. Cardinality(changed) <= 1
    <3>1. changed = {} \/ changed = {p}
      BY <1>5
    <3>2. Cardinality({}) = 0 /\ Cardinality({p}) = 1
      BY FS_EmptySet, FS_Singleton
    <3> HIDE DEF changed
    <3> QED
      BY <3>1, <3>2
  <2>2. \A q \in changed \ DOMAIN handed : HeapRef!Beside(q)
    <3> HIDE DEF changed
    <3> QED
      BY <1>5
  <2>3. \A q \in changed \cap DOMAIN handed : handed'[q].alignB = handed[q].alignB
    <3> HIDE DEF changed
    <3> QED
      BY <1>5
  <2>4. HeapRef!Apart(handed') /\ HeapRef!Aligned(handed')
    BY <1>3, <1>4 DEF HeapRef!Apart, HeapRef!Aligned
  <2>5. HeapRef!Cardinality(changed) = Cardinality(changed)
    BY DEF HeapRef!Cardinality, HeapRef!IsFiniteSet, Cardinality, IsFiniteSet
  <2> QED
    BY <2>1, <2>2, <2>3, <2>4, <2>5 DEF HeapRef!Step
<1>6. CASE handed' = handed
  BY <1>6
<1>7. CASE \E S : handed' = take_back(handed, S)
  <2>1. \A p \in DOMAIN handed' : p \in DOMAIN handed /\ handed'[p] = handed[p]
    BY <1>7 DEF take_back
  <2>2. changed = {}
    BY <2>1
  <2> HIDE DEF changed
  <2> QED
    BY <1>5, <2>2
<1>8. CASE \E c, p, S : \E n \in Nat, al \in Nat \ {0} :
             /\ Lending(c, p, n, al) /\ p \notin S /\ arena'.sb = c.sb
             /\ handed' = take_back(lend(handed, p, n, al), S)
  <2>1. PICK c, p, S : \E n \in Nat, al \in Nat \ {0} :
             /\ Lending(c, p, n, al) /\ p \notin S /\ arena'.sb = c.sb
             /\ handed' = take_back(lend(handed, p, n, al), S)
    BY <1>8
  <2>2. PICK n \in Nat, al \in Nat \ {0} :
             /\ Lending(c, p, n, al) /\ p \notin S
             /\ handed' = take_back(lend(handed, p, n, al), S)
    BY <2>1
  <2>a. HandsOut(c, p, S, n, al)
    BY <2>2 DEF HandsOut
  <2>b. HandedOut(c, p, n, al)
    BY <2>a, LentStep
  <2>3. /\ p \in DOMAIN handed' \ DOMAIN handed /\ handed'[p] = [szB |-> n, alignB |-> al]
        /\ \A q \in DOMAIN handed' : q # p => q \in DOMAIN handed /\ handed'[q] = handed[q]
        /\ \A q \in DOMAIN handed : p + n <= q \/ q + handed[q].szB <= p
    BY <2>b DEF HandedOut
  <2>4. handed'[p].szB = n
    BY <2>3
  <2>5. HeapRef!Beside(p)
    BY <2>3, <2>4 DEF HeapRef!Beside
  <2>6. changed \subseteq {p} /\ p \notin DOMAIN handed
    BY <2>3
  <2> HIDE DEF changed
  <2> QED
    BY <1>5, <2>5, <2>6
<1>9. CASE \E p \in DOMAIN handed, n \in Nat : handed' = lend(handed, p, n, handed[p].alignB)
  <2>1. PICK p \in DOMAIN handed, n \in Nat : handed' = lend(handed, p, n, handed[p].alignB)
    BY <1>9
  <2>2. /\ DOMAIN handed' = DOMAIN handed /\ handed'[p].alignB = handed[p].alignB
        /\ \A q \in DOMAIN handed : q # p => handed'[q] = handed[q]
    BY <2>1 DEF lend
  <2>3. changed \subseteq {p}
    BY <2>2
  <2> HIDE DEF changed
  <2> QED
    BY <1>5, <2>2, <2>3
<1> QED
  BY <1>6, <1>7, <1>8, <1>9 DEF Changed

(* The arena implements the abstract heap of Heap.tla, whose regions are   *)
(* what callers hold.                                                      *)
THEOREM HeapSpecHolds == Spec => HeapSpec
PROOF
<1>1. Init => HeapRef!Init
  BY DEF Init, HeapRef!Init
<1>2. HInv /\ HInv' /\ [Next]_allvars => [HeapRef!Step]_handed
  BY HeapStep, RegionsStep
<1> QED
  BY <1>1, <1>2, HeapInvariant, PTL DEF Spec, HeapSpec, HeapRef!Spec
=============================================================================
