-------------------------- MODULE TransTabProofs ---------------------------
(***************************************************************************)
(* Proofs about module TransTab, for any number and size of sectors, any   *)
(* hash function, any sizes of the fast cache and the classes, any guest   *)
(* code, discards and redirections.                                        *)
(***************************************************************************)
EXTENDS TransTab, FiniteSetTheorems, SequenceTheorems, WellFoundedInduction, TLAPS

-----------------------------------------------------------------------------
(* Bins *)

(* What \div and % are. *)
LEMMA DivMod ==
  ASSUME NEW n \in Nat \ {0}, NEW x \in Nat
  PROVE  /\ x \div n \in Nat /\ x % n \in 0 .. n - 1
         /\ n * (x \div n) <= x /\ x < n * (x \div n) + n
         /\ x = n * (x \div n) + (x % n)
PROOF
  OBVIOUS

(* \div is monotonic. *)
LEMMA DivMonotonic ==
  ASSUME NEW n \in Nat \ {0}, NEW x \in Nat, NEW y \in Nat, x <= y
  PROVE  x \div n <= y \div n
PROOF
  OBVIOUS

(* Two addresses less than n - 1 blocks of m apart are in blocks less than *)
(* n apart.                                                                *)
LEMMA DivNear ==
  ASSUME NEW m \in Nat \ {0}, NEW n \in Nat \ {0}, NEW a \in Nat, NEW b \in Nat,
         a <= b, b - a < m * (n - 1)
  PROVE  (b \div m) - (a \div m) < n
PROOF
<1> DEFINE p == a \div m
<1> DEFINE q == b \div m
<1>1. p \in Nat /\ q \in Nat /\ m * p <= a /\ a < m * p + m /\ m * q <= b
  BY DivMod
<1> HIDE DEF p, q
<1>2. SUFFICES ASSUME q - p >= n PROVE FALSE
  BY <1>1 DEF p, q
<1>3. m * (q - p) >= m * n
  BY <1>1, <1>2
<1>4. m * (q - p) = m * q - m * p /\ m * (n - 1) = m * n - m
  BY <1>1
<1> QED
  BY <1>1, <1>3, <1>4

(* Blocks less than n apart that fall into the same of n bins are equal. *)
LEMMA SameBinSameBlock ==
  ASSUME NEW n \in Nat \ {0}, NEW p \in Nat, NEW q \in Nat, p <= q, q - p < n,
         p % n = q % n
  PROVE  p = q
PROOF
<1>1. PICK i \in Nat, j \in Nat : p = n * i + (p % n) /\ q = n * j + (q % n)
  BY DivMod
<1>2. q - p = n * (j - i)
  BY <1>1, DivMod
<1>3. j - i <= 0
  <2>1. SUFFICES ASSUME j - i >= 1 PROVE FALSE
    BY <1>1
  <2>2. n * (j - i) >= n
    BY <2>1
  <2> QED
    BY <1>2, <2>2
<1>4. n * (j - i) <= 0
  BY <1>3
<1> QED
  BY <1>2, <1>4

(* A range that range_to_eclass puts into a bin lies in one block, if it   *)
(* is not so long that it could come round to its first bin.               *)
LEMMA OneBlock ==
  ASSUME NEW x \in Extent, x.len <= ECLASS_SIZE * (ECLASS_MISC - 1),
         range_to_eclass(x) # ECLASS_MISC
  PROVE  /\ x.base \div ECLASS_SIZE = (x.base + x.len - 1) \div ECLASS_SIZE
         /\ range_to_eclass(x) = (x.base \div ECLASS_SIZE) % ECLASS_MISC
PROOF
<1> DEFINE a == x.base
<1> DEFINE b == x.base + x.len - 1
<1>1. a \in Nat /\ b \in Nat /\ a <= b /\ b - a < ECLASS_SIZE * (ECLASS_MISC - 1)
  BY SizesAssumption DEF Extent
<1>2. bin(a) = bin(b) /\ range_to_eclass(x) = bin(a)
  BY DEF range_to_eclass
<1> HIDE DEF a, b
<1>3. (b \div ECLASS_SIZE) - (a \div ECLASS_SIZE) < ECLASS_MISC
  BY <1>1, DivNear, SizesAssumption
<1>4. (a \div ECLASS_SIZE) <= (b \div ECLASS_SIZE)
  BY <1>1, DivMonotonic, SizesAssumption
<1>5. a \div ECLASS_SIZE \in Nat /\ b \div ECLASS_SIZE \in Nat
  BY <1>1, DivMod, SizesAssumption
<1>6. a \div ECLASS_SIZE = b \div ECLASS_SIZE
  BY <1>2, <1>3, <1>4, <1>5, SameBinSameBlock, SizesAssumption DEF bin
<1> QED
  BY <1>2, <1>6 DEF a, b, bin

(* Two ranges that overlap and each lie in one block lie in the same.  So  *)
(* a small discard need only look into its own bin's list, besides         *)
(* ECLASS_MISC's.                                                          *)
LEMMA OverlapSharesBin ==
  ASSUME NEW r \in Extent, NEW x \in Extent, overlap1(r, x), r.len < ECLASS_SIZE,
         x.len <= ECLASS_SIZE * (ECLASS_MISC - 1),
         range_to_eclass(r) # ECLASS_MISC, range_to_eclass(x) # ECLASS_MISC
  PROVE  range_to_eclass(r) = range_to_eclass(x)
PROOF
<1>1. ECLASS_MISC >= 2
  <2>1. SUFFICES ASSUME ECLASS_MISC = 1 PROVE FALSE
    BY SizesAssumption
  <2>2. ECLASS_SIZE * (ECLASS_MISC - 1) = 0
    BY <2>1, SizesAssumption
  <2> QED
    BY <2>2 DEF Extent
<1>2. r.len <= ECLASS_SIZE * (ECLASS_MISC - 1)
  <2>1. ECLASS_SIZE * (ECLASS_MISC - 1) >= ECLASS_SIZE
    BY <1>1, SizesAssumption
  <2> QED
    BY <2>1, SizesAssumption DEF Extent
<1>3. /\ r.base \div ECLASS_SIZE = (r.base + r.len - 1) \div ECLASS_SIZE
      /\ range_to_eclass(r) = (r.base \div ECLASS_SIZE) % ECLASS_MISC
      /\ x.base \div ECLASS_SIZE = (x.base + x.len - 1) \div ECLASS_SIZE
      /\ range_to_eclass(x) = (x.base \div ECLASS_SIZE) % ECLASS_MISC
  BY <1>2, OneBlock
<1>4. PICK p \in Nat : /\ r.base <= p /\ p <= r.base + r.len - 1
                       /\ x.base <= p /\ p <= x.base + x.len - 1
  <2>1. CASE r.base <= x.base
    BY <2>1 DEF overlap1, Extent
  <2>2. CASE x.base <= r.base
    BY <2>2 DEF overlap1, Extent
  <2> QED
    BY <2>1, <2>2 DEF Extent
<1>5. /\ r.base \in Nat /\ x.base \in Nat
      /\ r.base + r.len - 1 \in Nat /\ x.base + x.len - 1 \in Nat
  BY DEF Extent
<1>6. ASSUME NEW y \in Nat, NEW z \in Nat, y <= p, p <= z,
             y \div ECLASS_SIZE = z \div ECLASS_SIZE
      PROVE  p \div ECLASS_SIZE = y \div ECLASS_SIZE
  <2>1. /\ y \div ECLASS_SIZE <= p \div ECLASS_SIZE
        /\ p \div ECLASS_SIZE <= z \div ECLASS_SIZE
        /\ y \div ECLASS_SIZE \in Nat /\ p \div ECLASS_SIZE \in Nat
    BY <1>6, DivMonotonic, DivMod, SizesAssumption
  <2> QED
    BY <1>6, <2>1
<1>7. p \div ECLASS_SIZE = r.base \div ECLASS_SIZE /\ p \div ECLASS_SIZE = x.base \div ECLASS_SIZE
  BY <1>3, <1>4, <1>5, <1>6
<1> QED
  BY <1>3, <1>7

-----------------------------------------------------------------------------
(* Probing *)

(* HASH_TT and the distance lead to a slot; every slot is at some          *)
(* distance, and no two distances below the table's size lead to the same. *)
LEMMA ProbePermutes ==
  ASSUME NEW a \in Addrs
  PROVE  /\ \A d \in Slots : probe(a, d) \in Slots
         /\ \A j \in Slots : \E d \in Slots : probe(a, d) = j
         /\ \A d, e \in Slots : probe(a, d) = probe(a, e) => d = e
PROOF
<1> DEFINE n == N_TTES_PER_SECTOR
<1> DEFINE h == HASH_TT[a]
<1>1. n \in Nat \ {0} /\ h \in 0 .. n - 1
  BY SizesAssumption, AddrsAssumption DEF Slots
<1> HIDE DEF n, h
<1>2. ASSUME NEW d \in 0 .. n - 1
      PROVE  (h + d) % n = IF h + d < n THEN h + d ELSE h + d - n
  BY <1>1, <1>2
<1>3. \A d \in Slots : probe(a, d) = IF h + d < n THEN h + d ELSE h + d - n
  BY <1>2 DEF probe, Slots, n, h
<1>4. Slots = 0 .. n - 1
  BY DEF Slots, n
<1>5. \A d \in Slots : probe(a, d) \in Slots
  BY <1>1, <1>3, <1>4
<1>6. ASSUME NEW j \in Slots PROVE \E d \in Slots : probe(a, d) = j
  <2> DEFINE d == IF j >= h THEN j - h ELSE j - h + n
  <2>1. d \in Slots /\ probe(a, d) = j
    BY <1>1, <1>3, <1>4
  <2> QED
    BY <2>1
<1>7. \A d, e \in Slots : probe(a, d) = probe(a, e) => d = e
  BY <1>1, <1>3, <1>4
<1> QED
  BY <1>5, <1>6, <1>7

(* Min of a non-empty set of naturals is its least member. *)
LEMMA MinIsLeast ==
  ASSUME NEW S \in SUBSET Nat, S # {}
  PROVE  Min(S) \in S /\ \A x \in S : Min(S) <= x
PROOF
<1> DEFINE R == OpToRel(<, Nat)
<1>1. IsWellFoundedOn(R, Nat)
  BY NatLessThanWellFounded
<1>2. \A x, y \in Nat : x < y => <<x, y>> \in R
  BY DEF OpToRel
<1> HIDE DEF R
<1>3. PICK m \in S : \A y \in S : ~(<<y, m>> \in R)
  BY <1>1, WFMin, Zenon
<1>4. ASSUME NEW y \in S PROVE m <= y
  <2>1. ~(y < m)
    BY <1>2, <1>3, Zenon
  <2> QED
    BY <2>1
<1> QED
  BY <1>4 DEF Min

(* Slots are finitely many, and so are those in use. *)
LEMMA SlotsFinite ==
  /\ IsFiniteSet(Slots) /\ Cardinality(Slots) = N_TTES_PER_SECTOR
  /\ \A t : IsFiniteSet(used(t)) /\ Cardinality(used(t)) \in Nat
PROOF
<1>1. 0 \in Int /\ N_TTES_PER_SECTOR - 1 \in Int /\ N_TTES_PER_SECTOR \in Nat \ {0}
  BY SizesAssumption
<1>2. IsFiniteSet(Slots) /\ Cardinality(Slots) = N_TTES_PER_SECTOR
  BY <1>1, FS_Interval DEF Slots
<1>3. \A t : used(t) \subseteq Slots
  BY DEF used
<1> QED
  BY <1>2, <1>3, FS_Subset, FS_CardinalityType

(* While fewer slots are in use than may be, the search for a free one     *)
(* ends, and passes only slots that are in use.                            *)
LEMMA FirstFree ==
  ASSUME NEW t, NEW a \in Addrs, Cardinality(used(t)) < N_TTES_PER_SECTOR_USABLE
  PROVE  /\ first_free(t, a) \in Slots \ used(t)
         /\ \E d \in Slots : /\ first_free(t, a) = probe(a, d)
                            /\ \A e \in 0 .. d - 1 : probe(a, e) \in used(t)
PROOF
<1> DEFINE F == {d \in Slots : t[probe(a, d)].status # "InUse"}
<1>1. PICK j \in Slots : j \notin used(t)
  <2>1. used(t) # Slots
    BY SlotsFinite, SizesAssumption
  <2> QED
    BY <2>1 DEF used
<1>2. F # {} /\ F \in SUBSET Nat
  BY <1>1, ProbePermutes DEF used, Slots
<1>3. Min(F) \in F /\ \A d \in F : Min(F) <= d
  BY <1>2, MinIsLeast
<1>4. \A e \in 0 .. Min(F) - 1 : e \in Slots /\ e \notin F
  BY <1>3, SizesAssumption DEF Slots
<1> QED
  BY <1>3, <1>4, ProbePermutes DEF first_free, used

-----------------------------------------------------------------------------
(* A sector *)

(* The classes of a translation are lists of the sector. *)
LEMMA ClassesAreLists ==
  ASSUME NEW vge \in Blocks
  PROVE  vexGuestExtents_to_eclasses(vge) \subseteq EClasses
PROOF
<1>1. ASSUME NEW x \in Extent PROVE range_to_eclass(x) \in EClasses
  <2>1. x.base \in Nat /\ x.base \div ECLASS_SIZE \in Nat
    BY DivMod, SizesAssumption DEF Extent
  <2>2. bin(x.base) \in 0 .. ECLASS_MISC - 1
    BY <2>1, DivMod, SizesAssumption DEF bin
  <2> QED
    BY <2>2, SizesAssumption DEF range_to_eclass, EClasses
<1>2. \A i \in 1 .. Len(vge) : vge[i] \in Extent
  BY BlocksAssumption DEF IsVexGuestExtents
<1> QED
  BY <1>1, <1>2, SizesAssumption DEF vexGuestExtents_to_eclasses

(* A slot number is never the mark of a deleted list element. *)
LEMMA DeletedIsNoSlot == EC2TTE_DELETED \notin Slots /\ EC2TTE_DELETED \in Nat
PROOF
  BY SizesAssumption DEF EC2TTE_DELETED, Slots

(* initialiseSector makes a sane sector, whatever is left in its tc. *)
LEMMA NewSectorOK ==
  ASSUME NEW code \in [Quads -> HostCode]
  PROVE  SectorOK([k \in Slots |-> Empty], [e \in EClasses |-> <<>>], code, 0, 0)
PROOF
<1> DEFINE t0 == [k \in Slots |-> Empty]
<1> DEFINE ec0 == [e \in EClasses |-> <<>>]
<1>1. used(t0) = {}
  BY DEF used, Empty
<1>2. Counted(t0, 0)
  BY <1>1, FS_EmptySet DEF Counted
<1>3. SectorTypes(t0, ec0, code, 0, 0)
  BY SizesAssumption DEF SectorTypes, IsTTEntry, Empty
<1>4. LinkedBack(t0, ec0)
  BY DEF LinkedBack
<1> QED
  BY <1>1, <1>2, <1>3, <1>4 DEF SectorOK, LinkedForth, Chained, Coded

(* The parts of add_to_transtab: the new tt entry, tt, lists and tc. *)
new_tte(a, vge, q, ec) ==
  [status |-> "InUse", entry |-> a, vge |-> vge, tcptr |-> q,
   tte2ec |-> [e \in vexGuestExtents_to_eclasses(vge) |-> Len(ec[e]) + 1]]

added_tt(t, a, tte) == [t EXCEPT ![first_free(t, a)] = tte]

added_ec(ec, vge, k) ==
  [e \in EClasses |-> IF e \in vexGuestExtents_to_eclasses(vge) THEN Append(ec[e], k)
                      ELSE ec[e]]

added_tc(code, q, reqdQ, a, vge) ==
  [p \in Quads |-> IF p = q THEN [entry |-> a, vge |-> vge]
                   ELSE IF p \in q + 1 .. q + reqdQ - 1 THEN NoCode
                   ELSE code[p]]

(* Adding a translation to a sector that is not full keeps it sane. *)
LEMMA AddKeepsSector ==
  ASSUME NEW t, NEW ec, NEW code, NEW q, NEW n, SectorOK(t, ec, code, q, n),
         NEW a \in Addrs, NEW vge \in Blocks, NEW reqdQ \in CodeSizes,
         q + reqdQ <= tc_sector_szQ, n < N_TTES_PER_SECTOR_USABLE
  PROVE  /\ first_free(t, a) \in Slots \ used(t)
         /\ used(added_tt(t, a, new_tte(a, vge, q, ec))) = used(t) \cup {first_free(t, a)}
         /\ SectorOK(added_tt(t, a, new_tte(a, vge, q, ec)),
                     added_ec(ec, vge, first_free(t, a)),
                     added_tc(code, q, reqdQ, a, vge), q + reqdQ, n + 1)
PROOF
<1> USE DEF added_tt, new_tte, added_ec, added_tc
<1> DEFINE k == first_free(t, a)
<1> DEFINE cs == vexGuestExtents_to_eclasses(vge)
<1> DEFINE tte == new_tte(a, vge, q, ec)
<1> DEFINE hcode == [entry |-> a, vge |-> vge]
<1> DEFINE t1 == added_tt(t, a, tte)
<1> DEFINE ec1 == added_ec(ec, vge, k)
<1> DEFINE code1 == added_tc(code, q, reqdQ, a, vge)
<1>1. /\ SectorTypes(t, ec, code, q, n) /\ Counted(t, n) /\ LinkedForth(t, ec)
      /\ LinkedBack(t, ec) /\ Chained(t) /\ Coded(t, code, q)
  BY DEF SectorOK
<1>2. /\ k \in Slots \ used(t)
      /\ \E d \in Slots : k = probe(a, d) /\ \A e \in 0 .. d - 1 : probe(a, e) \in used(t)
  BY <1>1, FirstFree DEF Counted
<1>3. reqdQ \in 1 .. tc_sector_szQ /\ q \in Quads /\ q \in Nat
  BY <1>1, SizesAssumption DEF SectorTypes, Quads
<1>4. cs \subseteq EClasses
  BY ClassesAreLists
<1>5. /\ DOMAIN t1 = Slots /\ t1[k] = tte
      /\ \A j \in Slots : j # k => t1[j] = t[j]
  BY <1>1, <1>2 DEF SectorTypes
<1>6. used(t1) = used(t) \cup {k}
  BY <1>2, <1>5 DEF used
<1>7. \A e \in EClasses : ec[e] \in Seq(Slots \cup {EC2TTE_DELETED})
  BY <1>1 DEF SectorTypes
<1>8. /\ \A e \in EClasses \ cs : ec1[e] = ec[e]
      /\ \A e \in cs : /\ DOMAIN ec1[e] = DOMAIN ec[e] \cup {Len(ec[e]) + 1}
                       /\ ec1[e][Len(ec[e]) + 1] = k
                       /\ Len(ec[e]) + 1 \notin DOMAIN ec[e]
                       /\ \A ix \in DOMAIN ec[e] : ec1[e][ix] = ec[e][ix]
  <2>1. ASSUME NEW e \in cs
        PROVE  /\ ec1[e] = Append(ec[e], k) /\ ec[e] \in Seq(Slots \cup {EC2TTE_DELETED})
    BY <1>4, <1>7
  <2> HIDE DEF ec1
  <2>2. \A e \in cs : /\ DOMAIN ec1[e] = DOMAIN ec[e] \cup {Len(ec[e]) + 1}
                      /\ ec1[e][Len(ec[e]) + 1] = k
                      /\ Len(ec[e]) + 1 \notin DOMAIN ec[e]
                      /\ \A ix \in DOMAIN ec[e] : ec1[e][ix] = ec[e][ix]
    BY <1>2, <2>1
  <2> QED
    BY <2>2 DEF ec1
<1> HIDE DEF t1
<1>9. SectorTypes(t1, ec1, code1, q + reqdQ, n + 1)
  <2>1. \A j \in Slots : IsTTEntry(t1[j])
    BY <1>1, <1>3, <1>5 DEF SectorTypes, IsTTEntry
  <2>2. ec1 \in [EClasses -> Seq(Slots \cup {EC2TTE_DELETED})]
    BY <1>2, <1>4, <1>7
  <2>3. hcode \in HostCode /\ NoCode \in HostCode
    BY DEF HostCode
  <2>4. code1 \in [Quads -> HostCode]
    BY <1>1, <2>3 DEF SectorTypes
  <2>5. q + reqdQ \in 0 .. tc_sector_szQ /\ n + 1 \in 0 .. N_TTES_PER_SECTOR_USABLE
    BY <1>1, <1>3, SizesAssumption DEF SectorTypes
  <2> QED
    BY <1>5, <2>1, <2>2, <2>4, <2>5 DEF SectorTypes
<1> HIDE DEF ec1
<1>10. Counted(t1, n + 1)
  <2>1. Cardinality(used(t) \cup {k}) = Cardinality(used(t)) + 1
    BY <1>2, SlotsFinite, FS_AddElement
  <2> QED
    BY <1>1, <1>6, <2>1 DEF Counted
<1>11. LinkedForth(t1, ec1)
  <2>1. \A e \in cs : t1[k].tte2ec[e] \in DOMAIN ec1[e] /\ ec1[e][t1[k].tte2ec[e]] = k
    BY <1>5, <1>8
  <2>2. DOMAIN t1[k].tte2ec = cs /\ t1[k].vge = vge
    BY <1>5
  <2>3. ASSUME NEW j \in used(t), NEW e \in DOMAIN t[j].tte2ec
        PROVE  t[j].tte2ec[e] \in DOMAIN ec1[e] /\ ec1[e][t[j].tte2ec[e]] = j
    <3>0. t[j].vge \in Blocks
      BY <1>1 DEF SectorTypes, IsTTEntry, used, Empty, Deleted
    <3>1. e \in EClasses
      BY <1>1, <3>0, ClassesAreLists DEF LinkedForth
    <3> QED
      BY <1>1, <1>8, <3>1 DEF LinkedForth
  <2>4. \A j \in used(t) : t1[j] = t[j]
    BY <1>2, <1>5 DEF used
  <2>5. \A j \in used(t) : DOMAIN t1[j].tte2ec = vexGuestExtents_to_eclasses(t1[j].vge)
    BY <1>1, <2>4 DEF LinkedForth
  <2> QED
    BY <1>6, <2>1, <2>2, <2>3, <2>4, <2>5 DEF LinkedForth
<1>12. LinkedBack(t1, ec1)
  <2>1. \A j \in used(t) : t1[j] = t[j]
    BY <1>2, <1>5 DEF used
  <2>2. DOMAIN t1[k].tte2ec = cs /\ \A e \in cs : t1[k].tte2ec[e] = Len(ec[e]) + 1
    BY <1>5
  <2>3. \A e \in EClasses : \A ix \in DOMAIN ec[e] : ec[e][ix] # EC2TTE_DELETED =>
           /\ ec[e][ix] \in used(t1) /\ e \in DOMAIN t1[ec[e][ix]].tte2ec
           /\ t1[ec[e][ix]].tte2ec[e] = ix
    BY <1>1, <1>6, <2>1 DEF LinkedBack
  <2> QED
    BY <1>4, <1>6, <1>8, <2>2, <2>3 DEF LinkedBack
<1>13. Chained(t1)
  <2>1. \A j \in Slots : t[j] # Empty => t1[j] # Empty
    BY <1>5 DEF Empty
  <2>2. ASSUME NEW j \in used(t) PROVE \E d \in Slots : reaches(t1, j, d)
    <3>1. PICK d \in Slots : reaches(t, j, d)
      BY <1>1 DEF Chained
    <3>2. t1[j] = t[j] /\ t[j].entry \in Addrs
      BY <1>1, <1>2, <1>5 DEF used, SectorTypes, IsTTEntry, Empty, Deleted
    <3>3. \A e \in 0 .. d - 1 : e \in Slots
      BY SizesAssumption DEF Slots
    <3> QED
      <4>1. \A e \in 0 .. d - 1 : probe(t[j].entry, e) \in Slots
        BY <3>2, <3>3, ProbePermutes
      <4> QED
        BY <2>1, <3>1, <3>2, <4>1 DEF reaches
  <2>3. \E d \in Slots : reaches(t1, k, d)
    <3>1. PICK d \in Slots :
            k = probe(a, d) /\ \A e \in 0 .. d - 1 : probe(a, e) \in used(t)
      BY <1>2
    <3>2. \A j \in used(t) : j \in Slots /\ t[j] # Empty
      BY DEF used, Empty
    <3>3. t1[k].entry = a
      BY <1>5
    <3> QED
      BY <2>1, <3>1, <3>2, <3>3 DEF reaches
  <2> QED
    BY <1>6, <2>2, <2>3 DEF Chained
<1>14. Coded(t1, code1, q + reqdQ)
  <2>1. t1[k].tcptr = q /\ t1[k].entry = a /\ t1[k].vge = vge
    BY <1>5
  <2>2. ASSUME NEW j \in used(t)
        PROVE  /\ t1[j] = t[j] /\ t[j].tcptr < q /\ t[j].tcptr \in Quads
               /\ code1[t[j].tcptr] = code[t[j].tcptr]
    <3>1. t1[j] = t[j] /\ t[j].tcptr \in Quads
      BY <1>1, <1>2, <1>5 DEF used, SectorTypes, IsTTEntry, Empty, Deleted
    <3>2. t[j].tcptr < q
      BY <1>1 DEF Coded
    <3> QED
      BY <1>3, <3>1, <3>2 DEF Quads
  <2>3. code1[q] = hcode
    BY <1>3
  <2> HIDE DEF code1
  <2>4. ASSUME NEW j \in used(t)
        PROVE  /\ t1[j].tcptr < q + reqdQ
               /\ code1[t1[j].tcptr] = [entry |-> t1[j].entry, vge |-> t1[j].vge]
    <3>1. t[j].tcptr \in Nat
      BY <2>2 DEF Quads
    <3>2. code[t[j].tcptr] = [entry |-> t[j].entry, vge |-> t[j].vge]
      BY <1>1 DEF Coded
    <3> QED
      BY <1>3, <2>2, <3>1, <3>2
  <2>5. /\ t1[k].tcptr < q + reqdQ
        /\ code1[t1[k].tcptr] = [entry |-> t1[k].entry, vge |-> t1[k].vge]
    BY <1>3, <2>1, <2>3
  <2> QED
    BY <1>6, <2>4, <2>5 DEF Coded
<1> QED
  BY <1>2, <1>6, <1>9, <1>10, <1>11, <1>12, <1>13, <1>14 DEF SectorOK, t1, ec1

(* A range that overlaps a translation in use makes its slot one that the  *)
(* discard looks at: no translation is missed because of its class.        *)
LEMMA DiscardMissesNothing ==
  ASSUME NEW s \in Sectors, NEW r \in Extent, NEW k \in used(tt[s]),
         SectorOK(tt[s], ec2tte[s], tc[s], tc_next[s], tt_n_inuse[s]),
         overlaps(r, tt[s][k].vge)
  PROVE  k \in candidates(s, r)
PROOF
<1> DEFINE vge == tt[s][k].vge
<1> DEFINE cs == vexGuestExtents_to_eclasses(vge)
<1> DEFINE ec == range_to_eclass(r)
<1>1. k \in Slots
  BY DEF used
<1>2. SUFFICES ASSUME r.len < ECLASS_SIZE, ec # ECLASS_MISC
               PROVE  k \in Range(ec2tte[s][ec]) \cup Range(ec2tte[s][ECLASS_MISC])
  BY <1>1, DeletedIsNoSlot DEF candidates
<1>3. vge \in Blocks
  BY DEF SectorOK, SectorTypes, IsTTEntry, used, Empty, Deleted
<1>4. \A e \in cs : k \in Range(ec2tte[s][e])
  BY DEF SectorOK, LinkedForth, Range
<1>5. PICK i \in 1 .. Len(vge) : overlap1(r, vge[i])
  BY DEF overlaps
<1>6. vge[i] \in Extent /\ vge[i].len <= ECLASS_SIZE * (ECLASS_MISC - 1)
  BY <1>3, BlocksAssumption DEF IsVexGuestExtents
<1> HIDE DEF vge
<1>7. CASE ECLASS_MISC \in cs
  BY <1>4, <1>7
<1>8. CASE ECLASS_MISC \notin cs
  <2>1. /\ cs = {range_to_eclass(vge[j]) : j \in 1 .. Len(vge)}
        /\ range_to_eclass(vge[i]) \in cs
    BY <1>8 DEF vexGuestExtents_to_eclasses
  <2>2. range_to_eclass(vge[i]) = ec
    BY <1>2, <1>5, <1>6, <1>8, <2>1, OverlapSharesBin
  <2> QED
    BY <1>4, <2>1, <2>2
<1> QED
  BY <1>7, <1>8

(* A sequence made by changing elements is one, with the same domain. *)
LEMMA ChangedSeq ==
  ASSUME NEW S, NEW q \in Seq(S), NEW f, f = [ix \in 1 .. Len(q) |-> f[ix]],
         \A ix \in 1 .. Len(q) : f[ix] \in S
  PROVE  f \in Seq(S) /\ DOMAIN f = DOMAIN q
PROOF
<1>1. Len(q) \in Nat /\ DOMAIN q = 1 .. Len(q)
  OBVIOUS
<1>2. f \in [1 .. Len(q) -> S]
  OBVIOUS
<1> QED
  BY <1>1, <1>2, SeqDef

(* The parts of discard_translations: tt and lists without those in D. *)
deleted_tt(t, D) == [k \in Slots |-> IF k \in D THEN Deleted ELSE t[k]]

deleted_ec(t, ec, D) ==
  [e \in EClasses |-> [ix \in 1 .. Len(ec[e]) |->
     IF \E k \in D : e \in DOMAIN t[k].tte2ec /\ t[k].tte2ec[e] = ix
     THEN EC2TTE_DELETED ELSE ec[e][ix]]]

(* Deleting the translations in D from a sector, with the list elements    *)
(* they point at, keeps the sector sane, if the code that is discarded is  *)
(* only theirs.                                                            *)
LEMMA DeleteKeepsSector ==
  ASSUME NEW t, NEW ec, NEW code, NEW q, NEW n, SectorOK(t, ec, code, q, n),
         NEW D \in SUBSET used(t),
         NEW code1 \in [Quads -> HostCode],
         \A k \in used(t) \ D : code1[t[k].tcptr] = code[t[k].tcptr]
  PROVE  /\ used(deleted_tt(t, D)) = used(t) \ D
         /\ SectorOK(deleted_tt(t, D), deleted_ec(t, ec, D), code1, q, n - Cardinality(D))
PROOF
<1> DEFINE t1 == deleted_tt(t, D)
<1> DEFINE ec1 == deleted_ec(t, ec, D)
<1>1. /\ SectorTypes(t, ec, code, q, n) /\ Counted(t, n) /\ LinkedForth(t, ec)
      /\ LinkedBack(t, ec) /\ Chained(t) /\ Coded(t, code, q)
  BY DEF SectorOK
<1>2. /\ \A k \in D : t1[k] = Deleted
      /\ \A k \in Slots \ D : t1[k] = t[k]
      /\ DOMAIN t1 = Slots
  BY DEF used, deleted_tt
<1> HIDE DEF t1
<1>3. used(t1) = used(t) \ D
  BY <1>2 DEF used, Deleted
<1>4. \A k \in used(t1) : t1[k] = t[k] /\ k \in used(t) /\ k \notin D /\ k \in Slots
  BY <1>2, <1>3 DEF used
<1>5. \A e \in EClasses :
        /\ ec1[e] \in Seq(Slots \cup {EC2TTE_DELETED}) /\ DOMAIN ec1[e] = DOMAIN ec[e]
        /\ \A ix \in DOMAIN ec[e] : ec1[e][ix] =
             IF \E k \in D : e \in DOMAIN t[k].tte2ec /\ t[k].tte2ec[e] = ix
             THEN EC2TTE_DELETED ELSE ec[e][ix]
  <2> TAKE e \in EClasses
  <2>1. ec[e] \in Seq(Slots \cup {EC2TTE_DELETED}) /\ DOMAIN ec[e] = 1 .. Len(ec[e])
    BY <1>1 DEF SectorTypes
  <2>2. /\ ec1[e] = [ix \in 1 .. Len(ec[e]) |-> ec1[e][ix]]
        /\ \A ix \in 1 .. Len(ec[e]) : ec1[e][ix] =
             IF \E k \in D : e \in DOMAIN t[k].tte2ec /\ t[k].tte2ec[e] = ix
             THEN EC2TTE_DELETED ELSE ec[e][ix]
    BY DEF deleted_ec
  <2> HIDE DEF ec1
  <2>3. ASSUME NEW ix \in 1 .. Len(ec[e])
        PROVE  ec1[e][ix] \in Slots \cup {EC2TTE_DELETED}
    <3>1. ec[e][ix] \in Slots \cup {EC2TTE_DELETED}
      BY <2>1
    <3>2. ec1[e][ix] \in {EC2TTE_DELETED, ec[e][ix]}
      BY <2>2
    <3> QED
      BY <3>1, <3>2
  <2> QED
    BY <2>1, <2>2, <2>3, ChangedSeq
<1>6. IsFiniteSet(D) /\ Cardinality(D) \in Nat /\ Cardinality(D) <= Cardinality(used(t))
      /\ Cardinality(used(t) \ D) = Cardinality(used(t)) - Cardinality(D)
  <2>1. IsFiniteSet(used(t)) /\ IsFiniteSet(D) /\ Cardinality(D) <= Cardinality(used(t))
    BY SlotsFinite, FS_Subset
  <2>2. used(t) \cap D = D
    OBVIOUS
  <2> QED
    BY <2>1, <2>2, FS_CardinalityType, FS_Difference, ZenonT(40)
<1>7. Counted(t1, n - Cardinality(D)) /\ n - Cardinality(D) \in 0 .. N_TTES_PER_SECTOR_USABLE
  <2>1. Counted(t1, n - Cardinality(D))
    BY <1>1, <1>3, <1>6 DEF Counted
  <2>2. n \in 0 .. N_TTES_PER_SECTOR_USABLE /\ n = Cardinality(used(t))
    BY <1>1 DEF Counted, SectorTypes
  <2> QED
    BY <1>6, <2>1, <2>2, SizesAssumption
<1>8. SectorTypes(t1, ec1, code1, q, n - Cardinality(D))
  <2>1. \A k \in Slots : IsTTEntry(t1[k])
    BY <1>1, <1>2 DEF SectorTypes, IsTTEntry
  <2>2. ec1 \in [EClasses -> Seq(Slots \cup {EC2TTE_DELETED})]
    BY <1>5 DEF deleted_ec
  <2> QED
    BY <1>1, <1>2, <1>7, <2>1, <2>2 DEF SectorTypes
<1> HIDE DEF ec1
<1>9. \A k \in used(t) : \A e \in DOMAIN t[k].tte2ec : e \in EClasses
  <2>1. \A k \in used(t) : t[k].vge \in Blocks
    BY <1>1 DEF SectorTypes, IsTTEntry, used, Empty, Deleted
  <2> QED
    BY <1>1, <2>1, ClassesAreLists DEF LinkedForth
<1>10. LinkedForth(t1, ec1)
  <2> SUFFICES ASSUME NEW k \in used(t1)
               PROVE  /\ DOMAIN t1[k].tte2ec = vexGuestExtents_to_eclasses(t1[k].vge)
                      /\ \A e \in DOMAIN t1[k].tte2ec :
                           /\ t1[k].tte2ec[e] \in DOMAIN ec1[e]
                           /\ ec1[e][t1[k].tte2ec[e]] = k
    BY DEF LinkedForth
  <2>1. k \in used(t) /\ k \notin D /\ t1[k] = t[k]
    BY <1>4
  <2>2. \A e \in DOMAIN t[k].tte2ec : \A j \in D :
          ~(e \in DOMAIN t[j].tte2ec /\ t[j].tte2ec[e] = t[k].tte2ec[e])
    BY <1>1, <2>1 DEF LinkedForth
  <2>3. ASSUME NEW e \in DOMAIN t[k].tte2ec
        PROVE  t[k].tte2ec[e] \in DOMAIN ec1[e] /\ ec1[e][t[k].tte2ec[e]] = k
    <3>1. t[k].tte2ec[e] \in DOMAIN ec[e] /\ ec[e][t[k].tte2ec[e]] = k /\ e \in EClasses
      BY <1>1, <1>9, <2>1 DEF LinkedForth
    <3> QED
      BY <1>5, <2>2, <3>1
  <2>4. DOMAIN t[k].tte2ec = vexGuestExtents_to_eclasses(t[k].vge)
    BY <1>1, <2>1 DEF LinkedForth
  <2> QED
    BY <2>1, <2>3, <2>4
<1>11. LinkedBack(t1, ec1)
  <2> SUFFICES ASSUME NEW e \in EClasses, NEW ix \in DOMAIN ec1[e],
                      ec1[e][ix] # EC2TTE_DELETED
               PROVE  /\ ec1[e][ix] \in used(t1) /\ e \in DOMAIN t1[ec1[e][ix]].tte2ec
                      /\ t1[ec1[e][ix]].tte2ec[e] = ix
    BY DEF LinkedBack
  <2> DEFINE k == ec[e][ix]
  <2>1. /\ ix \in DOMAIN ec[e] /\ ec1[e][ix] = k
        /\ ~ \E j \in D : e \in DOMAIN t[j].tte2ec /\ t[j].tte2ec[e] = ix
    BY <1>5
  <2>2. k \in used(t) /\ e \in DOMAIN t[k].tte2ec /\ t[k].tte2ec[e] = ix
    BY <1>1, <2>1 DEF LinkedBack
  <2>3. k \notin D
    BY <2>1, <2>2
  <2> QED
    BY <1>3, <1>4, <2>1, <2>2, <2>3
<1>12. Chained(t1)
  <2> SUFFICES ASSUME NEW k \in used(t1) PROVE \E d \in Slots : reaches(t1, k, d)
    BY DEF Chained
  <2>1. PICK d \in Slots : reaches(t, k, d)
    BY <1>1, <1>4 DEF Chained
  <2>2. \A j \in Slots : t[j] # Empty => t1[j] # Empty
    BY <1>2 DEF Empty, Deleted
  <2>3. t1[k] = t[k] /\ t[k].entry \in Addrs
    BY <1>1, <1>4 DEF used, SectorTypes, IsTTEntry, Empty, Deleted
  <2>4. \A e \in 0 .. d - 1 : e \in Slots
    BY SizesAssumption DEF Slots
  <2> QED
    BY <2>1, <2>2, <2>3, <2>4, ProbePermutes DEF reaches
<1>13. Coded(t1, code1, q)
  BY <1>1, <1>3, <1>4 DEF Coded
<1> QED
  BY <1>3, <1>7, <1>8, <1>10, <1>11, <1>12, <1>13 DEF SectorOK, t1, ec1

-----------------------------------------------------------------------------
(* All sectors *)

(* The first search after start-up finds nothing, in sectors all empty.    *)
LEMMA TInvInit == Init => TInv
PROOF
<1> SUFFICES ASSUME Init PROVE TInv
  OBVIOUS
<1>1. \A s \in Sectors : /\ tt[s] = [k \in Slots |-> Empty] /\ tc[s] \in [Quads -> HostCode]
                        /\ ec2tte[s] = [e \in EClasses |-> <<>>]
                        /\ tc_next[s] = 0 /\ tt_n_inuse[s] = 0
  BY DEF Init, HostCode
<1>2. SectorsOK
  BY <1>1, NewSectorOK DEF SectorsOK
<1>3. \A s \in Sectors : used(tt[s]) = {}
  BY <1>1 DEF used, Empty
<1>4. Tables
  BY <1>3, SizesAssumption, SMTT(30) DEF Tables, Init, Sectors
<1>5. FastPoints
  BY DEF FastPoints, Init, invalidateFastCache
<1> QED
  BY <1>2, <1>3, <1>4, <1>5 DEF TInv, OneEach, RedirsHonoured

(* A translation in use is a description of a block, for an address.       *)
LEMMA UsedTypes ==
  ASSUME TInv, NEW s \in Sectors, NEW k \in used(tt[s])
  PROVE  /\ k \in Slots /\ s \in inited
         /\ tt[s][k].status = "InUse" /\ tt[s][k].entry \in Addrs
         /\ tt[s][k].vge \in Blocks /\ tt[s][k].tcptr \in Quads
         /\ tc[s][tt[s][k].tcptr] = [entry |-> tt[s][k].entry, vge |-> tt[s][k].vge]
PROOF
<1>1. SectorOK(tt[s], ec2tte[s], tc[s], tc_next[s], tt_n_inuse[s])
  BY DEF TInv, SectorsOK
<1> QED
  BY <1>1 DEF SectorOK, SectorTypes, Coded, IsTTEntry, used, Empty, Deleted, TInv, Tables

(* search_transtab finds a translation exactly if it is in use.            *)
LEMMA SearchFinds ==
  ASSUME TInv, NEW s \in Sectors, NEW k \in used(tt[s]), NEW a, a = tt[s][k].entry
  PROVE  found(a) /\ search_transtab(a) = <<s, k>>
PROOF
<1>1. s \in inited /\ a \in Addrs /\ k \in Slots
  BY UsedTypes
<1>2. PICK d \in Slots : reaches(tt[s], k, d)
  BY DEF TInv, SectorsOK, SectorOK, Chained
<1>3. hits(s, a) = {d}
  <2>1. d \in hits(s, a)
    BY <1>2 DEF hits, reaches, used
  <2>2. ASSUME NEW e \in hits(s, a) PROVE e = d
    <3>1. e \in Slots /\ probe(a, e) \in used(tt[s]) /\ tt[s][probe(a, e)].entry = a
      BY <1>1, ProbePermutes DEF hits, used
    <3>2. probe(a, e) = k
      BY <3>1 DEF TInv, OneEach
    <3> QED
      BY <1>1, <1>2, <3>1, <3>2, ProbePermutes DEF reaches
  <2> QED
    BY <2>1, <2>2
<1>4. search_sectors(a) = {s}
  <2>1. ASSUME NEW u \in search_sectors(a) PROVE u = s
    <3>1. PICK e \in Slots : tt[u][probe(a, e)].status = "InUse" /\ tt[u][probe(a, e)].entry = a
      BY DEF search_sectors, hits
    <3>2. u \in Sectors /\ probe(a, e) \in used(tt[u])
      BY <1>1, <3>1, ProbePermutes DEF search_sectors, TInv, Tables, used
    <3> QED
      BY <3>1, <3>2 DEF TInv, OneEach
  <2>2. s \in search_sectors(a)
    BY <1>1, <1>3 DEF search_sectors
  <2> QED
    BY <2>1, <2>2
<1>5. Min({d}) = d
  BY MinIsLeast DEF Slots
<1>6. \A u \in {s} : age(s) <= age(u)
  BY SizesAssumption DEF age, TInv, Tables, Sectors
<1>7. (CHOOSE u \in search_sectors(a) : \A v \in search_sectors(a) : age(u) <= age(v)) = s
  BY <1>4, <1>6
<1>8. search_transtab(a) = <<s, probe(a, Min(hits(s, a)))>>
  BY <1>7 DEF search_transtab
<1> QED
  BY <1>2, <1>3, <1>4, <1>5, <1>8 DEF found, reaches

(* And what it finds is in use for the address.                            *)
LEMMA FoundIsUsed ==
  ASSUME TInv, NEW a \in Addrs, found(a)
  PROVE  \E s \in Sectors : \E k \in used(tt[s]) :
           tt[s][k].entry = a /\ search_transtab(a) = <<s, k>>
PROOF
<1>1. PICK s \in inited : hits(s, a) # {}
  BY DEF found, search_sectors
<1>2. PICK d \in Slots : tt[s][probe(a, d)].status = "InUse" /\ tt[s][probe(a, d)].entry = a
  BY <1>1 DEF hits
<1>3. s \in Sectors /\ probe(a, d) \in used(tt[s])
  BY <1>2, ProbePermutes DEF TInv, Tables, used
<1> QED
  BY <1>2, <1>3, SearchFinds

(* Adding a translation for an address that is in no sector.               *)
LEMMA AddStep ==
  ASSUME TInv, NEW a \in Addrs, ~found(a), NEW vge \in Blocks, NEW reqdQ \in CodeSizes,
         vge[1].base = redir_do_lookup(a), add_to_transtab(vge, a, reqdQ), active' = active
  PROVE  TInv'
PROOF
<1> DEFINE moves == youngest_sector \in inited /\ sector_full(youngest_sector, reqdQ)
<1> DEFINE y == IF moves THEN next_sector(youngest_sector) ELSE youngest_sector
<1> DEFINE fresh == moves \/ y \notin inited
<1> DEFINE t0 == IF fresh THEN [j \in Slots |-> Empty] ELSE tt[y]
<1> DEFINE ec0 == IF fresh THEN [e \in EClasses |-> <<>>] ELSE ec2tte[y]
<1> DEFINE q == IF fresh THEN 0 ELSE tc_next[y]
<1> DEFINE n == IF fresh THEN 0 ELSE tt_n_inuse[y]
<1> DEFINE k == first_free(t0, a)
<1> DEFINE tte == new_tte(a, vge, q, ec0)
<1> DEFINE t1 == added_tt(t0, a, tte)
<1> DEFINE ec1 == added_ec(ec0, vge, k)
<1> DEFINE code1 == added_tc(tc[y], q, reqdQ, a, vge)
(* What the step does, in these names. *)
<1>1. /\ youngest_sector' = y /\ inited' = inited \cup {y}
      /\ tt' = [tt EXCEPT ![y] = t1] /\ ec2tte' = [ec2tte EXCEPT ![y] = ec1]
      /\ tc' = [tc EXCEPT ![y] = code1] /\ tc_next' = [tc_next EXCEPT ![y] = q + reqdQ]
      /\ tt_n_inuse' = [tt_n_inuse EXCEPT ![y] = n + 1]
      /\ tt_fast' = setFastCacheEntry(recycled_fast(fresh), a, y, k, q)
  BY DEF add_to_transtab, added_tt, new_tte, added_ec, added_tc
<1>2. y \in Sectors
  BY SizesAssumption DEF TInv, Tables, next_sector, Sectors
<1>3. SectorOK(t0, ec0, tc[y], q, n)
  <2>1. SectorOK(tt[y], ec2tte[y], tc[y], tc_next[y], tt_n_inuse[y])
    BY <1>2 DEF TInv, SectorsOK
  <2>2. CASE fresh
    BY <2>1, <2>2, NewSectorOK DEF SectorOK, SectorTypes
  <2>3. CASE ~fresh
    BY <2>1, <2>3
  <2> QED
    BY <2>2, <2>3
<1>4. q + reqdQ <= tc_sector_szQ /\ n < N_TTES_PER_SECTOR_USABLE
  <2>1. reqdQ \in 1 .. tc_sector_szQ
    BY SizesAssumption
  <2>2. CASE fresh
    BY <2>1, <2>2, SizesAssumption
  <2>3. CASE ~fresh
    <3>1. ~sector_full(youngest_sector, reqdQ) /\ y = youngest_sector
      BY <2>3
    <3>2. tc_next[y] \in 0 .. tc_sector_szQ /\ tt_n_inuse[y] \in 0 .. N_TTES_PER_SECTOR_USABLE
      BY <1>3, <2>3 DEF SectorOK, SectorTypes
    <3> QED
      BY <2>1, <2>3, <3>1, <3>2, SizesAssumption DEF sector_full
  <2> QED
    BY <2>2, <2>3
<1>5. /\ k \in Slots \ used(t0) /\ used(t1) = used(t0) \cup {k}
      /\ SectorOK(t1, ec1, code1, q + reqdQ, n + 1)
  <2> HIDE DEF t0, ec0, q, n, y
  <2> QED
    BY <1>3, <1>4, AddKeepsSector
<1>6. t1[k] = tte /\ \A j \in used(t0) : t1[j] = t0[j]
  <2>1. DOMAIN t0 = Slots
    BY <1>3 DEF SectorOK, SectorTypes
  <2> HIDE DEF t0, tte
  <2> QED
    BY <1>5, <2>1 DEF used, added_tt
<1>7. /\ \A s \in Sectors \ {y} : /\ tt'[s] = tt[s] /\ ec2tte'[s] = ec2tte[s] /\ tc'[s] = tc[s]
                              /\ tc_next'[s] = tc_next[s] /\ tt_n_inuse'[s] = tt_n_inuse[s]
      /\ tt'[y] = t1 /\ ec2tte'[y] = ec1 /\ tc'[y] = code1
      /\ tc_next'[y] = q + reqdQ /\ tt_n_inuse'[y] = n + 1
      /\ DOMAIN tt' = Sectors /\ DOMAIN ec2tte' = Sectors /\ DOMAIN tc' = Sectors
      /\ DOMAIN tc_next' = Sectors /\ DOMAIN tt_n_inuse' = Sectors
  <2> HIDE DEF t1, ec1, code1, y, q, n
  <2> QED
    BY <1>1, <1>2 DEF TInv, Tables
(* Besides the new one, what is in use was in use, and is as it was. *)
<1>8. ASSUME NEW s \in Sectors, NEW j \in used(tt'[s])
      PROVE  \/ s = y /\ j = k /\ tt'[s][j] = tte
             \/ j \in used(tt[s]) /\ tt'[s][j] = tt[s][j]
  <2>1. CASE s # y
    BY <1>7, <2>1, <1>8
  <2>2. CASE s = y
    <3>1. tt'[s] = t1
      BY <1>7, <2>2
    <3>2. \A i \in used(t0) : i \in used(tt[y]) /\ t0[i] = tt[y][i]
      BY DEF used, Empty
    <3> QED
      BY <1>5, <1>6, <1>8, <2>2, <3>1, <3>2
  <2> QED
    BY <2>1, <2>2
<1>9. \A s \in Sectors : \A j \in used(tt[s]) : tt[s][j].entry # a
  BY SearchFinds
<1>10. SectorsOK'
  <2> SUFFICES ASSUME NEW s \in Sectors
               PROVE  SectorOK(tt'[s], ec2tte'[s], tc'[s], tc_next'[s], tt_n_inuse'[s])
    BY DEF SectorsOK
  <2>1. CASE s # y
    BY <1>7, <2>1 DEF TInv, SectorsOK
  <2>2. CASE s = y
    BY <1>5, <1>7, <2>2
  <2> QED
    BY <2>1, <2>2
<1> HIDE DEF y, k, q, t1
<1>11. Tables'
  <2>1. youngest_sector' \in Sectors /\ inited' \subseteq Sectors
    BY <1>1, <1>2 DEF TInv, Tables
  <2>2. \A s \in Sectors \ inited' : used(tt'[s]) = {}
    BY <1>1, <1>7 DEF TInv, Tables
  <2> QED
    BY <1>7, <2>1, <2>2 DEF TInv, Tables
<1>12. tte.entry = a /\ tte.vge = vge /\ tte.tcptr = q
  BY DEF new_tte
<1> HIDE DEF tte
<1>13. OneEach'
  <2> SUFFICES ASSUME NEW s \in Sectors, NEW u \in Sectors,
                      NEW i \in used(tt'[s]), NEW j \in used(tt'[u]),
                      tt'[s][i].entry = tt'[u][j].entry
               PROVE  s = u /\ i = j
    BY DEF OneEach
  <2>1. \/ s = y /\ i = k /\ tt'[s][i] = tte
        \/ i \in used(tt[s]) /\ tt'[s][i] = tt[s][i]
    BY <1>8
  <2>2. \/ u = y /\ j = k /\ tt'[u][j] = tte
        \/ j \in used(tt[u]) /\ tt'[u][j] = tt[u][j]
    BY <1>8
  <2> QED
    BY <1>9, <1>12, <2>1, <2>2 DEF TInv, OneEach
<1>14. RedirsHonoured'
  <2> SUFFICES ASSUME NEW s \in Sectors, NEW j \in used(tt'[s])
               PROVE  tt'[s][j].vge[1].base = redir_do_lookup(tt'[s][j].entry)
    BY DEF RedirsHonoured, redir_do_lookup
  <2> QED
    BY <1>8, <1>12 DEF TInv, RedirsHonoured
<1>15. FastPoints'
  <2>1. \A c \in Fast : recycled_fast(fresh)[c] # NoFast =>
          \E s \in inited : \E j \in used(tt'[s]) :
            recycled_fast(fresh)[c] =
              FastCacheEntry(tt'[s][j].entry, s, j, tt'[s][j].tcptr)
    <3>1. CASE fresh
      BY <3>1 DEF recycled_fast, invalidateFastCache
    <3>2. CASE ~fresh
      <4>1. ASSUME NEW s \in Sectors, NEW j \in used(tt[s])
            PROVE  j \in used(tt'[s]) /\ tt'[s][j] = tt[s][j]
        <5>1. CASE s # y
          BY <1>7, <5>1
        <5>2. CASE s = y
          BY <1>5, <1>6, <1>7, <3>2, <5>2
        <5> QED
          BY <5>1, <5>2
      <4> QED
        BY <3>2, <4>1 DEF recycled_fast, TInv, FastPoints, Tables
    <3> QED
      BY <3>1, <3>2
  <2>2. DOMAIN recycled_fast(fresh) = Fast
    BY DEF recycled_fast, invalidateFastCache, TInv, FastPoints
  <2>3. k \in used(tt'[y]) /\ tt'[y][k] = tte /\ y \in inited'
    BY <1>1, <1>5, <1>6, <1>7
  <2> HIDE DEF fresh
  <2>4. ASSUME NEW c \in Fast, tt_fast'[c] # NoFast
        PROVE  \E s \in inited' : \E j \in used(tt'[s]) :
                 tt_fast'[c] = FastCacheEntry(tt'[s][j].entry, s, j, tt'[s][j].tcptr)
    <3>1. CASE c = VG_TT_FAST_HASH(a)
      <4>1. tt_fast'[c] = FastCacheEntry(a, y, k, q)
        BY <1>1, <2>2, <3>1 DEF setFastCacheEntry
      <4> QED
        BY <1>12, <2>3, <4>1
    <3>2. CASE c # VG_TT_FAST_HASH(a)
      <4>1. tt_fast'[c] = recycled_fast(fresh)[c]
        BY <1>1, <2>2, <3>2 DEF setFastCacheEntry
      <4> QED
        BY <1>1, <2>1, <2>4, <4>1
    <3> QED
      BY <3>1, <3>2
  <2>5. DOMAIN tt_fast' = Fast
    BY <1>1, <2>2 DEF setFastCacheEntry
  <2> QED
    BY <2>4, <2>5 DEF FastPoints
<1> QED
  BY <1>10, <1>11, <1>13, <1>14, <1>15 DEF TInv

(* The dispatcher misses in the fast cache. *)
LEMMA MissStep ==
  ASSUME TInv, NEW a \in Addrs, handle_tt_miss(a)
  PROVE  TInv'
PROOF
<1>1. CASE found(a)
  <2>1. PICK s \in Sectors : \E k \in used(tt[s]) :
           tt[s][k].entry = a /\ search_transtab(a) = <<s, k>>
    BY <1>1, FoundIsUsed
  <2>2. PICK k \in used(tt[s]) : tt[s][k].entry = a /\ search_transtab(a) = <<s, k>>
    BY <2>1
  <2>3. s \in inited
    BY UsedTypes
  <2>4. /\ tt_fast' = setFastCacheEntry(tt_fast, a, s, k, tt[s][k].tcptr)
        /\ UNCHANGED <<sectorVars, active>>
    BY <1>1, <2>2 DEF handle_tt_miss
  <2>5. Tables' /\ SectorsOK' /\ OneEach' /\ RedirsHonoured'
    BY <2>4 DEF TInv, Tables, SectorsOK, OneEach, RedirsHonoured, redir_do_lookup, sectorVars
  <2>6. FastPoints'
    <3>1. DOMAIN tt_fast' = Fast /\ DOMAIN tt_fast = Fast
      BY <2>4 DEF TInv, FastPoints, setFastCacheEntry
    <3>2. ASSUME NEW c \in Fast, tt_fast'[c] # NoFast
          PROVE  \E u \in inited : \E j \in used(tt[u]) :
                   tt_fast'[c] = FastCacheEntry(tt[u][j].entry, u, j, tt[u][j].tcptr)
      <4>1. \/ tt_fast'[c] = FastCacheEntry(a, s, k, tt[s][k].tcptr)
            \/ tt_fast'[c] = tt_fast[c]
        BY <2>4, <3>1 DEF setFastCacheEntry
      <4> QED
        BY <2>2, <2>3, <3>2, <4>1 DEF TInv, FastPoints
    <3> QED
      BY <2>4, <3>1, <3>2 DEF FastPoints, sectorVars
  <2> QED
    BY <2>5, <2>6 DEF TInv
<1>2. CASE ~found(a)
  <2>1. PICK vge \in blocks_at(redir_do_lookup(a)), reqdQ \in CodeSizes :
          add_to_transtab(vge, a, reqdQ)
    BY <1>2 DEF handle_tt_miss
  <2>2. vge \in Blocks /\ vge[1].base = redir_do_lookup(a) /\ active' = active
    BY DEF blocks_at, handle_tt_miss
  <2> QED
    BY <1>2, <2>1, <2>2, AddStep
<1> QED
  BY <1>1, <1>2

(* The translations that a discard of rs must delete from sector s. *)
hit(rs, s) == {k \in used(tt[s]) : \E r \in rs : overlaps(r, tt[s][k].vge)}

(* What the code deletes is that: the classes hide nothing. *)
LEMMA DoomedIsHit ==
  ASSUME TInv, NEW rs \in SUBSET Extent, NEW s \in Sectors
  PROVE  doomed(rs, s) = hit(rs, s)
PROOF
<1>1. SectorOK(tt[s], ec2tte[s], tc[s], tc_next[s], tt_n_inuse[s])
  BY DEF TInv, SectorsOK
<1>2. ASSUME NEW r \in rs PROVE candidates(s, r) \subseteq Slots
  <2>1. \A e \in EClasses : Range(ec2tte[s][e]) \subseteq Slots \cup {EC2TTE_DELETED}
    <3>1. \A e \in EClasses : ec2tte[s][e] \in Seq(Slots \cup {EC2TTE_DELETED})
      BY <1>1 DEF SectorOK, SectorTypes
    <3> QED
      BY <3>1 DEF Range
  <2>2. range_to_eclass(r) \in EClasses /\ ECLASS_MISC \in EClasses
    <3>1. r.base \in Nat /\ r.base \div ECLASS_SIZE \in Nat
      BY DivMod, SizesAssumption DEF Extent
    <3>2. bin(r.base) \in 0 .. ECLASS_MISC - 1
      BY <3>1, DivMod, SizesAssumption DEF bin
    <3> QED
      BY <3>2, SizesAssumption DEF range_to_eclass, EClasses
  <2> QED
    BY <2>1, <2>2 DEF candidates
<1>3. doomed(rs, s) \subseteq hit(rs, s)
  BY <1>2 DEF doomed, hit, used, InUse
<1>4. ASSUME NEW k \in hit(rs, s) PROVE k \in doomed(rs, s)
  <2>1. PICK r \in rs : overlaps(r, tt[s][k].vge)
    BY DEF hit
  <2>2. k \in used(tt[s])
    BY DEF hit
  <2>3. k \in candidates(s, r)
    BY <1>1, <2>1, <2>2, DiscardMissesNothing
  <2> QED
    BY <2>1, <2>2, <2>3 DEF doomed, used, InUse
<1> QED
  BY <1>3, <1>4

(* A discard of the ranges rs, with a change of the redirections that      *)
(* concerns no translation it leaves.                                      *)
LEMMA DiscardStep ==
  ASSUME TInv, NEW rs \in SUBSET Extent, discard_translations(rs),
         DOMAIN active' \subseteq Addrs, \A a \in DOMAIN active' : active'[a] \in Addrs,
         \A s \in Sectors : \A k \in used(tt[s]) \ hit(rs, s) :
           tt[s][k].vge[1].base = IF tt[s][k].entry \in DOMAIN active'
                                  THEN active'[tt[s][k].entry] ELSE tt[s][k].entry
  PROVE  TInv'
PROOF
<1> DEFINE del == [s \in Sectors |-> IF s \in inited THEN doomed(rs, s) ELSE {}]
<1>1. \A s \in Sectors : del[s] = hit(rs, s)
  BY DoomedIsHit DEF TInv, Tables, hit
<1>2. /\ tt' = [s \in Sectors |-> [k \in Slots |->
                 IF k \in del[s] THEN Deleted ELSE tt[s][k]]]
      /\ ec2tte' = [s \in Sectors |-> [e \in EClasses |->
                     [ix \in 1 .. Len(ec2tte[s][e]) |-> delete_tte(s, del[s], e, ix)]]]
      /\ tt_n_inuse' = [s \in Sectors |-> tt_n_inuse[s] - Cardinality(del[s])]
      /\ tt_fast' = fast_after_discard(del)
      /\ tc' = [s \in Sectors |-> [q \in Quads |-> unwanted(tc[s][q], rs)]]
      /\ UNCHANGED <<youngest_sector, inited, tc_next>>
  BY DEF discard_translations
<1> HIDE DEF del
<1>3. ASSUME NEW s \in Sectors
      PROVE  /\ used(tt'[s]) = used(tt[s]) \ hit(rs, s)
             /\ SectorOK(tt'[s], ec2tte'[s], tc'[s], tc_next'[s], tt_n_inuse'[s])
  <2>1. SectorOK(tt[s], ec2tte[s], tc[s], tc_next[s], tt_n_inuse[s])
    BY DEF TInv, SectorsOK
  <2>2. del[s] \in SUBSET used(tt[s])
    BY <1>1 DEF hit
  <2>3. tc'[s] \in [Quads -> HostCode]
    <3>1. tc[s] \in [Quads -> HostCode]
      BY <2>1 DEF SectorOK, SectorTypes
    <3>2. \A q \in Quads : unwanted(tc[s][q], rs) \in HostCode
      BY <3>1 DEF unwanted, HostCode
    <3> QED
      BY <1>2, <3>2
  <2>4. ASSUME NEW k \in used(tt[s]) \ del[s]
        PROVE  tc'[s][tt[s][k].tcptr] = tc[s][tt[s][k].tcptr]
    <3>1. /\ tt[s][k].tcptr \in Quads
          /\ tc[s][tt[s][k].tcptr] = [entry |-> tt[s][k].entry, vge |-> tt[s][k].vge]
      BY UsedTypes
    <3>2. \A r \in rs : ~overlaps(r, tt[s][k].vge)
      BY <1>1, <2>4 DEF hit
    <3>3. unwanted(tc[s][tt[s][k].tcptr], rs) = tc[s][tt[s][k].tcptr]
      BY <3>1, <3>2 DEF unwanted
    <3> QED
      BY <1>2, <3>1, <3>3
  <2>5. tt'[s] = deleted_tt(tt[s], del[s])
    BY <1>2 DEF deleted_tt
  <2>6. ec2tte'[s] = deleted_ec(tt[s], ec2tte[s], del[s])
    BY <1>2 DEF delete_tte, deleted_ec
  <2>7. tt_n_inuse'[s] = tt_n_inuse[s] - Cardinality(del[s]) /\ tc_next'[s] = tc_next[s]
    BY <1>2
  <2> QED
    BY <1>1, <2>1, <2>2, <2>3, <2>4, <2>5, <2>6, <2>7, DeleteKeepsSector
<1>4. \A s \in Sectors : \A k \in used(tt'[s]) : k \in used(tt[s]) \ hit(rs, s) /\ tt'[s][k] = tt[s][k]
  BY <1>1, <1>2, <1>3 DEF used
<1>5. SectorsOK'
  BY <1>3 DEF SectorsOK
<1>6. Tables'
  BY <1>2, <1>3 DEF TInv, Tables
<1>7. OneEach'
  BY <1>4 DEF TInv, OneEach
<1>8. RedirsHonoured'
  BY <1>4 DEF RedirsHonoured, redir_do_lookup
<1>9. FastPoints'
  <2>1. CASE \E s \in inited : del[s] # {}
    BY <1>2, <2>1 DEF fast_after_discard, invalidateFastCache, FastPoints
  <2>2. CASE \A s \in inited : del[s] = {}
    <3>1. tt_fast' = tt_fast /\ inited' = inited
      BY <1>2, <2>2 DEF fast_after_discard
    <3>2. \A s \in inited : \A k \in used(tt[s]) : k \in used(tt'[s]) /\ tt'[s][k] = tt[s][k]
      BY <1>1, <1>3, <1>4, <2>2 DEF TInv, Tables
    <3> QED
      BY <3>1, <3>2 DEF TInv, FastPoints
  <2> QED
    BY <2>1, <2>2
<1> QED
  BY <1>5, <1>6, <1>7, <1>8, <1>9 DEF TInv

(* A one-byte range at the start of a block overlaps it. *)
LEMMA StartOverlaps ==
  ASSUME NEW b \in Blocks
  PROVE  overlaps([base |-> b[1].base, len |-> 1], b)
PROOF
<1>1. 1 \in 1 .. Len(b) /\ b[1] \in Extent
  BY BlocksAssumption DEF IsVexGuestExtents
<1>2. overlap1([base |-> b[1].base, len |-> 1], b[1])
  BY <1>1 DEF overlap1, Extent
<1> QED
  BY <1>1, <1>2 DEF overlaps

(* The ranges that a change of redirections discards are ranges. *)
LEMMA RedirRanges ==
  ASSUME NEW from \in Addrs, NEW to \in Addrs
  PROVE  redir_ranges(from, to) \in SUBSET Extent
PROOF
  BY AddrsAssumption DEF redir_ranges, Extent

(* A redirection comes into force: what was made for its source address    *)
(* starts there, and is discarded.                                         *)
LEMMA AddRedirStep ==
  ASSUME TInv, NEW d \in Redirs, maybe_add_active(d)
  PROVE  TInv'
PROOF
<1> DEFINE rs == redir_ranges(d.from, d.to)
<1>1. d.from \in Addrs /\ d.to \in Addrs /\ rs \in SUBSET Extent
  BY RedirsAssumption, RedirRanges
<1>2. /\ d.from \notin DOMAIN active /\ discard_translations(rs)
      /\ DOMAIN active' = DOMAIN active \cup {d.from}
      /\ \A a \in DOMAIN active' : active'[a] = IF a = d.from THEN d.to ELSE active[a]
  BY DEF maybe_add_active
<1>3. DOMAIN active' \subseteq Addrs /\ \A a \in DOMAIN active' : active'[a] \in Addrs
  BY <1>1, <1>2 DEF TInv, Tables
<1>4. ASSUME NEW s \in Sectors, NEW k \in used(tt[s]) \ hit(rs, s)
      PROVE  tt[s][k].vge[1].base = IF tt[s][k].entry \in DOMAIN active'
                                    THEN active'[tt[s][k].entry] ELSE tt[s][k].entry
  <2>1. tt[s][k].vge[1].base = redir_do_lookup(tt[s][k].entry) /\ tt[s][k].vge \in Blocks
    BY <1>4, UsedTypes DEF TInv, RedirsHonoured
  <2>2. tt[s][k].entry # d.from
    <3>1. SUFFICES ASSUME tt[s][k].entry = d.from PROVE FALSE
      OBVIOUS
    <3>2. tt[s][k].vge[1].base = d.from
      BY <1>2, <2>1, <3>1 DEF redir_do_lookup
    <3>3. [base |-> d.from, len |-> 1] \in rs
      BY DEF redir_ranges
    <3> QED
      BY <1>4, <2>1, <3>2, <3>3, StartOverlaps DEF hit
  <2> QED
    BY <1>2, <2>1, <2>2 DEF redir_do_lookup
<1> HIDE DEF rs
<1> QED
  BY <1>1, <1>2, <1>3, <1>4, DiscardStep

(* Redirections go: what was made under them starts at their target, and   *)
(* is discarded.                                                           *)
LEMMA DropRedirStep ==
  ASSUME TInv, NEW ds \in SUBSET DOMAIN active, redir_notify_delete_DebugInfo(ds)
  PROVE  TInv'
PROOF
<1> DEFINE rs == UNION {redir_ranges(a, active[a]) : a \in ds}
<1>1. rs \in SUBSET Extent
  <2>1. \A a \in ds : redir_ranges(a, active[a]) \in SUBSET Extent
    BY RedirRanges DEF TInv, Tables
  <2> QED
    BY <2>1
<1>2. /\ discard_translations(rs)
      /\ DOMAIN active' = DOMAIN active \ ds
      /\ \A a \in DOMAIN active' : active'[a] = active[a]
  BY DEF redir_notify_delete_DebugInfo, Restrict
<1>3. DOMAIN active' \subseteq Addrs /\ \A a \in DOMAIN active' : active'[a] \in Addrs
  BY <1>2 DEF TInv, Tables
<1>4. ASSUME NEW s \in Sectors, NEW k \in used(tt[s]) \ hit(rs, s)
      PROVE  tt[s][k].vge[1].base = IF tt[s][k].entry \in DOMAIN active'
                                    THEN active'[tt[s][k].entry] ELSE tt[s][k].entry
  <2>1. tt[s][k].vge[1].base = redir_do_lookup(tt[s][k].entry) /\ tt[s][k].vge \in Blocks
    BY <1>4, UsedTypes DEF TInv, RedirsHonoured
  <2>2. tt[s][k].entry \notin ds
    <3>1. SUFFICES ASSUME tt[s][k].entry \in ds PROVE FALSE
      OBVIOUS
    <3>2. tt[s][k].vge[1].base = active[tt[s][k].entry]
      BY <2>1, <3>1 DEF redir_do_lookup
    <3>3. [base |-> active[tt[s][k].entry], len |-> 1] \in rs
      BY <3>1 DEF redir_ranges
    <3> QED
      BY <1>4, <2>1, <3>2, <3>3, StartOverlaps DEF hit
  <2> QED
    BY <1>2, <2>1, <2>2 DEF redir_do_lookup
<1> HIDE DEF rs
<1> QED
  BY <1>1, <1>2, <1>3, <1>4, DiscardStep

-----------------------------------------------------------------------------
(* The theorems *)

(* The translation table, the class lists, the code and the fast cache     *)
(* agree with each other and with the redirections, always.                *)
THEOREM TransTabInvariant == Spec => []TInv
PROOF
<1>1. TInv /\ [Next]_vars => TInv'
  <2> SUFFICES ASSUME TInv, [Next]_vars PROVE TInv'
    OBVIOUS
  <2>1. ASSUME NEW r \in Ranges, Discard(r) PROVE TInv'
    <3>1. {r} \in SUBSET Extent
      BY RangesAssumption
    <3>2. discard_translations({r}) /\ active' = active
      BY <2>1 DEF Discard
    <3> QED
      BY <3>1, <3>2, DiscardStep DEF TInv, Tables, RedirsHonoured, redir_do_lookup
  <2>2. CASE UNCHANGED vars
    BY <2>2 DEF vars, sectorVars, TInv, Tables, SectorsOK, OneEach, RedirsHonoured,
       redir_do_lookup, FastPoints
  <2> QED
    BY <2>1, <2>2, MissStep, AddRedirStep, DropRedirStep DEF Next
<1> QED
  BY <1>1, TInvInit, PTL DEF Spec

(* What the dispatcher jumps to without asking anyone is a translation of  *)
(* the address, in use, under the redirections in force, and not hit by    *)
(* any discard: VG_(tt_fast) and VG_(tt_fastN).                            *)
THEOREM FastCacheIsSafe == Spec => []FastCodeIsCurrent
PROOF
<1>1. ASSUME TInv PROVE FastCodeIsCurrent
  <2> SUFFICES ASSUME NEW c \in Fast, tt_fast[c] # NoFast
               PROVE  LET h == tt_fast[c].host
                          s == tt_fast[c].count[1]
                          k == tt_fast[c].count[2]
                      IN  /\ runnable(tc[h[1]][h[2]], tt_fast[c].guest)
                          /\ s \in inited /\ InUse(s, k)
                          /\ tt[s][k].entry = tt_fast[c].guest
                          /\ <<s, tt[s][k].tcptr>> = tt_fast[c].host
    BY DEF FastCodeIsCurrent
  <2>1. PICK s \in inited : \E k \in used(tt[s]) :
           tt_fast[c] = FastCacheEntry(tt[s][k].entry, s, k, tt[s][k].tcptr)
    BY <1>1 DEF TInv, FastPoints
  <2>2. PICK k \in used(tt[s]) :
           tt_fast[c] = FastCacheEntry(tt[s][k].entry, s, k, tt[s][k].tcptr)
    BY <2>1
  <2>3. s \in Sectors
    BY <1>1 DEF TInv, Tables
  <2>4. /\ tc[s][tt[s][k].tcptr] = [entry |-> tt[s][k].entry, vge |-> tt[s][k].vge]
        /\ tt[s][k].status = "InUse" /\ tt[s][k].entry \in Addrs
    BY <1>1, <2>3, UsedTypes
  <2>5. runnable(tc[s][tt[s][k].tcptr], tt[s][k].entry)
    BY <1>1, <2>3, <2>4, AddrsAssumption DEF runnable, NoCode, TInv, RedirsHonoured
  <2> QED
    BY <2>2, <2>4, <2>5 DEF FastCacheEntry, InUse
<1> QED
  BY <1>1, TransTabInvariant, PTL

(* A search finds every translation in use, by linear probing through      *)
(* deleted slots, there is one for an address in all sectors together, and *)
(* its code may be run: discarding by class misses nothing.                *)
THEOREM SearchIsExact == Spec => []SearchFindsCurrentCode
PROOF
<1>1. ASSUME TInv PROVE SearchFindsCurrentCode
  <2> SUFFICES ASSUME NEW s \in inited, NEW k \in Slots, InUse(s, k)
               PROVE  /\ found(tt[s][k].entry) /\ search_transtab(tt[s][k].entry) = <<s, k>>
                      /\ runnable(tc[s][tt[s][k].tcptr], tt[s][k].entry)
    BY DEF SearchFindsCurrentCode
  <2>1. s \in Sectors /\ k \in used(tt[s])
    BY <1>1 DEF TInv, Tables, used, InUse
  <2>2. /\ tc[s][tt[s][k].tcptr] = [entry |-> tt[s][k].entry, vge |-> tt[s][k].vge]
        /\ tt[s][k].entry \in Addrs
    BY <1>1, <2>1, UsedTypes
  <2>3. runnable(tc[s][tt[s][k].tcptr], tt[s][k].entry)
    BY <1>1, <2>1, <2>2, AddrsAssumption DEF runnable, NoCode, TInv, RedirsHonoured
  <2> QED
    BY <1>1, <2>1, <2>3, SearchFinds
<1> QED
  BY <1>1, TransTabInvariant, PTL

(* sanity_check_eclasses_in_sector and the assertions of delete_tte hold,  *)
(* tt_n_inuse counts what is in use and leaves a free slot, and no code is *)
(* written beyond the end of tc.                                           *)
THEOREM SectorsAreSane == Spec => []SectorSane
PROOF
<1>1. ASSUME TInv PROVE SectorSane
  <2> SUFFICES ASSUME NEW s \in Sectors
               PROVE  /\ tt_n_inuse[s] = Cardinality(used(tt[s]))
                      /\ tt_n_inuse[s] <= N_TTES_PER_SECTOR_USABLE
                      /\ tc_next[s] <= tc_sector_szQ
                      /\ LinkedForth(tt[s], ec2tte[s]) /\ LinkedBack(tt[s], ec2tte[s])
    BY DEF SectorSane, LinkedForth, LinkedBack, used, InUse
  <2> QED
    BY <1>1, SizesAssumption DEF TInv, SectorsOK, SectorOK, SectorTypes, Counted
<1> QED
  BY <1>1, TransTabInvariant, PTL
=============================================================================
