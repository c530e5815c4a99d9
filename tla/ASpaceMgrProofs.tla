-------------------------- MODULE ASpaceMgrProofs --------------------------
(***************************************************************************)
(* The address space manager and the kernel agree, for any address space,  *)
(* any requests and any number of them.                                    *)
(*                                                                         *)
(* The first part is about the operations on the segment array, for any    *)
(* number of pages and any array that covers them: each changes the        *)
(* attributes of the pages it is about and of no other page, although it   *)
(* rewrites, splits and merges segments on the way.  Facts about every     *)
(* index of an array are proved by a least counterexample (LeastNat).  The *)
(* second part sets what a call does to the array, page by page, against   *)
(* what the kernel does.  Shared memory segments are of one page: of a     *)
(* longer one VG_(am_notify_munmap) records only the first part once it    *)
(* has been split.                                                         *)
(***************************************************************************)
EXTENDS ASpaceMgr, FiniteSetTheorems, SequenceTheorems, WellFoundedInduction, TLAPS

(* The segment that holds page p. *)
At(segs, p) == segs[find_nsegment_idx(segs, p)]

(* t has, at the pages of s, the attributes of s. *)
Like(s, t) ==
  /\ s.kind = t.kind /\ s.smode = t.smode /\ s.file = t.file
  /\ s.prot = t.prot
  /\ s.hasT => t.hasT
  /\ s.kind \in FileKinds => s.offset - s.start = t.offset - t.start

-----------------------------------------------------------------------------
(* Sets of naturals have a least element. *)
LEMMA LeastNat ==
  ASSUME NEW S \in SUBSET Nat, S # {}
  PROVE  \E m \in S : \A x \in S : m <= x
PROOF
<1> DEFINE R == OpToRel(<, Nat)
<1>1. IsWellFoundedOn(R, Nat)
  BY NatLessThanWellFounded
<1>2. \A x, y \in Nat : x < y => <<x, y>> \in R
  BY DEF OpToRel
<1> HIDE DEF R
<1>3. PICK m \in S : \A y \in S : ~(<<y, m>> \in R)
  BY <1>1, WFMin, Zenon
<1>4. ASSUME NEW y \in S PROVE m <= y
  <2>1. ~(y < m)
    BY <1>2, <1>3, Zenon
  <2> QED
    BY <2>1
<1> QED
  BY <1>4

(* Min picks it. *)
LEMMA MinOfNats ==
  ASSUME NEW S \in SUBSET Nat, S # {}
  PROVE  Min(S) \in S
PROOF
BY LeastNat DEF Min

(* The fields of a segment. *)
LEMMA SegmentFields ==
  ASSUME NEW s \in NSegment
  PROVE  /\ s.start \in Int /\ s.end \in Int /\ s.offset \in Int /\ s.fnIdx \in Int
         /\ s.kind \in MappedKinds \cup Vacant /\ s.hasT \in BOOLEAN /\ s.isCH \in BOOLEAN
         /\ s.file \in Files \cup {NoFile} /\ s.prot \in SUBSET RWX
PROOF
BY DEF NSegment

(* The segments of an array. *)
LEMMA TilesTyped ==
  ASSUME NEW segs, NEW hi, Tiles(segs, hi)
  PROVE  /\ Len(segs) \in Nat \ {0} /\ DOMAIN segs = 1 .. Len(segs)
         /\ \A i \in 1 .. Len(segs) :
              /\ segs[i] \in NSegment
              /\ segs[i].start \in Int /\ segs[i].end \in Int
PROOF
<1>1. segs \in Seq(NSegment) /\ segs # <<>>
  BY DEF Tiles
<1>2. /\ Len(segs) \in Nat \ {0} /\ DOMAIN segs = 1 .. Len(segs)
      /\ \A i \in 1 .. Len(segs) : segs[i] \in NSegment
  BY <1>1
<1> QED
  BY <1>2, SegmentFields

(* The segments of an array lie one above the other. *)
LEMMA TilesInOrder ==
  ASSUME NEW segs, NEW hi \in Int, Tiles(segs, hi)
  PROVE  \A i, j \in 1 .. Len(segs) : i < j => segs[i].end < segs[j].start
PROOF
<1> DEFINE Bad(i) == {j \in 1 .. Len(segs) : i < j /\ ~(segs[i].end < segs[j].start)}
<1>1. /\ Len(segs) \in Nat
      /\ \A i \in 1 .. Len(segs) : segs[i] \in NSegment /\ segs[i].start \in Int /\ segs[i].end \in Int
  BY TilesTyped
<1>2. ASSUME NEW i \in 1 .. Len(segs), Bad(i) # {} PROVE FALSE
  <2>1. Bad(i) \in SUBSET Nat
    BY <1>1
  <2>2. PICK j \in Bad(i) : \A k \in Bad(i) : j <= k
    BY <1>2, <2>1, LeastNat
  <2>3. j \in 2 .. Len(segs) /\ i < j /\ ~(segs[i].end < segs[j].start)
    BY <1>1, <2>2
  <2>4. segs[j - 1].end + 1 = segs[j].start
    BY <1>1, <2>3 DEF Tiles
  <2>5. CASE i = j - 1
    BY <1>1, <2>3, <2>4, <2>5
  <2>6. CASE i # j - 1
    <3>1. i < j - 1 /\ j - 1 \in 1 .. Len(segs) /\ j - 1 \notin Bad(i)
      BY <1>1, <2>2, <2>3, <2>6, SMTT(30)
    <3>2. segs[i].end < segs[j - 1].start /\ segs[j - 1].start <= segs[j - 1].end
      BY <3>1 DEF Tiles
    <3> QED
      BY <1>1, <2>3, <2>4, <3>1, <3>2, SMTT(30)
  <2> QED
    BY <2>5, <2>6
<1> QED
  BY <1>2

(* Every page is in one segment, which the search finds. *)
LEMMA Found ==
  ASSUME NEW segs, Covers(segs), NEW p \in Addr
  PROVE  /\ find_nsegment_idx(segs, p) \in 1 .. Len(segs)
         /\ At(segs, p) \in NSegment
         /\ At(segs, p).start <= p /\ p <= At(segs, p).end
         /\ \A i \in 1 .. Len(segs) :
              segs[i].start <= p /\ p <= segs[i].end => i = find_nsegment_idx(segs, p)
PROOF
<1> DEFINE Above == {i \in 1 .. Len(segs) : p <= segs[i].end}
<1>1. /\ Len(segs) \in Nat \ {0} /\ P \in Nat /\ p \in 0 .. P - 1
      /\ DOMAIN segs = 1 .. Len(segs)
      /\ \A i \in 1 .. Len(segs) : segs[i] \in NSegment /\ segs[i].start \in Int /\ segs[i].end \in Int
  BY PageAssumption, TilesTyped DEF Covers, Addr
<1>2. Len(segs) \in Above /\ Above \in SUBSET Nat
  BY <1>1 DEF Covers, Tiles
<1>3. PICK i \in Above : \A k \in Above : i <= k
  BY <1>2, LeastNat
<1>4. segs[i].start <= p
  <2>1. CASE i = 1
    BY <1>1, <2>1 DEF Covers, Tiles
  <2>2. CASE i # 1
    <3>1. i - 1 \in 1 .. Len(segs) - 1 /\ i - 1 \notin Above
      BY <1>1, <1>3, <2>2
    <3>2. segs[i - 1].end + 1 = segs[i].start
      BY <1>1, <3>1 DEF Covers, Tiles
    <3> QED
      BY <1>1, <3>1, <3>2
  <2> QED
    BY <2>1, <2>2
<1>5. ASSUME NEW j \in 1 .. Len(segs), NEW k \in 1 .. Len(segs),
             segs[j].start <= p, p <= segs[j].end, segs[k].start <= p, p <= segs[k].end
      PROVE  j = k
  <2>1. P - 1 \in Int
    BY <1>1
  <2>2. \A x, y \in 1 .. Len(segs) : x < y => segs[x].end < segs[y].start
    BY <2>1, TilesInOrder DEF Covers
  <2> QED
    BY <1>1, <1>5, <2>2, SMTT(30)
<1>6. \E x \in DOMAIN segs : p \in segs[x].start .. segs[x].end
  BY <1>1, <1>3, <1>4
<1>7. /\ find_nsegment_idx(segs, p) \in DOMAIN segs
      /\ p \in segs[find_nsegment_idx(segs, p)].start .. segs[find_nsegment_idx(segs, p)].end
  BY <1>6 DEF find_nsegment_idx
<1> QED
  BY <1>1, <1>5, <1>7 DEF At

-----------------------------------------------------------------------------
(* Cutting *)

(* r has the elements of s, then those of t. *)
IsJoined(r, s, t) ==
  /\ Len(r) = Len(s) + Len(t)
  /\ \A k \in 1 .. Len(s) : r[k] = s[k]
  /\ \A k \in 1 .. Len(t) : r[Len(s) + k] = t[k]

(* r is l, with the elements i .. j replaced by those of m. *)
IsSpliced(r, l, m, i, j) ==
  /\ Len(r) = Len(l) + Len(m) - (j - i + 1)
  /\ \A k \in 1 .. i - 1 : r[k] = l[k]
  /\ \A k \in 1 .. Len(m) : r[i - 1 + k] = m[k]
  /\ \A k \in j + 1 .. Len(l) : r[k - j + i - 1 + Len(m)] = l[k]

(* The elements of a concatenation. *)
LEMMA Joined ==
  ASSUME NEW S, NEW s \in Seq(S), NEW t \in Seq(S)
  PROVE  s \o t \in Seq(S) /\ IsJoined(s \o t, s, t)
PROOF
<1>1. Len(s) \in Nat /\ Len(t) \in Nat
  OBVIOUS
<1>2. /\ s \o t \in Seq(S) /\ Len(s \o t) = Len(s) + Len(t)
      /\ \A k \in 1 .. Len(s) + Len(t) : (s \o t)[k] = IF k <= Len(s) THEN s[k] ELSE t[k - Len(s)]
  BY ConcatProperties
<1>3. ASSUME NEW k \in 1 .. Len(t) PROVE (s \o t)[Len(s) + k] = t[k]
  <2>1. Len(s) + k \in 1 .. Len(s) + Len(t) /\ ~(Len(s) + k <= Len(s)) /\ (Len(s) + k) - Len(s) = k
    BY <1>1
  <2> QED
    BY <1>2, <2>1
<1> QED
  BY <1>1, <1>2, <1>3 DEF IsJoined

(* The elements i .. j of a sequence replaced by those of another. *)
LEMMA Spliced ==
  ASSUME NEW S, NEW l \in Seq(S), NEW m \in Seq(S),
         NEW i \in 1 .. Len(l), NEW j \in i .. Len(l), NEW r
  PROVE  r = SubSeq(l, 1, i - 1) \o m \o SubSeq(l, j + 1, Len(l)) =>
           r \in Seq(S) /\ IsSpliced(r, l, m, i, j)
PROOF
<1>0. SUFFICES ASSUME r = SubSeq(l, 1, i - 1) \o m \o SubSeq(l, j + 1, Len(l))
               PROVE  r \in Seq(S) /\ IsSpliced(r, l, m, i, j)
  OBVIOUS
<1> DEFINE lo == SubSeq(l, 1, i - 1)
           hi == SubSeq(l, j + 1, Len(l))
<1>1. Len(l) \in Nat /\ Len(m) \in Nat /\ i \in Nat /\ j \in Nat /\ 1 <= i /\ i <= j /\ j <= Len(l)
  OBVIOUS
<1>2. lo \in Seq(S) /\ Len(lo) = i - 1 /\ \A k \in 1 .. i - 1 : lo[k] = l[k]
  BY <1>1
<1>3. hi \in Seq(S) /\ Len(hi) = Len(l) - j /\ \A k \in 1 .. Len(l) - j : hi[k] = l[j + k]
  BY <1>1
<1> HIDE DEF lo, hi
<1>4. /\ lo \o m \in Seq(S) /\ Len(lo \o m) = i - 1 + Len(m)
      /\ \A k \in 1 .. i - 1 : (lo \o m)[k] = lo[k]
      /\ \A k \in 1 .. Len(m) : (lo \o m)[i - 1 + k] = m[k]
  <2>1. lo \o m \in Seq(S) /\ IsJoined(lo \o m, lo, m)
    BY <1>2, Joined
  <2> QED
    BY <1>2, <2>1, Zenon DEF IsJoined
<1>5. r = (lo \o m) \o hi
  BY <1>0 DEF lo, hi
<1>6. /\ r \in Seq(S) /\ Len(r) = i - 1 + Len(m) + (Len(l) - j)
      /\ \A k \in 1 .. i - 1 + Len(m) : r[k] = (lo \o m)[k]
      /\ \A k \in 1 .. Len(l) - j : r[i - 1 + Len(m) + k] = hi[k]
  <2> DEFINE q == lo \o m
  <2>1. q \in Seq(S) /\ Len(q) = i - 1 + Len(m)
    BY <1>4
  <2> HIDE DEF q
  <2>2. q \o hi \in Seq(S) /\ IsJoined(q \o hi, q, hi)
    BY <1>3, <2>1, Joined
  <2>3. r = q \o hi
    BY <1>5 DEF q
  <2> QED
    BY <1>3, <2>1, <2>2, <2>3, Zenon DEF q, IsJoined
<1>7. ASSUME NEW k \in 1 .. i - 1 PROVE r[k] = l[k]
  <2>1. k \in 1 .. i - 1 + Len(m)
    BY <1>1
  <2> QED
    BY <1>2, <1>4, <1>6, <2>1
<1>8. ASSUME NEW k \in 1 .. Len(m) PROVE r[i - 1 + k] = m[k]
  <2>1. i - 1 + k \in 1 .. i - 1 + Len(m)
    BY <1>1
  <2> QED
    BY <1>4, <1>6, <2>1
<1>9. ASSUME NEW k \in j + 1 .. Len(l) PROVE r[k - j + i - 1 + Len(m)] = l[k]
  <2>1. k - j \in 1 .. Len(l) - j /\ j + (k - j) = k
        /\ i - 1 + Len(m) + (k - j) = k - j + i - 1 + Len(m)
    BY <1>1
  <2> QED
    BY <1>3, <1>6, <2>1, ZenonT(60)
<1>10. Len(r) = Len(l) + Len(m) - (j - i + 1)
  BY <1>1, <1>6
<1> QED
  BY <1>6, <1>7, <1>8, <1>9, <1>10, Zenon DEF IsSpliced

(* s is what a cut leaves of t. *)
Piece(s, t) ==
  /\ t.start <= s.start /\ s.end <= t.end
  /\ Like(s, t) /\ s.hasT = t.hasT /\ s.isCH = t.isCH /\ s.fnIdx = t.fnIdx
  /\ s.kind \notin FileKinds => s.offset = t.offset

Pieces(out, segs) ==
  \A k \in 1 .. Len(out) : \E i \in 1 .. Len(segs) : Piece(out[k], segs[i])

IsStart(segs, a) == \E k \in 1 .. Len(segs) : segs[k].start = a

(* split_nsegment_at makes a the start of a segment, cuts one segment at   *)
(* most, and leaves every page what it was.                                *)
LEMMA SplitAt ==
  ASSUME NEW segs, Covers(segs), NEW a \in Addr,
         NEW out, out = split_nsegment_at(segs, a)
  PROVE  /\ Covers(out) /\ Pieces(out, segs) /\ IsStart(out, a)
         /\ \A b : IsStart(segs, b) => IsStart(out, b)
PROOF
<1> DEFINE i == find_nsegment_idx(segs, a)
           s == segs[i]
           lower == [s EXCEPT !.end = a - 1]
           upper == [s EXCEPT !.start = a,
                       !.offset = IF s.kind \in FileKinds THEN @ + (a - s.start) ELSE @]
<1>1. /\ segs \in Seq(NSegment) /\ Len(segs) \in Nat \ {0} /\ i \in 1 .. Len(segs)
      /\ s \in NSegment /\ s.start <= a /\ a <= s.end /\ a \in Int
      /\ s.start \in Int /\ s.end \in Int /\ s.offset \in Int
  <2>1. segs \in Seq(NSegment) /\ Len(segs) \in Nat \ {0}
    BY TilesTyped DEF Covers, Tiles
  <2>2. i \in 1 .. Len(segs) /\ s \in NSegment /\ s.start <= a /\ a <= s.end
    BY Found DEF At
  <2>3. s.start \in Int /\ s.end \in Int /\ s.offset \in Int
    BY <2>2, SegmentFields
  <2>4. a \in Int
    BY PageAssumption DEF Addr
  <2> QED
    BY <2>1, <2>2, <2>3, <2>4
<1>2. \A k \in 1 .. Len(segs) : Piece(segs[k], segs[k])
  BY TilesTyped DEF Piece, Like, Covers
<1>3. CASE s.start = a
  <2>1. out = segs
    BY <1>3 DEF split_nsegment_at
  <2> QED
    BY <1>1, <1>2, <1>3, <2>1 DEF Pieces, IsStart
<1>4. CASE s.start # a
  <2>1. /\ lower \in NSegment /\ lower.start = s.start /\ lower.end = a - 1
        /\ upper \in NSegment /\ upper.start = a /\ upper.end = s.end
    <3>1. a - 1 \in Int /\ s.offset + (a - s.start) \in Int
      BY <1>1
    <3>2. (IF s.kind \in FileKinds THEN s.offset + (a - s.start) ELSE s.offset) \in Int
      BY <1>1, <3>1
    <3> HIDE DEF s
    <3> QED
      BY <1>1, <3>1, <3>2 DEF NSegment
  <2>2. /\ lower.kind = s.kind /\ lower.smode = s.smode /\ lower.file = s.file
        /\ lower.prot = s.prot /\ lower.isCH = s.isCH /\ lower.hasT = s.hasT
        /\ lower.offset = s.offset /\ lower.fnIdx = s.fnIdx
        /\ upper.kind = s.kind /\ upper.smode = s.smode /\ upper.file = s.file
        /\ upper.prot = s.prot /\ upper.isCH = s.isCH /\ upper.hasT = s.hasT
        /\ upper.fnIdx = s.fnIdx
        /\ upper.offset = IF s.kind \in FileKinds THEN s.offset + (a - s.start) ELSE s.offset
    BY <1>1 DEF NSegment
  <2> HIDE DEF lower, upper
  <2>3. <<lower, upper>> \in Seq(NSegment) /\ Len(<<lower, upper>>) = 2
        /\ <<lower, upper>>[1] = lower /\ <<lower, upper>>[2] = upper
    BY <2>1
  <2>4. out = SubSeq(segs, 1, i - 1) \o <<lower, upper>> \o SubSeq(segs, i + 1, Len(segs))
    BY <1>4 DEF split_nsegment_at, lower, upper
  <2> HIDE DEF i, s
  <2>5. i \in i .. Len(segs)
    BY <1>1
  <2>6. /\ out \in Seq(NSegment) /\ Len(out) = Len(segs) + 1
        /\ \A k \in 1 .. i - 1 : out[k] = segs[k]
        /\ out[i] = lower /\ out[i + 1] = upper
        /\ \A k \in i + 1 .. Len(segs) : out[k + 1] = segs[k]
    <3> DEFINE m == <<lower, upper>>
    <3>0. m \in Seq(NSegment) /\ Len(m) = 2 /\ m[1] = lower /\ m[2] = upper
      BY <2>3
    <3>9. out = SubSeq(segs, 1, i - 1) \o m \o SubSeq(segs, i + 1, Len(segs))
      BY <2>4
    <3> HIDE DEF m
    <3>1. out \in Seq(NSegment) /\ IsSpliced(out, segs, m, i, i)
      BY <1>1, <2>5, <3>0, <3>9, Spliced
    <3> QED
      BY <1>1, <3>0, <3>1 DEF IsSpliced
  <2>7. s = segs[i]
    BY DEF s
  <2>8. Covers(out)
    <3>1. ASSUME NEW k \in 1 .. Len(out) PROVE out[k].start <= out[k].end
      <4>1. CASE k < i
        BY <1>1, <2>6, <4>1, SMTT(30) DEF Covers, Tiles
      <4>2. CASE k = i
        BY <1>1, <1>4, <2>1, <2>6, <4>2
      <4>3. CASE k = i + 1
        BY <1>1, <2>1, <2>6, <4>3
      <4>4. CASE k > i + 1
        <5>1. k - 1 \in i + 1 .. Len(segs) /\ out[(k - 1) + 1] = segs[k - 1] /\ (k - 1) + 1 = k
          BY <1>1, <2>6, <4>4, SMTT(30)
        <5> QED
          BY <1>1, <5>1, SMTT(30) DEF Covers, Tiles
      <4> QED
        BY <1>1, <2>6, <4>1, <4>2, <4>3, <4>4
    <3>2. ASSUME NEW k \in 1 .. Len(out) - 1 PROVE out[k].end + 1 = out[k + 1].start
      <4>1. CASE k < i - 1
        <5>1. k \in 1 .. Len(segs) - 1 /\ k \in 1 .. i - 1 /\ k + 1 \in 1 .. i - 1
          BY <1>1, <2>6, <4>1
        <5> QED
          BY <1>1, <2>6, <5>1 DEF Covers, Tiles
      <4>2. CASE k = i - 1
        <5>1. k \in 1 .. Len(segs) - 1 /\ k \in 1 .. i - 1 /\ k + 1 = i
          BY <1>1, <2>6, <4>2
        <5>2. segs[k].end + 1 = segs[i].start
          BY <5>1 DEF Covers, Tiles
        <5> QED
          BY <2>1, <2>6, <2>7, <5>1, <5>2
      <4>3. CASE k = i
        BY <1>1, <2>1, <2>6, <4>3
      <4>4. CASE k = i + 1
        <5>1. i \in 1 .. Len(segs) - 1 /\ i + 1 \in i + 1 .. Len(segs) /\ k + 1 = (i + 1) + 1
          BY <1>1, <2>6, <4>4
        <5>2. segs[i].end + 1 = segs[i + 1].start
          BY <5>1 DEF Covers, Tiles
        <5> QED
          BY <2>1, <2>6, <2>7, <4>4, <5>1, <5>2
      <4>5. CASE k > i + 1
        <5>1. /\ k - 1 \in i + 1 .. Len(segs) /\ k \in i + 1 .. Len(segs)
              /\ k - 1 \in 1 .. Len(segs) - 1 /\ (k - 1) + 1 = k
          BY <1>1, <2>6, <4>5
        <5>2. out[k] = segs[k - 1] /\ out[k + 1] = segs[k]
          BY <2>6, <5>1
        <5>3. segs[k - 1].end + 1 = segs[k].start
          BY <5>1 DEF Covers, Tiles
        <5> QED
          BY <5>2, <5>3
      <4> QED
        BY <1>1, <2>6, <4>1, <4>2, <4>3, <4>4, <4>5
    <3>3. out[1].start = 0
      <4>1. CASE i = 1
        BY <1>1, <2>1, <2>6, <2>7, <4>1 DEF Covers, Tiles
      <4>2. CASE i # 1
        BY <1>1, <2>6, <4>2, SMTT(30) DEF Covers, Tiles
      <4> QED
        BY <4>1, <4>2
    <3>4. out[Len(out)].end = P - 1
      <4>1. CASE i = Len(segs)
        BY <1>1, <2>1, <2>6, <2>7, <4>1 DEF Covers, Tiles
      <4>2. CASE i # Len(segs)
        <5>1. Len(segs) \in i + 1 .. Len(segs) /\ Len(out) = Len(segs) + 1
          BY <1>1, <2>6, <4>2
        <5> QED
          BY <2>6, <5>1 DEF Covers, Tiles
      <4> QED
        BY <4>1, <4>2
    <3>5. out # <<>>
      BY <1>1, <2>6
    <3> QED
      BY <2>6, <3>1, <3>2, <3>3, <3>4, <3>5 DEF Covers, Tiles
  <2>9. Pieces(out, segs)
    <3>1. Piece(lower, s) /\ Piece(upper, s)
      BY <1>1, <2>1, <2>2, SMTT(30) DEF Piece, Like
    <3>2. ASSUME NEW k \in 1 .. Len(out) PROVE \E j \in 1 .. Len(segs) : Piece(out[k], segs[j])
      <4>1. CASE k < i
        BY <1>1, <1>2, <2>6, <4>1, SMTT(30)
      <4>2. CASE k \in {i, i + 1}
        BY <1>1, <2>6, <2>7, <3>1, <4>2
      <4>3. CASE k > i + 1
        <5>1. k - 1 \in i + 1 .. Len(segs) /\ k - 1 \in 1 .. Len(segs) /\ (k - 1) + 1 = k
          BY <1>1, <2>6, <4>3
        <5> QED
          BY <1>2, <2>6, <5>1
      <4>4. k < i \/ k \in {i, i + 1} \/ k > i + 1
        BY <1>1, <2>6
      <4> QED
        BY <4>1, <4>2, <4>3, <4>4
    <3> QED
      BY <3>2 DEF Pieces
  <2>10. IsStart(out, a)
    BY <1>1, <2>1, <2>6, SMTT(30) DEF IsStart
  <2>11. ASSUME NEW b, IsStart(segs, b) PROVE IsStart(out, b)
    <3>1. PICK k \in 1 .. Len(segs) : segs[k].start = b
      BY <2>11 DEF IsStart
    <3>2. CASE k < i
      <4>1. k \in 1 .. i - 1 /\ k \in 1 .. Len(out)
        BY <1>1, <2>6, <3>2
      <4>2. out[k].start = b
        BY <2>6, <3>1, <4>1
      <4> QED
        BY <4>1, <4>2 DEF IsStart
    <3>3. CASE k = i
      BY <1>1, <2>1, <2>6, <2>7, <3>1, <3>3 DEF IsStart
    <3>4. CASE k > i
      <4>1. k \in i + 1 .. Len(segs) /\ k + 1 \in 1 .. Len(out)
        BY <1>1, <2>6, <3>4
      <4> QED
        BY <2>6, <3>1, <4>1 DEF IsStart
    <3> QED
      BY <1>1, <3>2, <3>3, <3>4
  <2> QED
    BY <2>8, <2>9, <2>10, <2>11
<1> QED
  BY <1>3, <1>4

(* What is left of a piece is a piece. *)
LEMMA PieceOfPiece ==
  ASSUME NEW s \in NSegment, NEW t \in NSegment, NEW u \in NSegment, Piece(s, t), Piece(t, u)
  PROVE  Piece(s, u)
PROOF
BY SegmentFields DEF Piece, Like

(* Each half of a cut of a sound segment is sound. *)
LEMMA SoundPiece ==
  ASSUME NEW names, NEW s \in NSegment, NEW t \in NSegment,
         Piece(s, t), Sound(names, t), s.start <= s.end
  PROVE  Sound(names, s)
PROOF
<1>1. /\ s.start \in Int /\ s.end \in Int /\ t.start \in Int /\ t.end \in Int /\ P \in Nat
  BY SegmentFields, PageAssumption
<1>2. s.start \in Addr /\ s.end \in s.start .. P - 1
  BY <1>1 DEF Piece, Sound, sane_NSegment, Addr
<1> QED
  BY <1>1, <1>2 DEF Piece, Like, Sound, sane_NSegment

(* A page is in a piece of the segment it was in. *)
LEMMA PiecesAt ==
  ASSUME NEW segs, NEW out, Covers(segs), Covers(out), Pieces(out, segs), NEW p \in Addr
  PROVE  Piece(At(out, p), At(segs, p))
PROOF
<1>1. /\ find_nsegment_idx(out, p) \in 1 .. Len(out)
      /\ At(out, p) \in NSegment /\ At(out, p).start <= p /\ p <= At(out, p).end
  BY Found
<1>2. PICK i \in 1 .. Len(segs) : Piece(At(out, p), segs[i])
  BY <1>1 DEF Pieces, At
<1>3. segs[i].start <= p /\ p <= segs[i].end
  <2>1. segs[i] \in NSegment
    BY TilesTyped DEF Covers
  <2>2. /\ segs[i].start \in Int /\ segs[i].end \in Int
        /\ At(out, p).start \in Int /\ At(out, p).end \in Int
    BY <1>1, <2>1, SegmentFields
  <2>3. p \in Int
    BY PageAssumption DEF Addr
  <2>4. segs[i].start <= At(out, p).start /\ At(out, p).end <= segs[i].end
    BY <1>2 DEF Piece
  <2> QED
    BY <1>1, <2>2, <2>3, <2>4
<1>4. i = find_nsegment_idx(segs, p)
  BY <1>3, Found
<1> QED
  BY <1>2, <1>4 DEF At

(* split_nsegments_lo_and_hi makes lo .. hi a range of whole segments. *)
LEMMA SplitLoHi ==
  ASSUME NEW segs, Covers(segs), NEW lo \in Addr, NEW hi \in Addr, lo <= hi,
         NEW out, out = split_nsegments_lo_and_hi(segs, lo, hi)
  PROVE  /\ Covers(out) /\ Pieces(out, segs)
         /\ At(out, lo).start = lo /\ At(out, hi).end = hi
PROOF
<1> DEFINE below == IF lo > 0 THEN split_nsegment_at(segs, lo) ELSE segs
<1>1. P \in Nat /\ lo \in 0 .. P - 1 /\ hi \in 0 .. P - 1
  BY PageAssumption DEF Addr
<1>2. \A x : Covers(x) => Pieces(x, x) /\ IsStart(x, 0)
  <2>1. ASSUME NEW x, Covers(x) PROVE Pieces(x, x) /\ IsStart(x, 0)
    <3>1. Len(x) \in Nat \ {0} /\ \A i \in 1 .. Len(x) : x[i].start \in Int /\ x[i].end \in Int
      BY <2>1, TilesTyped DEF Covers
    <3>2. Pieces(x, x)
      BY <2>1, <3>1 DEF Pieces, Piece, Like
    <3>3. 1 \in 1 .. Len(x) /\ x[1].start = 0
      BY <2>1, <3>1 DEF Covers, Tiles
    <3> QED
      BY <3>2, <3>3 DEF IsStart
  <2> QED
    BY <2>1
<1>3. Covers(below) /\ Pieces(below, segs) /\ IsStart(below, lo)
  <2>1. CASE lo > 0
    BY <2>1, SplitAt
  <2>2. CASE ~(lo > 0)
    BY <1>1, <1>2, <2>2
  <2> QED
    BY <2>1, <2>2
<1>4. out = IF hi < P - 1 THEN split_nsegment_at(below, hi + 1) ELSE below
  BY DEF split_nsegments_lo_and_hi
<1> HIDE DEF below
<1>5. /\ Covers(out) /\ Pieces(out, below) /\ IsStart(out, lo)
      /\ hi < P - 1 => IsStart(out, hi + 1)
  <2>1. CASE hi < P - 1
    <3>1. hi + 1 \in Addr
      BY <1>1, <2>1 DEF Addr
    <3> QED
      BY <1>3, <1>4, <2>1, <3>1, SplitAt
  <2>2. CASE ~(hi < P - 1)
    BY <1>2, <1>3, <1>4, <2>2
  <2> QED
    BY <2>1, <2>2
<1>6. Pieces(out, segs)
  <2>1. ASSUME NEW k \in 1 .. Len(out) PROVE \E i \in 1 .. Len(segs) : Piece(out[k], segs[i])
    <3>1. PICK j \in 1 .. Len(below) : Piece(out[k], below[j])
      BY <1>5 DEF Pieces
    <3>2. PICK i \in 1 .. Len(segs) : Piece(below[j], segs[i])
      BY <1>3 DEF Pieces
    <3>3. out[k] \in NSegment /\ below[j] \in NSegment /\ segs[i] \in NSegment
      BY <1>3, <1>5, TilesTyped DEF Covers
    <3> QED
      BY <3>1, <3>2, <3>3, PieceOfPiece
  <2> QED
    BY <2>1 DEF Pieces
<1>7. /\ Len(out) \in Nat \ {0}
      /\ \A i \in 1 .. Len(out) : out[i].start \in Int /\ out[i].end \in Int
      /\ \A i \in 1 .. Len(out) : out[i].start <= out[i].end
      /\ \A i \in 1 .. Len(out) - 1 : out[i].end + 1 = out[i + 1].start
      /\ out[1].start = 0 /\ out[Len(out)].end = P - 1
  BY <1>5, TilesTyped DEF Covers, Tiles
<1>8. At(out, lo).start = lo
  <2>1. PICK k \in 1 .. Len(out) : out[k].start = lo
    BY <1>5 DEF IsStart
  <2>2. out[k].start <= lo /\ lo <= out[k].end
    BY <1>1, <1>7, <2>1
  <2>3. k = find_nsegment_idx(out, lo)
    BY <1>5, <2>2, Found
  <2> QED
    BY <2>1, <2>3 DEF At
<1>9. At(out, hi).end = hi
  <2>1. PICK k \in 1 .. Len(out) : out[k].end = hi
    <3>1. CASE hi < P - 1
      <4>1. PICK j \in 1 .. Len(out) : out[j].start = hi + 1
        BY <1>5, <3>1 DEF IsStart
      <4>2. j # 1 /\ j - 1 \in 1 .. Len(out) - 1 /\ (j - 1) + 1 = j
        BY <1>1, <1>7, <4>1
      <4>3. out[j - 1].end + 1 = out[j].start
        BY <1>7, <4>2
      <4>4. j - 1 \in 1 .. Len(out) /\ out[j - 1].end \in Int /\ hi \in Int
        BY <1>1, <1>7, <4>2
      <4>5. out[j - 1].end = hi
        BY <4>1, <4>3, <4>4
      <4> QED
        BY <4>4, <4>5
    <3>2. CASE ~(hi < P - 1)
      BY <1>1, <1>7, <3>2
    <3> QED
      BY <3>1, <3>2
  <2>2. out[k].start <= hi /\ hi <= out[k].end
    BY <1>1, <1>7, <2>1
  <2>3. k = find_nsegment_idx(out, hi)
    BY <1>5, <2>2, Found
  <2> QED
    BY <2>1, <2>3 DEF At
<1> QED
  BY <1>5, <1>6, <1>8, <1>9

-----------------------------------------------------------------------------
(* Merging *)

(* The array in the making, step by step. *)
LEMMA PreenedSteps ==
  ASSUME NEW segs, Len(segs) \in Nat
  PROVE  /\ preened(segs)[0] = <<>>
         /\ \A i \in 1 .. Len(segs) : preened(segs)[i] = preen_put(preened(segs)[i - 1], segs[i])
PROOF
<1> DEFINE Steps(g, n) == g = [i \in 0 .. n |-> IF i = 0 THEN <<>> ELSE preen_put(g[i - 1], segs[i])]
           Bad == {n \in 0 .. Len(segs) : ~ \E g : Steps(g, n)}
<1>1. ASSUME Bad # {} PROVE FALSE
  <2>0. Bad \in SUBSET Nat
    OBVIOUS
  <2>1. PICK n \in Bad : \A k \in Bad : n <= k
    <3> HIDE DEF Bad
    <3> QED
      BY <1>1, <2>0, LeastNat
  <2>2. n # 0
    <3>1. Steps([i \in 0 .. 0 |-> <<>>], 0)
      OBVIOUS
    <3> QED
      BY <2>1, <3>1
  <2>3. n - 1 \in 0 .. Len(segs) /\ n - 1 \notin Bad /\ n \in 1 .. Len(segs)
    BY <2>1, <2>2, SMTT(30)
  <2>4. PICK g : Steps(g, n - 1)
    BY <2>3
  <2> DEFINE h == [i \in 0 .. n |-> IF i = n THEN preen_put(g[n - 1], segs[n]) ELSE g[i]]
  <2>5. ASSUME NEW i \in 0 .. n
        PROVE  h[i] = IF i = 0 THEN <<>> ELSE preen_put(h[i - 1], segs[i])
    <3>1. CASE i = 0
      BY <2>3, <2>4, <3>1
    <3>2. CASE i # 0 /\ i # n
      <4>1. i - 1 \in 0 .. n /\ i - 1 # n /\ i \in 0 .. n - 1
        BY <2>3, <3>2
      <4> QED
        BY <2>4, <3>2, <4>1
    <3>3. CASE i = n
      BY <2>3, <3>3
    <3> QED
      BY <3>1, <3>2, <3>3
  <2>6. Steps(h, n)
    BY <2>5
  <2> QED
    BY <2>1, <2>6
<1>2. \E g : Steps(g, Len(segs))
  BY <1>1
<1>3. Steps(preened(segs), Len(segs))
  BY <1>2 DEF preened
<1> QED
  BY <1>3

(* t holds the pages of s, with their attributes. *)
Holds(s, t) == t.start <= s.start /\ s.end <= t.end /\ Like(s, t)

LEMMA HoldsTrans ==
  ASSUME NEW s \in NSegment, NEW t \in NSegment, NEW u \in NSegment, Holds(s, t), Holds(t, u)
  PROVE  Holds(s, u)
PROOF
BY SegmentFields DEF Holds, Like

LEMMA HoldsSelf ==
  ASSUME NEW s \in NSegment
  PROVE  Holds(s, s)
PROOF
BY SegmentFields DEF Holds, Like

(* What maybe_merge_nsegments makes of two sound segments is sound, holds  *)
(* the pages of both, and merges with no segment that the first would not  *)
(* merge with.                                                             *)
LEMMA MergeTwo ==
  ASSUME NEW names, NEW s \in NSegment, NEW t \in NSegment,
         Sound(names, s), Sound(names, t), mergeable(s, t)
  PROVE  /\ merged(s, t) \in NSegment /\ Sound(names, merged(s, t))
         /\ merged(s, t).start = s.start /\ merged(s, t).end = t.end
         /\ Holds(s, merged(s, t)) /\ Holds(t, merged(s, t))
         /\ \A r : mergeable(r, merged(s, t)) => mergeable(r, s)
PROOF
<1> DEFINE m == merged(s, t)
<1>1. m = [s EXCEPT !.end = t.end, !.hasT = s.hasT \/ t.hasT]
  BY DEF merged
<1>2. /\ m \in NSegment /\ m.start = s.start /\ m.end = t.end /\ m.kind = s.kind
      /\ m.smode = s.smode /\ m.file = s.file /\ m.prot = s.prot /\ m.isCH = s.isCH
      /\ m.offset = s.offset /\ m.fnIdx = s.fnIdx /\ m.hasT = (s.hasT \/ t.hasT)
  BY <1>1 DEF NSegment
<1> HIDE DEF m
<1>3. /\ s.start \in Int /\ s.end \in Int /\ t.start \in Int /\ t.end \in Int
      /\ s.offset \in Int /\ t.offset \in Int /\ P \in Nat
  BY SegmentFields, PageAssumption
<1>4. s.kind = t.kind /\ s.end + 1 = t.start /\ s.kind # "SkShmC"
  BY DEF mergeable, AnonKinds, FileKinds
<1>5. s.start <= s.end /\ t.start <= t.end
  BY <1>3 DEF Sound, sane_NSegment, Addr
<1>6. Sound(names, m)
  <2>1. m.start \in Addr /\ m.end \in m.start .. P - 1
    BY <1>2, <1>3, <1>4, <1>5 DEF Sound, sane_NSegment, Addr
  <2>2. m.kind \in Vacant => ~m.hasT
    BY <1>2, <1>4 DEF Sound, sane_NSegment
  <2> QED
    BY <1>2, <1>4, <2>1, <2>2 DEF Sound, sane_NSegment
<1>0. (s.hasT => m.hasT) /\ (t.hasT => m.hasT)
  BY <1>2, Zenon
<1>7. Holds(s, m)
  BY <1>0, <1>2, <1>3, <1>4, <1>5 DEF Holds, Like
<1>8. Like(t, m)
  <2>1. t.kind = m.kind
    BY <1>2, <1>4
  <2>2. t.smode = m.smode
    BY <1>2, <1>4 DEF mergeable, Sound, sane_NSegment, AnonKinds, FileKinds
  <2>3. t.file = m.file
    BY <1>2, <1>4 DEF mergeable, Sound, sane_NSegment, AnonKinds, FileKinds
  <2>4. t.prot = m.prot
    BY <1>2, <1>4 DEF mergeable, Sound, sane_NSegment, Vacant
  <2>6. t.kind \in FileKinds => t.offset - t.start = m.offset - m.start
    BY <1>2, <1>3, <1>4 DEF mergeable, AnonKinds, FileKinds
  <2> QED
    BY <1>0, <2>1, <2>2, <2>3, <2>4, <2>6 DEF Like
<1>9. Holds(t, m)
  BY <1>2, <1>3, <1>4, <1>5, <1>8 DEF Holds
<1>10. ASSUME NEW r, mergeable(r, m) PROVE mergeable(r, s)
  BY <1>2, <1>10 DEF mergeable
<1> QED
  BY <1>2, <1>6, <1>7, <1>9, <1>10 DEF m

(* No neighbours of d are left to merge. *)
Neat(d) == \A k \in 1 .. Len(d) - 1 : ~mergeable(d[k], d[k + 1])

AllSound(names, d) == \A k \in 1 .. Len(d) : Sound(names, d[k])

(* Some segment of d holds the pages of s. *)
HeldBy(s, d) == \E k \in 1 .. Len(d) : Holds(s, d[k])

(* One segment more. *)
LEMMA PreenPut ==
  ASSUME NEW names, NEW d, NEW e \in Int, Tiles(d, e), AllSound(names, d), Neat(d),
         NEW s \in NSegment, Sound(names, s), s.start = e + 1,
         NEW out, out = preen_put(d, s)
  PROVE  /\ Tiles(out, s.end) /\ AllSound(names, out) /\ Neat(out)
         /\ HeldBy(s, out) /\ \A k \in 1 .. Len(d) : HeldBy(d[k], out)
PROOF
<1> DEFINE n == Len(d)
<1>1. /\ d \in Seq(NSegment) /\ n \in Nat \ {0}
      /\ \A i \in 1 .. n : d[i] \in NSegment /\ d[i].start \in Int /\ d[i].end \in Int
  BY TilesTyped DEF Tiles
<1>2. /\ d[1].start = 0 /\ d[n].end = e
      /\ \A i \in 1 .. n : d[i].start <= d[i].end
      /\ \A i \in 1 .. n - 1 : d[i].end + 1 = d[i + 1].start
  BY DEF Tiles
<1>3. d # <<>> /\ n \in 1 .. n
  BY <1>1 DEF Tiles
<1>4. s.start \in Int /\ s.end \in Int /\ s.start <= s.end
  BY SegmentFields, PageAssumption DEF Sound, sane_NSegment, Addr
<1>5. CASE mergeable(d[n], s)
  <2> DEFINE m == merged(d[n], s)
  <2>1. Sound(names, d[n]) /\ d[n] \in NSegment
    BY <1>1, <1>3 DEF AllSound
  <2>2. /\ m \in NSegment /\ Sound(names, m) /\ m.start = d[n].start /\ m.end = s.end
        /\ Holds(d[n], m) /\ Holds(s, m)
        /\ \A r : mergeable(r, m) => mergeable(r, d[n])
    BY <1>5, <2>1, MergeTwo
  <2> HIDE DEF m
  <2>3. out = [d EXCEPT ![n] = m]
    BY <1>3, <1>5 DEF preen_put, m
  <2>4. /\ out \in Seq(NSegment) /\ Len(out) = n /\ out[n] = m
        /\ \A k \in 1 .. n - 1 : out[k] = d[k]
    BY <1>1, <2>2, <2>3
  <2>5. Tiles(out, s.end)
    <3>1. ASSUME NEW k \in 1 .. Len(out) PROVE out[k].start <= out[k].end
      <4>1. CASE k = n
        BY <1>1, <1>2, <1>3, <1>4, <2>2, <2>4, <4>1
      <4>2. CASE k # n
        BY <1>1, <1>2, <2>4, <4>2
      <4> QED
        BY <4>1, <4>2
    <3>2. ASSUME NEW k \in 1 .. Len(out) - 1 PROVE out[k].end + 1 = out[k + 1].start
      <4>1. k \in 1 .. n - 1 /\ (k + 1 = n \/ k + 1 \in 1 .. n - 1)
        BY <1>1, <2>4
      <4> QED
        BY <1>2, <2>2, <2>4, <4>1
    <3>3. out[1].start = 0
      <4>1. CASE n = 1
        BY <1>2, <2>2, <2>4, <4>1
      <4>2. CASE n # 1
        BY <1>1, <1>2, <2>4, <4>2
      <4> QED
        BY <4>1, <4>2
    <3>4. out # <<>>
      BY <1>1, <2>4
    <3> QED
      BY <2>2, <2>4, <3>1, <3>2, <3>3, <3>4 DEF Tiles
  <2>6. AllSound(names, out)
    BY <1>1, <2>2, <2>4 DEF AllSound
  <2>7. Neat(out)
    <3>1. ASSUME NEW k \in 1 .. Len(out) - 1 PROVE ~mergeable(out[k], out[k + 1])
      <4>1. k \in 1 .. n - 1 /\ (k + 1 = n \/ k + 1 \in 1 .. n - 1)
        BY <1>1, <2>4
      <4> QED
        BY <2>2, <2>4, <4>1 DEF Neat
    <3> QED
      BY <3>1 DEF Neat
  <2>8. HeldBy(s, out)
    BY <1>3, <2>2, <2>4 DEF HeldBy
  <2>9. ASSUME NEW k \in 1 .. n PROVE HeldBy(d[k], out)
    <3>1. k = n \/ k \in 1 .. n - 1
      BY <1>1
    <3>2. CASE k = n
      BY <1>3, <2>2, <2>4, <3>2 DEF HeldBy
    <3>3. CASE k \in 1 .. n - 1
      BY <1>1, <2>4, <3>3, HoldsSelf DEF HeldBy
    <3> QED
      BY <3>1, <3>2, <3>3
  <2> QED
    BY <2>5, <2>6, <2>7, <2>8, <2>9
<1>6. CASE ~mergeable(d[n], s)
  <2>1. out = Append(d, s)
    BY <1>6 DEF preen_put
  <2>2. /\ out \in Seq(NSegment) /\ Len(out) = n + 1 /\ out[n + 1] = s
        /\ \A k \in 1 .. n : out[k] = d[k]
    BY <1>1, <2>1
  <2>3. Tiles(out, s.end)
    <3>1. ASSUME NEW k \in 1 .. Len(out) PROVE out[k].start <= out[k].end
      BY <1>1, <1>2, <1>4, <2>2
    <3>2. ASSUME NEW k \in 1 .. Len(out) - 1 PROVE out[k].end + 1 = out[k + 1].start
      <4>1. k \in 1 .. n /\ (k = n \/ k \in 1 .. n - 1)
        BY <1>1, <2>2
      <4>2. CASE k = n
        BY <1>2, <2>2, <4>1, <4>2
      <4>3. CASE k \in 1 .. n - 1
        BY <1>1, <1>2, <2>2, <4>3, SMTT(30)
      <4> QED
        BY <4>1, <4>2, <4>3
    <3>3. out[1].start = 0 /\ out # <<>>
      BY <1>1, <1>2, <2>2
    <3> QED
      BY <2>2, <3>1, <3>2, <3>3 DEF Tiles
  <2>4. AllSound(names, out)
    BY <1>1, <2>2 DEF AllSound
  <2>5. Neat(out)
    <3>1. ASSUME NEW k \in 1 .. Len(out) - 1 PROVE ~mergeable(out[k], out[k + 1])
      <4>1. k \in 1 .. n /\ (k = n \/ k \in 1 .. n - 1)
        BY <1>1, <2>2
      <4>2. CASE k = n
        BY <1>6, <2>2, <4>1, <4>2
      <4>3. CASE k \in 1 .. n - 1
        BY <1>1, <2>2, <4>3 DEF Neat
      <4> QED
        BY <4>1, <4>2, <4>3
    <3> QED
      BY <3>1 DEF Neat
  <2>6. HeldBy(s, out)
    BY <1>1, <2>2, HoldsSelf DEF HeldBy
  <2>7. ASSUME NEW k \in 1 .. n PROVE HeldBy(d[k], out)
    BY <1>1, <2>2, HoldsSelf, SMTT(30) DEF HeldBy
  <2> QED
    BY <2>3, <2>4, <2>5, <2>6, <2>7
<1> QED
  BY <1>5, <1>6

(* The array in the making, whenever some of segs have been put in. *)
LEMMA PreenedUpTo ==
  ASSUME NEW names, NEW segs, Covers(segs), AllSound(names, segs), NEW n \in 1 .. Len(segs)
  PROVE  LET d == preened(segs)[n]
         IN  /\ Tiles(d, segs[n].end) /\ AllSound(names, d) /\ Neat(d)
             /\ \A j \in 1 .. n : HeldBy(segs[j], d)
PROOF
<1> DEFINE D(i) == preened(segs)[i]
           Good(i) == /\ Tiles(D(i), segs[i].end) /\ AllSound(names, D(i)) /\ Neat(D(i))
                      /\ \A j \in 1 .. i : HeldBy(segs[j], D(i))
           Bad == {i \in 1 .. Len(segs) : ~Good(i)}
<1>1. /\ Len(segs) \in Nat \ {0} /\ segs[1].start = 0
      /\ \A i \in 1 .. Len(segs) : segs[i] \in NSegment /\ segs[i].start \in Int /\ segs[i].end \in Int
      /\ \A i \in 1 .. Len(segs) : segs[i].start <= segs[i].end /\ Sound(names, segs[i])
      /\ \A i \in 1 .. Len(segs) - 1 : segs[i].end + 1 = segs[i + 1].start
  BY TilesTyped DEF Covers, Tiles, AllSound
<1>2. D(0) = <<>> /\ \A i \in 1 .. Len(segs) : D(i) = preen_put(D(i - 1), segs[i])
  BY <1>1, PreenedSteps
<1> HIDE DEF D
<1>3. Good(1)
  <2>1. D(1) = <<segs[1]>>
    <3>1. D(1) = preen_put(<<>>, segs[1])
      BY <1>1, <1>2
    <3> QED
      BY <3>1 DEF preen_put
  <2>2. segs[1] \in NSegment /\ Sound(names, segs[1]) /\ segs[1].start <= segs[1].end
    BY <1>1
  <2>3. /\ D(1) \in Seq(NSegment) /\ Len(D(1)) = 1 /\ D(1)[1] = segs[1] /\ D(1) # <<>>
    <3>1. ASSUME NEW x \in NSegment, NEW q, q = <<x>>
          PROVE  q \in Seq(NSegment) /\ Len(q) = 1 /\ q[1] = x /\ q # <<>>
      BY <3>1
    <3>2. PICK x \in NSegment : x = segs[1]
      BY <2>2
    <3>3. D(1) = <<x>>
      BY <2>1, <3>2
    <3>4. D(1) \in Seq(NSegment) /\ Len(D(1)) = 1 /\ D(1)[1] = x /\ D(1) # <<>>
      BY <3>1, <3>3
    <3> QED
      BY <3>2, <3>4
  <2>4. Tiles(D(1), segs[1].end)
    BY <1>1, <2>2, <2>3 DEF Tiles
  <2>5. AllSound(names, D(1)) /\ Neat(D(1)) /\ HeldBy(segs[1], D(1))
    BY <2>2, <2>3, HoldsSelf DEF AllSound, Neat, HeldBy
  <2> QED
    BY <2>4, <2>5
<1>4. ASSUME NEW i \in 2 .. Len(segs), Good(i - 1) PROVE Good(i)
  <2>1. i - 1 \in 1 .. Len(segs) - 1 /\ (i - 1) + 1 = i /\ i \in 1 .. Len(segs)
    BY <1>1
  <2>2. D(i) = preen_put(D(i - 1), segs[i])
    BY <1>2, <2>1
  <2>3. segs[i].start = segs[i - 1].end + 1 /\ segs[i - 1].end \in Int /\ segs[i] \in NSegment
        /\ Sound(names, segs[i])
    BY <1>1, <2>1
  <2>4. Tiles(D(i - 1), segs[i - 1].end) /\ AllSound(names, D(i - 1)) /\ Neat(D(i - 1))
        /\ \A j \in 1 .. i - 1 : HeldBy(segs[j], D(i - 1))
    BY <1>4
  <2>5. /\ Tiles(D(i), segs[i].end) /\ AllSound(names, D(i)) /\ Neat(D(i))
        /\ HeldBy(segs[i], D(i)) /\ \A k \in 1 .. Len(D(i - 1)) : HeldBy(D(i - 1)[k], D(i))
    BY <2>2, <2>3, <2>4, PreenPut
  <2>6. ASSUME NEW j \in 1 .. i PROVE HeldBy(segs[j], D(i))
    <3>1. CASE j = i
      BY <2>5, <3>1
    <3>2. CASE j # i
      <4>1. j \in 1 .. i - 1 /\ j \in 1 .. Len(segs)
        BY <2>1, <3>2
      <4>2. PICK k \in 1 .. Len(D(i - 1)) : Holds(segs[j], D(i - 1)[k])
        BY <2>4, <4>1 DEF HeldBy
      <4>3. PICK l \in 1 .. Len(D(i)) : Holds(D(i - 1)[k], D(i)[l])
        BY <2>5 DEF HeldBy
      <4>4. segs[j] \in NSegment /\ D(i - 1)[k] \in NSegment /\ D(i)[l] \in NSegment
        BY <1>1, <2>4, <2>5, <4>1, TilesTyped
      <4>5. Holds(segs[j], D(i)[l])
        BY <4>2, <4>3, <4>4, HoldsTrans
      <4> QED
        BY <4>5 DEF HeldBy
    <3> QED
      BY <3>1, <3>2
  <2> QED
    BY <2>5, <2>6
<1> HIDE DEF Good
<1>5. ASSUME Bad # {} PROVE FALSE
  <2>1. Bad \in SUBSET Nat
    OBVIOUS
  <2>2. PICK i \in Bad : \A k \in Bad : i <= k
    <3> HIDE DEF Bad
    <3> QED
      BY <1>5, <2>1, LeastNat
  <2>3. i # 1
    BY <1>3, <2>2
  <2>4. i \in 2 .. Len(segs) /\ i - 1 \in 1 .. Len(segs) /\ ~(i <= i - 1)
    BY <1>1, <2>2, <2>3
  <2>5. Good(i - 1)
    BY <2>2, <2>4
  <2> QED
    BY <1>4, <2>2, <2>4, <2>5
<1>6. Good(n)
  BY <1>5
<1> QED
  BY <1>6 DEF Good, D

(* A table of names has a length. *)
LEMMA NamesLength ==
  ASSUME NEW names
  PROVE  IsNames(names) <=> \E n \in Nat : names \in [0 .. n - 1 -> Files \cup {NoFile}]
PROOF
<1>1. ASSUME IsNames(names)
      PROVE  \E n \in Nat : names \in [0 .. n - 1 -> Files \cup {NoFile}]
  <2>1. Cardinality(DOMAIN names) \in Nat
    BY <1>1, FS_CardinalityType DEF IsNames
  <2> QED
    BY <1>1, <2>1 DEF IsNames
<1>2. ASSUME NEW n \in Nat, names \in [0 .. n - 1 -> Files \cup {NoFile}]
      PROVE  IsNames(names)
  <2>1. DOMAIN names = 0 .. n - 1
    BY <1>2
  <2>2. IsFiniteSet(0 .. n - 1) /\ Cardinality(0 .. n - 1) = IF 0 > n - 1 THEN 0 ELSE (n - 1) - 0 + 1
    BY FS_Interval
  <2>3. IsFiniteSet(DOMAIN names) /\ n \in 0 .. Cardinality(DOMAIN names)
    BY <2>1, <2>2
  <2> QED
    BY <1>2, <2>3 DEF IsNames
<1> QED
  BY <1>1, <1>2

(* The pages keep their attributes. *)
Same(segs, out) == \A p \in Addr : Like(At(segs, p), At(out, p))

(* preen_nsegments leaves nothing to merge, every page what it was, and    *)
(* the names that are in use.                                              *)
LEMMA Preen ==
  ASSUME NEW names, IsNames(names), NEW segs, Covers(segs), AllSound(names, segs),
         NEW out, out = preen_nsegments(segs, names)
  PROVE  IsSpace(out) /\ Neat(out.segs) /\ Same(segs, out.segs)
PROOF
<1> DEFINE d == preened(segs)[Len(segs)]
           left == [i \in DOMAIN names |->
                      IF \E k \in 1 .. Len(d) : d[k].fnIdx = i THEN names[i] ELSE NoFile]
<1>1. /\ Len(segs) \in Nat \ {0} /\ segs[Len(segs)].end = P - 1
      /\ \A i \in 1 .. Len(segs) : segs[i] \in NSegment
  BY TilesTyped DEF Covers, Tiles
<1>2. Len(segs) \in 1 .. Len(segs)
  BY <1>1
<1>3. /\ Covers(d) /\ AllSound(names, d) /\ Neat(d)
      /\ \A j \in 1 .. Len(segs) : HeldBy(segs[j], d)
  BY <1>1, <1>2, PreenedUpTo DEF Covers
<1>4. out.segs = d /\ out.names = left
  BY DEF preen_nsegments
<1>d. DOMAIN out = {"segs", "names"}
  BY DEF preen_nsegments
<1> HIDE DEF d
<1>5. IsNames(left)
  <2>1. PICK n \in Nat : names \in [0 .. n - 1 -> Files \cup {NoFile}]
    BY NamesLength
  <2>2. left \in [0 .. n - 1 -> Files \cup {NoFile}]
    BY <2>1
  <2> HIDE DEF left
  <2> QED
    BY <2>2, NamesLength
<1>6. ASSUME NEW k \in 1 .. Len(d) PROVE Sound(left, d[k])
  <2>1. Sound(names, d[k])
    BY <1>3 DEF AllSound
  <2>2. d[k].fnIdx \in DOMAIN names => d[k].fnIdx \in DOMAIN left /\ left[d[k].fnIdx] = names[d[k].fnIdx]
    OBVIOUS
  <2> HIDE DEF left
  <2> QED
    BY <2>1, <2>2 DEF Sound, sane_NSegment
<1>7. ASSUME NEW p \in Addr PROVE Like(At(segs, p), At(d, p))
  <2>1. /\ find_nsegment_idx(segs, p) \in 1 .. Len(segs) /\ At(segs, p) \in NSegment
        /\ At(segs, p).start <= p /\ p <= At(segs, p).end
    BY Found
  <2>2. PICK k \in 1 .. Len(d) : Holds(At(segs, p), d[k])
    BY <1>3, <2>1 DEF HeldBy, At
  <2>3. d[k] \in NSegment
    BY <1>3, TilesTyped DEF Covers
  <2>4. d[k].start <= p /\ p <= d[k].end
    BY <2>1, <2>2, <2>3, SegmentFields, PageAssumption, SMTT(30) DEF Holds, Addr
  <2>5. k = find_nsegment_idx(d, p)
    BY <1>3, <2>4, Found
  <2> QED
    BY <2>2, <2>5 DEF Holds, At
<1> QED
  BY <1>3, <1>4, <1>d, <1>5, <1>6, <1>7 DEF IsSpace, Same

-----------------------------------------------------------------------------
(* Placing a segment *)

(* out is segs with s placed in its range. *)
Placed(segs, out, s) ==
  \A p \in Addr : Like(IF p \in s.start .. s.end THEN s ELSE At(segs, p), At(out, p))

(* The array of add_segment before it is preened. *)
LEMMA Replaced ==
  ASSUME NEW names, NEW old, Covers(old), AllSound(names, old),
         NEW s \in NSegment, Sound(names, s),
         At(old, s.start).start = s.start, At(old, s.end).end = s.end, NEW out
  PROVE  out = SubSeq(old, 1, find_nsegment_idx(old, s.start) - 1) \o <<s>>
               \o SubSeq(old, find_nsegment_idx(old, s.end) + 1, Len(old))
         => Covers(out) /\ AllSound(names, out) /\ Placed(old, out, s)
PROOF
<1>0. SUFFICES ASSUME out = SubSeq(old, 1, find_nsegment_idx(old, s.start) - 1) \o <<s>>
                            \o SubSeq(old, find_nsegment_idx(old, s.end) + 1, Len(old))
               PROVE  Covers(out) /\ AllSound(names, out) /\ Placed(old, out, s)
  OBVIOUS
<1> DEFINE i == find_nsegment_idx(old, s.start)
           j == find_nsegment_idx(old, s.end)
           m == <<s>>
<1>1. /\ old \in Seq(NSegment) /\ Len(old) \in Nat \ {0} /\ P \in Nat
      /\ old[1].start = 0 /\ old[Len(old)].end = P - 1
      /\ \A k \in 1 .. Len(old) : old[k] \in NSegment /\ old[k].start \in Int /\ old[k].end \in Int
      /\ \A k \in 1 .. Len(old) : old[k].start <= old[k].end
      /\ \A k \in 1 .. Len(old) - 1 : old[k].end + 1 = old[k + 1].start
  BY TilesTyped, PageAssumption DEF Covers, Tiles
<1>2. /\ s.start \in Int /\ s.end \in Int /\ s.start <= s.end
      /\ s.start \in Addr /\ s.end \in Addr
  BY SegmentFields, PageAssumption DEF Sound, sane_NSegment, Addr
<1>3. i \in 1 .. Len(old) /\ j \in 1 .. Len(old) /\ old[i].start = s.start /\ old[j].end = s.end
  BY <1>2, Found DEF At
<1>4. \A x, y \in 1 .. Len(old) : x < y => old[x].end < old[y].start
  <2>1. P - 1 \in Int
    BY <1>1
  <2> QED
    BY <2>1, TilesInOrder DEF Covers
<1>5. i <= j
  <2>1. ASSUME j < i PROVE FALSE
    <3>1. old[j].end < old[i].start
      BY <1>3, <1>4, <2>1
    <3> QED
      BY <1>2, <1>3, <3>1
  <2> QED
    BY <1>3, <2>1
<1>6. m \in Seq(NSegment) /\ Len(m) = 1 /\ m[1] = s
  OBVIOUS
<1>7. out = SubSeq(old, 1, i - 1) \o m \o SubSeq(old, j + 1, Len(old))
  BY <1>0
<1> HIDE DEF i, j, m
<1>8. out \in Seq(NSegment) /\ IsSpliced(out, old, m, i, j)
  <2>1. j \in i .. Len(old)
    BY <1>3, <1>5
  <2> QED
    BY <1>1, <1>3, <1>6, <1>7, <2>1, Spliced
<1>9. /\ Len(out) = Len(old) - (j - i)
      /\ \A k \in 1 .. i - 1 : out[k] = old[k]
      /\ out[i] = s
      /\ \A k \in j + 1 .. Len(old) : out[k - j + i] = old[k]
  <2>1. /\ Len(out) = Len(old) + Len(m) - (j - i + 1)
        /\ \A k \in 1 .. i - 1 : out[k] = old[k]
        /\ \A k \in 1 .. Len(m) : out[i - 1 + k] = m[k]
        /\ \A k \in j + 1 .. Len(old) : out[k - j + i - 1 + Len(m)] = old[k]
    BY <1>8 DEF IsSpliced
  <2>2. Len(old) + Len(m) - (j - i + 1) = Len(old) - (j - i)
    BY <1>1, <1>3, <1>6
  <2>3. 1 \in 1 .. Len(m) /\ i - 1 + 1 = i
    BY <1>3, <1>6
  <2>4. out[i] = s
    BY <1>6, <2>1, <2>3
  <2>5. ASSUME NEW k \in j + 1 .. Len(old) PROVE out[k - j + i] = old[k]
    <3>1. k - j + i - 1 + Len(m) = k - j + i
      BY <1>1, <1>3, <1>6
    <3> QED
      BY <2>1, <3>1
  <2> QED
    BY <2>1, <2>2, <2>4, <2>5
<1>10. ASSUME NEW k \in 1 .. Len(out)
       PROVE  \/ k \in 1 .. i - 1 /\ k \in 1 .. Len(old) /\ out[k] = old[k]
              \/ k = i /\ out[k] = s
              \/ k > i /\ k + (j - i) \in j + 1 .. Len(old) /\ k + (j - i) \in 1 .. Len(old)
                 /\ out[k] = old[k + (j - i)]
  <2>1. CASE k > i
    <3>1. /\ k + (j - i) \in j + 1 .. Len(old) /\ k + (j - i) \in 1 .. Len(old)
          /\ (k + (j - i)) - j + i = k
      BY <1>1, <1>3, <1>5, <1>9, <2>1
    <3>2. out[(k + (j - i)) - j + i] = old[k + (j - i)]
      BY <1>9, <3>1
    <3> QED
      BY <2>1, <3>1, <3>2
  <2>2. CASE k <= i
    BY <1>1, <1>3, <1>5, <1>9, <2>2
  <2> QED
    BY <1>1, <1>3, <2>1, <2>2
<1>11. Covers(out)
  <2>1. ASSUME NEW k \in 1 .. Len(out) PROVE out[k].start <= out[k].end
    BY <1>1, <1>2, <1>3, <1>10
  <2>2. ASSUME NEW k \in 1 .. Len(out) - 1 PROVE out[k].end + 1 = out[k + 1].start
    <3>0. k \in 1 .. Len(out) /\ k + 1 \in 1 .. Len(out) /\ k \in Nat
      <4>1. Len(out) \in Nat
        BY <1>8
      <4> QED
        BY <4>1
    <3>1. CASE k < i - 1
      <4>1. k \in 1 .. i - 1 /\ k + 1 \in 1 .. i - 1 /\ k \in 1 .. Len(old) - 1
        BY <1>1, <1>3, <3>0, <3>1, SMTT(30)
      <4> QED
        BY <1>1, <1>9, <4>1
    <3>2. CASE k = i - 1
      <4>1. k \in 1 .. i - 1 /\ k + 1 = i /\ k \in 1 .. Len(old) - 1
        BY <1>1, <1>3, <3>0, <3>2
      <4>2. old[k].end + 1 = old[i].start
        BY <1>1, <4>1
      <4> QED
        BY <1>3, <1>9, <4>1, <4>2
    <3>3. CASE k = i
      <4>1. j \in 1 .. Len(old) - 1 /\ j + 1 \in j + 1 .. Len(old) /\ (j + 1) - j + i = k + 1
        BY <1>1, <1>3, <1>9, <3>0, <3>3
      <4>2. out[(j + 1) - j + i] = old[j + 1] /\ old[j].end + 1 = old[j + 1].start
        BY <1>1, <1>9, <4>1
      <4> QED
        BY <1>3, <1>9, <3>3, <4>1, <4>2
    <3>4. CASE k > i
      <4>1. /\ k + (j - i) \in j + 1 .. Len(old) /\ k + (j - i) \in 1 .. Len(old) - 1
            /\ (k + (j - i)) + 1 \in j + 1 .. Len(old)
            /\ (k + (j - i)) - j + i = k /\ ((k + (j - i)) + 1) - j + i = k + 1
        BY <1>1, <1>3, <1>5, <1>9, <3>0, <3>4
      <4>2. out[k] = old[k + (j - i)] /\ out[k + 1] = old[(k + (j - i)) + 1]
        BY <1>9, <4>1
      <4>3. old[k + (j - i)].end + 1 = old[(k + (j - i)) + 1].start
        BY <1>1, <4>1
      <4> QED
        BY <4>2, <4>3
    <3> QED
      BY <1>3, <3>0, <3>1, <3>2, <3>3, <3>4
  <2>3. out[1].start = 0
    <3>1. CASE i = 1
      BY <1>1, <1>3, <1>9, <3>1
    <3>2. CASE i # 1
      BY <1>1, <1>3, <1>9, <3>2
    <3> QED
      BY <3>1, <3>2
  <2>4. out[Len(out)].end = P - 1
    <3>1. CASE j = Len(old)
      BY <1>1, <1>3, <1>9, <3>1
    <3>2. CASE j # Len(old)
      <4>1. Len(old) \in j + 1 .. Len(old) /\ Len(old) - j + i = Len(out)
        BY <1>1, <1>3, <1>9, <3>2
      <4>2. out[Len(old) - j + i] = old[Len(old)]
        BY <1>9, <4>1
      <4> QED
        BY <1>1, <4>1, <4>2
    <3> QED
      BY <3>1, <3>2
  <2>5. out # <<>>
    BY <1>1, <1>3, <1>5, <1>9
  <2> QED
    BY <1>8, <2>1, <2>2, <2>3, <2>4, <2>5 DEF Covers, Tiles
<1>12. AllSound(names, out)
  <2>1. ASSUME NEW k \in 1 .. Len(out) PROVE Sound(names, out[k])
    <3>1. out[k] = s \/ \E l \in 1 .. Len(old) : out[k] = old[l]
      BY <1>1, <1>3, <1>10
    <3> QED
      BY <3>1 DEF AllSound
  <2> QED
    BY <2>1 DEF AllSound
<1>13. ASSUME NEW p \in Addr
       PROVE  Like(IF p \in s.start .. s.end THEN s ELSE At(old, p), At(out, p))
  <2> DEFINE k == find_nsegment_idx(out, p)
  <2>1. k \in 1 .. Len(out) /\ out[k].start <= p /\ p <= out[k].end /\ At(out, p) = out[k]
    BY <1>11, Found DEF At
  <2>2. p \in Int
    BY <1>1 DEF Addr
  <2> HIDE DEF k
  <2>3. CASE k = i
    <3>1. p \in s.start .. s.end /\ At(out, p) = s
      BY <1>2, <1>9, <2>1, <2>2, <2>3
    <3> QED
      BY <3>1 DEF Like
  <2>4. CASE k # i
    <3>1. PICK l \in 1 .. Len(old) : out[k] = old[l] /\ (l < i \/ l > j)
      BY <1>1, <1>3, <1>5, <1>10, <2>1, <2>4
    <3>2. l = find_nsegment_idx(old, p)
      BY <2>1, <3>1, Found
    <3>3. p \notin s.start .. s.end
      <4>1. CASE l < i
        <5>1. old[l].end < old[i].start
          BY <1>3, <1>4, <3>1, <4>1
        <5> QED
          BY <1>1, <1>2, <1>3, <2>1, <2>2, <3>1, <5>1, SMTT(30)
      <4>2. CASE l > j
        <5>1. old[j].end < old[l].start
          BY <1>3, <1>4, <3>1, <4>2
        <5> QED
          BY <1>1, <1>2, <1>3, <2>1, <2>2, <3>1, <5>1
      <4> QED
        BY <3>1, <4>1, <4>2
    <3>4. At(out, p) = At(old, p)
      BY <2>1, <3>1, <3>2 DEF At
    <3> QED
      BY <3>3, <3>4 DEF Like
  <2> QED
    BY <2>3, <2>4
<1> QED
  BY <1>11, <1>12, <1>13 DEF Placed

LEMMA LikeTrans ==
  ASSUME NEW s, NEW t, NEW u, Like(s, t), Like(t, u)
  PROVE  Like(s, u)
PROOF
BY DEF Like

(* Cutting a space leaves it sound, and every page what it was. *)
LEMMA SplitSound ==
  ASSUME NEW m, IsSpace(m), NEW lo \in Addr, NEW hi \in Addr, lo <= hi,
         NEW out, out = split_nsegments_lo_and_hi(m.segs, lo, hi)
  PROVE  /\ Covers(out) /\ AllSound(m.names, out) /\ Same(m.segs, out)
         /\ At(out, lo).start = lo /\ At(out, hi).end = hi
PROOF
<1>1. Covers(m.segs) /\ AllSound(m.names, m.segs)
  BY DEF IsSpace, AllSound
<1>2. /\ Covers(out) /\ Pieces(out, m.segs)
      /\ At(out, lo).start = lo /\ At(out, hi).end = hi
  BY <1>1, SplitLoHi
<1>3. ASSUME NEW k \in 1 .. Len(out) PROVE Sound(m.names, out[k])
  <2>1. PICK i \in 1 .. Len(m.segs) : Piece(out[k], m.segs[i])
    BY <1>2 DEF Pieces
  <2>2. out[k] \in NSegment /\ m.segs[i] \in NSegment /\ out[k].start <= out[k].end
    BY <1>1, <1>2, TilesTyped DEF Covers, Tiles
  <2> QED
    BY <1>1, <2>1, <2>2, SoundPiece DEF AllSound
<1>4. ASSUME NEW p \in Addr PROVE Like(At(m.segs, p), At(out, p))
  <2>1. Piece(At(out, p), At(m.segs, p))
    BY <1>1, <1>2, PiecesAt
  <2> QED
    BY <2>1 DEF Piece, Like
<1> QED
  BY <1>2, <1>3, <1>4 DEF AllSound, Same

(* add_segment: the pages of the range are now s's, the others what they   *)
(* were.                                                                   *)
LEMMA AddSegment ==
  ASSUME NEW m, IsSpace(m), NEW s \in NSegment, Sound(m.names, s), NEW out, out = add_segment(m, s)
  PROVE  IsSpace(out) /\ Neat(out.segs) /\ Placed(m.segs, out.segs, s)
PROOF
<1> DEFINE cut == split_nsegments_lo_and_hi(m.segs, s.start, s.end)
           new == SubSeq(cut, 1, find_nsegment_idx(cut, s.start) - 1) \o <<s>>
                  \o SubSeq(cut, find_nsegment_idx(cut, s.end) + 1, Len(cut))
<1>1. s.start \in Addr /\ s.end \in Addr /\ s.start <= s.end
  BY SegmentFields, PageAssumption DEF Sound, sane_NSegment, Addr
<1>2. out = preen_nsegments(new, m.names)
  BY DEF add_segment
<1>3. /\ Covers(cut) /\ AllSound(m.names, cut) /\ Same(m.segs, cut)
      /\ At(cut, s.start).start = s.start /\ At(cut, s.end).end = s.end
  BY <1>1, SplitSound
<1> HIDE DEF cut
<1>4. Covers(new) /\ AllSound(m.names, new) /\ Placed(cut, new, s)
  BY <1>3, Replaced
<1> HIDE DEF new
<1>5. IsSpace(out) /\ Neat(out.segs) /\ Same(new, out.segs)
  BY <1>2, <1>4, Preen DEF IsSpace
<1>6. ASSUME NEW p \in Addr
      PROVE  Like(IF p \in s.start .. s.end THEN s ELSE At(m.segs, p), At(out.segs, p))
  <2>1. /\ Like(IF p \in s.start .. s.end THEN s ELSE At(cut, p), At(new, p))
        /\ Like(At(new, p), At(out.segs, p)) /\ Like(At(m.segs, p), At(cut, p))
    BY <1>3, <1>4, <1>5 DEF Same, Placed
  <2>2. CASE p \in s.start .. s.end
    BY <2>1, <2>2, LikeTrans
  <2>3. CASE p \notin s.start .. s.end
    <3>1. Like(At(cut, p), At(new, p))
      BY <2>1, <2>3
    <3>2. Like(At(m.segs, p), At(new, p))
      BY <2>1, <3>1, LikeTrans
    <3> QED
      BY <2>1, <2>3, <3>2, LikeTrans
  <2> QED
    BY <2>2, <2>3
<1> QED
  BY <1>5, <1>6 DEF Placed

(* s is a segment as init_nsegment makes it, but for its protection. *)
IsInit(s, kind, a, b) ==
  /\ s \in NSegment /\ s.kind = kind /\ s.start = a /\ s.end = b
  /\ s.file = NoFile /\ s.offset = 0 /\ s.fnIdx = -1
  /\ s.hasT = FALSE /\ s.isCH = FALSE

LEMMA InitNSegment ==
  ASSUME NEW kind \in MappedKinds \cup Vacant, NEW a \in Int, NEW b \in Int
  PROVE  /\ IsInit(init_nsegment(kind, a, b), kind, a, b)
         /\ init_nsegment(kind, a, b).prot = {}
         /\ init_nsegment(kind, a, b).smode = "SmFixed"
PROOF
BY DEF init_nsegment, NSegment, IsInit

LEMMA SoundInit ==
  ASSUME NEW names, NEW kind \in MappedKinds \cup Vacant, kind \notin FileKinds,
         NEW a \in Addr, NEW b \in Addr, a <= b, kind = "SkShmC" => a = b,
         NEW s, IsInit(s, kind, a, b), kind # "SkResvn" => s.smode = "SmFixed",
         kind \in Vacant => s.prot = {}
  PROVE  Sound(names, s)
PROOF
<1>1. a \in Int /\ b \in Int /\ b \in a .. P - 1
  BY PageAssumption DEF Addr
<1> QED
  BY <1>1 DEF IsInit, Sound, sane_NSegment

(* allocate_segname finds the name or takes a slot that is not in use. *)
LEMMA AllocateSegname ==
  ASSUME NEW names, IsNames(names), NEW f \in Files, NEW nm, nm = allocate_segname(names, f)
  PROVE  /\ IsNames(nm.names) /\ nm.idx \in Nat /\ nm.idx \in DOMAIN nm.names /\ nm.names[nm.idx] = f
         /\ \A i \in DOMAIN names :
              names[i] # NoFile => i \in DOMAIN nm.names /\ nm.names[i] = names[i]
PROOF
<1> DEFINE used == Cardinality(DOMAIN names)
           has  == {i \in DOMAIN names : names[i] = f}
           free == {i \in DOMAIN names : names[i] = NoFile}
           idx  == IF has # {} THEN Min(has) ELSE Min(free \cup {used})
<1>1. PICK n \in Nat : names \in [0 .. n - 1 -> Files \cup {NoFile}]
  BY NamesLength
<1>2. used = n /\ DOMAIN names = 0 .. n - 1
  <2>1. DOMAIN names = 0 .. n - 1
    BY <1>1
  <2>2. Cardinality(0 .. n - 1) = IF 0 > n - 1 THEN 0 ELSE (n - 1) - 0 + 1
    BY FS_Interval
  <2> QED
    BY <2>1, <2>2
<1>3. has \in SUBSET Nat /\ free \cup {used} \in SUBSET Nat /\ free \cup {used} # {}
  BY <1>2
<1>4. /\ nm.idx = idx
      /\ nm.names = [i \in DOMAIN names \cup {idx} |-> IF i = idx THEN f ELSE names[i]]
  BY DEF allocate_segname
<1>5. idx \in has \cup free \cup {used}
  <2>1. CASE has # {}
    <3>1. Min(has) \in has
      <4> HIDE DEF has
      <4> QED
        BY <1>3, <2>1, MinOfNats
    <3> QED
      BY <2>1, <3>1
  <2>2. CASE has = {}
    <3> DEFINE S == free \cup {used}
    <3>1. S \in SUBSET Nat /\ S # {} /\ idx = Min(S)
      BY <1>3, <2>2
    <3>2. Min(S) \in S
      <4> HIDE DEF S
      <4> QED
        BY <3>1, MinOfNats
    <3> QED
      BY <3>1, <3>2
  <2> QED
    BY <2>1, <2>2
<1> HIDE DEF idx
<1>6. idx \in 0 .. n
  BY <1>2, <1>5
<1>7. IsNames(nm.names)
  <2>1. CASE idx = n
    <3>1. DOMAIN names \cup {idx} = 0 .. (n + 1) - 1
      BY <1>2, <2>1
    <3>2. nm.names \in [0 .. (n + 1) - 1 -> Files \cup {NoFile}]
      BY <1>1, <1>4, <3>1
    <3> QED
      BY <3>2, NamesLength
  <2>2. CASE idx # n
    <3>1. DOMAIN names \cup {idx} = 0 .. n - 1
      BY <1>2, <1>6, <2>2
    <3>2. nm.names \in [0 .. n - 1 -> Files \cup {NoFile}]
      BY <1>1, <1>4, <3>1
    <3> QED
      BY <3>2, NamesLength
  <2> QED
    BY <2>1, <2>2
<1>8. ASSUME NEW i \in DOMAIN names, names[i] # NoFile
      PROVE  i \in DOMAIN nm.names /\ nm.names[i] = names[i]
  <2>1. i = idx => names[i] = f
    BY <1>2, <1>5, <1>8
  <2> QED
    BY <1>4, <2>1
<1> QED
  BY <1>4, <1>6, <1>7, <1>8

(* s is what record_mapping puts into the array. *)
IsMapping(s, kind, a, n, prot, file, offset) ==
  /\ s \in NSegment /\ s.kind = kind /\ s.start = a /\ s.end = a + n - 1
  /\ s.prot = prot /\ s.smode = "SmFixed" /\ s.hasT = FALSE /\ s.isCH = FALSE
  /\ IF kind \in FileKinds THEN s.file = file /\ s.offset = offset
     ELSE s.file = NoFile /\ s.offset = 0 /\ s.fnIdx = -1

(* The pages of the range are mapped as asked, the others what they were. *)
Mapped(segs, out, kind, a, n, prot, file, offset) ==
  \E s : IsMapping(s, kind, a, n, prot, file, offset) /\ Placed(segs, out, s)

LEMMA RecordMapping ==
  ASSUME NEW m, IsSpace(m), NEW kind \in MappedKinds, NEW a \in Addr, NEW n \in Nat \ {0},
         a + n - 1 \in Addr, NEW prot \in SUBSET RWX,
         NEW file, kind \in FileKinds => file \in Files, NEW offset \in Int,
         kind = "SkShmC" => n = 1,
         NEW out, out = record_mapping(m, kind, a, n, prot, file, offset)
  PROVE  /\ IsSpace(out) /\ Neat(out.segs)
         /\ Mapped(m.segs, out.segs, kind, a, n, prot, file, offset)
PROOF
<1> DEFINE b == a + n - 1
           anon == [init_nsegment(kind, a, b) EXCEPT !.prot = prot]
<1>1. /\ a \in Int /\ b \in Int /\ b \in a .. P - 1 /\ P \in Nat /\ kind \notin Vacant
      /\ b \in Addr /\ a <= b
  BY PageAssumption DEF Addr, MappedKinds, Vacant, AnonKinds, FileKinds
<1>2. IsInit(anon, kind, a, b) /\ anon.prot = prot /\ anon.smode = "SmFixed"
  <2>1. kind \in MappedKinds \cup Vacant
    OBVIOUS
  <2> DEFINE s == init_nsegment(kind, a, b)
  <2>2. IsInit(s, kind, a, b) /\ s.prot = {} /\ s.smode = "SmFixed"
    <3> HIDE DEF b
    <3> QED
      BY <1>1, <2>1, InitNSegment
  <2> HIDE DEF s
  <2>3. /\ IsInit([s EXCEPT !.prot = prot], kind, a, b)
        /\ [s EXCEPT !.prot = prot].prot = prot /\ [s EXCEPT !.prot = prot].smode = "SmFixed"
    BY <2>2 DEF NSegment, IsInit
  <2> QED
    BY <2>3 DEF s
<1>3. CASE kind \notin FileKinds
  <2>1. out = add_segment(m, anon)
    BY <1>3 DEF record_mapping
  <2> HIDE DEF anon
  <2>2. Sound(m.names, anon)
    <3>1. kind = "SkShmC" => a = b
      BY <1>1
    <3> QED
      BY <1>1, <1>2, <1>3, <3>1, SoundInit
  <2>3. IsMapping(anon, kind, a, n, prot, file, offset)
    BY <1>2, <1>3 DEF IsMapping, IsInit
  <2>4. anon \in NSegment
    BY <1>2 DEF IsInit
  <2> QED
    BY <2>1, <2>2, <2>3, <2>4, AddSegment DEF Mapped
<1>4. CASE kind \in FileKinds
  <2> DEFINE nm == allocate_segname(m.names, file)
             m2 == [m EXCEPT !.names = nm.names]
             s  == [anon EXCEPT !.file = file, !.offset = offset, !.fnIdx = nm.idx]
  <2>1. file \in Files /\ IsNames(m.names) /\ file # NoFile
    BY <1>4, FileAssumption DEF IsSpace
  <2>2. /\ IsNames(nm.names) /\ nm.idx \in Nat /\ nm.idx \in DOMAIN nm.names /\ nm.names[nm.idx] = file
        /\ \A i \in DOMAIN m.names :
             m.names[i] # NoFile => i \in DOMAIN nm.names /\ nm.names[i] = m.names[i]
    BY <2>1, AllocateSegname
  <2>3. out = add_segment(m2, s)
    BY <1>4 DEF record_mapping
  <2> HIDE DEF nm, anon
  <2>4. IsMapping(s, kind, a, n, prot, file, offset) /\ s.fnIdx = nm.idx
    <3>1. anon \in NSegment /\ file \in Files \cup {NoFile} /\ nm.idx \in Int /\ offset \in Int
      BY <1>2, <2>1, <2>2 DEF IsInit
    <3>2. /\ s \in NSegment /\ s.kind = anon.kind /\ s.start = anon.start /\ s.end = anon.end
          /\ s.prot = anon.prot /\ s.smode = anon.smode /\ s.hasT = anon.hasT /\ s.isCH = anon.isCH
          /\ s.file = file /\ s.offset = offset /\ s.fnIdx = nm.idx
      BY <3>1 DEF NSegment
    <3> HIDE DEF s
    <3> QED
      BY <1>2, <1>4, <3>2 DEF IsInit, IsMapping
  <2>5. m2.names = nm.names /\ m2.segs = m.segs
    BY DEF IsSpace
  <2>d. DOMAIN m2 = {"segs", "names"}
    BY DEF IsSpace
  <2> HIDE DEF s
  <2>6. Sound(nm.names, s)
    <3>1. kind # "SkShmC"
      BY <1>4 DEF FileKinds
    <3>2. s.start \in Addr /\ s.end \in s.start .. P - 1
      BY <1>1, <2>4 DEF IsMapping
    <3> QED
      BY <1>1, <1>4, <2>1, <2>2, <2>4, <3>1, <3>2 DEF IsMapping, Sound, sane_NSegment
  <2>7. ASSUME NEW i \in 1 .. Len(m.segs) PROVE Sound(nm.names, m.segs[i])
    <3>1. Sound(m.names, m.segs[i])
      BY DEF IsSpace
    <3> QED
      BY <2>2, <3>1 DEF Sound, sane_NSegment
  <2> HIDE DEF m2
  <2>8. IsSpace(m2)
    BY <2>2, <2>5, <2>d, <2>7 DEF IsSpace
  <2>9. s \in NSegment /\ Sound(m2.names, s)
    BY <2>4, <2>5, <2>6 DEF IsMapping
  <2>10. IsSpace(out) /\ Neat(out.segs) /\ Placed(m2.segs, out.segs, s)
    BY <2>3, <2>8, <2>9, AddSegment
  <2> QED
    BY <2>4, <2>5, <2>10 DEF Mapped
<1> QED
  BY <1>3, <1>4

(* The range is vacant, the other pages are what they were. *)
Vacated(segs, out, a, b) ==
  \A p \in Addr : IF p \in a .. b THEN At(out, p).kind \in Vacant /\ ~At(out, p).hasT
                  ELSE Like(At(segs, p), At(out, p))

LEMMA AddVacant ==
  ASSUME NEW m, IsSpace(m), NEW kind \in Vacant, NEW a \in Addr, NEW b \in Addr, a <= b,
         NEW s, IsInit(s, kind, a, b), s.prot = {}, kind # "SkResvn" => s.smode = "SmFixed",
         NEW out, out = add_segment(m, s)
  PROVE  IsSpace(out) /\ Neat(out.segs) /\ Vacated(m.segs, out.segs, a, b)
PROOF
<1>1. kind \in MappedKinds \cup Vacant /\ kind \notin FileKinds /\ kind # "SkShmC"
  BY DEF Vacant, FileKinds
<1>2. Sound(m.names, s) /\ s \in NSegment
  BY <1>1, SoundInit DEF IsInit
<1>3. IsSpace(out) /\ Neat(out.segs) /\ Placed(m.segs, out.segs, s)
  BY <1>2, AddSegment
<1>4. ASSUME NEW p \in Addr
      PROVE  IF p \in a .. b THEN At(out.segs, p).kind \in Vacant /\ ~At(out.segs, p).hasT
             ELSE Like(At(m.segs, p), At(out.segs, p))
  <2>1. Like(IF p \in a .. b THEN s ELSE At(m.segs, p), At(out.segs, p))
    BY <1>3 DEF Placed, IsInit
  <2>2. CASE p \in a .. b
    <3>1. At(out.segs, p).kind = kind
      BY <2>1, <2>2 DEF IsInit, Like
    <3>2. Sound(out.names, At(out.segs, p))
      BY <1>3, Found DEF IsSpace, At
    <3> QED
      BY <2>2, <3>1, <3>2 DEF Sound, sane_NSegment
  <2>3. CASE p \notin a .. b
    BY <2>1, <2>3
  <2> QED
    BY <2>2, <2>3
<1> QED
  BY <1>3, <1>4 DEF Vacated

(* VG_(am_notify_munmap) *)
LEMMA NotifyMunmap ==
  ASSUME NEW m, IsSpace(m), NEW a \in Addr, NEW n \in Nat \ {0}, a + n - 1 \in Addr,
         NEW out, out = am_notify_munmap(m, a, n)
  PROVE  IsSpace(out) /\ Neat(out.segs) /\ Vacated(m.segs, out.segs, a, a + n - 1)
PROOF
<1> DEFINE b == a + n - 1
           kind == unmapped_kind(a, b)
           s == init_nsegment(kind, a, b)
<1>1. b \in Addr /\ a <= b /\ a \in Int /\ b \in Int
  BY PageAssumption DEF Addr
<1>2. kind \in Vacant
  BY DEF unmapped_kind, Vacant
<1>3. out = add_segment(m, s)
  BY DEF am_notify_munmap
<1> HIDE DEF b, kind
<1>4. IsInit(s, kind, a, b) /\ s.prot = {} /\ s.smode = "SmFixed"
  BY <1>1, <1>2, InitNSegment
<1> HIDE DEF s
<1>5. IsSpace(out) /\ Neat(out.segs) /\ Vacated(m.segs, out.segs, a, b)
  BY <1>1, <1>2, <1>3, <1>4, AddVacant
<1> QED
  BY <1>5 DEF b

-----------------------------------------------------------------------------
(* Changes within segments *)

(* Segments that keep their ranges are found where they were. *)
LEMMA Retouched ==
  ASSUME NEW segs, Covers(segs), NEW out \in Seq(NSegment), Len(out) = Len(segs),
         \A i \in 1 .. Len(segs) : out[i].start = segs[i].start /\ out[i].end = segs[i].end
  PROVE  /\ Covers(out)
         /\ \A p \in Addr : find_nsegment_idx(out, p) = find_nsegment_idx(segs, p)
PROOF
<1>1. Len(segs) \in Nat \ {0}
  BY TilesTyped DEF Covers
<1>2. Covers(out)
  <2>1. /\ segs[1].start = 0 /\ segs[Len(segs)].end = P - 1
        /\ \A i \in 1 .. Len(segs) : segs[i].start <= segs[i].end
        /\ \A i \in 1 .. Len(segs) - 1 : segs[i].end + 1 = segs[i + 1].start
    BY DEF Covers, Tiles
  <2>2. out # <<>> /\ out[1].start = 0 /\ out[Len(out)].end = P - 1
    BY <1>1, <2>1
  <2>3. ASSUME NEW i \in 1 .. Len(out) - 1 PROVE out[i].end + 1 = out[i + 1].start
    <3>1. i \in 1 .. Len(segs) /\ i + 1 \in 1 .. Len(segs) /\ i \in 1 .. Len(segs) - 1
      BY <1>1
    <3> QED
      BY <2>1, <3>1
  <2> QED
    BY <2>1, <2>2, <2>3 DEF Covers, Tiles
<1>3. ASSUME NEW p \in Addr PROVE find_nsegment_idx(out, p) = find_nsegment_idx(segs, p)
  <2>1. /\ find_nsegment_idx(segs, p) \in 1 .. Len(segs)
        /\ segs[find_nsegment_idx(segs, p)].start <= p /\ p <= segs[find_nsegment_idx(segs, p)].end
    BY Found DEF At
  <2> QED
    BY <1>2, <2>1, Found
<1> QED
  BY <1>2, <1>3

(* After a cut, the segments of the range are within it. *)
LEMMA Inside ==
  ASSUME NEW segs, Covers(segs), NEW lo \in Addr, NEW hi \in Addr, NEW p \in Addr,
         At(segs, lo).start = lo, At(segs, hi).end = hi
  PROVE  (lo <= p /\ p <= hi) <=> (lo <= At(segs, p).start /\ At(segs, p).end <= hi)
PROOF
<1>1. /\ lo \in Int /\ hi \in Int /\ p \in Int
      /\ At(segs, lo) \in NSegment /\ At(segs, hi) \in NSegment /\ At(segs, p) \in NSegment
      /\ At(segs, p).start <= p /\ p <= At(segs, p).end
      /\ find_nsegment_idx(segs, p) \in 1 .. Len(segs)
      /\ At(segs, p) = segs[find_nsegment_idx(segs, p)]
  BY Found, PageAssumption, SMTT(30) DEF Addr, At
<1>2. At(segs, p).start \in Int /\ At(segs, p).end \in Int
  BY <1>1, SegmentFields
<1>3. ASSUME lo <= p, At(segs, p).start < lo PROVE FALSE
  <2>1. find_nsegment_idx(segs, p) = find_nsegment_idx(segs, lo)
    BY <1>1, <1>2, <1>3, Found, SMTT(30)
  <2> QED
    BY <1>1, <1>2, <1>3, <2>1 DEF At
<1>4. ASSUME p <= hi, hi < At(segs, p).end PROVE FALSE
  <2>1. find_nsegment_idx(segs, p) = find_nsegment_idx(segs, hi)
    BY <1>1, <1>2, <1>4, Found, SMTT(30)
  <2> QED
    BY <1>1, <1>2, <1>4, <2>1 DEF At
<1> QED
  BY <1>1, <1>2, <1>3, <1>4

(* t is s, but for its protection. *)
LikeBut(s, t, prot) ==
  /\ s.kind = t.kind /\ s.smode = t.smode /\ s.file = t.file /\ t.prot = prot
  /\ s.hasT => t.hasT
  /\ s.kind \in FileKinds => s.offset - s.start = t.offset - t.start

(* The mapped pages of the range have the protection, the others are what  *)
(* they were.                                                              *)
Protected(segs, out, a, b, prot) ==
  \A p \in Addr : IF p \in a .. b /\ At(segs, p).kind \in MappedKinds
                  THEN LikeBut(At(segs, p), At(out, p), prot)
                  ELSE Like(At(segs, p), At(out, p))

(* VG_(am_notify_mprotect) *)
LEMMA NotifyMprotect ==
  ASSUME NEW m, IsSpace(m), NEW a \in Addr, NEW n \in Nat \ {0}, a + n - 1 \in Addr,
         NEW prot \in SUBSET RWX, NEW out, out = am_notify_mprotect(m, a, n, prot)
  PROVE  IsSpace(out) /\ Neat(out.segs) /\ Protected(m.segs, out.segs, a, a + n - 1, prot)
PROOF
<1> DEFINE b == a + n - 1
           cut == split_nsegments_lo_and_hi(m.segs, a, b)
           hit(s) == s.kind \in MappedKinds /\ a <= s.start /\ s.end <= b
           new == [i \in DOMAIN cut |-> IF hit(cut[i]) THEN [cut[i] EXCEPT !.prot = prot] ELSE cut[i]]
<1>1. b \in Addr /\ a <= b /\ a \in Int /\ b \in Int
  BY PageAssumption DEF Addr
<1>2. out = preen_nsegments(new, m.names)
  BY DEF am_notify_mprotect
<1> HIDE DEF b
<1>3. /\ Covers(cut) /\ AllSound(m.names, cut) /\ Same(m.segs, cut)
      /\ At(cut, a).start = a /\ At(cut, b).end = b
  BY <1>1, SplitSound
<1> HIDE DEF cut
<1>4. /\ Len(cut) \in Nat \ {0} /\ DOMAIN cut = 1 .. Len(cut)
      /\ \A i \in 1 .. Len(cut) : cut[i] \in NSegment
  BY <1>3, TilesTyped DEF Covers
<1>5. ASSUME NEW i \in 1 .. Len(cut)
      PROVE  /\ new[i] \in NSegment /\ new[i].start = cut[i].start /\ new[i].end = cut[i].end
             /\ Sound(m.names, new[i])
             /\ IF hit(cut[i]) THEN LikeBut(cut[i], new[i], prot) ELSE new[i] = cut[i]
  <2>1. cut[i] \in NSegment /\ Sound(m.names, cut[i])
    BY <1>3, <1>4 DEF AllSound
  <2>2. CASE hit(cut[i])
    <3> DEFINE s == cut[i]
               t == [s EXCEPT !.prot = prot]
    <3>1. /\ t \in NSegment /\ t.kind = s.kind /\ t.start = s.start /\ t.end = s.end
          /\ t.smode = s.smode /\ t.file = s.file /\ t.offset = s.offset /\ t.fnIdx = s.fnIdx
          /\ t.hasT = s.hasT /\ t.isCH = s.isCH /\ t.prot = prot
      BY <2>1 DEF NSegment
    <3>2. new[i] = t
      BY <1>4, <2>2
    <3>3. s.kind \notin Vacant
      BY <2>2 DEF MappedKinds, Vacant, AnonKinds, FileKinds
    <3> HIDE DEF t, new
    <3>4. Sound(m.names, t)
      BY <2>1, <3>1, <3>3 DEF Sound, sane_NSegment
    <3>5. LikeBut(s, t, prot)
      BY <3>1 DEF LikeBut
    <3> QED
      BY <2>2, <3>1, <3>2, <3>4, <3>5
  <2>3. CASE ~hit(cut[i])
    BY <1>4, <2>1, <2>3
  <2> QED
    BY <2>2, <2>3
<1>6. new \in Seq(NSegment) /\ Len(new) = Len(cut)
  <2>1. new \in [1 .. Len(cut) -> NSegment]
    BY <1>4, <1>5
  <2> HIDE DEF new
  <2> QED
    BY <1>4, <2>1
<1> HIDE DEF new
<1>7. Covers(new) /\ \A p \in Addr : find_nsegment_idx(new, p) = find_nsegment_idx(cut, p)
  BY <1>3, <1>5, <1>6, Retouched
<1>8. AllSound(m.names, new)
  BY <1>5, <1>6 DEF AllSound
<1>9. IsSpace(out) /\ Neat(out.segs) /\ Same(new, out.segs)
  BY <1>2, <1>7, <1>8, Preen DEF IsSpace
<1>10. ASSUME NEW p \in Addr
       PROVE  IF p \in a .. b /\ At(m.segs, p).kind \in MappedKinds
              THEN LikeBut(At(m.segs, p), At(out.segs, p), prot)
              ELSE Like(At(m.segs, p), At(out.segs, p))
  <2> DEFINE i == find_nsegment_idx(cut, p)
  <2>1. i \in 1 .. Len(cut) /\ At(cut, p) = cut[i] /\ At(new, p) = new[i]
    BY <1>3, <1>7, Found DEF At
  <2>2. Like(At(m.segs, p), cut[i]) /\ Like(new[i], At(out.segs, p))
    BY <1>3, <1>9, <2>1 DEF Same
  <2>3. p \in a .. b <=> a <= cut[i].start /\ cut[i].end <= b
    <3>1. p \in Int /\ ((a <= p /\ p <= b) <=> (a <= At(cut, p).start /\ At(cut, p).end <= b))
      BY <1>1, <1>3, Inside, PageAssumption DEF Addr
    <3> QED
      BY <1>1, <2>1, <3>1
  <2> HIDE DEF i
  <2>4. hit(cut[i]) <=> p \in a .. b /\ At(m.segs, p).kind \in MappedKinds
    BY <2>2, <2>3 DEF Like
  <2>5. CASE hit(cut[i])
    <3>1. LikeBut(cut[i], new[i], prot)
      BY <1>5, <2>1, <2>5
    <3>2. LikeBut(At(m.segs, p), At(out.segs, p), prot)
      BY <2>2, <3>1 DEF Like, LikeBut
    <3> QED
      BY <2>4, <2>5, <3>2
  <2>6. CASE ~hit(cut[i])
    <3>1. new[i] = cut[i]
      BY <1>5, <2>1, <2>6
    <3> QED
      BY <2>2, <2>4, <2>6, <3>1, LikeTrans
  <2> QED
    BY <2>5, <2>6
<1> QED
  BY <1>9, <1>10 DEF Protected, b

(* Page a, which was mapped from a file by Valgrind, is the client's.       *)
Given(segs, out, a) ==
  \A p \in Addr :
    IF p = a
    THEN /\ At(out, p).kind = "SkFileC" /\ At(out, p).prot = At(segs, p).prot
         /\ At(out, p).file = At(segs, p).file
         /\ At(out, p).offset - At(out, p).start = At(segs, p).offset - At(segs, p).start
    ELSE Like(At(segs, p), At(out, p))

(* VG_(am_change_ownership_v_to_c), of a page that a file is mapped to. *)
LEMMA ChangeOwnership ==
  ASSUME NEW m, IsSpace(m), NEW a \in Addr, At(m.segs, a).kind = "SkFileV",
         NEW out, out = am_change_ownership_v_to_c(m, a, 1)
  PROVE  IsSpace(out) /\ Neat(out.segs) /\ Given(m.segs, out.segs, a)
PROOF
<1> DEFINE cut == split_nsegments_lo_and_hi(m.segs, a, a + 1 - 1)
           i == find_nsegment_idx(cut, a)
           new == [cut EXCEPT ![i].kind = IF @ = "SkFileV" THEN "SkFileC" ELSE "SkAnonC"]
<1>1. a + 1 - 1 = a /\ a \in Int /\ a <= a
  BY PageAssumption DEF Addr
<1>2. out = preen_nsegments(new, m.names)
  BY DEF am_change_ownership_v_to_c
<1>3. /\ Covers(cut) /\ AllSound(m.names, cut) /\ Same(m.segs, cut)
      /\ At(cut, a).start = a /\ At(cut, a).end = a
  BY <1>1, SplitSound
<1> HIDE DEF cut
<1>4. /\ cut \in Seq(NSegment) /\ Len(cut) \in Nat \ {0}
      /\ i \in 1 .. Len(cut) /\ At(cut, a) = cut[i]
      /\ \A k \in 1 .. Len(cut) : cut[k] \in NSegment /\ cut[k].start \in Int /\ cut[k].end \in Int
  BY <1>3, Found, TilesTyped DEF At, Covers, Tiles
<1>5. Like(At(m.segs, a), cut[i]) /\ cut[i].kind = "SkFileV"
  BY <1>3, <1>4 DEF Same, Like
<1> HIDE DEF i
<1> DEFINE t == [cut[i] EXCEPT !.kind = "SkFileC"]
<1>6. /\ t \in NSegment /\ t.kind = "SkFileC" /\ t.start = cut[i].start /\ t.end = cut[i].end
      /\ t.smode = cut[i].smode /\ t.file = cut[i].file /\ t.offset = cut[i].offset
      /\ t.fnIdx = cut[i].fnIdx /\ t.prot = cut[i].prot /\ t.hasT = cut[i].hasT /\ t.isCH = cut[i].isCH
  BY <1>4 DEF NSegment, MappedKinds, FileKinds
<1>7. /\ Len(new) = Len(cut) /\ new \in Seq(NSegment) /\ new[i] = t
      /\ \A k \in 1 .. Len(cut) : k # i => new[k] = cut[k]
  <2>1. new = [cut EXCEPT ![i] = t]
    BY <1>4, <1>5
  <2>2. t \in NSegment /\ cut \in Seq(NSegment) /\ i \in 1 .. Len(cut)
    BY <1>4, <1>6
  <2> HIDE DEF new, t
  <2> QED
    BY <2>1, <2>2
<1> HIDE DEF new, t
<1>8. Covers(new) /\ \A p \in Addr : find_nsegment_idx(new, p) = find_nsegment_idx(cut, p)
  <2>1. \A k \in 1 .. Len(cut) : new[k].start = cut[k].start /\ new[k].end = cut[k].end
    BY <1>6, <1>7
  <2> QED
    BY <1>3, <1>7, <2>1, Retouched
<1>9. AllSound(m.names, new)
  <2>1. ASSUME NEW k \in 1 .. Len(new) PROVE Sound(m.names, new[k])
    <3>1. Sound(m.names, cut[k])
      BY <1>3, <1>7 DEF AllSound
    <3>2. CASE k # i
      BY <1>7, <3>1, <3>2
    <3>3. CASE k = i
      <4>1. Sound(m.names, t)
        BY <1>5, <1>6, <3>1, <3>3 DEF Sound, sane_NSegment, FileKinds, Vacant
      <4> QED
        BY <1>7, <3>3, <4>1
    <3> QED
      BY <3>2, <3>3
  <2> QED
    BY <2>1 DEF AllSound
<1>10. IsSpace(out) /\ Neat(out.segs) /\ Same(new, out.segs)
  BY <1>2, <1>8, <1>9, Preen DEF IsSpace
<1>11. ASSUME NEW p \in Addr, p = a
       PROVE  /\ At(out.segs, p).kind = "SkFileC" /\ At(out.segs, p).prot = At(m.segs, p).prot
              /\ At(out.segs, p).file = At(m.segs, p).file
              /\ At(out.segs, p).offset - At(out.segs, p).start
                 = At(m.segs, p).offset - At(m.segs, p).start
  <2>1. Like(t, At(out.segs, p))
    BY <1>4, <1>7, <1>8, <1>10, <1>11 DEF Same, At, i
  <2> QED
    BY <1>5, <1>6, <1>11, <2>1 DEF Like, FileKinds
<1>12. ASSUME NEW p \in Addr, p # a PROVE Like(At(m.segs, p), At(out.segs, p))
  <2> DEFINE k == find_nsegment_idx(cut, p)
  <2>1. k \in 1 .. Len(cut) /\ At(cut, p) = cut[k] /\ At(new, p) = new[k]
        /\ cut[k].start <= p /\ p <= cut[k].end /\ p \in Int
    BY <1>3, <1>8, Found, PageAssumption DEF At, Addr
  <2>2. k # i
    BY <1>1, <1>3, <1>4, <1>12, <2>1
  <2>3. Like(At(m.segs, p), cut[k]) /\ Like(new[k], At(out.segs, p)) /\ new[k] = cut[k]
    BY <1>3, <1>7, <1>10, <2>1, <2>2 DEF Same
  <2> QED
    BY <2>3, LikeTrans
<1> QED
  BY <1>10, <1>11, <1>12 DEF Given

(* Marking the segment of a page as one that translations were made from. *)
LEMMA SetHasT ==
  ASSUME NEW names, NEW segs, Covers(segs), AllSound(names, segs), Preened(segs), NEW a \in Addr,
         NEW out, out = am_set_hasT(segs, a)
  PROVE  /\ Covers(out) /\ AllSound(names, out) /\ Preened(out) /\ Same(segs, out)
         /\ \A p \in Addr : find_nsegment_idx(out, p) = find_nsegment_idx(segs, p)
         /\ At(segs, a).kind \in {"SkAnonC", "SkFileC"} => At(out, a).hasT
PROOF
<1> DEFINE i == find_nsegment_idx(segs, a)
           t == [segs[i] EXCEPT !.hasT = segs[i].hasT \/ segs[i].kind \in {"SkAnonC", "SkFileC"}]
<1>1. /\ segs \in Seq(NSegment) /\ Len(segs) \in Nat \ {0}
      /\ i \in 1 .. Len(segs) /\ At(segs, a) = segs[i]
      /\ \A k \in 1 .. Len(segs) : segs[k] \in NSegment
  BY Found, TilesTyped DEF At, Covers, Tiles
<1>2. out = [segs EXCEPT ![i] = t]
  BY <1>1 DEF am_set_hasT
<1> HIDE DEF i
<1>3. /\ t \in NSegment /\ t.kind = segs[i].kind /\ t.start = segs[i].start /\ t.end = segs[i].end
      /\ t.smode = segs[i].smode /\ t.file = segs[i].file /\ t.offset = segs[i].offset
      /\ t.fnIdx = segs[i].fnIdx /\ t.prot = segs[i].prot /\ t.isCH = segs[i].isCH
      /\ t.hasT = (segs[i].hasT \/ segs[i].kind \in {"SkAnonC", "SkFileC"})
  BY <1>1 DEF NSegment
<1> HIDE DEF t
<1>4. /\ Len(out) = Len(segs) /\ out \in Seq(NSegment) /\ out[i] = t
      /\ \A k \in 1 .. Len(segs) : k # i => out[k] = segs[k]
  BY <1>1, <1>2, <1>3
<1>5. \A k \in 1 .. Len(segs) :
        /\ out[k].start = segs[k].start /\ out[k].end = segs[k].end /\ out[k].kind = segs[k].kind
        /\ out[k].smode = segs[k].smode /\ out[k].file = segs[k].file
        /\ out[k].offset = segs[k].offset /\ out[k].prot = segs[k].prot /\ out[k].isCH = segs[k].isCH
  BY <1>3, <1>4
<1>6. \A k \in 1 .. Len(segs) : segs[k].hasT => out[k].hasT
  <2>1. segs[i].hasT => t.hasT
    BY <1>3, Zenon
  <2> QED
    BY <1>4, <2>1
<1>7. Covers(out) /\ \A p \in Addr : find_nsegment_idx(out, p) = find_nsegment_idx(segs, p)
  BY <1>4, <1>5, Retouched
<1>8. AllSound(names, out)
  <2>1. Sound(names, segs[i])
    BY <1>1 DEF AllSound
  <2>2. t.kind \in Vacant => ~t.hasT
    <3>1. t.kind \in Vacant => ~segs[i].hasT /\ segs[i].kind \notin {"SkAnonC", "SkFileC"}
      BY <1>3, <2>1 DEF Sound, sane_NSegment, Vacant
    <3> QED
      BY <1>3, <3>1, Zenon
  <2>3. Sound(names, t)
    BY <1>3, <2>1, <2>2 DEF Sound, sane_NSegment
  <2> QED
    BY <1>4, <2>3 DEF AllSound
<1>9. Preened(out)
  <2>1. ASSUME NEW k \in 1 .. Len(out) - 1, mergeable(out[k], out[k + 1]) PROVE out[k].isCH
    <3>1. k \in 1 .. Len(segs) /\ k + 1 \in 1 .. Len(segs) /\ k \in 1 .. Len(segs) - 1
      BY <1>1, <1>4
    <3>2. mergeable(segs[k], segs[k + 1])
      BY <1>5, <2>1, <3>1 DEF mergeable
    <3> QED
      BY <1>5, <3>1, <3>2 DEF Preened
  <2> QED
    BY <2>1 DEF Preened
<1>10. Same(segs, out)
  <2>1. ASSUME NEW p \in Addr PROVE Like(At(segs, p), At(out, p))
    <3>1. find_nsegment_idx(segs, p) \in 1 .. Len(segs)
      BY Found
    <3> QED
      BY <1>5, <1>6, <1>7, <3>1 DEF Like, At
  <2> QED
    BY <2>1 DEF Same
<1>11. ASSUME At(segs, a).kind \in {"SkAnonC", "SkFileC"} PROVE At(out, a).hasT
  <2>1. t.hasT
    BY <1>1, <1>3, <1>11, Zenon
  <2> QED
    BY <1>4, <1>7, <2>1 DEF At, i
<1> QED
  BY <1>7, <1>8, <1>9, <1>10, <1>11

(* Marking the segment of a page as a superblock of the client's arena, in *)
(* an array in which nothing is left to merge.                             *)
LEMMA SetIsCH ==
  ASSUME NEW names, NEW segs, Covers(segs), AllSound(names, segs), Neat(segs), NEW a \in Addr,
         NEW out, out = am_set_isCH(segs, a)
  PROVE  Covers(out) /\ AllSound(names, out) /\ Preened(out) /\ Same(segs, out)
PROOF
<1> DEFINE i == find_nsegment_idx(segs, a)
           t == [segs[i] EXCEPT !.isCH = segs[i].isCH \/ segs[i].kind = "SkAnonC"]
<1>1. /\ segs \in Seq(NSegment) /\ Len(segs) \in Nat \ {0}
      /\ i \in 1 .. Len(segs)
      /\ \A k \in 1 .. Len(segs) : segs[k] \in NSegment
  BY Found, TilesTyped DEF Covers, Tiles
<1>2. out = [segs EXCEPT ![i] = t]
  BY <1>1 DEF am_set_isCH
<1> HIDE DEF i
<1>3. /\ t \in NSegment /\ t.kind = segs[i].kind /\ t.start = segs[i].start /\ t.end = segs[i].end
      /\ t.smode = segs[i].smode /\ t.file = segs[i].file /\ t.offset = segs[i].offset
      /\ t.fnIdx = segs[i].fnIdx /\ t.prot = segs[i].prot /\ t.hasT = segs[i].hasT
      /\ t.isCH = (segs[i].isCH \/ segs[i].kind = "SkAnonC")
  BY <1>1 DEF NSegment
<1> HIDE DEF t
<1>4. /\ Len(out) = Len(segs) /\ out \in Seq(NSegment) /\ out[i] = t
      /\ \A k \in 1 .. Len(segs) : k # i => out[k] = segs[k]
  BY <1>1, <1>2, <1>3
<1>5. \A k \in 1 .. Len(segs) :
        /\ out[k].start = segs[k].start /\ out[k].end = segs[k].end /\ out[k].kind = segs[k].kind
        /\ out[k].smode = segs[k].smode /\ out[k].file = segs[k].file
        /\ out[k].offset = segs[k].offset /\ out[k].prot = segs[k].prot /\ out[k].hasT = segs[k].hasT
  BY <1>3, <1>4
<1>6. Covers(out) /\ \A p \in Addr : find_nsegment_idx(out, p) = find_nsegment_idx(segs, p)
  BY <1>4, <1>5, Retouched
<1>7. Sound(names, segs[i]) /\ segs[i].isCH \in BOOLEAN
  BY <1>1, SegmentFields DEF AllSound
<1>8. AllSound(names, out)
  <2>1. t.isCH => t.kind = "SkAnonC"
    <3>1. segs[i].isCH => segs[i].kind = "SkAnonC"
      BY <1>7 DEF Sound, sane_NSegment
    <3> QED
      BY <1>3, <3>1, Zenon
  <2>2. Sound(names, t)
    BY <1>3, <1>7, <2>1 DEF Sound, sane_NSegment
  <2> QED
    BY <1>4, <2>2 DEF AllSound
<1>9. Preened(out)
  <2>1. ASSUME NEW k \in 1 .. Len(out) - 1, mergeable(out[k], out[k + 1]), ~out[k].isCH PROVE FALSE
    <3>1. k \in 1 .. Len(segs) /\ k + 1 \in 1 .. Len(segs) /\ k \in 1 .. Len(segs) - 1
      BY <1>1, <1>4
    <3>2. ~mergeable(segs[k], segs[k + 1])
      BY <3>1 DEF Neat
    <3>3. out[k].kind \in AnonKinds /\ (segs[k].isCH # out[k].isCH \/ segs[k + 1].isCH # out[k + 1].isCH)
      BY <1>5, <2>1, <3>1, <3>2 DEF mergeable
    <3>4. out[k].isCH = out[k + 1].isCH /\ out[k].kind = out[k + 1].kind
      BY <2>1, <3>3 DEF mergeable, AnonKinds, FileKinds
    <3>5. k = i \/ k + 1 = i
      BY <1>4, <3>1, <3>3
    <3>6. t.isCH = out[k].isCH /\ ~t.isCH
      BY <1>4, <2>1, <3>4, <3>5
    <3>7. ~segs[i].isCH /\ t.kind # "SkAnonC"
      BY <1>3, <3>6, Zenon
    <3>8. t.isCH = segs[i].isCH
      <4>1. t.isCH = (segs[i].isCH \/ FALSE)
        BY <1>3, <3>7
      <4> QED
        BY <1>7, <4>1
    <3> QED
      BY <1>4, <3>1, <3>3, <3>5, <3>8
  <2> QED
    BY <2>1 DEF Preened
<1>10. Same(segs, out)
  <2>1. ASSUME NEW p \in Addr PROVE Like(At(segs, p), At(out, p))
    <3>1. find_nsegment_idx(segs, p) \in 1 .. Len(segs)
      BY Found
    <3> QED
      BY <1>5, <1>6, <3>1 DEF Like, At
  <2> QED
    BY <2>1 DEF Same
<1> QED
  BY <1>6, <1>8, <1>9, <1>10

(* VG_(am_extend_into_adjacent_reservation_client): the segment takes its  *)
(* new pages from the reservation, of which at least one page is left.     *)
Extended(segs, out, s, a, b) ==
  \A p \in Addr : IF p \in a .. b THEN At(segs, p).kind = "SkResvn" /\ Like(s, At(out, p))
                  ELSE Like(At(segs, p), At(out, p))

(* The boundary between two neighbours of different kinds moves. *)
LEMMA Boundary ==
  ASSUME NEW names, NEW segs, Covers(segs), AllSound(names, segs), Preened(segs),
         NEW i \in 1 .. Len(segs) - 1,
         NEW s \in NSegment, NEW r \in NSegment, Sound(names, s), Sound(names, r),
         s.start = segs[i].start, r.end = segs[i + 1].end, s.end + 1 = r.start,
         s.kind # r.kind, s.isCH = segs[i].isCH, r.isCH = segs[i + 1].isCH,
         \A x : mergeable(x, s) => mergeable(x, segs[i]),
         \A x : mergeable(r, x) => mergeable(segs[i + 1], x),
         NEW out \in Seq(NSegment), Len(out) = Len(segs), out[i] = s, out[i + 1] = r,
         \A k \in 1 .. Len(segs) : k # i /\ k # i + 1 => out[k] = segs[k]
  PROVE  /\ Covers(out) /\ AllSound(names, out) /\ Preened(out)
         /\ \A p \in Addr : /\ s.start <= p /\ p <= s.end => At(out, p) = s
                            /\ r.start <= p /\ p <= r.end => At(out, p) = r
                            /\ p < s.start \/ r.end < p => At(out, p) = At(segs, p)
         /\ \A p \in Addr :
              /\ segs[i].start <= p /\ p <= segs[i].end => At(segs, p) = segs[i]
              /\ segs[i + 1].start <= p /\ p <= segs[i + 1].end => At(segs, p) = segs[i + 1]
PROOF
<1>1. /\ segs \in Seq(NSegment) /\ Len(segs) \in Nat \ {0} /\ P \in Nat
      /\ segs[1].start = 0 /\ segs[Len(segs)].end = P - 1
      /\ \A k \in 1 .. Len(segs) : segs[k] \in NSegment /\ segs[k].start \in Int /\ segs[k].end \in Int
      /\ \A k \in 1 .. Len(segs) : segs[k].start <= segs[k].end
      /\ \A k \in 1 .. Len(segs) - 1 : segs[k].end + 1 = segs[k + 1].start
  BY TilesTyped, PageAssumption DEF Covers, Tiles
<1>2. i \in 1 .. Len(segs) /\ i + 1 \in 1 .. Len(segs) /\ i \in Int
  BY <1>1
<1>3. /\ s.start \in Int /\ s.end \in Int /\ r.start \in Int /\ r.end \in Int
      /\ s.start <= s.end /\ r.start <= r.end
  BY SegmentFields, PageAssumption DEF Sound, sane_NSegment, Addr
<1>4. ASSUME NEW k \in 1 .. Len(out) - 1
      PROVE  /\ k \in 1 .. Len(segs) - 1 /\ k \in 1 .. Len(segs) /\ k + 1 \in 1 .. Len(segs)
             /\ \/ k = i
                \/ k = i + 1 /\ k + 1 # i /\ k + 1 # i + 1
                \/ k + 1 = i /\ k # i /\ k # i + 1
                \/ k # i /\ k # i + 1 /\ k + 1 # i /\ k + 1 # i + 1
  BY <1>1, <1>2, SMTT(30)
<1>5. Covers(out)
  <2>1. ASSUME NEW k \in 1 .. Len(out) PROVE out[k].start <= out[k].end
    BY <1>1, <1>3
  <2>2. ASSUME NEW k \in 1 .. Len(out) - 1 PROVE out[k].end + 1 = out[k + 1].start
    BY <1>1, <1>4, SMTT(30)
  <2>3. out[1].start = 0
    <3>1. 1 # i + 1 /\ 1 \in 1 .. Len(segs)
      BY <1>1, <1>2
    <3> QED
      BY <1>1, <3>1
  <2>4. out[Len(out)].end = P - 1
    <3>1. Len(segs) # i /\ Len(segs) \in 1 .. Len(segs)
      BY <1>1, <1>2
    <3> QED
      BY <1>1, <3>1
  <2>5. out # <<>>
    BY <1>1
  <2> QED
    BY <2>1, <2>2, <2>3, <2>4, <2>5 DEF Covers, Tiles
<1>6. AllSound(names, out)
  BY DEF AllSound
<1>7. Preened(out)
  <2>1. ASSUME NEW k \in 1 .. Len(out) - 1, mergeable(out[k], out[k + 1]) PROVE out[k].isCH
    <3>1. k = i => FALSE
      BY <2>1 DEF mergeable
    <3>2. mergeable(segs[k], segs[k + 1]) /\ segs[k].isCH = out[k].isCH
      BY <1>4, <2>1, <3>1
    <3>3. mergeable(segs[k], segs[k + 1]) => segs[k].isCH
      BY <1>4 DEF Preened
    <3> QED
      BY <3>2, <3>3
  <2> QED
    BY <2>1 DEF Preened
<1>8. ASSUME NEW p \in Addr
      PROVE  /\ segs[i].start <= p /\ p <= segs[i].end => At(segs, p) = segs[i]
             /\ segs[i + 1].start <= p /\ p <= segs[i + 1].end => At(segs, p) = segs[i + 1]
             /\ s.start <= p /\ p <= s.end => At(out, p) = s
             /\ r.start <= p /\ p <= r.end => At(out, p) = r
  BY <1>2, <1>5, Found DEF At
<1>9. ASSUME NEW p \in Addr, p < s.start \/ r.end < p PROVE At(out, p) = At(segs, p)
  <2> DEFINE k == find_nsegment_idx(segs, p)
  <2>1. k \in 1 .. Len(segs) /\ At(segs, p) = segs[k] /\ segs[k].start <= p /\ p <= segs[k].end
        /\ p \in Int
    BY Found, PageAssumption, SMTT(30) DEF At, Addr
  <2>2. segs[i].end + 1 = segs[i + 1].start /\ segs[i].start <= segs[i].end
        /\ segs[i + 1].start <= segs[i + 1].end
        /\ segs[i].start \in Int /\ segs[i].end \in Int
        /\ segs[i + 1].start \in Int /\ segs[i + 1].end \in Int
    BY <1>1, <1>2
  <2> HIDE DEF k
  <2>3. k # i /\ k # i + 1
    <3>1. ASSUME segs[i].start <= p, p <= segs[i + 1].end PROVE FALSE
      <4>1. ~(p < s.start) /\ ~(r.end < p)
        BY <1>3, <2>1, <3>1, SMTT(30)
      <4> QED
        BY <1>9, <4>1
    <3>2. ASSUME k = i PROVE FALSE
      <4>1. p <= segs[i + 1].end
        BY <2>1, <2>2, <3>2
      <4> QED
        BY <2>1, <3>1, <3>2, <4>1
    <3>3. ASSUME k = i + 1 PROVE FALSE
      <4>1. segs[i].start <= p
        BY <2>1, <2>2, <3>3
      <4> QED
        BY <2>1, <3>1, <3>3, <4>1
    <3> QED
      BY <3>2, <3>3
  <2>4. out[k] = segs[k]
    BY <2>1, <2>3
  <2>5. k = find_nsegment_idx(out, p)
    BY <1>5, <2>1, <2>4, Found
  <2> QED
    BY <2>1, <2>4, <2>5 DEF At
<1> QED
  BY <1>5, <1>6, <1>7, <1>8, <1>9

LEMMA ExtendUp ==
  ASSUME NEW names, NEW segs, Covers(segs), AllSound(names, segs), Preened(segs),
         NEW i \in 1 .. Len(segs), NEW n \in Nat, n # 0, NEW out
  PROVE  /\ can_extend_into_reservation(segs, i, n, TRUE)
         /\ out = extend_into_reservation(segs, i, n, TRUE)
         => /\ Covers(out) /\ AllSound(names, out) /\ Preened(out)
            /\ segs[i].end + 1 \in Addr /\ segs[i].end + n \in Addr
            /\ Extended(segs, out, segs[i], segs[i].end + 1, segs[i].end + n)
PROOF
<1>0. SUFFICES ASSUME can_extend_into_reservation(segs, i, n, TRUE),
                      out = extend_into_reservation(segs, i, n, TRUE)
               PROVE  /\ Covers(out) /\ AllSound(names, out) /\ Preened(out)
                      /\ segs[i].end + 1 \in Addr /\ segs[i].end + n \in Addr
                      /\ Extended(segs, out, segs[i], segs[i].end + 1, segs[i].end + n)
  OBVIOUS
<1> DEFINE s == segs[i]
           r == segs[i + 1]
           s2 == [s EXCEPT !.end = s.end + n]
           r2 == [r EXCEPT !.start = r.start + n]
<1>1. /\ segs \in Seq(NSegment) /\ Len(segs) \in Nat \ {0} /\ P \in Nat /\ i \in Int
      /\ \A k \in 1 .. Len(segs) : segs[k] \in NSegment
      /\ \A k \in 1 .. Len(segs) - 1 : segs[k].end + 1 = segs[k + 1].start
      /\ DOMAIN segs = 1 .. Len(segs)
  BY TilesTyped, PageAssumption DEF Covers, Tiles
<1>2. /\ s.kind = "SkAnonC" /\ i + 1 \in 1 .. Len(segs) /\ r.kind = "SkResvn" /\ r.smode = "SmLower"
      /\ n + 1 <= r.end - r.start + 1
  BY <1>0, <1>1 DEF can_extend_into_reservation
<1>3. i \in 1 .. Len(segs) - 1
  BY <1>1, <1>2
<1>4. /\ s \in NSegment /\ r \in NSegment /\ s.end + 1 = r.start
      /\ Sound(names, s) /\ Sound(names, r)
  BY <1>1, <1>2, <1>3 DEF AllSound
<1>5. out = [segs EXCEPT ![i] = s2, ![i + 1] = r2]
  <2>1. i # i + 1
    BY <1>1
  <2> QED
    BY <1>0, <1>1, <1>2, <2>1 DEF extend_into_reservation
<1>6. s = segs[i] /\ r = segs[i + 1]
  OBVIOUS
<1> HIDE DEF s, r
<1>7. s.start \in Int /\ s.end \in Int /\ r.start \in Int /\ r.end \in Int
  BY <1>4, SegmentFields
<1>8. /\ s2 \in NSegment /\ s2.kind = s.kind /\ s2.start = s.start /\ s2.end = s.end + n
      /\ s2.smode = s.smode /\ s2.file = s.file /\ s2.offset = s.offset
      /\ s2.fnIdx = s.fnIdx /\ s2.prot = s.prot /\ s2.hasT = s.hasT /\ s2.isCH = s.isCH
  <2>1. s.end + n \in Int
    BY <1>7
  <2> QED
    BY <1>4, <2>1 DEF NSegment
<1>9. /\ r2 \in NSegment /\ r2.kind = r.kind /\ r2.start = r.start + n /\ r2.end = r.end
      /\ r2.smode = r.smode /\ r2.file = r.file /\ r2.offset = r.offset
      /\ r2.fnIdx = r.fnIdx /\ r2.prot = r.prot /\ r2.hasT = r.hasT /\ r2.isCH = r.isCH
  <2>1. r.start + n \in Int
    BY <1>7
  <2> QED
    BY <1>4, <2>1 DEF NSegment
<1> HIDE DEF s2, r2
<1>10. /\ Len(out) = Len(segs) /\ out \in Seq(NSegment) /\ out[i] = s2 /\ out[i + 1] = r2
       /\ \A k \in 1 .. Len(segs) : k # i /\ k # i + 1 => out[k] = segs[k]
  <2> DEFINE q == [segs EXCEPT ![i] = s2]
  <2>1. /\ Len(q) = Len(segs) /\ q \in Seq(NSegment) /\ q[i] = s2
        /\ \A k \in 1 .. Len(segs) : k # i => q[k] = segs[k]
    BY <1>1, <1>8
  <2>2. out = [q EXCEPT ![i + 1] = r2]
    BY <1>5
  <2> HIDE DEF q
  <2>3. i # i + 1 /\ i + 1 \in 1 .. Len(q)
    BY <1>1, <1>2, <2>1
  <2>4. /\ Len(out) = Len(q) /\ out \in Seq(NSegment) /\ out[i + 1] = r2
        /\ \A k \in 1 .. Len(q) : k # i + 1 => out[k] = q[k]
    BY <1>9, <2>1, <2>2, <2>3
  <2> QED
    BY <2>1, <2>3, <2>4
<1>11. /\ s.start \in 0 .. P - 1 /\ s.end \in s.start .. P - 1 /\ r.start \in 0 .. P - 1
       /\ r.end \in r.start .. P - 1
  BY <1>4 DEF Sound, sane_NSegment, Addr
<1>12. /\ s.end + 1 \in Addr /\ s.end + n \in Addr /\ s2.end + 1 = r2.start
       /\ s2.start \in Addr /\ s2.end \in s2.start .. P - 1
       /\ r2.start \in Addr /\ r2.end \in r2.start .. P - 1
  <2>1. /\ 0 <= s.start /\ s.start <= s.end /\ s.end + 1 = r.start /\ r.start + n <= r.end
        /\ r.end <= P - 1 /\ 1 <= n
    BY <1>1, <1>2, <1>4, <1>7, <1>11, SMTT(30)
  <2>2. /\ s.end + 1 \in 0 .. P - 1 /\ s.end + n \in 0 .. P - 1
        /\ s.end + n \in s.start .. P - 1 /\ r.start + n \in 0 .. P - 1
        /\ r.end \in r.start + n .. P - 1 /\ (s.end + n) + 1 = r.start + n
    <3>1. P \in Int /\ n \in Int
      BY <1>1
    <3> QED
      BY <1>7, <2>1, <3>1, SMTT(90)
  <2> QED
    BY <1>8, <1>9, <1>11, <2>2 DEF Addr
<1>13. Sound(names, s2)
  BY <1>2, <1>4, <1>8, <1>12 DEF Sound, sane_NSegment, Vacant
<1>14. Sound(names, r2)
  BY <1>2, <1>4, <1>9, <1>12 DEF Sound, sane_NSegment, Vacant
<1>15. /\ \A x : mergeable(x, s2) => mergeable(x, s)
       /\ \A x : mergeable(r2, x) => mergeable(r, x)
  BY <1>2, <1>8, <1>9 DEF mergeable, AnonKinds, FileKinds
<1>16. /\ Covers(out) /\ AllSound(names, out) /\ Preened(out)
       /\ \A p \in Addr : /\ s2.start <= p /\ p <= s2.end => At(out, p) = s2
                          /\ r2.start <= p /\ p <= r2.end => At(out, p) = r2
                          /\ p < s2.start \/ r2.end < p => At(out, p) = At(segs, p)
       /\ \A p \in Addr : /\ s.start <= p /\ p <= s.end => At(segs, p) = s
                          /\ r.start <= p /\ p <= r.end => At(segs, p) = r
  <2>1. /\ s2.kind # r2.kind /\ s2.start = segs[i].start /\ r2.end = segs[i + 1].end
        /\ s2.isCH = segs[i].isCH /\ r2.isCH = segs[i + 1].isCH
        /\ \A x : mergeable(x, s2) => mergeable(x, segs[i])
        /\ \A x : mergeable(r2, x) => mergeable(segs[i + 1], x)
    BY <1>2, <1>6, <1>8, <1>9, <1>15
  <2>2. /\ Covers(out) /\ AllSound(names, out) /\ Preened(out)
        /\ \A p \in Addr : /\ s2.start <= p /\ p <= s2.end => At(out, p) = s2
                           /\ r2.start <= p /\ p <= r2.end => At(out, p) = r2
                           /\ p < s2.start \/ r2.end < p => At(out, p) = At(segs, p)
        /\ \A p \in Addr :
             /\ segs[i].start <= p /\ p <= segs[i].end => At(segs, p) = segs[i]
             /\ segs[i + 1].start <= p /\ p <= segs[i + 1].end => At(segs, p) = segs[i + 1]
    BY <1>3, <1>8, <1>9, <1>10, <1>12, <1>13, <1>14, <2>1, Boundary, SMTT(30)
  <2> QED
    BY <1>6, <2>2
<1>17. ASSUME NEW p \in Addr
       PROVE  IF p \in s.end + 1 .. s.end + n THEN At(segs, p).kind = "SkResvn" /\ Like(s, At(out, p))
              ELSE Like(At(segs, p), At(out, p))
  <2>1. p \in Int
    BY PageAssumption DEF Addr
  <2>2. Like(s, s2) /\ Like(r, r2)
    BY <1>2, <1>8, <1>9 DEF Like, FileKinds
  <2>3. CASE p \in s.end + 1 .. s.end + n
    <3>1. r.start <= p /\ p <= r.end /\ s2.start <= p /\ p <= s2.end
      BY <1>2, <1>4, <1>7, <1>8, <1>11, <2>1, <2>3, SMTT(30)
    <3> QED
      BY <1>2, <1>16, <2>2, <2>3, <3>1
  <2>4. CASE p \notin s.end + 1 .. s.end + n
    <3>1. CASE s.start <= p /\ p <= s.end
      <4>1. s2.start <= p /\ p <= s2.end
        BY <1>7, <1>8, <2>1, <3>1
      <4> QED
        BY <1>16, <2>2, <2>4, <3>1, <4>1
    <3>2. CASE r2.start <= p /\ p <= r2.end
      <4>1. r.start <= p /\ p <= r.end
        BY <1>7, <1>9, <2>1, <3>2
      <4> QED
        BY <1>16, <2>2, <2>4, <3>2, <4>1
    <3>3. CASE p < s2.start \/ r2.end < p
      BY <1>16, <2>4, <3>3 DEF Like
    <3>4. p <= s.end \/ s.end + n < p
      BY <1>7, <2>1, <2>4
    <3> QED
      BY <1>4, <1>7, <1>8, <1>9, <2>1, <3>1, <3>2, <3>3, <3>4, SMTT(30)
  <2> QED
    BY <2>3, <2>4
<1> QED
  BY <1>12, <1>16, <1>17 DEF Extended, s

LEMMA ExtendDown ==
  ASSUME NEW names, NEW segs, Covers(segs), AllSound(names, segs), Preened(segs),
         NEW i \in 1 .. Len(segs), NEW n \in Nat, n # 0, NEW out
  PROVE  /\ can_extend_into_reservation(segs, i, n, FALSE)
         /\ out = extend_into_reservation(segs, i, n, FALSE)
         => /\ Covers(out) /\ AllSound(names, out) /\ Preened(out)
            /\ segs[i].start - n \in Addr /\ segs[i].start - 1 \in Addr
            /\ Extended(segs, out, segs[i], segs[i].start - n, segs[i].start - 1)
PROOF
<1>0. SUFFICES ASSUME can_extend_into_reservation(segs, i, n, FALSE),
                      out = extend_into_reservation(segs, i, n, FALSE)
               PROVE  /\ Covers(out) /\ AllSound(names, out) /\ Preened(out)
                      /\ segs[i].start - n \in Addr /\ segs[i].start - 1 \in Addr
                      /\ Extended(segs, out, segs[i], segs[i].start - n, segs[i].start - 1)
  OBVIOUS
<1> DEFINE j == i - 1
           s == segs[i]
           r == segs[j]
           s2 == [s EXCEPT !.start = s.start - n]
           r2 == [r EXCEPT !.end = r.end - n]
<1>1. /\ segs \in Seq(NSegment) /\ Len(segs) \in Nat \ {0} /\ P \in Nat /\ i \in Int
      /\ \A k \in 1 .. Len(segs) : segs[k] \in NSegment
      /\ \A k \in 1 .. Len(segs) - 1 : segs[k].end + 1 = segs[k + 1].start
      /\ DOMAIN segs = 1 .. Len(segs)
  BY TilesTyped, PageAssumption DEF Covers, Tiles
<1>2. /\ s.kind = "SkAnonC" /\ j \in 1 .. Len(segs) /\ r.kind = "SkResvn" /\ r.smode = "SmUpper"
      /\ n + 1 <= r.end - r.start + 1
  BY <1>0, <1>1 DEF can_extend_into_reservation
<1>3. j \in 1 .. Len(segs) - 1 /\ j + 1 = i /\ j \in Int
  BY <1>1, <1>2
<1>4. /\ s \in NSegment /\ r \in NSegment /\ r.end + 1 = s.start
      /\ Sound(names, s) /\ Sound(names, r)
  <2>1. segs[j].end + 1 = segs[j + 1].start
    BY <1>1, <1>3
  <2> QED
    BY <1>1, <1>2, <1>3, <2>1 DEF AllSound
<1>5. out = [segs EXCEPT ![i] = s2, ![j] = r2]
  <2>1. i # i - 1
    BY <1>1
  <2> QED
    BY <1>0, <1>1, <1>2, <2>1 DEF extend_into_reservation
<1>6. s = segs[j + 1] /\ r = segs[j]
  BY <1>3
<1> HIDE DEF s, r
<1>7. s.start \in Int /\ s.end \in Int /\ r.start \in Int /\ r.end \in Int
  BY <1>4, SegmentFields
<1>8. /\ s2 \in NSegment /\ s2.kind = s.kind /\ s2.start = s.start - n /\ s2.end = s.end
      /\ s2.smode = s.smode /\ s2.file = s.file /\ s2.offset = s.offset
      /\ s2.fnIdx = s.fnIdx /\ s2.prot = s.prot /\ s2.hasT = s.hasT /\ s2.isCH = s.isCH
  <2>1. s.start - n \in Int
    BY <1>7
  <2> QED
    BY <1>4, <2>1 DEF NSegment
<1>9. /\ r2 \in NSegment /\ r2.kind = r.kind /\ r2.start = r.start /\ r2.end = r.end - n
      /\ r2.smode = r.smode /\ r2.file = r.file /\ r2.offset = r.offset
      /\ r2.fnIdx = r.fnIdx /\ r2.prot = r.prot /\ r2.hasT = r.hasT /\ r2.isCH = r.isCH
  <2>1. r.end - n \in Int
    BY <1>7
  <2> QED
    BY <1>4, <2>1 DEF NSegment
<1> HIDE DEF s2, r2, j
<1>10. /\ Len(out) = Len(segs) /\ out \in Seq(NSegment) /\ out[j] = r2 /\ out[j + 1] = s2
       /\ \A k \in 1 .. Len(segs) : k # j /\ k # j + 1 => out[k] = segs[k]
  <2> DEFINE q == [segs EXCEPT ![i] = s2]
  <2>1. /\ Len(q) = Len(segs) /\ q \in Seq(NSegment) /\ q[i] = s2
        /\ \A k \in 1 .. Len(segs) : k # i => q[k] = segs[k]
    BY <1>1, <1>8
  <2>2. out = [q EXCEPT ![j] = r2]
    BY <1>5
  <2> HIDE DEF q
  <2>3. i # j /\ j \in 1 .. Len(q)
    BY <1>1, <1>2, <1>3, <2>1
  <2>4. /\ Len(out) = Len(q) /\ out \in Seq(NSegment) /\ out[j] = r2
        /\ \A k \in 1 .. Len(q) : k # j => out[k] = q[k]
    BY <1>9, <2>1, <2>2, <2>3
  <2> QED
    BY <1>3, <2>1, <2>3, <2>4
<1>11. /\ s.start \in 0 .. P - 1 /\ s.end \in s.start .. P - 1 /\ r.start \in 0 .. P - 1
       /\ r.end \in r.start .. P - 1
  BY <1>4 DEF Sound, sane_NSegment, Addr
<1>12. /\ s.start - n \in Addr /\ s.start - 1 \in Addr /\ r2.end + 1 = s2.start
       /\ s2.start \in Addr /\ s2.end \in s2.start .. P - 1
       /\ r2.start \in Addr /\ r2.end \in r2.start .. P - 1
  <2>1. /\ 0 <= r.start /\ s.start <= s.end /\ r.end + 1 = s.start /\ r.start + n <= r.end
        /\ s.end <= P - 1 /\ 1 <= n
    BY <1>1, <1>2, <1>4, <1>7, <1>11, SMTT(30)
  <2>2. /\ s.start - n \in 0 .. P - 1 /\ s.start - 1 \in 0 .. P - 1
        /\ s.end \in s.start - n .. P - 1
        /\ r.end - n \in r.start .. P - 1 /\ (r.end - n) + 1 = s.start - n
    <3>1. P \in Int /\ n \in Int
      BY <1>1
    <3> QED
      BY <1>7, <2>1, <3>1, SMTT(90)
  <2> QED
    BY <1>8, <1>9, <1>11, <2>2 DEF Addr
<1>13. Sound(names, s2)
  BY <1>2, <1>4, <1>8, <1>12 DEF Sound, sane_NSegment, Vacant
<1>14. Sound(names, r2)
  BY <1>2, <1>4, <1>9, <1>12 DEF Sound, sane_NSegment, Vacant
<1>15. /\ \A x : mergeable(x, r2) => mergeable(x, r)
       /\ \A x : mergeable(s2, x) => mergeable(s, x)
  BY <1>2, <1>8, <1>9 DEF mergeable, AnonKinds, FileKinds
<1>16. /\ Covers(out) /\ AllSound(names, out) /\ Preened(out)
       /\ \A p \in Addr : /\ r2.start <= p /\ p <= r2.end => At(out, p) = r2
                          /\ s2.start <= p /\ p <= s2.end => At(out, p) = s2
                          /\ p < r2.start \/ s2.end < p => At(out, p) = At(segs, p)
       /\ \A p \in Addr : /\ s.start <= p /\ p <= s.end => At(segs, p) = s
                          /\ r.start <= p /\ p <= r.end => At(segs, p) = r
  <2>1. /\ r2.kind # s2.kind /\ r2.start = segs[j].start /\ s2.end = segs[j + 1].end
        /\ r2.isCH = segs[j].isCH /\ s2.isCH = segs[j + 1].isCH
        /\ \A x : mergeable(x, r2) => mergeable(x, segs[j])
        /\ \A x : mergeable(s2, x) => mergeable(segs[j + 1], x)
    BY <1>2, <1>6, <1>8, <1>9, <1>15
  <2>2. /\ Covers(out) /\ AllSound(names, out) /\ Preened(out)
        /\ \A p \in Addr : /\ r2.start <= p /\ p <= r2.end => At(out, p) = r2
                           /\ s2.start <= p /\ p <= s2.end => At(out, p) = s2
                           /\ p < r2.start \/ s2.end < p => At(out, p) = At(segs, p)
        /\ \A p \in Addr :
             /\ segs[j].start <= p /\ p <= segs[j].end => At(segs, p) = segs[j]
             /\ segs[j + 1].start <= p /\ p <= segs[j + 1].end => At(segs, p) = segs[j + 1]
    BY <1>3, <1>8, <1>9, <1>10, <1>12, <1>13, <1>14, <2>1, Boundary, SMTT(30)
  <2> QED
    BY <1>6, <2>2
<1>17. ASSUME NEW p \in Addr
       PROVE  IF p \in s.start - n .. s.start - 1
              THEN At(segs, p).kind = "SkResvn" /\ Like(s, At(out, p))
              ELSE Like(At(segs, p), At(out, p))
  <2>1. p \in Int
    BY PageAssumption DEF Addr
  <2>2. Like(s, s2) /\ Like(r, r2)
    BY <1>2, <1>8, <1>9 DEF Like, FileKinds
  <2>3. CASE p \in s.start - n .. s.start - 1
    <3>1. r.start <= p /\ p <= r.end /\ s2.start <= p /\ p <= s2.end
      BY <1>2, <1>4, <1>7, <1>8, <1>11, <2>1, <2>3, SMTT(90)
    <3> QED
      BY <1>2, <1>16, <2>2, <2>3, <3>1
  <2>4. CASE p \notin s.start - n .. s.start - 1
    <3>1. CASE s.start <= p /\ p <= s.end
      <4>1. s2.start <= p /\ p <= s2.end
        BY <1>7, <1>8, <2>1, <3>1
      <4> QED
        BY <1>16, <2>2, <2>4, <3>1, <4>1
    <3>2. CASE r2.start <= p /\ p <= r2.end
      <4>1. r.start <= p /\ p <= r.end
        BY <1>7, <1>9, <2>1, <3>2
      <4> QED
        BY <1>16, <2>2, <2>4, <3>2, <4>1
    <3>3. CASE p < r2.start \/ s2.end < p
      BY <1>16, <2>4, <3>3 DEF Like
    <3>4. p < s.start - n \/ s.start <= p
      BY <1>7, <2>1, <2>4
    <3> QED
      BY <1>4, <1>7, <1>8, <1>9, <2>1, <3>1, <3>2, <3>3, <3>4, SMTT(30)
  <2> QED
    BY <2>3, <2>4
<1> QED
  BY <1>12, <1>16, <1>17 DEF Extended, s

-----------------------------------------------------------------------------
(* Questions about a range *)

(* The loops over a range look at the segment of every page of it. *)
LEMMA SegmentsOfRange ==
  ASSUME NEW segs, Covers(segs), NEW a \in Addr, NEW n \in Nat, n # 0, a + n - 1 \in Addr,
         NEW p \in pages(a, n)
  PROVE  p \in Addr /\ At(segs, p) \in segments_of(segs, a, n)
PROOF
<1> DEFINE b == a + n - 1
           i == find_nsegment_idx(segs, a)
           j == find_nsegment_idx(segs, b)
           k == find_nsegment_idx(segs, p)
<1>1. P \in Nat /\ a \in 0 .. P - 1 /\ b \in 0 .. P - 1 /\ p \in 0 .. P - 1 /\ a <= p /\ p <= b
  BY PageAssumption DEF Addr, pages
<1>2. p \in Addr /\ b \in Addr
  BY <1>1 DEF Addr
<1>3. /\ i \in 1 .. Len(segs) /\ j \in 1 .. Len(segs) /\ k \in 1 .. Len(segs) /\ Len(segs) \in Nat
      /\ segs[i].start <= a /\ a <= segs[i].end
      /\ segs[j].start <= b /\ b <= segs[j].end
      /\ segs[k].start <= p /\ p <= segs[k].end
      /\ segs[i] \in NSegment /\ segs[j] \in NSegment /\ segs[k] \in NSegment
  BY <1>2, Found, TilesTyped DEF At, Covers
<1>4. \A x, y \in 1 .. Len(segs) : x < y => segs[x].end < segs[y].start
  <2>1. P - 1 \in Int
    BY <1>1
  <2> QED
    BY <2>1, TilesInOrder DEF Covers
<1> HIDE DEF i, j, k, b
<1>5. /\ segs[i].end \in Int /\ segs[j].end \in Int /\ segs[k].end \in Int
      /\ segs[i].start \in Int /\ segs[j].start \in Int /\ segs[k].start \in Int
  BY <1>3, SegmentFields
<1>6. ~(k < i)
  <2>1. ASSUME k < i PROVE FALSE
    <3>1. segs[k].end < segs[i].start
      BY <1>3, <1>4, <2>1
    <3> QED
      BY <1>1, <1>3, <1>5, <3>1, SMTT(30)
  <2> QED
    BY <2>1
<1>7. ~(j < k)
  <2>1. ASSUME j < k PROVE FALSE
    <3>1. segs[j].end < segs[k].start
      BY <1>3, <1>4, <2>1
    <3> QED
      BY <1>1, <1>3, <1>5, <3>1, SMTT(30)
  <2> QED
    BY <2>1
<1>8. k \in i .. j
  BY <1>3, <1>6, <1>7
<1> QED
  BY <1>2, <1>8 DEF segments_of, At, i, j, k, b

(* Pages in one segment. *)
LEMMA SamePlace ==
  ASSUME NEW segs, Covers(segs), NEW p \in Addr, NEW q \in Addr, At(segs, p) = At(segs, q)
  PROVE  find_nsegment_idx(segs, p) = find_nsegment_idx(segs, q)
PROOF
<1>1. At(segs, p).start <= q /\ q <= At(segs, p).end /\ find_nsegment_idx(segs, p) \in 1 .. Len(segs)
  BY Found
<1> QED
  BY <1>1, Found DEF At

(* A range with one segment only is within it. *)
LEMMA OneSegment ==
  ASSUME NEW segs, Covers(segs), NEW a \in Addr, NEW n \in Nat, n # 0, a + n - 1 \in Addr,
         Cardinality(segments_of(segs, a, n)) = 1, NEW p \in pages(a, n)
  PROVE  find_nsegment_idx(segs, p) = find_nsegment_idx(segs, a)
PROOF
<1> DEFINE S == segments_of(segs, a, n)
           I == find_nsegment_idx(segs, a) .. find_nsegment_idx(segs, a + n - 1)
<1>1. IsFiniteSet(S)
  <2>1. find_nsegment_idx(segs, a) \in Int /\ find_nsegment_idx(segs, a + n - 1) \in Int
    BY Found, TilesTyped DEF Covers
  <2>2. IsFiniteSet(I)
    BY <2>1, FS_Interval
  <2>3. S = {segs[i] : i \in I}
    BY DEF segments_of
  <2> DEFINE f == [i \in I |-> segs[i]]
  <2> HIDE DEF I, S
  <2>4. f \in Surjection(I, S)
    BY <2>3 DEF Surjection
  <2> HIDE DEF f
  <2> QED
    BY <2>2, <2>4, FS_Surjection
<1>2. \E x : S = {x}
  <2> HIDE DEF S
  <2>1. Cardinality(S) = 1
    BY DEF S
  <2> QED
    BY <1>1, <2>1, FS_Singleton
<1>3. a \in pages(a, n)
  BY PageAssumption DEF pages, Addr
<1>4. At(segs, p) \in S /\ At(segs, a) \in S /\ p \in Addr
  BY <1>3, SegmentsOfRange
<1>5. At(segs, p) = At(segs, a)
  BY <1>2, <1>4
<1> QED
  BY <1>4, <1>5, SamePlace

RequestKinds == {"MAny", "MHint", "MFixed"}

(* Only the client asks for a place. *)
MayAsk(rkind, start, len, forClient) ==
  /\ rkind \in RequestKinds /\ len \in Nat /\ len # 0 /\ forClient \in BOOLEAN
  /\ rkind # "MAny" => forClient /\ start \in Addr /\ start + len - 1 \in Addr

IsAdvice(segs, rkind, start, len, adv) ==
  /\ adv.addr \in Addr /\ adv.addr + len - 1 \in Addr
  /\ \A p \in pages(adv.addr, len) :
       /\ p \in Addr
       /\ rkind = "MAny" => At(segs, p).kind = "SkFree"
       /\ rkind = "MHint" => At(segs, p).kind \in Vacant
       /\ At(segs, p).kind \in Vacant \cup ClientKinds
  /\ rkind = "MFixed" => adv.addr = start

(* VG_(am_get_advisory): an answer is a range of pages; a floating request *)
(* is given free ones, a client's hint vacant ones, and a fixed request of *)
(* a client's never one of Valgrind's.                                     *)
LEMMA Advice ==
  ASSUME NEW segs, Covers(segs), NEW rkind, NEW start, NEW len, NEW forClient,
         MayAsk(rkind, start, len, forClient), NEW adv
  PROVE  adv = am_get_advisory(segs, rkind, start, len, forClient) /\ adv.ok
         => IsAdvice(segs, rkind, start, len, adv)
PROOF
<1>0. SUFFICES ASSUME rkind \in RequestKinds, len \in Nat, len # 0, forClient \in BOOLEAN,
                      rkind # "MAny" => forClient /\ start \in Addr /\ start + len - 1 \in Addr,
                      adv = am_get_advisory(segs, rkind, start, len, forClient), adv.ok
               PROVE  IsAdvice(segs, rkind, start, len, adv)
  BY DEF MayAsk
<1> USE <1>0
<1> DEFINE n == Len(segs)
           reqStart == IF rkind = "MAny" THEN 0 ELSE start
           reqEnd == reqStart + len - 1
           i0 == find_nsegment_idx(segs, IF forClient THEN aspacem_cStart ELSE aspacem_vStart)
           at(j) == segs[((i0 - 1 + j) % n) + 1]
           holes == {j \in 0 .. n - 1 : at(j).kind = "SkFree"}
           floats == {j \in holes : at(j).end - at(j).start + 1 >= len}
           fixes == {j \in holes : at(j).start <= reqStart /\ reqEnd <= at(j).end}
           kinds == {s.kind : s \in segments_of(segs, reqStart, len)}
           free(x) == /\ x \in Addr /\ x + len - 1 \in Addr
                      /\ \A p \in pages(x, len) : p \in Addr /\ At(segs, p).kind = "SkFree"
<1>1. /\ n \in Nat \ {0} /\ P \in Nat
      /\ \A k \in 1 .. n : segs[k] \in NSegment /\ segs[k].start \in Int /\ segs[k].end \in Int
      /\ \A k \in 1 .. n : segs[k].start <= segs[k].end
  BY TilesTyped, PageAssumption DEF Covers, Tiles
<1>2. i0 \in Int
  <2>1. aspacem_cStart \in Addr /\ aspacem_vStart \in Addr
    BY PageAssumption DEF aspacem_cStart, aspacem_vStart, Addr
  <2> QED
    BY <1>1, <2>1, Found
<1>3. ASSUME NEW j \in 0 .. n - 1 PROVE ((i0 - 1 + j) % n) + 1 \in 1 .. n
  BY <1>1, <1>2
<1>4. ASSUME NEW k \in 1 .. n, segs[k].kind = "SkFree", NEW x \in Int,
             segs[k].start <= x, x + len - 1 <= segs[k].end
      PROVE  free(x)
  <2>1. 0 <= segs[k].start /\ segs[k].end <= P - 1
    <3>1. \A y, z \in 1 .. n : y < z => segs[y].end < segs[z].start
      <4>1. P - 1 \in Int
        BY <1>1
      <4> QED
        BY <4>1, TilesInOrder DEF Covers
    <3>2. segs[1].start = 0 /\ segs[n].end = P - 1 /\ 1 \in 1 .. n /\ n \in 1 .. n
      BY <1>1 DEF Covers, Tiles
    <3>3. k = 1 \/ segs[1].end < segs[k].start
      BY <1>1, <3>1, <3>2, SMTT(30)
    <3>4. k = n \/ segs[k].end < segs[n].start
      BY <1>1, <3>1, <3>2
    <3> QED
      BY <1>1, <3>2, <3>3, <3>4, SMTT(30)
  <2>2. x \in Addr /\ x + len - 1 \in Addr
    BY <1>1, <1>4, <2>1 DEF Addr
  <2>3. ASSUME NEW p \in pages(x, len) PROVE p \in Addr /\ At(segs, p).kind = "SkFree"
    <3>1. p \in Addr /\ segs[k].start <= p /\ p <= segs[k].end
      BY <1>1, <1>4, <2>1, SMTT(30) DEF pages, Addr
    <3>2. k = find_nsegment_idx(segs, p)
      BY <3>1, Found, SMTT(30)
    <3> QED
      BY <1>4, <3>1, <3>2 DEF At
  <2> QED
    BY <2>2, <2>3
<1>5. ASSUME floats # {} PROVE free(at(Min(floats)).start)
  <2>1. floats \in SUBSET Nat
    BY <1>1
  <2>2. Min(floats) \in floats
    <3> HIDE DEF floats
    <3> QED
      BY <1>5, <2>1, MinOfNats, SMTT(30)
  <2> DEFINE f == Min(floats)
             k == ((i0 - 1 + f) % n) + 1
  <2>3. f \in 0 .. n - 1 /\ segs[k].kind = "SkFree" /\ segs[k].end - segs[k].start + 1 >= len
    BY <2>2, ZenonT(60)
  <2> HIDE DEF f
  <2>4. k \in 1 .. n
    BY <1>3, <2>3
  <2>5. at(f).start = segs[k].start
    OBVIOUS
  <2> HIDE DEF k
  <2>6. segs[k].start \in Int /\ segs[k].start <= segs[k].start /\ segs[k].start + len - 1 <= segs[k].end
    BY <1>1, <2>3, <2>4
  <2>7. free(segs[k].start)
    BY <1>4, <2>3, <2>4, <2>6
  <2> QED
    BY <2>5, <2>7 DEF f
<1>6. ASSUME rkind # "MAny", fixes # {} PROVE free(start)
  <2>1. PICK f \in 0 .. n - 1 : at(f).kind = "SkFree" /\ at(f).start <= reqStart /\ reqEnd <= at(f).end
    BY <1>6
  <2> DEFINE k == ((i0 - 1 + f) % n) + 1
  <2>2. k \in 1 .. n
    BY <1>3
  <2>3. segs[k].kind = "SkFree" /\ segs[k].start <= start /\ start + len - 1 <= segs[k].end
    BY <1>6, <2>1
  <2>4. start \in Int
    BY <1>1, <1>6 DEF Addr
  <2> HIDE DEF k
  <2> QED
    BY <1>4, <2>2, <2>3, <2>4
<1>7. ASSUME rkind # "MAny", NEW K, kinds \subseteq K
      PROVE  /\ start \in Addr /\ start + len - 1 \in Addr
             /\ \A p \in pages(start, len) : p \in Addr /\ At(segs, p).kind \in K
  <2>1. reqStart = start /\ start \in Addr /\ start + len - 1 \in Addr
    BY <1>7
  <2>2. ASSUME NEW p \in pages(start, len) PROVE p \in Addr /\ At(segs, p).kind \in K
    <3>1. p \in Addr /\ At(segs, p) \in segments_of(segs, start, len)
      BY <2>1, SegmentsOfRange
    <3>2. At(segs, p).kind \in kinds
      BY <2>1, <3>1
    <3> QED
      BY <1>7, <3>1, <3>2
  <2> QED
    BY <2>1, <2>2
<1>8. \/ rkind = "MFixed" /\ kinds \subseteq Vacant \cup ClientKinds /\ adv.addr = start
      \/ rkind = "MHint" /\ kinds \subseteq Vacant /\ adv.addr = start
      \/ rkind = "MHint" /\ fixes # {} /\ adv.addr = start
      \/ rkind # "MFixed" /\ floats # {} /\ adv.addr = at(Min(floats)).start
  <2> HIDE DEF floats, fixes, kinds, at, holes, reqStart, reqEnd, i0
  <2>1. CASE rkind = "MFixed"
    BY <2>1, ZenonT(60) DEF am_get_advisory, floats, fixes, holes, reqStart, reqEnd, i0, kinds, at
  <2>2. CASE rkind = "MHint"
    BY <2>2, ZenonT(60) DEF am_get_advisory, floats, fixes, holes, reqStart, reqEnd, i0, kinds, at, hint_accepted
  <2>3. CASE rkind = "MAny"
    BY <2>3, ZenonT(60) DEF am_get_advisory, floats, fixes, holes, reqStart, reqEnd, i0, kinds, at
  <2> QED
    BY <2>1, <2>2, <2>3, SMTT(30) DEF RequestKinds
<1> HIDE DEF floats, fixes, kinds, at
<1>9. CASE rkind = "MFixed" /\ kinds \subseteq Vacant \cup ClientKinds /\ adv.addr = start
  BY <1>7, <1>9 DEF IsAdvice
<1>10. CASE rkind = "MHint" /\ kinds \subseteq Vacant /\ adv.addr = start
  BY <1>7, <1>10 DEF IsAdvice
<1>11. CASE rkind = "MHint" /\ fixes # {} /\ adv.addr = start
  BY <1>6, <1>11 DEF Vacant, IsAdvice
<1>12. CASE rkind # "MFixed" /\ floats # {} /\ adv.addr = at(Min(floats)).start
  BY <1>5, <1>12 DEF Vacant, IsAdvice
<1> QED
  BY <1>8, <1>9, <1>10, <1>11, <1>12

(* The manager chooses the place. *)
LEMMA FloatingAdvice ==
  ASSUME NEW segs, Covers(segs), NEW len, len \in Nat, len # 0, NEW forClient, forClient \in BOOLEAN, NEW adv
  PROVE  adv = am_get_advisory(segs, "MAny", 0, len, forClient) /\ adv.ok =>
           /\ adv.addr \in Addr /\ adv.addr + len - 1 \in Addr
           /\ \A p \in pages(adv.addr, len) :
                p \in Addr /\ At(segs, p).kind = "SkFree" /\ At(segs, p).kind \in Vacant
PROOF
<1>1. MayAsk("MAny", 0, len, forClient)
  BY DEF MayAsk, RequestKinds
<1>2. adv = am_get_advisory(segs, "MAny", 0, len, forClient) /\ adv.ok
      => IsAdvice(segs, "MAny", 0, len, adv)
  BY <1>1, Advice, Zenon
<1> QED
  BY <1>2 DEF IsAdvice, Vacant

(* Vacant pages may have changed, to stay vacant; no others. *)
Reserved(segs, out) ==
  \A p \in Addr : \/ Like(At(segs, p), At(out, p))
                  \/ At(segs, p).kind \in Vacant /\ At(out, p).kind \in Vacant

(* VG_(am_create_reservation), with a page to spare above. *)
LEMMA CreateReservation ==
  ASSUME NEW m, IsSpace(m), NEW a \in Addr, NEW n \in Nat, n # 0, a + n - 1 \in Addr,
         NEW smode \in {"SmLower", "SmUpper"},
         a + n \in Addr \/ \A p \in pages(a, n) : At(m.segs, p).kind \in Vacant,
         NEW res, res = am_create_reservation(m, a, n, smode, 1)
  PROVE  IsSpace(res.am) /\ Reserved(m.segs, res.am.segs)
PROOF
<1> DEFINE b == a + n - 1
           hi == a + n - 1 + 1
           i == find_nsegment_idx(m.segs, a)
           ok == i = find_nsegment_idx(m.segs, hi) /\ m.segs[i].kind = "SkFree"
           z == init_nsegment("SkResvn", a, b)
           s == [z EXCEPT !.smode = smode]
<1>1. b \in Addr /\ a <= b /\ a \in Int /\ b \in Int /\ hi = a + n /\ hi = b + 1
  BY PageAssumption DEF Addr
<1>2. res.am = IF ok THEN add_segment(m, s) ELSE m
  BY DEF am_create_reservation
<1>3. CASE ~ok
  <2>1. res.am = m
    BY <1>2, <1>3
  <2> QED
    BY <2>1 DEF Reserved, Like
<1>4. CASE ok
  <2>1. IsInit(z, "SkResvn", a, b) /\ z.prot = {}
    <3> HIDE DEF b
    <3> QED
      BY <1>1, InitNSegment DEF Vacant
  <2> HIDE DEF z
  <2>2. IsInit(s, "SkResvn", a, b) /\ s.prot = {}
    BY <2>1 DEF IsInit, NSegment
  <2>3. res.am = add_segment(m, s)
    BY <1>2, <1>4
  <2> HIDE DEF s, b
  <2>4. IsSpace(res.am) /\ Vacated(m.segs, res.am.segs, a, b)
    BY <1>1, <2>2, <2>3, AddVacant DEF Vacant
  <2>5. ASSUME NEW p \in Addr, p \in a .. b PROVE At(m.segs, p).kind \in Vacant
    <3>1. CASE hi \in Addr
      <4>1. /\ m.segs[i].start <= a /\ hi <= m.segs[i].end /\ i \in 1 .. Len(m.segs)
            /\ m.segs[i].start \in Int /\ m.segs[i].end \in Int
        BY <1>4, <3>1, Found, SegmentFields DEF At, IsSpace
      <4>2. m.segs[i].start <= p /\ p <= m.segs[i].end
        <5> HIDE DEF i, ok, hi
        <5> QED
          BY <1>1, <2>5, <4>1, SMTT(30)
      <4>3. i = find_nsegment_idx(m.segs, p)
        BY <4>1, <4>2, Found DEF IsSpace
      <4> QED
        BY <1>4, <4>3 DEF At, Vacant
    <3>2. CASE hi \notin Addr
      BY <1>1, <2>5, <3>2 DEF pages, b
    <3> QED
      BY <3>1, <3>2
  <2> QED
    BY <2>4, <2>5 DEF Vacated, Reserved
<1> QED
  BY <1>3, <1>4

(* Where there is no place, the answer is 0. *)
LEMMA NoAdvice ==
  ASSUME NEW segs, NEW len, NEW forClient, NEW adv
  PROVE  adv = am_get_advisory(segs, "MAny", 0, len, forClient) /\ ~adv.ok => adv.addr = 0
PROOF
<1> SUFFICES ASSUME adv = am_get_advisory(segs, "MAny", 0, len, forClient), ~adv.ok
             PROVE  adv.addr = 0
  BY ZenonT(60)
<1> DEFINE answer(ok, a, sn) == [ok |-> ok, addr |-> IF ok THEN a ELSE 0, sane |-> sn]
<1>1. \E sn, a : adv = answer(FALSE, 0, sn) \/ adv = answer(TRUE, a, sn)
  BY DEF am_get_advisory
<1> QED
  BY <1>1

-----------------------------------------------------------------------------
KernelMaps == [Addr -> {Hole} \cup Mapping]

(* Page p after a step: array and kernel agree, and a mark of translations *)
(* is still there unless the translations of the page are discarded, as    *)
(* they are when the page changes.                                         *)
PageStep(segs, out, k, chg, dis, p) ==
  /\ MatchAt(At(out, p), p, k[p])
  /\ At(segs, p).kind \in CodeKinds /\ At(segs, p).hasT /\ p \notin dis =>
       p \notin chg /\ At(out, p).kind \in CodeKinds /\ At(out, p).hasT

(* Page p is Valgrind's after the step if and only if it was. *)
OwnStep(segs, out, k, k2, p) ==
  /\ At(segs, p).kind \in VKinds <=> At(out, p).kind \in VKinds
  /\ At(segs, p).kind \in VKinds =>
       k2[p] = k[p] \/ (k2[p] # Hole /\ k2[p].owner = k[p].owner)

-----------------------------------------------------------------------------
LEMMA HoleIsNoMapping ==
  ASSUME NEW x \in Mapping
  PROVE  x # Hole
PROOF
<1>1. DOMAIN x = {"file", "prot", "owner", "offset"}
  BY DEF Mapping
<1>2. DOMAIN Hole = {"file"}
  BY DEF Hole
<1>3. "prot" # "file"
  OBVIOUS
<1> QED
  BY <1>1, <1>2, <1>3, Zenon

LEMMA KindsApart ==
  /\ MappedKinds \cap Vacant = {} /\ VKinds \subseteq MappedKinds /\ ClientKinds \subseteq MappedKinds
  /\ ClientKinds \cap VKinds = {} /\ Vacant \cap VKinds = {} /\ CodeKinds \subseteq ClientKinds
PROOF
BY DEF MappedKinds, Vacant, VKinds, ClientKinds, CodeKinds, AnonKinds, FileKinds

(* What a page's attributes are does not depend on where its segment is cut. *)
LEMMA MatchLike ==
  ASSUME NEW p \in Int, NEW s \in NSegment, NEW t \in NSegment, NEW k, Like(s, t), MatchAt(s, p, k)
  PROVE  MatchAt(t, p, k)
PROOF
BY SegmentFields DEF Like, MatchAt

LEMMA AtTyped ==
  ASSUME NEW segs, Covers(segs), NEW p \in Addr
  PROVE  /\ At(segs, p) \in NSegment /\ p \in Int
         /\ At(segs, p).start \in Int /\ At(segs, p).offset \in Int
PROOF
BY Found, SegmentFields, PageAssumption DEF Addr

(* A page that the call is not about. *)
LEMMA Untouched ==
  ASSUME NEW segs, NEW out, Covers(segs), Covers(out), NEW p \in Addr, NEW k, NEW k2,
         MatchAt(At(segs, p), p, k[p]), Like(At(segs, p), At(out, p)), k2[p] = k[p],
         NEW chg, NEW dis, p \notin chg
  PROVE  PageStep(segs, out, k2, chg, dis, p) /\ OwnStep(segs, out, k, k2, p)
PROOF
<1>1. MatchAt(At(out, p), p, k2[p])
  BY AtTyped, MatchLike
<1>2. At(segs, p).kind = At(out, p).kind /\ (At(segs, p).hasT => At(out, p).hasT)
  BY DEF Like
<1> QED
  BY <1>1, <1>2 DEF PageStep, OwnStep

(* A second change of the array that leaves every page what it is. *)
LEMMA StepThenSame ==
  ASSUME NEW segs, NEW out, NEW out2, Covers(out), Covers(out2), Same(out, out2), NEW p \in Addr,
         NEW k, NEW k2, NEW chg, NEW dis, PageStep(segs, out, k2, chg, dis, p), OwnStep(segs, out, k, k2, p)
  PROVE  PageStep(segs, out2, k2, chg, dis, p) /\ OwnStep(segs, out2, k, k2, p)
PROOF
<1>1. Like(At(out, p), At(out2, p))
  BY DEF Same
<1>2. MatchAt(At(out2, p), p, k2[p])
  BY <1>1, AtTyped, MatchLike DEF PageStep
<1> QED
  BY <1>1, <1>2 DEF PageStep, OwnStep, Like

-----------------------------------------------------------------------------
(* From pages to the invariant. *)
LEMMA CarryPages ==
  ASSUME AInv, IsSpace(am'), Preened(am'.segs), kern' \in KernelMaps, clobbered' = {},
         NEW chg, NEW dis, Memory(kern', chg, dis),
         \A p \in Addr : PageStep(am.segs, am'.segs, kern', chg, dis, p)
  PROVE  /\ MatchesKernel' /\ NothingClobbered'
         /\ (~CrossSegments => NoStaleTranslation /\ FromMarkedPages)'
PROOF
<1>1. MatchesKernel' /\ NothingClobbered'
  BY DEF MatchesKernel, NothingClobbered, segment_at, PageStep, At
<1>2. ASSUME ~CrossSegments PROVE NoStaleTranslation' /\ FromMarkedPages'
  <2>1. stale = {} /\ \A e \in trans : \A p \in e : p \in Addr /\ At(am.segs, p).kind \in CodeKinds
                                                     /\ At(am.segs, p).hasT
    BY <1>2 DEF AInv, NoStaleTranslation, FromMarkedPages, segment_at, At
  <2>2. /\ trans' = {e \in trans : e \cap dis = {}}
        /\ stale' = {e \in trans' : e \in stale \/ e \cap chg # {}}
    BY DEF Memory
  <2>3. ASSUME NEW e \in trans', NEW p \in e
        PROVE  p \in Addr /\ p \notin chg /\ At(am'.segs, p).kind \in CodeKinds /\ At(am'.segs, p).hasT
    BY <2>1, <2>2 DEF PageStep
  <2>4. stale' = {}
    BY <2>1, <2>2, <2>3
  <2> QED
    BY <2>3, <2>4 DEF NoStaleTranslation, FromMarkedPages, segment_at, At
<1> QED
  BY <1>1, <1>2

LEMMA CarryOwn ==
  ASSUME AInv, vmaps' = vmaps, \A p \in Addr : OwnStep(am.segs, am'.segs, kern, kern', p)
  PROVE  ValgrindKeepsItsPages' /\ OwnRanges'
PROOF
<1> DEFINE own == UNION {pages(m[1], m[2]) : m \in vmaps}
<1>1. /\ {p \in Addr : At(am.segs, p).kind \in VKinds} = own
      /\ \A p \in own : kern[p] # Hole /\ kern[p].owner = "V"
  BY DEF AInv, ValgrindKeepsItsPages, segment_at, At
<1>2. own' = own
  BY DEF pages
<1>3. /\ {p \in Addr : At(am'.segs, p).kind \in VKinds} = own
      /\ \A p \in own : kern'[p] # Hole /\ kern'[p].owner = "V"
  BY <1>1 DEF OwnStep
<1>4. ValgrindKeepsItsPages'
  BY <1>3 DEF ValgrindKeepsItsPages, segment_at, At
<1> QED
  BY <1>4 DEF AInv, OwnRanges

LEMMA Carry ==
  ASSUME AInv, IsSpace(am'), Preened(am'.segs), kern' \in KernelMaps, clobbered' = {},
         NEW chg, NEW dis, Memory(kern', chg, dis),
         \A p \in Addr : /\ PageStep(am.segs, am'.segs, kern', chg, dis, p)
                         /\ OwnStep(am.segs, am'.segs, kern, kern', p),
         vmaps' = vmaps, BrkInRange'
  PROVE  AInv'
PROOF
<1>1. /\ MatchesKernel' /\ NothingClobbered'
      /\ (~CrossSegments => NoStaleTranslation /\ FromMarkedPages)'
  BY CarryPages
<1>2. ValgrindKeepsItsPages' /\ OwnRanges'
  BY CarryOwn
<1> QED
  BY <1>1, <1>2 DEF AInv, KernelMaps

-----------------------------------------------------------------------------
(* What each kind of call does to the pages *)

(* The array and the kernel agree. *)
Agree(segs, k) == \A p \in Addr : MatchAt(At(segs, p), p, k[p])

(* The translations of the marked pages of a range are discarded. *)
Discards(segs, range, dis) ==
  \A p \in range : At(segs, p).kind \in CodeKinds /\ At(segs, p).hasT => p \in dis

Owners == {"C", "V"}

(* The pages of a range are mapped, for that owner. *)
Taken(segs, out, k, k2, kind, range, dis, owner) ==
  \A p \in Addr :
    /\ PageStep(segs, out, k2, range, dis, p)
    /\ p \notin range => OwnStep(segs, out, k, k2, p)
    /\ p \in range => At(out, p).kind = kind /\ k2[p] # Hole /\ k2[p].owner = owner

(* A new mapping. *)
LEMMA MapPages ==
  ASSUME NEW segs, NEW out, Covers(segs), Covers(out), NEW k \in KernelMaps, Agree(segs, k),
         NEW kind \in MappedKinds, NEW a \in Addr, NEW n \in Nat, n # 0, a + n - 1 \in Addr,
         NEW prot \in SUBSET RWX, NEW file, NEW offset \in Int,
         kind \in FileKinds => file \in Files, kind \notin FileKinds => file = NoFile,
         NEW owner \in Owners, Mapped(segs, out, kind, a, n, prot, file, offset),
         NEW k2, k2 = kmap(k, a, n, file, offset, prot, owner),
         NEW dis, Discards(segs, pages(a, n), dis)
  PROVE  k2 \in KernelMaps /\ Taken(segs, out, k, k2, kind, pages(a, n), dis, owner)
PROOF
<1> DEFINE new(p) == [file |-> file, prot |-> prot, owner |-> owner,
                      offset |-> IF file = NoFile THEN 0 ELSE offset + (p - a)]
<1>1. k2 = [p \in Addr |-> IF p \in pages(a, n) THEN new(p) ELSE k[p]]
  BY DEF kmap
<1>2. ASSUME NEW p \in Addr
      PROVE  new(p) \in Mapping /\ new(p).file = file /\ new(p).prot = prot /\ new(p).owner = owner
             /\ new(p).offset = IF file = NoFile THEN 0 ELSE offset + (p - a)
  <2>1. p \in Int /\ a \in Int /\ file \in Files \cup {NoFile}
    BY PageAssumption DEF Addr
  <2>2. (IF file = NoFile THEN 0 ELSE offset + (p - a)) \in Int
    BY <2>1
  <2> QED
    BY <2>1, <2>2 DEF Mapping, Owners
<1> HIDE DEF new
<1>3. k2 \in KernelMaps
  BY <1>1, <1>2 DEF KernelMaps
<1>4. PICK s : IsMapping(s, kind, a, n, prot, file, offset) /\ Placed(segs, out, s)
  BY DEF Mapped
<1>5. ASSUME NEW p \in Addr, p \notin pages(a, n)
      PROVE  PageStep(segs, out, k2, pages(a, n), dis, p) /\ OwnStep(segs, out, k, k2, p)
  <2>1. k2[p] = k[p]
    BY <1>1, <1>5
  <2>2. p \notin s.start .. s.end
    BY <1>4, <1>5 DEF IsMapping, pages
  <2>3. Like(At(segs, p), At(out, p))
    BY <1>4, <2>2 DEF Placed
  <2> QED
    BY <1>5, <2>1, <2>3, Untouched DEF Agree
<1>6. ASSUME NEW p \in Addr, p \in pages(a, n)
      PROVE  /\ PageStep(segs, out, k2, pages(a, n), dis, p)
             /\ At(out, p).kind = kind /\ k2[p] # Hole /\ k2[p].owner = owner
  <2>1. k2[p] = new(p) /\ k2[p] # Hole
    BY <1>1, <1>2, <1>6, HoleIsNoMapping
  <2>2. p \in s.start .. s.end
    BY <1>4, <1>6 DEF IsMapping, pages
  <2>3. Like(s, At(out, p))
    BY <1>4, <2>2 DEF Placed
  <2>4. MatchAt(s, p, k2[p])
    <3>1. s.kind \in MappedKinds /\ s.prot = prot /\ s.file = file
      BY <1>4 DEF IsMapping
    <3>2. s.kind \in FileKinds => s.offset + (p - s.start) = new(p).offset
      BY <1>2, <1>4, FileAssumption DEF IsMapping
    <3> QED
      BY <1>2, <2>1, <3>1, <3>2 DEF MatchAt
  <2>5. MatchAt(At(out, p), p, k2[p])
    <3>1. s \in NSegment
      BY <1>4 DEF IsMapping
    <3> QED
      BY <2>3, <2>4, <3>1, AtTyped, MatchLike
  <2>6. At(out, p).kind = kind
    BY <1>4, <2>3 DEF Like, IsMapping
  <2> QED
    BY <1>2, <1>6, <2>1, <2>5, <2>6 DEF PageStep, Discards
<1> QED
  BY <1>3, <1>5, <1>6 DEF Taken

(* The end of one. *)
LEMMA VacatePages ==
  ASSUME NEW segs, NEW out, Covers(segs), Covers(out), NEW k \in KernelMaps, Agree(segs, k),
         NEW a, NEW n, Vacated(segs, out, a, a + n - 1), NEW k2, k2 = kunmap(k, a, n),
         NEW dis, Discards(segs, pages(a, n), dis)
  PROVE  /\ k2 \in KernelMaps
         /\ \A p \in Addr :
              /\ PageStep(segs, out, k2, pages(a, n), dis, p)
              /\ p \notin pages(a, n) => OwnStep(segs, out, k, k2, p)
              /\ p \in pages(a, n) => At(out, p).kind \in Vacant
PROOF
<1>1. k2 = [p \in Addr |-> IF p \in pages(a, n) THEN Hole ELSE k[p]]
  BY DEF kunmap
<1>2. k2 \in KernelMaps
  BY <1>1 DEF KernelMaps
<1>3. ASSUME NEW p \in Addr, p \notin pages(a, n)
      PROVE  PageStep(segs, out, k2, pages(a, n), dis, p) /\ OwnStep(segs, out, k, k2, p)
  <2>1. k2[p] = k[p]
    BY <1>1, <1>3
  <2>2. Like(At(segs, p), At(out, p))
    BY <1>3 DEF Vacated, pages
  <2> QED
    BY <1>3, <2>1, <2>2, Untouched DEF Agree
<1>4. ASSUME NEW p \in Addr, p \in pages(a, n)
      PROVE  PageStep(segs, out, k2, pages(a, n), dis, p) /\ At(out, p).kind \in Vacant
  <2>1. k2[p] = Hole /\ At(out, p).kind \in Vacant
    BY <1>1, <1>4 DEF Vacated, pages
  <2> QED
    BY <1>4, <2>1 DEF PageStep, Discards, MatchAt
<1> QED
  BY <1>2, <1>3, <1>4

(* Another protection. *)
LEMMA ProtectPages ==
  ASSUME NEW segs, NEW out, Covers(segs), Covers(out), NEW k \in KernelMaps, Agree(segs, k),
         NEW a, NEW n, NEW prot \in SUBSET RWX, Protected(segs, out, a, a + n - 1, prot),
         \A p \in pages(a, n) : k[p] # Hole,
         NEW k2, k2 = kprotect(k, a, n, prot),
         NEW chg, chg \subseteq pages(a, n), NEW dis, Discards(segs, chg, dis)
  PROVE  /\ k2 \in KernelMaps
         /\ \A p \in Addr : PageStep(segs, out, k2, chg, dis, p) /\ OwnStep(segs, out, k, k2, p)
PROOF
<1>1. k2 = [p \in Addr |-> IF p \in pages(a, n) THEN [k[p] EXCEPT !.prot = prot] ELSE k[p]]
  BY DEF kprotect
<1>2. ASSUME NEW p \in Addr, p \in pages(a, n)
      PROVE  /\ k[p] \in Mapping /\ k2[p] \in Mapping /\ k2[p].prot = prot /\ k2[p].file = k[p].file
             /\ k2[p].offset = k[p].offset /\ k2[p].owner = k[p].owner /\ k2[p] # Hole
  <2>1. k[p] \in Mapping
    BY <1>2 DEF KernelMaps
  <2> DEFINE x == k[p]
             y == [x EXCEPT !.prot = prot]
  <2>2. k2[p] = y
    BY <1>1, <1>2
  <2>3. y \in Mapping /\ y.prot = prot /\ y.file = x.file /\ y.offset = x.offset /\ y.owner = x.owner
    BY <2>1 DEF Mapping
  <2> QED
    BY <2>1, <2>2, <2>3, HoleIsNoMapping
<1>3. k2 \in KernelMaps
  <2>1. ASSUME NEW p \in Addr PROVE k2[p] \in {Hole} \cup Mapping
    <3>1. CASE p \in pages(a, n)
      BY <1>2, <3>1
    <3>2. CASE p \notin pages(a, n)
      BY <1>1, <3>2 DEF KernelMaps
    <3> QED
      BY <3>1, <3>2
  <2>2. k2 = [p \in Addr |-> k2[p]]
    BY <1>1
  <2> QED
    BY <2>1, <2>2 DEF KernelMaps
<1>4. ASSUME NEW p \in Addr, p \notin pages(a, n)
      PROVE  PageStep(segs, out, k2, chg, dis, p) /\ OwnStep(segs, out, k, k2, p)
  <2>1. k2[p] = k[p] /\ p \notin chg
    BY <1>1, <1>4
  <2>2. Like(At(segs, p), At(out, p))
    BY <1>4 DEF Protected, pages
  <2> QED
    BY <2>1, <2>2, Untouched DEF Agree
<1>5. ASSUME NEW p \in Addr, p \in pages(a, n)
      PROVE  PageStep(segs, out, k2, chg, dis, p) /\ OwnStep(segs, out, k, k2, p)
  <2>1. MatchAt(At(segs, p), p, k[p]) /\ At(segs, p).kind \in MappedKinds
    BY <1>5 DEF Agree, MatchAt
  <2>2. LikeBut(At(segs, p), At(out, p), prot)
    BY <1>5, <2>1 DEF Protected, pages
  <2>3. MatchAt(At(out, p), p, k2[p])
    <3>1. /\ At(segs, p).start \in Int /\ At(segs, p).offset \in Int /\ p \in Int
          /\ At(out, p).start \in Int /\ At(out, p).offset \in Int
      BY AtTyped
    <3>2. k[p] # Hole
      BY <1>5
    <3> QED
      BY <1>2, <1>5, <2>1, <2>2, <3>1, <3>2 DEF MatchAt, LikeBut
  <2>4. At(segs, p).kind = At(out, p).kind /\ (At(segs, p).hasT => At(out, p).hasT)
    BY <2>2 DEF LikeBut
  <2>5. k2[p] # Hole /\ k2[p].owner = k[p].owner
    BY <1>2, <1>5
  <2> QED
    BY <2>3, <2>4, <2>5 DEF PageStep, OwnStep, Discards
<1> QED
  BY <1>3, <1>4, <1>5

(* Growth into a reservation. *)
LEMMA ExtendPages ==
  ASSUME NEW segs, NEW out, Covers(segs), Covers(out), NEW k \in KernelMaps, Agree(segs, k),
         NEW s \in NSegment, s.kind = "SkAnonC", s.file = NoFile,
         NEW a \in Int, NEW n \in Nat, Extended(segs, out, s, a, a + n - 1),
         NEW k2, k2 = kmap(k, a, n, NoFile, 0, s.prot, "C")
  PROVE  /\ k2 \in KernelMaps
         /\ \A p \in Addr : /\ PageStep(segs, out, k2, pages(a, n), {}, p)
                            /\ OwnStep(segs, out, k, k2, p)
                            /\ p \in pages(a, n) => k[p] = Hole
PROOF
<1> DEFINE new == [file |-> NoFile, prot |-> s.prot, owner |-> "C", offset |-> 0]
<1>1. k2 = [p \in Addr |-> IF p \in pages(a, n) THEN new ELSE k[p]]
  BY DEF kmap
<1>2. new \in Mapping /\ new.file = NoFile /\ new.prot = s.prot /\ new # Hole
  <2>1. new \in Mapping /\ new.file = NoFile /\ new.prot = s.prot
    BY SegmentFields DEF Mapping
  <2> HIDE DEF new
  <2> QED
    BY <2>1, HoleIsNoMapping
<1> HIDE DEF new
<1>3. k2 \in KernelMaps
  BY <1>1, <1>2 DEF KernelMaps
<1>4. ASSUME NEW p \in Addr, p \notin pages(a, n)
      PROVE  PageStep(segs, out, k2, pages(a, n), {}, p) /\ OwnStep(segs, out, k, k2, p)
  <2>1. k2[p] = k[p]
    BY <1>1, <1>4
  <2>2. Like(At(segs, p), At(out, p))
    BY <1>4 DEF Extended, pages
  <2> QED
    BY <1>4, <2>1, <2>2, Untouched DEF Agree
<1>5. ASSUME NEW p \in Addr, p \in pages(a, n)
      PROVE  PageStep(segs, out, k2, pages(a, n), {}, p) /\ OwnStep(segs, out, k, k2, p) /\ k[p] = Hole
  <2>1. At(segs, p).kind = "SkResvn" /\ Like(s, At(out, p))
    BY <1>5 DEF Extended, pages
  <2>2. k[p] = Hole
    BY <2>1 DEF Agree, MatchAt, MappedKinds, AnonKinds, FileKinds
  <2>3. At(out, p).kind = "SkAnonC" /\ MatchAt(At(out, p), p, k2[p])
    BY <1>1, <1>2, <1>5, <2>1 DEF Like, MatchAt, MappedKinds, AnonKinds, FileKinds
  <2> QED
    BY <2>1, <2>2, <2>3 DEF PageStep, OwnStep, CodeKinds, VKinds
<1> QED
  BY <1>3, <1>4, <1>5

-----------------------------------------------------------------------------
(* The calls *)

LEMMA NeatIsPreened ==
  ASSUME NEW d, Neat(d)
  PROVE  Preened(d)
PROOF
BY DEF Neat, Preened

(* What the invariant says of the state before a call. *)
LEMMA Before ==
  ASSUME AInv
  PROVE  /\ IsSpace(am) /\ Covers(am.segs) /\ AllSound(am.names, am.segs) /\ Preened(am.segs)
         /\ IsNames(am.names)
         /\ kern \in KernelMaps /\ Agree(am.segs, kern) /\ clobbered = {}
         /\ BrkInRange /\ OwnRanges /\ ValgrindKeepsItsPages
PROOF
BY DEF AInv, IsSpace, AllSound, KernelMaps, Agree, MatchesKernel, NothingClobbered, segment_at, At

(* The client's brk stays where it is. *)
LEMMA BrkStays ==
  ASSUME BrkInRange, brk' = brk
  PROVE  BrkInRange'
PROOF
BY DEF BrkInRange

LEMMA VacantIsHole ==
  ASSUME NEW segs, NEW k, Agree(segs, k), NEW p \in Addr, At(segs, p).kind \in Vacant
  PROVE  k[p] = Hole
PROOF
BY KindsApart DEF Agree, MatchAt

(* if_Ts discards the translations of the range, if there can be any. *)
LEMMA IfTs ==
  ASSUME Covers(am.segs), NEW a \in Addr, NEW n \in Nat, n # 0, a + n - 1 \in Addr
  PROVE  Discards(am.segs, pages(a, n), if_Ts(a, n))
PROOF
BY SegmentsOfRange DEF Discards, if_Ts, any_Ts_in_range

(* Vacant pages have none. *)
LEMMA VacantHasNoTs ==
  ASSUME NEW segs, NEW range, NEW dis, \A p \in range : At(segs, p).kind \in Vacant
  PROVE  Discards(segs, range, dis)
PROOF
BY KindsApart DEF Discards

(* The client's requests. *)
LEMMA RequestRange ==
  ASSUME NEW a \in Starts, NEW n \in Lens
  PROVE  a \in Addr /\ n \in Nat /\ n # 0 /\ n \in Nat \ {0} /\ a + n - 1 \in Addr
PROOF
BY RequestAssumption, PageAssumption DEF Addr

LEMMA ValidForClient ==
  ASSUME Covers(am.segs), NEW a \in Addr, NEW n \in Nat, n # 0, a + n - 1 \in Addr,
         valid_client_addr(a, n), NEW p \in pages(a, n)
  PROVE  p \in Addr /\ At(am.segs, p).kind \in Vacant \cup ClientKinds
PROOF
BY SegmentsOfRange DEF valid_client_addr, is_valid_for_client

(* Pages of the client's, or of nobody's, that are mapped for it. *)
LEMMA ClientMaps ==
  ASSUME AInv, NEW kind \in ClientKinds, NEW a \in Addr, NEW n \in Nat, n # 0, a + n - 1 \in Addr,
         NEW prot \in SUBSET RWX, NEW file, NEW offset \in Int,
         kind \in FileKinds => file \in Files, kind \notin FileKinds => file = NoFile,
         kind = "SkShmC" => n = 1,
         \A p \in pages(a, n) : p \in Addr /\ At(am.segs, p).kind \in Vacant \cup ClientKinds,
         IsSpace(am'), Preened(am'.segs),
         NEW mid, Covers(mid), Mapped(am.segs, mid, kind, a, n, prot, file, offset), Same(mid, am'.segs),
         NEW dis, Discards(am.segs, pages(a, n), dis),
         Memory(kmap(kern, a, n, file, offset, prot, "C"), pages(a, n), dis),
         clobbered' = {}, vmaps' = vmaps, BrkInRange'
  PROVE  AInv'
PROOF
<1> DEFINE k2 == kmap(kern, a, n, file, offset, prot, "C")
<1>0. kern' = k2 /\ Covers(am'.segs)
  BY DEF Memory, IsSpace
<1>k. kind \in MappedKinds
  BY KindsApart
<1>1. k2 \in KernelMaps /\ Taken(am.segs, mid, kern, k2, kind, pages(a, n), dis, "C")
  <2>1. k2 = kmap(kern, a, n, file, offset, prot, "C") /\ "C" \in Owners
    BY DEF Owners
  <2> HIDE DEF k2
  <2> QED
    BY <1>k, <2>1, Before, MapPages
<1> HIDE DEF k2
<1>2. ASSUME NEW p \in Addr PROVE OwnStep(am.segs, mid, kern, k2, p)
  <2>1. CASE p \in pages(a, n)
    BY <1>1, <2>1, KindsApart DEF OwnStep, Taken
  <2> QED
    BY <1>1, <2>1 DEF Taken
<1>3. ASSUME NEW p \in Addr
      PROVE  PageStep(am.segs, am'.segs, k2, pages(a, n), dis, p) /\ OwnStep(am.segs, am'.segs, kern, k2, p)
  BY <1>0, <1>1, <1>2, StepThenSame DEF Taken
<1>4. kern' \in KernelMaps /\ Memory(kern', pages(a, n), dis)
  BY <1>0, <1>1 DEF Memory, k2
<1>5. \A p \in Addr : /\ PageStep(am.segs, am'.segs, kern', pages(a, n), dis, p)
                      /\ OwnStep(am.segs, am'.segs, kern, kern', p)
  BY <1>0, <1>3
<1> QED
  BY <1>4, <1>5, Carry

LEMMA SameSelf ==
  ASSUME NEW segs
  PROVE  Same(segs, segs)
PROOF
BY DEF Same, Like

LEMMA ClientRecords ==
  ASSUME AInv, NEW kind \in ClientKinds, NEW a \in Addr, NEW n \in Nat, n # 0, a + n - 1 \in Addr,
         NEW prot \in SUBSET RWX, NEW file, NEW offset \in Int,
         kind \in FileKinds => file \in Files, kind \notin FileKinds => file = NoFile,
         kind = "SkShmC" => n = 1,
         \A p \in pages(a, n) : p \in Addr /\ At(am.segs, p).kind \in Vacant \cup ClientKinds,
         am' = record_mapping(am, kind, a, n, prot, file, offset),
         NEW dis, Discards(am.segs, pages(a, n), dis),
         Memory(kmap(kern, a, n, file, offset, prot, "C"), pages(a, n), dis),
         clobbered' = {}, vmaps' = vmaps, BrkInRange'
  PROVE  AInv'
PROOF
<1>1. kind \in MappedKinds /\ n \in Nat \ {0}
  BY KindsApart
<1>2. IsSpace(am') /\ Neat(am'.segs) /\ Mapped(am.segs, am'.segs, kind, a, n, prot, file, offset)
  BY <1>1, Before, RecordMapping
<1>3. Preened(am'.segs) /\ Covers(am'.segs) /\ Same(am'.segs, am'.segs)
  BY <1>2, NeatIsPreened, SameSelf DEF IsSpace
<1> QED
  BY <1>2, <1>3, ClientMaps

(* Pages of the client's that are given up. *)
LEMMA ClientVacates ==
  ASSUME AInv, NEW a \in Addr, NEW n \in Nat, n # 0, a + n - 1 \in Addr,
         \A p \in pages(a, n) : p \in Addr /\ At(am.segs, p).kind \in Vacant \cup ClientKinds,
         am' = am_notify_munmap(am, a, n),
         NEW dis, Discards(am.segs, pages(a, n), dis),
         Memory(kunmap(kern, a, n), pages(a, n), dis),
         clobbered' = {}, vmaps' = vmaps, BrkInRange'
  PROVE  AInv'
PROOF
<1> DEFINE k2 == kunmap(kern, a, n)
<1>0. kern' = k2
  BY DEF Memory
<1>1. IsSpace(am') /\ Neat(am'.segs) /\ Vacated(am.segs, am'.segs, a, a + n - 1)
  BY Before, NotifyMunmap
<1>2. Preened(am'.segs) /\ Covers(am'.segs)
  BY <1>1, NeatIsPreened DEF IsSpace
<1> HIDE DEF k2
<1>3. /\ k2 \in KernelMaps
      /\ \A p \in Addr :
           /\ PageStep(am.segs, am'.segs, k2, pages(a, n), dis, p)
           /\ p \notin pages(a, n) => OwnStep(am.segs, am'.segs, kern, k2, p)
           /\ p \in pages(a, n) => At(am'.segs, p).kind \in Vacant
  BY <1>1, <1>2, Before, VacatePages DEF k2
<1>4. ASSUME NEW p \in Addr PROVE OwnStep(am.segs, am'.segs, kern, k2, p)
  <2>1. CASE p \in pages(a, n)
    BY <1>3, <2>1, KindsApart DEF OwnStep
  <2> QED
    BY <1>3, <2>1
<1>5. kern' \in KernelMaps /\ Memory(kern', pages(a, n), dis)
  BY <1>0, <1>3 DEF Memory, k2
<1>6. \A p \in Addr : /\ PageStep(am.segs, am'.segs, kern', pages(a, n), dis, p)
                      /\ OwnStep(am.segs, am'.segs, kern, kern', p)
  BY <1>0, <1>3, <1>4
<1> QED
  BY <1>1, <1>2, <1>5, <1>6, Carry

(* ML_(generic_PRE_sys_mmap) *)
LEMMA MmapDone ==
  ASSUME AInv, NEW a \in Addr, NEW n \in Nat, n # 0, a + n - 1 \in Addr,
         NEW prot \in Prots, NEW file \in {NoFile, ExeFile}, NEW offset \in Int, NEW fixed,
         \A p \in pages(a, n) : /\ p \in Addr /\ At(am.segs, p).kind \in Vacant \cup ClientKinds
                                /\ ~fixed => At(am.segs, p).kind \in Vacant
  PROVE  mmap_done(a, n, prot, file, offset, fixed) => AInv'
PROOF
<1> SUFFICES ASSUME mmap_done(a, n, prot, file, offset, fixed) PROVE AInv'
  OBVIOUS
<1> DEFINE kind == IF file = NoFile THEN "SkAnonC" ELSE "SkFileC"
<1>1. /\ am' = record_mapping(am, kind, a, n, prot, file, offset)
      /\ Memory(kmap(kern, a, n, file, offset, prot, "C"), pages(a, n), if_Ts(a, n))
      /\ clobbered' = IF fixed THEN clobbered ELSE clobbered \cup {p \in pages(a, n) : kern[p] # Hole}
      /\ vmaps' = vmaps /\ brk' = brk
  BY DEF mmap_done
<1>2. clobbered' = {}
  <2>1. CASE ~fixed
    BY <1>1, <2>1, Before, VacantIsHole
  <2> QED
    BY <1>1, <2>1, Before
<1>3. BrkInRange'
  BY <1>1, Before, BrkStays
<1>4. Discards(am.segs, pages(a, n), if_Ts(a, n))
  BY Before, IfTs
<1>5. /\ prot \in SUBSET RWX /\ kind \in ClientKinds /\ kind # "SkShmC"
      /\ kind \in FileKinds => file \in Files
      /\ kind \notin FileKinds => file = NoFile
  BY RequestAssumption, LayoutAssumption, FileAssumption DEF ClientKinds, FileKinds
<1> HIDE DEF kind
<1> QED
  BY <1>1, <1>2, <1>3, <1>4, <1>5, ClientRecords

LEMMA SysMmap ==
  ASSUME AInv, NEW rkind \in RequestKinds, NEW a, NEW n \in Lens,
         rkind # "MAny" => a \in Starts, sys_mmap(rkind, a, n)
  PROVE  AInv' \/ \E where : Dies(where)
PROOF
<1> DEFINE adv == am_get_advisory(am.segs, rkind, a, n, TRUE)
           again == am_get_advisory(am.segs, "MAny", 0, n, TRUE)
<1>0. /\ n \in Nat /\ n # 0
      /\ rkind # "MAny" => a \in Addr /\ a + n - 1 \in Addr
      /\ Covers(am.segs)
  BY Before, RequestRange, RequestAssumption
<1>m. \A of \in Mappable : of[1] \in {NoFile, ExeFile} /\ of[2] \in Int
  <2> SUFFICES ASSUME NEW of \in Mappable PROVE of[1] \in {NoFile, ExeFile} /\ of[2] \in Int
    OBVIOUS
  <2>1. CASE of = <<NoFile, 0>>
    BY <2>1
  <2>2. CASE of \in {ExeFile} \X Offsets
    <3>1. of[1] \in {ExeFile} /\ of[2] \in Offsets
      BY <2>2
    <3>2. \A o \in Offsets : o \in Int
      BY RequestAssumption
    <3>3. of[2] \in Int
      BY <3>1, <3>2, Zenon
    <3> QED
      BY <3>1, <3>3, Zenon
  <2> QED
    BY <2>1, <2>2 DEF Mappable
<1>1. CASE Dies("hole")
  BY <1>1
<1>2. CASE /\ adv.ok
           /\ \E prot \in Prots, of \in Mappable : mmap_done(adv.addr, n, prot, of[1], of[2], rkind = "MFixed")
  <2>1. PICK prot \in Prots, of \in Mappable : mmap_done(adv.addr, n, prot, of[1], of[2], rkind = "MFixed")
    BY <1>2
  <2>3. /\ adv.addr \in Addr /\ adv.addr + n - 1 \in Addr
        /\ \A p \in pages(adv.addr, n) :
             /\ p \in Addr
             /\ rkind = "MAny" => At(am.segs, p).kind = "SkFree"
             /\ rkind = "MHint" => At(am.segs, p).kind \in Vacant
             /\ At(am.segs, p).kind \in Vacant \cup ClientKinds
    <3> HIDE DEF adv
    <3> DEFINE forClient == TRUE
    <3>1. adv = am_get_advisory(am.segs, rkind, a, n, forClient) /\ adv.ok
      BY <1>2 DEF adv
    <3>2. MayAsk(rkind, a, n, forClient)
      BY <1>0 DEF MayAsk
    <3> HIDE DEF forClient
    <3> QED
      BY <1>0, <3>1, <3>2, Advice DEF IsAdvice
  <2> HIDE DEF adv
  <2>4. \A p \in pages(adv.addr, n) : rkind # "MFixed" => At(am.segs, p).kind \in Vacant
    BY <2>3 DEF Vacant, RequestKinds
  <2> DEFINE fixed == rkind = "MFixed"
             file == of[1]
             offset == of[2]
  <2>5. /\ mmap_done(adv.addr, n, prot, file, offset, fixed)
        /\ \A p \in pages(adv.addr, n) : ~fixed => At(am.segs, p).kind \in Vacant
    BY <2>1, <2>4
  <2>6. file \in {NoFile, ExeFile} /\ offset \in Int
    BY <1>m
  <2> HIDE DEF fixed, file, offset
  <2> QED
    BY <1>0, <2>3, <2>5, <2>6, MmapDone
<1>3. CASE /\ again.ok
           /\ \E prot \in Prots, of \in Mappable : mmap_done(again.addr, n, prot, of[1], of[2], FALSE)
  <2>1. PICK prot \in Prots, of \in Mappable : mmap_done(again.addr, n, prot, of[1], of[2], FALSE)
    BY <1>3
  <2>2. /\ again.addr \in Addr /\ again.addr + n - 1 \in Addr
        /\ \A p \in pages(again.addr, n) : p \in Addr /\ At(am.segs, p).kind \in Vacant
    <3> DEFINE forClient == TRUE
    <3>1. forClient \in BOOLEAN /\ again = am_get_advisory(am.segs, "MAny", 0, n, forClient) /\ again.ok
      BY <1>3
    <3> HIDE DEF again, forClient
    <3> QED
      BY <1>0, <3>1, FloatingAdvice
  <2> HIDE DEF again
  <2> DEFINE file == of[1]
             offset == of[2]
  <2>3. mmap_done(again.addr, n, prot, file, offset, FALSE) /\ file \in {NoFile, ExeFile} /\ offset \in Int
    BY <1>m, <2>1
  <2> HIDE DEF file, offset
  <2> QED
    BY <1>0, <2>2, <2>3, MmapDone
<1> QED
  BY <1>1, <1>2, <1>3 DEF sys_mmap

(* sys_munmap *)
LEMMA SysMunmap ==
  ASSUME AInv, NEW a \in Addr, NEW n \in Nat, n # 0, a + n - 1 \in Addr
  PROVE  sys_munmap(a, n) => AInv'
PROOF
<1> SUFFICES ASSUME sys_munmap(a, n) PROVE AInv'
  OBVIOUS
<1>1. /\ valid_client_addr(a, n) /\ am' = am_notify_munmap(am, a, n)
      /\ Memory(kunmap(kern, a, n), pages(a, n), if_Ts(a, n))
      /\ brk' = brk /\ vmaps' = vmaps /\ clobbered' = clobbered
  BY DEF sys_munmap
<1>2. BrkInRange' /\ clobbered' = {}
  BY <1>1, Before, BrkStays
<1>3. Discards(am.segs, pages(a, n), if_Ts(a, n))
  BY Before, IfTs
<1>4. \A p \in pages(a, n) : p \in Addr /\ At(am.segs, p).kind \in Vacant \cup ClientKinds
  BY <1>1, Before, ValidForClient
<1> QED
  BY <1>1, <1>2, <1>3, <1>4, ClientVacates

(* sys_mprotect *)
LEMMA MprotectDone ==
  ASSUME AInv, NEW a \in Addr, NEW n \in Nat, n # 0, a + n - 1 \in Addr, NEW prot \in Prots
  PROVE  mprotect_done(a, n, prot) => AInv'
PROOF
<1> SUFFICES ASSUME mprotect_done(a, n, prot) PROVE AInv'
  OBVIOUS
<1> DEFINE chg == IF "X" \in prot THEN {} ELSE pages(a, n)
           dis == IF "X" \in prot THEN {} ELSE if_Ts(a, n)
           k2 == kprotect(kern, a, n, prot)
<1>1. /\ \A p \in pages(a, n) : kern[p] # Hole
      /\ am' = am_notify_mprotect(am, a, n, prot)
      /\ Memory(k2, chg, dis)
      /\ brk' = brk /\ vmaps' = vmaps /\ clobbered' = clobbered
  BY DEF mprotect_done
<1>2. BrkInRange' /\ clobbered' = {}
  BY <1>1, Before, BrkStays
<1>3. Discards(am.segs, chg, dis) /\ chg \subseteq pages(a, n)
  <2>1. Discards(am.segs, pages(a, n), if_Ts(a, n))
    BY Before, IfTs
  <2> QED
    BY <2>1 DEF Discards
<1>4. prot \in SUBSET RWX
  BY RequestAssumption
<1>5. IsSpace(am') /\ Neat(am'.segs) /\ Protected(am.segs, am'.segs, a, a + n - 1, prot)
  BY <1>1, <1>4, Before, NotifyMprotect
<1>6. Preened(am'.segs) /\ Covers(am'.segs)
  BY <1>5, NeatIsPreened DEF IsSpace
<1>7. k2 = kprotect(kern, a, n, prot)
  OBVIOUS
<1> HIDE DEF chg, dis, k2
<1>8. /\ k2 \in KernelMaps
      /\ \A p \in Addr : PageStep(am.segs, am'.segs, k2, chg, dis, p) /\ OwnStep(am.segs, am'.segs, kern, k2, p)
  BY <1>1, <1>3, <1>4, <1>5, <1>6, <1>7, Before, ProtectPages
<1>9. kern' = k2 /\ Memory(kern', chg, dis)
  BY <1>1 DEF Memory
<1>10. /\ kern' \in KernelMaps
       /\ \A p \in Addr : /\ PageStep(am.segs, am'.segs, kern', chg, dis, p)
                          /\ OwnStep(am.segs, am'.segs, kern, kern', p)
  BY <1>8, <1>9
<1> QED
  BY <1>1, <1>2, <1>5, <1>6, <1>9, <1>10, Carry

(* The segment of a page. *)
LEMMA SegmentOf ==
  ASSUME AInv, NEW p \in Addr
  PROVE  LET s == At(am.segs, p)
         IN  /\ s \in NSegment /\ Sound(am.names, s)
             /\ s.start \in Addr /\ s.end \in Addr /\ s.start <= p /\ p <= s.end
             /\ am_find_nsegment(am.segs, p) # NoSegment => am_find_nsegment(am.segs, p) = s
PROOF
<1> DEFINE s == At(am.segs, p)
           i == find_nsegment_idx(am.segs, p)
<1>1. i \in 1 .. Len(am.segs) /\ s \in NSegment /\ s.start <= p /\ p <= s.end
  BY Before, Found
<1>2. Sound(am.names, s)
  BY <1>1, Before DEF AllSound, At
<1>3. s.start \in Addr /\ s.end \in Addr
  BY <1>2, PageAssumption DEF Sound, sane_NSegment, Addr
<1>4. am_find_nsegment(am.segs, p) # NoSegment => am_find_nsegment(am.segs, p) = s
  BY DEF am_find_nsegment, At
<1> QED
  BY <1>1, <1>2, <1>3, <1>4

(* The pages of one segment. *)
LEMMA InSegment ==
  ASSUME AInv, NEW p \in Addr, NEW q \in Addr, At(am.segs, p).start <= q, q <= At(am.segs, p).end
  PROVE  At(am.segs, q) = At(am.segs, p)
PROOF
BY Before, Found DEF At

LEMMA SysMprotectGrows ==
  ASSUME AInv, NEW a \in Starts, NEW n \in Lens, NEW prot \in Prots, NEW down,
         sys_mprotect_grows(a, n, prot, down)
  PROVE  AInv' \/ \E where : Dies(where)
PROOF
<1> DEFINE aseg == am_find_nsegment(am.segs, a)
           s == At(am.segs, a)
<1>1. a \in Addr /\ n \in Nat /\ n # 0 /\ a + n - 1 \in Addr
  BY RequestRange
<1>2. /\ s.start \in Addr /\ s.end \in Addr /\ s.start <= a /\ a <= s.end
      /\ aseg # NoSegment => aseg = s
  BY <1>1, SegmentOf
<1>3. \/ Dies("mprotect")
      \/ aseg # NoSegment /\ mprotect_done(aseg.start, a + n - aseg.start, prot)
      \/ aseg # NoSegment /\ mprotect_done(a, aseg.end - a + 1, prot)
  BY DEF sys_mprotect_grows
<1> HIDE DEF aseg, s
<1>4. CASE aseg # NoSegment /\ mprotect_done(aseg.start, a + n - aseg.start, prot)
  <2>1. mprotect_done(s.start, a + n - s.start, prot)
    BY <1>2, <1>4
  <2>2. /\ a + n - s.start \in Nat /\ a + n - s.start # 0
        /\ s.start + (a + n - s.start) - 1 \in Addr
    BY <1>1, <1>2, PageAssumption DEF Addr
  <2> QED
    BY <1>2, <2>1, <2>2, MprotectDone
<1>5. CASE aseg # NoSegment /\ mprotect_done(a, aseg.end - a + 1, prot)
  <2>1. mprotect_done(a, s.end - a + 1, prot)
    BY <1>2, <1>5
  <2>2. /\ s.end - a + 1 \in Nat /\ s.end - a + 1 # 0
        /\ a + (s.end - a + 1) - 1 \in Addr
    BY <1>1, <1>2, PageAssumption DEF Addr
  <2> QED
    BY <1>1, <2>1, <2>2, MprotectDone
<1> QED
  BY <1>3, <1>4, <1>5

-----------------------------------------------------------------------------
(* mremap *)

(* The segment that VG_(am_relocate_nooverlap_client) puts at the new place. *)
IsMoved(s, t, old, new, newn) ==
  /\ t \in NSegment /\ t.start = new /\ t.end = new + newn - 1
  /\ t.kind = s.kind /\ t.smode = s.smode /\ t.file = s.file /\ t.fnIdx = s.fnIdx
  /\ t.prot = s.prot /\ t.hasT = s.hasT /\ t.isCH = s.isCH
  /\ t.offset = IF s.kind = "SkFileC" THEN s.offset + (old - s.start) ELSE s.offset

(* Where a move may go to. *)
MayMove(old, oldn, new, newn) ==
  LET s == At(am.segs, old)
  IN  /\ old \in Addr /\ oldn \in Nat /\ oldn # 0 /\ old + oldn - 1 \in Addr
      /\ new \in Addr /\ newn \in Nat /\ newn # 0 /\ new + newn - 1 \in Addr
      /\ s.kind \in CodeKinds /\ old + oldn - 1 <= s.end
      /\ pages(old, oldn) \cap pages(new, newn) = {}
      /\ \A p \in pages(new, newn) : At(am.segs, p).kind \in Vacant \cup ClientKinds

LEMMA Relocate ==
  ASSUME AInv, NEW old, NEW oldn, NEW new, NEW newn, MayMove(old, oldn, new, newn),
         NEW out, out = am_relocate_nooverlap_client(old, oldn, new, newn)
  PROVE  /\ IsSpace(out) /\ Neat(out.segs)
         /\ \E t : /\ IsMoved(At(am.segs, old), t, old, new, newn)
                   /\ \A p \in Addr :
                        IF p \in pages(old, oldn) THEN At(out.segs, p).kind \in Vacant
                        ELSE Like(IF p \in pages(new, newn) THEN t ELSE At(am.segs, p), At(out.segs, p))
PROOF
<1> DEFINE s == At(am.segs, old)
           x == new + newn - 1
           y == IF s.kind = "SkFileC" THEN s.offset + (old - s.start) ELSE s.offset
           t == [s EXCEPT !.start = new, !.end = x, !.offset = y]
           mid == add_segment(am, t)
           kind == IF old > aspacem_maxAddr THEN "SkResvn" ELSE "SkFree"
           v == init_nsegment(kind, old, old + oldn - 1)
<1>1. out = add_segment(mid, v)
  BY DEF am_relocate_nooverlap_client, At
<1>2. /\ old \in Addr /\ oldn \in Nat /\ oldn # 0 /\ old + oldn - 1 \in Addr
      /\ new \in Addr /\ newn \in Nat /\ newn # 0 /\ x \in Addr
      /\ s.kind \in CodeKinds /\ pages(old, oldn) \cap pages(new, newn) = {}
  BY DEF MayMove
<1>3. s \in NSegment /\ Sound(am.names, s)
  BY <1>2, SegmentOf
<1>4. old \in Int /\ new \in Int /\ x \in Int /\ y \in Int /\ new <= x /\ x \in new .. P - 1
  BY <1>2, <1>3, SegmentFields, PageAssumption DEF Addr
<1>5. IsMoved(s, t, old, new, newn)
  <2> HIDE DEF s, x, y
  <2>1. /\ t \in NSegment /\ t.start = new /\ t.end = x
        /\ t.kind = s.kind /\ t.smode = s.smode /\ t.file = s.file /\ t.fnIdx = s.fnIdx
        /\ t.prot = s.prot /\ t.hasT = s.hasT /\ t.isCH = s.isCH
        /\ t.offset = y
    BY <1>3, <1>4 DEF NSegment
  <2> HIDE DEF t
  <2> QED
    BY <2>1 DEF IsMoved, x, y
<1> HIDE DEF t
<1>6. Sound(am.names, t)
  BY <1>2, <1>3, <1>4, <1>5 DEF Sound, sane_NSegment, IsMoved, CodeKinds, Vacant, FileKinds
<1>7. t \in NSegment
  BY <1>5 DEF IsMoved
<1> HIDE DEF mid
<1>8. IsSpace(mid) /\ Neat(mid.segs) /\ Placed(am.segs, mid.segs, t)
  BY <1>6, <1>7, Before, AddSegment DEF mid
<1>9. kind \in Vacant /\ kind \in MappedKinds \cup Vacant /\ old + oldn - 1 \in Int /\ old <= old + oldn - 1
  BY <1>2, <1>4 DEF Vacant
<1>10. IsInit(v, kind, old, old + oldn - 1) /\ v.prot = {} /\ v.smode = "SmFixed"
  <2> HIDE DEF kind
  <2> QED
    BY <1>4, <1>9, InitNSegment
<1>11. IsSpace(out) /\ Neat(out.segs) /\ Vacated(mid.segs, out.segs, old, old + oldn - 1)
  <2> HIDE DEF kind, v
  <2> QED
    BY <1>1, <1>2, <1>8, <1>9, <1>10, AddVacant
<1>12. ASSUME NEW p \in Addr
       PROVE  IF p \in pages(old, oldn) THEN At(out.segs, p).kind \in Vacant
              ELSE Like(IF p \in pages(new, newn) THEN t ELSE At(am.segs, p), At(out.segs, p))
  <2>1. CASE p \in pages(old, oldn)
    BY <1>11, <2>1 DEF Vacated, pages
  <2>2. CASE p \notin pages(old, oldn)
    <3>1. Like(At(mid.segs, p), At(out.segs, p))
      BY <1>11, <2>2 DEF Vacated, pages
    <3>2. Like(IF p \in pages(new, newn) THEN t ELSE At(am.segs, p), At(mid.segs, p))
      BY <1>5, <1>8 DEF Placed, IsMoved, pages
    <3> QED
      BY <2>2, <3>1, <3>2, LikeTrans
  <2> QED
    BY <2>1, <2>2
<1> QED
  BY <1>5, <1>11, <1>12

(* The kernel's map after the move. *)
LEMMA KernelMoves ==
  ASSUME NEW k \in KernelMaps, NEW old \in Addr, k[old] # Hole,
         NEW oldn, NEW new \in Int, NEW newn, NEW k2, k2 = kremap(k, old, oldn, new, newn)
  PROVE  /\ k2 \in KernelMaps
         /\ \A p \in Addr :
              /\ p \in pages(new, newn) =>
                   /\ k2[p] # Hole /\ k2[p].prot = k[old].prot /\ k2[p].file = k[old].file
                   /\ k2[p].offset = IF k[old].file = NoFile THEN 0 ELSE k[old].offset + (p - new)
              /\ p \notin pages(new, newn) /\ p \in pages(old, oldn) => k2[p] = Hole
              /\ p \notin pages(new, newn) /\ p \notin pages(old, oldn) => k2[p] = k[p]
PROOF
<1> DEFINE x == k[old]
           off(p) == IF x.file = NoFile THEN 0 ELSE x.offset + (p - new)
           y(p) == [x EXCEPT !.offset = off(p)]
<1>1. k2 = [p \in Addr |-> IF p \in pages(new, newn) THEN y(p)
                           ELSE IF p \in pages(old, oldn) THEN Hole ELSE k[p]]
  BY DEF kremap
<1>2. x \in Mapping
  BY DEF KernelMaps
<1> HIDE DEF x
<1>3. ASSUME NEW p \in Addr
      PROVE  /\ y(p) \in Mapping /\ y(p) # Hole /\ y(p).prot = x.prot /\ y(p).file = x.file
             /\ y(p).offset = off(p)
  <2>1. off(p) \in Int
    BY <1>2, PageAssumption DEF Mapping, Addr
  <2> HIDE DEF off
  <2>2. y(p) \in Mapping /\ y(p).prot = x.prot /\ y(p).file = x.file /\ y(p).offset = off(p)
    BY <1>2, <2>1 DEF Mapping
  <2> HIDE DEF y
  <2> QED
    BY <2>2, HoleIsNoMapping
<1> HIDE DEF y
<1>4. k2 \in KernelMaps
  <2>1. \A p \in Addr : y(p) \in Mapping
    BY <1>3
  <2> QED
    BY <1>1, <2>1 DEF KernelMaps
<1> QED
  BY <1>1, <1>3, <1>4 DEF x

LEMMA MoveStep ==
  ASSUME AInv, NEW old, NEW oldn, NEW new, NEW newn, MayMove(old, oldn, new, newn),
         am' = am_relocate_nooverlap_client(old, oldn, new, newn),
         Memory(kremap(kern, old, oldn, new, newn), pages(old, oldn) \cup pages(new, newn),
                relocate_discards(old, oldn, new, newn)),
         clobbered' = {}, vmaps' = vmaps, BrkInRange'
  PROVE  AInv'
PROOF
<1> DEFINE s == At(am.segs, old)
           chg == pages(old, oldn) \cup pages(new, newn)
           dis == relocate_discards(old, oldn, new, newn)
<1>1. /\ old \in Addr /\ oldn \in Nat /\ oldn # 0 /\ old + oldn - 1 \in Addr
      /\ new \in Addr /\ newn \in Nat /\ newn # 0 /\ new + newn - 1 \in Addr
      /\ s.kind \in CodeKinds /\ old + oldn - 1 <= s.end
      /\ pages(old, oldn) \cap pages(new, newn) = {}
      /\ \A p \in pages(new, newn) : At(am.segs, p).kind \in Vacant \cup ClientKinds
  BY DEF MayMove
<1>2. PICK t : /\ IsMoved(s, t, old, new, newn)
               /\ \A p \in Addr :
                    IF p \in pages(old, oldn) THEN At(am'.segs, p).kind \in Vacant
                    ELSE Like(IF p \in pages(new, newn) THEN t ELSE At(am.segs, p), At(am'.segs, p))
  BY Relocate
<1>3. IsSpace(am') /\ Preened(am'.segs) /\ Covers(am'.segs)
  BY Relocate, NeatIsPreened DEF IsSpace
<1>4. kern' = kremap(kern, old, oldn, new, newn) /\ Memory(kern', chg, dis)
  BY DEF Memory
<1>5. /\ s \in NSegment /\ Sound(am.names, s) /\ s.start <= old
      /\ \A p \in pages(old, oldn) : p \in Addr /\ At(am.segs, p) = s
  <2>1. s \in NSegment /\ Sound(am.names, s) /\ s.start <= old /\ s.start \in Addr
    BY <1>1, SegmentOf
  <2>2. ASSUME NEW p \in pages(old, oldn) PROVE p \in Addr /\ s.start <= p /\ p <= s.end
    BY <1>1, <2>1, SegmentFields, PageAssumption DEF pages, Addr
  <2> QED
    BY <1>1, <2>1, <2>2, InSegment
<1>6. kern[old] # Hole /\ MatchAt(s, old, kern[old])
  BY <1>1, Before, KindsApart DEF Agree, MatchAt
<1>7. new \in Int /\ old \in Int
  BY <1>1, PageAssumption DEF Addr
<1>8. /\ kern' \in KernelMaps
      /\ \A p \in Addr :
           /\ p \in pages(new, newn) =>
                /\ kern'[p] # Hole /\ kern'[p].prot = kern[old].prot /\ kern'[p].file = kern[old].file
                /\ kern'[p].offset = IF kern[old].file = NoFile THEN 0 ELSE kern[old].offset + (p - new)
           /\ p \notin pages(new, newn) /\ p \in pages(old, oldn) => kern'[p] = Hole
           /\ p \notin pages(new, newn) /\ p \notin pages(old, oldn) => kern'[p] = kern[p]
  BY <1>1, <1>4, <1>6, <1>7, Before, KernelMoves
<1>9. ASSUME NEW p \in chg, p \in Addr, At(am.segs, p).hasT PROVE p \in dis
  <2>1. CASE p \in pages(old, oldn)
    <3>1. any_Ts_in_range(am.segs, old, oldn)
      BY <1>1, <1>9, <2>1, Before, SegmentsOfRange DEF any_Ts_in_range
    <3> QED
      BY <3>1 DEF relocate_discards
  <2>2. CASE p \in pages(new, newn)
    <3>1. any_Ts_in_range(am.segs, new, newn)
      BY <1>1, <1>9, <2>2, Before, SegmentsOfRange DEF any_Ts_in_range
    <3> QED
      BY <3>1 DEF relocate_discards
  <2> QED
    BY <2>1, <2>2
<1> HIDE DEF dis
<1>10. ASSUME NEW p \in Addr, p \notin chg
       PROVE  PageStep(am.segs, am'.segs, kern', chg, dis, p) /\ OwnStep(am.segs, am'.segs, kern, kern', p)
  <2>1. Like(At(am.segs, p), At(am'.segs, p)) /\ kern'[p] = kern[p]
    BY <1>2, <1>8, <1>10
  <2>2. MatchAt(At(am.segs, p), p, kern[p])
    BY Before DEF Agree
  <2> HIDE DEF chg
  <2> QED
    BY <1>3, <1>10, <2>1, <2>2, Before, Untouched
<1>11. ASSUME NEW p \in Addr, p \in pages(old, oldn)
       PROVE  PageStep(am.segs, am'.segs, kern', chg, dis, p) /\ OwnStep(am.segs, am'.segs, kern, kern', p)
  <2>1. At(am'.segs, p).kind \in Vacant /\ kern'[p] = Hole /\ At(am.segs, p).kind \in CodeKinds
    BY <1>1, <1>2, <1>5, <1>8, <1>11
  <2> QED
    BY <1>9, <1>11, <2>1, KindsApart DEF PageStep, OwnStep, MatchAt
<1>12. ASSUME NEW p \in Addr, p \in pages(new, newn)
       PROVE  PageStep(am.segs, am'.segs, kern', chg, dis, p) /\ OwnStep(am.segs, am'.segs, kern, kern', p)
  <2>1. Like(t, At(am'.segs, p))
    BY <1>1, <1>2, <1>12
  <2>2. MatchAt(t, p, kern'[p])
    <3>1. t.kind \in MappedKinds /\ t.prot = kern'[p].prot /\ t.file = kern'[p].file /\ kern'[p] # Hole
      BY <1>2, <1>6, <1>8, <1>12 DEF IsMoved, MatchAt
    <3>2. ASSUME t.kind \in FileKinds PROVE t.offset + (p - t.start) = kern'[p].offset
      <4>1. s.kind \in FileKinds /\ s.kind = "SkFileC" /\ kern[old].file # NoFile
        BY <1>1, <1>2, <1>5, <1>6, <3>2 DEF IsMoved, CodeKinds, FileKinds, Sound, MatchAt
      <4>2. s.offset + (old - s.start) = kern[old].offset
        BY <1>6, <4>1 DEF MatchAt
      <4>3. t.offset = kern[old].offset /\ t.start = new
        BY <1>2, <4>1, <4>2 DEF IsMoved
      <4> QED
        BY <1>8, <1>12, <4>1, <4>3
    <3> QED
      BY <3>1, <3>2 DEF MatchAt
  <2>3. MatchAt(At(am'.segs, p), p, kern'[p])
    <3>1. t \in NSegment
      BY <1>2 DEF IsMoved
    <3> QED
      BY <1>3, <2>1, <2>2, <3>1, AtTyped, MatchLike
  <2>4. At(am'.segs, p).kind \in CodeKinds
    BY <1>1, <1>2, <2>1 DEF Like, IsMoved
  <2> QED
    BY <1>1, <1>9, <1>12, <2>3, <2>4, KindsApart DEF PageStep, OwnStep
<1>13. \A p \in Addr : /\ PageStep(am.segs, am'.segs, kern', chg, dis, p)
                       /\ OwnStep(am.segs, am'.segs, kern, kern', p)
  BY <1>10, <1>11, <1>12
<1> HIDE DEF chg
<1> QED
  BY <1>3, <1>4, <1>8, <1>13, Carry

(* No mapping is grown in place. *)
LEMMA NeverRoomAbove ==
  ASSUME NEW a, NEW n
  PROVE  ~room_above(a, n)
PROOF
BY DEF room_above, am_find_nsegment

LEMMA Moves ==
  ASSUME AInv, NEW old, NEW oldn, NEW new, NEW newn, NEW fixed, MayMove(old, oldn, new, newn),
         ~fixed => \A p \in pages(new, newn) : p \in Addr /\ At(am.segs, p).kind \in Vacant
  PROVE  move(old, oldn, new, newn, fixed) => AInv'
PROOF
<1> SUFFICES ASSUME move(old, oldn, new, newn, fixed) PROVE AInv'
  OBVIOUS
<1>1. /\ am' = am_relocate_nooverlap_client(old, oldn, new, newn)
      /\ Memory(kremap(kern, old, oldn, new, newn), pages(old, oldn) \cup pages(new, newn),
                relocate_discards(old, oldn, new, newn))
      /\ clobbered' = IF fixed THEN clobbered
                      ELSE clobbered \cup {p \in pages(new, newn) : kern[p] # Hole}
      /\ brk' = brk /\ vmaps' = vmaps
  BY DEF move
<1>2. clobbered' = {}
  <2>1. CASE ~fixed
    BY <1>1, <2>1, Before, VacantIsHole
  <2> QED
    BY <1>1, <2>1, Before
<1>3. BrkInRange'
  BY <1>1, Before, BrkStays
<1> QED
  BY <1>1, <1>2, <1>3, MoveStep

(* What do_mremap knows of the old range. *)
LEMMA OldRange ==
  ASSUME AInv, NEW old \in Starts, NEW oldn \in Lens,
         NEW s, s = am_find_nsegment(am.segs, old), s # NoSegment, remappable(s, old, oldn)
  PROVE  LET t == At(am.segs, old)
         IN  /\ t.kind \in CodeKinds /\ old + oldn - 1 <= t.end
             /\ \A p \in pages(old, oldn) : p \in Addr /\ At(am.segs, p).kind \in CodeKinds
PROOF
<1> DEFINE t == At(am.segs, old)
<1>1. old \in Addr /\ oldn \in Nat /\ oldn # 0 /\ old + oldn - 1 \in Addr
  BY RequestRange
<1>2. s = t /\ t \in NSegment /\ t.start \in Addr /\ t.start <= old
  BY <1>1, SegmentOf
<1>3. t.kind \in CodeKinds /\ old + oldn - 1 <= t.end
  BY <1>2 DEF remappable, CodeKinds
<1>4. ASSUME NEW p \in pages(old, oldn) PROVE p \in Addr /\ At(am.segs, p).kind \in CodeKinds
  <2>1. p \in Addr /\ t.start <= p /\ p <= t.end
    BY <1>1, <1>2, <1>3, SegmentFields, PageAssumption DEF pages, Addr
  <2> QED
    BY <1>1, <1>3, <2>1, InSegment
<1> QED
  BY <1>3, <1>4

LEMMA MremapFixed ==
  ASSUME AInv, NEW old \in Starts, NEW oldn \in Lens, NEW new \in Starts, NEW newn \in Lens,
         NEW s, s = am_find_nsegment(am.segs, old), s # NoSegment, remappable(s, old, oldn),
         mremap_fixed(s, old, oldn, new, newn)
  PROVE  AInv'
PROOF
<1> DEFINE forClient == TRUE
           rkind == "MFixed"
           adv == am_get_advisory(am.segs, rkind, new, newn, forClient)
<1>1. /\ old \in Addr /\ oldn \in Nat /\ oldn # 0 /\ old + oldn - 1 \in Addr
      /\ new \in Addr /\ newn \in Nat /\ newn # 0 /\ new + newn - 1 \in Addr
  BY RequestRange
<1>2. MayAsk(rkind, new, newn, forClient)
  BY <1>1 DEF MayAsk, RequestKinds
<1>3. adv.ok /\ pages(old, oldn) \cap pages(new, newn) = {} /\ rkind = "MFixed"
  BY DEF mremap_fixed
<1>4. move(old, oldn, new, newn, TRUE)
  BY DEF mremap_fixed
<1>5. IsAdvice(am.segs, rkind, new, newn, adv)
  <2> HIDE DEF forClient, rkind
  <2> QED
    BY <1>2, <1>3, Before, Advice
<1> HIDE DEF forClient, rkind, adv
<1>6. \A p \in pages(new, newn) : At(am.segs, p).kind \in Vacant \cup ClientKinds
  BY <1>3, <1>5 DEF IsAdvice
<1>7. MayMove(old, oldn, new, newn)
  BY <1>1, <1>3, <1>6, OldRange DEF MayMove
<1> QED
  BY <1>4, <1>7, Moves

LEMMA MremapFloat ==
  ASSUME AInv, NEW old \in Starts, NEW oldn \in Lens, NEW newn \in Lens, NEW maymove,
         NEW s, s = am_find_nsegment(am.segs, old), s # NoSegment, remappable(s, old, oldn)
  PROVE  mremap_float(s, old, oldn, newn, maymove) => AInv' \/ \E where : Dies(where)
PROOF
<1> SUFFICES ASSUME mremap_float(s, old, oldn, newn, maymove) PROVE AInv' \/ \E where : Dies(where)
  OBVIOUS
<1> DEFINE forClient == TRUE
           adv == am_get_advisory(am.segs, "MAny", 0, newn, forClient)
<1>1. /\ old \in Addr /\ oldn \in Nat /\ oldn # 0 /\ old + oldn - 1 \in Addr
      /\ newn \in Nat /\ newn # 0
  BY RequestRange, RequestAssumption
<1>2. \/ newn < oldn /\ sys_munmap(old + newn, oldn - newn)
      \/ Dies("hole")
      \/ adv.ok /\ move(old, oldn, adv.addr, newn, FALSE)
  BY NeverRoomAbove DEF mremap_float
<1>3. CASE newn < oldn /\ sys_munmap(old + newn, oldn - newn)
  <2>1. /\ old + newn \in Addr /\ oldn - newn \in Nat /\ oldn - newn # 0
        /\ (old + newn) + (oldn - newn) - 1 \in Addr
    BY <1>1, <1>3, PageAssumption DEF Addr
  <2> QED
    BY <1>3, <2>1, SysMunmap
<1>4. CASE adv.ok /\ move(old, oldn, adv.addr, newn, FALSE)
  <2>1. /\ adv.addr \in Addr /\ adv.addr + newn - 1 \in Addr
        /\ \A p \in pages(adv.addr, newn) : p \in Addr /\ At(am.segs, p).kind \in Vacant
    <3>1. forClient \in BOOLEAN /\ adv = am_get_advisory(am.segs, "MAny", 0, newn, forClient) /\ adv.ok
      BY <1>4
    <3> HIDE DEF forClient, adv
    <3> QED
      BY <1>1, <3>1, Before, FloatingAdvice
  <2> HIDE DEF adv
  <2>2. pages(old, oldn) \cap pages(adv.addr, newn) = {}
    <3>1. \A p \in pages(old, oldn) : At(am.segs, p).kind \in CodeKinds
      BY OldRange
    <3> QED
      BY <2>1, <3>1, KindsApart
  <2>3. MayMove(old, oldn, adv.addr, newn)
    BY <1>1, <2>1, <2>2, OldRange DEF MayMove
  <2> QED
    BY <1>4, <2>1, <2>3, Moves
<1> QED
  BY <1>2, <1>3, <1>4

LEMMA DoMremap ==
  ASSUME AInv, NEW old \in Starts, NEW oldn \in Lens, NEW new, NEW newn \in Lens, NEW flags,
         flags = "FIXED" => new \in Starts, do_mremap(old, oldn, new, newn, flags)
  PROVE  AInv' \/ \E where : Dies(where)
PROOF
<1> DEFINE s == am_find_nsegment(am.segs, old)
           maymove == flags = "MAYMOVE"
<1>1. \/ Dies("mremap")
      \/ /\ s # NoSegment /\ remappable(s, old, oldn)
         /\ flags = "FIXED" /\ mremap_fixed(s, old, oldn, new, newn)
      \/ /\ s # NoSegment /\ remappable(s, old, oldn) /\ mremap_float(s, old, oldn, newn, maymove)
  BY DEF do_mremap
<1> HIDE DEF maymove
<1> QED
  BY <1>1, MremapFixed, MremapFloat

-----------------------------------------------------------------------------
(* The data segment and the stack *)

(* Division by the parts of a page. *)
LEMMA PageOf ==
  ASSUME NEW b \in Nat
  PROVE  /\ pageof(b) \in Nat
         /\ \A x \in Nat : x * HALVES <= b => x <= pageof(b)
         /\ \A x \in Nat : b < x * HALVES => pageof(b) < x
PROOF
<1> DEFINE H == HALVES
           q == b \div H
           r == b % H
<1>1. H \in Nat /\ H # 0
  BY RequestAssumption
<1> HIDE DEF H
<1>2. q \in Nat /\ r \in 0 .. H - 1 /\ b = H * q + r
  BY <1>1
<1> HIDE DEF q, r
<1>3. ASSUME NEW x \in Nat, x * H <= b PROVE x <= q
  <2> SUFFICES ASSUME q + 1 <= x PROVE FALSE
    BY <1>2, <1>3
  <2>1. (q + 1) * H <= x * H
    BY <1>1, <1>2
  <2>2. (q + 1) * H = H * q + H
    BY <1>1, <1>2
  <2> QED
    BY <1>1, <1>2, <1>3, <2>1, <2>2
<1>4. ASSUME NEW x \in Nat, b < x * H PROVE q < x
  <2> SUFFICES ASSUME x <= q PROVE FALSE
    BY <1>2, <1>4
  <2>1. x * H <= q * H
    BY <1>1, <1>2
  <2>2. q * H = H * q
    BY <1>1, <1>2
  <2> QED
    BY <1>1, <1>2, <1>4, <2>1, <2>2
<1> QED
  BY <1>2, <1>3, <1>4 DEF pageof, q, H

(* The addresses of the data segment are in the address space. *)
LEMMA BrkAddr ==
  ASSUME BrkInRange, NEW b \in Nat,
         brk.base <= b /\ b < brk.base + DsegPages * HALVES
  PROVE  pageof(b) \in Addr
PROOF
<1>1. PICK x \in 0 .. P - DsegPages : brk.base = x * HALVES
  BY DEF BrkInRange
<1>2. P \in Nat /\ DsegPages \in Nat /\ HALVES \in Nat /\ DsegPages <= P - 1
  BY PageAssumption, RequestAssumption, LayoutAssumption
<1>3. x * HALVES + DsegPages * HALVES = (x + DsegPages) * HALVES
  BY <1>2
<1>4. x + DsegPages \in Nat /\ b < (x + DsegPages) * HALVES
  BY <1>1, <1>2, <1>3
<1>5. pageof(b) < x + DsegPages /\ pageof(b) \in Nat
  BY <1>4, PageOf
<1> QED
  BY <1>2, <1>5 DEF Addr

LEMMA BrkMoves ==
  ASSUME BrkInRange, NEW newbrk \in brk.base .. brk.base + DsegPages * HALVES,
         brk' = [brk EXCEPT !.limit = newbrk]
  PROVE  BrkInRange'
PROOF
<1>1. DsegPages * HALVES \in Nat
  BY RequestAssumption, LayoutAssumption, PageAssumption
<1>2. brk.base \in Nat /\ newbrk \in Nat
  BY <1>1 DEF BrkInRange
<1>3. brk' \in [base : Nat, limit : Nat] /\ brk'.base = brk.base /\ brk'.limit = newbrk
  BY <1>2 DEF BrkInRange
<1> QED
  BY <1>1, <1>2, <1>3 DEF BrkInRange

(* do_brk: shrinking clears, and discards, only whole pages of one segment. *)
LEMMA BrkShrink ==
  ASSUME AInv, NEW newbrk \in brk.base .. brk.base + DsegPages * HALVES, brk_shrink(newbrk)
  PROVE  AInv'
PROOF
<1> DEFINE lo == pageof(newbrk)
           hi == pageof(brk.limit - 1)
           seg == am_find_nsegment(am.segs, lo)
           seg2 == am_find_nsegment(am.segs, hi)
           cut == whole_pages(newbrk, brk.limit)
           chg == IF seg # NoSegment /\ seg = seg2 /\ "W" \in seg.prot THEN cut ELSE {}
           dis == IF seg # NoSegment /\ seg.hasT THEN cut ELSE {}
<1>1. /\ brk.base <= newbrk /\ newbrk < brk.limit
      /\ brk' = [brk EXCEPT !.limit = newbrk]
      /\ Memory(kern, chg, dis)
      /\ am' = am /\ vmaps' = vmaps /\ clobbered' = clobbered
  BY DEF brk_shrink
<1>2. brk.base \in Nat /\ brk.limit \in Nat /\ newbrk \in Nat /\ brk.limit - 1 \in Nat
      /\ brk.limit <= brk.base + DsegPages * HALVES /\ DsegPages * HALVES \in Nat
  BY <1>1, Before, RequestAssumption, LayoutAssumption, PageAssumption DEF BrkInRange
<1>3. lo \in Addr /\ hi \in Addr
  BY <1>1, <1>2, Before, BrkAddr
<1>4. BrkInRange'
  BY <1>1, Before, BrkMoves
<1>5. kern' = kern /\ Memory(kern', chg, dis)
  BY <1>1 DEF Memory
<1>6. ASSUME NEW p \in chg, p \in Addr, At(am.segs, p).hasT PROVE p \in dis
  <2>1. seg # NoSegment /\ seg = seg2 /\ p \in cut
    BY <1>6
  <2>2. seg = At(am.segs, lo) /\ seg2 = At(am.segs, hi) /\ seg.start <= lo /\ hi <= seg2.end
        /\ seg.start \in Addr /\ seg.end \in Addr
    BY <1>3, <2>1, SegmentOf
  <2>3. newbrk <= p * HALVES /\ (p + 1) * HALVES <= brk.limit /\ p \in Nat
    BY <2>1, PageAssumption DEF whole_pages, Addr
  <2>4. HALVES \in Nat /\ HALVES # 0 /\ (p + 1) * HALVES = p * HALVES + HALVES /\ p * HALVES \in Nat
    BY <2>3, RequestAssumption
  <2>5. newbrk < (p + 1) * HALVES /\ p * HALVES <= brk.limit - 1
    BY <1>2, <2>3, <2>4
  <2>6. lo < p + 1 /\ p <= hi
    BY <1>2, <2>3, <2>5, PageOf
  <2>7. seg.start <= p /\ p <= seg.end
    BY <1>3, <2>1, <2>2, <2>3, <2>6, PageAssumption DEF Addr
  <2>8. At(am.segs, p) = seg
    BY <1>3, <1>6, <2>2, <2>7, InSegment
  <2> QED
    BY <1>6, <2>1, <2>8
<1> HIDE DEF chg, dis
<1>7. ASSUME NEW p \in Addr
      PROVE  PageStep(am.segs, am'.segs, kern', chg, dis, p) /\ OwnStep(am.segs, am'.segs, kern, kern', p)
  BY <1>1, <1>5, <1>6, Before DEF PageStep, OwnStep, Agree
<1>8. kern' \in KernelMaps /\ clobbered' = {} /\ IsSpace(am') /\ Preened(am'.segs)
  BY <1>1, <1>5, Before
<1> QED
  BY <1>1, <1>4, <1>5, <1>7, <1>8, Carry

(* The segments before and after growth into a reservation. *)
Grows(i, n, a, out) ==
  LET s == am.segs[i]
  IN  /\ i \in 1 .. Len(am.segs) /\ s.kind = "SkAnonC"
      /\ a \in Addr /\ n \in Nat /\ n # 0 /\ a + n - 1 \in Addr
      /\ Covers(out) /\ AllSound(am.names, out) /\ Preened(out)
      /\ Extended(am.segs, out, s, a, a + n - 1)

LEMMA GrowsUp ==
  ASSUME AInv, NEW i \in 1 .. Len(am.segs), NEW n \in Nat, n # 0
  PROVE  can_extend_into_reservation(am.segs, i, n, TRUE) =>
           Grows(i, n, am.segs[i].end + 1, extend_into_reservation(am.segs, i, n, TRUE))
PROOF
<1>0. SUFFICES ASSUME can_extend_into_reservation(am.segs, i, n, TRUE)
               PROVE  Grows(i, n, am.segs[i].end + 1, extend_into_reservation(am.segs, i, n, TRUE))
  OBVIOUS
<1> DEFINE out == extend_into_reservation(am.segs, i, n, TRUE)
           e == am.segs[i].end
<1>1. /\ Covers(out) /\ AllSound(am.names, out) /\ Preened(out)
      /\ e + 1 \in Addr /\ e + n \in Addr
      /\ Extended(am.segs, out, am.segs[i], e + 1, e + n)
  BY <1>0, Before, ExtendUp
<1>2. e \in Int
  BY Before, TilesTyped DEF Covers
<1>3. (e + 1) + n - 1 = e + n
  BY <1>2
<1>4. am.segs[i].kind = "SkAnonC"
  BY <1>0 DEF can_extend_into_reservation
<1> HIDE DEF out, e
<1>5. Grows(i, n, e + 1, out)
  BY <1>1, <1>3, <1>4 DEF Grows
<1> QED
  BY <1>5 DEF out, e

LEMMA GrowsDown ==
  ASSUME AInv, NEW i \in 1 .. Len(am.segs), NEW n \in Nat, n # 0
  PROVE  can_extend_into_reservation(am.segs, i, n, FALSE) =>
           Grows(i, n, am.segs[i].start - n, extend_into_reservation(am.segs, i, n, FALSE))
PROOF
<1>0. SUFFICES ASSUME can_extend_into_reservation(am.segs, i, n, FALSE)
               PROVE  Grows(i, n, am.segs[i].start - n, extend_into_reservation(am.segs, i, n, FALSE))
  OBVIOUS
<1> DEFINE out == extend_into_reservation(am.segs, i, n, FALSE)
           b == am.segs[i].start
<1>1. /\ Covers(out) /\ AllSound(am.names, out) /\ Preened(out)
      /\ b - n \in Addr /\ b - 1 \in Addr
      /\ Extended(am.segs, out, am.segs[i], b - n, b - 1)
  BY <1>0, Before, ExtendDown
<1>2. b \in Int
  BY Before, TilesTyped DEF Covers
<1>3. (b - n) + n - 1 = b - 1
  BY <1>2
<1>4. am.segs[i].kind = "SkAnonC"
  BY <1>0 DEF can_extend_into_reservation
<1> HIDE DEF out, b
<1>5. Grows(i, n, b - n, out)
  BY <1>1, <1>3, <1>4 DEF Grows
<1> QED
  BY <1>5 DEF out, b

LEMMA ExtendClient ==
  ASSUME AInv, NEW i, NEW n, NEW a, NEW out, Grows(i, n, a, out),
         am' = [am EXCEPT !.segs = out],
         Memory(kmap(kern, a, n, NoFile, 0, am.segs[i].prot, "C"), pages(a, n), {}),
         clobbered' = clobbered \cup {p \in pages(a, n) : kern[p] # Hole},
         vmaps' = vmaps, BrkInRange'
  PROVE  AInv'
PROOF
<1> DEFINE s == am.segs[i]
           k2 == kmap(kern, a, n, NoFile, 0, s.prot, "C")
<1>1. /\ s.kind = "SkAnonC" /\ a \in Addr /\ n \in Nat /\ n # 0 /\ a + n - 1 \in Addr
      /\ Covers(out) /\ AllSound(am.names, out) /\ Preened(out)
      /\ Extended(am.segs, out, s, a, a + n - 1) /\ i \in 1 .. Len(am.segs)
  BY DEF Grows
<1>2. am'.segs = out /\ am'.names = am.names /\ DOMAIN am' = {"segs", "names"}
  BY Before DEF IsSpace
<1>3. IsSpace(am') /\ Preened(am'.segs) /\ Covers(am'.segs)
  BY <1>1, <1>2, Before DEF IsSpace, AllSound
<1>4. s \in NSegment /\ s.file = NoFile
  <2>1. s \in NSegment /\ Sound(am.names, s)
    BY <1>1, Before, TilesTyped DEF Covers, AllSound
  <2> QED
    BY <1>1, <2>1 DEF Sound, sane_NSegment, FileKinds
<1>5. a \in Int /\ \A p \in pages(a, n) : p \in Addr
  BY <1>1, PageAssumption, SMTT(30) DEF Addr, pages
<1>6. kern' = k2 /\ Memory(kern', pages(a, n), {})
  BY DEF Memory
<1>7. k2 = kmap(kern, a, n, NoFile, 0, s.prot, "C")
  OBVIOUS
<1> HIDE DEF k2, s
<1>8. /\ k2 \in KernelMaps
      /\ \A p \in Addr : /\ PageStep(am.segs, out, k2, pages(a, n), {}, p)
                         /\ OwnStep(am.segs, out, kern, k2, p)
                         /\ p \in pages(a, n) => kern[p] = Hole
  BY <1>1, <1>4, <1>5, <1>7, Before, ExtendPages
<1>9. clobbered' = {}
  BY <1>5, <1>8, Before
<1>10. /\ kern' \in KernelMaps
       /\ \A p \in Addr : /\ PageStep(am.segs, am'.segs, kern', pages(a, n), {}, p)
                          /\ OwnStep(am.segs, am'.segs, kern, kern', p)
  BY <1>2, <1>6, <1>8
<1> QED
  BY <1>3, <1>6, <1>9, <1>10, Carry

(* do_brk: growth is paid for by the reservation above. *)
LEMMA BrkExpand ==
  ASSUME AInv, NEW newbrk \in brk.base .. brk.base + DsegPages * HALVES, brk_expand(newbrk)
  PROVE  AInv' \/ \E where : Dies(where)
PROOF
<1> DEFINE top == IF brk.limit > brk.base THEN brk.limit - 1 ELSE brk.limit
           at == pageof(top)
           i == find_nsegment_idx(am.segs, at)
           aseg == am_find_nsegment(am.segs, at)
           rseg == am_next_nsegment(am.segs, at, TRUE)
           newbrkP == (newbrk + HALVES - 1) \div HALVES
           n == newbrkP - rseg.start
           out == extend_into_reservation(am.segs, i, n, TRUE)
<1>1. \/ Dies("brk")
      \/ /\ aseg.kind = "SkAnonC" /\ rseg.kind = "SkResvn"
         /\ brk' = [brk EXCEPT !.limit = newbrk] /\ vmaps' = vmaps
         /\ \/ UNCHANGED <<am, kern, trans, stale, clobbered>>
            \/ /\ newbrk > rseg.start * HALVES
               /\ can_extend_into_reservation(am.segs, i, n, TRUE)
               /\ extend_client(i, n, TRUE)
  BY DEF brk_expand
<1>2. DsegPages \in Nat /\ DsegPages >= 2 /\ HALVES \in Nat /\ HALVES # 0
  BY RequestAssumption, LayoutAssumption, PageAssumption
<1>3. DsegPages * HALVES \in Nat /\ DsegPages * HALVES >= HALVES
  BY <1>2
<1>4. /\ brk.base \in Nat /\ brk.limit \in Nat /\ newbrk \in Nat
      /\ brk.base <= brk.limit /\ brk.limit <= brk.base + DsegPages * HALVES
  BY <1>3, Before DEF BrkInRange
<1>5. top \in Nat /\ brk.base <= top /\ top < brk.base + DsegPages * HALVES
  BY <1>2, <1>3, <1>4
<1>6. at \in Addr
  <2> HIDE DEF top
  <2> QED
    BY <1>5, Before, BrkAddr
<1> HIDE DEF at, top
<1>7. i \in 1 .. Len(am.segs)
  BY <1>6, Before, Found
<1> HIDE DEF rseg
<1>8. CASE /\ brk' = [brk EXCEPT !.limit = newbrk] /\ vmaps' = vmaps
           /\ UNCHANGED <<am, kern, trans, stale, clobbered>>
  <2>1. BrkInRange'
    BY <1>8, Before, BrkMoves
  <2> QED
    BY <1>8, <2>1 DEF AInv, MatchesKernel, ValgrindKeepsItsPages, NothingClobbered, OwnRanges,
                      NoStaleTranslation, FromMarkedPages, segment_at
<1>9. CASE /\ rseg.kind = "SkResvn" /\ brk' = [brk EXCEPT !.limit = newbrk] /\ vmaps' = vmaps
           /\ newbrk > rseg.start * HALVES
           /\ can_extend_into_reservation(am.segs, i, n, TRUE)
           /\ extend_client(i, n, TRUE)
  <2>1. BrkInRange'
    BY <1>9, Before, BrkMoves
  <2>2. rseg.start \in Nat
    <3>1. rseg # NoSegment
      BY <1>9 DEF NoSegment
    <3>2. i + 1 \in 1 .. Len(am.segs) /\ rseg = am.segs[i + 1]
      BY <3>1, Before, TilesTyped DEF am_next_nsegment, Covers, rseg
    <3>3. Sound(am.names, rseg)
      BY <3>2, Before DEF AllSound
    <3> QED
      BY <3>3, PageAssumption DEF Sound, sane_NSegment, Addr
  <2>3. n \in Nat /\ n # 0
    <3> DEFINE r == rseg.start
    <3>1. r \in Nat /\ newbrk > r * HALVES /\ r * HALVES \in Nat
      BY <1>2, <1>9, <2>2
    <3> HIDE DEF r
    <3>2. (r + 1) * HALVES = r * HALVES + HALVES
      BY <1>2, <3>1
    <3>3. newbrk + HALVES - 1 \in Nat /\ (r + 1) * HALVES <= newbrk + HALVES - 1 /\ r + 1 \in Nat
      BY <1>2, <1>4, <3>1, <3>2
    <3>4. newbrkP \in Nat /\ r + 1 <= newbrkP
      BY <3>3, PageOf DEF pageof
    <3> HIDE DEF newbrkP
    <3> QED
      BY <3>1, <3>4 DEF r
  <2> DEFINE s == am.segs[i]
             a == s.end + 1
  <2>4. /\ am' = [am EXCEPT !.segs = out]
        /\ Memory(kmap(kern, a, n, NoFile, 0, s.prot, "C"), pages(a, n), {})
        /\ clobbered' = clobbered \cup {p \in pages(a, n) : kern[p] # Hole}
    BY <1>9 DEF extend_client
  <2>5. can_extend_into_reservation(am.segs, i, n, TRUE)
    BY <1>9
  <2> HIDE DEF n, i
  <2>6. Grows(i, n, a, out)
    BY <1>7, <2>3, <2>5, GrowsUp
  <2> HIDE DEF a, out
  <2> QED
    BY <1>9, <2>1, <2>4, <2>6, ExtendClient
<1> QED
  BY <1>1, <1>8, <1>9

(* VG_(extend_stack) *)
LEMMA Stack ==
  ASSUME AInv, NEW a \in StackEnd - StackPages + 1 .. StackEnd - 1, extend_stack(a)
  PROVE  AInv'
PROOF
<1> DEFINE j == find_nsegment_idx(am.segs, a)
           i == j + 1
           s == am.segs[i]
           n == s.start - a
           out == extend_into_reservation(am.segs, i, n, FALSE)
<1>1. /\ i \in DOMAIN am.segs /\ can_extend_into_reservation(am.segs, i, n, FALSE)
      /\ extend_client(i, n, FALSE) /\ brk' = brk /\ vmaps' = vmaps
  BY DEF extend_stack
<1>2. a \in Addr /\ a \in Int
  BY LayoutAssumption, PageAssumption DEF Addr
<1>3. j \in 1 .. Len(am.segs) /\ a <= am.segs[j].end
  BY <1>2, Before, Found DEF At
<1>4. i \in 1 .. Len(am.segs)
  BY <1>1, Before, TilesTyped DEF Covers
<1>5. am.segs[j].end \in Int /\ s.start \in Int /\ am.segs[j].end + 1 = s.start
  <2>1. Len(am.segs) \in Nat /\ j \in 1 .. Len(am.segs) - 1
    BY <1>3, <1>4, Before, TilesTyped DEF Covers
  <2>2. am.segs[j].end + 1 = s.start
    BY <2>1, Before DEF Covers, Tiles
  <2> QED
    BY <1>3, <1>4, <2>2, Before, TilesTyped DEF Covers
<1>6. n \in Nat /\ n # 0
  <2> DEFINE x == s.start
             y == am.segs[j].end
  <2>1. x \in Int /\ y \in Int /\ y + 1 = x /\ a <= y
    BY <1>3, <1>5
  <2> HIDE DEF x, y
  <2>2. x - a \in Nat /\ x - a # 0
    BY <1>2, <2>1
  <2> QED
    BY <2>2 DEF x
<1> DEFINE b == s.start - n
<1>7. /\ am' = [am EXCEPT !.segs = out]
      /\ Memory(kmap(kern, b, n, NoFile, 0, s.prot, "C"), pages(b, n), {})
      /\ clobbered' = clobbered \cup {p \in pages(b, n) : kern[p] # Hole}
  BY <1>1 DEF extend_client
<1>8. BrkInRange'
  BY <1>1, Before, BrkStays
<1> HIDE DEF n, i
<1>9. Grows(i, n, b, out)
  BY <1>1, <1>4, <1>6, GrowsDown
<1> HIDE DEF b, out
<1> QED
  BY <1>1, <1>7, <1>8, <1>9, ExtendClient

-----------------------------------------------------------------------------
(* Shared memory, and the superblocks of the client's arena *)

LEMMA ShmAttach ==
  ASSUME AInv, ShmPages = 1, NEW a, a \in Starts \/ a = 0, NEW prot \in SUBSET RWX, shmat(a, prot)
  PROVE  AInv' \/ \E where : Dies(where)
PROOF
<1> DEFINE forClient == TRUE
           adv == am_get_advisory(am.segs, "MAny", 0, ShmPages, forClient)
           at == IF a = 0 THEN adv.addr ELSE a
<1>1. \/ Dies("hole")
      \/ /\ IF a = 0 THEN adv.ok ELSE valid_client_addr(a, ShmPages)
         /\ am' = record_mapping(am, "SkShmC", at, ShmPages, prot, NoFile, 0)
         /\ Memory(kmap(kern, at, ShmPages, NoFile, 0, prot, "C"), pages(at, ShmPages),
                   if_Ts(at, ShmPages))
         /\ brk' = brk /\ vmaps' = vmaps /\ clobbered' = clobbered
  BY DEF shmat
<1>2. CASE /\ IF a = 0 THEN adv.ok ELSE valid_client_addr(a, ShmPages)
           /\ am' = record_mapping(am, "SkShmC", at, ShmPages, prot, NoFile, 0)
           /\ Memory(kmap(kern, at, ShmPages, NoFile, 0, prot, "C"), pages(at, ShmPages),
                     if_Ts(at, ShmPages))
           /\ brk' = brk /\ vmaps' = vmaps /\ clobbered' = clobbered
  <2>1. ShmPages \in Nat /\ ShmPages # 0
    OBVIOUS
  <2>2. /\ at \in Addr /\ at + ShmPages - 1 \in Addr
        /\ \A p \in pages(at, ShmPages) : p \in Addr /\ At(am.segs, p).kind \in Vacant \cup ClientKinds
    <3>1. CASE a = 0
      <4>1. forClient \in BOOLEAN /\ adv = am_get_advisory(am.segs, "MAny", 0, ShmPages, forClient) /\ adv.ok
        BY <1>2, <3>1
      <4> HIDE DEF forClient, adv
      <4>2. /\ adv.addr \in Addr /\ adv.addr + ShmPages - 1 \in Addr
            /\ \A p \in pages(adv.addr, ShmPages) : p \in Addr /\ At(am.segs, p).kind \in Vacant
        BY <2>1, <4>1, Before, FloatingAdvice
      <4> QED
        BY <3>1, <4>2
    <3>2. CASE a # 0
      <4> HIDE DEF adv
      <4>1. at = a /\ a \in Addr /\ a + ShmPages - 1 \in Addr /\ valid_client_addr(a, ShmPages)
        <5>1. at = a /\ a \in Addr /\ valid_client_addr(a, ShmPages)
          BY <1>2, <3>2, RequestAssumption
        <5> QED
          BY <5>1, PageAssumption DEF Addr
      <4> QED
        BY <2>1, <4>1, Before, ValidForClient
    <3> QED
      BY <3>1, <3>2
  <2> HIDE DEF at
  <2>3. Discards(am.segs, pages(at, ShmPages), if_Ts(at, ShmPages))
    BY <2>1, <2>2, Before, IfTs
  <2>4. BrkInRange' /\ clobbered' = {}
    BY <1>2, Before, BrkStays
  <2>5. /\ "SkShmC" \in ClientKinds /\ "SkShmC" \notin FileKinds
    BY DEF ClientKinds, FileKinds
  <2>6. /\ am' = record_mapping(am, "SkShmC", at, ShmPages, prot, NoFile, 0)
        /\ Memory(kmap(kern, at, ShmPages, NoFile, 0, prot, "C"), pages(at, ShmPages),
                  if_Ts(at, ShmPages))
        /\ vmaps' = vmaps
    BY <1>2
  <2> DEFINE kind == "SkShmC"
             dis == if_Ts(at, ShmPages)
  <2>7. /\ kind \in ClientKinds /\ kind \notin FileKinds
        /\ am' = record_mapping(am, kind, at, ShmPages, prot, NoFile, 0)
        /\ Memory(kmap(kern, at, ShmPages, NoFile, 0, prot, "C"), pages(at, ShmPages), dis)
        /\ Discards(am.segs, pages(at, ShmPages), dis)
    BY <2>3, <2>5, <2>6
  <2> HIDE DEF kind, dis
  <2> QED
    BY <2>1, <2>2, <2>4, <2>6, <2>7, ClientRecords
<1> QED
  BY <1>1, <1>2

LEMMA ShmDetach ==
  ASSUME AInv, ShmPages = 1, NEW a \in Starts, shmdt(a)
  PROVE  AInv'
PROOF
<1> DEFINE s == At(am.segs, a)
<1>1. /\ s.kind = "SkShmC" /\ s.start = a
      /\ am' = am_notify_munmap(am, s.start, s.end + 1 - s.start)
      /\ Memory(kunmap(kern, a, ShmPages), pages(a, ShmPages), if_Ts(s.start, s.end + 1 - s.start))
      /\ brk' = brk /\ vmaps' = vmaps /\ clobbered' = clobbered
  BY DEF shmdt, At
<1>2. a \in Addr /\ a \in Int
  BY RequestAssumption, PageAssumption DEF Addr
<1>3. s.end = a
  BY <1>1, <1>2, SegmentOf DEF Sound
<1>4. s.end + 1 - s.start = 1 /\ 1 \in Nat /\ 1 # 0 /\ a + 1 - 1 \in Addr
  BY <1>1, <1>2, <1>3
<1>5. /\ am' = am_notify_munmap(am, a, 1)
      /\ Memory(kunmap(kern, a, 1), pages(a, 1), if_Ts(a, 1))
  BY <1>1, <1>4
<1>6. \A p \in pages(a, 1) : p \in Addr /\ At(am.segs, p).kind \in Vacant \cup ClientKinds
  BY <1>1, <1>2 DEF pages, ClientKinds
<1>7. Discards(am.segs, pages(a, 1), if_Ts(a, 1))
  BY <1>2, <1>4, Before, IfTs
<1>8. BrkInRange' /\ clobbered' = {}
  BY <1>1, Before, BrkStays
<1> HIDE DEF s
<1> DEFINE n == 1
<1>9. /\ n \in Nat /\ n # 0 /\ a + n - 1 \in Addr
      /\ am' = am_notify_munmap(am, a, n)
      /\ Memory(kunmap(kern, a, n), pages(a, n), if_Ts(a, n))
      /\ \A p \in pages(a, n) : p \in Addr /\ At(am.segs, p).kind \in Vacant \cup ClientKinds
      /\ Discards(am.segs, pages(a, n), if_Ts(a, n))
  BY <1>4, <1>5, <1>6, <1>7
<1> HIDE DEF n
<1> QED
  BY <1>1, <1>2, <1>8, <1>9, ClientVacates

(* newSuperblock *)
LEMMA NewSuperblock ==
  ASSUME AInv, NEW n \in Lens, newSuperblock_client(n)
  PROVE  AInv' \/ \E where : Dies(where)
PROOF
<1> DEFINE forClient == TRUE
           adv == am_get_advisory(am.segs, "MAny", 0, n, forClient)
           a == adv.addr
           m == record_mapping(am, "SkAnonC", a, n, RWX, NoFile, 0)
<1>1. \/ Dies("hole")
      \/ /\ adv.ok
         /\ am' = [m EXCEPT !.segs = am_set_isCH(m.segs, a)]
         /\ Memory(kmap(kern, a, n, NoFile, 0, RWX, "C"), pages(a, n), {})
         /\ clobbered' = clobbered \cup {p \in pages(a, n) : kern[p] # Hole}
         /\ brk' = brk /\ vmaps' = vmaps
  BY DEF newSuperblock_client
<1>2. CASE /\ adv.ok
           /\ am' = [m EXCEPT !.segs = am_set_isCH(m.segs, a)]
           /\ Memory(kmap(kern, a, n, NoFile, 0, RWX, "C"), pages(a, n), {})
           /\ clobbered' = clobbered \cup {p \in pages(a, n) : kern[p] # Hole}
           /\ brk' = brk /\ vmaps' = vmaps
  <2>1. n \in Nat /\ n # 0 /\ n \in Nat \ {0}
    BY RequestAssumption
  <2>2. /\ a \in Addr /\ a + n - 1 \in Addr
        /\ \A p \in pages(a, n) : p \in Addr /\ At(am.segs, p).kind \in Vacant
    <3>1. forClient \in BOOLEAN /\ adv = am_get_advisory(am.segs, "MAny", 0, n, forClient) /\ adv.ok
      BY <1>2
    <3> HIDE DEF forClient, adv
    <3> QED
      BY <2>1, <3>1, Before, FloatingAdvice
  <2> HIDE DEF adv, a
  <2> DEFINE kind == "SkAnonC"
  <2>3. /\ kind \in ClientKinds /\ kind \in MappedKinds /\ kind \notin FileKinds /\ kind # "SkShmC"
        /\ m = record_mapping(am, kind, a, n, RWX, NoFile, 0) /\ RWX \in SUBSET RWX /\ 0 \in Int
    BY DEF ClientKinds, MappedKinds, FileKinds, AnonKinds
  <2> HIDE DEF kind, m
  <2>4. IsSpace(m) /\ Neat(m.segs) /\ Mapped(am.segs, m.segs, kind, a, n, RWX, NoFile, 0)
    BY <2>1, <2>2, <2>3, Before, RecordMapping
  <2>5. Covers(m.segs) /\ AllSound(m.names, m.segs)
    BY <2>4 DEF IsSpace, AllSound
  <2> DEFINE out == am_set_isCH(m.segs, a)
  <2>6. out = am_set_isCH(m.segs, a)
    OBVIOUS
  <2> HIDE DEF out
  <2>7. Covers(out) /\ AllSound(m.names, out) /\ Preened(out) /\ Same(m.segs, out)
    BY <2>2, <2>4, <2>5, <2>6, SetIsCH
  <2>8. am'.segs = out /\ am'.names = m.names /\ DOMAIN am' = {"segs", "names"}
    BY <1>2, <2>4, <2>6 DEF IsSpace
  <2>9. IsSpace(am') /\ Preened(am'.segs) /\ Same(m.segs, am'.segs)
    BY <2>4, <2>7, <2>8 DEF IsSpace, AllSound
  <2>10. clobbered' = {} /\ BrkInRange'
    BY <1>2, <2>2, Before, VacantIsHole, BrkStays
  <2>11. Discards(am.segs, pages(a, n), {})
    BY <2>2, VacantHasNoTs
  <2>12. Memory(kmap(kern, a, n, NoFile, 0, RWX, "C"), pages(a, n), {}) /\ vmaps' = vmaps
    BY <1>2
  <2>13. \A p \in pages(a, n) : p \in Addr /\ At(am.segs, p).kind \in Vacant \cup ClientKinds
    BY <2>2
  <2> DEFINE dis == {}
             prot == RWX
             file == NoFile
  <2>14. /\ Discards(am.segs, pages(a, n), dis) /\ prot \in SUBSET RWX /\ file = NoFile
         /\ Mapped(am.segs, m.segs, kind, a, n, prot, file, 0)
         /\ Memory(kmap(kern, a, n, file, 0, prot, "C"), pages(a, n), dis)
    BY <2>3, <2>4, <2>11, <2>12
  <2> HIDE DEF dis, prot, file
  <2> QED
    BY <2>1, <2>2, <2>3, <2>5, <2>9, <2>10, <2>12, <2>13, <2>14, ClientMaps
<1> QED
  BY <1>1, <1>2

-----------------------------------------------------------------------------
(* Valgrind's own mappings *)

Own == UNION {pages(m[1], m[2]) : m \in vmaps}

LEMMA OwnPages ==
  ASSUME AInv
  PROVE  \A p \in Addr : At(am.segs, p).kind \in VKinds <=> p \in Own
PROOF
BY DEF AInv, ValgrindKeepsItsPages, segment_at, At, Own

(* A mapping of Valgrind's, among free pages. *)
LEMMA ValgrindMaps ==
  ASSUME AInv, NEW kind \in VKinds, NEW a \in Addr, NEW n \in Nat, n # 0, a + n - 1 \in Addr,
         NEW prot \in SUBSET RWX, NEW file, kind \in FileKinds => file \in Files,
         kind \notin FileKinds => file = NoFile,
         \A p \in pages(a, n) : p \in Addr /\ At(am.segs, p).kind \in Vacant,
         am' = record_mapping(am, kind, a, n, prot, file, 0),
         Memory(kmap(kern, a, n, file, 0, prot, "V"), pages(a, n), {}),
         clobbered' = {}, vmaps' = vmaps \cup {<<a, n, kind>>}, brk' = brk
  PROVE  AInv'
PROOF
<1> DEFINE k2 == kmap(kern, a, n, file, 0, prot, "V")
           dis == {}
<1>1. kind \in MappedKinds /\ n \in Nat \ {0} /\ 0 \in Int /\ kind # "SkShmC"
  BY KindsApart DEF VKinds
<1>2. IsSpace(am') /\ Neat(am'.segs) /\ Mapped(am.segs, am'.segs, kind, a, n, prot, file, 0)
  BY <1>1, Before, RecordMapping
<1>3. Preened(am'.segs) /\ Covers(am'.segs)
  BY <1>2, NeatIsPreened DEF IsSpace
<1>4. kern' = k2 /\ Memory(kern', pages(a, n), dis) /\ k2 = kmap(kern, a, n, file, 0, prot, "V")
      /\ "V" \in Owners
  BY DEF Memory, Owners
<1>5. Discards(am.segs, pages(a, n), dis)
  BY VacantHasNoTs
<1> HIDE DEF k2, dis
<1>6. k2 \in KernelMaps /\ Taken(am.segs, am'.segs, kern, k2, kind, pages(a, n), dis, "V")
  BY <1>1, <1>2, <1>3, <1>4, <1>5, Before, MapPages
<1>7. kern' \in KernelMaps /\ \A p \in Addr : PageStep(am.segs, am'.segs, kern', pages(a, n), dis, p)
  BY <1>4, <1>6 DEF Taken
<1>8. /\ MatchesKernel' /\ NothingClobbered'
      /\ (~CrossSegments => NoStaleTranslation /\ FromMarkedPages)'
  BY <1>2, <1>3, <1>4, <1>7, CarryPages
<1>9. Own' = Own \cup pages(a, n)
  <2> DEFINE new == <<a, n, kind>>
  <2>1. new[1] = a /\ new[2] = n
    OBVIOUS
  <2>2. Own' = UNION {pages(m[1], m[2]) : m \in vmaps'}
    BY DEF Own, pages
  <2> HIDE DEF new
  <2>3. vmaps' = vmaps \cup {new}
    BY DEF new
  <2>4. ASSUME NEW p PROVE p \in Own' <=> p \in Own \/ p \in pages(a, n)
    BY <2>1, <2>2, <2>3 DEF Own
  <2> QED
    BY <2>4
<1>10. \A p \in Addr : At(am'.segs, p).kind \in VKinds <=> p \in Own'
  BY <1>4, <1>6, <1>9, OwnPages DEF OwnStep, Taken
<1>11. \A p \in Own' : p \in Addr /\ kern'[p] # Hole /\ kern'[p].owner = "V"
  <2>1. \A p \in Own : p \in Addr /\ kern[p] # Hole /\ kern[p].owner = "V"
    BY Before DEF ValgrindKeepsItsPages, Own
  <2>2. ASSUME NEW p \in Own, p \notin pages(a, n) PROVE kern'[p] # Hole /\ kern'[p].owner = "V"
    BY <1>4, <1>6, <2>1, <2>2, OwnPages DEF OwnStep, Taken
  <2> QED
    BY <1>4, <1>6, <1>9, <2>1, <2>2 DEF Taken
<1>12. ValgrindKeepsItsPages'
  <2>1. {p \in Addr : At(am'.segs, p).kind \in VKinds} = Own'
    BY <1>10, <1>11
  <2> QED
    BY <1>11, <2>1 DEF ValgrindKeepsItsPages, segment_at, At, Own
<1>13. OwnRanges'
  <2>1. ASSUME NEW m \in vmaps PROVE pages(m[1], m[2]) \cap pages(a, n) = {}
    <3>1. \A p \in pages(m[1], m[2]) : p \in Own
      BY DEF Own
    <3> QED
      BY <3>1, OwnPages, KindsApart
  <2>2. \A m \in vmaps' : m \in vmaps \/ (m[1] = a /\ m[2] = n /\ m = <<a, n, kind>>)
    OBVIOUS
  <2>3. ASSUME NEW m \in vmaps' PROVE m[1] \in Addr /\ m[2] \in Nat \ {0} /\ m[1] + m[2] - 1 \in Addr
    BY <1>1, <2>2, Before DEF OwnRanges
  <2>4. ASSUME NEW m1 \in vmaps', NEW m2 \in vmaps', m1 # m2
        PROVE  pages(m1[1], m1[2]) \cap pages(m2[1], m2[2]) = {}
    BY <2>1, <2>2, <2>4, Before DEF OwnRanges
  <2> QED
    BY <2>3, <2>4 DEF OwnRanges
<1>14. BrkInRange'
  BY Before, BrkStays
<1> QED
  BY <1>2, <1>3, <1>7, <1>8, <1>12, <1>13, <1>14 DEF AInv, KernelMaps

LEMMA ValgrindFloats ==
  ASSUME AInv, NEW n \in Lens, NEW kind \in VKinds, mmap_float_valgrind(n, kind)
  PROVE  AInv' \/ \E where : Dies(where)
PROOF
<1> DEFINE forClient == kind = "SkFileV"
           adv == am_get_advisory(am.segs, "MAny", 0, n, forClient)
           file == IF kind = "SkFileV" THEN ExeFile ELSE NoFile
           prot == IF kind = "SkFileV" THEN {"R"} ELSE RWX
           a == adv.addr
<1>1. \/ Dies("hole")
      \/ /\ adv.ok
         /\ am' = record_mapping(am, kind, a, n, prot, file, 0)
         /\ Memory(kmap(kern, a, n, file, 0, prot, "V"), pages(a, n), {})
         /\ clobbered' = clobbered \cup {p \in pages(a, n) : kern[p] # Hole}
         /\ vmaps' = vmaps \cup {<<a, n, kind>>}
         /\ brk' = brk
  BY DEF mmap_float_valgrind
<1>2. CASE /\ adv.ok
           /\ am' = record_mapping(am, kind, a, n, prot, file, 0)
           /\ Memory(kmap(kern, a, n, file, 0, prot, "V"), pages(a, n), {})
           /\ clobbered' = clobbered \cup {p \in pages(a, n) : kern[p] # Hole}
           /\ vmaps' = vmaps \cup {<<a, n, kind>>}
           /\ brk' = brk
  <2>1. n \in Nat /\ n # 0
    BY RequestAssumption
  <2>2. /\ a \in Addr /\ a + n - 1 \in Addr
        /\ \A p \in pages(a, n) : p \in Addr /\ At(am.segs, p).kind \in Vacant
    <3>1. forClient \in BOOLEAN /\ adv = am_get_advisory(am.segs, "MAny", 0, n, forClient) /\ adv.ok
      BY <1>2
    <3> HIDE DEF forClient, adv
    <3> QED
      BY <2>1, <3>1, Before, FloatingAdvice
  <2>3. /\ prot \in SUBSET RWX
        /\ kind \in FileKinds => file \in Files
        /\ kind \notin FileKinds => file = NoFile
    BY LayoutAssumption DEF RWX, FileKinds, VKinds
  <2> HIDE DEF adv, a, prot, file
  <2>4. clobbered' = {}
    BY <1>2, <2>2, Before, VacantIsHole
  <2> QED
    BY <1>2, <2>1, <2>2, <2>3, <2>4, ValgrindMaps
<1> QED
  BY <1>1, <1>2

(* VG_(am_munmap_valgrind) *)
LEMMA ValgrindUnmaps ==
  ASSUME AInv, NEW m \in vmaps, am_munmap_valgrind(m)
  PROVE  AInv' \/ \E where : Dies(where)
PROOF
<1> DEFINE a == m[1]
           n == m[2]
           k2 == kunmap(kern, a, n)
           dis == {}
<1>1. \/ Dies("munmap_valgrind")
      \/ /\ am' = am_notify_munmap(am, a, n) /\ Memory(k2, pages(a, n), dis)
         /\ vmaps' = vmaps \ {m} /\ brk' = brk /\ clobbered' = clobbered
  BY DEF am_munmap_valgrind
<1>2. CASE /\ am' = am_notify_munmap(am, a, n) /\ Memory(k2, pages(a, n), dis)
           /\ vmaps' = vmaps \ {m} /\ brk' = brk /\ clobbered' = clobbered
  <2>1. a \in Addr /\ n \in Nat \ {0} /\ a + n - 1 \in Addr
    BY Before DEF OwnRanges
  <2>2. k2 = kunmap(kern, a, n) /\ kern' = k2 /\ Memory(kern', pages(a, n), dis)
    BY <1>2 DEF Memory
  <2>3. \A p \in pages(a, n) : p \in Own /\ p \in Addr /\ At(am.segs, p).kind \in VKinds
    <3>1. \A p \in pages(a, n) : p \in Own
      BY DEF Own
    <3>2. \A p \in Own : p \in Addr
      BY Before DEF Own, ValgrindKeepsItsPages
    <3> QED
      BY <3>1, <3>2, OwnPages
  <2>4. ASSUME NEW x \in vmaps, x # m PROVE pages(x[1], x[2]) \cap pages(a, n) = {}
    BY <2>4, Before DEF OwnRanges
  <2>5. \A p : p \in Own' <=> p \in Own /\ p \notin pages(a, n)
    <3>1. Own' = UNION {pages(x[1], x[2]) : x \in vmaps'}
      BY DEF Own, pages
    <3>2. \A p : p \in Own <=> \E x \in vmaps : p \in pages(x[1], x[2])
      BY DEF Own
    <3>3. \A p : p \in Own' <=> \E x \in vmaps' : p \in pages(x[1], x[2])
      BY <3>1
    <3> QED
      BY <1>2, <2>4, <3>2, <3>3
  <2>6. Discards(am.segs, pages(a, n), dis)
    BY <2>3, KindsApart DEF Discards
  <2> HIDE DEF a, n, k2, dis
  <2>7. IsSpace(am') /\ Neat(am'.segs) /\ Vacated(am.segs, am'.segs, a, a + n - 1)
    BY <1>2, <2>1, Before, NotifyMunmap
  <2>8. Preened(am'.segs) /\ Covers(am'.segs)
    BY <2>7, NeatIsPreened DEF IsSpace
  <2>9. /\ kern' \in KernelMaps
        /\ \A p \in Addr :
             /\ PageStep(am.segs, am'.segs, kern', pages(a, n), dis, p)
             /\ p \notin pages(a, n) => OwnStep(am.segs, am'.segs, kern, kern', p)
             /\ p \in pages(a, n) => At(am'.segs, p).kind \in Vacant
    BY <2>2, <2>6, <2>7, <2>8, Before, VacatePages
  <2>10. /\ MatchesKernel' /\ NothingClobbered'
         /\ (~CrossSegments => NoStaleTranslation /\ FromMarkedPages)'
    <3>1. clobbered' = {} /\ \A p \in Addr : PageStep(am.segs, am'.segs, kern', pages(a, n), dis, p)
      BY <1>2, <2>9, Before
    <3> QED
      BY <2>2, <2>7, <2>8, <2>9, <3>1, CarryPages
  <2>11. ValgrindKeepsItsPages'
    <3>1. \A p \in Own : p \in Addr /\ kern[p] # Hole /\ kern[p].owner = "V"
      BY Before DEF ValgrindKeepsItsPages, Own
    <3>2. \A p \in Own' : p \in Addr /\ kern'[p] # Hole /\ kern'[p].owner = "V"
      BY <2>5, <2>9, <3>1, OwnPages DEF OwnStep
    <3>3. \A p \in Addr : At(am'.segs, p).kind \in VKinds <=> p \in Own'
      BY <2>5, <2>9, OwnPages, KindsApart DEF OwnStep
    <3>4. {p \in Addr : At(am'.segs, p).kind \in VKinds} = Own'
      BY <3>2, <3>3
    <3> QED
      BY <3>2, <3>4 DEF ValgrindKeepsItsPages, segment_at, At, Own
  <2>12. OwnRanges' /\ BrkInRange'
    BY <1>2, Before, BrkStays DEF OwnRanges
  <2> QED
    BY <2>7, <2>8, <2>9, <2>10, <2>11, <2>12 DEF AInv, KernelMaps
<1> QED
  BY <1>1, <1>2

-----------------------------------------------------------------------------
(* VG_(translate) *)

(* The segments of both extents are marked. *)
LEMMA MarkExtents ==
  ASSUME AInv, NEW a \in Addr, NEW b \in Addr, NEW out, out = mark_extents(am.segs, a, b)
  PROVE  /\ Covers(out) /\ AllSound(am.names, out) /\ Preened(out) /\ Same(am.segs, out)
         /\ \A p \in Addr : find_nsegment_idx(out, p) = find_nsegment_idx(am.segs, p)
         /\ At(am.segs, a).kind \in CodeKinds => At(out, a).hasT
         /\ At(am.segs, b).kind \in CodeKinds => At(out, b).hasT
PROOF
<1> DEFINE mid == am_set_hasT(am.segs, a)
<1>1. mid = am_set_hasT(am.segs, a) /\ out = am_set_hasT(mid, b)
  BY DEF mark_extents
<1> HIDE DEF mid
<1>2. /\ Covers(mid) /\ AllSound(am.names, mid) /\ Preened(mid) /\ Same(am.segs, mid)
      /\ \A p \in Addr : find_nsegment_idx(mid, p) = find_nsegment_idx(am.segs, p)
      /\ At(am.segs, a).kind \in CodeKinds => At(mid, a).hasT
  BY <1>1, Before, SetHasT DEF CodeKinds
<1>3. /\ Covers(out) /\ AllSound(am.names, out) /\ Preened(out) /\ Same(mid, out)
      /\ \A p \in Addr : find_nsegment_idx(out, p) = find_nsegment_idx(mid, p)
      /\ At(mid, b).kind \in CodeKinds => At(out, b).hasT
  BY <1>1, <1>2, SetHasT DEF CodeKinds
<1>4. Same(am.segs, out)
  BY <1>2, <1>3, LikeTrans DEF Same
<1>5. At(am.segs, b).kind = At(mid, b).kind /\ (At(mid, a).hasT => At(out, a).hasT)
  BY <1>2, <1>3 DEF Same, Like
<1> QED
  BY <1>2, <1>3, <1>4, <1>5

LEMMA Translates ==
  ASSUME AInv, NEW a \in Starts, NEW b \in Starts, NEW n \in Lens, translate(a, n, b)
  PROVE  AInv'
PROOF
<1> DEFINE out == mark_extents(am.segs, a, b)
           block == pages(a, n) \cup {b}
<1>1. a \in Addr /\ b \in Addr /\ n \in Nat /\ n # 0 /\ a + n - 1 \in Addr
  BY RequestRange
<1>2. /\ At(am.segs, a).kind \in CodeKinds /\ At(am.segs, b).kind \in CodeKinds
      /\ CrossSegments \/ Cardinality(segments_of(am.segs, a, n)) = 1
      /\ am' = [am EXCEPT !.segs = out]
      /\ trans' = trans \cup {block}
      /\ kern' = kern /\ brk' = brk /\ stale' = stale /\ vmaps' = vmaps /\ clobbered' = clobbered
  BY DEF translate, chase_into_ok, translations_allowable_from_seg, At, CodeKinds
<1>3. out = mark_extents(am.segs, a, b)
  OBVIOUS
<1>4. am'.segs = out /\ am'.names = am.names /\ DOMAIN am' = {"segs", "names"}
  BY <1>2, Before DEF IsSpace
<1> HIDE DEF out
<1>5. /\ Covers(out) /\ AllSound(am.names, out) /\ Preened(out) /\ Same(am.segs, out)
      /\ \A p \in Addr : find_nsegment_idx(out, p) = find_nsegment_idx(am.segs, p)
      /\ At(out, a).hasT /\ At(out, b).hasT
  BY <1>1, <1>2, <1>3, MarkExtents
<1>6. IsSpace(am') /\ Preened(am'.segs)
  BY <1>4, <1>5, Before DEF IsSpace, AllSound
<1>7. ASSUME NEW p \in Addr
      PROVE  PageStep(am.segs, out, kern', {}, {}, p) /\ OwnStep(am.segs, out, kern, kern', p)
  <2> DEFINE none == {}
  <2>1. p \notin none /\ MatchAt(At(am.segs, p), p, kern[p]) /\ Like(At(am.segs, p), At(out, p)) /\ kern'[p] = kern[p]
    BY <1>2, <1>5, Before DEF Agree, Same
  <2> HIDE DEF none
  <2>2. PageStep(am.segs, out, kern', none, none, p) /\ OwnStep(am.segs, out, kern, kern', p)
    BY <1>5, <2>1, Before, Untouched
  <2> QED
    BY <2>2 DEF none
<1>8. MatchesKernel' /\ NothingClobbered'
  BY <1>2, <1>4, <1>7, Before DEF MatchesKernel, NothingClobbered, segment_at, PageStep, At
<1>9. ValgrindKeepsItsPages' /\ OwnRanges' /\ BrkInRange'
  BY <1>2, <1>4, <1>7, CarryOwn, Before, BrkStays
<1>10. ASSUME ~CrossSegments PROVE NoStaleTranslation' /\ FromMarkedPages'
  <2>1. /\ stale = {}
        /\ \A e \in trans : \A p \in e : p \in Addr /\ At(am.segs, p).kind \in CodeKinds /\ At(am.segs, p).hasT
    BY <1>10 DEF AInv, NoStaleTranslation, FromMarkedPages, segment_at, At
  <2>2. \A e \in trans : \A p \in e : p \in Addr /\ At(out, p).kind \in CodeKinds /\ At(out, p).hasT
    BY <1>5, <2>1 DEF Same, Like
  <2>3. ASSUME NEW p \in pages(a, n)
        PROVE  p \in Addr /\ At(out, p).kind \in CodeKinds /\ At(out, p).hasT
    <3>1. p \in Addr
      BY <1>1, Before, SegmentsOfRange
    <3>2. find_nsegment_idx(am.segs, p) = find_nsegment_idx(am.segs, a)
      BY <1>1, <1>2, <1>10, Before, OneSegment
    <3>3. At(out, p) = At(out, a)
      BY <1>1, <1>5, <3>1, <3>2 DEF At
    <3> QED
      BY <1>1, <1>2, <1>5, <3>1, <3>3 DEF Same, Like
  <2>4. b \in Addr /\ At(out, b).kind \in CodeKinds /\ At(out, b).hasT
    BY <1>1, <1>2, <1>5 DEF Same, Like
  <2>5. \A e \in trans' : \A p \in e : p \in Addr /\ At(am'.segs, p).kind \in CodeKinds /\ At(am'.segs, p).hasT
    BY <1>2, <1>4, <2>2, <2>3, <2>4
  <2> QED
    BY <1>2, <2>1, <2>5 DEF NoStaleTranslation, FromMarkedPages, segment_at, At
<1>11. kern' \in KernelMaps
  BY <1>2, Before
<1> QED
  BY <1>6, <1>8, <1>9, <1>10, <1>11 DEF AInv, KernelMaps

-----------------------------------------------------------------------------
(* Startup *)

Image == pages(ImagePage, 2)

(* The pages of the image are Valgrind's, and no others. *)
Stage(m, k) ==
  /\ IsSpace(m) /\ k \in KernelMaps /\ Agree(m.segs, k)
  /\ \A p \in Addr : IF p \in Image THEN At(m.segs, p).kind = "SkFileV" /\ k[p].owner = "V"
                     ELSE At(m.segs, p).kind \notin VKinds

(* The client's first mappings are of one page each. *)
LEMMA StageMaps ==
  ASSUME NEW m, NEW k, Stage(m, k), NEW kind \in CodeKinds, NEW a \in Addr, a \notin Image,
         NEW prot \in SUBSET RWX, NEW file, kind \in FileKinds => file \in Files,
         kind \notin FileKinds => file = NoFile,
         NEW m2, m2 = record_mapping(m, kind, a, 1, prot, file, 0),
         NEW k2, k2 = kmap(k, a, 1, file, 0, prot, "C")
  PROVE  Stage(m2, k2) /\ Neat(m2.segs)
PROOF
<1> DEFINE n == 1
           dis == Addr
<1>1. /\ kind \in MappedKinds /\ kind # "SkShmC" /\ kind \notin VKinds /\ a \in Int
      /\ n \in Nat /\ n # 0 /\ n \in Nat \ {0} /\ a + n - 1 \in Addr /\ 0 \in Int
  BY KindsApart, PageAssumption DEF CodeKinds, VKinds, Addr
<1>2. pages(a, n) = {a}
  BY <1>1 DEF pages
<1>3. Discards(m.segs, pages(a, n), dis)
  BY <1>2 DEF Discards
<1>4. Covers(m.segs) /\ IsSpace(m) /\ k \in KernelMaps /\ Agree(m.segs, k)
  BY DEF Stage, IsSpace
<1>5. /\ m2 = record_mapping(m, kind, a, n, prot, file, 0)
      /\ k2 = kmap(k, a, n, file, 0, prot, "C") /\ "C" \in Owners
  BY DEF Owners
<1> HIDE DEF n, dis
<1>6. IsSpace(m2) /\ Neat(m2.segs) /\ Mapped(m.segs, m2.segs, kind, a, n, prot, file, 0)
  BY <1>1, <1>4, <1>5, RecordMapping
<1>7. Covers(m2.segs)
  BY <1>6 DEF IsSpace
<1>8. k2 \in KernelMaps /\ Taken(m.segs, m2.segs, k, k2, kind, pages(a, n), dis, "C")
  BY <1>1, <1>3, <1>4, <1>5, <1>6, <1>7, MapPages
<1>9. Agree(m2.segs, k2)
  BY <1>8 DEF Agree, Taken, PageStep
<1>10. ASSUME NEW p \in Addr, p # a
       PROVE  At(m2.segs, p).kind = At(m.segs, p).kind /\ k2[p] = k[p]
  <2>1. PICK s : IsMapping(s, kind, a, n, prot, file, 0) /\ Placed(m.segs, m2.segs, s)
    BY <1>6 DEF Mapped
  <2>2. p \notin s.start .. s.end
    BY <1>2, <1>10, <2>1 DEF IsMapping, pages
  <2> QED
    BY <1>2, <1>5, <1>10, <2>1, <2>2 DEF Placed, Like, kmap
<1>11. At(m2.segs, a).kind = kind
  BY <1>2, <1>8 DEF Taken
<1> QED
  BY <1>1, <1>6, <1>8, <1>9, <1>10, <1>11 DEF Stage

LEMMA StageReserves ==
  ASSUME NEW m, NEW k, Stage(m, k), NEW m2, IsSpace(m2), Reserved(m.segs, m2.segs)
  PROVE  Stage(m2, k)
PROOF
<1>1. Covers(m.segs) /\ Covers(m2.segs) /\ Agree(m.segs, k)
  BY DEF Stage, IsSpace
<1>2. ASSUME NEW p \in Addr
      PROVE  /\ MatchAt(At(m2.segs, p), p, k[p])
             /\ At(m2.segs, p).kind = At(m.segs, p).kind \/ 
                (At(m.segs, p).kind \in Vacant /\ At(m2.segs, p).kind \in Vacant)
  <2>1. CASE Like(At(m.segs, p), At(m2.segs, p))
    <3>1. MatchAt(At(m.segs, p), p, k[p])
      BY <1>1 DEF Agree
    <3> QED
      BY <1>1, <2>1, <3>1, AtTyped, MatchLike DEF Like
  <2>2. CASE At(m.segs, p).kind \in Vacant /\ At(m2.segs, p).kind \in Vacant
    BY <1>1, <2>2, VacantIsHole DEF MatchAt
  <2> QED
    BY <2>1, <2>2 DEF Reserved
<1>3. "SkFileV" \notin Vacant /\ Vacant \cap VKinds = {}
  BY KindsApart DEF Vacant
<1> QED
  BY <1>2, <1>3 DEF Stage, Agree

-----------------------------------------------------------------------------
(* VG_(am_startup) *)

Empty(m) == IsSpace(m) /\ \A p \in Addr : At(m.segs, p).kind \in Vacant

LEMMA EmptyReserves ==
  ASSUME NEW m, Empty(m), NEW a \in Addr, NEW b \in Addr, a <= b
  PROVE  Empty(add_segment(m, init_nsegment("SkResvn", a, b)))
PROOF
<1> DEFINE kind == "SkResvn"
           s == init_nsegment(kind, a, b)
           out == add_segment(m, s)
<1>1. kind \in Vacant /\ kind \in MappedKinds \cup Vacant /\ kind = "SkResvn" /\ a \in Int /\ b \in Int
  BY PageAssumption DEF Vacant, Addr
<1> HIDE DEF kind
<1>2. IsInit(s, kind, a, b) /\ s.prot = {}
  BY <1>1, InitNSegment
<1> HIDE DEF s
<1>3. IsSpace(out) /\ Vacated(m.segs, out.segs, a, b)
  BY <1>1, <1>2, AddVacant DEF Empty
<1>4. Empty(out)
  BY <1>3 DEF Empty, Vacated, Like
<1> QED
  BY <1>4 DEF kind, s

(* All of the address space is free, and there are no names. *)
LEMMA EmptyAtFirst ==
  Empty([segs |-> <<init_nsegment("SkFree", 0, P - 1)>>, names |-> <<>>])
PROOF
<1> DEFINE s == init_nsegment("SkFree", 0, P - 1)
           segs == <<s>>
           m == [segs |-> segs, names |-> <<>>]
<1>1. P \in Nat /\ P - 1 \in Int /\ 0 \in Int /\ 0 <= P - 1 /\ 0 \in Addr /\ P - 1 \in Addr
  BY PageAssumption DEF Addr
<1>2. "SkFree" \in MappedKinds \cup Vacant /\ "SkFree" \in Vacant /\ "SkFree" \notin FileKinds
  BY DEF Vacant, FileKinds
<1>3. IsInit(s, "SkFree", 0, P - 1) /\ s.prot = {} /\ s.smode = "SmFixed"
  <2> DEFINE kind == "SkFree"
             b == P - 1
             z == 0
  <2>1. kind \in MappedKinds \cup Vacant /\ b \in Int /\ z \in Int
    BY <1>1, <1>2
  <2> HIDE DEF kind, b, z
  <2>2. /\ IsInit(init_nsegment(kind, z, b), kind, z, b)
        /\ init_nsegment(kind, z, b).prot = {} /\ init_nsegment(kind, z, b).smode = "SmFixed"
    BY <2>1, InitNSegment
  <2> QED
    BY <2>2 DEF kind, b, z
<1> HIDE DEF s
<1>4. s \in NSegment /\ s.start = 0 /\ s.end = P - 1 /\ s.kind = "SkFree"
  BY <1>3 DEF IsInit
<1>5. Len(segs) = 1 /\ segs[1] = s /\ segs \in Seq(NSegment) /\ segs # <<>>
  BY <1>4
<1> HIDE DEF segs
<1>6. Covers(segs)
  BY <1>1, <1>4, <1>5 DEF Covers, Tiles
<1>7. IsNames(<<>>)
  <2>1. <<>> \in [0 .. 0 - 1 -> Files \cup {NoFile}]
    <3>1. 0 .. 0 - 1 = {} /\ DOMAIN <<>> = {}
      OBVIOUS
    <3>2. <<>> = [x \in {} |-> NoFile]
      OBVIOUS
    <3> QED
      BY <3>1, <3>2
  <2> QED
    BY <2>1, NamesLength
<1>8. Sound(<<>>, s)
  <2>1. s.end \in s.start .. P - 1 /\ s.start \in Addr
    BY <1>1, <1>4
  <2> QED
    BY <1>2, <1>3, <1>4, <2>1 DEF Sound, sane_NSegment, IsInit
<1>9. m.segs = segs /\ m.names = <<>> /\ DOMAIN m = {"segs", "names"}
  OBVIOUS
<1> HIDE DEF m
<1>10. IsSpace(m)
  <2>1. ASSUME NEW i \in 1 .. Len(m.segs) PROVE Sound(m.names, m.segs[i])
    <3>1. m.segs = segs /\ Len(segs) = 1
      BY <1>5, <1>9, Zenon
    <3>2. i = 1
      BY <3>1
    <3>3. m.segs[i] = s
      BY <1>5, <3>1, <3>2
    <3> QED
      BY <1>8, <1>9, <3>3, Zenon
  <2>2. Covers(m.segs)
    BY <1>6, <1>9
  <2>3. IsNames(m.names)
    BY <1>7, <1>9, Zenon
  <2> QED
    BY <1>9, <2>1, <2>2, <2>3 DEF IsSpace
<1>11. ASSUME NEW p \in Addr PROVE At(m.segs, p).kind \in Vacant
  <2>1. find_nsegment_idx(segs, p) \in 1 .. Len(segs)
    BY <1>6, Found
  <2>2. find_nsegment_idx(segs, p) = 1
    BY <1>5, <2>1
  <2> QED
    BY <1>2, <1>4, <1>5, <1>9, <2>2 DEF At
<1>12. Empty(m)
  BY <1>10, <1>11 DEF Empty
<1> QED
  BY <1>12 DEF m, segs, s

LEMMA Startup ==
  Stage(am_startup, kmap([p \in Addr |-> Hole], ImagePage, 2, ImageFile, 0, RX, "V"))
PROOF
<1> DEFINE all == [segs |-> <<init_nsegment("SkFree", 0, P - 1)>>, names |-> <<>>]
           low == add_segment(all, init_nsegment("SkResvn", 0, aspacem_minAddr - 1))
           high == add_segment(low, init_nsegment("SkResvn", aspacem_maxAddr + 1, P - 1))
           bound == add_segment(high, init_nsegment("SkResvn", aspacem_vStart, aspacem_vStart))
           kind == "SkFileV"
           n == 2
           k == [p \in Addr |-> Hole]
           k2 == kmap(k, ImagePage, n, ImageFile, 0, RX, "V")
           out == am_startup
           dis == {}
<1>1. /\ 0 \in Addr /\ aspacem_minAddr - 1 \in Addr /\ 0 <= aspacem_minAddr - 1
      /\ aspacem_maxAddr + 1 \in Addr /\ P - 1 \in Addr /\ aspacem_maxAddr + 1 <= P - 1
      /\ aspacem_vStart \in Addr /\ aspacem_vStart <= aspacem_vStart
  BY PageAssumption DEF Addr, aspacem_vStart
<1>2. Empty(bound)
  <2>1. Empty(all)
    BY EmptyAtFirst
  <2> HIDE DEF all
  <2>2. Empty(low)
    BY <1>1, <2>1, EmptyReserves
  <2> HIDE DEF low
  <2>3. Empty(high)
    BY <1>1, <2>2, EmptyReserves
  <2> HIDE DEF high
  <2> QED
    BY <1>1, <2>3, EmptyReserves
<1>3. out = record_mapping(bound, kind, ImagePage, n, RX, ImageFile, 0)
  BY DEF am_startup
<1> HIDE DEF bound, out
<1>4. /\ ImagePage \in Addr /\ ImagePage \in Int /\ ImagePage + n - 1 \in Addr /\ n \in Nat /\ n # 0 /\ n \in Nat \ {0}
      /\ 0 \in Int /\ ImageFile \in Files /\ RX \in SUBSET RWX
      /\ kind \in MappedKinds /\ kind # "SkShmC" /\ kind \in FileKinds /\ kind \in VKinds
      /\ Image = pages(ImagePage, n) /\ kind = "SkFileV" /\ "V" \in Owners
  <2>1. ImagePage + 2 - 1 \in pages(ImagePage, 2)
    BY LayoutAssumption, PageAssumption DEF pages, Addr
  <2> QED
    BY <2>1, LayoutAssumption, PageAssumption DEF Addr, RX, RWX, MappedKinds, FileKinds, VKinds, Image, Owners
<1>5. Covers(bound.segs) /\ IsSpace(bound) /\ \A p \in Addr : At(bound.segs, p).kind \in Vacant
  BY <1>2 DEF Empty, IsSpace
<1>6. k \in KernelMaps /\ Agree(bound.segs, k) /\ Discards(bound.segs, pages(ImagePage, n), dis)
  <2>1. \A p \in pages(ImagePage, n) : p \in Addr
    BY <1>4, LayoutAssumption DEF Image
  <2> QED
    BY <1>5, <2>1, VacantHasNoTs DEF KernelMaps, Agree, MatchAt
<1>7. k2 = kmap(k, ImagePage, n, ImageFile, 0, RX, "V")
  OBVIOUS
<1> HIDE DEF kind, n, k, k2, dis
<1>8. IsSpace(out) /\ Mapped(bound.segs, out.segs, kind, ImagePage, n, RX, ImageFile, 0)
  BY <1>3, <1>4, <1>5, RecordMapping
<1>9. Covers(out.segs)
  BY <1>8 DEF IsSpace
<1>10. k2 \in KernelMaps /\ Taken(bound.segs, out.segs, k, k2, kind, pages(ImagePage, n), dis, "V")
  BY <1>4, <1>5, <1>6, <1>7, <1>8, <1>9, MapPages
<1>11. Agree(out.segs, k2)
  BY <1>10 DEF Agree, Taken, PageStep
<1>12. ASSUME NEW p \in Addr
       PROVE  IF p \in Image THEN At(out.segs, p).kind = "SkFileV" /\ k2[p].owner = "V"
              ELSE At(out.segs, p).kind \notin VKinds
  BY <1>4, <1>5, <1>10, KindsApart DEF Taken, OwnStep
<1>13. Stage(out, k2)
  BY <1>8, <1>10, <1>11, <1>12 DEF Stage
<1> QED
  BY <1>13 DEF out, k2, k, n

(* setup_client_stack *)
LEMMA StackStage ==
  ASSUME NEW m, NEW k, Stage(m, k)
  PROVE  Stage(setup_client_stack(m), kmap(k, StackEnd, 1, NoFile, 0, RWX, "C"))
PROOF
<1> DEFINE a == StackEnd + 1 - StackPages
           n == StackPages - 1
           smode == "SmUpper"
           r == am_create_reservation(m, a, n, smode, 1)
           kind == "SkAnonC"
           file == NoFile
           prot == RWX
           out == setup_client_stack(m)
           k2 == kmap(k, StackEnd, 1, file, 0, prot, "C")
<1>1. /\ a \in Addr /\ n \in Nat /\ n # 0 /\ a + n - 1 \in Addr /\ a + n \in Addr
      /\ smode \in {"SmLower", "SmUpper"} /\ StackEnd \in Addr /\ StackEnd \notin Image
  BY LayoutAssumption, PageAssumption DEF Addr, Image
<1>2. r = am_create_reservation(m, a, n, smode, 1) /\ IsSpace(m)
  BY DEF Stage
<1>3. out = record_mapping(r.am, kind, StackEnd, 1, prot, file, 0)
  BY DEF setup_client_stack
<1>4. kind \in CodeKinds /\ kind \notin FileKinds /\ prot \in SUBSET RWX /\ file = NoFile
  BY DEF CodeKinds, FileKinds
<1>5. IsSpace(r.am) /\ Reserved(m.segs, r.am.segs)
  <2> HIDE DEF a, n, smode, r
  <2> QED
    BY <1>1, <1>2, CreateReservation
<1> HIDE DEF r, out
<1>6. Stage(r.am, k)
  BY <1>5, StageReserves
<1>7. k2 = kmap(k, StackEnd, 1, file, 0, prot, "C")
  OBVIOUS
<1> HIDE DEF kind, prot, file, k2
<1>8. Stage(out, k2)
  BY <1>1, <1>3, <1>4, <1>6, <1>7, StageMaps
<1> QED
  BY <1>8 DEF out, k2, prot, file

(* Where the data segment may begin. *)
IsBase(m, b) ==
  /\ b \in Addr /\ b \notin Image /\ b + DsegPages <= P
  /\ b + DsegPages \in Addr \/ \A p \in pages(b, DsegPages) : At(m.segs, p).kind \in Vacant

LEMMA DatasegBase ==
  ASSUME NEW m, NEW k, Stage(m, k)
  PROVE  IsBase(m, setup_client_dataseg(m).base)
PROOF
<1> DEFINE forClient == TRUE
           adv == am_get_advisory(m.segs, "MAny", 0, DsegPages, forClient)
           b == setup_client_dataseg(m).base
<1> SUFFICES IsBase(m, b)
  OBVIOUS
<1>1. b = BrkBase \/ b = adv.addr
  BY DEF setup_client_dataseg
<1>2. /\ DsegPages \in Nat /\ DsegPages # 0 /\ P \in Nat /\ DsegPages <= P - 1
      /\ 0 \in Addr /\ BrkBase \in Addr /\ BrkBase + DsegPages < P /\ 0 \notin Image /\ BrkBase \notin Image
  BY LayoutAssumption, PageAssumption DEF Image
<1>3. CASE b = BrkBase
  BY <1>2, <1>3 DEF IsBase, Addr
<1>4. CASE b = adv.addr /\ adv.ok
  <2>1. forClient \in BOOLEAN /\ adv = am_get_advisory(m.segs, "MAny", 0, DsegPages, forClient) /\ adv.ok
        /\ b = adv.addr /\ Covers(m.segs)
    BY <1>4 DEF Stage, IsSpace
  <2> HIDE DEF forClient, adv, b
  <2>2. /\ adv.addr \in Addr /\ adv.addr + DsegPages - 1 \in Addr
        /\ \A p \in pages(adv.addr, DsegPages) : p \in Addr /\ At(m.segs, p).kind \in Vacant
    BY <1>2, <2>1, FloatingAdvice
  <2>3. b \in Addr /\ b + DsegPages <= P /\ b \in pages(b, DsegPages)
        /\ \A p \in pages(b, DsegPages) : At(m.segs, p).kind \in Vacant
    BY <1>2, <2>1, <2>2 DEF Addr, pages
  <2>4. b \notin Image
    BY <2>3 DEF Stage, Vacant
  <2> QED
    BY <2>3, <2>4 DEF IsBase
<1>5. CASE b = adv.addr /\ ~adv.ok
  <2>1. adv = am_get_advisory(m.segs, "MAny", 0, DsegPages, forClient) /\ ~adv.ok /\ b = adv.addr
    BY <1>5
  <2> HIDE DEF forClient, adv, b
  <2>2. b = 0
    BY <2>1, NoAdvice
  <2> QED
    BY <1>2, <2>2 DEF IsBase, Addr
<1> QED
  BY <1>1, <1>3, <1>4, <1>5

(* setup_client_dataseg *)
LEMMA DatasegStage ==
  ASSUME NEW m, NEW k, Stage(m, k), NEW d, d = setup_client_dataseg(m)
  PROVE  Stage(d.am, kmap(k, d.base, 1, NoFile, 0, RWX, "C"))
PROOF
<1> DEFINE b == d.base
           a == b + 1
           n == DsegPages - 1
           smode == "SmLower"
           r == am_create_reservation(m, a, n, smode, 1)
           kind == "SkAnonC"
           file == NoFile
           prot == RWX
           out == d.am
           k2 == kmap(k, b, 1, file, 0, prot, "C")
<1>1. out = record_mapping(r.am, kind, b, 1, prot, file, 0)
  BY DEF setup_client_dataseg
<1>2. IsBase(m, b)
  BY DatasegBase
<1> HIDE DEF b
<1>3. /\ b \in Addr /\ b \notin Image /\ b + DsegPages <= P
      /\ b + DsegPages \in Addr \/ \A p \in pages(b, DsegPages) : At(m.segs, p).kind \in Vacant
  BY <1>2 DEF IsBase
<1>4. DsegPages \in Nat /\ DsegPages >= 2 /\ P \in Nat
  BY LayoutAssumption, PageAssumption
<1>5. /\ a \in Addr /\ n \in Nat /\ n # 0 /\ a + n - 1 \in Addr
      /\ smode \in {"SmLower", "SmUpper"}
  BY <1>3, <1>4 DEF Addr
<1>6. a + n \in Addr \/ \A p \in pages(a, n) : At(m.segs, p).kind \in Vacant
  <2>1. b \in Int /\ a + n = b + DsegPages
    BY <1>3, <1>4 DEF Addr
  <2>2. pages(a, n) \subseteq pages(b, DsegPages)
    BY <1>4, <2>1 DEF pages
  <2> QED
    BY <1>3, <2>1, <2>2
<1>7. r = am_create_reservation(m, a, n, smode, 1) /\ IsSpace(m)
  BY DEF Stage
<1>8. kind \in CodeKinds /\ kind \notin FileKinds /\ prot \in SUBSET RWX /\ file = NoFile
  BY DEF CodeKinds, FileKinds
<1>9. IsSpace(r.am) /\ Reserved(m.segs, r.am.segs)
  <2> HIDE DEF a, n, smode, r
  <2> QED
    BY <1>5, <1>6, <1>7, CreateReservation
<1> HIDE DEF r, out
<1>10. Stage(r.am, k)
  BY <1>9, StageReserves
<1>11. k2 = kmap(k, b, 1, file, 0, prot, "C")
  OBVIOUS
<1> HIDE DEF kind, prot, file, k2
<1>12. Stage(out, k2)
  BY <1>1, <1>3, <1>8, <1>10, <1>11, StageMaps
<1> QED
  BY <1>12 DEF out, k2, prot, file, b

LEMMA InitIsGood ==
  Init => AInv
PROOF
<1> SUFFICES ASSUME Init PROVE AInv
  OBVIOUS
<1> DEFINE loaded == record_mapping(am_startup, "SkFileC", ExePage, 1, RX, ExeFile, 0)
           stack == setup_client_stack(loaded)
           data == setup_client_dataseg(stack)
           k1 == kmap([p \in Addr |-> Hole], ImagePage, 2, ImageFile, 0, RX, "V")
           k2 == kmap(k1, ExePage, 1, ExeFile, 0, RX, "C")
           k3 == kmap(k2, StackEnd, 1, NoFile, 0, RWX, "C")
           k4 == kmap(k3, data.base, 1, NoFile, 0, RWX, "C")
           T == TrampolinePage
<1>1. /\ am = am_change_ownership_v_to_c(data.am, T, 1)
      /\ kern = [k4 EXCEPT ![T].owner = "C"]
      /\ brk = [base |-> data.base * HALVES, limit |-> data.base * HALVES]
      /\ vmaps = {<<p, 1, "SkFileV">> : p \in Image \ {T}}
      /\ trans = {} /\ stale = {} /\ clobbered = {}
  BY DEF Init, Image
<1>2. Stage(am_startup, k1)
  BY Startup
<1>3. Stage(loaded, k2)
  <2> DEFINE kind == "SkFileC"
  <2>1. kind \in CodeKinds /\ kind \in FileKinds /\ ExeFile \in Files /\ RX \in SUBSET RWX
        /\ ExePage \in Addr /\ ExePage \notin Image
    BY LayoutAssumption DEF CodeKinds, FileKinds, RX, RWX, Image
  <2>2. loaded = record_mapping(am_startup, kind, ExePage, 1, RX, ExeFile, 0)
        /\ k2 = kmap(k1, ExePage, 1, ExeFile, 0, RX, "C")
    OBVIOUS
  <2> HIDE DEF kind, k1, k2, loaded
  <2> QED
    BY <1>2, <2>1, <2>2, StageMaps
<1> HIDE DEF k1, k2, loaded
<1>4. Stage(stack, k3)
  BY <1>3, StackStage
<1> HIDE DEF k3, stack
<1>5. Stage(data.am, k4)
  BY <1>4, DatasegStage
<1>6. IsBase(stack, data.base)
  BY <1>4, DatasegBase
<1> HIDE DEF data, k4
<1>7. T \in Image /\ T \in Addr /\ \A p \in Image : p \in Addr /\ p \in Int
  BY LayoutAssumption, PageAssumption DEF Image, Addr
<1>8. At(data.am.segs, T).kind = "SkFileV" /\ IsSpace(data.am)
  BY <1>5, <1>7 DEF Stage
<1>9. IsSpace(am) /\ Neat(am.segs) /\ Given(data.am.segs, am.segs, T)
  BY <1>1, <1>7, <1>8, ChangeOwnership
<1>10. Preened(am.segs) /\ Covers(am.segs) /\ Covers(data.am.segs)
  BY <1>8, <1>9, NeatIsPreened DEF IsSpace
<1>11. k4 \in KernelMaps /\ Agree(data.am.segs, k4)
  BY <1>5 DEF Stage
<1>12. /\ kern \in KernelMaps
       /\ \A p \in Addr : p # T => kern[p] = k4[p]
       /\ kern[T] # Hole /\ kern[T].prot = k4[T].prot /\ kern[T].file = k4[T].file
       /\ kern[T].offset = k4[T].offset /\ k4[T] # Hole
  <2> DEFINE x == k4[T]
             y == [x EXCEPT !.owner = "C"]
  <2>1. x # Hole
    BY <1>7, <1>8, <1>11 DEF Agree, MatchAt, Vacant
  <2>2. x \in Mapping
    BY <1>7, <1>11, <2>1 DEF KernelMaps
  <2>3. kern = [k4 EXCEPT ![T] = y]
    BY <1>1
  <2> HIDE DEF x
  <2>4. y \in Mapping /\ y.prot = x.prot /\ y.file = x.file /\ y.offset = x.offset
    BY <2>2 DEF Mapping
  <2> HIDE DEF y
  <2>5. y # Hole
    BY <2>4, HoleIsNoMapping
  <2>6. kern \in KernelMaps /\ (\A p \in Addr : p # T => kern[p] = k4[p]) /\ kern[T] = y
    BY <1>7, <1>11, <2>3, <2>4 DEF KernelMaps
  <2> QED
    BY <2>1, <2>4, <2>5, <2>6 DEF x
<1>13. MatchesKernel
  <2>1. ASSUME NEW p \in Addr, p # T PROVE MatchAt(At(am.segs, p), p, kern[p])
    <3>1. MatchAt(At(data.am.segs, p), p, k4[p]) /\ Like(At(data.am.segs, p), At(am.segs, p)) /\ kern[p] = k4[p]
      BY <1>9, <1>11, <1>12, <2>1 DEF Agree, Given
    <3> QED
      BY <1>10, <3>1, AtTyped, MatchLike
  <2>2. MatchAt(At(am.segs, T), T, kern[T])
    <3> DEFINE s == At(data.am.segs, T)
               t == At(am.segs, T)
    <3>1. /\ t.kind = "SkFileC" /\ t.prot = s.prot /\ t.file = s.file
          /\ t.offset - t.start = s.offset - s.start
      BY <1>7, <1>9 DEF Given
    <3>2. t.start \in Int /\ t.offset \in Int /\ s.start \in Int /\ s.offset \in Int /\ T \in Int
      BY <1>7, <1>10, AtTyped
    <3>3. MatchAt(s, T, k4[T])
      BY <1>7, <1>11 DEF Agree
    <3> HIDE DEF s, t
    <3>4. s.kind = "SkFileV"
      BY <1>8 DEF s
    <3>5. s.prot = k4[T].prot /\ s.file = k4[T].file /\ s.offset + (T - s.start) = k4[T].offset
      BY <1>12, <3>3, <3>4 DEF MatchAt, FileKinds
    <3>6. t.offset + (T - t.start) = kern[T].offset
      BY <1>12, <3>1, <3>2, <3>5
    <3>7. MatchAt(t, T, kern[T])
      BY <1>12, <3>1, <3>5, <3>6 DEF MatchAt, MappedKinds, FileKinds
    <3> QED
      BY <3>7 DEF t
  <2> QED
    BY <2>1, <2>2 DEF MatchesKernel, segment_at, At
<1>14. \A p \in Addr : /\ At(am.segs, p).kind \in VKinds <=> p \in Image \ {T}
                       /\ p \in Image \ {T} => kern[p] # Hole /\ kern[p].owner = "V"
  <2>1. ASSUME NEW p \in Addr, p # T
        PROVE  /\ At(am.segs, p).kind = At(data.am.segs, p).kind
               /\ p \in Image => At(am.segs, p).kind \in VKinds /\ kern[p].owner = "V" /\ kern[p] # Hole
               /\ p \notin Image => At(am.segs, p).kind \notin VKinds
    <3>1. At(am.segs, p).kind = At(data.am.segs, p).kind /\ kern[p] = k4[p]
      BY <1>9, <1>12, <2>1 DEF Given, Like
    <3>2. MatchAt(At(data.am.segs, p), p, k4[p])
      BY <1>11 DEF Agree
    <3> QED
      BY <1>5, <3>1, <3>2 DEF Stage, VKinds, MatchAt, Vacant
  <2>2. At(am.segs, T).kind \notin VKinds
    BY <1>7, <1>9 DEF Given, VKinds
  <2> QED
    BY <2>1, <2>2
<1>15. ASSUME NEW p \in Image \ {T} PROVE pages(p, 1) = {p} /\ p + 1 - 1 \in Addr
  BY <1>7 DEF pages
<1>16. ASSUME NEW m \in vmaps
       PROVE  m[1] \in Image \ {T} /\ m[2] = 1 /\ m = <<m[1], 1, "SkFileV">>
  BY <1>1
<1>17. UNION {pages(m[1], m[2]) : m \in vmaps} = Image \ {T}
  <2>1. ASSUME NEW p \in Image \ {T} PROVE p \in UNION {pages(m[1], m[2]) : m \in vmaps}
    <3> DEFINE m == <<p, 1, "SkFileV">>
    <3>1. m \in vmaps /\ m[1] = p /\ m[2] = 1
      BY <1>1
    <3> HIDE DEF m
    <3> QED
      BY <1>15, <3>1
  <2>2. ASSUME NEW m \in vmaps, NEW p \in pages(m[1], m[2]) PROVE p \in Image \ {T}
    BY <1>15, <1>16
  <2> QED
    BY <2>1, <2>2
<1>18. ValgrindKeepsItsPages
  <2>1. {p \in Addr : At(am.segs, p).kind \in VKinds} = Image \ {T}
    BY <1>7, <1>14
  <2> QED
    BY <1>7, <1>14, <1>17, <2>1 DEF ValgrindKeepsItsPages, segment_at, At
<1>19. OwnRanges
  <2>1. ASSUME NEW m \in vmaps PROVE m[1] \in Addr /\ m[2] \in Nat \ {0} /\ m[1] + m[2] - 1 \in Addr
    BY <1>7, <1>15, <1>16
  <2>2. ASSUME NEW m1 \in vmaps, NEW m2 \in vmaps, m1 # m2
        PROVE  pages(m1[1], m1[2]) \cap pages(m2[1], m2[2]) = {}
    <3>1. m1[1] # m2[1]
      BY <1>16, <2>2
    <3> QED
      BY <1>15, <1>16, <3>1
  <2> QED
    BY <2>1, <2>2 DEF OwnRanges
<1>20. BrkInRange
  <2> DEFINE b == data.base
             x == b * HALVES
  <2>1. b \in Nat /\ b <= P - DsegPages /\ HALVES \in Nat /\ DsegPages \in Nat /\ P \in Nat
    BY <1>6, LayoutAssumption, RequestAssumption, PageAssumption DEF IsBase, Addr
  <2>2. x \in Nat /\ DsegPages * HALVES \in Nat /\ b \in 0 .. P - DsegPages
    BY <2>1
  <2>3. brk = [base |-> x, limit |-> x]
    BY <1>1
  <2>4. \E c \in 0 .. P - DsegPages : x = c * HALVES
    BY <2>2
  <2> HIDE DEF b, x
  <2> QED
    BY <2>2, <2>3, <2>4 DEF BrkInRange
<1> QED
  BY <1>1, <1>9, <1>10, <1>12, <1>13, <1>18, <1>19, <1>20
     DEF AInv, KernelMaps, NothingClobbered, NoStaleTranslation, FromMarkedPages

-----------------------------------------------------------------------------
(* The theorems *)

LEMMA DiesKeeps ==
  ASSUME AInv, UNCHANGED <<am, kern, brk, trans, stale, vmaps, clobbered>>
  PROVE  AInv'
PROOF
BY DEF AInv, MatchesKernel, ValgrindKeepsItsPages, NothingClobbered, OwnRanges, BrkInRange,
       NoStaleTranslation, FromMarkedPages, segment_at

LEMMA EveryStepIsGood ==
  ASSUME AInv, ShmPages = 1, [Next]_vars
  PROVE  AInv'
PROOF
<1> SUFFICES ASSUME ~\E where : Dies(where) PROVE AInv'
  BY DiesKeeps DEF Dies
<1>1. CASE Mmap
  <2>1. "MAny" \in RequestKinds /\ "MHint" \in RequestKinds /\ "MFixed" \in RequestKinds
    BY DEF RequestKinds
  <2> QED
    BY <1>1, <2>1, SysMmap DEF Mmap
<1>2. CASE Munmap
  BY <1>2, RequestRange, SysMunmap DEF Munmap
<1>3. CASE Mprotect
  BY <1>3, RequestRange, MprotectDone DEF Mprotect, sys_mprotect
<1>4. CASE MprotectGrows
  BY <1>4, SysMprotectGrows DEF MprotectGrows
<1>5. CASE Mremap
  BY <1>5, DoMremap DEF Mremap
<1>6. CASE Brk
  BY <1>6, BrkShrink, BrkExpand DEF Brk
<1>7. CASE ExtendStack
  BY <1>7, Stack DEF ExtendStack
<1>8. CASE Shm
  <2>1. {"R", "W"} \in SUBSET RWX
    BY DEF RWX
  <2> QED
    BY <1>8, <2>1, ShmAttach, ShmDetach DEF Shm
<1>9. CASE Valgrind
  BY <1>9, NewSuperblock, ValgrindFloats, ValgrindUnmaps DEF Valgrind
<1>10. CASE Translate
  BY <1>10, Translates DEF Translate
<1>11. CASE UNCHANGED vars
  BY <1>11, DiesKeeps DEF vars
<1> QED
  BY <1>1, <1>2, <1>3, <1>4, <1>5, <1>6, <1>7, <1>8, <1>9, <1>10, <1>11 DEF Next

(* The invariant that all the others follow from: the array is a sound     *)
(* tiling of the address space, and agrees page by page with the kernel,   *)
(* with what Valgrind owns, and with the marks of translated code.         *)
THEOREM Inductive ==
  ASSUME ShmPages = 1
  PROVE  Spec => []AInv
PROOF
<1>1. Init => AInv
  BY InitIsGood
<1>2. AInv /\ [Next]_vars => AInv'
  BY EveryStepIsGood
<1> QED
  BY <1>1, <1>2, PTL DEF Spec

(* VG_(am_do_sync_check) would never find a difference: after any sequence *)
(* of calls the array says of every page what the kernel says.             *)
THEOREM ArrayMatchesKernel ==
  ASSUME ShmPages = 1
  PROVE  Spec => []MatchesKernel
PROOF
<1>1. AInv => MatchesKernel
  BY DEF AInv
<1> QED
  BY <1>1, Inductive, PTL

(* No call of the client's takes or unmaps a page of Valgrind's. *)
THEOREM ValgrindIsSafe ==
  ASSUME ShmPages = 1
  PROVE  Spec => []ValgrindKeepsItsPages
PROOF
<1>1. AInv => ValgrindKeepsItsPages
  BY DEF AInv
<1> QED
  BY <1>1, Inductive, PTL

(* A place that VG_(am_get_advisory) chose is never in use, and the data   *)
(* segment and the stack never grow over anything.                         *)
THEOREM AdviceIsSafe ==
  ASSUME ShmPages = 1
  PROVE  Spec => []NothingClobbered
PROOF
<1>1. AInv => NothingClobbered
  BY DEF AInv
<1> QED
  BY <1>1, Inductive, PTL

(* What split, merge and add_segment leave is an array that sane_NSegment  *)
(* and the sanity checks accept.                                           *)
THEOREM ArrayIsSane ==
  ASSUME ShmPages = 1
  PROVE  Spec => []SegmentsSane
PROOF
<1>1. AInv => SegmentsSane
  <2> SUFFICES ASSUME AInv PROVE SegmentsSane
    OBVIOUS
  <2> DEFINE segs == am.segs
  <2>1. /\ Covers(segs) /\ AllSound(am.names, segs) /\ Preened(segs) /\ DOMAIN segs = 1 .. Len(segs)
        /\ Len(segs) \in Nat
    BY Before, TilesTyped DEF Covers
  <2>2. /\ segs[1].start = 0 /\ segs[Len(segs)].end = P - 1
        /\ \A i \in 1 .. Len(segs) - 1 : segs[i].end + 1 = segs[i + 1].start
    BY <2>1 DEF Covers, Tiles
  <2>3. Last(segs) = segs[Len(segs)]
    BY DEF Last
  <2>4. \A i \in 1 .. Len(segs) : /\ sane_NSegment(am.names, segs[i])
                                  /\ segs[i].kind \in FileKinds => am.names[segs[i].fnIdx] = segs[i].file
    BY <2>1 DEF AllSound, Sound
  <2>5. ASSUME NEW i \in 1 .. Len(segs), i < Len(segs)
        PROVE  /\ segs[i].end + 1 = segs[i + 1].start
               /\ mergeable(segs[i], segs[i + 1]) => segs[i].isCH
    <3>1. i \in 1 .. Len(segs) - 1
      BY <2>1, <2>5
    <3> QED
      BY <2>1, <2>2, <3>1 DEF Preened
  <2> HIDE DEF segs
  <2>6. /\ segs[1].start = 0 /\ Last(segs).end = P - 1
        /\ \A i \in DOMAIN segs :
             /\ sane_NSegment(am.names, segs[i])
             /\ segs[i].kind \in FileKinds => am.names[segs[i].fnIdx] = segs[i].file
             /\ i < Len(segs) => /\ segs[i].end + 1 = segs[i + 1].start
                                 /\ mergeable(segs[i], segs[i + 1]) => segs[i].isCH
    BY <2>1, <2>2, <2>3, <2>4, <2>5
  <2> QED
    BY <2>6 DEF SegmentsSane, segs
<1> QED
  BY <1>1, Inductive, PTL

(* Where no translated block runs from one segment into the next, every    *)
(* change of the code discards the translations made from it.              *)
THEOREM TranslationsAreFresh ==
  ASSUME ShmPages = 1, ~CrossSegments
  PROVE  Spec => []NoStaleTranslation
PROOF
<1>1. AInv => NoStaleTranslation
  BY DEF AInv
<1> QED
  BY <1>1, Inductive, PTL

(* Under the same condition the marks say enough to decide on discards:    *)
(* splits, merges, moves, changes of permissions and growth leave every    *)
(* page of a translated block in a marked segment.                         *)
THEOREM MarksCoverTranslations ==
  ASSUME ShmPages = 1, ~CrossSegments
  PROVE  Spec => []FromMarkedPages
PROOF
<1>1. AInv => FromMarkedPages
  BY DEF AInv
<1> QED
  BY <1>1, Inductive, PTL
=============================================================================
