----------------------------- MODULE DrdProofs -----------------------------
(***************************************************************************)
(* What DRD's segments, clocks and conflict set promise, for any number of *)
(* threads, addresses and mutexes.                                         *)
(***************************************************************************)
EXTENDS Drd, FiniteSetTheorems, WellFoundedInduction, TLAPS

-----------------------------------------------------------------------------
(* Numbers, threads and counting *)

(* Sets of naturals have a least element. *)
LEMMA LeastNat ==
  ASSUME NEW S \in SUBSET Nat, S # {}
  PROVE  \E m \in S : \A x \in S : m <= x
PROOF
<1> DEFINE R == OpToRel(<, Nat)
<1>1. IsWellFoundedOn(R, Nat)
  BY NatLessThanWellFounded
<1>2. \A x, y \in Nat : x < y => <<x, y>> \in R
  BY DEF OpToRel
<1> HIDE DEF R
<1>3. PICK m \in S : \A y \in S : ~(<<y, m>> \in R)
  BY <1>1, WFMin, Zenon
<1>4. ASSUME NEW y \in S PROVE m <= y
  <2>1. ~(y < m)
    BY <1>2, <1>3, Zenon
  <2> QED
    BY <2>1
<1> QED
  BY <1>4

LEMMA MinNat ==
  ASSUME NEW S \in SUBSET Nat, S # {}
  PROVE  Min(S) \in S /\ \A x \in S : Min(S) <= x
PROOF
BY LeastNat DEF Min

LEMMA ThreadsAre ==
  /\ \A t \in Threads : t \in Nat \ {0} /\ t < DRD_N_THREADS
  /\ 1 \in Threads /\ IsFiniteSet(Threads) /\ DRD_N_THREADS \in Nat
  /\ None \notin Threads /\ Null \notin SegIds
  /\ \A i \in SegIds : i[1] \in Threads
PROOF
<1>1. DRD_N_THREADS \in Nat /\ DRD_N_THREADS >= 2
  BY SizesAssumption
<1>2. IsFiniteSet(1 .. DRD_N_THREADS - 1)
  BY <1>1, FS_Interval
<1>3. /\ \A t \in Threads : t \in Nat \ {0} /\ t < DRD_N_THREADS
      /\ 1 \in Threads /\ None \notin Threads
  BY <1>1 DEF Threads, None
<1>4. Null \notin SegIds /\ \A i \in SegIds : i[1] \in Threads
  BY <1>3 DEF Null, SegIds, None
<1> QED
  BY <1>1, <1>2, <1>3, <1>4 DEF Threads

(* The number of places of f that hold i. *)
Refs(f, i) == Cardinality({x \in DOMAIN f : f[x] = i})

LEMMA RefsNat ==
  ASSUME NEW f, IsFiniteSet(DOMAIN f), NEW i
  PROVE  /\ Refs(f, i) \in Nat /\ IsFiniteSet({x \in DOMAIN f : f[x] = i})
         /\ Refs(f, i) = 0 <=> \A x \in DOMAIN f : f[x] # i
PROOF
<1> DEFINE A == {x \in DOMAIN f : f[x] = i}
<1>1. A \in SUBSET DOMAIN f
  OBVIOUS
<1>2. IsFiniteSet(A)
  BY <1>1, FS_Subset
<1>3. Cardinality(A) \in Nat /\ (Cardinality(A) = 0 <=> A = {})
  BY <1>2, FS_CardinalityType, FS_EmptySet
<1> QED
  BY <1>2, <1>3 DEF Refs

(* A reference that moves. *)
LEMMA RefsMove ==
  ASSUME NEW f, IsFiniteSet(DOMAIN f), NEW x \in DOMAIN f, NEW new, NEW i
  PROVE  Refs([f EXCEPT ![x] = new], i) =
           Refs(f, i) - (IF f[x] = i THEN 1 ELSE 0) + (IF new = i THEN 1 ELSE 0)
PROOF
<1> DEFINE g == [f EXCEPT ![x] = new]
           A == {y \in DOMAIN f : f[y] = i}
           B == {y \in DOMAIN g : g[y] = i}
           C == {y \in DOMAIN f : f[y] = i} \ {x}
<1>1. IsFiniteSet(A) /\ Cardinality(A) \in Nat
  BY RefsNat DEF Refs
<1>2. IsFiniteSet(C) /\ Cardinality(C) = IF f[x] = i THEN Cardinality(A) - 1 ELSE Cardinality(A)
  BY <1>1, FS_RemoveElement
<1>3. Cardinality(C \cup {x}) = Cardinality(C) + 1
  BY <1>2, FS_AddElement
<1>4. B = IF new = i THEN C \cup {x} ELSE C
  OBVIOUS
<1>5. Refs(f, i) = Cardinality(A) /\ Refs(g, i) = Cardinality(B)
  BY DEF Refs
<1> HIDE DEF A, B, C, g
<1>6. Cardinality(C) \in Nat
  BY <1>2, FS_CardinalityType
<1>7. Refs(g, i) = Refs(f, i) - (IF f[x] = i THEN 1 ELSE 0) + (IF new = i THEN 1 ELSE 0)
  BY <1>1, <1>2, <1>3, <1>4, <1>5, <1>6
<1> QED
  BY <1>7 DEF g

-----------------------------------------------------------------------------
(* Segments, lists and the ledger of references *)

Clock  == [Threads -> Nat]
SegRec == [vc : Clock, bm : SUBSET Access, refcnt : Nat]
DState == [seg : [SegIds -> SegRec], list : [Threads -> Seq(SegIds)],
           run : Threads, cset : SUBSET Access]

(* Every segment of a list belongs to its thread and is there once. *)
Listed(ls) ==
  /\ ls \in [Threads -> Seq(SegIds)]
  /\ \A t \in Threads : \A a \in DOMAIN ls[t] :
       ls[t][a] \in SegIds /\ ls[t][a][1] = t
  /\ \A t \in Threads : \A a, b \in DOMAIN ls[t] : ls[t][a] = ls[t][b] => a = b

InList(ls, i) == i \in Range(ls[i[1]])

(* refcnt is the list's reference and the x[i] others; without one the     *)
(* segment is free.                                                        *)
Owned(sg, ls, x) ==
  /\ sg \in [SegIds -> SegRec] /\ Listed(ls) /\ x \in [SegIds -> Nat]
  /\ \A i \in SegIds : sg[i].refcnt = x[i] + (IF InList(ls, i) THEN 1 ELSE 0)
  /\ \A i \in SegIds : sg[i].refcnt = 0 => sg[i] = NoSegment

(* K is what is left of l after some elements but not the last are gone. *)
Sublist(K, l) ==
  /\ \E f \in [DOMAIN K -> DOMAIN l] :
       /\ \A a, b \in DOMAIN K : a < b => f[a] < f[b]
       /\ \A a \in DOMAIN K : K[a] = l[f[a]]
  /\ l # <<>> => K # <<>> /\ Last(K) = Last(l)

(* Segments are dropped from lists, and put; accesses may be added to the  *)
(* ones that stay.                                                         *)
Shrunk(sg, ls, sg2, ls2) ==
  /\ sg2 \in [SegIds -> SegRec] /\ ls2 \in [Threads -> Seq(SegIds)]
  /\ \A t \in Threads : Sublist(ls2[t], ls[t])
  /\ \A i \in SegIds :
       /\ ~ InList(ls, i) => sg2[i] = sg[i]
       /\ InList(ls, i) /\ ~ InList(ls2, i) =>
            sg2[i] = IF sg[i].refcnt = 1 THEN NoSegment ELSE [sg[i] EXCEPT !.refcnt = @ - 1]
       /\ InList(ls2, i) =>
            sg2[i].vc = sg[i].vc /\ sg2[i].refcnt = sg[i].refcnt /\ sg[i].bm \subseteq sg2[i].bm

LEMMA NoSegmentType ==
  /\ NoSegment \in SegRec /\ NoSegment.refcnt = 0 /\ NoSegment.bm = {}
  /\ \A t \in Threads : NoSegment.vc[t] = 0
PROOF
BY DEF NoSegment, SegRec, Clock

LEMMA SegFields ==
  ASSUME NEW s \in SegRec
  PROVE  s.vc \in Clock /\ s.bm \in SUBSET Access /\ s.refcnt \in Nat
PROOF
BY DEF SegRec

(* Range, by index. *)
LEMMA RangeSeq ==
  ASSUME NEW T, NEW l \in Seq(T)
  PROVE  /\ Len(l) \in Nat /\ DOMAIN l = 1 .. Len(l)
         /\ \A i : i \in Range(l) <=> \E a \in 1 .. Len(l) : l[a] = i
         /\ l # <<>> => Len(l) >= 1 /\ Last(l) \in Range(l) /\ Last(l) \in T /\ Last(l) = l[Len(l)]
         /\ \A a \in 1 .. Len(l) : l[a] \in T
PROOF
BY DEF Range, Last

LEMMA ListedAt ==
  ASSUME NEW ls, Listed(ls), NEW t \in Threads
  PROVE  /\ ls[t] \in Seq(SegIds) /\ Len(ls[t]) \in Nat /\ DOMAIN ls[t] = 1 .. Len(ls[t])
         /\ \A a \in 1 .. Len(ls[t]) : ls[t][a] \in SegIds /\ ls[t][a][1] = t
         /\ \A a, b \in 1 .. Len(ls[t]) : ls[t][a] = ls[t][b] => a = b
         /\ \A i \in Range(ls[t]) : i \in SegIds /\ i[1] = t /\ InList(ls, i)
PROOF
<1>1. ls[t] \in Seq(SegIds)
  BY DEF Listed
<1>2. Len(ls[t]) \in Nat /\ DOMAIN ls[t] = 1 .. Len(ls[t])
  BY <1>1
<1>3. /\ \A a \in DOMAIN ls[t] : ls[t][a] \in SegIds /\ ls[t][a][1] = t
      /\ \A a, b \in DOMAIN ls[t] : ls[t][a] = ls[t][b] => a = b
  BY Zenon DEF Listed
<1>4. ASSUME NEW i \in Range(ls[t]) PROVE i \in SegIds /\ i[1] = t /\ InList(ls, i)
  BY <1>3 DEF Range, InList
<1> QED
  BY <1>1, <1>2, <1>3, <1>4

LEMMA SublistRange ==
  ASSUME NEW K \in Seq(SegIds), NEW l \in Seq(SegIds), Sublist(K, l)
  PROVE  /\ Range(K) \subseteq Range(l)
         /\ K = <<>> <=> l = <<>>
PROOF
<1>1. PICK f \in [DOMAIN K -> DOMAIN l] : \A a \in DOMAIN K : K[a] = l[f[a]]
  BY DEF Sublist
<1>2. Range(K) \subseteq Range(l)
  BY <1>1 DEF Range
<1>3. K # <<>> => l # <<>>
  BY <1>2, RangeSeq
<1> QED
  BY <1>2, <1>3 DEF Sublist

LEMMA SublistListed ==
  ASSUME NEW ls, Listed(ls), NEW ls2 \in [Threads -> Seq(SegIds)],
         \A t \in Threads : Sublist(ls2[t], ls[t])
  PROVE  Listed(ls2)
PROOF
<1>1. ASSUME NEW t \in Threads
      PROVE  /\ \A a \in DOMAIN ls2[t] : ls2[t][a] \in SegIds /\ ls2[t][a][1] = t
             /\ \A a, b \in DOMAIN ls2[t] : ls2[t][a] = ls2[t][b] => a = b
  <2>1. PICK f \in [DOMAIN ls2[t] -> DOMAIN ls[t]] :
             /\ \A a, b \in DOMAIN ls2[t] : a < b => f[a] < f[b]
             /\ \A a \in DOMAIN ls2[t] : ls2[t][a] = ls[t][f[a]]
    BY DEF Sublist
  <2>2. \A a \in DOMAIN ls2[t] : ls2[t][a] \in SegIds /\ ls2[t][a][1] = t
    BY <2>1, ListedAt
  <2>3. ASSUME NEW a \in DOMAIN ls2[t], NEW b \in DOMAIN ls2[t], ls2[t][a] = ls2[t][b], a # b
        PROVE  FALSE
    <3>1. f[a] \in 1 .. Len(ls[t]) /\ f[b] \in 1 .. Len(ls[t]) /\ ls[t][f[a]] = ls[t][f[b]]
      BY <2>1, <2>3, ListedAt
    <3>2. /\ a \in Nat /\ b \in Nat /\ f[a] \in Nat /\ f[b] \in Nat /\ f[a] = f[b]
      BY <3>1, RangeSeq, ListedAt
    <3>3. a < b \/ b < a
      BY <2>3, <3>2
    <3> QED
      BY <2>1, <3>2, <3>3
  <2> QED
    BY <2>2, <2>3
<1> QED
  BY <1>1 DEF Listed

LEMMA ShrunkListed ==
  ASSUME NEW sg, NEW ls, NEW sg2, NEW ls2, Listed(ls), Shrunk(sg, ls, sg2, ls2)
  PROVE  /\ Listed(ls2) /\ \A i \in SegIds : InList(ls2, i) => InList(ls, i)
         /\ \A t \in Threads : ls2[t] = <<>> <=> ls[t] = <<>>
         /\ \A t \in Threads : ls[t] # <<>> => Last(ls2[t]) = Last(ls[t])
PROOF
<1>1. /\ ls \in [Threads -> Seq(SegIds)] /\ ls2 \in [Threads -> Seq(SegIds)]
      /\ \A t \in Threads : Sublist(ls2[t], ls[t])
  BY DEF Listed, Shrunk
<1>2. ASSUME NEW t \in Threads
      PROVE  /\ Range(ls2[t]) \subseteq Range(ls[t])
             /\ ls2[t] = <<>> <=> ls[t] = <<>>
             /\ ls[t] # <<>> => Last(ls2[t]) = Last(ls[t])
  BY <1>1, SublistRange DEF Sublist
<1>3. \A i \in SegIds : InList(ls2, i) => InList(ls, i)
  BY <1>2, ThreadsAre DEF InList
<1> QED
  BY <1>1, <1>2, <1>3, SublistListed

LEMMA ShrunkOwned ==
  ASSUME NEW sg, NEW ls, NEW sg2, NEW ls2, NEW x, Owned(sg, ls, x), Shrunk(sg, ls, sg2, ls2)
  PROVE  Owned(sg2, ls2, x)
PROOF
<1>1. /\ sg \in [SegIds -> SegRec] /\ Listed(ls) /\ x \in [SegIds -> Nat]
      /\ sg2 \in [SegIds -> SegRec]
  BY DEF Owned, Shrunk
<1>2. Listed(ls2) /\ \A i \in SegIds : InList(ls2, i) => InList(ls, i)
  BY <1>1, ShrunkListed
<1>3. ASSUME NEW i \in SegIds
      PROVE  /\ sg2[i].refcnt = x[i] + (IF InList(ls2, i) THEN 1 ELSE 0)
             /\ sg2[i].refcnt = 0 => sg2[i] = NoSegment
  <2>1. /\ sg[i] \in SegRec /\ sg2[i] \in SegRec /\ sg[i].refcnt \in Nat /\ x[i] \in Nat
        /\ sg[i].refcnt = x[i] + (IF InList(ls, i) THEN 1 ELSE 0)
        /\ sg[i].refcnt = 0 => sg[i] = NoSegment
    BY <1>1, SegFields DEF Owned
  <2>2. CASE ~ InList(ls, i)
    <3>1. sg2[i] = sg[i] /\ ~ InList(ls2, i)
      BY <1>2, <2>2 DEF Shrunk
    <3> QED
      BY <2>1, <2>2, <3>1
  <2>3. CASE InList(ls, i) /\ ~ InList(ls2, i)
    <3>1. sg2[i] = IF sg[i].refcnt = 1 THEN NoSegment ELSE [sg[i] EXCEPT !.refcnt = @ - 1]
      BY <2>3 DEF Shrunk
    <3>2. [sg[i] EXCEPT !.refcnt = @ - 1].refcnt = sg[i].refcnt - 1
      BY <2>1 DEF SegRec
    <3> QED
      BY <2>1, <2>3, <3>1, <3>2, NoSegmentType
  <2>4. CASE InList(ls2, i)
    <3>1. sg2[i].refcnt = sg[i].refcnt /\ InList(ls, i)
      BY <1>2, <2>4 DEF Shrunk
    <3> QED
      BY <2>1, <2>4, <3>1
  <2> QED
    BY <2>2, <2>3, <2>4
<1> QED
  BY <1>1, <1>2, <1>3 DEF Owned
-----------------------------------------------------------------------------
(* What each operation does to segments and lists *)

HasRoom(sg, t) == \E k \in 1 .. MaxSegments : sg[<<t, k>>].refcnt = 0

LEMMA DStateFields ==
  ASSUME NEW S \in DState
  PROVE  /\ S.seg \in [SegIds -> SegRec] /\ S.list \in [Threads -> Seq(SegIds)]
         /\ S.run \in Threads /\ S.cset \in SUBSET Access
PROOF
BY DEF DState

LEMMA SetSeg ==
  ASSUME NEW S \in DState, NEW sg
  PROVE  [S EXCEPT !.seg = sg] = [seg |-> sg, list |-> S.list, run |-> S.run, cset |-> S.cset]
PROOF
BY DEF DState

LEMMA LatestIs ==
  ASSUME NEW S \in DState, NEW t \in Threads, S.list[t] # <<>>
  PROVE  /\ Latest(S, t) \in SegIds /\ Latest(S, t) \in Range(S.list[t])
         /\ Latest(S, t) = Last(S.list[t]) /\ ClockOf(S, t) \in Clock
         /\ Listed(S.list) => Latest(S, t)[1] = t /\ InList(S.list, Latest(S, t))
PROOF
<1>1. S.list[t] \in Seq(SegIds)
  BY DStateFields
<1>2. Latest(S, t) \in SegIds /\ Latest(S, t) \in Range(S.list[t])
  BY <1>1, RangeSeq DEF Latest
<1>3. ClockOf(S, t) \in Clock
  BY <1>2, DStateFields, SegFields DEF ClockOf
<1>4. ASSUME Listed(S.list) PROVE Latest(S, t)[1] = t
  BY <1>1, <1>2, <1>4, RangeSeq DEF Listed
<1> QED
  BY <1>2, <1>3, <1>4 DEF Latest, InList

LEMMA vc_incrementType ==
  ASSUME NEW v \in Clock, NEW t \in Threads
  PROVE  /\ vc_increment(v, t) \in Clock /\ vc_increment(v, t)[t] = v[t] + 1
         /\ \A u \in Threads : u # t => vc_increment(v, t)[u] = v[u]
PROOF
BY DEF vc_increment, Clock

LEMMA vc_combineType ==
  ASSUME NEW v \in Clock, NEW w \in Clock
  PROVE  /\ vc_combine(v, w) \in Clock
         /\ \A u \in Threads : vc_combine(v, w)[u] = IF v[u] < w[u] THEN w[u] ELSE v[u]
PROOF
BY DEF vc_combine, Clock

NewSegment(sg, vc, t, i) == [sg EXCEPT ![i] = [vc |-> vc_increment(vc, t), bm |-> {}, refcnt |-> 1]]

LEMMA AppendFields ==
  ASSUME NEW S \in DState, NEW creator \in Threads, NEW created \in Threads,
         S.list[creator] # <<>>, HasRoom(S.seg, created)
  PROVE  \E i \in SegIds :
           /\ i[1] = created /\ S.seg[i].refcnt = 0
           /\ thread_append_segment(S, creator, created) =
                [seg  |-> NewSegment(S.seg, ClockOf(S, creator), created, i),
                 list |-> [S.list EXCEPT ![created] = Append(@, i)],
                 run  |-> S.run, cset |-> S.cset]
           /\ thread_append_segment(S, creator, created) \in DState
PROOF
<1> DEFINE F == {k \in 1 .. MaxSegments : S.seg[<<created, k>>].refcnt = 0}
           i == <<created, Min(F)>>
           T == thread_append_segment(S, creator, created)
<1>1. Min(F) \in F
  <2>1. F \in SUBSET Nat
    OBVIOUS
  <2>2. F # {}
    BY DEF HasRoom
  <2> QED
    BY <2>1, <2>2, MinNat
<1>2. i \in SegIds /\ i[1] = created /\ S.seg[i].refcnt = 0
  BY <1>1 DEF SegIds
<1>3. T = [S EXCEPT !.seg[i] = [vc |-> vc_increment(ClockOf(S, creator), created), bm |-> {}, refcnt |-> 1],
                    !.list[created] = Append(@, i)]
  BY DEF thread_append_segment
<1> HIDE DEF i, T, F
<1>4. T = [seg  |-> NewSegment(S.seg, ClockOf(S, creator), created, i),
           list |-> [S.list EXCEPT ![created] = Append(@, i)], run |-> S.run, cset |-> S.cset]
  BY <1>3 DEF DState, NewSegment
<1>5. [vc |-> vc_increment(ClockOf(S, creator), created), bm |-> {}, refcnt |-> 1] \in SegRec
  BY LatestIs, vc_incrementType DEF SegRec
<1>6. NewSegment(S.seg, ClockOf(S, creator), created, i) \in [SegIds -> SegRec]
  BY <1>5, DStateFields DEF NewSegment
<1>7. [S.list EXCEPT ![created] = Append(@, i)] \in [Threads -> Seq(SegIds)]
  BY <1>2, DStateFields
<1>8. T \in DState
  BY <1>4, <1>6, <1>7, DStateFields DEF DState
<1> QED
  BY <1>2, <1>4, <1>8 DEF T

LEMMA AppendOwned ==
  ASSUME NEW sg, NEW ls, NEW x, Owned(sg, ls, x), NEW t \in Threads, NEW i \in SegIds,
         i[1] = t, sg[i].refcnt = 0, NEW vc \in Clock
  PROVE  Owned(NewSegment(sg, vc, t, i), [ls EXCEPT ![t] = Append(@, i)], x)
PROOF
<1> DEFINE sg2 == NewSegment(sg, vc, t, i)
           ls2 == [ls EXCEPT ![t] = Append(@, i)]
<1>1. sg \in [SegIds -> SegRec] /\ Listed(ls) /\ x \in [SegIds -> Nat]
      /\ ls \in [Threads -> Seq(SegIds)]
  BY DEF Owned, Listed
<1>2. ~ InList(ls, i) /\ x[i] = 0
  BY <1>1, SegFields DEF Owned
<1>3. /\ ls[t] \in Seq(SegIds) /\ ls2[t] = Append(ls[t], i)
      /\ \A u \in Threads : u # t => ls2[u] = ls[u]
  BY <1>1
<1>4. /\ Len(ls[t]) \in Nat /\ Len(ls2[t]) = Len(ls[t]) + 1 /\ DOMAIN ls[t] = 1 .. Len(ls[t])
      /\ DOMAIN ls2[t] = 1 .. Len(ls[t]) + 1 /\ ls2[t][Len(ls[t]) + 1] = i
      /\ \A a \in 1 .. Len(ls[t]) : ls2[t][a] = ls[t][a]
  BY <1>3
<1>5. ls2 \in [Threads -> Seq(SegIds)]
  BY <1>1
<1>6. \A a \in 1 .. Len(ls[t]) : ls[t][a] # i
  BY <1>2, <1>4 DEF InList, Range
<1> HIDE DEF ls2
<1>7. Listed(ls2)
  <2>0. /\ \A a \in 1 .. Len(ls[t]) : ls[t][a] \in SegIds /\ ls[t][a][1] = t
        /\ \A a, b \in 1 .. Len(ls[t]) : ls[t][a] = ls[t][b] => a = b
    BY <1>1, ListedAt
  <2>1. ASSUME NEW u \in Threads, NEW a \in DOMAIN ls2[u]
        PROVE  ls2[u][a] \in SegIds /\ ls2[u][a][1] = u
    <3>1. CASE u = t /\ a = Len(ls[t]) + 1
      BY <1>4, <3>1
    <3>2. CASE u = t /\ a # Len(ls[t]) + 1
      BY <1>4, <2>0, <2>1, <3>2, SMTT(30)
    <3>3. CASE u # t
      BY <1>1, <1>3, <2>1, <3>3 DEF Listed
    <3> QED
      BY <3>1, <3>2, <3>3
  <2>2. ASSUME NEW u \in Threads, NEW a \in DOMAIN ls2[u], NEW b \in DOMAIN ls2[u], ls2[u][a] = ls2[u][b]
        PROVE  a = b
    <3>1. CASE u = t
      <4>1. a \in 1 .. Len(ls[t]) + 1 /\ b \in 1 .. Len(ls[t]) + 1 /\ ls2[t][a] = ls2[t][b]
        BY <1>4, <2>2, <3>1
      <4>2. CASE a = Len(ls[t]) + 1 /\ b = Len(ls[t]) + 1
        BY <4>2
      <4>3. CASE a # Len(ls[t]) + 1 /\ b # Len(ls[t]) + 1
        BY <1>4, <2>0, <4>1, <4>3
      <4> QED
        BY <1>4, <1>6, <4>1, <4>2, <4>3
    <3>2. CASE u # t
      BY <1>1, <1>3, <2>2, <3>2 DEF Listed
    <3> QED
      BY <3>1, <3>2
  <2> QED
    BY <1>5, <2>1, <2>2 DEF Listed
<1>8. InList(ls2, i) /\ \A j \in SegIds : j # i => (InList(ls2, j) <=> InList(ls, j))
  <2>1. \A u \in Threads : u # t => Range(ls2[u]) = Range(ls[u])
    BY <1>3
  <2>2. Range(ls2[t]) = Range(ls[t]) \cup {i}
    BY <1>4, SMTT(30) DEF Range
  <2> QED
    BY <2>1, <2>2, ThreadsAre DEF InList
<1>9. /\ sg2 \in [SegIds -> SegRec] /\ sg2[i].refcnt = 1 /\ \A j \in SegIds : j # i => sg2[j] = sg[j]
  BY <1>1, vc_incrementType DEF NewSegment, SegRec
<1> HIDE DEF sg2
<1>10. ASSUME NEW j \in SegIds
       PROVE  /\ sg2[j].refcnt = x[j] + (IF InList(ls2, j) THEN 1 ELSE 0)
              /\ sg2[j].refcnt = 0 => sg2[j] = NoSegment
  <2>1. CASE j = i
    BY <1>2, <1>8, <1>9, <2>1
  <2>2. CASE j # i
    BY <1>8, <1>9, <2>2 DEF Owned
  <2> QED
    BY <2>1, <2>2
<1>11. Owned(sg2, ls2, x)
  BY <1>1, <1>7, <1>9, <1>10 DEF Owned
<1> QED
  BY <1>11 DEF sg2, ls2

(* sg_put of the segments that are dropped from lists. *)
Dropped(ls, ls2) == UNION {Range(ls[t]) \ Range(ls2[t]) : t \in Threads}

LEMMA DroppedIs ==
  ASSUME NEW ls, NEW ls2, Listed(ls), Listed(ls2), NEW i \in SegIds
  PROVE  i \in Dropped(ls, ls2) <=> InList(ls, i) /\ ~ InList(ls2, i)
PROOF
<1>1. ASSUME i \in Dropped(ls, ls2) PROVE InList(ls, i) /\ ~ InList(ls2, i)
  <2>1. PICK t \in Threads : i \in Range(ls[t]) /\ i \notin Range(ls2[t])
    BY <1>1 DEF Dropped
  <2>2. i[1] = t
    BY <2>1, ListedAt
  <2> QED
    BY <2>1, <2>2 DEF InList
<1>2. ASSUME InList(ls, i), ~ InList(ls2, i) PROVE i \in Dropped(ls, ls2)
  BY <1>2, ThreadsAre DEF Dropped, InList
<1> QED
  BY <1>1, <1>2

LEMMA sg_putIs ==
  ASSUME NEW sg \in [SegIds -> SegRec], NEW ids, \A i \in SegIds : i \in ids => sg[i].refcnt # 0
  PROVE  /\ sg_put(sg, ids) \in [SegIds -> SegRec]
         /\ \A i \in SegIds : i \notin ids => sg_put(sg, ids)[i] = sg[i]
         /\ \A i \in SegIds : i \in ids =>
              sg_put(sg, ids)[i] = IF sg[i].refcnt = 1 THEN NoSegment ELSE [sg[i] EXCEPT !.refcnt = @ - 1]
PROOF
<1>1. ASSUME NEW i \in SegIds, i \in ids PROVE [sg[i] EXCEPT !.refcnt = @ - 1] \in SegRec
  <2>1. sg[i] \in SegRec /\ sg[i].refcnt - 1 \in Nat
    BY <1>1, SegFields
  <2> QED
    BY <2>1 DEF SegRec
<1>2. ASSUME NEW i \in SegIds PROVE sg_put(sg, ids)[i] \in SegRec
  BY <1>1, NoSegmentType DEF sg_put
<1> QED
  BY <1>2 DEF sg_put

(* The segments that stay may get more accesses. *)
Grown(sg, sgm, ls2) ==
  /\ sgm \in [SegIds -> SegRec]
  /\ \A i \in SegIds : sgm[i].vc = sg[i].vc /\ sgm[i].refcnt = sg[i].refcnt /\ sg[i].bm \subseteq sgm[i].bm
  /\ \A i \in SegIds : ~ InList(ls2, i) => sgm[i] = sg[i]

(* Lists that shrink, with sg_put of what is dropped and accesses added to *)
(* what stays.                                                             *)
LEMMA PutShrunk ==
  ASSUME NEW sg, NEW ls, NEW x, Owned(sg, ls, x),
         NEW ls2 \in [Threads -> Seq(SegIds)], Listed(ls2), \A t \in Threads : Sublist(ls2[t], ls[t]),
         NEW sgm, Grown(sg, sgm, ls2)
  PROVE  /\ Shrunk(sg, ls, sg_put(sgm, Dropped(ls, ls2)), ls2)
         /\ \A i \in SegIds : InList(ls2, i) => sg_put(sgm, Dropped(ls, ls2))[i] = sgm[i]
PROOF
<1> DEFINE sg2 == sg_put(sgm, Dropped(ls, ls2))
<1>1. sg \in [SegIds -> SegRec] /\ Listed(ls)
  BY DEF Owned
<1>0. /\ sgm \in [SegIds -> SegRec]
      /\ \A i \in SegIds : sgm[i].vc = sg[i].vc /\ sgm[i].refcnt = sg[i].refcnt /\ sg[i].bm \subseteq sgm[i].bm
      /\ \A i \in SegIds : ~ InList(ls2, i) => sgm[i] = sg[i]
  BY DEF Grown
<1>2. ASSUME NEW i \in SegIds, i \in Dropped(ls, ls2) PROVE sgm[i].refcnt # 0
  <2>1. InList(ls, i)
    BY <1>1, <1>2, DroppedIs
  <2> QED
    BY <1>0, <2>1 DEF Owned
<1>3. /\ sg2 \in [SegIds -> SegRec]
      /\ \A i \in SegIds : i \notin Dropped(ls, ls2) => sg2[i] = sgm[i]
      /\ \A i \in SegIds : i \in Dropped(ls, ls2) =>
              sg2[i] = IF sgm[i].refcnt = 1 THEN NoSegment ELSE [sgm[i] EXCEPT !.refcnt = @ - 1]
  BY <1>0, <1>2, sg_putIs
<1> HIDE DEF sg2
<1>4. ASSUME NEW i \in SegIds
      PROVE  /\ ~ InList(ls, i) => sg2[i] = sg[i]
             /\ InList(ls, i) /\ ~ InList(ls2, i) =>
                  sg2[i] = IF sg[i].refcnt = 1 THEN NoSegment ELSE [sg[i] EXCEPT !.refcnt = @ - 1]
             /\ InList(ls2, i) => sg2[i] = sgm[i]
  <2>1. InList(ls2, i) => InList(ls, i)
    BY <1>1, SublistRange, ThreadsAre, ListedAt DEF InList
  <2>2. i \in Dropped(ls, ls2) <=> InList(ls, i) /\ ~ InList(ls2, i)
    BY <1>1, DroppedIs
  <2> QED
    BY <1>0, <1>3, <2>1, <2>2
<1>5. Shrunk(sg, ls, sg2, ls2)
  BY <1>0, <1>3, <1>4 DEF Shrunk
<1> QED
  BY <1>4, <1>5 DEF sg2

(* thread_discard_ordered_segments cuts every list at its first segment    *)
(* that is not below the minimum, and keeps the last one.                  *)
LEMMA DiscardIs ==
  ASSUME NEW S \in DState, NEW x, Owned(S.seg, S.list, x)
  PROVE  LET T == thread_discard_ordered_segments(S) IN
         /\ T \in DState /\ T.run = S.run /\ T.cset = S.cset
         /\ Shrunk(S.seg, S.list, T.seg, T.list) /\ Owned(T.seg, T.list, x)
         /\ \A i \in SegIds : InList(T.list, i) => T.seg[i] = S.seg[i]
         /\ \A t \in Threads : S.list[t] # <<>> =>
              \E k \in 1 .. Len(S.list[t]) :
                /\ T.list[t] = SubSeq(S.list[t], k, Len(S.list[t]))
                /\ \A j \in 1 .. k - 1 : vc_lte(S.seg[S.list[t][j]].vc, thread_compute_minimum_vc(S))
                /\ k = Len(S.list[t]) \/ ~ vc_lte(S.seg[S.list[t][k]].vc, thread_compute_minimum_vc(S))
PROOF
<1> DEFINE min     == thread_compute_minimum_vc(S)
           keep(l) == Min({k \in DOMAIN l : k = Len(l) \/ ~ vc_lte(S.seg[l[k]].vc, min)})
           rest    == [t \in Threads |-> IF S.list[t] = <<>> THEN <<>>
                                         ELSE SubSeq(S.list[t], keep(S.list[t]), Len(S.list[t]))]
           T       == thread_discard_ordered_segments(S)
<1>1. T = [S EXCEPT !.seg = sg_put(@, Dropped(S.list, rest)), !.list = rest]
  BY DEF thread_discard_ordered_segments, Dropped
<1>2. Listed(S.list) /\ S.list \in [Threads -> Seq(SegIds)] /\ S.seg \in [SegIds -> SegRec]
  BY SMTT(30) DEF Owned, Listed
<1> HIDE DEF min
<1>3. ASSUME NEW t \in Threads, S.list[t] # <<>>
      PROVE  /\ keep(S.list[t]) \in 1 .. Len(S.list[t])
             /\ \A j \in 1 .. keep(S.list[t]) - 1 : vc_lte(S.seg[S.list[t][j]].vc, min)
             /\ \/ keep(S.list[t]) = Len(S.list[t])
                \/ ~ vc_lte(S.seg[S.list[t][keep(S.list[t])]].vc, min)
  <2> DEFINE l == S.list[t]
             C == {k \in DOMAIN l : k = Len(l) \/ ~ vc_lte(S.seg[l[k]].vc, min)}
  <2>1. Len(l) \in Nat /\ DOMAIN l = 1 .. Len(l) /\ Len(l) >= 1
    BY <1>2, <1>3, RangeSeq
  <2>2. C \in SUBSET Nat /\ C # {}
    BY <2>1, SMTT(30)
  <2>3. Min(C) \in C /\ \A k \in C : Min(C) <= k
    BY <2>2, MinNat, ZenonT(60)
  <2>4. ASSUME NEW j \in 1 .. Min(C) - 1 PROVE vc_lte(S.seg[l[j]].vc, min)
    <3>1. Min(C) \in 1 .. Len(l)
      <4>1. C \subseteq 1 .. Len(l)
        BY <2>1, SMTT(30)
      <4> HIDE DEF C
      <4> QED
        BY <2>3, <4>1
    <3>2. j \in DOMAIN l /\ ~(Min(C) <= j) /\ j # Len(l)
      BY <2>1, <2>4, <3>1
    <3> QED
      BY <2>3, <3>2
  <2> QED
    BY <2>1, <2>3, <2>4
<1> HIDE DEF keep
<1>4. ASSUME NEW t \in Threads PROVE rest[t] \in Seq(SegIds) /\ Sublist(rest[t], S.list[t])
  <2>1. CASE S.list[t] = <<>>
    <3>1. rest[t] = <<>>
      BY <2>1
    <3>2. DOMAIN <<>> = {} /\ [a \in {} |-> a] \in [{} -> {}] /\ <<>> \in Seq(SegIds)
      OBVIOUS
    <3>3. \E f \in [DOMAIN rest[t] -> DOMAIN S.list[t]] :
            /\ \A a, b \in DOMAIN rest[t] : a < b => f[a] < f[b]
            /\ \A a \in DOMAIN rest[t] : rest[t][a] = S.list[t][f[a]]
      BY <2>1, <3>1, <3>2
    <3> QED
      BY <2>1, <3>1, <3>2, <3>3 DEF Sublist
  <2>2. CASE S.list[t] # <<>>
    <3> DEFINE l == S.list[t]
               k == keep(S.list[t])
               f == [a \in 1 .. Len(l) - k + 1 |-> a + k - 1]
    <3>1. k \in 1 .. Len(l) /\ Len(l) \in Nat /\ DOMAIN l = 1 .. Len(l) /\ l \in Seq(SegIds)
      BY <1>2, <1>3, <2>2, RangeSeq
    <3>2. rest[t] = SubSeq(l, k, Len(l))
      BY <2>2
    <3> HIDE DEF l, k, rest
    <3>3. /\ rest[t] \in Seq(SegIds) /\ Len(rest[t]) = Len(l) - k + 1
          /\ DOMAIN rest[t] = 1 .. Len(l) - k + 1
          /\ \A a \in 1 .. Len(l) - k + 1 : rest[t][a] = l[a + k - 1]
      BY <3>1, <3>2
    <3>4. f \in [DOMAIN rest[t] -> DOMAIN l]
      BY <3>1, <3>3
    <3>5. \A a, b \in DOMAIN rest[t] : a < b => f[a] < f[b]
      BY <3>1, <3>3
    <3>6. \A a \in DOMAIN rest[t] : rest[t][a] = l[f[a]]
      BY <3>1, <3>3
    <3>7. rest[t] # <<>> /\ Last(rest[t]) = Last(l)
      BY <3>1, <3>3 DEF Last
    <3> QED
      BY <3>3, <3>4, <3>5, <3>6, <3>7 DEF Sublist, l
  <2> QED
    BY <2>1, <2>2
<1>5. rest \in [Threads -> Seq(SegIds)]
  BY <1>4
<1>6. \A t \in Threads : S.list[t] # <<>> => rest[t] = SubSeq(S.list[t], keep(S.list[t]), Len(S.list[t]))
  OBVIOUS
<1> HIDE DEF rest
<1>7. Listed(rest)
  BY <1>2, <1>4, <1>5, SublistListed
<1>8. /\ Shrunk(S.seg, S.list, sg_put(S.seg, Dropped(S.list, rest)), rest)
      /\ \A i \in SegIds : InList(rest, i) => sg_put(S.seg, Dropped(S.list, rest))[i] = S.seg[i]
  <2>1. Grown(S.seg, S.seg, rest)
    BY <1>2 DEF Grown
  <2> QED
    BY <1>4, <1>5, <1>7, <2>1, PutShrunk
<1>9. T = [seg |-> sg_put(S.seg, Dropped(S.list, rest)), list |-> rest, run |-> S.run, cset |-> S.cset]
  BY <1>1 DEF DState
<1> HIDE DEF T
<1>10. T \in DState
  BY <1>5, <1>8, <1>9, DStateFields DEF DState, Shrunk
<1>11. Owned(T.seg, T.list, x)
  BY <1>8, <1>9, ShrunkOwned
<1>12. ASSUME NEW t \in Threads, S.list[t] # <<>>
       PROVE  \E k \in 1 .. Len(S.list[t]) :
                /\ T.list[t] = SubSeq(S.list[t], k, Len(S.list[t]))
                /\ \A j \in 1 .. k - 1 : vc_lte(S.seg[S.list[t][j]].vc, min)
                /\ k = Len(S.list[t]) \/ ~ vc_lte(S.seg[S.list[t][k]].vc, min)
  BY <1>3, <1>6, <1>9, <1>12, ZenonT(60)
<1>13. T.run = S.run /\ T.cset = S.cset /\ T.seg = sg_put(S.seg, Dropped(S.list, rest)) /\ T.list = rest
  BY <1>9
<1> QED
  BY <1>8, <1>10, <1>11, <1>12, <1>13, Zenon DEF T, min

(* thread_merge_segments.  The pass over a list, step by step. *)
MergeStep(sg, l, p, k) ==
  IF k \in 2 .. Len(l) - 1 /\ Last(p) = l[k - 1] /\ sg[l[k - 1]].refcnt = 1 /\ sg[l[k]].refcnt = 1
  THEN p ELSE Append(p, l[k])

LEMMA merge_passSteps ==
  ASSUME NEW sg, NEW l, Len(l) \in Nat
  PROVE  /\ merge_pass(sg, l)[0] = <<>>
         /\ \A k \in 1 .. Len(l) : merge_pass(sg, l)[k] = MergeStep(sg, l, merge_pass(sg, l)[k - 1], k)
PROOF
<1> DEFINE Steps(g, n) == g = [k \in 0 .. n |-> IF k = 0 THEN <<>> ELSE MergeStep(sg, l, g[k - 1], k)]
           Bad == {n \in 0 .. Len(l) : ~ \E g : Steps(g, n)}
<1>1. ASSUME Bad # {} PROVE FALSE
  <2>0. Bad \in SUBSET Nat
    OBVIOUS
  <2>1. PICK n \in Bad : \A k \in Bad : n <= k
    <3> HIDE DEF Bad
    <3> QED
      BY <1>1, <2>0, LeastNat
  <2>2. n # 0
    <3>1. Steps([k \in 0 .. 0 |-> <<>>], 0)
      OBVIOUS
    <3> QED
      BY <2>1, <3>1
  <2>3. n - 1 \in 0 .. Len(l) /\ n - 1 \notin Bad /\ n \in 1 .. Len(l)
    BY <2>1, <2>2
  <2>4. PICK g : Steps(g, n - 1)
    BY <2>3
  <2> DEFINE h == [k \in 0 .. n |-> IF k = n THEN MergeStep(sg, l, g[n - 1], n) ELSE g[k]]
  <2>5. ASSUME NEW k \in 0 .. n
        PROVE  h[k] = IF k = 0 THEN <<>> ELSE MergeStep(sg, l, h[k - 1], k)
    <3>1. CASE k = 0
      BY <2>3, <2>4, <3>1
    <3>2. CASE k # 0 /\ k # n
      <4>1. k - 1 \in 0 .. n /\ k - 1 # n /\ k \in 0 .. n - 1
        BY <2>3, <3>2
      <4> QED
        BY <2>4, <3>2, <4>1
    <3>3. CASE k = n
      BY <2>3, <3>3
    <3> QED
      BY <3>1, <3>2, <3>3
  <2>6. Steps(h, n)
    BY <2>5
  <2> QED
    BY <2>1, <2>6
<1>2. \E g : Steps(g, Len(l))
  BY <1>1
<1>3. merge_pass(sg, l) = CHOOSE g : Steps(g, Len(l))
  BY DEF merge_pass, MergeStep
<1>4. Steps(merge_pass(sg, l), Len(l))
  BY <1>2, <1>3
<1> QED
  BY <1>4

(* What the pass has left of the first k segments. *)
Passed(sg, l, p, k) ==
  /\ p \in Seq(SegIds) /\ (k >= 1 => Len(p) >= 1)
  /\ \E f \in [1 .. Len(p) -> 1 .. k] :
       /\ \A a, b \in 1 .. Len(p) : a < b => f[a] < f[b]
       /\ \A a \in 1 .. Len(p) : p[a] = l[f[a]]
  /\ \A a \in 1 .. k : l[a] \notin Range(p) =>
       /\ a \in 2 .. Len(l) - 1 /\ l[a - 1] \in Range(p)
       /\ sg[l[a - 1]].refcnt = 1 /\ sg[l[a]].refcnt = 1
  /\ k >= 1 /\ k = Len(l) => Last(p) = l[k]

LEMMA PassedStep ==
  ASSUME NEW sg, NEW l \in Seq(SegIds), NEW k \in 1 .. Len(l), NEW p, Passed(sg, l, p, k - 1)
  PROVE  Passed(sg, l, MergeStep(sg, l, p, k), k)
PROOF
<1> DEFINE r == MergeStep(sg, l, p, k)
<1>1. /\ p \in Seq(SegIds) /\ Len(p) \in Nat /\ DOMAIN p = 1 .. Len(p) /\ k \in Nat /\ Len(l) \in Nat
      /\ l[k] \in SegIds
  BY RangeSeq DEF Passed
<1>2. PICK f \in [1 .. Len(p) -> 1 .. k - 1] :
        /\ \A a, b \in 1 .. Len(p) : a < b => f[a] < f[b]
        /\ \A a \in 1 .. Len(p) : p[a] = l[f[a]]
  BY DEF Passed
<1>3. \A a \in 1 .. k - 1 : l[a] \notin Range(p) =>
       /\ a \in 2 .. Len(l) - 1 /\ l[a - 1] \in Range(p)
       /\ sg[l[a - 1]].refcnt = 1 /\ sg[l[a]].refcnt = 1
  BY DEF Passed
<1>4. CASE /\ k \in 2 .. Len(l) - 1 /\ Last(p) = l[k - 1]
           /\ sg[l[k - 1]].refcnt = 1 /\ sg[l[k]].refcnt = 1
  <2>1. r = p
    BY <1>4 DEF MergeStep
  <2>2. Len(p) >= 1 /\ l[k - 1] \in Range(p)
    <3>1. Len(p) >= 1
      BY <1>1, <1>4 DEF Passed
    <3> QED
      <4>1. p # <<>> /\ Last(p) \in Range(p)
        BY <1>1, <3>1, RangeSeq
      <4> QED
        BY <1>4, <4>1
  <2>3. f \in [1 .. Len(p) -> 1 .. k]
    BY <1>1
  <2>4. \E g \in [1 .. Len(p) -> 1 .. k] :
          /\ \A a, b \in 1 .. Len(p) : a < b => g[a] < g[b]
          /\ \A a \in 1 .. Len(p) : p[a] = l[g[a]]
    BY <1>2, <2>3
  <2>5. \A a \in 1 .. k : l[a] \notin Range(p) =>
          /\ a \in 2 .. Len(l) - 1 /\ l[a - 1] \in Range(p)
          /\ sg[l[a - 1]].refcnt = 1 /\ sg[l[a]].refcnt = 1
    <3>1. \A a \in 1 .. k : a = k \/ a \in 1 .. k - 1
      BY <1>1
    <3> QED
      BY <1>3, <1>4, <2>2, <3>1
  <2>6. k # Len(l)
    BY <1>1, <1>4
  <2>7. Passed(sg, l, p, k)
    BY <1>1, <2>2, <2>4, <2>5, <2>6 DEF Passed
  <2> QED
    BY <2>1, <2>7
<1>5. CASE ~(/\ k \in 2 .. Len(l) - 1 /\ Last(p) = l[k - 1]
             /\ sg[l[k - 1]].refcnt = 1 /\ sg[l[k]].refcnt = 1)
  <2>1. r = Append(p, l[k])
    BY <1>5 DEF MergeStep
  <2> HIDE DEF r
  <2>2. /\ r \in Seq(SegIds) /\ Len(r) = Len(p) + 1 /\ DOMAIN r = 1 .. Len(p) + 1
        /\ r[Len(p) + 1] = l[k] /\ \A a \in 1 .. Len(p) : r[a] = p[a]
    BY <1>1, <2>1
  <2>3. Range(r) = Range(p) \cup {l[k]}
    BY <1>1, <2>2, SMTT(30) DEF Range
  <2> DEFINE g == [a \in 1 .. Len(r) |-> IF a = Len(p) + 1 THEN k ELSE f[a]]
  <2>4. g \in [1 .. Len(r) -> 1 .. k]
    BY <1>1, <2>2
  <2>5. ASSUME NEW a \in 1 .. Len(r), NEW b \in 1 .. Len(r), a < b PROVE g[a] < g[b]
    <3>1. a \in 1 .. Len(p) /\ a # Len(p) + 1 /\ g[a] = f[a] /\ f[a] \in 1 .. k - 1
      BY <1>1, <2>2, <2>5
    <3>2. CASE b = Len(p) + 1
      BY <1>1, <2>2, <3>1, <3>2
    <3>3. CASE b # Len(p) + 1
      BY <1>1, <1>2, <2>2, <2>5, <3>1, <3>3, SMTT(30)
    <3> QED
      BY <3>2, <3>3
  <2>6. ASSUME NEW a \in 1 .. Len(r) PROVE r[a] = l[g[a]]
    <3>1. CASE a = Len(p) + 1
      BY <2>2, <3>1
    <3>2. CASE a # Len(p) + 1
      <4>1. a \in 1 .. Len(p) /\ g[a] = f[a]
        BY <1>1, <2>2, <3>2
      <4> QED
        BY <1>2, <2>2, <4>1
    <3> QED
      BY <3>1, <3>2
  <2>7. \E h \in [1 .. Len(r) -> 1 .. k] :
          /\ \A a, b \in 1 .. Len(r) : a < b => h[a] < h[b]
          /\ \A a \in 1 .. Len(r) : r[a] = l[h[a]]
    BY <2>4, <2>5, <2>6
  <2>8. \A a \in 1 .. k : l[a] \notin Range(r) =>
          /\ a \in 2 .. Len(l) - 1 /\ l[a - 1] \in Range(r)
          /\ sg[l[a - 1]].refcnt = 1 /\ sg[l[a]].refcnt = 1
    <3>1. \A a \in 1 .. k : a = k \/ a \in 1 .. k - 1
      BY <1>1
    <3> QED
      BY <1>3, <2>3, <3>1
  <2>9. Len(r) >= 1 /\ Last(r) = l[k]
    BY <1>1, <2>2 DEF Last
  <2>10. Passed(sg, l, r, k)
    BY <2>2, <2>7, <2>8, <2>9 DEF Passed
  <2> QED
    BY <2>10 DEF r
<1> QED
  BY <1>4, <1>5

LEMMA PassedAll ==
  ASSUME NEW sg, NEW l \in Seq(SegIds)
  PROVE  Passed(sg, l, merge_pass(sg, l)[Len(l)], Len(l))
PROOF
<1> DEFINE m == merge_pass(sg, l)
           Bad == {k \in 0 .. Len(l) : ~ Passed(sg, l, m[k], k)}
<1>1. Len(l) \in Nat
  OBVIOUS
<1>2. m[0] = <<>> /\ \A k \in 1 .. Len(l) : m[k] = MergeStep(sg, l, m[k - 1], k)
  BY <1>1, merge_passSteps
<1> HIDE DEF m
<1>3. Passed(sg, l, m[0], 0)
  <2>1. /\ Len(<<>>) = 0 /\ <<>> \in Seq(SegIds) /\ 1 .. 0 = {} /\ [a \in {} |-> a] \in [{} -> {}]
    OBVIOUS
  <2>2. \E f \in [1 .. Len(m[0]) -> 1 .. 0] :
          /\ \A a, b \in 1 .. Len(m[0]) : a < b => f[a] < f[b]
          /\ \A a \in 1 .. Len(m[0]) : m[0][a] = l[f[a]]
    BY <1>2, <2>1
  <2>3. m[0] \in Seq(SegIds) /\ \A a \in 1 .. 0 : FALSE
    BY <1>2, <2>1
  <2> QED
    BY <2>2, <2>3 DEF Passed
<1>4. ASSUME Bad # {} PROVE FALSE
  <2>1. Bad \in SUBSET Nat
    BY <1>1
  <2>2. PICK k \in Bad : \A n \in Bad : k <= n
    <3> HIDE DEF Bad
    <3> QED
      BY <1>4, <2>1, LeastNat
  <2>3. k \in 1 .. Len(l) /\ k - 1 \in 0 .. Len(l) /\ k - 1 \notin Bad
    BY <1>1, <1>3, <2>2
  <2>4. Passed(sg, l, m[k - 1], k - 1)
    BY <2>3
  <2>5. Passed(sg, l, m[k], k)
    BY <1>2, <2>3, <2>4, PassedStep
  <2> QED
    BY <2>2, <2>5
<1>5. Passed(sg, l, m[Len(l)], Len(l))
  BY <1>1, <1>4
<1> QED
  BY <1>5 DEF m

(* Merging drops segments that nothing else refers to; the accesses of a   *)
(* dropped segment are added to the one before it.                         *)
LEMMA MergeIs ==
  ASSUME NEW S \in DState, NEW x, Owned(S.seg, S.list, x)
  PROVE  LET T == thread_merge_segments(S) IN
         /\ T \in DState /\ T.run = S.run /\ T.cset = S.cset
         /\ Shrunk(S.seg, S.list, T.seg, T.list) /\ Owned(T.seg, T.list, x)
         /\ \A i \in SegIds : InList(T.list, i) =>
              \A b \in T.seg[i].bm :
                \/ b \in S.seg[i].bm
                \/ \E n \in 2 .. Len(S.list[i[1]]) - 1 :
                     S.list[i[1]][n - 1] = i /\ b \in S.seg[S.list[i[1]][n]].bm
         /\ \A q \in SegIds : InList(S.list, q) =>
              \E p \in SegIds : InList(T.list, p) /\ p[1] = q[1] /\ S.seg[q].bm \subseteq T.seg[p].bm
PROOF
<1> DEFINE kept  == [t \in Threads |-> merge_pass(S.seg, S.list[t])[Len(S.list[t])]]
           gone  == Dropped(S.list, kept)
           nxt(i) == {S.list[i[1]][k] : k \in {n \in 2 .. Len(S.list[i[1]]) : S.list[i[1]][n - 1] = i}}
           sgm == [i \in SegIds |->
                      [S.seg[i] EXCEPT !.bm = @ \cup UNION {S.seg[q].bm : q \in nxt(i) \cap gone}]]
           T == thread_merge_segments(S)
<1>1. T = [S EXCEPT !.seg = sg_put(sgm, gone), !.list = kept]
  BY SMTT(30) DEF thread_merge_segments, Dropped
<1>2. Listed(S.list) /\ S.list \in [Threads -> Seq(SegIds)] /\ S.seg \in [SegIds -> SegRec]
  BY DEF Owned, Listed
<1>3. ASSUME NEW t \in Threads
      PROVE  /\ kept[t] \in Seq(SegIds) /\ Sublist(kept[t], S.list[t])
             /\ \A a \in 1 .. Len(S.list[t]) : S.list[t][a] \notin Range(kept[t]) =>
                  /\ a \in 2 .. Len(S.list[t]) - 1 /\ S.list[t][a - 1] \in Range(kept[t])
                  /\ S.seg[S.list[t][a - 1]].refcnt = 1 /\ S.seg[S.list[t][a]].refcnt = 1
  <2> DEFINE l == S.list[t]
             K == kept[t]
  <2>1. l \in Seq(SegIds) /\ Len(l) \in Nat /\ DOMAIN l = 1 .. Len(l)
    BY <1>2
  <2>2. Passed(S.seg, l, K, Len(l))
    BY <2>1, PassedAll
  <2> HIDE DEF l, K
  <2>3. K \in Seq(SegIds) /\ DOMAIN K = 1 .. Len(K)
    BY <2>2 DEF Passed
  <2>4. l # <<>> => K # <<>> /\ Last(K) = Last(l)
    <3>1. l # <<>> => Len(l) >= 1 /\ Last(l) = l[Len(l)]
      BY <2>1, RangeSeq
    <3> QED
      BY <2>1, <2>2, <2>3, <3>1 DEF Passed
  <2>5. Sublist(K, l)
    BY <2>1, <2>2, <2>3, <2>4 DEF Sublist, Passed
  <2> QED
    BY <2>2, <2>3, <2>5 DEF l, K, Passed
<1>4. kept \in [Threads -> Seq(SegIds)] /\ \A t \in Threads : Sublist(kept[t], S.list[t])
  BY <1>3
<1>5. Listed(kept)
  <2> HIDE DEF kept
  <2> QED
    BY <1>2, <1>4, SublistListed
<1>6. ASSUME NEW i \in SegIds, NEW q \in nxt(i) \cap gone
      PROVE  /\ InList(kept, i) /\ q \in SegIds
             /\ \E n \in 2 .. Len(S.list[i[1]]) - 1 : S.list[i[1]][n - 1] = i /\ q = S.list[i[1]][n]
  <2> DEFINE t == i[1]
  <2>1. PICK n \in 2 .. Len(S.list[t]) : S.list[t][n - 1] = i /\ q = S.list[t][n]
    OBVIOUS
  <2>2. t \in Threads /\ n \in 1 .. Len(S.list[t]) /\ Len(S.list[t]) \in Nat
    BY <1>2, <2>1, ThreadsAre, ListedAt
  <2>3. q \in SegIds /\ q[1] = t
    BY <1>2, <2>1, <2>2, ListedAt
  <2>4. q \notin Range(kept[t])
    <3>1. q \in Dropped(S.list, kept)
      OBVIOUS
    <3> HIDE DEF kept, gone
    <3> QED
      BY <1>2, <1>5, <2>3, <3>1, DroppedIs DEF InList
  <2> HIDE DEF kept, gone
  <2> QED
    BY <1>3, <2>1, <2>2, <2>3, <2>4 DEF InList
<1> HIDE DEF kept, gone, nxt
<1>7. ASSUME NEW i \in SegIds
      PROVE  /\ sgm[i] \in SegRec /\ sgm[i].vc = S.seg[i].vc /\ sgm[i].refcnt = S.seg[i].refcnt
             /\ sgm[i].bm = S.seg[i].bm \cup UNION {S.seg[q].bm : q \in nxt(i) \cap gone}
             /\ ~ InList(kept, i) => sgm[i] = S.seg[i]
  <2>1. S.seg[i] \in SegRec /\ S.seg[i].bm \in SUBSET Access
    BY <1>2, SegFields
  <2>2. UNION {S.seg[q].bm : q \in nxt(i) \cap gone} \in SUBSET Access
    <3>1. ASSUME NEW q \in nxt(i) \cap gone PROVE S.seg[q].bm \in SUBSET Access
      BY <1>2, <1>6, SegFields
    <3> QED
      BY <3>1
  <2> DEFINE add == UNION {S.seg[q].bm : q \in nxt(i) \cap gone}
  <2>3. ~ InList(kept, i) => add = {}
    BY <1>6
  <2>4. sgm[i] = [S.seg[i] EXCEPT !.bm = @ \cup add]
    OBVIOUS
  <2> HIDE DEF add, sgm
  <2>5. [S.seg[i] EXCEPT !.bm = @ \cup add] \in SegRec
    BY <2>1, <2>2 DEF SegRec, add
  <2>6. add = {} => [S.seg[i] EXCEPT !.bm = @ \cup add] = S.seg[i]
    BY <2>1 DEF SegRec
  <2>7. /\ sgm[i].vc = S.seg[i].vc /\ sgm[i].refcnt = S.seg[i].refcnt
        /\ sgm[i].bm = S.seg[i].bm \cup add
    BY <2>1, <2>4 DEF SegRec
  <2> QED
    BY <2>3, <2>4, <2>5, <2>6, <2>7 DEF add
<1>8. sgm \in [SegIds -> SegRec]
  BY <1>7
<1> HIDE DEF sgm
<1>9. /\ Shrunk(S.seg, S.list, sg_put(sgm, gone), kept)
      /\ \A i \in SegIds : InList(kept, i) => sg_put(sgm, gone)[i] = sgm[i]
  <2>1. \A i \in SegIds : /\ sgm[i].vc = S.seg[i].vc /\ sgm[i].refcnt = S.seg[i].refcnt
                           /\ S.seg[i].bm \subseteq sgm[i].bm
    BY <1>7
  <2>2. Grown(S.seg, sgm, kept)
    BY <1>7, <1>8, <2>1 DEF Grown
  <2> QED
    BY <1>4, <1>5, <2>2, PutShrunk DEF gone
<1>10. T = [seg |-> sg_put(sgm, gone), list |-> kept, run |-> S.run, cset |-> S.cset]
  BY <1>1 DEF DState
<1> HIDE DEF T
<1>11. T.seg = sg_put(sgm, gone) /\ T.list = kept /\ T.run = S.run /\ T.cset = S.cset
  BY <1>10
<1>12. T \in DState
  BY <1>4, <1>9, <1>10, DStateFields DEF DState, Shrunk
<1>13. Owned(T.seg, T.list, x)
  BY <1>9, <1>11, ShrunkOwned
<1>14. ASSUME NEW i \in SegIds, InList(kept, i), NEW b \in T.seg[i].bm, b \notin S.seg[i].bm
       PROVE  \E n \in 2 .. Len(S.list[i[1]]) - 1 :
                 S.list[i[1]][n - 1] = i /\ b \in S.seg[S.list[i[1]][n]].bm
  <2>1. PICK q \in nxt(i) \cap gone : b \in S.seg[q].bm
    BY <1>7, <1>9, <1>11, <1>14
  <2> QED
    BY <1>6, <2>1
<1>15. ASSUME NEW q \in SegIds, InList(S.list, q)
       PROVE  \E p \in SegIds : InList(kept, p) /\ p[1] = q[1] /\ S.seg[q].bm \subseteq T.seg[p].bm
  <2>1. CASE InList(kept, q)
    BY <1>7, <1>9, <1>11, <2>1
  <2>2. CASE ~ InList(kept, q)
    <3> DEFINE t == q[1]
    <3>1. t \in Threads /\ q \in gone
      BY <1>2, <1>5, <1>15, <2>2, ThreadsAre, DroppedIs DEF gone
    <3>2. PICK a \in 1 .. Len(S.list[t]) : S.list[t][a] = q
      BY <1>2, <1>15, <3>1, RangeSeq, SMTT(30) DEF InList
    <3> DEFINE p == S.list[t][a - 1]
    <3>3. a \in 2 .. Len(S.list[t]) - 1 /\ p \in Range(kept[t])
      BY <1>3, <2>2, <3>1, <3>2 DEF InList
    <3>4. Len(S.list[t]) \in Nat /\ a - 1 \in 1 .. Len(S.list[t])
      BY <1>2, <3>1, <3>3, ListedAt
    <3>5. p \in SegIds /\ p[1] = t /\ InList(kept, p)
      BY <1>2, <3>1, <3>3, <3>4, ListedAt DEF InList
    <3>6. q \in nxt(p)
      <4>1. a \in {n \in 2 .. Len(S.list[p[1]]) : S.list[p[1]][n - 1] = p}
        BY <3>3, <3>4, <3>5
      <4> QED
        BY <3>2, <3>5, <4>1 DEF nxt
    <3>7. S.seg[q].bm \subseteq sgm[p].bm
      BY <1>7, <3>1, <3>5, <3>6
    <3> QED
      BY <1>9, <1>11, <3>5, <3>7
  <2> QED
    BY <2>1, <2>2
<1> QED
  BY <1>9, <1>11, <1>12, <1>13, <1>14, <1>15, Zenon DEF T

(* Clocks and accesses of segments in use may change. *)
LEMMA ChangeOwned ==
  ASSUME NEW sg, NEW ls, NEW x, Owned(sg, ls, x), NEW sgm \in [SegIds -> SegRec],
         \A i \in SegIds : sgm[i].refcnt = sg[i].refcnt,
         \A i \in SegIds : sg[i].refcnt = 0 => sgm[i] = sg[i]
  PROVE  Owned(sgm, ls, x)
PROOF
BY DEF Owned

LEMMA GetOwned ==
  ASSUME NEW sg, NEW ls, NEW x, Owned(sg, ls, x), NEW i \in SegIds
  PROVE  Owned(sg_get(sg, i), ls, [x EXCEPT ![i] = @ + 1])
PROOF
<1>1. sg \in [SegIds -> SegRec] /\ x \in [SegIds -> Nat] /\ sg[i] \in SegRec /\ sg[i].refcnt \in Nat
  BY SegFields DEF Owned
<1> DEFINE s == [sg[i] EXCEPT !.refcnt = @ + 1]
<1>2. s \in SegRec /\ s.refcnt = sg[i].refcnt + 1
  BY <1>1 DEF SegRec
<1>3. sg_get(sg, i) = [sg EXCEPT ![i] = s]
  BY DEF sg_get
<1> HIDE DEF s
<1>4. ASSUME NEW j \in SegIds
      PROVE  /\ sg_get(sg, i)[j].refcnt = [x EXCEPT ![i] = @ + 1][j] + (IF InList(ls, j) THEN 1 ELSE 0)
             /\ sg_get(sg, i)[j].refcnt = 0 => sg_get(sg, i)[j] = NoSegment
  <2>1. CASE j = i
    BY <1>1, <1>2, <1>3, <2>1 DEF Owned
  <2>2. CASE j # i
    BY <1>1, <1>3, <2>2 DEF Owned
  <2> QED
    BY <2>1, <2>2
<1>5. sg_get(sg, i) \in [SegIds -> SegRec] /\ [x EXCEPT ![i] = @ + 1] \in [SegIds -> Nat]
  BY <1>1, <1>2, <1>3
<1> QED
  BY <1>4, <1>5 DEF Owned

LEMMA PutOwned ==
  ASSUME NEW sg, NEW ls, NEW x, Owned(sg, ls, x), NEW ids, \A i \in SegIds : i \in ids => x[i] # 0
  PROVE  Owned(sg_put(sg, ids), ls, [i \in SegIds |-> IF i \in ids THEN x[i] - 1 ELSE x[i]])
PROOF
<1> DEFINE y == [i \in SegIds |-> IF i \in ids THEN x[i] - 1 ELSE x[i]]
           sg2 == sg_put(sg, ids)
<1>1. /\ sg \in [SegIds -> SegRec] /\ x \in [SegIds -> Nat]
      /\ \A i \in SegIds : sg[i].refcnt \in Nat /\ sg[i].refcnt = x[i] + (IF InList(ls, i) THEN 1 ELSE 0)
      /\ \A i \in SegIds : sg[i].refcnt = 0 => sg[i] = NoSegment
  BY SegFields DEF Owned
<1>2. /\ sg2 \in [SegIds -> SegRec]
      /\ \A i \in SegIds : i \notin ids => sg2[i] = sg[i]
      /\ \A i \in SegIds : i \in ids =>
              sg2[i] = IF sg[i].refcnt = 1 THEN NoSegment ELSE [sg[i] EXCEPT !.refcnt = @ - 1]
  <2>1. \A i \in SegIds : i \in ids => sg[i].refcnt # 0
    BY <1>1
  <2> QED
    BY <1>1, <2>1, sg_putIs
<1>3. y \in [SegIds -> Nat]
  BY <1>1
<1> HIDE DEF sg2
<1>4. ASSUME NEW i \in SegIds
      PROVE  /\ sg2[i].refcnt = y[i] + (IF InList(ls, i) THEN 1 ELSE 0)
             /\ sg2[i].refcnt = 0 => sg2[i] = NoSegment
  <2>1. CASE i \notin ids
    BY <1>1, <1>2, <2>1
  <2>2. CASE i \in ids /\ sg[i].refcnt = 1
    BY <1>1, <1>2, <2>2, NoSegmentType
  <2>3. CASE i \in ids /\ sg[i].refcnt # 1
    <3>1. sg2[i].refcnt = sg[i].refcnt - 1
      <4>1. sg[i] \in SegRec
        BY <1>1
      <4> QED
        BY <1>2, <2>3, <4>1 DEF SegRec
    <3> QED
      BY <1>1, <2>3, <3>1
  <2> QED
    BY <2>1, <2>2, <2>3
<1> HIDE DEF y
<1>5. Owned(sg2, ls, y)
  BY <1>2, <1>3, <1>4 DEF Owned
<1> QED
  BY <1>5 DEF sg2, y

LEMMA DeleteOwned ==
  ASSUME NEW sg, NEW ls, NEW x, Owned(sg, ls, x), NEW t \in Threads
  PROVE  Owned(sg_put(sg, Range(ls[t])), [ls EXCEPT ![t] = <<>>], x)
PROOF
<1> DEFINE sg2 == sg_put(sg, Range(ls[t]))
           ls2 == [ls EXCEPT ![t] = <<>>]
<1>1. /\ sg \in [SegIds -> SegRec] /\ x \in [SegIds -> Nat] /\ Listed(ls)
      /\ \A i \in SegIds : sg[i].refcnt \in Nat /\ sg[i].refcnt = x[i] + (IF InList(ls, i) THEN 1 ELSE 0)
      /\ \A i \in SegIds : sg[i].refcnt = 0 => sg[i] = NoSegment
  BY SegFields DEF Owned
<1>2. ls2 \in [Threads -> Seq(SegIds)] /\ ls2[t] = <<>> /\ \A u \in Threads : u # t => ls2[u] = ls[u]
  BY <1>1 DEF Listed
<1>3. DOMAIN ls2[t] = {} /\ Range(ls2[t]) = {}
  BY <1>2 DEF Range
<1> HIDE DEF ls2
<1>4. Listed(ls2)
  <2>1. \A u \in Threads : \A a \in DOMAIN ls2[u] : ls2[u][a] \in SegIds /\ ls2[u][a][1] = u
    BY <1>1, <1>2, <1>3 DEF Listed
  <2>2. \A u \in Threads : \A a, b \in DOMAIN ls2[u] : ls2[u][a] = ls2[u][b] => a = b
    BY <1>1, <1>2, <1>3, Zenon DEF Listed
  <2> QED
    BY <1>2, <2>1, <2>2 DEF Listed
<1>5. \A i \in SegIds : /\ i \in Range(ls[t]) => InList(ls, i) /\ ~ InList(ls2, i)
                        /\ i \notin Range(ls[t]) => (InList(ls2, i) <=> InList(ls, i))
  <2>1. \A i \in Range(ls[t]) : i[1] = t /\ InList(ls, i)
    BY <1>1, ListedAt
  <2>2. ASSUME NEW i \in SegIds PROVE i[1] \in Threads
    BY ThreadsAre
  <2> QED
    BY <1>2, <1>3, <2>1, <2>2 DEF InList
<1>6. /\ sg2 \in [SegIds -> SegRec]
      /\ \A i \in SegIds : i \notin Range(ls[t]) => sg2[i] = sg[i]
      /\ \A i \in SegIds : i \in Range(ls[t]) =>
              sg2[i] = IF sg[i].refcnt = 1 THEN NoSegment ELSE [sg[i] EXCEPT !.refcnt = @ - 1]
  <2>1. \A i \in SegIds : i \in Range(ls[t]) => sg[i].refcnt # 0
    BY <1>1, <1>5
  <2> QED
    BY <1>1, <2>1, sg_putIs
<1> HIDE DEF sg2
<1>7. ASSUME NEW i \in SegIds
      PROVE  /\ sg2[i].refcnt = x[i] + (IF InList(ls2, i) THEN 1 ELSE 0)
             /\ sg2[i].refcnt = 0 => sg2[i] = NoSegment
  <2>1. CASE i \notin Range(ls[t])
    BY <1>1, <1>5, <1>6, <2>1
  <2>2. CASE i \in Range(ls[t]) /\ sg[i].refcnt = 1
    BY <1>1, <1>5, <1>6, <2>2, NoSegmentType
  <2>3. CASE i \in Range(ls[t]) /\ sg[i].refcnt # 1
    <3>1. sg2[i].refcnt = sg[i].refcnt - 1
      <4>1. sg[i] \in SegRec
        BY <1>1
      <4> QED
        BY <1>6, <2>3, <4>1 DEF SegRec
    <3> QED
      BY <1>1, <1>5, <2>3, <3>1
  <2> QED
    BY <2>1, <2>2, <2>3
<1>8. Owned(sg2, ls2, x)
  BY <1>1, <1>4, <1>6, <1>7 DEF Owned
<1> QED
  BY <1>8 DEF sg2, ls2

-----------------------------------------------------------------------------
(* The operations keep the ledger *)

(* T comes from S by steps that leave the references from outside alone. *)
Steady(S, T, x) ==
  /\ T \in DState /\ Owned(T.seg, T.list, x) /\ T.run = S.run
  /\ \A u \in Threads : T.list[u] = <<>> <=> S.list[u] = <<>>
  /\ \A u \in Threads : HasRoom(S.seg, u) => HasRoom(T.seg, u)

LEMMA SteadyTrans ==
  ASSUME NEW S, NEW T, NEW U, NEW x, Steady(S, T, x), Steady(T, U, x)
  PROVE  Steady(S, U, x)
PROOF
BY DEF Steady

LEMMA ConflictSetType ==
  ASSUME NEW S \in DState, NEW t \in Threads
  PROVE  ConflictSet(S, t) \in SUBSET Access
PROOF
<1>1. ASSUME NEW q \in UNION {Range(S.list[j]) : j \in Threads \ {t}} PROVE S.seg[q].bm \in SUBSET Access
  <2>1. PICK j \in Threads : q \in Range(S.list[j])
    OBVIOUS
  <2>2. S.list[j] \in Seq(SegIds)
    BY DStateFields
  <2>3. q \in SegIds
    BY <2>1, <2>2, RangeSeq
  <2> QED
    BY <2>3, DStateFields, SegFields
<1> QED
  BY <1>1 DEF ConflictSet

LEMMA ComputeIs ==
  ASSUME NEW S \in DState
  PROVE  /\ thread_compute_conflict_set(S) =
              [seg |-> S.seg, list |-> S.list, run |-> S.run, cset |-> ConflictSet(S, S.run)]
         /\ thread_compute_conflict_set(S) \in DState
PROOF
<1>1. ConflictSet(S, S.run) \in SUBSET Access
  BY ConflictSetType, DStateFields
<1>2. thread_compute_conflict_set(S) =
              [seg |-> S.seg, list |-> S.list, run |-> S.run, cset |-> ConflictSet(S, S.run)]
  BY DEF thread_compute_conflict_set, DState
<1> QED
  BY <1>1, <1>2, DStateFields DEF DState

LEMMA ComputeSteady ==
  ASSUME NEW S \in DState, NEW x, Owned(S.seg, S.list, x)
  PROVE  Steady(S, thread_compute_conflict_set(S), x)
PROOF
BY ComputeIs DEF Steady

LEMMA CombineIs ==
  ASSUME NEW S \in DState, NEW t \in Threads, S.list[t] # <<>>, NEW vc \in Clock
  PROVE  LET T == CombineLatest(S, t, vc)
             L == Latest(S, t) IN
         /\ T \in DState /\ T.list = S.list /\ T.run = S.run /\ T.cset = S.cset
         /\ \A i \in SegIds : i # L => T.seg[i] = S.seg[i]
         /\ T.seg[L].vc = vc_combine(S.seg[L].vc, vc)
         /\ T.seg[L].bm = S.seg[L].bm /\ T.seg[L].refcnt = S.seg[L].refcnt
PROOF
<1> DEFINE L == Latest(S, t)
           v == vc_combine(S.seg[L].vc, vc)
           T == CombineLatest(S, t, vc)
<1>1. S.seg \in [SegIds -> SegRec] /\ L \in SegIds /\ S.seg[L] \in SegRec /\ S.seg[L].vc \in Clock
  BY LatestIs, DStateFields, SegFields
<1>2. v \in Clock
  BY <1>1, vc_combineType
<1> DEFINE s == [S.seg[L] EXCEPT !.vc = v]
<1>3. s \in SegRec /\ s.vc = v /\ s.bm = S.seg[L].bm /\ s.refcnt = S.seg[L].refcnt
  BY <1>1, <1>2 DEF SegRec
<1>4. T = [S EXCEPT !.seg[L].vc = v]
  BY DEF CombineLatest
<1> HIDE DEF L, v
<1>5. T = [seg |-> [S.seg EXCEPT ![L] = s], list |-> S.list, run |-> S.run, cset |-> S.cset]
  BY <1>4 DEF DState
<1> HIDE DEF s, T
<1>6. [S.seg EXCEPT ![L] = s] \in [SegIds -> SegRec]
  BY <1>1, <1>3
<1>7. T \in DState
  BY <1>5, <1>6, DStateFields DEF DState
<1>8. T.seg = [S.seg EXCEPT ![L] = s] /\ T.list = S.list /\ T.run = S.run /\ T.cset = S.cset
  BY <1>5
<1>9. T.seg[L] = s /\ \A i \in SegIds : i # L => T.seg[i] = S.seg[i]
  BY <1>1, <1>8
<1> QED
  BY <1>3, <1>7, <1>8, <1>9 DEF T, L, v

LEMMA CombineSteady ==
  ASSUME NEW S \in DState, NEW x, Owned(S.seg, S.list, x), NEW t \in Threads, S.list[t] # <<>>, NEW vc \in Clock
  PROVE  Steady(S, CombineLatest(S, t, vc), x)
PROOF
<1> DEFINE T == CombineLatest(S, t, vc)
           L == Latest(S, t)
<1>1. /\ T \in DState /\ T.list = S.list /\ T.run = S.run
      /\ \A i \in SegIds : i # L => T.seg[i] = S.seg[i]
      /\ T.seg[L].refcnt = S.seg[L].refcnt
  BY CombineIs
<1>2. L \in SegIds /\ InList(S.list, L) /\ S.seg[L].refcnt # 0
  BY LatestIs DEF Owned
<1> HIDE DEF T, L
<1>3. /\ \A i \in SegIds : T.seg[i].refcnt = S.seg[i].refcnt
      /\ \A i \in SegIds : S.seg[i].refcnt = 0 => T.seg[i] = S.seg[i]
      /\ T.seg \in [SegIds -> SegRec]
  BY <1>1, <1>2, DStateFields
<1>4. Owned(T.seg, S.list, x)
  BY <1>3, ChangeOwned
<1>5. ASSUME NEW u \in Threads, HasRoom(S.seg, u) PROVE HasRoom(T.seg, u)
  BY <1>3, <1>5 DEF HasRoom, SegIds
<1>6. Steady(S, T, x)
  BY <1>1, <1>4, <1>5 DEF Steady
<1> QED
  BY <1>6 DEF T

LEMMA ShrunkSteady ==
  ASSUME NEW S \in DState, NEW T \in DState, NEW x, Owned(S.seg, S.list, x), T.run = S.run,
         Shrunk(S.seg, S.list, T.seg, T.list)
  PROVE  Steady(S, T, x)
PROOF
<1>1. Owned(T.seg, T.list, x) /\ Listed(S.list)
  BY ShrunkOwned DEF Owned
<1>2. \A u \in Threads : T.list[u] = <<>> <=> S.list[u] = <<>>
  BY <1>1, ShrunkListed
<1>3. ASSUME NEW i \in SegIds, S.seg[i].refcnt = 0 PROVE T.seg[i].refcnt = 0
  <2>1. ~ InList(S.list, i)
    BY <1>3 DEF Owned
  <2> QED
    BY <1>3, <2>1 DEF Shrunk
<1>4. ASSUME NEW u \in Threads, HasRoom(S.seg, u) PROVE HasRoom(T.seg, u)
  BY <1>3, <1>4 DEF HasRoom, SegIds
<1> QED
  BY <1>1, <1>2, <1>4 DEF Steady

LEMMA DiscardSteady ==
  ASSUME NEW S \in DState, NEW x, Owned(S.seg, S.list, x)
  PROVE  Steady(S, thread_discard_ordered_segments(S), x)
PROOF
BY DiscardIs, ShrunkSteady

LEMMA MergeSteady ==
  ASSUME NEW S \in DState, NEW x, Owned(S.seg, S.list, x)
  PROVE  Steady(S, thread_merge_segments(S), x)
PROOF
BY MergeIs, ShrunkSteady

(* The same, for steps that may use up the last free segment of t. *)
SteadyBut(S, T, x, t) ==
  /\ T \in DState /\ Owned(T.seg, T.list, x) /\ T.run = S.run
  /\ \A u \in Threads : T.list[u] = <<>> <=> S.list[u] = <<>>
  /\ \A u \in Threads : u # t /\ HasRoom(S.seg, u) => HasRoom(T.seg, u)

(* T is S with one more segment of t. *)
Appended(S, T, x, t) ==
  /\ T \in DState /\ Owned(T.seg, T.list, x) /\ T.run = S.run /\ T.cset = S.cset
  /\ \A u \in Threads : u # t => T.list[u] = S.list[u]
  /\ T.list[t] # <<>>
  /\ \A u \in Threads : u # t /\ HasRoom(S.seg, u) => HasRoom(T.seg, u)

LEMMA AppendKeeps ==
  ASSUME NEW S \in DState, NEW x, Owned(S.seg, S.list, x),
         NEW c \in Threads, NEW t \in Threads, S.list[c] # <<>>, HasRoom(S.seg, t)
  PROVE  Appended(S, thread_append_segment(S, c, t), x, t)
PROOF
<1> DEFINE T == thread_append_segment(S, c, t)
<1>1. PICK i \in SegIds :
           /\ i[1] = t /\ S.seg[i].refcnt = 0
           /\ T = [seg  |-> NewSegment(S.seg, ClockOf(S, c), t, i),
                   list |-> [S.list EXCEPT ![t] = Append(@, i)], run  |-> S.run, cset |-> S.cset]
           /\ T \in DState
  BY AppendFields
<1> HIDE DEF T
<1>2. /\ T.seg = NewSegment(S.seg, ClockOf(S, c), t, i) /\ T.run = S.run /\ T.cset = S.cset
      /\ T.list = [S.list EXCEPT ![t] = Append(@, i)]
  BY <1>1
<1>3. Owned(T.seg, T.list, x)
  BY <1>1, <1>2, LatestIs, AppendOwned
<1>4. S.list \in [Threads -> Seq(SegIds)] /\ S.seg \in [SegIds -> SegRec]
  BY DStateFields
<1>5. T.list[t] # <<>> /\ \A u \in Threads : u # t => T.list[u] = S.list[u]
  <2>1. S.list[t] \in Seq(SegIds) /\ T.list[t] = Append(S.list[t], i)
    BY <1>2, <1>4
  <2>2. Len(T.list[t]) = Len(S.list[t]) + 1 /\ Len(S.list[t]) \in Nat
    BY <2>1
  <2>3. T.list[t] # <<>>
    BY <2>2
  <2> QED
    BY <1>2, <1>4, <2>3
<1>6. \A j \in SegIds : j # i => T.seg[j] = S.seg[j]
  BY <1>2, <1>4 DEF NewSegment
<1>7. ASSUME NEW u \in Threads, u # t, HasRoom(S.seg, u) PROVE HasRoom(T.seg, u)
  <2>1. PICK k \in 1 .. MaxSegments : S.seg[<<u, k>>].refcnt = 0
    BY <1>7 DEF HasRoom
  <2>2. <<u, k>> \in SegIds /\ <<u, k>> # i
    BY <1>1, <1>7 DEF SegIds
  <2> QED
    BY <1>6, <2>1, <2>2 DEF HasRoom
<1> QED
  BY <1>1, <1>2, <1>3, <1>5, <1>7 DEF T, Appended

LEMMA NewSegmentKeeps ==
  ASSUME NEW S \in DState, NEW x, Owned(S.seg, S.list, x), NEW t \in Threads,
         S.list[t] # <<>>, HasRoom(S.seg, t)
  PROVE  SteadyBut(S, thread_new_segment(S, t), x, t)
PROOF
<1> DEFINE A == thread_append_segment(S, t, t)
           B == thread_compute_conflict_set(A)
           C == thread_discard_ordered_segments(B)
           D == thread_merge_segments(C)
<1>1. Appended(S, A, x, t)
  BY AppendKeeps
<1>2. thread_new_segment(S, t) = IF s_segment_merging THEN D ELSE C
  BY DEF thread_new_segment
<1> HIDE DEF A
<1>3. Steady(A, B, x)
  BY <1>1, ComputeSteady DEF Appended
<1> HIDE DEF B
<1>4. Steady(B, C, x)
  BY <1>3, DiscardSteady DEF Steady
<1> HIDE DEF C
<1>5. Steady(C, D, x)
  BY <1>4, MergeSteady DEF Steady
<1> HIDE DEF D
<1>6. Steady(A, C, x) /\ Steady(A, D, x)
  BY <1>3, <1>4, <1>5, SteadyTrans
<1>7. ASSUME NEW T, Steady(A, T, x) PROVE SteadyBut(S, T, x, t)
  BY <1>1, <1>7 DEF Steady, SteadyBut, Appended
<1> QED
  BY <1>2, <1>6, <1>7

LEMMA Combine2Keeps ==
  ASSUME NEW S \in DState, NEW x, Owned(S.seg, S.list, x), NEW t \in Threads, S.list[t] # <<>>, NEW vc \in Clock
  PROVE  Steady(S, thread_combine_vc2(S, t, vc), x)
PROOF
<1> DEFINE A == CombineLatest(S, t, vc)
           B == thread_compute_conflict_set(A)
           C == thread_discard_ordered_segments(B)
<1>1. Steady(S, A, x)
  BY CombineSteady
<1> HIDE DEF A
<1>2. Steady(A, B, x)
  BY <1>1, ComputeSteady DEF Steady
<1> HIDE DEF B
<1>3. Steady(B, C, x)
  BY <1>2, DiscardSteady DEF Steady
<1>4. thread_combine_vc2(S, t, vc) = C
  BY DEF thread_combine_vc2, A, B
<1> HIDE DEF C
<1> QED
  BY <1>1, <1>2, <1>3, <1>4, SteadyTrans

LEMMA CombineKeeps ==
  ASSUME NEW S \in DState, NEW x, Owned(S.seg, S.list, x), NEW t \in Threads, S.list[t] # <<>>,
         NEW u \in Threads, S.list[u] # <<>>
  PROVE  Steady(S, thread_combine_vc(S, t, u), x)
PROOF
<1> DEFINE A == CombineLatest(S, t, ClockOf(S, u))
           B == thread_discard_ordered_segments(A)
           C == thread_compute_conflict_set(B)
<1>1. Steady(S, A, x)
  BY LatestIs, CombineSteady
<1> HIDE DEF A
<1>2. Steady(A, B, x)
  BY <1>1, DiscardSteady DEF Steady
<1> HIDE DEF B
<1>3. Steady(B, C, x)
  BY <1>2, ComputeSteady DEF Steady
<1>4. thread_combine_vc(S, t, u) \in {B, C}
  BY DEF thread_combine_vc, A, B
<1> HIDE DEF C
<1> QED
  BY <1>1, <1>2, <1>3, <1>4, SteadyTrans

LEMMA DeleteIs ==
  ASSUME NEW S \in DState, NEW x, Owned(S.seg, S.list, x), NEW t \in Threads
  PROVE  LET T == thread_delete(S, t) IN
         /\ T = [seg |-> sg_put(S.seg, Range(S.list[t])), list |-> [S.list EXCEPT ![t] = <<>>],
                 run |-> S.run, cset |-> S.cset]
         /\ T \in DState /\ Owned(T.seg, T.list, x)
PROOF
<1> DEFINE T == thread_delete(S, t)
<1>1. T = [seg |-> sg_put(S.seg, Range(S.list[t])), list |-> [S.list EXCEPT ![t] = <<>>],
           run |-> S.run, cset |-> S.cset]
  <2> DEFINE sg == sg_put(S.seg, Range(S.list[t]))
  <2>1. T = [S EXCEPT !.seg = sg, !.list[t] = <<>>]
    BY DEF thread_delete
  <2> HIDE DEF sg
  <2>2. T = [seg |-> sg, list |-> [S.list EXCEPT ![t] = <<>>], run |-> S.run, cset |-> S.cset]
    BY <2>1 DEF DState
  <2> QED
    BY <2>2 DEF sg
<1> HIDE DEF T
<1>2. Owned(T.seg, T.list, x)
  BY <1>1, DeleteOwned
<1>3. T.seg \in [SegIds -> SegRec] /\ T.list \in [Threads -> Seq(SegIds)]
  BY <1>2 DEF Owned, Listed
<1> QED
  BY <1>1, <1>2, <1>3, DStateFields DEF DState, T

(* thread_get_latest_segment moves a reference to the latest segment. *)
Moved(x, old, new) ==
  [i \in SegIds |-> x[i] - (IF i = old THEN 1 ELSE 0) + (IF i = new THEN 1 ELSE 0)]

LEMMA GetLatestIs ==
  ASSUME NEW S \in DState, NEW x, Owned(S.seg, S.list, x), NEW t \in Threads, S.list[t] # <<>>,
         NEW old \in SegIds \cup {Null}, old # Null => x[old] # 0
  PROVE  LET T == thread_get_latest_segment(S, old, t) IN
         /\ T \in DState /\ T.list = S.list /\ T.run = S.run /\ T.cset = S.cset
         /\ Owned(T.seg, S.list, Moved(x, old, Latest(S, t)))
         /\ \A u \in Threads : HasRoom(S.seg, u) => HasRoom(T.seg, u)
         /\ \A i \in SegIds : \/ T.seg[i].vc = S.seg[i].vc /\ T.seg[i].bm = S.seg[i].bm
                              \/ T.seg[i] = NoSegment /\ ~ InList(S.list, i) /\ i = old /\ x[i] = 1
PROOF
<1> DEFINE L == Latest(S, t)
           sg == sg_put(S.seg, {old})
           T == thread_get_latest_segment(S, old, t)
           y == [i \in SegIds |-> IF i \in {old} THEN x[i] - 1 ELSE x[i]]
<1>1. S.seg \in [SegIds -> SegRec] /\ x \in [SegIds -> Nat] /\ L \in SegIds /\ InList(S.list, L)
      /\ Listed(S.list)
  BY LatestIs, DStateFields DEF Owned
<1>2. \A i \in SegIds : i \in {old} => x[i] # 0
  BY ThreadsAre
<1>3. Owned(sg, S.list, y)
  BY <1>2, PutOwned
<1>4. T = [S EXCEPT !.seg = sg_get(sg, L)]
  BY DEF thread_get_latest_segment
<1>5. \A i \in SegIds : i # old => sg[i] = S.seg[i]
  BY DEF sg_put
<1>6. \A i \in SegIds : i = old => sg[i] = IF S.seg[i].refcnt = 1 THEN NoSegment ELSE [S.seg[i] EXCEPT !.refcnt = @ - 1]
  BY DEF sg_put
<1> HIDE DEF L, sg
<1>7. T = [seg |-> sg_get(sg, L), list |-> S.list, run |-> S.run, cset |-> S.cset]
  BY <1>4 DEF DState
<1> HIDE DEF T, y
<1>8. Owned(sg_get(sg, L), S.list, [y EXCEPT ![L] = @ + 1])
  BY <1>1, <1>3, GetOwned
<1>9. [y EXCEPT ![L] = @ + 1] = Moved(x, old, L)
  <2>1. y \in [SegIds -> Nat] /\ \A i \in SegIds : y[i] = IF i = old THEN x[i] - 1 ELSE x[i]
    BY <1>3 DEF Owned, y
  <2>2. ASSUME NEW i \in SegIds PROVE [y EXCEPT ![L] = @ + 1][i] = Moved(x, old, L)[i]
    BY <1>1, <2>1 DEF Moved
  <2>3. DOMAIN Moved(x, old, L) = SegIds /\ DOMAIN [y EXCEPT ![L] = @ + 1] = SegIds
    BY <2>1 DEF Moved
  <2>4. [y EXCEPT ![L] = @ + 1] = [i \in SegIds |-> [y EXCEPT ![L] = @ + 1][i]]
    BY <2>1
  <2>5. Moved(x, old, L) = [i \in SegIds |-> Moved(x, old, L)[i]]
    BY DEF Moved
  <2> QED
    BY <2>2, <2>4, <2>5
<1>10. T.seg = sg_get(sg, L) /\ T.list = S.list /\ T.run = S.run /\ T.cset = S.cset
  BY <1>7
<1>11. T.seg \in [SegIds -> SegRec] /\ sg \in [SegIds -> SegRec]
  BY <1>3, <1>8, <1>10 DEF Owned
<1>12. T \in DState
  BY <1>7, <1>10, <1>11, DStateFields DEF DState
<1>13. ASSUME NEW i \in SegIds PROVE T.seg[i].vc = sg[i].vc /\ T.seg[i].bm = sg[i].bm
  <2>1. sg[L] \in SegRec
    BY <1>1, <1>11
  <2>2. [sg[L] EXCEPT !.refcnt = @ + 1].vc = sg[L].vc /\ [sg[L] EXCEPT !.refcnt = @ + 1].bm = sg[L].bm
    BY <2>1 DEF SegRec
  <2> QED
    BY <1>1, <1>10, <1>11, <2>2 DEF sg_get
<1>14. ASSUME NEW i \in SegIds
       PROVE  \/ T.seg[i].vc = S.seg[i].vc /\ T.seg[i].bm = S.seg[i].bm
              \/ T.seg[i] = NoSegment /\ ~ InList(S.list, i) /\ i = old /\ x[i] = 1
  <2>1. CASE i # old
    BY <1>5, <1>13, <2>1
  <2>2. CASE i = old /\ S.seg[i].refcnt # 1
    <3>1. S.seg[i] \in SegRec
      BY <1>1
    <3>2. sg[i].vc = S.seg[i].vc /\ sg[i].bm = S.seg[i].bm
      BY <1>6, <2>2, <3>1 DEF SegRec
    <3> QED
      BY <1>13, <3>2
  <2>3. CASE i = old /\ S.seg[i].refcnt = 1
    <3>1. x[i] # 0 /\ x[i] \in Nat /\ S.seg[i].refcnt = x[i] + (IF InList(S.list, i) THEN 1 ELSE 0)
      BY <1>1, <1>2, <2>3 DEF Owned
    <3>2. ~ InList(S.list, i) /\ x[i] = 1
      BY <2>3, <3>1
    <3>3. i # L /\ sg[i] = NoSegment
      BY <1>1, <1>6, <2>3, <3>2
    <3>4. T.seg[i] = sg[i]
      BY <1>1, <1>10, <1>11, <3>3 DEF sg_get
    <3> QED
      BY <2>3, <3>2, <3>3, <3>4
  <2> QED
    BY <2>1, <2>2, <2>3
<1>15. ASSUME NEW i \in SegIds, S.seg[i].refcnt = 0 PROVE T.seg[i].refcnt = 0
  <2>1. i # old /\ i # L
    BY <1>1, <1>2, <1>15 DEF Owned
  <2> QED
    BY <1>1, <1>5, <1>10, <1>11, <1>15, <2>1 DEF sg_get
<1>16. ASSUME NEW u \in Threads, HasRoom(S.seg, u) PROVE HasRoom(T.seg, u)
  BY <1>15, <1>16 DEF HasRoom, SegIds
<1> QED
  BY <1>8, <1>9, <1>10, <1>12, <1>14, <1>16 DEF T, L

LEMMA GetLatestRoom ==
  ASSUME NEW S \in DState, NEW x, Owned(S.seg, S.list, x), NEW t \in Threads, S.list[t] # <<>>,
         NEW old \in SegIds \cup {Null}, old # Null => x[old] # 0, HasRoom(S.seg, t)
  PROVE  HasRoom(thread_get_latest_segment(S, old, t).seg, t)
PROOF
<1> DEFINE T == thread_get_latest_segment(S, old, t)
<1>1. \A u \in Threads : HasRoom(S.seg, u) => HasRoom(T.seg, u)
  BY GetLatestIs
<1> QED
  BY <1>1

-----------------------------------------------------------------------------
(* The state, its type and the references that mutexes and barrier nodes   *)
(* hold                                                                    *)

Event      == [thread : Threads, when : Nat, access : Access]
MutexRec   == [owner : Threads \cup {None}, recursion_count : Nat,
               last_locked_segment : SegIds \cup {Null}]
NodeRec    == [present : BOOLEAN, sg : [Rounds -> SegIds \cup {Null}]]
BarrierRec == [exists : BOOLEAN, pre_iteration : Rounds, post_iteration : Rounds,
               pre_waiters_left : 1 .. BarrierCount, post_waiters_left : 1 .. BarrierCount,
               node : [Threads -> NodeRec]]
ArrivedRec == [round : Nat, n : Nat, past : [0 .. MaxSyncs -> SUBSET Event], unseen : BOOLEAN]

TypeOK ==
  /\ s_segment_merging \in BOOLEAN /\ S0 \in DState
  /\ status \in [Threads -> {"none", "live", "finished"}]
  /\ mutex \in [Mutexes -> MutexRec] /\ barrier \in BarrierRec
  /\ waiting \in [Threads -> Nat] /\ syncs \in 0 .. MaxSyncs /\ made \in SUBSET Event
  /\ past \in [Threads -> SUBSET Event] /\ unlocked \in [Mutexes -> SUBSET Event]
  /\ arrived \in ArrivedRec /\ arrived.round <= syncs

MutexRefs(mx) == [m \in Mutexes |-> mx[m].last_locked_segment]
NodeRefs(b)   == [n \in Threads \X Rounds |-> b.node[n[1]].sg[n[2]]]
Ext(mx, b)    == [i \in SegIds |-> Refs(MutexRefs(mx), i) + Refs(NodeRefs(b), i)]

(* A thread has segments from its creation to its join; so has the thread  *)
(* that runs, and one that waits is alive.  A node refers to segments of   *)
(* its own thread, and a mutex that has been used and is free names one.   *)
(* A barrier that does not exist refers to nothing, and nobody has come.   *)
Held ==
  /\ Owned(seg, list, Ext(mutex, barrier))
  /\ \A t \in Threads : list[t] = <<>> <=> status[t] = "none"
  /\ status[running] # "none"
  /\ \A u \in Threads : \A r \in Rounds : barrier.node[u].sg[r] # Null => barrier.node[u].sg[r][1] = u
  /\ \A m \in Mutexes : mutex[m].recursion_count = 0 /\ mutex[m].owner # None =>
       mutex[m].last_locked_segment # Null
  /\ \A t \in Threads : waiting[t] # None => status[t] = "live"
  /\ ~ barrier.exists => /\ \A u \in Threads : \A r \in Rounds : barrier.node[u].sg[r] = Null
                         /\ arrived.round = 0 /\ arrived.n = 0

LEMMA RefsFinite ==
  ASSUME NEW mx, NEW b
  PROVE  /\ DOMAIN MutexRefs(mx) = Mutexes /\ IsFiniteSet(DOMAIN MutexRefs(mx))
         /\ DOMAIN NodeRefs(b) = Threads \X Rounds /\ IsFiniteSet(DOMAIN NodeRefs(b))
PROOF
<1>1. IsFiniteSet(Rounds)
  <2>1. IsFiniteSet({0}) /\ Rounds = {0} \cup {1}
    BY FS_Singleton DEF Rounds
  <2>2. IsFiniteSet({0} \cup {1})
    BY <2>1, FS_AddElement
  <2> QED
    BY <2>1, <2>2
<1>2. IsFiniteSet(Threads \X Rounds)
  BY <1>1, ThreadsAre, FS_Product
<1> QED
  BY <1>2, SizesAssumption DEF MutexRefs, NodeRefs

LEMMA ExtNat ==
  ASSUME NEW mx, NEW b
  PROVE  /\ Ext(mx, b) \in [SegIds -> Nat]
         /\ \A m \in Mutexes : mx[m].last_locked_segment \in SegIds => Ext(mx, b)[mx[m].last_locked_segment] # 0
         /\ \A u \in Threads, r \in Rounds : b.node[u].sg[r] \in SegIds => Ext(mx, b)[b.node[u].sg[r]] # 0
PROOF
<1>1. ASSUME NEW i \in SegIds
      PROVE  /\ Refs(MutexRefs(mx), i) \in Nat /\ Refs(NodeRefs(b), i) \in Nat
             /\ Ext(mx, b)[i] = Refs(MutexRefs(mx), i) + Refs(NodeRefs(b), i)
  BY RefsFinite, RefsNat DEF Ext
<1>2. Ext(mx, b) \in [SegIds -> Nat]
  BY <1>1 DEF Ext
<1>3. ASSUME NEW m \in Mutexes, mx[m].last_locked_segment \in SegIds
      PROVE  Ext(mx, b)[mx[m].last_locked_segment] # 0
  <2>1. Refs(MutexRefs(mx), mx[m].last_locked_segment) # 0
    <3>1. MutexRefs(mx)[m] = mx[m].last_locked_segment /\ m \in DOMAIN MutexRefs(mx)
      BY DEF MutexRefs
    <3> QED
      BY <3>1, RefsFinite, RefsNat
  <2> QED
    BY <1>1, <1>3, <2>1
<1>4. ASSUME NEW u \in Threads, NEW r \in Rounds, b.node[u].sg[r] \in SegIds
      PROVE  Ext(mx, b)[b.node[u].sg[r]] # 0
  <2>1. Refs(NodeRefs(b), b.node[u].sg[r]) # 0
    <3>1. <<u, r>> \in DOMAIN NodeRefs(b) /\ NodeRefs(b)[<<u, r>>] = b.node[u].sg[r]
      BY DEF NodeRefs
    <3> QED
      BY <3>1, RefsFinite, RefsNat
  <2> QED
    BY <1>1, <1>4, <2>1
<1> QED
  BY <1>2, <1>3, <1>4

LEMMA ExtSame ==
  ASSUME NEW mx, NEW b, NEW mx2, NEW b2,
         \A m \in Mutexes : mx2[m].last_locked_segment = mx[m].last_locked_segment,
         \A u \in Threads, r \in Rounds : b2.node[u].sg[r] = b.node[u].sg[r]
  PROVE  Ext(mx2, b2) = Ext(mx, b)
PROOF
<1>1. MutexRefs(mx2) = MutexRefs(mx)
  BY DEF MutexRefs
<1>2. \A n \in Threads \X Rounds : b2.node[n[1]].sg[n[2]] = b.node[n[1]].sg[n[2]]
  OBVIOUS
<1>3. NodeRefs(b2) = NodeRefs(b)
  BY <1>2 DEF NodeRefs
<1> QED
  BY <1>1, <1>3 DEF Ext

(* One mutex gives up a segment for another. *)
LEMMA ExtMutex ==
  ASSUME NEW mx, NEW b, NEW mx2, NEW m \in Mutexes,
         \A n \in Mutexes : n # m => mx2[n].last_locked_segment = mx[n].last_locked_segment
  PROVE  Ext(mx2, b) = Moved(Ext(mx, b), mx[m].last_locked_segment, mx2[m].last_locked_segment)
PROOF
<1> DEFINE f == MutexRefs(mx)
           new == mx2[m].last_locked_segment
<1>1. MutexRefs(mx2) = [f EXCEPT ![m] = new]
  BY DEF MutexRefs
<1>2. f[m] = mx[m].last_locked_segment /\ m \in DOMAIN f /\ IsFiniteSet(DOMAIN f)
  BY RefsFinite DEF MutexRefs
<1> HIDE DEF f, new
<1>3. ASSUME NEW i \in SegIds
      PROVE  Ext(mx2, b)[i] = Moved(Ext(mx, b), f[m], new)[i]
  <2>1. Refs([f EXCEPT ![m] = new], i) = Refs(f, i) - (IF f[m] = i THEN 1 ELSE 0) + (IF new = i THEN 1 ELSE 0)
    BY <1>2, RefsMove
  <2>2. Refs(f, i) \in Nat /\ Refs(NodeRefs(b), i) \in Nat
    BY <1>2, RefsFinite, RefsNat
  <2>3. Ext(mx2, b)[i] = Refs([f EXCEPT ![m] = new], i) + Refs(NodeRefs(b), i)
    BY <1>1 DEF Ext
  <2>4. Ext(mx, b)[i] = Refs(f, i) + Refs(NodeRefs(b), i)
    BY DEF Ext, f
  <2>5. Moved(Ext(mx, b), f[m], new)[i] =
          Ext(mx, b)[i] - (IF i = f[m] THEN 1 ELSE 0) + (IF i = new THEN 1 ELSE 0)
    BY DEF Moved
  <2> QED
    BY <2>1, <2>2, <2>3, <2>4, <2>5
<1>4. Ext(mx2, b) = Moved(Ext(mx, b), f[m], new)
  BY <1>3 DEF Ext, Moved
<1> QED
  BY <1>2, <1>4 DEF new

(* One entry of a barrier node does. *)
OneEntry(b, b2, u, r) ==
  \A v \in Threads, k \in Rounds : v # u \/ k # r => b2.node[v].sg[k] = b.node[v].sg[k]

LEMMA ExtNode ==
  ASSUME NEW mx, NEW b, NEW b2, NEW u \in Threads, NEW r \in Rounds, OneEntry(b, b2, u, r)
  PROVE  Ext(mx, b2) = Moved(Ext(mx, b), b.node[u].sg[r], b2.node[u].sg[r])
PROOF
<1> DEFINE f == NodeRefs(b)
           new == b2.node[u].sg[r]
           n == <<u, r>>
<1>1. NodeRefs(b2) = [f EXCEPT ![n] = new]
  <2>1. ASSUME NEW k \in Threads \X Rounds PROVE NodeRefs(b2)[k] = [f EXCEPT ![n] = new][k]
    <3>1. CASE k = n
      BY <3>1 DEF NodeRefs
    <3>2. CASE k # n
      <4>1. k[1] \in Threads /\ k[2] \in Rounds /\ (k[1] # u \/ k[2] # r)
        BY <3>2
      <4> QED
        BY <3>2, <4>1 DEF NodeRefs, OneEntry
    <3> QED
      BY <3>1, <3>2
  <2> QED
    BY <2>1 DEF NodeRefs
<1>2. f[n] = b.node[u].sg[r] /\ n \in DOMAIN f /\ IsFiniteSet(DOMAIN f)
  BY RefsFinite DEF NodeRefs
<1> HIDE DEF f, new, n
<1>3. ASSUME NEW i \in SegIds
      PROVE  Ext(mx, b2)[i] = Moved(Ext(mx, b), f[n], new)[i]
  <2>1. Refs([f EXCEPT ![n] = new], i) = Refs(f, i) - (IF f[n] = i THEN 1 ELSE 0) + (IF new = i THEN 1 ELSE 0)
    BY <1>2, RefsMove
  <2>2. Refs(f, i) \in Nat /\ Refs(MutexRefs(mx), i) \in Nat
    BY <1>2, RefsFinite, RefsNat
  <2>3. Ext(mx, b2)[i] = Refs(MutexRefs(mx), i) + Refs([f EXCEPT ![n] = new], i)
    BY <1>1 DEF Ext
  <2>4. Ext(mx, b)[i] = Refs(MutexRefs(mx), i) + Refs(f, i)
    BY DEF Ext, f
  <2>5. Moved(Ext(mx, b), f[n], new)[i] =
          Ext(mx, b)[i] - (IF i = f[n] THEN 1 ELSE 0) + (IF i = new THEN 1 ELSE 0)
    BY DEF Moved
  <2> QED
    BY <2>1, <2>2, <2>3, <2>4, <2>5
<1>4. Ext(mx, b2) = Moved(Ext(mx, b), f[n], new)
  BY <1>3 DEF Ext, Moved
<1> QED
  BY <1>2, <1>4 DEF new

(* The count the ledger keeps is the one RefCounts asks for. *)
LEMMA HeldCounts ==
  ASSUME Held
  PROVE  RefCounts
PROOF
<1> SUFFICES ASSUME NEW i \in SegIds
    PROVE seg[i].refcnt = Cardinality({t \in Threads : i \in Range(list[t])})
                  + Cardinality({m \in Mutexes : mutex[m].last_locked_segment = i})
                  + Cardinality({n \in Threads \X Rounds : barrier.node[n[1]].sg[n[2]] = i})
  BY DEF RefCounts
<1> DEFINE A == {t \in Threads : i \in Range(list[t])}
           B == {m \in Mutexes : mutex[m].last_locked_segment = i}
           C == {n \in Threads \X Rounds : barrier.node[n[1]].sg[n[2]] = i}
<1>1. Listed(list) /\ seg[i].refcnt = Ext(mutex, barrier)[i] + (IF InList(list, i) THEN 1 ELSE 0)
  BY DEF Held, Owned
<1>2. A = IF InList(list, i) THEN {i[1]} ELSE {}
  BY <1>1, ListedAt, ThreadsAre DEF InList
<1>3. Cardinality(A) = IF InList(list, i) THEN 1 ELSE 0
  BY <1>2, FS_Singleton, FS_EmptySet
<1>4. Refs(MutexRefs(mutex), i) = Cardinality(B)
  <2>1. {m \in DOMAIN MutexRefs(mutex) : MutexRefs(mutex)[m] = i} = B
    BY DEF MutexRefs
  <2> QED
    BY <2>1 DEF Refs
<1>5. Refs(NodeRefs(barrier), i) = Cardinality(C)
  <2>1. {n \in DOMAIN NodeRefs(barrier) : NodeRefs(barrier)[n] = i} = C
    BY DEF NodeRefs
  <2> QED
    BY <2>1 DEF Refs
<1>6. Ext(mutex, barrier)[i] = Cardinality(B) + Cardinality(C)
  BY <1>4, <1>5 DEF Ext
<1>7. Cardinality(B) \in Nat /\ Cardinality(C) \in Nat
  BY <1>4, <1>5, RefsFinite, RefsNat, ZenonT(60)
<1> HIDE DEF A, B, C
<1>8. seg[i].refcnt = Cardinality(A) + Cardinality(B) + Cardinality(C)
  BY <1>1, <1>3, <1>6, <1>7
<1> QED
  BY <1>8 DEF A, B, C

LEMMA InitHeld == Init => TypeOK /\ Held
PROOF
<1> SUFFICES ASSUME Init PROVE TypeOK /\ Held
  OBVIOUS
<1> DEFINE one == [vc |-> vc_increment(NoSegment.vc, 1), bm |-> {}, refcnt |-> 1]
<1>1. one \in SegRec
  BY ThreadsAre, NoSegmentType, SegFields, vc_incrementType DEF SegRec
<1>2. <<1, 1>> \in SegIds
  BY ThreadsAre, SizesAssumption DEF SegIds
<1>3. seg = [i \in SegIds |-> IF i = <<1, 1>> THEN one ELSE NoSegment]
  BY DEF Init
<1> HIDE DEF one
<1>4. seg \in [SegIds -> SegRec]
  BY <1>1, <1>3, NoSegmentType
<1>5. list = [t \in Threads |-> IF t = 1 THEN << <<1, 1>> >> ELSE <<>>]
  BY DEF Init
<1>6. list \in [Threads -> Seq(SegIds)]
  BY <1>2, <1>5
<1>7. Listed(list)
  <2>1. list[1] = << <<1, 1>> >> /\ \A t \in Threads : t # 1 => list[t] = <<>>
    BY <1>5, ThreadsAre
  <2>2. DOMAIN << <<1, 1>> >> = {1} /\ DOMAIN <<>> = {} /\ << <<1, 1>> >>[1] = <<1, 1>>
    OBVIOUS
  <2>3. \A t \in Threads : \A a \in DOMAIN list[t] : list[t][a] = <<1, 1>> /\ t = 1 /\ a = 1
    BY <2>1, <2>2
  <2>4. <<1, 1>>[1] = 1
    OBVIOUS
  <2> QED
    BY <1>2, <1>6, <2>3, <2>4 DEF Listed
<1>8. \A i \in SegIds : InList(list, i) <=> i = <<1, 1>>
  <2>1. Range(<< <<1, 1>> >>) = {<<1, 1>>} /\ Range(<<>>) = {}
    BY DEF Range
  <2>2. \A i \in SegIds : i[1] \in Threads /\ <<1, 1>>[1] = 1
    BY ThreadsAre
  <2> QED
    BY <1>5, <2>1, <2>2 DEF InList
<1>9. mutex = [m \in Mutexes |-> NoMutex] /\ barrier = NewBarrier
  BY DEF Init
<1>10. Ext(mutex, barrier) = [i \in SegIds |-> 0]
  <2>1. ASSUME NEW i \in SegIds PROVE Ext(mutex, barrier)[i] = 0
    <3>1. i # Null
      BY ThreadsAre
    <3>2. \A m \in DOMAIN MutexRefs(mutex) : MutexRefs(mutex)[m] # i
      BY <1>9, <3>1 DEF MutexRefs, NoMutex
    <3>3. \A n \in DOMAIN NodeRefs(barrier) : NodeRefs(barrier)[n] # i
      BY <1>9, <3>1 DEF NodeRefs, NewBarrier, NoNode
    <3>4. Refs(MutexRefs(mutex), i) = 0 /\ Refs(NodeRefs(barrier), i) = 0
      BY <3>2, <3>3, RefsFinite, RefsNat
    <3> QED
      BY <3>4 DEF Ext
  <2> QED
    BY <2>1 DEF Ext
<1>11. one.refcnt = 1
  BY DEF one
<1>12. Owned(seg, list, Ext(mutex, barrier))
  BY <1>3, <1>4, <1>7, <1>8, <1>10, <1>11, NoSegmentType DEF Owned
<1>13. /\ status = [t \in Threads |-> IF t = 1 THEN "live" ELSE "none"] /\ running = 1
       /\ waiting = [t \in Threads |-> None]
  BY DEF Init
<1>14. \A t \in Threads : list[t] = <<>> <=> status[t] = "none"
  BY <1>5, <1>13
<1>15. barrier.exists /\ \A u \in Threads : \A r \in Rounds : barrier.node[u].sg[r] = Null
  BY <1>9 DEF NewBarrier, NoNode
<1>16. Held
  BY <1>9, <1>12, <1>13, <1>14, <1>15, ThreadsAre DEF Held, NoMutex
<1>17. S0 \in DState
  BY <1>4, <1>6, ThreadsAre DEF S0, DState, Init
<1>18. NoNode \in NodeRec /\ NoMutex \in MutexRec
  BY DEF NoNode, NodeRec, NoMutex, MutexRec
<1>19. barrier \in BarrierRec
  BY <1>9, <1>18, SizesAssumption DEF BarrierRec, NewBarrier, Rounds
<1>20. NoArrivals \in ArrivedRec /\ NoArrivals.round = 0
  BY DEF NoArrivals, ArrivedRec
<1>21. syncs = 0 /\ 0 \in 0 .. MaxSyncs
  BY SizesAssumption DEF Init
<1>22. TypeOK
  BY <1>13, <1>17, <1>18, <1>19, <1>20, <1>21 DEF TypeOK, Init, None
<1> QED
  BY <1>16, <1>22

-----------------------------------------------------------------------------
(* Every action keeps the ledger *)

LEMMA S0Fields ==
  /\ S0.seg = seg /\ S0.list = list /\ S0.run = running /\ S0.cset = s_conflict_set
PROOF
BY DEF S0

LEMMA ScheduledIs ==
  ASSUME TypeOK, NEW t \in Threads
  PROVE  /\ Scheduled(t) \in DState /\ Scheduled(t).seg = seg /\ Scheduled(t).list = list
         /\ Scheduled(t).run = t
         /\ Scheduled(t).cset = IF t = running THEN s_conflict_set
                                ELSE ConflictSet([S0 EXCEPT !.run = t], t)
PROOF
<1>1. S0 \in DState
  BY DEF TypeOK
<1>2. CASE t = running
  BY <1>1, <1>2, S0Fields DEF Scheduled
<1>3. CASE t # running
  <2> DEFINE R == [S0 EXCEPT !.run = t]
  <2>1. R \in DState /\ R.seg = seg /\ R.list = list /\ R.run = t
    BY <1>1 DEF S0, DState
  <2> HIDE DEF R
  <2>2. Scheduled(t) = thread_compute_conflict_set(R)
    BY <1>3 DEF Scheduled, R
  <2>3. /\ Scheduled(t) = [seg |-> seg, list |-> list, run |-> t, cset |-> ConflictSet(R, t)]
        /\ Scheduled(t) \in DState
    BY <2>1, <2>2, ComputeIs
  <2>4. Scheduled(t).cset = ConflictSet(R, t)
    BY <2>3
  <2> QED
    BY <1>3, <2>3, <2>4 DEF R
<1> QED
  BY <1>2, <1>3

(* A thread that runs, or is to run, has segments. *)
LEMMA HasList ==
  ASSUME TypeOK, Held, NEW t \in Threads, status[t] # "none"
  PROVE  /\ list[t] # <<>> /\ list[t] \in Seq(SegIds) /\ list[t] # <<>>
         /\ Latest(S0, t) = Last(list[t]) /\ Latest(Scheduled(t), t) = Last(list[t])
         /\ Last(list[t]) \in SegIds /\ InList(list, Last(list[t])) /\ Last(list[t])[1] = t
         /\ seg[Last(list[t])].refcnt # 0
PROOF
<1>1. list[t] # <<>> /\ S0 \in DState /\ Listed(list)
  BY DEF Held, TypeOK, Owned
<1>2. /\ Latest(S0, t) = Last(list[t])
      /\ Last(list[t]) \in SegIds /\ InList(list, Last(list[t])) /\ Last(list[t])[1] = t
  BY <1>1, S0Fields, LatestIs
<1>3. Latest(Scheduled(t), t) = Last(list[t])
  BY ScheduledIs DEF Latest
<1>4. list[t] \in Seq(SegIds)
  BY <1>1, ListedAt
<1> QED
  BY <1>1, <1>2, <1>3, <1>4 DEF Held, Owned

LEMMA RoomIs ==
  ASSUME NEW t
  PROVE  Room(t) <=> HasRoom(seg, t)
PROOF
BY DEF Room, HasRoom

LEMMA MutexFields ==
  ASSUME TypeOK, NEW m \in Mutexes
  PROVE  /\ mutex[m].owner \in Threads \cup {None} /\ mutex[m].recursion_count \in Nat
         /\ mutex[m].last_locked_segment \in SegIds \cup {Null} /\ mutex[m] \in MutexRec
PROOF
BY DEF TypeOK, MutexRec

LEMMA NodeFields ==
  ASSUME TypeOK, NEW u \in Threads
  PROVE  /\ barrier \in BarrierRec /\ barrier.node[u] \in NodeRec /\ barrier.node \in [Threads -> NodeRec]
         /\ barrier.node[u].present \in BOOLEAN /\ barrier.node[u].sg \in [Rounds -> SegIds \cup {Null}]
         /\ \A r \in Rounds : barrier.node[u].sg[r] \in SegIds \cup {Null}
PROOF
<1>1. barrier \in BarrierRec /\ barrier.node[u] \in NodeRec /\ barrier.node \in [Threads -> NodeRec]
  BY DEF TypeOK, BarrierRec
<1> QED
  BY <1>1 DEF NodeRec

(* The variables of DRD after a step that leaves mutexes and the barrier   *)
(* alone, and gives no thread an end or a beginning.                       *)
LEMMA BecomeHeld ==
  ASSUME TypeOK, Held, NEW X \in DState, Become(X), NEW t \in Threads, X.run = t,
         status[t] # "none", UNCHANGED <<s_segment_merging, status>>,
         \A u \in Threads : X.list[u] = <<>> <=> list[u] = <<>>,
         Owned(X.seg, X.list, Ext(mutex', barrier'))
  PROVE  /\ Owned(seg', list', Ext(mutex', barrier'))
         /\ \A u \in Threads : list'[u] = <<>> <=> status'[u] = "none"
         /\ status'[running'] # "none"
         /\ S0' \in DState
PROOF
<1>1. seg' = X.seg /\ list' = X.list /\ running' = X.run /\ s_conflict_set' = X.cset
  BY DEF Become
<1>2. S0' = [seg |-> X.seg, list |-> X.list, run |-> X.run, cset |-> X.cset]
  BY <1>1 DEF S0
<1>3. S0' \in DState
  BY <1>2, DStateFields DEF DState
<1> QED
  BY <1>1, <1>3 DEF Held

LEMMA TraceAccessHeld ==
  ASSUME TypeOK, Held, NEW t \in Threads, NEW a \in Access, TraceAccess(t, a)
  PROVE  TypeOK' /\ Held'
PROOF
<1> DEFINE L == Last(list[t])
           s == [seg[L] EXCEPT !.bm = @ \cup {a}]
           X == [Scheduled(t) EXCEPT !.seg[L].bm = @ \cup {a}]
           e == [thread |-> t, when |-> syncs, access |-> a]
<1>1. status[t] # "none" /\ UNCHANGED <<s_segment_merging, status, mutex, barrier, waiting, syncs, unlocked, arrived>>
      /\ made' = made \cup {e} /\ past' = [past EXCEPT ![t] = @ \cup {e}]
  BY DEF TraceAccess, InClient
<1>2. L \in SegIds /\ InList(list, L) /\ seg[L].refcnt # 0 /\ L = Latest(S0, t)
  BY <1>1, HasList
<1>3. Become(X)
  BY <1>2 DEF TraceAccess
<1>4. Owned(seg, list, Ext(mutex, barrier)) /\ seg \in [SegIds -> SegRec] /\ seg[L] \in SegRec
  BY <1>2 DEF Held, Owned
<1>5. s \in SegRec /\ s.refcnt = seg[L].refcnt
  BY <1>4 DEF SegRec
<1>6. Scheduled(t) \in DState /\ Scheduled(t).seg = seg /\ Scheduled(t).list = list /\ Scheduled(t).run = t
  BY ScheduledIs
<1>7. X = [seg |-> [seg EXCEPT ![L] = s], list |-> list, run |-> t, cset |-> Scheduled(t).cset]
  <2> DEFINE Y == Scheduled(t)
  <2> HIDE DEF L, Y
  <2>1. Y \in DState /\ Y.seg = seg /\ Y.list = list /\ Y.run = t
    BY <1>6 DEF Y
  <2>2. [Y EXCEPT !.seg[L].bm = @ \cup {a}] = [Y EXCEPT !.seg = [Y.seg EXCEPT ![L] = [Y.seg[L] EXCEPT !.bm = @ \cup {a}]]]
    BY <2>1, Zenon
  <2>3. [Y EXCEPT !.seg = [Y.seg EXCEPT ![L] = [Y.seg[L] EXCEPT !.bm = @ \cup {a}]]] = [Y EXCEPT !.seg = [seg EXCEPT ![L] = s]]
    BY <2>1
  <2> HIDE DEF s
  <2>4. [Y EXCEPT !.seg = [seg EXCEPT ![L] = s]] =
          [seg |-> [seg EXCEPT ![L] = s], list |-> list, run |-> t, cset |-> Y.cset]
    BY <2>1, SetSeg
  <2> QED
    BY <2>2, <2>3, <2>4 DEF Y
<1> HIDE DEF X, s, L
<1>8. [seg EXCEPT ![L] = s] \in [SegIds -> SegRec]
  BY <1>4, <1>5
<1>9. X \in DState /\ X.seg = [seg EXCEPT ![L] = s] /\ X.list = list /\ X.run = t
  BY <1>6, <1>7, <1>8, DStateFields DEF DState
<1>10. /\ \A i \in SegIds : X.seg[i].refcnt = seg[i].refcnt
       /\ \A i \in SegIds : seg[i].refcnt = 0 => X.seg[i] = seg[i]
       /\ X.seg \in [SegIds -> SegRec]
  BY <1>2, <1>4, <1>5, <1>8, <1>9
<1>11. Owned(X.seg, X.list, Ext(mutex', barrier'))
  BY <1>1, <1>4, <1>9, <1>10, ChangeOwned, ZenonT(60)
<1>12. /\ Owned(seg', list', Ext(mutex', barrier'))
       /\ \A u \in Threads : list'[u] = <<>> <=> status'[u] = "none"
       /\ status'[running'] # "none"
       /\ S0' \in DState
  BY <1>1, <1>3, <1>9, <1>11, BecomeHeld
<1>13. e \in Event
  BY SizesAssumption DEF Event, TypeOK
<1>14. TypeOK'
  BY <1>1, <1>12, <1>13 DEF TypeOK
<1> QED
  BY <1>1, <1>12, <1>14 DEF Held

LEMMA ForgetType ==
  ASSUME TypeOK, NEW E, NEW p \in [Threads -> SUBSET Event], Forget(E, p)
  PROVE  /\ made' \in SUBSET Event /\ past' \in [Threads -> SUBSET Event]
         /\ unlocked' \in [Mutexes -> SUBSET Event] /\ arrived' \in ArrivedRec
         /\ arrived'.round = arrived.round /\ arrived'.n = arrived.n
         /\ \A r \in 0 .. MaxSyncs : arrived'.past[r] = arrived.past[r] \ E
         /\ arrived'.unseen = arrived.unseen
PROOF
<1>1. made \in SUBSET Event /\ unlocked \in [Mutexes -> SUBSET Event] /\ arrived \in ArrivedRec
  BY DEF TypeOK
<1>2. made' = made \ E /\ past' = [t \in Threads |-> p[t] \ E]
      /\ unlocked' = [m \in Mutexes |-> unlocked[m] \ E]
      /\ arrived' = [arrived EXCEPT !.past = [r \in 0 .. MaxSyncs |-> arrived.past[r] \ E]]
  BY DEF Forget
<1>3. [r \in 0 .. MaxSyncs |-> arrived.past[r] \ E] \in [0 .. MaxSyncs -> SUBSET Event]
  <2>1. arrived.past \in [0 .. MaxSyncs -> SUBSET Event]
    BY <1>1 DEF ArrivedRec
  <2> QED
    BY <2>1
<1> DEFINE q == [r \in 0 .. MaxSyncs |-> arrived.past[r] \ E]
<1>4. \A r \in 0 .. MaxSyncs : q[r] = arrived.past[r] \ E
  OBVIOUS
<1> HIDE DEF q
<1>5. arrived' = [round |-> arrived.round, n |-> arrived.n, past |-> q, unseen |-> arrived.unseen]
  BY <1>1, <1>2 DEF ArrivedRec, q
<1>6. arrived' \in ArrivedRec
  BY <1>1, <1>3, <1>5 DEF ArrivedRec, q
<1>7. arrived'.round = arrived.round /\ arrived'.n = arrived.n /\ arrived'.past = q /\ arrived'.unseen = arrived.unseen
  BY <1>5
<1> QED
  BY <1>1, <1>2, <1>4, <1>6, <1>7

LEMMA StopUsingMemHeld ==
  ASSUME TypeOK, Held, NEW t \in Threads, NEW y \in Addrs, StopUsingMem(t, y)
  PROVE  TypeOK' /\ Held'
PROOF
<1> DEFINE S == Scheduled(t)
           sg == [i \in SegIds |-> [seg[i] EXCEPT !.bm = IF \E j \in Threads : i \in Range(list[j])
                                                         THEN @ \ On(@, y) ELSE @]]
           T == [S EXCEPT !.seg = sg]
           x == Ext(mutex, barrier)
<1>1. status[t] # "none" /\ UNCHANGED <<s_segment_merging, status, mutex, barrier, waiting, syncs>>
      /\ Forget({e \in made : e.access.addr = y}, past)
  BY DEF StopUsingMem, InClient
<1>2. Become(T) \/ Become(thread_compute_conflict_set(T))
  BY DEF StopUsingMem
<1>3. S \in DState /\ S.seg = seg /\ S.list = list /\ S.run = t
  BY ScheduledIs
<1>4. Owned(seg, list, x) /\ seg \in [SegIds -> SegRec]
  BY DEF Held, Owned
<1>5. ASSUME NEW i \in SegIds
      PROVE  sg[i] \in SegRec /\ sg[i].refcnt = seg[i].refcnt /\ (seg[i].refcnt = 0 => sg[i] = seg[i])
  <2>1. seg[i] \in SegRec /\ (seg[i].refcnt = 0 => seg[i] = NoSegment)
    BY <1>4 DEF Owned
  <2> DEFINE b == IF \E j \in Threads : i \in Range(list[j]) THEN seg[i].bm \ On(seg[i].bm, y) ELSE seg[i].bm
  <2>2. sg[i] = [seg[i] EXCEPT !.bm = b]
    OBVIOUS
  <2>3. b \in SUBSET Access /\ (seg[i].refcnt = 0 => b = seg[i].bm)
    BY <2>1, SegFields, NoSegmentType
  <2> HIDE DEF b, sg
  <2>4. [seg[i] EXCEPT !.bm = b] \in SegRec /\ [seg[i] EXCEPT !.bm = b].refcnt = seg[i].refcnt
    BY <2>1, <2>3 DEF SegRec
  <2>5. b = seg[i].bm => [seg[i] EXCEPT !.bm = b] = seg[i]
    BY <2>1 DEF SegRec
  <2> QED
    BY <2>2, <2>3, <2>4, <2>5
<1>6. sg \in [SegIds -> SegRec]
  BY <1>5
<1> HIDE DEF sg, S
<1>7. T = [seg |-> sg, list |-> S.list, run |-> S.run, cset |-> S.cset]
  BY <1>3, SetSeg
<1> HIDE DEF T
<1>8. T \in DState /\ T.seg = sg /\ T.list = list /\ T.run = t
  BY <1>3, <1>6, <1>7, DStateFields DEF DState
<1>9. Owned(T.seg, T.list, x)
  BY <1>4, <1>5, <1>6, <1>8, ChangeOwned
<1>10. Steady(T, thread_compute_conflict_set(T), x)
  BY <1>8, <1>9, ComputeSteady
<1>11. PICK X \in DState : Become(X) /\ X.run = t /\ Owned(X.seg, X.list, x)
                           /\ \A u \in Threads : X.list[u] = <<>> <=> list[u] = <<>>
  BY <1>2, <1>8, <1>9, <1>10 DEF Steady
<1>12. Ext(mutex', barrier') = x
  BY <1>1
<1>13. /\ Owned(seg', list', Ext(mutex', barrier'))
       /\ \A u \in Threads : list'[u] = <<>> <=> status'[u] = "none"
       /\ status'[running'] # "none"
       /\ S0' \in DState
  BY <1>1, <1>11, <1>12, BecomeHeld
<1>14. /\ made' \in SUBSET Event /\ past' \in [Threads -> SUBSET Event]
       /\ unlocked' \in [Mutexes -> SUBSET Event] /\ arrived' \in ArrivedRec
       /\ arrived'.round = arrived.round /\ arrived'.n = arrived.n
  BY <1>1, ForgetType DEF TypeOK
<1>15. TypeOK'
  BY <1>1, <1>13, <1>14 DEF TypeOK
<1> QED
  BY <1>1, <1>13, <1>14, <1>15 DEF Held

LEMMA FinishHeld ==
  ASSUME TypeOK, Held, NEW t \in Threads, Finish(t)
  PROVE  TypeOK' /\ Held'
PROOF
<1>1. /\ status[t] = "live" /\ waiting[t] = None /\ Become(Scheduled(t))
      /\ status' = [status EXCEPT ![t] = "finished"]
      /\ UNCHANGED <<s_segment_merging, mutex, barrier, waiting, syncs, made, past, unlocked, arrived>>
  BY DEF Finish, InClient, histVars
<1>2. Scheduled(t) \in DState /\ Scheduled(t).seg = seg /\ Scheduled(t).list = list /\ Scheduled(t).run = t
  BY ScheduledIs
<1>3. seg' = seg /\ list' = list /\ running' = t /\ s_conflict_set' = Scheduled(t).cset
  BY <1>1, <1>2 DEF Become
<1>4. S0' = [seg |-> seg, list |-> list, run |-> t, cset |-> Scheduled(t).cset]
  BY <1>3 DEF S0
<1>5. S0' \in DState
  BY <1>2, <1>4, DStateFields DEF DState
<1>6. status \in [Threads -> {"none", "live", "finished"}]
  BY DEF TypeOK
<1>7. TypeOK'
  BY <1>1, <1>5, <1>6 DEF TypeOK
<1>8. Held'
  BY <1>1, <1>3, <1>6 DEF Held
<1> QED
  BY <1>7, <1>8

LEMMA FreshThread ==
  ASSUME TypeOK, NEW t \in Threads, NEW u \in Threads, Create(t, u)
  PROVE  status[u] = "none" /\ status[t] = "live" /\ u # t
PROOF
<1> DEFINE F == {v \in Threads : status[v] = "none"} \cup {DRD_N_THREADS}
<1>1. F \in SUBSET Nat /\ F # {}
  BY ThreadsAre
<1>2. u \in F
  BY <1>1, MinNat DEF Create
<1> QED
  BY <1>2, ThreadsAre DEF Create, InClient

LEMMA CreateHeld ==
  ASSUME TypeOK, Held, NEW t \in Threads, NEW u \in Threads, Create(t, u)
  PROVE  TypeOK' /\ Held'
PROOF
<1> DEFINE S == Scheduled(t)
           A == thread_append_segment(S, t, u)
           X == thread_new_segment(A, t)
           x == Ext(mutex, barrier)
<1>1. /\ status[u] = "none" /\ status[t] = "live" /\ u # t
      /\ HasRoom(seg, t) /\ HasRoom(seg, u) /\ Become(X)
      /\ status' = [status EXCEPT ![u] = "live"] /\ past' = [past EXCEPT ![u] = past[t]]
      /\ syncs' = syncs + 1 /\ syncs < MaxSyncs
      /\ UNCHANGED <<s_segment_merging, mutex, barrier, waiting, made, unlocked, arrived>>
  BY FreshThread, RoomIs DEF Create, Sync
<1>2. S \in DState /\ S.seg = seg /\ S.list = list /\ S.run = t /\ list[t] # <<>>
  BY <1>1, ScheduledIs, HasList
<1>3. Owned(S.seg, S.list, x)
  BY <1>2 DEF Held
<1> HIDE DEF S
<1>4. Appended(S, A, x, u)
  BY <1>1, <1>2, <1>3, AppendKeeps
<1> HIDE DEF A
<1>5. A \in DState /\ Owned(A.seg, A.list, x) /\ A.list[t] # <<>> /\ HasRoom(A.seg, t) /\ A.run = t
      /\ \A v \in Threads : v # u => A.list[v] = list[v]
      /\ A.list[u] # <<>>
  BY <1>1, <1>2, <1>4 DEF Appended
<1>6. SteadyBut(A, X, x, t)
  BY <1>5, NewSegmentKeeps
<1> HIDE DEF X
<1>7. X \in DState /\ Owned(X.seg, X.list, x) /\ X.run = t
      /\ \A v \in Threads : v # u => (X.list[v] = <<>> <=> list[v] = <<>>)
      /\ X.list[u] # <<>>
  BY <1>5, <1>6 DEF SteadyBut
<1>8. seg' = X.seg /\ list' = X.list /\ running' = t /\ s_conflict_set' = X.cset
  BY <1>1, <1>7 DEF Become
<1>9. S0' \in DState
  BY <1>7, <1>8, DStateFields DEF DState, S0
<1>10. status \in [Threads -> {"none", "live", "finished"}] /\ past \in [Threads -> SUBSET Event]
       /\ syncs \in 0 .. MaxSyncs /\ arrived.round \in Nat /\ arrived.round <= syncs
  BY DEF TypeOK, ArrivedRec
<1>11. status' \in [Threads -> {"none", "live", "finished"}] /\ past' \in [Threads -> SUBSET Event]
       /\ syncs' \in 0 .. MaxSyncs /\ arrived.round <= syncs'
  BY <1>1, <1>10, SizesAssumption
<1>12. TypeOK'
  BY <1>1, <1>9, <1>11 DEF TypeOK
<1>13. Ext(mutex', barrier') = x
  BY <1>1
<1>14. \A v \in Threads : list'[v] = <<>> <=> status'[v] = "none"
  BY <1>1, <1>7, <1>8, <1>10 DEF Held
<1>15. Held'
  BY <1>1, <1>7, <1>8, <1>10, <1>13, <1>14 DEF Held
<1> QED
  BY <1>12, <1>15

(* References from outside are put one by one, or those of all threads at *)
(* once.                                                                   *)
Less(x, ids) == [i \in SegIds |-> IF i \in ids THEN x[i] - 1 ELSE x[i]]

LEMMA LessMoved ==
  ASSUME NEW x \in [SegIds -> Nat], NEW old
  PROVE  Less(x, {old}) = Moved(x, old, Null)
PROOF
<1>1. ASSUME NEW i \in SegIds
      PROVE (IF i \in {old} THEN x[i] - 1 ELSE x[i]) = x[i] - (IF i = old THEN 1 ELSE 0) + (IF i = Null THEN 1 ELSE 0)
  BY ThreadsAre
<1> QED
  BY <1>1 DEF Less, Moved

LEMMA NodeDestroyIs ==
  ASSUME TypeOK, NEW S \in DState, NEW u \in Threads, Owned(S.seg, S.list, Ext(mutex, barrier))
  PROVE  LET T == barrier_thread_destroy(S, barrier.node[u])
             b == [barrier EXCEPT !.node[u] = NoNode] IN
         /\ T \in DState /\ T.list = S.list /\ T.run = S.run /\ T.cset = S.cset
         /\ Owned(T.seg, S.list, Ext(mutex, b)) /\ b \in BarrierRec /\ b.exists = barrier.exists
         /\ \A v \in Threads : b.node[v] = IF v = u THEN NoNode ELSE barrier.node[v]
         /\ \A i \in SegIds : \/ T.seg[i].vc = S.seg[i].vc /\ T.seg[i].bm = S.seg[i].bm
                              \/ T.seg[i] = NoSegment /\ ~ InList(S.list, i)
PROOF
<1> DEFINE T == barrier_thread_destroy(S, barrier.node[u])
           b == [barrier EXCEPT !.node[u] = NoNode]
           n1 == [present |-> TRUE, sg |-> [barrier.node[u].sg EXCEPT ![0] = Null]]
           b1 == [barrier EXCEPT !.node[u] = n1]
           x == Ext(mutex, barrier)
           o0 == barrier.node[u].sg[0]
           o1 == barrier.node[u].sg[1]
           sg1 == sg_put(S.seg, {o0})
           sg2 == sg_put(sg1, {o1})
<1>1. /\ barrier \in BarrierRec /\ barrier.node \in [Threads -> NodeRec]
      /\ barrier.node[u].sg \in [Rounds -> SegIds \cup {Null}]
      /\ o0 \in SegIds \cup {Null} /\ o1 \in SegIds \cup {Null}
  BY NodeFields DEF Rounds
<1>2. n1 \in NodeRec /\ n1.sg[0] = Null /\ n1.sg[1] = o1 /\ NoNode \in NodeRec
      /\ NoNode.sg[0] = Null /\ NoNode.sg[1] = Null
  BY <1>1 DEF NodeRec, NoNode, Rounds
<1>3. b \in BarrierRec /\ b.exists = barrier.exists /\ b.node = [barrier.node EXCEPT ![u] = NoNode]
      /\ b1.node = [barrier.node EXCEPT ![u] = n1]
  BY <1>1, <1>2 DEF BarrierRec
<1>4. /\ \A v \in Threads : b.node[v] = IF v = u THEN NoNode ELSE barrier.node[v]
      /\ \A v \in Threads : b1.node[v] = IF v = u THEN n1 ELSE barrier.node[v]
  BY <1>1, <1>3
<1> HIDE DEF b, b1, n1
<1>5. Ext(mutex, b1) = Moved(x, o0, Null)
  <2>1. 0 \in Rounds /\ OneEntry(barrier, b1, u, 0)
    BY <1>2, <1>4 DEF Rounds, OneEntry
  <2>2. Ext(mutex, b1) = Moved(x, barrier.node[u].sg[0], b1.node[u].sg[0])
    BY <2>1, ExtNode
  <2> QED
    BY <1>2, <1>4, <2>2
<1>6. Ext(mutex, b) = Moved(Ext(mutex, b1), o1, Null)
  <2>1. 1 \in Rounds /\ OneEntry(b1, b, u, 1)
    BY <1>2, <1>4 DEF Rounds, OneEntry
  <2>2. b1.node[u].sg[1] = o1 /\ b.node[u].sg[1] = Null
    BY <1>2, <1>4
  <2>3. Ext(mutex, b) = Moved(Ext(mutex, b1), b1.node[u].sg[1], b.node[u].sg[1])
    BY <2>1, ExtNode
  <2> QED
    BY <2>2, <2>3
<1>7. x \in [SegIds -> Nat] /\ (o0 \in SegIds => x[o0] # 0)
  BY ExtNat DEF Rounds
<1>8. Ext(mutex, b1) \in [SegIds -> Nat] /\ (o1 \in SegIds => Ext(mutex, b1)[o1] # 0)
  <2>1. 1 \in Rounds /\ b1.node[u].sg[1] = o1
    BY <1>2, <1>4 DEF Rounds
  <2> QED
    BY <2>1, ExtNat
<1>9. Owned(sg1, S.list, Less(x, {o0}))
  BY <1>7, PutOwned DEF Less
<1>10. Owned(sg1, S.list, Ext(mutex, b1))
  BY <1>5, <1>7, <1>9, LessMoved
<1>11. Owned(sg2, S.list, Less(Ext(mutex, b1), {o1}))
  BY <1>8, <1>10, PutOwned DEF Less
<1>12. Owned(sg2, S.list, Ext(mutex, b))
  BY <1>6, <1>8, <1>11, LessMoved
<1>13. ASSUME NEW sg \in [SegIds -> SegRec], NEW y, NEW old, Owned(sg, S.list, y), old \in SegIds => y[old] # 0,
              NEW i \in SegIds
       PROVE  \/ sg_put(sg, {old})[i].vc = sg[i].vc /\ sg_put(sg, {old})[i].bm = sg[i].bm
              \/ sg_put(sg, {old})[i] = NoSegment /\ ~ InList(S.list, i)
  <2>1. CASE i # old
    BY <2>1 DEF sg_put
  <2>2. CASE i = old /\ sg[i].refcnt # 1
    <3>1. sg[i] \in SegRec /\ sg_put(sg, {old})[i] = [sg[i] EXCEPT !.refcnt = @ - 1]
      BY <2>2 DEF sg_put
    <3> QED
      BY <3>1 DEF SegRec
  <2>3. CASE i = old /\ sg[i].refcnt = 1
    <3>1. sg_put(sg, {old})[i] = NoSegment
      BY <2>3 DEF sg_put
    <3>2. y[i] # 0 /\ y[i] \in Nat /\ 1 = y[i] + (IF InList(S.list, i) THEN 1 ELSE 0)
      BY <1>13, <2>3, SMTT(30) DEF Owned
    <3> QED
      BY <3>1, <3>2
  <2> QED
    BY <2>1, <2>2, <2>3
<1>14. S.seg \in [SegIds -> SegRec] /\ sg1 \in [SegIds -> SegRec] /\ sg2 \in [SegIds -> SegRec]
  BY <1>10, <1>12 DEF Owned
<1>15. T = [S EXCEPT !.seg = sg2]
  BY DEF barrier_thread_destroy
<1>16. T = [seg |-> sg2, list |-> S.list, run |-> S.run, cset |-> S.cset]
  BY <1>15, SetSeg
<1>17. ASSUME NEW i \in SegIds
       PROVE  \/ sg2[i].vc = S.seg[i].vc /\ sg2[i].bm = S.seg[i].bm
              \/ sg2[i] = NoSegment /\ ~ InList(S.list, i)
  <2>1. \/ sg1[i].vc = S.seg[i].vc /\ sg1[i].bm = S.seg[i].bm
        \/ sg1[i] = NoSegment /\ ~ InList(S.list, i)
    BY <1>7, <1>13, <1>14, ZenonT(60)
  <2>2. \/ sg2[i].vc = sg1[i].vc /\ sg2[i].bm = sg1[i].bm
        \/ sg2[i] = NoSegment /\ ~ InList(S.list, i)
    BY <1>8, <1>10, <1>13, <1>14, ZenonT(60)
  <2> HIDE DEF sg1, sg2
  <2>3. CASE sg1[i] = NoSegment /\ ~ InList(S.list, i)
    <3>1. sg1[i].refcnt = 0 /\ Ext(mutex, b1)[i] = 0
      BY <1>8, <1>10, <2>3, NoSegmentType DEF Owned
    <3>2. i # o1
      BY <1>8, <3>1
    <3>3. sg2[i] = sg1[i]
      BY <3>2 DEF sg_put, sg2
    <3> QED
      BY <2>3, <3>3
  <2> QED
    BY <2>1, <2>2, <2>3
<1> HIDE DEF T, sg1, sg2
<1>18. T \in DState /\ T.seg = sg2 /\ T.list = S.list /\ T.run = S.run /\ T.cset = S.cset
  BY <1>14, <1>16, DStateFields DEF DState
<1> QED
  BY <1>3, <1>4, <1>12, <1>17, <1>18 DEF T, b

LEMMA MutexDeleteIs ==
  ASSUME TypeOK, NEW u
  PROVE  /\ mutex_thread_delete(u) \in [Mutexes -> MutexRec]
         /\ \A m \in Mutexes :
              /\ mutex_thread_delete(u)[m].last_locked_segment = mutex[m].last_locked_segment
              /\ mutex_thread_delete(u)[m].recursion_count = mutex[m].recursion_count
              /\ mutex_thread_delete(u)[m].owner =
                   IF mutex[m].owner = u /\ mutex[m].recursion_count > 0 THEN None ELSE mutex[m].owner
PROOF
<1>1. ASSUME NEW m \in Mutexes
      PROVE  /\ mutex_thread_delete(u)[m] \in MutexRec
             /\ mutex_thread_delete(u)[m].last_locked_segment = mutex[m].last_locked_segment
             /\ mutex_thread_delete(u)[m].recursion_count = mutex[m].recursion_count
             /\ mutex_thread_delete(u)[m].owner =
                  IF mutex[m].owner = u /\ mutex[m].recursion_count > 0 THEN None ELSE mutex[m].owner
  <2>1. mutex[m] \in MutexRec
    BY DEF TypeOK
  <2>2. mutex_thread_delete(u)[m] = IF mutex[m].owner = u /\ mutex[m].recursion_count > 0
                                    THEN [mutex[m] EXCEPT !.owner = None] ELSE mutex[m]
    BY DEF mutex_thread_delete
  <2> QED
    BY <2>1, <2>2 DEF MutexRec
<1> QED
  BY <1>1 DEF mutex_thread_delete

(* The states a join passes through. *)
LEMMA JoinSteps ==
  ASSUME TypeOK, Held, NEW t \in Threads, NEW u \in Threads, Join(t, u)
  PROVE  LET S  == Scheduled(t)
             S1 == thread_new_segment(S, u)
             S2 == thread_combine_vc(S1, t, u)
             S3 == thread_new_segment(S2, t)
             x  == Ext(mutex, barrier) IN
         /\ u # t /\ S \in DState /\ S.seg = seg /\ S.list = list /\ S.run = t
         /\ Owned(seg, list, x) /\ list[u] # <<>> /\ list[t] # <<>> /\ HasRoom(seg, u)
         /\ SteadyBut(S, S1, x, u) /\ S1.run = t /\ S1.list[u] # <<>> /\ S1.list[t] # <<>>
         /\ Steady(S1, S2, x) /\ S2.run = t /\ S2.list[u] # <<>> /\ S2.list[t] # <<>> /\ HasRoom(S2.seg, t)
         /\ SteadyBut(S2, S3, x, t) /\ S3.run = t
         /\ \A v \in Threads : S3.list[v] = <<>> <=> list[v] = <<>>
PROOF
<1> DEFINE S  == Scheduled(t)
           S1 == thread_new_segment(S, u)
           S2 == thread_combine_vc(S1, t, u)
           S3 == thread_new_segment(S2, t)
           x  == Ext(mutex, barrier)
<1>1. status[t] = "live" /\ status[u] = "finished" /\ u # t /\ HasRoom(seg, t) /\ HasRoom(seg, u)
  BY RoomIs DEF Join, InClient
<1>2. S \in DState /\ S.seg = seg /\ S.list = list /\ S.run = t /\ list[t] # <<>> /\ list[u] # <<>>
      /\ Owned(seg, list, x)
  BY <1>1, ScheduledIs, HasList DEF Held
<1> HIDE DEF S, x
<1>3. SteadyBut(S, S1, x, u)
  BY <1>1, <1>2, NewSegmentKeeps
<1> HIDE DEF S1
<1>4. S1 \in DState /\ Owned(S1.seg, S1.list, x) /\ S1.run = t /\ S1.list[u] # <<>> /\ S1.list[t] # <<>>
      /\ HasRoom(S1.seg, t)
  BY <1>1, <1>2, <1>3 DEF SteadyBut
<1>5. Steady(S1, S2, x)
  BY <1>4, CombineKeeps
<1> HIDE DEF S2
<1>6. S2 \in DState /\ Owned(S2.seg, S2.list, x) /\ S2.run = t /\ S2.list[u] # <<>> /\ S2.list[t] # <<>>
      /\ HasRoom(S2.seg, t)
  BY <1>4, <1>5 DEF Steady
<1>7. SteadyBut(S2, S3, x, t)
  BY <1>6, NewSegmentKeeps
<1> HIDE DEF S3
<1>8. S3.run = t /\ \A v \in Threads : S3.list[v] = <<>> <=> list[v] = <<>>
  BY <1>2, <1>3, <1>5, <1>6, <1>7 DEF Steady, SteadyBut
<1> QED
  BY <1>1, <1>2, <1>3, <1>4, <1>5, <1>6, <1>7, <1>8, Zenon DEF S, S1, S2, S3, x

LEMMA JoinHeld ==
  ASSUME TypeOK, Held, NEW t \in Threads, NEW u \in Threads, Join(t, u)
  PROVE  TypeOK' /\ Held'
PROOF
<1> DEFINE S  == Scheduled(t)
           S1 == thread_new_segment(S, u)
           S2 == thread_combine_vc(S1, t, u)
           S3 == thread_new_segment(S2, t)
           D  == thread_delete(S3, u)
           X  == barrier_thread_destroy(D, barrier.node[u])
           b  == [barrier EXCEPT !.node[u] = NoNode]
           x  == Ext(mutex, barrier)
<1>1. /\ status[t] = "live" /\ status[u] = "finished" /\ u # t
      /\ Become(X) /\ mutex' = mutex_thread_delete(u) /\ barrier' = b
      /\ Forget({e \in made : e.thread = u}, [past EXCEPT ![t] = @ \cup past[u], ![u] = {}])
      /\ status' = [status EXCEPT ![u] = "none"] /\ syncs' = syncs + 1 /\ syncs < MaxSyncs
      /\ UNCHANGED <<s_segment_merging, waiting>>
  BY DEF Join, InClient, Sync
<1>2. /\ S3 \in DState /\ Owned(S3.seg, S3.list, x) /\ S3.run = t
      /\ \A v \in Threads : S3.list[v] = <<>> <=> list[v] = <<>>
  BY JoinSteps DEF SteadyBut
<1> HIDE DEF S3
<1>3. /\ D = [seg |-> sg_put(S3.seg, Range(S3.list[u])), list |-> [S3.list EXCEPT ![u] = <<>>],
              run |-> S3.run, cset |-> S3.cset]
      /\ D \in DState /\ Owned(D.seg, D.list, x)
  BY <1>2, DeleteIs
<1> HIDE DEF D
<1>4. D.run = t /\ \A v \in Threads : D.list[v] = <<>> <=> (v = u \/ list[v] = <<>>)
  <2>1. D.list = [S3.list EXCEPT ![u] = <<>>] /\ D.run = t /\ S3.list \in [Threads -> Seq(SegIds)]
    BY <1>2, <1>3, DStateFields
  <2> QED
    BY <1>2, <2>1
<1>5. /\ X \in DState /\ X.list = D.list /\ X.run = t
      /\ Owned(X.seg, D.list, Ext(mutex, b)) /\ b \in BarrierRec /\ b.exists = barrier.exists
      /\ \A v \in Threads : b.node[v] = IF v = u THEN NoNode ELSE barrier.node[v]
  BY <1>3, <1>4, NodeDestroyIs, ZenonT(60)
<1> HIDE DEF X, b
<1>6. /\ mutex' \in [Mutexes -> MutexRec]
      /\ \A m \in Mutexes :
           /\ mutex'[m].last_locked_segment = mutex[m].last_locked_segment
           /\ mutex'[m].recursion_count = mutex[m].recursion_count
           /\ mutex'[m].owner # None => mutex'[m].owner = mutex[m].owner
  BY <1>1, MutexDeleteIs
<1>7. Ext(mutex', barrier') = Ext(mutex, b)
  BY <1>1, <1>6, ExtSame
<1>8. seg' = X.seg /\ list' = X.list /\ running' = t /\ s_conflict_set' = X.cset
  BY <1>1, <1>5 DEF Become
<1>9. S0' \in DState
  BY <1>5, <1>8, DStateFields DEF DState, S0
<1>10. status \in [Threads -> {"none", "live", "finished"}] /\ past \in [Threads -> SUBSET Event]
       /\ syncs \in 0 .. MaxSyncs /\ waiting \in [Threads -> Nat] /\ arrived.round \in Nat /\ arrived.round <= syncs
  BY DEF TypeOK, ArrivedRec
<1>11. [past EXCEPT ![t] = @ \cup past[u], ![u] = {}] \in [Threads -> SUBSET Event]
  BY <1>10
<1>12. /\ made' \in SUBSET Event /\ past' \in [Threads -> SUBSET Event]
       /\ unlocked' \in [Mutexes -> SUBSET Event] /\ arrived' \in ArrivedRec
       /\ arrived'.round = arrived.round /\ arrived'.n = arrived.n
  BY <1>1, <1>11, ForgetType
<1>19. syncs' \in 0 .. MaxSyncs /\ arrived'.round <= syncs'
  BY <1>1, <1>10, <1>12, SizesAssumption
<1>13. TypeOK'
  BY <1>1, <1>5, <1>6, <1>9, <1>10, <1>12, <1>19 DEF TypeOK
<1>14. \A v \in Threads : list'[v] = <<>> <=> status'[v] = "none"
  BY <1>1, <1>4, <1>5, <1>8, <1>10 DEF Held
<1>15. \A v \in Threads : \A r \in Rounds : barrier'.node[v].sg[r] # Null => barrier'.node[v].sg[r][1] = v
  BY <1>1, <1>5 DEF Held, NoNode
<1>16. \A v \in Threads : waiting'[v] # None => status'[v] = "live"
  BY <1>1, <1>10 DEF Held
<1>17. \A m \in Mutexes : mutex'[m].recursion_count = 0 /\ mutex'[m].owner # None =>
         mutex'[m].last_locked_segment # Null
  BY <1>6 DEF Held
<1>20. ~ barrier'.exists => /\ \A v \in Threads : \A r \in Rounds : barrier'.node[v].sg[r] = Null
                            /\ arrived'.round = 0 /\ arrived'.n = 0
  BY <1>1, <1>5, <1>12 DEF Held, NoNode
<1>18. Held'
  BY <1>1, <1>5, <1>7, <1>8, <1>10, <1>14, <1>15, <1>16, <1>17, <1>20 DEF Held
<1> QED
  BY <1>13, <1>18

LEMMA MutexPostLockHeld ==
  ASSUME TypeOK, Held, NEW t \in Threads, NEW m \in Mutexes, MutexPostLock(t, m)
  PROVE  TypeOK' /\ Held'
PROOF
<1> DEFINE p == mutex[m]
           S == Scheduled(t)
           x == Ext(mutex, barrier)
           R == IF p.owner \in {t, None} THEN S
                ELSE thread_combine_vc2(S, t, seg[p.last_locked_segment].vc)
<1>1. /\ status[t] = "live"
      /\ mutex' = [mutex EXCEPT ![m].owner = t, ![m].recursion_count = @ + 1]
      /\ UNCHANGED <<s_segment_merging, status, barrier, waiting, made, unlocked, arrived>>
  BY DEF MutexPostLock, InClient
<1>2. /\ p \in MutexRec /\ p.owner \in Threads \cup {None} /\ p.recursion_count \in Nat
      /\ p.last_locked_segment \in SegIds \cup {Null} /\ mutex \in [Mutexes -> MutexRec]
  BY MutexFields DEF TypeOK
<1>3. /\ S \in DState /\ S.seg = seg /\ S.list = list /\ S.run = t /\ list[t] # <<>>
      /\ Owned(S.seg, S.list, x) /\ seg \in [SegIds -> SegRec]
  <2>1. Owned(seg, list, x)
    BY DEF Held
  <2>2. seg \in [SegIds -> SegRec]
    BY <2>1 DEF Owned
  <2> QED
    BY <1>1, <2>1, <2>2, ScheduledIs, HasList
<1>4. /\ mutex' \in [Mutexes -> MutexRec]
      /\ mutex'[m].recursion_count # 0
      /\ \A n \in Mutexes : mutex'[n].last_locked_segment = mutex[n].last_locked_segment
      /\ \A n \in Mutexes : n # m => mutex'[n] = mutex[n]
  <2> DEFINE q == [p EXCEPT !.owner = t, !.recursion_count = @ + 1]
  <2>1. mutex' = [mutex EXCEPT ![m] = q]
    BY <1>1
  <2>2. q \in MutexRec /\ q.last_locked_segment = p.last_locked_segment
        /\ q.recursion_count = p.recursion_count + 1
    <3> DEFINE k == p.recursion_count + 1
    <3> HIDE DEF p
    <3> DEFINE r == [p EXCEPT !.owner = t]
    <3>0. r = [owner |-> t, recursion_count |-> p.recursion_count, last_locked_segment |-> p.last_locked_segment]
      BY <1>2 DEF MutexRec
    <3>1. k \in Nat /\ q = [owner |-> t, recursion_count |-> k, last_locked_segment |-> p.last_locked_segment]
      <4>1. q = [r EXCEPT !.recursion_count = @ + 1]
        OBVIOUS
      <4> HIDE DEF r
      <4> QED
        BY <1>2, <3>0, <4>1
    <3> HIDE DEF q, k
    <3>2. q \in MutexRec
      BY <1>2, <3>1 DEF MutexRec
    <3>3. q.last_locked_segment = p.last_locked_segment /\ q.recursion_count = k
      BY <3>1
    <3> QED
      BY <3>2, <3>3 DEF k
  <2> HIDE DEF q
  <2> QED
    BY <1>2, <2>1, <2>2
<1>5. Ext(mutex', barrier') = x
  <2>1. Ext(mutex', barrier) = x
    BY <1>4, ExtSame
  <2> QED
    BY <1>1, <2>1
<1>6. /\ syncs' \in 0 .. MaxSyncs /\ arrived.round <= syncs' /\ past' \in [Threads -> SUBSET Event]
      /\ \E X \in DState : Become(X) /\ X.run = t /\ Owned(X.seg, X.list, x)
                           /\ \A u \in Threads : X.list[u] = <<>> <=> list[u] = <<>>
  <2>1. past \in [Threads -> SUBSET Event] /\ unlocked \in [Mutexes -> SUBSET Event] /\ syncs \in 0 .. MaxSyncs
        /\ MaxSyncs \in Nat /\ arrived.round \in Nat /\ arrived.round <= syncs
    BY SizesAssumption DEF TypeOK, ArrivedRec
  <2>2. CASE /\ p.recursion_count = 0 /\ HasRoom(seg, t) /\ Become(thread_new_segment(R, t))
             /\ syncs' = syncs + 1 /\ syncs < MaxSyncs /\ past' = [past EXCEPT ![t] = @ \cup unlocked[m]]
    <3>1. Steady(S, R, x)
      <4>1. CASE p.owner \in {t, None}
        BY <1>3, <4>1 DEF Steady
      <4>2. CASE p.owner \notin {t, None}
        <5>1. p.last_locked_segment \in SegIds
          BY <1>2, <2>2, <4>2 DEF Held
        <5>2. seg[p.last_locked_segment].vc \in Clock
          BY <1>3, <5>1, SegFields
        <5> HIDE DEF S, p
        <5>3. Steady(S, thread_combine_vc2(S, t, seg[p.last_locked_segment].vc), x)
          BY <1>3, <5>2, Combine2Keeps
        <5> QED
          BY <4>2, <5>3
      <4> QED
        BY <4>1, <4>2
    <3> HIDE DEF S, R
    <3>2. SteadyBut(R, thread_new_segment(R, t), x, t)
      BY <1>3, <2>2, <3>1, NewSegmentKeeps DEF Steady
    <3>3. thread_new_segment(R, t) \in DState /\ thread_new_segment(R, t).run = t
          /\ Owned(thread_new_segment(R, t).seg, thread_new_segment(R, t).list, x)
          /\ \A u \in Threads : thread_new_segment(R, t).list[u] = <<>> <=> list[u] = <<>>
      BY <1>3, <3>1, <3>2 DEF Steady, SteadyBut
    <3> QED
      BY <2>1, <2>2, <3>3
  <2>3. CASE Become(S) /\ UNCHANGED <<syncs, past>>
    BY <1>3, <2>1, <2>3
  <2> QED
    BY <2>2, <2>3, RoomIs DEF MutexPostLock, Sync
<1>7. PICK X \in DState : Become(X) /\ X.run = t /\ Owned(X.seg, X.list, x)
                           /\ \A u \in Threads : X.list[u] = <<>> <=> list[u] = <<>>
  BY <1>6
<1>8. /\ Owned(seg', list', Ext(mutex', barrier'))
      /\ \A u \in Threads : list'[u] = <<>> <=> status'[u] = "none"
      /\ status'[running'] # "none"
      /\ S0' \in DState
  BY <1>1, <1>5, <1>7, BecomeHeld
<1>9. TypeOK'
  BY <1>1, <1>4, <1>6, <1>8 DEF TypeOK
<1> QED
  BY <1>1, <1>4, <1>8, <1>9 DEF Held

LEMMA MutexUnlockHeld ==
  ASSUME TypeOK, Held, NEW t \in Threads, NEW m \in Mutexes, MutexUnlock(t, m)
  PROVE  TypeOK' /\ Held'
PROOF
<1> DEFINE p == mutex[m]
           S == Scheduled(t)
           x == Ext(mutex, barrier)
           L == Last(list[t])
<1>1. /\ status[t] = "live" /\ p.owner = t /\ p.recursion_count > 0
      /\ UNCHANGED <<s_segment_merging, status, barrier, waiting, made, past, arrived>>
  BY DEF MutexUnlock, InClient
<1>2. /\ p \in MutexRec /\ p.recursion_count \in Nat
      /\ p.last_locked_segment \in SegIds \cup {Null} /\ mutex \in [Mutexes -> MutexRec]
  BY MutexFields DEF TypeOK
<1>3. /\ S \in DState /\ S.seg = seg /\ S.list = list /\ S.run = t /\ list[t] # <<>>
      /\ Owned(S.seg, S.list, x) /\ Latest(S, t) = L /\ Latest(S0, t) = L /\ L \in SegIds
  BY <1>1, ScheduledIs, HasList DEF Held
<1>4. past \in [Threads -> SUBSET Event] /\ unlocked \in [Mutexes -> SUBSET Event] /\ syncs \in 0 .. MaxSyncs
      /\ MaxSyncs \in Nat /\ arrived.round \in Nat /\ arrived.round <= syncs
  BY SizesAssumption DEF TypeOK, ArrivedRec
<1>5. CASE /\ p.recursion_count = 1 /\ HasRoom(seg, t)
           /\ Become(thread_new_segment(thread_get_latest_segment(S, p.last_locked_segment, t), t))
           /\ mutex' = [mutex EXCEPT ![m].recursion_count = 0, ![m].last_locked_segment = Latest(S0, t)]
           /\ syncs' = syncs + 1 /\ syncs < MaxSyncs /\ unlocked' = [unlocked EXCEPT ![m] = past[t]]
  <2> DEFINE G == thread_get_latest_segment(S, p.last_locked_segment, t)
             X == thread_new_segment(G, t)
             y == Moved(x, p.last_locked_segment, L)
             q == [p EXCEPT !.recursion_count = 0, !.last_locked_segment = L]
  <2>1. mutex' = [mutex EXCEPT ![m] = q]
    <3> HIDE DEF L
    <3> QED
      BY <1>3, <1>5
  <2>2. q \in MutexRec /\ q.last_locked_segment = L
    BY <1>2, <1>3 DEF MutexRec
  <2>3. L # Null
    BY <1>3, ThreadsAre
  <2> HIDE DEF q, L, S
  <2>4. /\ mutex' \in [Mutexes -> MutexRec] /\ mutex'[m].last_locked_segment = L
        /\ \A n \in Mutexes : n # m => mutex'[n] = mutex[n]
    BY <1>2, <2>1, <2>2
  <2>5. Ext(mutex', barrier') = y
    <3>1. Ext(mutex', barrier) = Moved(x, mutex[m].last_locked_segment, mutex'[m].last_locked_segment)
      BY <2>4, ExtMutex
    <3> QED
      BY <1>1, <2>4, <3>1
  <2>6. p.last_locked_segment # Null => x[p.last_locked_segment] # 0
    BY <1>2, ExtNat
  <2>7. /\ G \in DState /\ G.list = list /\ G.run = t /\ Owned(G.seg, list, y) /\ HasRoom(G.seg, t)
    <3> DEFINE o == p.last_locked_segment
    <3>1. o \in SegIds \cup {Null} /\ (o # Null => x[o] # 0)
      BY <1>2, <2>6
    <3>2. S \in DState /\ Owned(S.seg, S.list, x) /\ S.list[t] # <<>> /\ HasRoom(S.seg, t)
      BY <1>3, <1>5
    <3> DEFINE T == thread_get_latest_segment(S, o, t)
    <3> HIDE DEF x, o
    <3>3. T \in DState /\ T.list = S.list /\ T.run = S.run /\ Owned(T.seg, S.list, Moved(x, o, Latest(S, t)))
      BY <3>1, <3>2, GetLatestIs, SMTT(30)
    <3>4. HasRoom(T.seg, t)
      BY <3>1, <3>2, GetLatestRoom
    <3>5. T = G
      BY DEF o
    <3> HIDE DEF T, G
    <3> QED
      BY <1>3, <1>5, <3>3, <3>4, <3>5 DEF o
  <2> HIDE DEF G, y
  <2>8. SteadyBut(G, X, y, t)
    BY <1>3, <2>7, NewSegmentKeeps
  <2>9. Become(X)
    BY <1>5 DEF G
  <2> HIDE DEF X
  <2>10. /\ Owned(seg', list', Ext(mutex', barrier'))
         /\ \A u \in Threads : list'[u] = <<>> <=> status'[u] = "none"
         /\ status'[running'] # "none"
         /\ S0' \in DState
    <3>1. X \in DState /\ X.run = t /\ Owned(X.seg, X.list, Ext(mutex', barrier'))
          /\ \A u \in Threads : X.list[u] = <<>> <=> list[u] = <<>>
      BY <2>5, <2>7, <2>8 DEF SteadyBut
    <3> QED
      BY <1>1, <2>9, <3>1, BecomeHeld
  <2>11. syncs' \in 0 .. MaxSyncs /\ arrived.round <= syncs' /\ unlocked' \in [Mutexes -> SUBSET Event]
    BY <1>4, <1>5
  <2>12. TypeOK'
    BY <1>1, <2>4, <2>10, <2>11 DEF TypeOK
  <2> QED
    BY <1>1, <2>3, <2>4, <2>10, <2>12 DEF Held
<1>6. CASE /\ p.recursion_count > 1 /\ mutex' = [mutex EXCEPT ![m].recursion_count = @ - 1]
           /\ Become(S) /\ UNCHANGED <<syncs, unlocked>>
  <2> DEFINE q == [p EXCEPT !.recursion_count = @ - 1]
  <2>1. mutex' = [mutex EXCEPT ![m] = q]
    BY <1>6
  <2>2. q \in MutexRec /\ q.last_locked_segment = p.last_locked_segment /\ q.recursion_count # 0
    BY <1>2, <1>6 DEF MutexRec
  <2> HIDE DEF q, S
  <2>3. /\ mutex' \in [Mutexes -> MutexRec] /\ mutex'[m].recursion_count # 0
        /\ \A n \in Mutexes : n # m => mutex'[n] = mutex[n]
        /\ \A n \in Mutexes : mutex'[n].last_locked_segment = mutex[n].last_locked_segment
    BY <1>2, <2>1, <2>2
  <2>4. Ext(mutex', barrier') = x
    BY <1>1, <2>3, ExtSame
  <2>5. /\ Owned(seg', list', Ext(mutex', barrier'))
        /\ \A u \in Threads : list'[u] = <<>> <=> status'[u] = "none"
        /\ status'[running'] # "none"
        /\ S0' \in DState
    <3>1. S \in DState /\ S.run = t /\ Owned(S.seg, S.list, Ext(mutex', barrier'))
          /\ \A u \in Threads : S.list[u] = <<>> <=> list[u] = <<>>
      BY <1>3, <2>4
    <3> QED
      BY <1>1, <1>6, <3>1, BecomeHeld
  <2>6. TypeOK'
    BY <1>1, <1>4, <1>6, <2>3, <2>5 DEF TypeOK
  <2> QED
    BY <1>1, <2>3, <2>5, <2>6 DEF Held
<1> QED
  BY <1>5, <1>6, RoomIs DEF MutexUnlock, Sync

LEMMA MutexDestroyHeld ==
  ASSUME TypeOK, Held, NEW t \in Threads, NEW m \in Mutexes, MutexDestroy(t, m)
  PROVE  TypeOK' /\ Held'
PROOF
<1> DEFINE p == mutex[m]
           S == Scheduled(t)
           x == Ext(mutex, barrier)
           old == p.last_locked_segment
           X == [S EXCEPT !.seg = sg_put(@, {old})]
<1>1. /\ status[t] = "live" /\ Become(X) /\ mutex' = [mutex EXCEPT ![m] = NoMutex]
      /\ unlocked' = [unlocked EXCEPT ![m] = {}]
      /\ UNCHANGED <<s_segment_merging, status, barrier, waiting, syncs, made, past, arrived>>
  BY DEF MutexDestroy, InClient
<1>2. mutex \in [Mutexes -> MutexRec] /\ old \in SegIds \cup {Null} /\ NoMutex \in MutexRec
      /\ NoMutex.last_locked_segment = Null /\ NoMutex.owner = None
  BY MutexFields DEF TypeOK, NoMutex, MutexRec
<1>3. /\ S \in DState /\ S.seg = seg /\ S.list = list /\ S.run = t /\ Owned(seg, list, x)
  BY <1>1, ScheduledIs DEF Held
<1>4. X = [seg |-> sg_put(seg, {old}), list |-> list, run |-> t, cset |-> S.cset]
  <2> HIDE DEF S
  <2>1. X = [S EXCEPT !.seg = sg_put(S.seg, {old})]
    OBVIOUS
  <2> QED
    BY <1>3, <2>1, SetSeg
<1>5. x \in [SegIds -> Nat] /\ (old \in SegIds => x[old] # 0)
  BY ExtNat
<1>6. Owned(sg_put(seg, {old}), list, Less(x, {old}))
  BY <1>3, <1>5, PutOwned DEF Less
<1>7. mutex' \in [Mutexes -> MutexRec] /\ mutex'[m] = NoMutex /\ \A n \in Mutexes : n # m => mutex'[n] = mutex[n]
  BY <1>1, <1>2
<1>8. Ext(mutex', barrier') = Moved(x, old, Null)
  <2>1. Ext(mutex', barrier) = Moved(x, mutex[m].last_locked_segment, mutex'[m].last_locked_segment)
    BY <1>7, ExtMutex
  <2> QED
    BY <1>1, <1>2, <1>7, <2>1
<1> HIDE DEF X, S
<1>9. X.seg = sg_put(seg, {old}) /\ X.list = list /\ X.run = t /\ X.cset = S.cset
  BY <1>4
<1>10. Owned(X.seg, X.list, Ext(mutex', barrier'))
  BY <1>5, <1>6, <1>8, <1>9, LessMoved
<1>11. X \in DState
  BY <1>3, <1>4, <1>9, <1>10, DStateFields DEF DState, Owned
<1>12. /\ Owned(seg', list', Ext(mutex', barrier'))
       /\ \A u \in Threads : list'[u] = <<>> <=> status'[u] = "none"
       /\ status'[running'] # "none"
       /\ S0' \in DState
  BY <1>1, <1>9, <1>10, <1>11, BecomeHeld
<1>13. unlocked' \in [Mutexes -> SUBSET Event]
  BY <1>1 DEF TypeOK
<1>14. TypeOK'
  BY <1>1, <1>7, <1>12, <1>13 DEF TypeOK
<1> QED
  BY <1>1, <1>2, <1>7, <1>12, <1>14 DEF Held

(* The barrier after t has arrived. *)
LEMMA ArriveIs ==
  ASSUME TypeOK, NEW t \in Threads, NEW L \in SegIds, BarrierPreWait(t), L = Latest(S0, t)
  PROVE  LET k == barrier.pre_iteration IN
         /\ k \in Rounds /\ barrier' \in BarrierRec
         /\ barrier'.exists
         /\ barrier'.node[t].sg[k] = L /\ barrier'.node[t].present
         /\ \A v \in Threads, r \in Rounds : v # t \/ r # k => barrier'.node[v].sg[r] = barrier.node[v].sg[r]
         /\ \A v \in Threads : v # t => barrier'.node[v] = barrier.node[v]
         /\ barrier'.pre_iteration = IF barrier.pre_waiters_left = 1 THEN 1 - k ELSE k
         /\ barrier'.pre_waiters_left =
              IF barrier.pre_waiters_left = 1 THEN BarrierCount ELSE barrier.pre_waiters_left - 1
         /\ barrier'.post_iteration = barrier.post_iteration
         /\ barrier'.post_waiters_left = barrier.post_waiters_left
PROOF
<1> DEFINE b == barrier
           k == barrier.pre_iteration
           n == [present |-> TRUE, sg |-> [b.node[t].sg EXCEPT ![k] = L]]
           w == b.pre_waiters_left
           i2 == IF w = 1 THEN 1 - k ELSE k
           w2 == IF w = 1 THEN BarrierCount ELSE w - 1
<1>1. /\ b \in BarrierRec /\ k \in Rounds /\ w \in 1 .. BarrierCount /\ b.node \in [Threads -> NodeRec]
      /\ b.node[t].sg \in [Rounds -> SegIds \cup {Null}]
  BY NodeFields DEF BarrierRec
<1>2. n \in NodeRec /\ n.present /\ n.sg[k] = L /\ \A r \in Rounds : r # k => n.sg[r] = b.node[t].sg[r]
  BY <1>1 DEF NodeRec
<1>3. i2 \in Rounds /\ w2 \in 1 .. BarrierCount
  BY <1>1, SizesAssumption DEF Rounds
<1>4. barrier' = [b EXCEPT !.node[t] = n, !.pre_iteration = i2, !.pre_waiters_left = w2]
  BY DEF BarrierPreWait
<1> HIDE DEF n, i2, w2, k, w
<1>5. barrier' = [exists |-> b.exists, pre_iteration |-> i2, post_iteration |-> b.post_iteration, pre_waiters_left |-> w2,
                  post_waiters_left |-> b.post_waiters_left, node |-> [b.node EXCEPT ![t] = n]]
  BY <1>1, <1>4 DEF BarrierRec
<1>6. [b.node EXCEPT ![t] = n] \in [Threads -> NodeRec]
  BY <1>1, <1>2
<1>7. barrier' \in BarrierRec
  BY <1>1, <1>3, <1>5, <1>6 DEF BarrierRec
<1>8. /\ barrier'.exists
      /\ barrier'.node = [b.node EXCEPT ![t] = n] /\ barrier'.pre_iteration = i2
      /\ barrier'.pre_waiters_left = w2 /\ barrier'.post_iteration = b.post_iteration
      /\ barrier'.post_waiters_left = b.post_waiters_left
  <2>1. b.exists
    BY DEF BarrierPreWait
  <2> QED
    BY <1>5, <2>1
<1>9. barrier'.node[t] = n /\ \A v \in Threads : v # t => barrier'.node[v] = barrier.node[v]
  BY <1>1, <1>8
<1> QED
  BY <1>1, <1>2, <1>7, <1>8, <1>9 DEF k, i2, w2, w

LEMMA BarrierPreWaitHeld ==
  ASSUME TypeOK, Held, NEW t \in Threads, BarrierPreWait(t)
  PROVE  TypeOK' /\ Held'
PROOF
<1> DEFINE S == Scheduled(t)
           x == Ext(mutex, barrier)
           L == Last(list[t])
           k == barrier.pre_iteration
           old == barrier.node[t].sg[k]
           X == thread_get_latest_segment(S, old, t)
           c == arrived.round
           y == Moved(x, old, L)
<1>1. /\ status[t] = "live" /\ syncs' = syncs + 1 /\ syncs < MaxSyncs /\ Become(X)
      /\ waiting' = [waiting EXCEPT ![t] = c + 1]
      /\ arrived' = [round |-> IF arrived.n + 1 = BarrierCount THEN c + 1 ELSE c,
                     n     |-> (arrived.n + 1) % BarrierCount,
                     past  |-> [arrived.past EXCEPT ![c] =
                              past[t] \cup (IF arrived.n = 0 THEN {} ELSE @)],
                     unseen |-> arrived.unseen]
      /\ UNCHANGED <<s_segment_merging, status, mutex, made, past, unlocked>>
  BY DEF BarrierPreWait, InClient, Sync
<1>2. /\ S \in DState /\ S.seg = seg /\ S.list = list /\ S.run = t /\ list[t] # <<>>
      /\ Owned(S.seg, S.list, x) /\ Latest(S, t) = L /\ Latest(S0, t) = L /\ L \in SegIds /\ L[1] = t
  BY <1>1, ScheduledIs, HasList DEF Held
<1>3. /\ k \in Rounds /\ barrier' \in BarrierRec /\ barrier'.exists
      /\ barrier'.node[t].sg[k] = L
      /\ \A v \in Threads, r \in Rounds : v # t \/ r # k => barrier'.node[v].sg[r] = barrier.node[v].sg[r]
  BY <1>2, ArriveIs
<1>4. old \in SegIds \cup {Null} /\ (old # Null => x[old] # 0)
  BY <1>3, NodeFields, ExtNat
<1>5. Ext(mutex, barrier') = y
  <2>1. Ext(mutex, barrier') = Moved(x, barrier.node[t].sg[k], barrier'.node[t].sg[k])
    <3>1. OneEntry(barrier, barrier', t, k)
      BY <1>3 DEF OneEntry
    <3>2. k \in Rounds
      BY <1>3
    <3> HIDE DEF k
    <3> QED
      BY <3>1, <3>2, ExtNode, SMTT(30)
  <2> QED
    BY <1>3, <2>1
<1> HIDE DEF S, L, old
<1>6. X \in DState /\ X.list = list /\ X.run = t /\ Owned(X.seg, list, y)
  BY <1>2, <1>4, GetLatestIs
<1> HIDE DEF X
<1>7. /\ Owned(seg', list', Ext(mutex', barrier'))
      /\ \A u \in Threads : list'[u] = <<>> <=> status'[u] = "none"
      /\ status'[running'] # "none"
      /\ S0' \in DState
  <2>1. Owned(X.seg, X.list, Ext(mutex', barrier'))
    BY <1>1, <1>5, <1>6
  <2> QED
    BY <1>1, <1>6, <2>1, BecomeHeld
<1>8. arrived' \in ArrivedRec /\ waiting' \in [Threads -> Nat] /\ syncs' \in 0 .. MaxSyncs
      /\ arrived'.round <= syncs'
  <2>1. /\ arrived \in ArrivedRec /\ c \in Nat /\ arrived.n \in Nat /\ waiting \in [Threads -> Nat] /\ syncs \in 0 .. MaxSyncs
        /\ MaxSyncs \in Nat /\ c <= syncs
        /\ arrived.past \in [0 .. MaxSyncs -> SUBSET Event] /\ past \in [Threads -> SUBSET Event]
    BY SizesAssumption DEF TypeOK, ArrivedRec
  <2>2. (arrived.n + 1) % BarrierCount \in Nat
    BY <2>1, SizesAssumption
  <2> DEFINE q == [arrived.past EXCEPT ![c] = past[t] \cup (IF arrived.n = 0 THEN {} ELSE @)]
  <2>3. q \in [0 .. MaxSyncs -> SUBSET Event]
    BY <2>1
  <2> HIDE DEF q
  <2>4. arrived' = [round |-> IF arrived.n + 1 = BarrierCount THEN c + 1 ELSE c,
                    n     |-> (arrived.n + 1) % BarrierCount, past |-> q,
                    unseen |-> arrived.unseen]
    BY <1>1 DEF q
  <2>5. (IF arrived.n + 1 = BarrierCount THEN c + 1 ELSE c) \in Nat
    BY <2>1
  <2>6. arrived' \in ArrivedRec
    BY <2>1, <2>2, <2>3, <2>4, <2>5 DEF ArrivedRec
  <2>7. arrived'.round <= syncs + 1
    BY <2>1, <2>4
  <2> QED
    BY <1>1, <2>1, <2>6, <2>7
<1>9. TypeOK'
  BY <1>1, <1>3, <1>7, <1>8 DEF TypeOK
<1>10. \A u \in Threads : \A r \in Rounds : barrier'.node[u].sg[r] # Null => barrier'.node[u].sg[r][1] = u
  <2>1. ASSUME NEW u \in Threads, NEW r \in Rounds, barrier'.node[u].sg[r] # Null
        PROVE  barrier'.node[u].sg[r][1] = u
    <3> HIDE DEF k
    <3>1. CASE u = t /\ r = k
      BY <1>2, <1>3, <3>1
    <3>2. CASE u # t \/ r # k
      BY <1>3, <2>1, <3>2 DEF Held
    <3> QED
      BY <3>1, <3>2
  <2> QED
    BY <2>1
<1>11. \A u \in Threads : waiting'[u] # None => status'[u] = "live"
  BY <1>1 DEF Held, TypeOK
<1> QED
  BY <1>1, <1>3, <1>7, <1>9, <1>10, <1>11 DEF Held

(* The combination with the others, one after the other. *)
CombineStep(t, T, u) ==
  IF u \notin Others(t) THEN T
  ELSE thread_combine_vc2(T, t, T.seg[barrier.node[u].sg[barrier.post_iteration]].vc)

LEMMA combine_othersSteps ==
  ASSUME NEW t
  PROVE  /\ combine_others(t)[0] = Scheduled(t)
         /\ \A u \in Threads : combine_others(t)[u] = CombineStep(t, combine_others(t)[u - 1], u)
PROOF
<1> DEFINE N == DRD_N_THREADS - 1
           Steps(g, n) == g = [u \in 0 .. n |-> IF u = 0 THEN Scheduled(t) ELSE CombineStep(t, g[u - 1], u)]
           Bad == {n \in 0 .. N : ~ \E g : Steps(g, n)}
<1>0. N \in Nat /\ Threads = 1 .. N
  BY SizesAssumption DEF Threads
<1> HIDE DEF N
<1>1. ASSUME Bad # {} PROVE FALSE
  <2>0. Bad \in SUBSET Nat
    BY <1>0
  <2>1. PICK n \in Bad : \A k \in Bad : n <= k
    <3> HIDE DEF Bad
    <3> QED
      BY <1>1, <2>0, LeastNat
  <2>2. n # 0
    <3>1. Steps([k \in 0 .. 0 |-> Scheduled(t)], 0)
      OBVIOUS
    <3> QED
      BY <2>1, <3>1
  <2>3. n - 1 \in 0 .. N /\ n - 1 \notin Bad /\ n \in 1 .. N
    BY <1>0, <2>1, <2>2, SMTT(30)
  <2>4. PICK g : Steps(g, n - 1)
    BY <2>3
  <2> DEFINE h == [k \in 0 .. n |-> IF k = n THEN CombineStep(t, g[n - 1], n) ELSE g[k]]
  <2>5. ASSUME NEW k \in 0 .. n
        PROVE  h[k] = IF k = 0 THEN Scheduled(t) ELSE CombineStep(t, h[k - 1], k)
    <3>1. CASE k = 0
      BY <2>3, <2>4, <3>1
    <3>2. CASE k # 0 /\ k # n
      <4>1. k - 1 \in 0 .. n /\ k - 1 # n /\ k \in 0 .. n - 1
        BY <2>3, <3>2
      <4> QED
        BY <2>4, <3>2, <4>1
    <3>3. CASE k = n
      BY <2>3, <3>3
    <3> QED
      BY <3>1, <3>2, <3>3
  <2>6. Steps(h, n)
    BY <2>5
  <2> QED
    BY <2>1, <2>6
<1>2. \E g : Steps(g, N)
  BY <1>0, <1>1
<1>3. combine_others(t) = CHOOSE g : Steps(g, N)
  BY DEF combine_others, CombineStep, N
<1>4. Steps(combine_others(t), N)
  BY <1>2, <1>3
<1> QED
  BY <1>0, <1>4

(* A property of states that the steps keep holds at the end.  P is given *)
(* as the set of the states that have it.                                  *)
LEMMA CombineAll ==
  ASSUME NEW t, NEW P, Scheduled(t) \in P,
         \A T \in P : \A u \in Threads : u \in Others(t) => CombineStep(t, T, u) \in P
  PROVE  combine_others(t)[DRD_N_THREADS - 1] \in P
PROOF
<1> DEFINE N == DRD_N_THREADS - 1
           f == combine_others(t)
           Bad == {n \in 0 .. N : f[n] \notin P}
<1>0. N \in Nat /\ Threads = 1 .. N
  BY SizesAssumption DEF Threads
<1>1. f[0] = Scheduled(t) /\ \A u \in Threads : f[u] = CombineStep(t, f[u - 1], u)
  BY combine_othersSteps
<1> HIDE DEF N, f
<1>2. ASSUME Bad # {} PROVE FALSE
  <2>1. Bad \in SUBSET Nat
    BY <1>0
  <2>2. PICK n \in Bad : \A k \in Bad : n <= k
    <3> HIDE DEF Bad
    <3> QED
      BY <1>2, <2>1, LeastNat
  <2>3. n \in Threads /\ n - 1 \in 0 .. N /\ n - 1 \notin Bad
    BY <1>0, <1>1, <2>2
  <2>4. f[n - 1] \in P /\ f[n] = CombineStep(t, f[n - 1], n)
    BY <1>1, <2>3, SMTT(30)
  <2>5. f[n] \in P
    BY <2>3, <2>4 DEF CombineStep
  <2> QED
    BY <2>2, <2>5
<1>3. f[N] \in P
  BY <1>0, <1>2
<1> QED
  BY <1>3 DEF f, N

LEMMA CombineOthersSteady ==
  ASSUME TypeOK, Held, NEW t \in Threads, status[t] # "none", SegmentsLeft(t)
  PROVE  Steady(Scheduled(t), combine_others(t)[DRD_N_THREADS - 1], Ext(mutex, barrier))
PROOF
<1> DEFINE S == Scheduled(t)
           x == Ext(mutex, barrier)
           P == {T \in DState : Steady(S, T, x)}
<1>1. S \in DState /\ S.seg = seg /\ S.list = list /\ list[t] # <<>> /\ Owned(seg, list, x)
  BY ScheduledIs, HasList DEF Held
<1>2. S \in P
  BY <1>1 DEF Steady
<1> HIDE DEF S
<1>3. ASSUME NEW T \in P, NEW u \in Threads, u \in Others(t) PROVE CombineStep(t, T, u) \in P
  <2> DEFINE i == barrier.node[u].sg[barrier.post_iteration]
  <2>1. i \in SegIds
    <3>1. barrier.post_iteration \in Rounds
      BY DEF TypeOK, BarrierRec
    <3> QED
      BY <1>3, <3>1, NodeFields DEF SegmentsLeft
  <2> HIDE DEF i
  <2>2. T \in DState /\ Owned(T.seg, T.list, x) /\ T.list[t] # <<>> /\ Steady(S, T, x)
    BY <1>1 DEF Steady
  <2>3. T.seg[i].vc \in Clock
    BY <2>1, <2>2, DStateFields, SegFields
  <2>4. Steady(T, thread_combine_vc2(T, t, T.seg[i].vc), x)
    BY <2>2, <2>3, Combine2Keeps
  <2>5. CombineStep(t, T, u) = thread_combine_vc2(T, t, T.seg[i].vc)
    BY <1>3 DEF CombineStep, i
  <2>6. Steady(S, CombineStep(t, T, u), x)
    BY <2>2, <2>4, <2>5, SteadyTrans
  <2> QED
    BY <2>6 DEF Steady
<1> HIDE DEF P
<1>4. combine_others(t)[DRD_N_THREADS - 1] \in P
  BY <1>2, <1>3, CombineAll DEF S
<1> QED
  BY <1>4 DEF P, S

(* The past of a thread that leaves the barrier. *)
LEMMA PastAfterWaitType ==
  ASSUME TypeOK, NEW t \in Threads, waiting[t] # None => Released(t)
  PROVE  PastAfterWait(t) \in SUBSET Event
PROOF
<1>1. /\ past \in [Threads -> SUBSET Event] /\ waiting \in [Threads -> Nat]
      /\ arrived.past \in [0 .. MaxSyncs -> SUBSET Event] /\ arrived.round \in Nat
      /\ syncs \in 0 .. MaxSyncs /\ MaxSyncs \in Nat /\ arrived.round <= syncs
  BY SizesAssumption DEF TypeOK, ArrivedRec
<1>2. CASE waiting[t] \in {None, Gone}
  BY <1>1, <1>2 DEF PastAfterWait
<1>3. CASE waiting[t] \notin {None, Gone}
  <2>1. waiting[t] - 1 \in 0 .. MaxSyncs
    BY <1>1, <1>3 DEF None, Released
  <2> QED
    BY <1>1, <1>3, <2>1 DEF PastAfterWait
<1> QED
  BY <1>2, <1>3

(* barrier_post_wait of a barrier that exists. *)
PostWaited(t) ==
  /\ barrier.exists /\ SegmentsLeft(t) /\ HasRoom(seg, t)
  /\ Become(thread_new_segment(combine_others(t)[DRD_N_THREADS - 1], t))

LEMMA PostWaitCases ==
  ASSUME NEW t \in Threads, BarrierPostWait(t)
  PROVE  /\ waiting[t] # None /\ Released(t)
         /\ waiting' = [waiting EXCEPT ![t] = None] /\ past' = [past EXCEPT ![t] = PastAfterWait(t)]
         /\ UNCHANGED <<s_segment_merging, status, mutex, syncs, made, unlocked, arrived>>
         /\ \/ ~ barrier.exists /\ Become(Scheduled(t)) /\ barrier' = barrier
            \/ PostWaited(t)
PROOF
BY RoomIs DEF BarrierPostWait, Released, PostWaited

(* The barrier after t has left. *)
LEMMA LeaveIs ==
  ASSUME TypeOK, NEW t \in Threads, BarrierPostWait(t), barrier.exists
  PROVE  /\ barrier' \in BarrierRec /\ barrier'.exists
         /\ \A v \in Threads : barrier'.node[v].sg = barrier.node[v].sg
         /\ \A v \in Threads : v # t => barrier'.node[v] = barrier.node[v]
         /\ barrier'.node[t].present
         /\ barrier'.pre_iteration = barrier.pre_iteration
         /\ barrier'.pre_waiters_left = barrier.pre_waiters_left
         /\ barrier'.post_iteration =
              IF barrier.post_waiters_left = 1 THEN 1 - barrier.post_iteration ELSE barrier.post_iteration
         /\ barrier'.post_waiters_left =
              IF barrier.post_waiters_left = 1 THEN BarrierCount ELSE barrier.post_waiters_left - 1
PROOF
<1> DEFINE b == barrier
           w == b.post_waiters_left
           n == [present |-> TRUE, sg |-> b.node[t].sg]
           i2 == IF w = 1 THEN 1 - b.post_iteration ELSE b.post_iteration
           w2 == IF w = 1 THEN BarrierCount ELSE w - 1
<1>1. /\ b \in BarrierRec /\ b.post_iteration \in Rounds /\ w \in 1 .. BarrierCount
      /\ b.node \in [Threads -> NodeRec] /\ b.node[t] \in NodeRec
  BY DEF TypeOK, BarrierRec
<1>2. i2 \in Rounds /\ w2 \in 1 .. BarrierCount
  BY <1>1, SizesAssumption DEF Rounds
<1>3. n \in NodeRec /\ n.present /\ n.sg = b.node[t].sg
  BY <1>1 DEF NodeRec
<1>4. barrier' = [b EXCEPT !.node[t] = n, !.post_iteration = i2, !.post_waiters_left = w2]
  BY DEF BarrierPostWait
<1> HIDE DEF i2, w2, n
<1>5. barrier' = [exists |-> b.exists, pre_iteration |-> b.pre_iteration, post_iteration |-> i2,
                  pre_waiters_left |-> b.pre_waiters_left, post_waiters_left |-> w2,
                  node |-> [b.node EXCEPT ![t] = n]]
  BY <1>1, <1>4 DEF BarrierRec
<1>6. [b.node EXCEPT ![t] = n] \in [Threads -> NodeRec]
  BY <1>1, <1>3
<1>7. barrier' \in BarrierRec
  BY <1>1, <1>2, <1>5, <1>6 DEF BarrierRec
<1>8. /\ barrier'.exists
      /\ barrier'.node = [b.node EXCEPT ![t] = n] /\ barrier'.pre_iteration = b.pre_iteration
      /\ barrier'.pre_waiters_left = b.pre_waiters_left /\ barrier'.post_iteration = i2
      /\ barrier'.post_waiters_left = w2
  BY <1>5
<1>9. barrier'.node[t] = n /\ \A v \in Threads : v # t => barrier'.node[v] = barrier.node[v]
  BY <1>1, <1>8
<1>10. \A v \in Threads : barrier'.node[v].sg = barrier.node[v].sg
  BY <1>3, <1>9
<1> QED
  BY <1>3, <1>7, <1>8, <1>9, <1>10 DEF i2, w2

LEMMA BarrierPostWaitHeld ==
  ASSUME TypeOK, Held, NEW t \in Threads, BarrierPostWait(t)
  PROVE  TypeOK' /\ Held'
PROOF
<1> DEFINE S == Scheduled(t)
           x == Ext(mutex, barrier)
           C == combine_others(t)[DRD_N_THREADS - 1]
           X == thread_new_segment(C, t)
<1>1. /\ waiting[t] # None /\ Released(t)
      /\ waiting' = [waiting EXCEPT ![t] = None] /\ past' = [past EXCEPT ![t] = PastAfterWait(t)]
      /\ UNCHANGED <<s_segment_merging, status, mutex, syncs, made, unlocked, arrived>>
  BY PostWaitCases
<1>2. status[t] = "live"
  BY <1>1 DEF Held
<1>3. S \in DState /\ S.seg = seg /\ S.list = list /\ S.run = t /\ list[t] # <<>> /\ Owned(seg, list, x)
  BY <1>2, ScheduledIs, HasList DEF Held
<1>4. /\ Owned(seg', list', Ext(mutex', barrier'))
      /\ \A u \in Threads : list'[u] = <<>> <=> status'[u] = "none"
      /\ status'[running'] # "none"
      /\ S0' \in DState
      /\ barrier' \in BarrierRec /\ \A v \in Threads : barrier'.node[v].sg = barrier.node[v].sg
      /\ barrier'.exists <=> barrier.exists
  <2>1. CASE PostWaited(t)
    <3>1. barrier.exists /\ SegmentsLeft(t) /\ HasRoom(seg, t) /\ Become(X)
      BY <2>1 DEF PostWaited
    <3>2. Steady(S, C, x)
      BY <1>2, <3>1, CombineOthersSteady
    <3> HIDE DEF S, C
    <3>3. SteadyBut(C, X, x, t)
      BY <1>3, <3>1, <3>2, NewSegmentKeeps DEF Steady
    <3> HIDE DEF X
    <3>4. barrier' \in BarrierRec /\ barrier'.exists /\ \A v \in Threads : barrier'.node[v].sg = barrier.node[v].sg
      BY <3>1, LeaveIs
    <3>5. Ext(mutex', barrier') = x
      <4>1. Ext(mutex, barrier') = x
        BY <3>4, ExtSame
      <4> QED
        BY <1>1, <4>1
    <3>6. X \in DState /\ X.run = t /\ Owned(X.seg, X.list, Ext(mutex', barrier'))
          /\ \A u \in Threads : X.list[u] = <<>> <=> list[u] = <<>>
      BY <1>3, <3>2, <3>3, <3>5 DEF Steady, SteadyBut
    <3> QED
      BY <1>1, <1>2, <3>1, <3>4, <3>6, BecomeHeld
  <2>2. CASE Become(S) /\ barrier' = barrier
    <3>1. Owned(S.seg, S.list, Ext(mutex', barrier')) /\ \A u \in Threads : S.list[u] = <<>> <=> list[u] = <<>>
      BY <1>1, <1>3, <2>2
    <3>2. barrier' \in BarrierRec /\ \A v \in Threads : barrier'.node[v].sg = barrier.node[v].sg
      BY <2>2 DEF TypeOK
    <3> HIDE DEF S
    <3> QED
      BY <1>1, <1>2, <1>3, <2>2, <3>1, <3>2, BecomeHeld
  <2> QED
    BY <2>1, <2>2, PostWaitCases
<1>5. past' \in [Threads -> SUBSET Event] /\ waiting' \in [Threads -> Nat]
  <2>1. past \in [Threads -> SUBSET Event] /\ waiting \in [Threads -> Nat]
    BY DEF TypeOK
  <2>2. PastAfterWait(t) \in SUBSET Event
    BY <1>1, PastAfterWaitType
  <2> QED
    BY <1>1, <2>1, <2>2 DEF None
<1>6. TypeOK'
  BY <1>1, <1>4, <1>5 DEF TypeOK
<1>7. \A u \in Threads : waiting'[u] # None => status'[u] = "live"
  BY <1>1 DEF Held, TypeOK
<1> QED
  BY <1>1, <1>4, <1>6, <1>7 DEF Held

LEMMA NoNodes ==
  /\ NewBarrier \in BarrierRec /\ NoBarrier \in BarrierRec /\ NewBarrier.exists /\ ~ NoBarrier.exists
  /\ NoBarrier.node = NewBarrier.node
  /\ \A u \in Threads : NewBarrier.node[u] = NoNode
  /\ \A u \in Threads : \A r \in Rounds : NewBarrier.node[u].sg[r] = Null
PROOF
<1>1. NoNode \in NodeRec /\ \A r \in Rounds : NoNode.sg[r] = Null
  BY DEF NoNode, NodeRec
<1> DEFINE f == [u \in Threads |-> NoNode]
<1>2. f \in [Threads -> NodeRec] /\ \A u \in Threads : f[u] = NoNode
  BY <1>1
<1>3. NewBarrier = [exists |-> TRUE, pre_iteration |-> 0, post_iteration |-> 0, pre_waiters_left |-> BarrierCount,
                    post_waiters_left |-> BarrierCount, node |-> f]
  BY DEF NewBarrier
<1> HIDE DEF f
<1>4. NoBarrier = [exists |-> FALSE, pre_iteration |-> 0, post_iteration |-> 0, pre_waiters_left |-> BarrierCount,
                    post_waiters_left |-> BarrierCount, node |-> f]
  <2> DEFINE b == NewBarrier
  <2>1. b = [exists |-> TRUE, pre_iteration |-> 0, post_iteration |-> 0, pre_waiters_left |-> BarrierCount,
             post_waiters_left |-> BarrierCount, node |-> f] /\ NoBarrier = [b EXCEPT !.exists = FALSE]
    BY <1>3 DEF NoBarrier
  <2> HIDE DEF b
  <2> QED
    BY <2>1
<1>5. NewBarrier \in BarrierRec /\ NewBarrier.exists /\ NewBarrier.node = f
  BY <1>2, <1>3, SizesAssumption DEF BarrierRec, Rounds
<1>6. NoBarrier \in BarrierRec /\ ~ NoBarrier.exists /\ NoBarrier.node = f
  BY <1>2, <1>4, SizesAssumption DEF BarrierRec, Rounds
<1> QED
  BY <1>1, <1>2, <1>5, <1>6

LEMMA BarrierInitHeld ==
  ASSUME TypeOK, Held, NEW t \in Threads, BarrierInit(t)
  PROVE  TypeOK' /\ Held'
PROOF
<1> DEFINE S == Scheduled(t)
           x == Ext(mutex, barrier)
<1>1. /\ status[t] = "live" /\ Become(S) /\ barrier' = NewBarrier /\ ~ barrier.exists
      /\ UNCHANGED <<s_segment_merging, status, mutex, waiting, syncs, made, past, unlocked, arrived>>
  BY DEF BarrierInit, InClient, histVars
<1>2. S \in DState /\ S.seg = seg /\ S.list = list /\ S.run = t /\ Owned(seg, list, x)
  BY <1>1, ScheduledIs DEF Held
<1>3. /\ barrier' \in BarrierRec /\ barrier'.exists
      /\ \A u \in Threads : \A r \in Rounds : barrier'.node[u].sg[r] = Null /\ barrier.node[u].sg[r] = Null
  BY <1>1, NoNodes DEF Held
<1>4. Ext(mutex', barrier') = x
  <2>1. Ext(mutex, barrier') = x
    BY <1>3, ExtSame
  <2> QED
    BY <1>1, <2>1
<1>5. Owned(S.seg, S.list, Ext(mutex', barrier')) /\ \A u \in Threads : S.list[u] = <<>> <=> list[u] = <<>>
  BY <1>2, <1>4
<1> HIDE DEF S
<1>6. /\ Owned(seg', list', Ext(mutex', barrier'))
      /\ \A u \in Threads : list'[u] = <<>> <=> status'[u] = "none"
      /\ status'[running'] # "none"
      /\ S0' \in DState
  BY <1>1, <1>2, <1>5, BecomeHeld
<1>7. TypeOK'
  BY <1>1, <1>3, <1>6 DEF TypeOK
<1> QED
  BY <1>1, <1>3, <1>6, <1>7 DEF Held

(* A round of a node is counted for the thread it belongs to alone. *)
LEMMA NodeCounts ==
  ASSUME NEW b, NEW i \in SegIds,
         \A u \in Threads : \A r \in Rounds : b.node[u].sg[r] = i => u = i[1]
  PROVE  Refs(NodeRefs(b), i) = (IF b.node[i[1]].sg[0] = i THEN 1 ELSE 0)
                              + (IF b.node[i[1]].sg[1] = i THEN 1 ELSE 0)
PROOF
<1> DEFINE u == i[1]
           A == IF b.node[u].sg[0] = i THEN {<<u, 0>>} ELSE {}
           B == IF b.node[u].sg[1] = i THEN A \cup {<<u, 1>>} ELSE A
<1>1. u \in Threads
  BY ThreadsAre
<1>2. IsFiniteSet(A) /\ Cardinality(A) = IF b.node[u].sg[0] = i THEN 1 ELSE 0
  BY FS_EmptySet, FS_Singleton
<1>3. <<u, 1>> \notin A
  OBVIOUS
<1> HIDE DEF u
<1>4. {n \in Threads \X Rounds : b.node[n[1]].sg[n[2]] = i} = B
  BY <1>1 DEF Rounds, u
<1>5. {n \in DOMAIN NodeRefs(b) : NodeRefs(b)[n] = i} = B
  <2>1. DOMAIN NodeRefs(b) = Threads \X Rounds
    BY DEF NodeRefs
  <2>2. \A n \in Threads \X Rounds : NodeRefs(b)[n] = b.node[n[1]].sg[n[2]]
    BY DEF NodeRefs
  <2> QED
    BY <1>4, <2>1, <2>2
<1> HIDE DEF A
<1>6. Cardinality(A \cup {<<u, 1>>}) = Cardinality(A) + 1
  BY <1>2, <1>3, FS_AddElement
<1>7. Cardinality(A) \in Nat
  BY <1>2
<1>8. Cardinality(B) = (IF b.node[u].sg[0] = i THEN 1 ELSE 0) + (IF b.node[u].sg[1] = i THEN 1 ELSE 0)
  BY <1>2, <1>6, <1>7
<1> QED
  BY <1>5, <1>8 DEF Refs, u

LEMMA DestroyedArrivals ==
  ASSUME TypeOK, NEW t \in Threads, BarrierDestroy(t)
  PROVE  /\ arrived' \in ArrivedRec /\ arrived'.round = 0 /\ arrived'.n = 0
         /\ \A r \in 0 .. MaxSyncs : arrived'.past[r] = {}
         /\ arrived'.unseen <=> arrived.unseen \/ \E u \in Threads : waiting[u] # None
PROOF
<1> DEFINE w == arrived.unseen \/ \E u \in Threads : waiting[u] # None
           q == [r \in 0 .. MaxSyncs |-> {}]
<1>1. w \in BOOLEAN /\ q \in [0 .. MaxSyncs -> SUBSET Event] /\ \A r \in 0 .. MaxSyncs : q[r] = {}
  BY Zenon
<1>2. arrived' = [NoArrivals EXCEPT !.unseen = w]
  BY DEF BarrierDestroy
<1> HIDE DEF w
<1>3. arrived' = [round |-> 0, n |-> 0, past |-> q, unseen |-> w]
  BY <1>2 DEF NoArrivals
<1> HIDE DEF q
<1>4. arrived' \in ArrivedRec
  BY <1>1, <1>3 DEF ArrivedRec
<1>5. arrived'.round = 0 /\ arrived'.n = 0 /\ arrived'.past = q /\ arrived'.unseen = w
  BY <1>3
<1> QED
  BY <1>1, <1>4, <1>5 DEF w

LEMMA BarrierDestroyHeld ==
  ASSUME TypeOK, Held, NEW t \in Threads, BarrierDestroy(t)
  PROVE  TypeOK' /\ Held'
PROOF
<1> DEFINE S == Scheduled(t)
           x == Ext(mutex, barrier)
           ids(r) == {barrier.node[u].sg[r] : u \in Threads}
           sg == sg_put(sg_put(seg, ids(0)), ids(1))
           X == [S EXCEPT !.seg = sg_put(sg_put(@, ids(0)), ids(1))]
<1>1. /\ status[t] = "live" /\ Become(X) /\ barrier' = NoBarrier
      /\ \A u \in Threads : waiting[u] # None => Released(u)
      /\ waiting' = [u \in Threads |-> IF waiting[u] = None THEN None ELSE Gone]
      /\ past' = [u \in Threads |-> PastAfterWait(u)]
      /\ syncs' = syncs + 1 /\ syncs < MaxSyncs
      /\ UNCHANGED <<s_segment_merging, status, mutex, made, unlocked>>
  BY DEF BarrierDestroy, InClient, Sync
<1>2. /\ S \in DState /\ S.seg = seg /\ S.list = list /\ S.run = t /\ Owned(seg, list, x)
  BY <1>1, ScheduledIs DEF Held
<1>3. X = [seg |-> sg, list |-> list, run |-> t, cset |-> S.cset]
  <2> HIDE DEF S
  <2>1. X = [S EXCEPT !.seg = sg_put(sg_put(S.seg, ids(0)), ids(1))]
    OBVIOUS
  <2> HIDE DEF ids
  <2> QED
    BY <1>2, <2>1, SetSeg
<1>4. ASSUME NEW i \in SegIds, NEW r \in Rounds PROVE i \in ids(r) <=> barrier.node[i[1]].sg[r] = i
  BY ThreadsAre DEF Held
<1>5. ASSUME NEW i \in SegIds
      PROVE  /\ x[i] = Refs(MutexRefs(mutex), i) + (IF i \in ids(0) THEN 1 ELSE 0) + (IF i \in ids(1) THEN 1 ELSE 0)
             /\ Refs(MutexRefs(mutex), i) \in Nat
  <2>1. Refs(NodeRefs(barrier), i) = (IF i \in ids(0) THEN 1 ELSE 0) + (IF i \in ids(1) THEN 1 ELSE 0)
    <3>1. \A u \in Threads : \A r \in Rounds : barrier.node[u].sg[r] = i => u = i[1]
      BY ThreadsAre DEF Held
    <3>2. Refs(NodeRefs(barrier), i) = (IF barrier.node[i[1]].sg[0] = i THEN 1 ELSE 0)
                                     + (IF barrier.node[i[1]].sg[1] = i THEN 1 ELSE 0)
      BY <3>1, NodeCounts
    <3> HIDE DEF ids
    <3> QED
      BY <1>4, <3>2 DEF Rounds
  <2>2. Refs(MutexRefs(mutex), i) \in Nat
    BY RefsFinite, RefsNat
  <2> HIDE DEF ids
  <2> QED
    BY <2>1, <2>2 DEF Ext
<1>6. ASSUME NEW i \in SegIds PROVE Ext(mutex', barrier')[i] = Refs(MutexRefs(mutex), i)
  <2>1. \A u \in Threads : \A r \in Rounds : NoBarrier.node[u].sg[r] = Null
    BY NoNodes
  <2>2. Refs(NodeRefs(NoBarrier), i) = 0
    <3>1. \A u \in Threads : \A r \in Rounds : NoBarrier.node[u].sg[r] = i => u = i[1]
      BY <2>1, ThreadsAre
    <3>2. Refs(NodeRefs(NoBarrier), i) = (IF NoBarrier.node[i[1]].sg[0] = i THEN 1 ELSE 0)
                                        + (IF NoBarrier.node[i[1]].sg[1] = i THEN 1 ELSE 0)
      BY <3>1, NodeCounts
    <3> QED
      BY <2>1, <3>2, ThreadsAre DEF Rounds
  <2> QED
    BY <1>1, <1>5, <2>2 DEF Ext
<1> HIDE DEF ids, x
<1>7. Owned(sg_put(seg, ids(0)), list, Less(x, ids(0)))
  <2>1. \A i \in SegIds : i \in ids(0) => x[i] # 0
    BY <1>5
  <2> QED
    BY <1>2, <2>1, PutOwned DEF Less
<1>8. Owned(sg, list, Less(Less(x, ids(0)), ids(1)))
  <2> DEFINE y == Less(x, ids(0))
             sg0 == sg_put(seg, ids(0))
  <2>1. \A i \in SegIds : i \in ids(1) => y[i] # 0
    BY <1>5 DEF Less
  <2>2. Owned(sg0, list, y)
    BY <1>7
  <2> HIDE DEF y, sg0
  <2>3. Owned(sg_put(sg0, ids(1)), list, Less(y, ids(1)))
    BY <2>1, <2>2, PutOwned DEF Less
  <2> QED
    BY <2>3 DEF y, sg0
<1>9. Less(Less(x, ids(0)), ids(1)) = Ext(mutex', barrier')
  <2>1. \A i \in SegIds : Less(Less(x, ids(0)), ids(1))[i] = Ext(mutex', barrier')[i]
    BY <1>5, <1>6 DEF Less
  <2> QED
    BY <2>1 DEF Less, Ext
<1> HIDE DEF X, S, sg
<1>10. X.seg = sg /\ X.list = list /\ X.run = t /\ X.cset = S.cset
  BY <1>3
<1>11. Owned(X.seg, X.list, Ext(mutex', barrier'))
  BY <1>8, <1>9, <1>10
<1>12. X \in DState
  BY <1>2, <1>3, <1>10, <1>11, DStateFields DEF DState, Owned
<1>13. /\ Owned(seg', list', Ext(mutex', barrier'))
       /\ \A u \in Threads : list'[u] = <<>> <=> status'[u] = "none"
       /\ status'[running'] # "none"
       /\ S0' \in DState
  BY <1>1, <1>10, <1>11, <1>12, BecomeHeld
<1>14. /\ barrier' \in BarrierRec /\ ~ barrier'.exists
       /\ \A u \in Threads : \A r \in Rounds : barrier'.node[u].sg[r] = Null
  BY <1>1, NoNodes
<1>15. arrived' \in ArrivedRec /\ arrived'.round = 0 /\ arrived'.n = 0
  BY DestroyedArrivals
<1>16. /\ waiting' \in [Threads -> Nat] /\ past' \in [Threads -> SUBSET Event]
       /\ syncs' \in 0 .. MaxSyncs /\ 0 <= syncs'
  <2>1. Gone \in Nat /\ MaxSyncs \in Nat /\ waiting \in [Threads -> Nat] /\ syncs \in 0 .. MaxSyncs
    BY SizesAssumption DEF Gone, TypeOK
  <2>2. \A u \in Threads : PastAfterWait(u) \in SUBSET Event
    BY <1>1, PastAfterWaitType
  <2> QED
    BY <1>1, <2>1, <2>2 DEF None
<1>17. TypeOK'
  BY <1>1, <1>13, <1>14, <1>15, <1>16 DEF TypeOK
<1>18. \A u \in Threads : waiting'[u] # None => status'[u] = "live"
  BY <1>1 DEF Held
<1> QED
  BY <1>1, <1>13, <1>14, <1>15, <1>17, <1>18 DEF Held

-----------------------------------------------------------------------------
(* The ledger is kept by every step *)

LEMMA NextHeld ==
  ASSUME TypeOK, Held, [Next]_vars
  PROVE  TypeOK' /\ Held'
PROOF
<1>1. CASE UNCHANGED vars
  BY <1>1 DEF vars, drdVars, histVars, TypeOK, Held, S0
<1>2. ASSUME NEW t \in Threads, Finish(t) PROVE TypeOK' /\ Held'
  BY <1>2, FinishHeld
<1>3. ASSUME NEW t \in Threads, NEW a \in Access, TraceAccess(t, a) PROVE TypeOK' /\ Held'
  BY <1>3, TraceAccessHeld
<1>4. ASSUME NEW t \in Threads, NEW x \in Addrs, StopUsingMem(t, x) PROVE TypeOK' /\ Held'
  BY <1>4, StopUsingMemHeld
<1>5. ASSUME NEW t \in Threads, NEW u \in Threads, Create(t, u) PROVE TypeOK' /\ Held'
  BY <1>5, CreateHeld
<1>6. ASSUME NEW t \in Threads, NEW u \in Threads, Join(t, u) PROVE TypeOK' /\ Held'
  BY <1>6, JoinHeld
<1>7. ASSUME NEW t \in Threads, NEW m \in Mutexes, MutexPostLock(t, m) PROVE TypeOK' /\ Held'
  BY <1>7, MutexPostLockHeld
<1>8. ASSUME NEW t \in Threads, NEW m \in Mutexes, MutexUnlock(t, m) PROVE TypeOK' /\ Held'
  BY <1>8, MutexUnlockHeld
<1>9. ASSUME NEW t \in Threads, NEW m \in Mutexes, MutexDestroy(t, m) PROVE TypeOK' /\ Held'
  BY <1>9, MutexDestroyHeld
<1>10. ASSUME NEW t \in Threads, BarrierPreWait(t) PROVE TypeOK' /\ Held'
  BY <1>10, BarrierPreWaitHeld
<1>11. ASSUME NEW t \in Threads, BarrierPostWait(t) PROVE TypeOK' /\ Held'
  BY <1>11, BarrierPostWaitHeld
<1>12. ASSUME NEW t \in Threads, BarrierDestroy(t) PROVE TypeOK' /\ Held'
  BY <1>12, BarrierDestroyHeld
<1>13. ASSUME NEW t \in Threads, BarrierInit(t) PROVE TypeOK' /\ Held'
  BY <1>13, BarrierInitHeld
<1> QED
  BY <1>1, <1>2, <1>3, <1>4, <1>5, <1>6, <1>7, <1>8, <1>9, <1>10, <1>11, <1>12, <1>13, Zenon DEF Next

(* Clocks, lists, mutexes, barrier and history have their types. *)
THEOREM TypeCorrect == Spec => []TypeOK
PROOF
<1>1. Init => TypeOK /\ Held
  BY InitHeld
<1>2. TypeOK /\ Held /\ [Next]_vars => (TypeOK /\ Held)'
  BY NextHeld
<1> QED
  BY <1>1, <1>2, PTL DEF Spec

(* sg_get and sg_put pair up: every reference that a list, a mutex or a    *)
(* barrier node holds is counted, so no segment in use is freed and none   *)
(* is leaked.                                                              *)
THEOREM RefCountsHold == Spec => []RefCounts
PROOF
<1>1. Init => TypeOK /\ Held
  BY InitHeld
<1>2. TypeOK /\ Held /\ [Next]_vars => (TypeOK /\ Held)'
  BY NextHeld
<1>3. TypeOK /\ Held => RefCounts
  BY HeldCounts
<1> QED
  BY <1>1, <1>2, <1>3, PTL DEF Spec

-----------------------------------------------------------------------------
(* The order of the vector clocks, and what the conflict set is worth, for *)
(* clients whose main thread creates and joins the others                  *)

-----------------------------------------------------------------------------
(* Clocks as an order *)

LEMMA vc_lteRefl ==
  ASSUME NEW v \in Clock
  PROVE  vc_lte(v, v)
PROOF
BY DEF vc_lte, Clock

LEMMA vc_lteTrans ==
  ASSUME NEW v \in Clock, NEW w \in Clock, NEW z \in Clock, vc_lte(v, w), vc_lte(w, z)
  PROVE  vc_lte(v, z)
PROOF
BY DEF vc_lte, Clock

LEMMA vc_incrementAbove ==
  ASSUME NEW v \in Clock, NEW t \in Threads
  PROVE  vc_lte(v, vc_increment(v, t))
PROOF
BY vc_incrementType DEF vc_lte, Clock

LEMMA vc_combineAbove ==
  ASSUME NEW v \in Clock, NEW w \in Clock
  PROVE  /\ vc_lte(v, vc_combine(v, w)) /\ vc_lte(w, vc_combine(v, w))
         /\ \A z \in Clock : vc_lte(v, z) /\ vc_lte(w, z) => vc_lte(vc_combine(v, w), z)
PROOF
BY vc_combineType DEF vc_lte, Clock

-----------------------------------------------------------------------------
(* The order of a state *)

(* Whose latest clock bounds the counts of t: its own, or the main         *)
(* thread's when t does not exist.                                         *)
Home(S, t) == IF S.list[t] # <<>> THEN t ELSE 1

(* The main thread has segments; segments in lists have counts for it and  *)
(* for their own thread; lists are in the order of their clocks; no clock  *)
(* knows more of a thread than that thread's latest.                       *)
InOrder(S) ==
  /\ S.list[1] # <<>>
  /\ \A i \in SegIds : InList(S.list, i) => S.seg[i].vc[1] >= 1 /\ S.seg[i].vc[i[1]] >= 1
  /\ \A t \in Threads : \A a, b \in DOMAIN S.list[t] :
       a < b => vc_lte(S.seg[S.list[t][a]].vc, S.seg[S.list[t][b]].vc)
  /\ \A i \in SegIds, t \in Threads : S.seg[i].vc[t] <= ClockOf(S, Home(S, t))[t]

(* Nobody else knows the latest count of t. *)
Fresh(S, t) == \A i \in SegIds : i # Latest(S, t) => S.seg[i].vc[t] < ClockOf(S, t)[t]

(* Segments are dropped from lists and freed, but no clock changes. *)
Slim(S, T) ==
  /\ T \in DState
  /\ \A t \in Threads : Sublist(T.list[t], S.list[t])
  /\ \A i \in SegIds : \/ T.seg[i].vc = S.seg[i].vc
                       \/ T.seg[i] = NoSegment /\ ~ InList(T.list, i)

(* The threads and their latest clocks are the same in S and T. *)
SameClocks(S, T) ==
  \A t \in Threads : /\ T.list[t] = <<>> <=> S.list[t] = <<>>
                     /\ S.list[t] # <<>> => Latest(T, t) = Latest(S, t) /\ ClockOf(T, t) = ClockOf(S, t)

LEMMA SublistSame ==
  ASSUME NEW l \in Seq(SegIds)
  PROVE  Sublist(l, l)
PROOF
<1> DEFINE f == [a \in DOMAIN l |-> a]
<1>1. f \in [DOMAIN l -> DOMAIN l] /\ \A a \in DOMAIN l : f[a] = a
  OBVIOUS
<1> HIDE DEF f
<1>2. \E g \in [DOMAIN l -> DOMAIN l] :
        /\ \A a, b \in DOMAIN l : a < b => g[a] < g[b]
        /\ \A a \in DOMAIN l : l[a] = l[g[a]]
  BY <1>1
<1> QED
  BY <1>2 DEF Sublist

LEMMA ClockFields ==
  ASSUME NEW S \in DState, NEW i \in SegIds
  PROVE  /\ S.seg[i] \in SegRec /\ S.seg[i].vc \in Clock /\ S.seg[i].bm \in SUBSET Access
         /\ \A t \in Threads : S.seg[i].vc[t] \in Nat
PROOF
<1>1. S.seg[i] \in SegRec
  BY DStateFields
<1>2. S.seg[i].vc \in Clock /\ S.seg[i].bm \in SUBSET Access
  BY <1>1, SegFields
<1> QED
  BY <1>1, <1>2 DEF Clock

LEMMA SlimClocks ==
  ASSUME NEW S \in DState, NEW T, Listed(S.list), Slim(S, T)
  PROVE  /\ SameClocks(S, T) /\ Listed(T.list)
         /\ \A i \in SegIds : InList(T.list, i) => InList(S.list, i) /\ T.seg[i].vc = S.seg[i].vc
PROOF
<1>1. T \in DState /\ T.list \in [Threads -> Seq(SegIds)] /\ S.list \in [Threads -> Seq(SegIds)]
  BY DStateFields DEF Slim
<1>2. Listed(T.list)
  BY <1>1, SublistListed DEF Slim
<1>3. ASSUME NEW t \in Threads
      PROVE  /\ Range(T.list[t]) \subseteq Range(S.list[t])
             /\ T.list[t] = <<>> <=> S.list[t] = <<>>
             /\ S.list[t] # <<>> => Last(T.list[t]) = Last(S.list[t])
  <2>1. Sublist(T.list[t], S.list[t]) /\ T.list[t] \in Seq(SegIds) /\ S.list[t] \in Seq(SegIds)
    BY <1>1 DEF Slim
  <2> QED
    BY <2>1, SublistRange DEF Sublist
<1>4. ASSUME NEW i \in SegIds, InList(T.list, i) PROVE InList(S.list, i) /\ T.seg[i].vc = S.seg[i].vc
  <2>1. i[1] \in Threads /\ i \in Range(T.list[i[1]])
    BY <1>4, ThreadsAre DEF InList
  <2>2. InList(S.list, i)
    BY <1>3, <2>1 DEF InList
  <2> QED
    BY <1>4, <2>2 DEF Slim
<1>5. ASSUME NEW t \in Threads, S.list[t] # <<>>
      PROVE  Latest(T, t) = Latest(S, t) /\ ClockOf(T, t) = ClockOf(S, t)
  <2>1. Latest(T, t) = Latest(S, t)
    BY <1>3, <1>5 DEF Latest
  <2>2. Latest(T, t) \in SegIds /\ InList(T.list, Latest(T, t))
    <3>1. T.list[t] # <<>>
      BY <1>3, <1>5
    <3> QED
      BY <1>1, <1>2, <3>1, LatestIs
  <2> QED
    BY <1>4, <2>1, <2>2 DEF ClockOf
<1> QED
  BY <1>2, <1>3, <1>4, <1>5 DEF SameClocks

LEMMA HomeClock ==
  ASSUME NEW S \in DState, InOrder(S), NEW t \in Threads
  PROVE  /\ Home(S, t) \in Threads /\ S.list[Home(S, t)] # <<>> /\ ClockOf(S, Home(S, t)) \in Clock
         /\ ClockOf(S, Home(S, t))[t] \in Nat
PROOF
<1>1. Home(S, t) \in Threads /\ S.list[Home(S, t)] # <<>>
  BY ThreadsAre DEF Home, InOrder
<1>2. ClockOf(S, Home(S, t)) \in Clock
  BY <1>1, LatestIs
<1> QED
  BY <1>1, <1>2 DEF Clock

LEMMA SlimInOrder ==
  ASSUME NEW S \in DState, NEW T, Listed(S.list), Slim(S, T), InOrder(S)
  PROVE  InOrder(T)
PROOF
<1>1. T \in DState /\ SameClocks(S, T) /\ Listed(T.list)
      /\ \A i \in SegIds : InList(T.list, i) => InList(S.list, i) /\ T.seg[i].vc = S.seg[i].vc
  BY SlimClocks DEF Slim
<1>2. T.list[1] # <<>>
  BY <1>1, ThreadsAre DEF InOrder, SameClocks
<1>3. \A i \in SegIds : InList(T.list, i) => T.seg[i].vc[1] >= 1 /\ T.seg[i].vc[i[1]] >= 1
  BY <1>1, SMTT(30) DEF InOrder
<1>4. ASSUME NEW t \in Threads, NEW a \in DOMAIN T.list[t], NEW b \in DOMAIN T.list[t], a < b
      PROVE  vc_lte(T.seg[T.list[t][a]].vc, T.seg[T.list[t][b]].vc)
  <2>1. PICK f \in [DOMAIN T.list[t] -> DOMAIN S.list[t]] :
             /\ \A p, q \in DOMAIN T.list[t] : p < q => f[p] < f[q]
             /\ \A p \in DOMAIN T.list[t] : T.list[t][p] = S.list[t][f[p]]
    BY DEF Slim, Sublist
  <2>2. vc_lte(S.seg[S.list[t][f[a]]].vc, S.seg[S.list[t][f[b]]].vc)
    BY <1>4, <2>1 DEF InOrder
  <2>3. \A p \in DOMAIN T.list[t] : T.list[t][p] \in SegIds /\ InList(T.list, T.list[t][p])
    BY <1>1, ListedAt DEF Range
  <2>4. T.seg[T.list[t][a]].vc = S.seg[S.list[t][f[a]]].vc /\ T.seg[T.list[t][b]].vc = S.seg[S.list[t][f[b]]].vc
    BY <1>1, <1>4, <2>1, <2>3
  <2> QED
    BY <2>2, <2>4, Zenon
<1>5. ASSUME NEW i \in SegIds, NEW t \in Threads PROVE T.seg[i].vc[t] <= ClockOf(T, Home(T, t))[t]
  <2>1. Home(T, t) = Home(S, t) /\ ClockOf(T, Home(T, t)) = ClockOf(S, Home(S, t))
    BY <1>1, ThreadsAre DEF Home, SameClocks, InOrder
  <2>2. ClockOf(S, Home(S, t))[t] \in Nat /\ S.seg[i].vc[t] <= ClockOf(S, Home(S, t))[t]
    BY HomeClock DEF InOrder
  <2>3. T.seg[i].vc[t] = S.seg[i].vc[t] \/ T.seg[i].vc[t] = 0
    BY NoSegmentType DEF Slim
  <2> QED
    BY <2>1, <2>2, <2>3
<1> QED
  BY <1>2, <1>3, <1>4, <1>5 DEF InOrder

LEMMA SlimFresh ==
  ASSUME NEW S \in DState, NEW T, Listed(S.list), Slim(S, T), InOrder(S), NEW t \in Threads,
         S.list[t] # <<>>, Fresh(S, t)
  PROVE  Fresh(T, t)
PROOF
<1>1. Latest(T, t) = Latest(S, t) /\ ClockOf(T, t) = ClockOf(S, t)
  BY SlimClocks DEF SameClocks
<1>2. ClockOf(S, t)[t] >= 1 /\ ClockOf(S, t)[t] \in Nat
  <2>1. Latest(S, t) \in SegIds /\ InList(S.list, Latest(S, t)) /\ Latest(S, t)[1] = t
    BY LatestIs
  <2> QED
    BY <2>1, ClockFields DEF InOrder, ClockOf
<1>3. ASSUME NEW i \in SegIds, i # Latest(T, t) PROVE T.seg[i].vc[t] < ClockOf(T, t)[t]
  <2>1. T.seg[i].vc[t] = S.seg[i].vc[t] \/ T.seg[i].vc[t] = 0
    BY NoSegmentType DEF Slim
  <2>2. S.seg[i].vc[t] < ClockOf(S, t)[t]
    BY <1>1, <1>3 DEF Fresh
  <2> QED
    BY <1>1, <1>2, <2>1, <2>2
<1> QED
  BY <1>3 DEF Fresh

-----------------------------------------------------------------------------
(* The operations and the order *)

LEMMA ShrunkSlim ==
  ASSUME NEW S \in DState, NEW T \in DState, Shrunk(S.seg, S.list, T.seg, T.list)
  PROVE  Slim(S, T)
PROOF
<1>0. \A i \in SegIds : /\ InList(T.list, i) => T.seg[i].vc = S.seg[i].vc
                        /\ ~ InList(S.list, i) => T.seg[i] = S.seg[i]
  BY Zenon DEF Shrunk
<1>1. ASSUME NEW i \in SegIds
      PROVE  T.seg[i].vc = S.seg[i].vc \/ (T.seg[i] = NoSegment /\ ~ InList(T.list, i))
  <2>1. CASE InList(T.list, i)
    BY <1>0, <2>1
  <2>3. CASE ~ InList(S.list, i)
    BY <1>0, <2>3
  <2>2. CASE InList(S.list, i) /\ ~ InList(T.list, i)
    <3>1. T.seg[i] = IF S.seg[i].refcnt = 1 THEN NoSegment ELSE [S.seg[i] EXCEPT !.refcnt = @ - 1]
      BY <2>2 DEF Shrunk
    <3>2. [S.seg[i] EXCEPT !.refcnt = @ - 1].vc = S.seg[i].vc
      BY ClockFields DEF SegRec
    <3> QED
      BY <2>2, <3>1, <3>2
  <2> QED
    BY <2>1, <2>2, <2>3
<1> QED
  BY <1>1 DEF Shrunk, Slim

LEMMA DiscardSlim ==
  ASSUME NEW S \in DState, NEW x, Owned(S.seg, S.list, x)
  PROVE  Slim(S, thread_discard_ordered_segments(S))
PROOF
BY DiscardIs, ShrunkSlim

LEMMA MergeSlim ==
  ASSUME NEW S \in DState, NEW x, Owned(S.seg, S.list, x)
  PROVE  Slim(S, thread_merge_segments(S))
PROOF
BY MergeIs, ShrunkSlim

LEMMA SlimSame ==
  ASSUME NEW S \in DState, NEW T \in DState, T.list = S.list,
         \A i \in SegIds : T.seg[i].vc = S.seg[i].vc \/ (T.seg[i] = NoSegment /\ ~ InList(T.list, i))
  PROVE  Slim(S, T)
PROOF
<1>1. \A t \in Threads : Sublist(T.list[t], S.list[t])
  BY SublistSame, DStateFields
<1> QED
  BY <1>1 DEF Slim

(* T is S with one more segment i of t, whose clock continues c's. *)
AppendedAs(S, T, c, t, i) ==
  /\ T \in DState /\ i \in SegIds /\ i[1] = t /\ S.seg[i] = NoSegment /\ ~ InList(S.list, i)
  /\ T.list \in [Threads -> Seq(SegIds)] /\ T.list[t] = Append(S.list[t], i)
  /\ \A u \in Threads : u # t => T.list[u] = S.list[u]
  /\ T.seg[i].vc = vc_increment(ClockOf(S, c), t) /\ T.seg[i].bm = {}
  /\ \A j \in SegIds : j # i => T.seg[j] = S.seg[j]
  /\ T.run = S.run /\ T.cset = S.cset
  /\ Latest(T, t) = i

LEMMA AppendIs ==
  ASSUME NEW S \in DState, NEW x, Owned(S.seg, S.list, x),
         NEW c \in Threads, NEW t \in Threads, S.list[c] # <<>>, HasRoom(S.seg, t)
  PROVE  \E i \in SegIds : AppendedAs(S, thread_append_segment(S, c, t), c, t, i)
PROOF
<1> DEFINE T == thread_append_segment(S, c, t)
<1>1. PICK i \in SegIds :
           /\ i[1] = t /\ S.seg[i].refcnt = 0
           /\ T = [seg  |-> NewSegment(S.seg, ClockOf(S, c), t, i),
                   list |-> [S.list EXCEPT ![t] = Append(@, i)], run  |-> S.run, cset |-> S.cset]
           /\ T \in DState
  BY AppendFields
<1> HIDE DEF T
<1>2. /\ T.seg = NewSegment(S.seg, ClockOf(S, c), t, i) /\ T.run = S.run /\ T.cset = S.cset
      /\ T.list = [S.list EXCEPT ![t] = Append(@, i)]
  BY <1>1
<1>3. S.list \in [Threads -> Seq(SegIds)] /\ S.seg \in [SegIds -> SegRec] /\ T.list \in [Threads -> Seq(SegIds)]
  BY <1>1, DStateFields
<1>4. S.seg[i] = NoSegment /\ ~ InList(S.list, i)
  BY <1>1 DEF Owned
<1>5. T.list[t] = Append(S.list[t], i) /\ \A u \in Threads : u # t => T.list[u] = S.list[u]
  BY <1>2, <1>3
<1>6. Latest(T, t) = i
  <2>1. S.list[t] \in Seq(SegIds)
    BY <1>3
  <2>2. Len(Append(S.list[t], i)) = Len(S.list[t]) + 1 /\ Append(S.list[t], i)[Len(S.list[t]) + 1] = i
    BY <2>1
  <2> QED
    BY <1>5, <2>2 DEF Latest, Last
<1>7. T.seg[i] = [vc |-> vc_increment(ClockOf(S, c), t), bm |-> {}, refcnt |-> 1]
      /\ \A j \in SegIds : j # i => T.seg[j] = S.seg[j]
  BY <1>2, <1>3 DEF NewSegment
<1>8. AppendedAs(S, T, c, t, i)
  BY <1>1, <1>2, <1>3, <1>4, <1>5, <1>6, <1>7 DEF AppendedAs
<1> QED
  BY <1>8 DEF T

(* Who is in the lists after it. *)
AppendLists(S, T, t, i) ==
  /\ \A j \in SegIds : InList(T.list, j) <=> InList(S.list, j) \/ j = i
  /\ \A a \in DOMAIN S.list[t] : T.list[t][a] = S.list[t][a]
  /\ DOMAIN T.list[t] = DOMAIN S.list[t] \cup {Len(S.list[t]) + 1}
  /\ T.list[t][Len(S.list[t]) + 1] = i /\ Len(S.list[t]) \in Nat /\ DOMAIN S.list[t] = 1 .. Len(S.list[t])
  /\ T.list[t] # <<>> /\ \A u \in Threads : u # t => (T.list[u] = <<>> <=> S.list[u] = <<>>)
  /\ Range(T.list[t]) = Range(S.list[t]) \cup {i}

LEMMA AppendedLists ==
  ASSUME NEW S \in DState, NEW T, NEW c \in Threads, NEW t \in Threads, NEW i, AppendedAs(S, T, c, t, i)
  PROVE  AppendLists(S, T, t, i)
PROOF
<1>1. S.list[t] \in Seq(SegIds) /\ T.list[t] = Append(S.list[t], i) /\ i \in SegIds /\ i[1] = t
  BY DStateFields DEF AppendedAs
<1>2. /\ Len(S.list[t]) \in Nat /\ DOMAIN S.list[t] = 1 .. Len(S.list[t])
      /\ Len(T.list[t]) = Len(S.list[t]) + 1 /\ DOMAIN T.list[t] = 1 .. Len(S.list[t]) + 1
      /\ \A a \in 1 .. Len(S.list[t]) : T.list[t][a] = S.list[t][a]
      /\ T.list[t][Len(S.list[t]) + 1] = i
  BY <1>1
<1>3. DOMAIN T.list[t] = DOMAIN S.list[t] \cup {Len(S.list[t]) + 1}
  BY <1>2
<1>4. T.list[t] # <<>>
  BY <1>2
<1>5. Range(T.list[t]) = Range(S.list[t]) \cup {i}
  <2>1. \A j : j \in Range(T.list[t]) <=> \E a \in 1 .. Len(S.list[t]) + 1 : T.list[t][a] = j
    BY <1>2 DEF Range
  <2>2. \A j : j \in Range(S.list[t]) <=> \E a \in 1 .. Len(S.list[t]) : S.list[t][a] = j
    BY <1>2 DEF Range
  <2>3. 1 .. Len(S.list[t]) + 1 = 1 .. Len(S.list[t]) \cup {Len(S.list[t]) + 1}
    BY <1>2
  <2>4. \A j : j \in Range(T.list[t]) <=> j \in Range(S.list[t]) \/ j = i
    BY <1>2, <2>1, <2>2, <2>3, ZenonT(60)
  <2> QED
    BY <2>4
<1>6. ASSUME NEW j \in SegIds PROVE InList(T.list, j) <=> InList(S.list, j) \/ j = i
  <2>1. CASE j[1] = t
    BY <1>5, <2>1 DEF InList
  <2>2. CASE j[1] # t
    <3>1. T.list[j[1]] = S.list[j[1]] /\ j # i
      BY <1>1, <2>2, ThreadsAre DEF AppendedAs
    <3> QED
      BY <3>1 DEF InList
  <2> QED
    BY <2>1, <2>2
<1> QED
  BY <1>2, <1>3, <1>4, <1>5, <1>6 DEF AppendedAs, AppendLists

LEMMA AppendInOrder ==
  ASSUME NEW S \in DState, Listed(S.list), InOrder(S), NEW t \in Threads, NEW T, NEW i,
         AppendedAs(S, T, Home(S, t), t, i)
  PROVE  /\ InOrder(T) /\ Fresh(T, t)
         /\ vc_lte(ClockOf(S, Home(S, t)), ClockOf(T, t))
         /\ \A u \in Threads : u # t /\ S.list[u] # <<>> => Latest(T, u) = Latest(S, u) /\ ClockOf(T, u) = ClockOf(S, u)
PROOF
<1> DEFINE c == Home(S, t)
           v == ClockOf(S, c)
<1>1. /\ c \in Threads /\ S.list[c] # <<>> /\ v \in Clock /\ \A u \in Threads : v[u] \in Nat
      /\ Latest(S, c) \in SegIds /\ InList(S.list, Latest(S, c))
  BY HomeClock, LatestIs DEF Clock
<1>2. /\ T \in DState /\ i \in SegIds /\ i[1] = t /\ ~ InList(S.list, i) /\ T.seg[i].vc = vc_increment(v, t)
      /\ Latest(T, t) = i /\ \A j \in SegIds : j # i => T.seg[j] = S.seg[j]
      /\ \A u \in Threads : u # t => T.list[u] = S.list[u]
      /\ S.seg[i] = NoSegment
  BY DEF AppendedAs
<1>3. ClockOf(T, t) = vc_increment(v, t) /\ vc_lte(v, ClockOf(T, t)) /\ ClockOf(T, t)[t] = v[t] + 1
      /\ ClockOf(T, t) \in Clock /\ \A u \in Threads : u # t => ClockOf(T, t)[u] = v[u]
  <2>1. ClockOf(T, t) = vc_increment(v, t)
    BY <1>2 DEF ClockOf
  <2> HIDE DEF v
  <2> QED
    BY <1>1, <2>1, vc_incrementAbove, vc_incrementType
<1>4. ASSUME NEW u \in Threads, u # t, S.list[u] # <<>>
      PROVE  Latest(T, u) = Latest(S, u) /\ ClockOf(T, u) = ClockOf(S, u)
  <2>1. Latest(T, u) = Latest(S, u) /\ Latest(S, u) \in SegIds /\ InList(S.list, Latest(S, u))
    BY <1>2, <1>4, LatestIs DEF Latest
  <2> QED
    BY <1>2, <2>1 DEF ClockOf
<1>5. /\ \A j \in SegIds : InList(T.list, j) <=> InList(S.list, j) \/ j = i
      /\ \A a \in DOMAIN S.list[t] : T.list[t][a] = S.list[t][a]
      /\ DOMAIN T.list[t] = DOMAIN S.list[t] \cup {Len(S.list[t]) + 1}
      /\ T.list[t][Len(S.list[t]) + 1] = i /\ Len(S.list[t]) \in Nat /\ DOMAIN S.list[t] = 1 .. Len(S.list[t])
      /\ T.list[t] # <<>> /\ \A u \in Threads : u # t => (T.list[u] = <<>> <=> S.list[u] = <<>>)
  <2>1. AppendLists(S, T, t, i)
    BY <1>1, AppendedLists
  <2> QED
    BY <2>1 DEF AppendLists
<1> HIDE DEF v
<1>6. \A j \in SegIds : S.seg[j].vc[t] <= v[t] /\ S.seg[j].vc[t] \in Nat
  BY ClockFields DEF InOrder, v
<1>7. Fresh(T, t)
  BY <1>1, <1>2, <1>3, <1>6 DEF Fresh
<1>8. T.list[1] # <<>>
  BY <1>5, ThreadsAre DEF InOrder
<1>9. v[1] >= 1
  BY <1>1 DEF InOrder, v, ClockOf
<1>10. ASSUME NEW j \in SegIds, InList(T.list, j) PROVE T.seg[j].vc[1] >= 1 /\ T.seg[j].vc[j[1]] >= 1
  <2>1. CASE j = i
    BY <1>1, <1>2, <1>3, <1>9, <2>1, ThreadsAre DEF ClockOf
  <2>2. CASE j # i
    BY <1>2, <1>5, <1>10, <2>2 DEF InOrder
  <2> QED
    BY <2>1, <2>2
<1>11. ASSUME NEW u \in Threads, NEW a \in DOMAIN T.list[u], NEW b \in DOMAIN T.list[u], a < b
       PROVE  vc_lte(T.seg[T.list[u][a]].vc, T.seg[T.list[u][b]].vc)
  <2>1. ASSUME NEW p \in DOMAIN S.list[u]
        PROVE  S.list[u][p] \in SegIds /\ T.seg[S.list[u][p]] = S.seg[S.list[u][p]]
    <3>1. S.list[u][p] \in SegIds /\ InList(S.list, S.list[u][p])
      BY ListedAt DEF Range
    <3> QED
      BY <1>2, <3>1
  <2>2. CASE a \in DOMAIN S.list[u] /\ b \in DOMAIN S.list[u]
    <3>1. vc_lte(S.seg[S.list[u][a]].vc, S.seg[S.list[u][b]].vc)
      BY <1>11, <2>2 DEF InOrder
    <3> QED
      <4>1. T.list[u][a] = S.list[u][a] /\ T.list[u][b] = S.list[u][b]
        BY <1>2, <1>5, <2>2, SMTT(30)
      <4> QED
        BY <2>1, <2>2, <3>1, <4>1
  <2>3. CASE u = t /\ a \in DOMAIN S.list[t] /\ b = Len(S.list[t]) + 1
    <3>1. S.list[t] # <<>> /\ c = t /\ S.list[t] \in Seq(SegIds)
      BY <2>3, DStateFields DEF Home
    <3>2. Latest(S, t) = S.list[t][Len(S.list[t])] /\ Len(S.list[t]) \in DOMAIN S.list[t]
      BY <3>1, RangeSeq DEF Latest
    <3>3. vc_lte(S.seg[S.list[t][a]].vc, v)
      <4>1. CASE a = Len(S.list[t])
        BY <1>1, <3>1, <3>2, <4>1, vc_lteRefl DEF v, ClockOf
      <4>2. CASE a < Len(S.list[t])
        <5>1. vc_lte(S.seg[S.list[t][a]].vc, S.seg[S.list[t][Len(S.list[t])]].vc)
          BY <2>3, <3>2, <4>2 DEF InOrder
        <5> QED
          BY <3>1, <3>2, <5>1 DEF v, ClockOf
      <4> QED
        BY <1>5, <2>3, <4>1, <4>2
    <3>4. S.seg[S.list[t][a]].vc \in Clock
      BY <2>1, <2>3, ClockFields
    <3>5. vc_lte(S.seg[S.list[t][a]].vc, ClockOf(T, t))
      BY <1>1, <1>3, <3>3, <3>4, vc_lteTrans
    <3> QED
      BY <1>2, <1>5, <2>1, <2>3, <3>5, SMTT(30) DEF ClockOf
  <2> QED
    BY <1>2, <1>5, <1>11, <2>2, <2>3
<1>12. ASSUME NEW j \in SegIds, NEW u \in Threads PROVE T.seg[j].vc[u] <= ClockOf(T, Home(T, u))[u]
  <2>1. S.seg[j].vc[u] <= ClockOf(S, Home(S, u))[u] /\ ClockOf(S, Home(S, u))[u] \in Nat /\ S.seg[j].vc[u] \in Nat
        /\ Home(S, u) \in Threads /\ S.list[Home(S, u)] # <<>>
    BY HomeClock, ClockFields DEF InOrder
  <2>2. /\ ClockOf(S, Home(S, u))[u] <= ClockOf(T, Home(T, u))[u] /\ ClockOf(T, Home(T, u))[u] \in Nat
        /\ ClockOf(T, t)[u] <= ClockOf(T, Home(T, u))[u]
    <3>1. CASE u = t
      BY <1>1, <1>3, <1>5, <3>1 DEF Home, v
    <3>2. CASE u # t
      <4>1. v[u] <= ClockOf(S, Home(S, u))[u]
        BY <1>1 DEF InOrder, v, ClockOf
      <4>2. Home(T, u) = Home(S, u)
        BY <1>5, <3>2 DEF Home
      <4>3. CASE Home(S, u) # t
        BY <1>3, <1>4, <2>1, <3>2, <4>1, <4>2, <4>3
      <4>4. CASE Home(S, u) = t
        BY <1>1, <1>3, <2>1, <3>2, <4>2, <4>4 DEF Home, v
      <4> QED
        BY <4>3, <4>4
    <3> QED
      BY <3>1, <3>2
  <2>3. T.seg[j].vc[u] = S.seg[j].vc[u] \/ T.seg[j].vc[u] = ClockOf(T, t)[u]
    BY <1>2 DEF ClockOf
  <2> QED
    BY <2>1, <2>2, <2>3
<1>13. InOrder(T)
  BY <1>8, <1>10, <1>11, <1>12 DEF InOrder
<1> QED
  BY <1>3, <1>4, <1>7, <1>13 DEF v

(* T is S with vc combined into the latest clock of t. *)
CombinedAs(S, T, t, vc) ==
  /\ T \in DState /\ T.list = S.list /\ T.run = S.run /\ T.cset = S.cset
  /\ \A i \in SegIds : i # Latest(S, t) => T.seg[i] = S.seg[i]
  /\ T.seg[Latest(S, t)].vc = vc_combine(ClockOf(S, t), vc)
  /\ T.seg[Latest(S, t)].bm = S.seg[Latest(S, t)].bm
  /\ \A u \in Threads : Latest(T, u) = Latest(S, u)
  /\ ClockOf(T, t) = vc_combine(ClockOf(S, t), vc)
  /\ \A u \in Threads : u # t /\ S.list[u] # <<>> => ClockOf(T, u) = ClockOf(S, u)

LEMMA CombineAs ==
  ASSUME NEW S \in DState, Listed(S.list), NEW t \in Threads, S.list[t] # <<>>, NEW vc \in Clock
  PROVE  CombinedAs(S, CombineLatest(S, t, vc), t, vc)
PROOF
<1> DEFINE T == CombineLatest(S, t, vc)
           L == Latest(S, t)
<1>1. /\ T \in DState /\ T.list = S.list /\ T.run = S.run /\ T.cset = S.cset
      /\ \A i \in SegIds : i # L => T.seg[i] = S.seg[i]
      /\ T.seg[L].vc = vc_combine(S.seg[L].vc, vc)
      /\ T.seg[L].bm = S.seg[L].bm /\ T.seg[L].refcnt = S.seg[L].refcnt
  BY CombineIs
<1> HIDE DEF T
<1>2. \A u \in Threads : Latest(T, u) = Latest(S, u)
  BY <1>1 DEF Latest
<1>3. ASSUME NEW u \in Threads, u # t, S.list[u] # <<>> PROVE ClockOf(T, u) = ClockOf(S, u)
  <2>1. Latest(S, u) \in SegIds /\ Latest(S, u)[1] = u /\ L[1] = t
    BY <1>3, LatestIs
  <2> QED
    BY <1>1, <1>2, <1>3, <2>1 DEF ClockOf
<1>4. CombinedAs(S, T, t, vc)
  BY <1>1, <1>2, <1>3 DEF CombinedAs, ClockOf
<1> QED
  BY <1>4 DEF T

(* What a clock may know. *)
Bounded(S, vc) == vc \in Clock /\ \A u \in Threads : vc[u] <= ClockOf(S, Home(S, u))[u]

LEMMA SegBounded ==
  ASSUME NEW S \in DState, InOrder(S), NEW i \in SegIds
  PROVE  Bounded(S, S.seg[i].vc)
PROOF
BY ClockFields DEF Bounded, InOrder

LEMMA CombineInOrder ==
  ASSUME NEW S \in DState, Listed(S.list), InOrder(S), NEW t \in Threads, S.list[t] # <<>>,
         NEW vc, Bounded(S, vc), NEW T, CombinedAs(S, T, t, vc)
  PROVE  InOrder(T) /\ vc_lte(ClockOf(S, t), ClockOf(T, t)) /\ vc_lte(vc, ClockOf(T, t))
         /\ ClockOf(T, t)[t] = ClockOf(S, t)[t] /\ \A u \in Threads : Home(T, u) = Home(S, u)
PROOF
<1> DEFINE L == Latest(S, t)
           v == ClockOf(S, t)
           w == ClockOf(T, t)
<1>1. /\ L \in SegIds /\ L[1] = t /\ v \in Clock /\ vc \in Clock /\ v = S.seg[L].vc
      /\ \A u \in Threads : v[u] \in Nat /\ vc[u] \in Nat
  BY LatestIs DEF Bounded, Clock, ClockOf
<1>2. /\ T \in DState /\ T.list = S.list /\ w = vc_combine(v, vc) /\ T.seg[L].vc = w
      /\ \A i \in SegIds : i # L => T.seg[i] = S.seg[i]
      /\ \A u \in Threads : u # t /\ S.list[u] # <<>> => ClockOf(T, u) = ClockOf(S, u)
  BY DEF CombinedAs
<1>3. /\ w \in Clock /\ vc_lte(v, w) /\ vc_lte(vc, w)
      /\ \A u \in Threads : w[u] = IF v[u] < vc[u] THEN vc[u] ELSE v[u]
  <2> HIDE DEF v, w
  <2>1. /\ vc_combine(v, vc) \in Clock
        /\ \A u \in Threads : vc_combine(v, vc)[u] = IF v[u] < vc[u] THEN vc[u] ELSE v[u]
    BY <1>1, vc_combineType
  <2>2. vc_lte(v, vc_combine(v, vc)) /\ vc_lte(vc, vc_combine(v, vc))
    BY <1>1, vc_combineAbove
  <2> QED
    BY <1>2, <2>1, <2>2
<1>4. w[t] = v[t]
  BY <1>1, <1>3 DEF Bounded, Home
<1>5. \A u \in Threads : Home(T, u) = Home(S, u)
  BY <1>2 DEF Home
<1>6. \A i \in SegIds : vc_lte(S.seg[i].vc, T.seg[i].vc) /\ T.seg[i].vc[i[1]] = S.seg[i].vc[i[1]]
  <2> TAKE i \in SegIds
  <2>1. CASE i = L
    BY <1>1, <1>2, <1>3, <1>4, <2>1
  <2>2. CASE i # L
    BY <1>2, <2>2, ClockFields, vc_lteRefl
  <2> QED
    BY <2>1, <2>2
<1> HIDE DEF w, v
<1>7. ASSUME NEW i \in SegIds, InList(T.list, i) PROVE T.seg[i].vc[1] >= 1 /\ T.seg[i].vc[i[1]] >= 1
  <2>1. S.seg[i].vc[1] >= 1 /\ S.seg[i].vc[i[1]] >= 1 /\ S.seg[i].vc[1] \in Nat /\ T.seg[i].vc[1] \in Nat
    BY <1>2, <1>7, ClockFields, ThreadsAre DEF InOrder
  <2>2. S.seg[i].vc[1] <= T.seg[i].vc[1]
    BY <1>6, ThreadsAre DEF vc_lte
  <2> QED
    BY <1>6, <2>1, <2>2
<1>8. ASSUME NEW u \in Threads, NEW a \in DOMAIN T.list[u], NEW b \in DOMAIN T.list[u], a < b
      PROVE  vc_lte(T.seg[T.list[u][a]].vc, T.seg[T.list[u][b]].vc)
  <2> DEFINE p == T.list[u][a]
             q == T.list[u][b]
  <2>1. /\ p \in SegIds /\ q \in SegIds /\ p[1] = u /\ q[1] = u /\ p # q
        /\ a \in 1 .. Len(T.list[u]) /\ b \in 1 .. Len(T.list[u]) /\ Len(T.list[u]) \in Nat
        /\ T.list[u] \in Seq(SegIds)
    BY <1>2, <1>8, ListedAt
  <2>2. vc_lte(S.seg[p].vc, S.seg[q].vc)
    BY <1>2, <1>8 DEF InOrder
  <2>3. p # L
    <3>1. CASE u = t
      <4>1. L = T.list[t][Len(T.list[t])] /\ Len(T.list[t]) \in 1 .. Len(T.list[t])
        BY <1>2, <2>1, <3>1, RangeSeq DEF Latest
      <4>2. a # Len(T.list[t])
        BY <1>8, <2>1, <3>1
      <4> QED
        BY <1>2, <2>1, <3>1, <4>1, <4>2, ListedAt
    <3>2. CASE u # t
      BY <1>1, <2>1, <3>2
    <3> QED
      BY <3>1, <3>2
  <2>4. S.seg[p].vc \in Clock /\ S.seg[q].vc \in Clock /\ T.seg[q].vc \in Clock
    BY <1>2, <2>1, ClockFields
  <2> HIDE DEF p, q
  <2>5. vc_lte(S.seg[p].vc, T.seg[q].vc)
    BY <1>6, <2>1, <2>2, <2>4, vc_lteTrans
  <2>6. vc_lte(T.seg[p].vc, T.seg[q].vc)
    BY <1>2, <2>1, <2>3, <2>5
  <2> QED
    BY <2>6 DEF p, q
<1>9. ASSUME NEW i \in SegIds, NEW u \in Threads PROVE T.seg[i].vc[u] <= ClockOf(T, Home(T, u))[u]
  <2> DEFINE h == Home(S, u)
  <2>1. h \in Threads /\ S.list[h] # <<>> /\ ClockOf(S, h)[u] \in Nat /\ ClockOf(S, h) \in Clock
    BY HomeClock
  <2>2. S.seg[i].vc[u] <= ClockOf(S, h)[u] /\ vc[u] <= ClockOf(S, h)[u] /\ v[u] <= ClockOf(S, h)[u]
    BY <1>1 DEF InOrder, Bounded
  <2>3. ClockOf(S, h)[u] <= ClockOf(T, h)[u] /\ ClockOf(T, h)[u] \in Nat
    <3>1. CASE h = t
      <4>1. v[u] <= w[u]
        BY <1>3 DEF vc_lte
      <4> QED
        BY <1>3, <3>1, <4>1 DEF v, w, Clock
    <3>2. CASE h # t
      BY <1>2, <2>1, <3>2
    <3> QED
      BY <3>1, <3>2
  <2>4. T.seg[i].vc[u] = S.seg[i].vc[u] \/ T.seg[i].vc[u] = w[u]
    BY <1>2
  <2>5. w[u] <= ClockOf(S, h)[u] /\ w[u] \in Nat /\ S.seg[i].vc[u] \in Nat
    BY <1>1, <1>3, <2>2, ClockFields
  <2> HIDE DEF h
  <2>6. T.seg[i].vc[u] <= ClockOf(T, h)[u]
    BY <2>1, <2>2, <2>3, <2>4, <2>5
  <2> QED
    BY <1>5, <2>6 DEF h
<1>10. T.list[1] # <<>>
  BY <1>2 DEF InOrder
<1>11. InOrder(T)
  BY <1>7, <1>8, <1>9, <1>10 DEF InOrder
<1> QED
  BY <1>3, <1>4, <1>5, <1>11 DEF v, w

-----------------------------------------------------------------------------
(* thread_discard_ordered_segments: as vc_min clears the main thread's     *)
(* count, it discards nothing while there is another thread.               *)

MinStep(S, v, t) ==
  IF S.list[t] = <<>> THEN v ELSE IF v = <<>> THEN ClockOf(S, t) ELSE vc_min(v, ClockOf(S, t))

LEMMA minimum_uptoSteps ==
  ASSUME NEW S
  PROVE  /\ minimum_upto(S)[0] = <<>>
         /\ \A t \in Threads : minimum_upto(S)[t] = MinStep(S, minimum_upto(S)[t - 1], t)
PROOF
<1> DEFINE N == DRD_N_THREADS - 1
           Steps(g, n) == g = [u \in 0 .. n |-> IF u = 0 THEN <<>> ELSE MinStep(S, g[u - 1], u)]
           Bad == {n \in 0 .. N : ~ \E g : Steps(g, n)}
<1>0. N \in Nat /\ Threads = 1 .. N
  BY SizesAssumption DEF Threads
<1> HIDE DEF N
<1>1. ASSUME Bad # {} PROVE FALSE
  <2>0. Bad \in SUBSET Nat
    BY <1>0
  <2>1. PICK n \in Bad : \A k \in Bad : n <= k
    <3> HIDE DEF Bad
    <3> QED
      BY <1>1, <2>0, LeastNat
  <2>2. n # 0
    <3>1. Steps([k \in 0 .. 0 |-> <<>>], 0)
      OBVIOUS
    <3> QED
      BY <2>1, <3>1
  <2>3. n - 1 \in 0 .. N /\ n - 1 \notin Bad /\ n \in 1 .. N
    BY <1>0, <2>1, <2>2, SMTT(30)
  <2>4. PICK g : Steps(g, n - 1)
    BY <2>3
  <2> DEFINE h == [k \in 0 .. n |-> IF k = n THEN MinStep(S, g[n - 1], n) ELSE g[k]]
  <2>5. ASSUME NEW k \in 0 .. n
        PROVE  h[k] = IF k = 0 THEN <<>> ELSE MinStep(S, h[k - 1], k)
    <3>1. CASE k = 0
      BY <2>3, <2>4, <3>1
    <3>2. CASE k # 0 /\ k # n
      <4>1. k - 1 \in 0 .. n /\ k - 1 # n /\ k \in 0 .. n - 1
        BY <2>3, <3>2
      <4> QED
        BY <2>4, <3>2, <4>1
    <3>3. CASE k = n
      BY <2>3, <3>3
    <3> QED
      BY <3>1, <3>2, <3>3
  <2>6. Steps(h, n)
    BY <2>5
  <2> QED
    BY <2>1, <2>6
<1>2. \E g : Steps(g, N)
  <2>0. N \in 0 .. N
    BY <1>0
  <2>1. N \notin Bad
    <3> HIDE DEF Bad
    <3> QED
      BY <1>1
  <2> QED
    BY <2>0, <2>1
<1>3. minimum_upto(S) = CHOOSE g : Steps(g, N)
  BY DEF minimum_upto, MinStep, N
<1>4. Steps(minimum_upto(S), N)
  BY <1>2, <1>3
<1> QED
  BY <1>0, <1>4

(* The minimum with the clock of a thread other than the main one. *)
LEMMA vc_minClears ==
  ASSUME NEW v \in Clock, NEW w \in Clock, NEW t \in Threads, t # 1, w[t] >= 1
  PROVE  vc_min(v, w) \in Clock /\ vc_min(v, w)[1] = 0
PROOF
<1> DEFINE P == {u \in Threads : w[u] > 0}
           last == Max(P)
<1>1. P \in SUBSET Nat /\ t \in P /\ P \subseteq Threads
  BY ThreadsAre DEF Clock
<1>2. last \in P /\ \A u \in P : last >= u
  <2> DEFINE Q == {n \in Nat : \A u \in P : u <= n}
  <2>1. DRD_N_THREADS \in Q
    BY <1>1, ThreadsAre
  <2>2. PICK n \in Q : \A k \in Q : n <= k
    <3>1. Q \in SUBSET Nat /\ Q # {}
      BY <2>1
    <3> HIDE DEF Q
    <3> QED
      BY <3>1, LeastNat
  <2>3. n \in P
    <3>1. SUFFICES ASSUME n \notin P PROVE FALSE
      OBVIOUS
    <3>2. n >= 1 /\ n \in Nat
      BY <1>1, <2>2, ThreadsAre
    <3>3. \A u \in P : u <= n - 1
      BY <1>1, <2>2, <3>1, <3>2
    <3>4. n - 1 \in Q
      BY <3>2, <3>3
    <3> QED
      BY <2>2, <3>2, <3>4
  <2>4. \E x \in P : \A y \in P : x >= y
    BY <1>1, <2>2, <2>3
  <2> HIDE DEF P
  <2> QED
    BY <2>4 DEF Max
<1>3. last \in Threads /\ 1 < last /\ last \in Nat /\ 1 \in Threads
  <2> HIDE DEF last, P
  <2>1. last \in Threads /\ last >= t
    BY <1>1, <1>2
  <2>2. t \in Nat /\ t > 1 /\ last \in Nat /\ 1 \in Threads
    BY <2>1, ThreadsAre
  <2> QED
    BY <2>1, <2>2
<1>4. vc_min(v, w) = [u \in Threads |-> IF u < last THEN 0 ELSE IF u = last /\ w[u] < v[u] THEN w[u] ELSE v[u]]
  BY DEF vc_min
<1> HIDE DEF last
<1> QED
  BY <1>3, <1>4 DEF Clock

LEMMA MinimumClears ==
  ASSUME NEW S \in DState, Listed(S.list), InOrder(S), NEW t \in Threads, t # 1, S.list[t] # <<>>
  PROVE  thread_compute_minimum_vc(S)[1] = 0
PROOF
<1> DEFINE N == DRD_N_THREADS - 1
           m == minimum_upto(S)
           Good(u) == m[u] \in Clock /\ (u >= t => m[u][1] = 0)
           Bad == {u \in Threads : ~ Good(u)}
<1>0. N \in Nat /\ N \in Threads /\ N >= t /\ t \in Nat
  BY ThreadsAre, SizesAssumption DEF Threads
<1>1. m[0] = <<>> /\ \A u \in Threads : m[u] = MinStep(S, m[u - 1], u)
  BY minimum_uptoSteps
<1>2. ASSUME NEW u \in Threads, S.list[u] # <<>> PROVE ClockOf(S, u) \in Clock /\ ClockOf(S, u)[u] >= 1
  <2>1. Latest(S, u) \in SegIds /\ InList(S.list, Latest(S, u)) /\ Latest(S, u)[1] = u /\ ClockOf(S, u) \in Clock
    BY <1>2, LatestIs
  <2> QED
    BY <2>1 DEF InOrder, ClockOf
<1>3. \A v \in Clock : v # <<>>
  <2> TAKE v \in Clock
  <2>1. 1 \in DOMAIN v
    BY ThreadsAre DEF Clock
  <2> QED
    BY <2>1
<1> HIDE DEF m, N
<1>4. ASSUME Bad # {} PROVE FALSE
  <2>0. Bad \in SUBSET Nat
    BY ThreadsAre
  <2>1. PICK u \in Bad : \A k \in Bad : u <= k
    <3> HIDE DEF Bad
    <3> QED
      BY <1>4, <2>0, LeastNat
  <2>2. u \in Threads /\ u \in Nat /\ u >= 1
    BY <2>1, ThreadsAre
  <2>3. CASE u = 1
    <3>1. m[0] = <<>> /\ m[1] = MinStep(S, m[0], 1)
      BY <1>1, <2>2, <2>3
    <3>2. m[1] = ClockOf(S, 1)
      BY <3>1 DEF MinStep, InOrder
    <3>3. m[1] \in Clock
      BY <1>2, <3>2, ThreadsAre DEF InOrder
    <3>4. ~(u >= t)
      BY <2>3, ThreadsAre
    <3> QED
      BY <2>1, <2>3, <3>3, <3>4
  <2>4. CASE u # 1
    <3>1. u - 1 \in Threads /\ u - 1 \notin Bad /\ m[u] = MinStep(S, m[u - 1], u)
      <4>1. u - 1 \in Threads
        BY <2>2, <2>4, SizesAssumption DEF Threads
      <4>2. u - 1 \notin Bad
        <5> HIDE DEF Bad
        <5> QED
          BY <2>0, <2>1, <2>2
      <4> QED
        BY <1>1, <2>2, <4>1, <4>2
    <3>2. m[u - 1] \in Clock /\ (u - 1 >= t => m[u - 1][1] = 0) /\ m[u - 1] # <<>>
      BY <1>3, <3>1
    <3>3. CASE S.list[u] = <<>>
      <4>1. m[u] = m[u - 1] /\ u # t
        BY <3>1, <3>3 DEF MinStep
      <4>2. u >= t => u - 1 >= t
        BY <1>0, <2>2, <4>1
      <4> QED
        BY <2>1, <3>2, <4>1, <4>2
    <3>4. CASE S.list[u] # <<>>
      <4>1. m[u] = vc_min(m[u - 1], ClockOf(S, u))
        BY <3>1, <3>2, <3>4 DEF MinStep
      <4>2. m[u] \in Clock /\ m[u][1] = 0
        BY <1>2, <2>2, <2>4, <3>2, <3>4, <4>1, vc_minClears
      <4> QED
        BY <2>1, <4>2
    <3> QED
      BY <3>3, <3>4
  <2> QED
    BY <2>3, <2>4
<1>5. m[N][1] = 0
  BY <1>0, <1>4
<1> QED
  BY <1>5 DEF m, N, thread_compute_minimum_vc

(* Nothing is discarded while another thread than the main one exists. *)
LEMMA DiscardNothing ==
  ASSUME NEW S \in DState, NEW x, Owned(S.seg, S.list, x), InOrder(S),
         NEW t \in Threads, t # 1, S.list[t] # <<>>
  PROVE  LET T == thread_discard_ordered_segments(S) IN
         /\ T.list = S.list
         /\ \A i \in SegIds : T.seg[i].vc = S.seg[i].vc /\ T.seg[i].bm = S.seg[i].bm
PROOF
<1> DEFINE T == thread_discard_ordered_segments(S)
           min == thread_compute_minimum_vc(S)
<1>1. /\ T \in DState /\ Shrunk(S.seg, S.list, T.seg, T.list)
      /\ \A i \in SegIds : InList(T.list, i) => T.seg[i] = S.seg[i]
      /\ \A u \in Threads : S.list[u] # <<>> =>
           \E k \in 1 .. Len(S.list[u]) :
             /\ T.list[u] = SubSeq(S.list[u], k, Len(S.list[u]))
             /\ \A j \in 1 .. k - 1 : vc_lte(S.seg[S.list[u][j]].vc, min)
  BY DiscardIs
<1>2. Listed(S.list) /\ S.list \in [Threads -> Seq(SegIds)] /\ T.list \in [Threads -> Seq(SegIds)]
  BY <1>1, DStateFields DEF Owned
<1>3. min[1] = 0
  BY <1>2, MinimumClears
<1> HIDE DEF T, min
<1>4. ASSUME NEW u \in Threads PROVE T.list[u] = S.list[u]
  <2>1. CASE S.list[u] = <<>>
    BY <1>1, <1>2, <2>1, ShrunkListed
  <2>2. CASE S.list[u] # <<>>
    <3>1. PICK k \in 1 .. Len(S.list[u]) :
             /\ T.list[u] = SubSeq(S.list[u], k, Len(S.list[u]))
             /\ \A j \in 1 .. k - 1 : vc_lte(S.seg[S.list[u][j]].vc, min)
      BY <1>1, <2>2
    <3>2. S.list[u] \in Seq(SegIds) /\ Len(S.list[u]) \in Nat
      BY <1>2
    <3>3. k = 1
      <4>1. SUFFICES ASSUME k # 1 PROVE FALSE
        OBVIOUS
      <4>2. 1 \in 1 .. k - 1 /\ 1 \in 1 .. Len(S.list[u])
        BY <3>2, <4>1
      <4>3. S.list[u][1] \in SegIds /\ InList(S.list, S.list[u][1])
        BY <1>2, <4>2, ListedAt, SMTT(30) DEF Range
      <4>4. S.seg[S.list[u][1]].vc[1] >= 1 /\ S.seg[S.list[u][1]].vc[1] <= min[1]
        BY <3>1, <4>2, <4>3, ThreadsAre DEF InOrder, vc_lte
      <4>5. S.seg[S.list[u][1]].vc[1] \in Nat
        BY <4>3, ClockFields, ThreadsAre
      <4> QED
        BY <1>3, <4>4, <4>5
    <3> QED
      BY <3>1, <3>2, <3>3
  <2> QED
    BY <2>1, <2>2
<1>5. T.list = S.list
  BY <1>2, <1>4
<1>6. ASSUME NEW i \in SegIds PROVE T.seg[i] = S.seg[i]
  <2>1. CASE InList(S.list, i)
    BY <1>1, <1>5, <2>1
  <2>2. CASE ~ InList(S.list, i)
    BY <1>1, <2>2, Zenon DEF Shrunk
  <2> QED
    BY <2>1, <2>2
<1> QED
  BY <1>5, <1>6 DEF T

-----------------------------------------------------------------------------
(* The conflict set *)

LEMMA ConflictSetIs ==
  ASSUME NEW S \in DState, NEW t \in Threads, Listed(S.list), S.list[t] # <<>>, NEW b
  PROVE  b \in ConflictSet(S, t) <=>
           \E q \in SegIds : /\ InList(S.list, q) /\ q[1] # t /\ b \in S.seg[q].bm
                             /\ Unordered(S, Latest(S, t), q)
PROOF
<1>1. ASSUME b \in ConflictSet(S, t)
      PROVE  \E q \in SegIds : /\ InList(S.list, q) /\ q[1] # t /\ b \in S.seg[q].bm
                               /\ Unordered(S, Latest(S, t), q)
  <2>1. PICK q \in UNION {Range(S.list[j]) : j \in Threads \ {t}} :
             Unordered(S, Latest(S, t), q) /\ b \in S.seg[q].bm
    BY <1>1 DEF ConflictSet
  <2>2. PICK j \in Threads \ {t} : q \in Range(S.list[j])
    BY <2>1
  <2>3. q \in SegIds /\ q[1] = j /\ InList(S.list, q)
    BY <2>2, ListedAt
  <2> QED
    BY <2>1, <2>2, <2>3
<1>2. ASSUME NEW q \in SegIds, InList(S.list, q), q[1] # t, b \in S.seg[q].bm, Unordered(S, Latest(S, t), q)
      PROVE  b \in ConflictSet(S, t)
  <2>1. q[1] \in Threads \ {t} /\ q \in Range(S.list[q[1]])
    BY <1>2, ThreadsAre DEF InList
  <2> QED
    BY <1>2, <2>1 DEF ConflictSet
<1> QED
  BY <1>1, <1>2

(* The set of the running thread is current. *)
Current(S, merging) ==
  /\ ConflictSet(S, S.run) \subseteq S.cset
  /\ ~ merging => S.cset = ConflictSet(S, S.run)

LEMMA SlimTrans ==
  ASSUME NEW S \in DState, NEW T, NEW U, Listed(S.list), Slim(S, T), Slim(T, U)
  PROVE  /\ InOrder(S) => InOrder(U)
         /\ SameClocks(S, U) /\ Listed(U.list) /\ U \in DState
         /\ \A t \in Threads : InOrder(S) /\ S.list[t] # <<>> /\ Fresh(S, t) => Fresh(U, t)
PROOF
<1>1. T \in DState /\ U \in DState
  BY DEF Slim
<1>2. SameClocks(S, T) /\ Listed(T.list)
  BY SlimClocks
<1>3. SameClocks(T, U) /\ Listed(U.list)
  BY <1>1, <1>2, SlimClocks
<1>4. InOrder(S) => InOrder(T) /\ InOrder(U)
  BY <1>1, <1>2, SlimInOrder
<1>5. SameClocks(S, U)
  BY <1>2, <1>3 DEF SameClocks
<1>6. ASSUME NEW t \in Threads, InOrder(S), S.list[t] # <<>>, Fresh(S, t) PROVE Fresh(U, t)
  <2>1. Fresh(T, t) /\ T.list[t] # <<>>
    BY <1>2, <1>6, SlimFresh DEF SameClocks
  <2> QED
    BY <1>1, <1>2, <1>4, <1>6, <2>1, SlimFresh
<1> QED
  BY <1>1, <1>3, <1>4, <1>5, <1>6

(* Discarding leaves the conflict set alone. *)
LEMMA DiscardConflict ==
  ASSUME NEW S \in DState, NEW x, Owned(S.seg, S.list, x), InOrder(S), NEW t \in Threads, S.list[t] # <<>>
  PROVE  ConflictSet(thread_discard_ordered_segments(S), t) = ConflictSet(S, t)
PROOF
<1> DEFINE T == thread_discard_ordered_segments(S)
<1>1. T \in DState /\ Listed(S.list) /\ Slim(S, T)
  BY DiscardSlim DEF Owned, Slim
<1>2. Listed(T.list) /\ SameClocks(S, T)
  BY <1>1, SlimClocks
<1>3. CASE \E u \in Threads : u # 1 /\ S.list[u] # <<>>
  <2>1. /\ T.list = S.list
        /\ \A i \in SegIds : T.seg[i].vc = S.seg[i].vc /\ T.seg[i].bm = S.seg[i].bm
    BY <1>3, DiscardNothing
  <2> HIDE DEF T
  <2>2. Latest(T, t) = Latest(S, t) /\ Latest(S, t) \in SegIds /\ T.list[t] # <<>>
    BY <2>1, LatestIs DEF Latest
  <2>3. ASSUME NEW b PROVE b \in ConflictSet(T, t) <=> b \in ConflictSet(S, t)
    <3>1. \A q \in SegIds : Unordered(T, Latest(T, t), q) <=> Unordered(S, Latest(S, t), q)
      BY <2>1, <2>2 DEF Unordered
    <3>2. b \in ConflictSet(T, t) <=>
             \E q \in SegIds : /\ InList(T.list, q) /\ q[1] # t /\ b \in T.seg[q].bm
                               /\ Unordered(T, Latest(T, t), q)
      BY <1>1, <1>2, <2>2, ConflictSetIs DEF Slim
    <3>3. b \in ConflictSet(S, t) <=>
             \E q \in SegIds : /\ InList(S.list, q) /\ q[1] # t /\ b \in S.seg[q].bm
                               /\ Unordered(S, Latest(S, t), q)
      BY <1>1, ConflictSetIs
    <3> QED
      BY <2>1, <3>1, <3>2, <3>3
  <2>4. ConflictSet(T, t) = ConflictSet(S, t)
    BY <2>3
  <2> QED
    BY <2>4 DEF T
<1>4. CASE \A u \in Threads : u # 1 => S.list[u] = <<>>
  <2>1. t = 1
    BY <1>4
  <2>2. ASSUME NEW U \in DState, \A u \in Threads : u # 1 => U.list[u] = <<>> PROVE ConflictSet(U, t) = {}
    <3>1. ASSUME NEW j \in Threads \ {t} PROVE Range(U.list[j]) = {}
      BY <2>1, <2>2 DEF Range
    <3> QED
      BY <3>1 DEF ConflictSet
  <2>3. \A u \in Threads : u # 1 => T.list[u] = <<>>
    BY <1>2, <1>4 DEF SameClocks
  <2> QED
    BY <1>1, <1>4, <2>2, <2>3
<1> QED
  BY <1>3, <1>4

(* Merging adds nothing to it when the latest clock is new: a segment that *)
(* is not ordered with it was not ordered before its accesses moved.       *)
LEMMA MergeConflict ==
  ASSUME NEW S \in DState, NEW x, Owned(S.seg, S.list, x), InOrder(S), NEW t \in Threads, S.list[t] # <<>>,
         Fresh(S, t)
  PROVE  ConflictSet(thread_merge_segments(S), t) \subseteq ConflictSet(S, t)
PROOF
<1> DEFINE T == thread_merge_segments(S)
           L == Latest(S, t)
<1>1. T \in DState /\ Listed(S.list) /\ Slim(S, T)
  BY MergeSlim DEF Owned, Slim
<1>2. Listed(T.list) /\ SameClocks(S, T)
      /\ \A i \in SegIds : InList(T.list, i) => InList(S.list, i) /\ T.seg[i].vc = S.seg[i].vc
  BY <1>1, SlimClocks
<1>3. \A i \in SegIds : InList(T.list, i) =>
        \A b \in T.seg[i].bm :
           \/ b \in S.seg[i].bm
           \/ \E n \in 2 .. Len(S.list[i[1]]) - 1 :
                S.list[i[1]][n - 1] = i /\ b \in S.seg[S.list[i[1]][n]].bm
  BY MergeIs
<1> HIDE DEF T
<1>4. /\ Latest(T, t) = L /\ T.list[t] # <<>> /\ L \in SegIds /\ InList(S.list, L) /\ L[1] = t
      /\ T.seg[L].vc = S.seg[L].vc
  <2>1. Latest(T, t) = L /\ T.list[t] # <<>> /\ L \in SegIds /\ InList(S.list, L) /\ L[1] = t
    BY <1>1, <1>2, LatestIs DEF SameClocks
  <2>2. InList(T.list, L)
    BY <1>1, <1>2, <2>1, LatestIs
  <2> QED
    BY <1>2, <2>1, <2>2
<1> HIDE DEF L
<1>5. ASSUME NEW b \in ConflictSet(T, t) PROVE b \in ConflictSet(S, t)
  <2>1. PICK p \in SegIds : InList(T.list, p) /\ p[1] # t /\ b \in T.seg[p].bm /\ Unordered(T, L, p)
    BY <1>1, <1>2, <1>4, ConflictSetIs
  <2>2. InList(S.list, p) /\ T.seg[p].vc = S.seg[p].vc
    BY <1>2, <2>1
  <2>3. ~ vc_lte(S.seg[p].vc, S.seg[L].vc)
    BY <1>4, <2>1, <2>2 DEF Unordered
  <2>4. ASSUME NEW q \in SegIds, InList(S.list, q), q[1] = p[1], vc_lte(S.seg[p].vc, S.seg[q].vc), b \in S.seg[q].bm
        PROVE  b \in ConflictSet(S, t)
    <3>1. ~ vc_lte(S.seg[q].vc, S.seg[L].vc)
      BY <1>4, <2>1, <2>3, <2>4, ClockFields, vc_lteTrans
    <3>2. q # L
      BY <1>4, <2>1, <2>4
    <3>3. S.seg[q].vc[t] < S.seg[L].vc[t] /\ S.seg[q].vc[t] \in Nat /\ S.seg[L].vc[t] \in Nat
      BY <1>4, <2>4, <3>2, ClockFields DEF Fresh, L, ClockOf
    <3>4. ~ vc_lte(S.seg[L].vc, S.seg[q].vc)
      BY <3>3 DEF vc_lte
    <3>5. Unordered(S, Latest(S, t), q)
      BY <3>1, <3>4 DEF Unordered, L
    <3> QED
      BY <1>1, <2>1, <2>4, <3>5, ConflictSetIs
  <2>5. CASE b \in S.seg[p].bm
    BY <2>1, <2>2, <2>4, <2>5, ClockFields, vc_lteRefl, SMTT(30)
  <2>6. CASE \E n \in 2 .. Len(S.list[p[1]]) - 1 : S.list[p[1]][n - 1] = p /\ b \in S.seg[S.list[p[1]][n]].bm
    <3> DEFINE l == S.list[p[1]]
    <3>1. PICK n \in 2 .. Len(l) - 1 : l[n - 1] = p /\ b \in S.seg[l[n]].bm
      BY <2>6
    <3>2. p[1] \in Threads /\ Len(l) \in Nat /\ DOMAIN l = 1 .. Len(l)
      BY <1>1, ThreadsAre, ListedAt
    <3>3. n \in DOMAIN l /\ n - 1 \in DOMAIN l /\ n - 1 < n
      BY <3>1, <3>2
    <3>4. vc_lte(S.seg[p].vc, S.seg[l[n]].vc)
      BY <3>1, <3>2, <3>3 DEF InOrder
    <3>5. l[n] \in SegIds /\ l[n][1] = p[1] /\ InList(S.list, l[n])
      BY <1>1, <3>2, <3>3, ListedAt DEF Range
    <3> QED
      BY <2>4, <3>1, <3>4, <3>5
  <2> QED
    BY <1>3, <2>1, <2>5, <2>6
<1> QED
  BY <1>5 DEF T

LEMMA ComputeSlim ==
  ASSUME NEW S \in DState
  PROVE  LET T == thread_compute_conflict_set(S) IN
         /\ Slim(S, T) /\ T.seg = S.seg /\ T.list = S.list /\ T.run = S.run /\ T.cset = ConflictSet(S, S.run)
         /\ \A t \in Threads : ConflictSet(T, t) = ConflictSet(S, t)
PROOF
<1> DEFINE T == thread_compute_conflict_set(S)
<1>1. T = [seg |-> S.seg, list |-> S.list, run |-> S.run, cset |-> ConflictSet(S, S.run)] /\ T \in DState
  BY ComputeIs
<1> HIDE DEF T
<1>2. T.seg = S.seg /\ T.list = S.list /\ T.run = S.run /\ T.cset = ConflictSet(S, S.run)
  BY <1>1
<1>3. Slim(S, T)
  BY <1>1, <1>2, SlimSame
<1>4. ASSUME NEW t \in Threads PROVE ConflictSet(T, t) = ConflictSet(S, t)
  BY <1>2 DEF ConflictSet, Unordered, Latest
<1> QED
  BY <1>2, <1>3, <1>4 DEF T

(* thread_new_segment: an append, after which segments are dropped; the    *)
(* conflict set is current.                                                *)
LEMMA NewSegmentOrder ==
  ASSUME NEW S \in DState, NEW x, Owned(S.seg, S.list, x), InOrder(S), NEW t \in Threads,
         S.list[t] # <<>>, HasRoom(S.seg, t)
  PROVE  LET T == thread_new_segment(S, t) IN
         /\ InOrder(T) /\ Fresh(T, t) /\ vc_lte(ClockOf(S, t), ClockOf(T, t))
         /\ \A u \in Threads : u # t /\ S.list[u] # <<>> => Latest(T, u) = Latest(S, u) /\ ClockOf(T, u) = ClockOf(S, u)
         /\ S.run = t => Current(T, s_segment_merging)
PROOF
<1> DEFINE A == thread_append_segment(S, t, t)
           B == thread_compute_conflict_set(A)
           C == thread_discard_ordered_segments(B)
           D == thread_merge_segments(C)
           T == thread_new_segment(S, t)
<1>1. Appended(S, A, x, t)
  BY AppendKeeps
<1>2. PICK i \in SegIds : AppendedAs(S, A, t, t, i)
  BY AppendIs
<1>3. T = IF s_segment_merging THEN D ELSE C
  BY DEF thread_new_segment
<1> HIDE DEF A
<1>4. A \in DState /\ Owned(A.seg, A.list, x) /\ Listed(A.list) /\ Listed(S.list) /\ A.run = S.run
      /\ A.list[t] # <<>>
  BY <1>1 DEF Appended, Owned
<1>5. /\ InOrder(A) /\ Fresh(A, t) /\ vc_lte(ClockOf(S, t), ClockOf(A, t))
      /\ \A u \in Threads : u # t /\ S.list[u] # <<>> => Latest(A, u) = Latest(S, u) /\ ClockOf(A, u) = ClockOf(S, u)
  <2>1. Home(S, t) = t
    BY DEF Home
  <2> QED
    BY <1>2, <1>4, <2>1, AppendInOrder
<1>6. /\ Slim(A, B) /\ B.run = S.run /\ B.cset = ConflictSet(A, S.run) /\ Steady(A, B, x)
      /\ \A u \in Threads : ConflictSet(B, u) = ConflictSet(A, u)
  BY <1>4, ComputeSlim, ComputeSteady
<1> HIDE DEF B
<1>7. B \in DState /\ Owned(B.seg, B.list, x) /\ Listed(B.list)
  BY <1>6 DEF Steady, Owned
<1>8. Slim(B, C) /\ C.run = S.run /\ C.cset = B.cset /\ Steady(B, C, x)
  BY <1>6, <1>7, DiscardSlim, DiscardIs, DiscardSteady
<1>9. /\ InOrder(B) /\ SameClocks(A, C) /\ Listed(C.list) /\ C \in DState /\ InOrder(C) /\ Fresh(C, t)
      /\ B.list[t] # <<>> /\ C.list[t] # <<>>
  <2>1. InOrder(B) /\ SameClocks(A, B)
    BY <1>4, <1>5, <1>6, SlimInOrder, SlimClocks
  <2>2. InOrder(C) /\ SameClocks(A, C) /\ Listed(C.list) /\ C \in DState /\ Fresh(C, t)
    BY <1>4, <1>5, <1>6, <1>8, SlimTrans
  <2> QED
    BY <1>4, <2>1, <2>2 DEF SameClocks
<1>10. S.run = t => ConflictSet(C, t) = C.cset
  BY <1>6, <1>7, <1>8, <1>9, DiscardConflict
<1> HIDE DEF C
<1>11. Slim(C, D) /\ D.run = S.run /\ D.cset = C.cset
  BY <1>8, MergeSlim, MergeIs DEF Steady
<1>12. S.run = t => ConflictSet(D, t) \subseteq D.cset
  BY <1>8, <1>9, <1>10, <1>11, MergeConflict, ZenonT(60) DEF Steady
<1> HIDE DEF D
<1>13. InOrder(D) /\ Fresh(D, t) /\ SameClocks(C, D)
  BY <1>9, <1>11, SlimInOrder, SlimFresh, SlimClocks
<1>14. SameClocks(A, D)
  BY <1>9, <1>13 DEF SameClocks
<1>15. T.run = S.run /\ InOrder(T) /\ Fresh(T, t) /\ SameClocks(A, T)
  BY <1>3, <1>8, <1>9, <1>11, <1>13, <1>14
<1>16. S.run = t => Current(T, s_segment_merging)
  BY <1>3, <1>8, <1>10, <1>11, <1>12 DEF Current
<1> HIDE DEF T
<1>17. \A u \in Threads : u # t /\ S.list[u] # <<>> => Latest(T, u) = Latest(S, u) /\ ClockOf(T, u) = ClockOf(S, u)
  <2> TAKE u \in Threads
  <2> HAVE u # t /\ S.list[u] # <<>>
  <2>1. A.list[u] # <<>> /\ Latest(A, u) = Latest(S, u) /\ ClockOf(A, u) = ClockOf(S, u)
    BY <1>1, <1>5 DEF Appended
  <2> QED
    BY <1>15, <2>1 DEF SameClocks
<1>18. vc_lte(ClockOf(S, t), ClockOf(T, t))
  BY <1>4, <1>5, <1>15 DEF SameClocks
<1> QED
  BY <1>15, <1>16, <1>17, <1>18 DEF T

(* The same for thread_combine_vc2 and thread_combine_vc. *)
LEMMA Combine2Order ==
  ASSUME NEW S \in DState, NEW x, Owned(S.seg, S.list, x), InOrder(S), NEW t \in Threads,
         S.list[t] # <<>>, NEW vc, Bounded(S, vc)
  PROVE  LET T == thread_combine_vc2(S, t, vc) IN
         /\ InOrder(T) /\ ClockOf(T, t) = vc_combine(ClockOf(S, t), vc)
         /\ vc_lte(ClockOf(S, t), ClockOf(T, t)) /\ vc_lte(vc, ClockOf(T, t))
PROOF
<1> DEFINE A == CombineLatest(S, t, vc)
           B == thread_compute_conflict_set(A)
           C == thread_discard_ordered_segments(B)
<1>0. vc \in Clock /\ Listed(S.list)
  BY DEF Bounded, Owned
<1>1. Steady(S, A, x) /\ CombinedAs(S, A, t, vc)
  BY <1>0, CombineSteady, CombineAs
<1> HIDE DEF A
<1>2. /\ InOrder(A) /\ vc_lte(ClockOf(S, t), ClockOf(A, t)) /\ vc_lte(vc, ClockOf(A, t))
      /\ A \in DState /\ Listed(A.list) /\ A.list[t] # <<>>
  BY <1>0, <1>1, CombineInOrder DEF Steady, Owned
<1>3. Slim(A, B) /\ Steady(A, B, x)
  BY <1>1, ComputeSlim, ComputeSteady DEF Steady
<1> HIDE DEF B
<1>4. Slim(B, C)
  BY <1>3, DiscardSlim DEF Steady
<1>5. thread_combine_vc2(S, t, vc) = C
  BY DEF thread_combine_vc2, A, B
<1> HIDE DEF C
<1>6. InOrder(C) /\ SameClocks(A, C)
  BY <1>2, <1>3, <1>4, SlimTrans
<1>7. ClockOf(C, t) = ClockOf(A, t) /\ ClockOf(A, t) = vc_combine(ClockOf(S, t), vc)
  BY <1>1, <1>2, <1>6 DEF SameClocks, CombinedAs
<1> QED
  BY <1>2, <1>5, <1>6, <1>7

LEMMA CombineOrder ==
  ASSUME NEW S \in DState, NEW x, Owned(S.seg, S.list, x), InOrder(S), NEW t \in Threads,
         S.list[t] # <<>>, NEW u \in Threads, u # t, S.list[u] # <<>>
  PROVE  LET T == thread_combine_vc(S, t, u) IN
         /\ InOrder(T) /\ vc_lte(ClockOf(T, u), ClockOf(T, t)) /\ ClockOf(T, u) = ClockOf(S, u)
PROOF
<1> DEFINE vc == ClockOf(S, u)
           A == CombineLatest(S, t, vc)
           B == thread_discard_ordered_segments(A)
           C == thread_compute_conflict_set(B)
<1>0. Bounded(S, vc) /\ vc \in Clock /\ Listed(S.list)
  BY LatestIs, SegBounded DEF Owned, ClockOf
<1>1. Steady(S, A, x) /\ CombinedAs(S, A, t, vc)
  BY <1>0, CombineSteady, CombineAs
<1> HIDE DEF A
<1>2. /\ InOrder(A) /\ vc_lte(vc, ClockOf(A, t)) /\ ClockOf(A, u) = vc
      /\ A \in DState /\ Listed(A.list) /\ A.list[t] # <<>> /\ A.list[u] # <<>>
  BY <1>0, <1>1, CombineInOrder DEF Steady, Owned, CombinedAs
<1>3. Slim(A, B) /\ Steady(A, B, x)
  BY <1>1, DiscardSlim, DiscardSteady DEF Steady
<1> HIDE DEF B
<1>4. Slim(B, C)
  BY <1>3, ComputeSlim DEF Steady
<1>5. thread_combine_vc(S, t, u) = IF t = S.run THEN C ELSE B
  BY DEF thread_combine_vc, A, B
<1> HIDE DEF C
<1>6. InOrder(C) /\ SameClocks(A, C) /\ InOrder(B) /\ SameClocks(A, B)
  BY <1>2, <1>3, <1>4, SlimTrans, SlimInOrder, SlimClocks
<1>7. \A T \in {B, C} : ClockOf(T, t) = ClockOf(A, t) /\ ClockOf(T, u) = vc
  BY <1>2, <1>6 DEF SameClocks
<1> QED
  BY <1>2, <1>5, <1>6, <1>7

-----------------------------------------------------------------------------
(* The order in the states of the specification *)

Ranked == InOrder(S0) /\ Current(S0, s_segment_merging)

LEMMA SameInOrder ==
  ASSUME NEW S, NEW T, T.seg = S.seg, T.list = S.list
  PROVE  /\ InOrder(S) <=> InOrder(T)
         /\ \A t : ConflictSet(T, t) = ConflictSet(S, t)
         /\ \A t : Latest(T, t) = Latest(S, t) /\ ClockOf(T, t) = ClockOf(S, t) /\ Home(T, t) = Home(S, t)
         /\ \A t : Fresh(S, t) <=> Fresh(T, t)
PROOF
<1>1. \A t : Latest(T, t) = Latest(S, t) /\ ClockOf(T, t) = ClockOf(S, t) /\ Home(T, t) = Home(S, t)
  BY DEF Latest, ClockOf, Home
<1>2. \A p, q : Unordered(T, p, q) <=> Unordered(S, p, q)
  BY DEF Unordered
<1>3. \A t : ConflictSet(T, t) = ConflictSet(S, t)
  BY <1>1, <1>2 DEF ConflictSet
<1> QED
  BY <1>1, <1>3 DEF InOrder, Fresh

(* The conflict set depends on the clocks in the lists and on the accesses *)
(* of the other threads.                                                   *)
LEMMA ConflictSame ==
  ASSUME NEW S \in DState, NEW T \in DState, Listed(S.list), T.list = S.list, NEW t \in Threads, S.list[t] # <<>>,
         \A i \in SegIds : InList(S.list, i) => T.seg[i].vc = S.seg[i].vc,
         \A i \in SegIds : InList(S.list, i) /\ i[1] # t => T.seg[i].bm = S.seg[i].bm
  PROVE  ConflictSet(T, t) = ConflictSet(S, t)
PROOF
<1>1. Latest(T, t) = Latest(S, t) /\ Latest(S, t) \in SegIds /\ InList(S.list, Latest(S, t))
  BY LatestIs DEF Latest
<1>2. \A q \in SegIds : InList(S.list, q) => (Unordered(T, Latest(T, t), q) <=> Unordered(S, Latest(S, t), q))
  BY <1>1 DEF Unordered
<1>3. ASSUME NEW b PROVE b \in ConflictSet(T, t) <=> b \in ConflictSet(S, t)
  <2>1. b \in ConflictSet(T, t) <=>
           \E q \in SegIds : /\ InList(T.list, q) /\ q[1] # t /\ b \in T.seg[q].bm
                             /\ Unordered(T, Latest(T, t), q)
    BY ConflictSetIs
  <2>2. b \in ConflictSet(S, t) <=>
           \E q \in SegIds : /\ InList(S.list, q) /\ q[1] # t /\ b \in S.seg[q].bm
                             /\ Unordered(S, Latest(S, t), q)
    BY ConflictSetIs
  <2> QED
    BY <1>2, <2>1, <2>2
<1> QED
  BY <1>3

LEMMA BecomeRanked ==
  ASSUME NEW X \in DState, Become(X), InOrder(X), Current(X, s_segment_merging), UNCHANGED s_segment_merging
  PROVE  Ranked'
PROOF
<1>1. X = [seg |-> X.seg, list |-> X.list, run |-> X.run, cset |-> X.cset]
  BY DEF DState
<1>2. S0' = X
  BY <1>1 DEF Become, S0
<1>3. InOrder(S0') /\ Current(S0', s_segment_merging')
  BY <1>2
<1> QED
  BY <1>3 DEF Ranked

LEMMA ScheduledRanked ==
  ASSUME TypeOK, Held, Ranked, NEW t \in Threads, status[t] # "none"
  PROVE  InOrder(Scheduled(t)) /\ Current(Scheduled(t), s_segment_merging)
PROOF
<1> DEFINE S == Scheduled(t)
           R == [S0 EXCEPT !.run = t]
<1>1. /\ S \in DState /\ S.seg = seg /\ S.list = list /\ S.run = t
      /\ S.cset = IF t = running THEN s_conflict_set ELSE ConflictSet(R, t)
  BY ScheduledIs
<1> HIDE DEF S
<1>2. S0.seg = seg /\ S0.list = list /\ S0.run = running /\ S0.cset = s_conflict_set /\ R.seg = seg /\ R.list = list
  BY S0Fields DEF S0
<1> HIDE DEF R
<1>3. InOrder(S) /\ ConflictSet(S, t) = ConflictSet(S0, t) /\ ConflictSet(R, t) = ConflictSet(S0, t)
  BY <1>1, <1>2, SameInOrder DEF Ranked
<1>4. S.cset = IF t = running THEN s_conflict_set ELSE ConflictSet(S, t)
  BY <1>1, <1>3
<1>5. Current(S0, s_segment_merging)
  BY DEF Ranked
<1>6. Current(S, s_segment_merging)
  <2>1. CASE t = running
    BY <1>1, <1>2, <1>3, <1>4, <1>5, <2>1 DEF Current
  <2>2. CASE t # running
    BY <1>1, <1>4, <2>2 DEF Current
  <2> QED
    BY <2>1, <2>2
<1> QED
  BY <1>3, <1>6 DEF S

(* Steps that leave lists, clocks and the other threads' accesses alone. *)
LEMMA SameRanked ==
  ASSUME TypeOK, Held, Ranked, NEW t \in Threads, status[t] # "none", UNCHANGED s_segment_merging,
         NEW X \in DState, Become(X), X.list = list, X.run = t, X.cset = Scheduled(t).cset,
         \A i \in SegIds : \/ X.seg[i].vc = seg[i].vc /\ (i[1] # t => X.seg[i].bm = seg[i].bm)
                           \/ X.seg[i] = NoSegment /\ ~ InList(list, i)
  PROVE  Ranked'
PROOF
<1> DEFINE S == Scheduled(t)
<1>1. S \in DState /\ S.seg = seg /\ S.list = list /\ S.run = t /\ list[t] # <<>> /\ Listed(list)
  BY ScheduledIs, HasList DEF Held, Owned
<1>2. InOrder(S) /\ Current(S, s_segment_merging)
  BY ScheduledRanked
<1> HIDE DEF S
<1>3. /\ \A i \in SegIds : X.seg[i].vc = S.seg[i].vc \/ (X.seg[i] = NoSegment /\ ~ InList(X.list, i))
      /\ \A i \in SegIds : InList(list, i) => X.seg[i].vc = S.seg[i].vc /\ (i[1] # t => X.seg[i].bm = S.seg[i].bm)
  BY <1>1
<1>4. Slim(S, X)
  BY <1>1, <1>3, SlimSame
<1>5. InOrder(X)
  BY <1>1, <1>2, <1>4, SlimInOrder
<1>6. ConflictSet(X, t) = ConflictSet(S, t)
  BY <1>1, <1>3, ConflictSame
<1>7. Current(X, s_segment_merging)
  BY <1>1, <1>2, <1>6 DEF Current, S
<1> QED
  BY <1>5, <1>7, BecomeRanked

LEMMA InitRanked == Init => Ranked
PROOF
<1> SUFFICES ASSUME Init PROVE Ranked
  OBVIOUS
<1> DEFINE one == <<1, 1>>
           v == vc_increment(NoSegment.vc, 1)
           s == [vc |-> v, bm |-> {}, refcnt |-> 1]
<1>1. TypeOK /\ Held
  BY InitHeld
<1>2. S0 \in DState /\ S0.seg = seg /\ S0.list = list /\ S0.run = 1 /\ S0.cset = {} /\ Listed(list)
  BY <1>1, S0Fields DEF TypeOK, Held, Owned, Init
<1>3. one \in SegIds /\ one[1] = 1
  BY ThreadsAre, SizesAssumption DEF SegIds
<1>4. v \in Clock /\ v[1] = 1 /\ \A t \in Threads : t # 1 => v[t] = 0
  <2>1. NoSegment.vc \in Clock /\ \A t \in Threads : NoSegment.vc[t] = 0
    BY NoSegmentType, SegFields
  <2> QED
    BY <2>1, vc_incrementType, ThreadsAre
<1> HIDE DEF v
<1>5. /\ \A i \in SegIds : seg[i] = IF i = one THEN s ELSE NoSegment
      /\ \A t \in Threads : list[t] = IF t = 1 THEN << one >> ELSE <<>>
  BY DEF Init, v
<1> HIDE DEF one
<1>6. seg[one].vc = v /\ list[1] = << one >> /\ Last(list[1]) = one /\ list[1] # <<>>
      /\ \A t \in Threads : t # 1 => list[t] = <<>>
  <2>1. list[1] = << one >>
    BY <1>5, ThreadsAre
  <2>2. Last(<< one >>) = one
    BY DEF Last
  <2> QED
    BY <1>3, <1>5, <2>1, <2>2
<1>7. ASSUME NEW i \in SegIds, InList(list, i) PROVE i = one
  <2>1. i[1] \in Threads /\ i \in Range(list[i[1]]) /\ list[i[1]] \in Seq(SegIds)
    BY <1>2, <1>7, ThreadsAre, ListedAt DEF InList
  <2>2. PICK a \in 1 .. Len(list[i[1]]) : list[i[1]][a] = i
    BY <2>1, RangeSeq
  <2> QED
    BY <1>5, <2>1, <2>2
<1>8. ClockOf(S0, 1) = v /\ Latest(S0, 1) = one
  BY <1>2, <1>6 DEF ClockOf, Latest
<1>9. \A t \in Threads : Home(S0, t) = 1
  BY <1>2, <1>6 DEF Home
<1>10. \A i \in SegIds, t \in Threads : seg[i].vc[t] <= v[t]
  BY <1>4, <1>5, NoSegmentType, ThreadsAre
<1>11. \A t \in Threads : \A a, b \in DOMAIN list[t] : a < b => vc_lte(seg[list[t][a]].vc, seg[list[t][b]].vc)
  BY <1>5
<1>12. InOrder(S0)
  BY <1>2, <1>3, <1>4, <1>6, <1>7, <1>8, <1>9, <1>10, <1>11 DEF InOrder
<1>13. ConflictSet(S0, 1) = {}
  <2>1. ASSUME NEW b, b \in ConflictSet(S0, 1) PROVE FALSE
    <3>1. PICK q \in SegIds : InList(S0.list, q) /\ q[1] # 1
      BY <1>2, <1>6, <2>1, ConflictSetIs, ThreadsAre, ZenonT(60)
    <3> QED
      BY <1>2, <1>3, <1>7, <3>1
  <2> QED
    BY <2>1
<1> QED
  BY <1>2, <1>12, <1>13 DEF Ranked, Current

LEMMA FinishRanked ==
  ASSUME TypeOK, Held, Ranked, NEW t \in Threads, Finish(t)
  PROVE  Ranked'
PROOF
<1>1. status[t] # "none" /\ Become(Scheduled(t)) /\ UNCHANGED s_segment_merging
  BY DEF Finish, InClient
<1> QED
  BY <1>1, ScheduledIs, ScheduledRanked, BecomeRanked

(* The access goes to t's latest segment. *)
Traced(X, t, a) ==
  /\ X.list = list /\ X.run = t /\ X.cset = Scheduled(t).cset
  /\ \A i \in SegIds : /\ X.seg[i].vc = seg[i].vc
                       /\ X.seg[i].bm = IF i = Latest(S0, t) THEN seg[i].bm \cup {a} ELSE seg[i].bm

LEMMA TraceAccessIs ==
  ASSUME TypeOK, Held, NEW t \in Threads, NEW a \in Access, TraceAccess(t, a)
  PROVE  \E X \in DState : Become(X) /\ Traced(X, t, a)
PROOF
<1> DEFINE L == Last(list[t])
           s == [seg[L] EXCEPT !.bm = @ \cup {a}]
           X == [Scheduled(t) EXCEPT !.seg[L].bm = @ \cup {a}]
<1>1. status[t] # "none" /\ UNCHANGED s_segment_merging
  BY DEF TraceAccess, InClient
<1>2. L \in SegIds /\ L = Latest(S0, t) /\ L[1] = t
  BY <1>1, HasList
<1>3. Become(X)
  BY <1>2 DEF TraceAccess
<1>4. seg \in [SegIds -> SegRec] /\ seg[L] \in SegRec
  BY <1>2 DEF Held, Owned
<1>5. s \in SegRec /\ s.vc = seg[L].vc /\ s.bm = seg[L].bm \cup {a}
  BY <1>4 DEF SegRec
<1>6. Scheduled(t) \in DState /\ Scheduled(t).seg = seg /\ Scheduled(t).list = list /\ Scheduled(t).run = t
  BY ScheduledIs
<1>7. X = [seg |-> [seg EXCEPT ![L] = s], list |-> list, run |-> t, cset |-> Scheduled(t).cset]
  <2> DEFINE Y == Scheduled(t)
  <2> HIDE DEF L, Y
  <2>1. Y \in DState /\ Y.seg = seg /\ Y.list = list /\ Y.run = t
    BY <1>6 DEF Y
  <2>2. [Y EXCEPT !.seg[L].bm = @ \cup {a}] = [Y EXCEPT !.seg = [Y.seg EXCEPT ![L] = [Y.seg[L] EXCEPT !.bm = @ \cup {a}]]]
    BY <2>1, Zenon
  <2>3. [Y EXCEPT !.seg = [Y.seg EXCEPT ![L] = [Y.seg[L] EXCEPT !.bm = @ \cup {a}]]] = [Y EXCEPT !.seg = [seg EXCEPT ![L] = s]]
    BY <2>1
  <2> HIDE DEF s
  <2>4. [Y EXCEPT !.seg = [seg EXCEPT ![L] = s]] =
          [seg |-> [seg EXCEPT ![L] = s], list |-> list, run |-> t, cset |-> Y.cset]
    BY <2>1, SetSeg
  <2> QED
    BY <2>2, <2>3, <2>4 DEF Y
<1> HIDE DEF X, s, L
<1>8. [seg EXCEPT ![L] = s] \in [SegIds -> SegRec]
  BY <1>4, <1>5
<1>9. X \in DState /\ X.seg = [seg EXCEPT ![L] = s] /\ X.list = list /\ X.run = t /\ X.cset = Scheduled(t).cset
  BY <1>6, <1>7, <1>8, DStateFields DEF DState
<1>10. \A i \in SegIds : /\ X.seg[i].vc = seg[i].vc
                         /\ X.seg[i].bm = IF i = Latest(S0, t) THEN seg[i].bm \cup {a} ELSE seg[i].bm
  BY <1>2, <1>4, <1>5, <1>9
<1> QED
  BY <1>3, <1>9, <1>10 DEF Traced

LEMMA TraceAccessRanked ==
  ASSUME TypeOK, Held, Ranked, NEW t \in Threads, NEW a \in Access, TraceAccess(t, a)
  PROVE  Ranked'
PROOF
<1>1. status[t] # "none" /\ UNCHANGED s_segment_merging
  BY DEF TraceAccess, InClient
<1>2. PICK X \in DState : Become(X) /\ Traced(X, t, a)
  BY TraceAccessIs
<1>3. Latest(S0, t)[1] = t
  BY <1>1, HasList
<1> QED
  BY <1>1, <1>2, <1>3, SameRanked DEF Traced

(* References are given up, which may free segments outside the lists. *)
Unreferenced(X, t) ==
  /\ X.list = list /\ X.run = t /\ X.cset = Scheduled(t).cset
  /\ \A i \in SegIds : \/ X.seg[i].vc = seg[i].vc /\ X.seg[i].bm = seg[i].bm
                       \/ X.seg[i] = NoSegment /\ ~ InList(list, i)

LEMMA MutexDestroyIs ==
  ASSUME TypeOK, Held, NEW t \in Threads, NEW m \in Mutexes, MutexDestroy(t, m)
  PROVE  \E X \in DState : Become(X) /\ Unreferenced(X, t)
PROOF
<1> DEFINE S == Scheduled(t)
           x == Ext(mutex, barrier)
           old == mutex[m].last_locked_segment
           X == [S EXCEPT !.seg = sg_put(@, {old})]
<1>1. status[t] # "none" /\ Become(X) /\ UNCHANGED s_segment_merging
  BY DEF MutexDestroy, InClient
<1>2. S \in DState /\ S.seg = seg /\ S.list = list /\ S.run = t /\ Owned(seg, list, x)
      /\ seg \in [SegIds -> SegRec]
  BY <1>1, ScheduledIs DEF Held, Owned
<1>3. X = [seg |-> sg_put(seg, {old}), list |-> list, run |-> t, cset |-> S.cset]
  <2> HIDE DEF S
  <2>1. X = [S EXCEPT !.seg = sg_put(S.seg, {old})]
    OBVIOUS
  <2> QED
    BY <1>2, <2>1, SetSeg
<1>4. x \in [SegIds -> Nat] /\ (old \in SegIds => x[old] # 0)
  BY ExtNat
<1> HIDE DEF x
<1>5. \A i \in SegIds : i \in {old} => seg[i].refcnt # 0 /\ (seg[i].refcnt = 1 => ~ InList(list, i))
  BY <1>2, <1>4 DEF Owned
<1>6. /\ sg_put(seg, {old}) \in [SegIds -> SegRec]
      /\ \A i \in SegIds : i \notin {old} => sg_put(seg, {old})[i] = seg[i]
      /\ \A i \in SegIds : i \in {old} =>
           sg_put(seg, {old})[i] = IF seg[i].refcnt = 1 THEN NoSegment ELSE [seg[i] EXCEPT !.refcnt = @ - 1]
  BY <1>2, <1>5, sg_putIs
<1> HIDE DEF X, S
<1>7. X.seg = sg_put(seg, {old}) /\ X.list = list /\ X.run = t /\ X.cset = S.cset /\ X \in DState
  BY <1>2, <1>3, <1>6, DStateFields DEF DState
<1>8. \A i \in SegIds : \/ X.seg[i].vc = seg[i].vc /\ X.seg[i].bm = seg[i].bm
                        \/ X.seg[i] = NoSegment /\ ~ InList(list, i)
  <2> TAKE i \in SegIds
  <2>1. seg[i] \in SegRec
    BY <1>2
  <2>2. LET s == [seg[i] EXCEPT !.refcnt = @ - 1] IN s.vc = seg[i].vc /\ s.bm = seg[i].bm
    BY <2>1 DEF SegRec
  <2> QED
    BY <1>5, <1>6, <1>7, <2>2
<1> QED
  BY <1>1, <1>7, <1>8 DEF S, Unreferenced

LEMMA MutexDestroyRanked ==
  ASSUME TypeOK, Held, Ranked, NEW t \in Threads, NEW m \in Mutexes, MutexDestroy(t, m)
  PROVE  Ranked'
PROOF
<1>1. status[t] # "none" /\ UNCHANGED s_segment_merging
  BY DEF MutexDestroy, InClient
<1>2. PICK X \in DState : Become(X) /\ Unreferenced(X, t)
  BY MutexDestroyIs
<1> QED
  BY <1>1, <1>2, SameRanked DEF Unreferenced

(* What thread_get_latest_segment leaves: a segment that nobody else holds *)
(* may be freed.                                                           *)
GotLatest(S, T, x, old, t) ==
  /\ T \in DState /\ T.list = S.list /\ T.run = S.run /\ T.cset = S.cset
  /\ Owned(T.seg, S.list, Moved(x, old, Latest(S, t)))
  /\ \A u \in Threads : HasRoom(S.seg, u) => HasRoom(T.seg, u)
  /\ \A i \in SegIds : \/ T.seg[i].vc = S.seg[i].vc /\ T.seg[i].bm = S.seg[i].bm
                       \/ T.seg[i] = NoSegment /\ ~ InList(S.list, i) /\ i = old /\ x[i] = 1

LEMMA GetLatestAs ==
  ASSUME NEW S \in DState, NEW x, Owned(S.seg, S.list, x), NEW t \in Threads, S.list[t] # <<>>,
         NEW old \in SegIds \cup {Null}, old # Null => x[old] # 0
  PROVE  GotLatest(S, thread_get_latest_segment(S, old, t), x, old, t)
PROOF
<1> DEFINE T == thread_get_latest_segment(S, old, t)
<1>1. /\ T \in DState /\ T.list = S.list /\ T.run = S.run /\ T.cset = S.cset
      /\ Owned(T.seg, S.list, Moved(x, old, Latest(S, t)))
  BY GetLatestIs
<1>2. \A u \in Threads : HasRoom(S.seg, u) => HasRoom(T.seg, u)
  BY GetLatestIs
<1>3. ASSUME NEW i \in SegIds
      PROVE  \/ T.seg[i].vc = S.seg[i].vc /\ T.seg[i].bm = S.seg[i].bm
             \/ T.seg[i] = NoSegment /\ ~ InList(S.list, i) /\ i = old /\ x[i] = 1
  BY GetLatestIs
<1> HIDE DEF T
<1>4. GotLatest(S, T, x, old, t)
  BY <1>1, <1>2, <1>3 DEF GotLatest
<1> QED
  BY <1>4 DEF T

LEMMA BarrierPreWaitRanked ==
  ASSUME TypeOK, Held, Ranked, NEW t \in Threads, BarrierPreWait(t)
  PROVE  Ranked'
PROOF
<1> DEFINE S == Scheduled(t)
           x == Ext(mutex, barrier)
           k == barrier.pre_iteration
           old == barrier.node[t].sg[k]
           X == thread_get_latest_segment(S, old, t)
<1>1. status[t] # "none" /\ Become(X) /\ UNCHANGED s_segment_merging
  BY DEF BarrierPreWait, InClient
<1>2. S \in DState /\ S.seg = seg /\ S.list = list /\ S.run = t /\ list[t] # <<>> /\ Owned(S.seg, S.list, x)
  BY <1>1, ScheduledIs, HasList DEF Held
<1>3. k \in Rounds
  BY DEF TypeOK, BarrierRec
<1>4. old \in SegIds \cup {Null} /\ (old # Null => x[old] # 0)
  BY <1>3, NodeFields, ExtNat
<1> HIDE DEF S, old, x, k
<1>5. GotLatest(S, X, x, old, t)
  BY <1>2, <1>4, GetLatestAs
<1> HIDE DEF X
<1> QED
  BY <1>1, <1>2, <1>5, SameRanked DEF S, GotLatest

LEMMA BarrierDestroyIs ==
  ASSUME TypeOK, Held, NEW t \in Threads, BarrierDestroy(t)
  PROVE  \E X \in DState : Become(X) /\ Unreferenced(X, t)
PROOF
<1> DEFINE S == Scheduled(t)
           x == Ext(mutex, barrier)
           ids(r) == {barrier.node[u].sg[r] : u \in Threads}
           sg0 == sg_put(seg, ids(0))
           sg == sg_put(sg0, ids(1))
           X == [S EXCEPT !.seg = sg_put(sg_put(@, ids(0)), ids(1))]
<1>1. status[t] # "none" /\ Become(X) /\ UNCHANGED s_segment_merging
  BY DEF BarrierDestroy, InClient
<1>2. S \in DState /\ S.seg = seg /\ S.list = list /\ S.run = t /\ Owned(seg, list, x) /\ seg \in [SegIds -> SegRec]
  BY <1>1, ScheduledIs DEF Held, Owned
<1>3. X = [seg |-> sg, list |-> list, run |-> t, cset |-> S.cset]
  <2> HIDE DEF S
  <2>1. X = [S EXCEPT !.seg = sg_put(sg_put(S.seg, ids(0)), ids(1))]
    OBVIOUS
  <2> HIDE DEF ids
  <2> QED
    BY <1>2, <2>1, SetSeg
<1>4. ASSUME NEW i \in SegIds, NEW r \in Rounds PROVE i \in ids(r) <=> barrier.node[i[1]].sg[r] = i
  BY ThreadsAre DEF Held
<1>5. ASSUME NEW i \in SegIds
      PROVE  /\ x[i] = Refs(MutexRefs(mutex), i) + (IF i \in ids(0) THEN 1 ELSE 0) + (IF i \in ids(1) THEN 1 ELSE 0)
             /\ Refs(MutexRefs(mutex), i) \in Nat
  <2>1. Refs(NodeRefs(barrier), i) = (IF i \in ids(0) THEN 1 ELSE 0) + (IF i \in ids(1) THEN 1 ELSE 0)
    <3>1. \A u \in Threads : \A r \in Rounds : barrier.node[u].sg[r] = i => u = i[1]
      BY ThreadsAre DEF Held
    <3>2. Refs(NodeRefs(barrier), i) = (IF barrier.node[i[1]].sg[0] = i THEN 1 ELSE 0)
                                     + (IF barrier.node[i[1]].sg[1] = i THEN 1 ELSE 0)
      BY <3>1, NodeCounts
    <3> HIDE DEF ids
    <3> QED
      BY <1>4, <3>2 DEF Rounds
  <2>2. Refs(MutexRefs(mutex), i) \in Nat
    BY RefsFinite, RefsNat
  <2> HIDE DEF ids
  <2> QED
    BY <2>1, <2>2 DEF Ext
<1> HIDE DEF ids, x
<1>6. \A i \in SegIds : seg[i].refcnt = x[i] + (IF InList(list, i) THEN 1 ELSE 0)
  BY <1>2 DEF Owned
<1>7. /\ sg0 \in [SegIds -> SegRec]
      /\ \A i \in SegIds : i \notin ids(0) => sg0[i] = seg[i]
      /\ \A i \in SegIds : i \in ids(0) =>
           sg0[i] = IF seg[i].refcnt = 1 THEN NoSegment ELSE [seg[i] EXCEPT !.refcnt = @ - 1]
  <2>1. \A i \in SegIds : i \in ids(0) => seg[i].refcnt # 0
    BY <1>5, <1>6
  <2> QED
    BY <1>2, <2>1, sg_putIs
<1> HIDE DEF sg0
<1>8. ASSUME NEW i \in SegIds
      PROVE  /\ sg0[i] \in SegRec /\ seg[i] \in SegRec
             /\ \/ sg0[i].vc = seg[i].vc /\ sg0[i].bm = seg[i].bm
                \/ sg0[i] = NoSegment /\ ~ InList(list, i) /\ i \notin ids(1)
             /\ sg0[i].refcnt = seg[i].refcnt - (IF i \in ids(0) THEN 1 ELSE 0)
  <2>1. seg[i] \in SegRec /\ sg0[i] \in SegRec /\ seg[i].refcnt \in Nat
    BY <1>2, <1>7, SegFields
  <2>2. LET s == [seg[i] EXCEPT !.refcnt = @ - 1] IN s.vc = seg[i].vc /\ s.bm = seg[i].bm /\ s.refcnt = seg[i].refcnt - 1
    BY <2>1 DEF SegRec
  <2>3. i \in ids(0) /\ seg[i].refcnt = 1 => ~ InList(list, i) /\ i \notin ids(1)
    BY <1>5, <1>6
  <2>4. CASE i \notin ids(0)
    BY <1>7, <2>1, <2>4
  <2>5. CASE i \in ids(0) /\ seg[i].refcnt = 1
    BY <1>7, <2>1, <2>3, <2>5, NoSegmentType
  <2>6. CASE i \in ids(0) /\ seg[i].refcnt # 1
    BY <1>7, <2>1, <2>2, <2>6
  <2> QED
    BY <2>4, <2>5, <2>6
<1>9. /\ sg \in [SegIds -> SegRec]
      /\ \A i \in SegIds : i \notin ids(1) => sg[i] = sg0[i]
      /\ \A i \in SegIds : i \in ids(1) =>
           sg[i] = IF sg0[i].refcnt = 1 THEN NoSegment ELSE [sg0[i] EXCEPT !.refcnt = @ - 1]
  <2>1. \A i \in SegIds : i \in ids(1) => sg0[i].refcnt # 0
    BY <1>5, <1>6, <1>8
  <2> QED
    BY <1>7, <2>1, sg_putIs
<1> HIDE DEF X, S, sg
<1>10. X.seg = sg /\ X.list = list /\ X.run = t /\ X.cset = S.cset /\ X \in DState
  BY <1>2, <1>3, <1>9, DStateFields DEF DState
<1>11. \A i \in SegIds : \/ X.seg[i].vc = seg[i].vc /\ X.seg[i].bm = seg[i].bm
                         \/ X.seg[i] = NoSegment /\ ~ InList(list, i)
  <2> TAKE i \in SegIds
  <2>1. LET s == [sg0[i] EXCEPT !.refcnt = @ - 1] IN s.vc = sg0[i].vc /\ s.bm = sg0[i].bm
    BY <1>8 DEF SegRec
  <2>2. i \in ids(1) /\ sg0[i].refcnt = 1 => ~ InList(list, i)
    BY <1>5, <1>6, <1>8
  <2> QED
    BY <1>8, <1>9, <1>10, <2>1, <2>2
<1> QED
  BY <1>1, <1>10, <1>11 DEF S, Unreferenced

LEMMA BarrierDestroyRanked ==
  ASSUME TypeOK, Held, Ranked, NEW t \in Threads, BarrierDestroy(t)
  PROVE  Ranked'
PROOF
<1>1. status[t] # "none" /\ UNCHANGED s_segment_merging
  BY DEF BarrierDestroy, InClient
<1>2. PICK X \in DState : Become(X) /\ Unreferenced(X, t)
  BY BarrierDestroyIs
<1> QED
  BY <1>1, <1>2, SameRanked DEF Unreferenced

LEMMA MutexUnlockRanked ==
  ASSUME TypeOK, Held, Ranked, NEW t \in Threads, NEW m \in Mutexes, MutexUnlock(t, m)
  PROVE  Ranked'
PROOF
<1> DEFINE S == Scheduled(t)
           x == Ext(mutex, barrier)
           old == mutex[m].last_locked_segment
           G == thread_get_latest_segment(S, old, t)
           X == thread_new_segment(G, t)
           y == Moved(x, old, Latest(S, t))
<1>1. status[t] # "none" /\ UNCHANGED s_segment_merging
  BY DEF MutexUnlock, InClient
<1>2. S \in DState /\ S.seg = seg /\ S.list = list /\ S.run = t /\ list[t] # <<>> /\ Owned(S.seg, S.list, x)
      /\ Listed(S.list)
  <2>1. Owned(seg, list, x) /\ Listed(list)
    BY DEF Held, Owned
  <2> QED
    BY <1>1, <2>1, ScheduledIs, HasList
<1>3. InOrder(S) /\ Current(S, s_segment_merging)
  BY <1>1, ScheduledRanked
<1>4. CASE HasRoom(seg, t) /\ Become(X)
  <2>1. old \in SegIds \cup {Null} /\ (old # Null => x[old] # 0)
    BY MutexFields, ExtNat
  <2> HIDE DEF S, old, x
  <2>2. /\ G \in DState /\ G.list = S.list /\ G.run = S.run /\ Owned(G.seg, G.list, y)
        /\ \A i \in SegIds : \/ G.seg[i].vc = S.seg[i].vc /\ G.seg[i].bm = S.seg[i].bm
                             \/ G.seg[i] = NoSegment /\ ~ InList(S.list, i) /\ i = old /\ x[i] = 1
    <3>1. GotLatest(S, G, x, old, t)
      BY <1>2, <2>1, GetLatestAs
    <3> QED
      BY <3>1 DEF GotLatest
  <2>3. HasRoom(G.seg, t)
    BY <1>2, <1>4, <2>1, GetLatestRoom
  <2> HIDE DEF G, y
  <2>4. Slim(S, G)
    BY <1>2, <2>2, SlimSame
  <2>5. InOrder(G)
    BY <1>2, <1>3, <2>4, SlimInOrder
  <2>6. G.list[t] # <<>> /\ G.run = t
    BY <1>2, <2>2
  <2>7. SteadyBut(G, X, y, t)
    BY <2>2, <2>3, <2>6, NewSegmentKeeps
  <2>8. InOrder(X) /\ Current(X, s_segment_merging)
    BY <2>2, <2>3, <2>5, <2>6, NewSegmentOrder
  <2> QED
    BY <1>1, <1>4, <2>7, <2>8, BecomeRanked DEF SteadyBut
<1>5. CASE Become(S)
  BY <1>1, <1>2, <1>3, <1>5, BecomeRanked
<1> QED
  BY <1>4, <1>5, RoomIs DEF MutexUnlock

LEMMA MutexPostLockRanked ==
  ASSUME TypeOK, Held, Ranked, NEW t \in Threads, NEW m \in Mutexes, MutexPostLock(t, m)
  PROVE  Ranked'
PROOF
<1> DEFINE S == Scheduled(t)
           p == mutex[m]
           x == Ext(mutex, barrier)
           R == IF p.owner \in {t, None} THEN S
                ELSE thread_combine_vc2(S, t, seg[p.last_locked_segment].vc)
           X == thread_new_segment(R, t)
<1>1. status[t] # "none" /\ UNCHANGED s_segment_merging
  BY DEF MutexPostLock, InClient
<1>2. S \in DState /\ S.seg = seg /\ S.list = list /\ S.run = t /\ list[t] # <<>> /\ Owned(S.seg, S.list, x)
  BY <1>1, ScheduledIs, HasList DEF Held
<1>3. InOrder(S) /\ Current(S, s_segment_merging)
  BY <1>1, ScheduledRanked
<1>4. CASE p.recursion_count = 0 /\ HasRoom(seg, t) /\ Become(X)
  <2>1. Steady(S, R, x) /\ InOrder(R)
    <3>1. CASE p.owner \in {t, None}
      BY <1>2, <1>3, <3>1 DEF Steady
    <3>2. CASE p.owner \notin {t, None}
      <4> DEFINE i == p.last_locked_segment
      <4>1. i \in SegIds
        BY <1>4, <3>2, MutexFields DEF Held
      <4> HIDE DEF i, S
      <4>2. Bounded(S, seg[i].vc) /\ seg[i].vc \in Clock
        BY <1>2, <1>3, <4>1, SegBounded DEF Bounded
      <4>3. Steady(S, thread_combine_vc2(S, t, seg[i].vc), x)
        BY <1>2, <4>2, Combine2Keeps
      <4>4. InOrder(thread_combine_vc2(S, t, seg[i].vc))
        BY <1>2, <1>3, <4>2, Combine2Order
      <4>5. R = thread_combine_vc2(S, t, seg[i].vc)
        BY <3>2 DEF i
      <4> QED
        BY <4>3, <4>4, <4>5
    <3> QED
      BY <3>1, <3>2
  <2> HIDE DEF R, S
  <2>2. R \in DState /\ Owned(R.seg, R.list, x) /\ R.list[t] # <<>> /\ R.run = t /\ HasRoom(R.seg, t)
    BY <1>2, <1>4, <2>1 DEF Steady
  <2>3. SteadyBut(R, X, x, t)
    BY <2>2, NewSegmentKeeps
  <2>4. InOrder(X) /\ Current(X, s_segment_merging)
    BY <2>1, <2>2, NewSegmentOrder
  <2> QED
    BY <1>1, <1>4, <2>3, <2>4, BecomeRanked DEF SteadyBut
<1>5. CASE Become(S)
  BY <1>1, <1>2, <1>3, <1>5, BecomeRanked
<1> QED
  BY <1>4, <1>5, RoomIs DEF MutexPostLock

(* The accesses of y are dropped; the conflict set is kept only when none  *)
(* of another thread is among them, or none is in it.                      *)
Cleared(X, t, y) ==
  /\ X.list = list /\ X.run = t
  /\ \A i \in SegIds : /\ X.seg[i].vc = seg[i].vc
                       /\ InList(list, i) => X.seg[i].bm = seg[i].bm \ On(seg[i].bm, y)
  /\ \/ X.cset = ConflictSet(X, t)
     \/ /\ X.cset = Scheduled(t).cset
        /\ \/ \A q \in SegIds : InList(list, q) /\ q[1] # t => On(seg[q].bm, y) = {}
           \/ On(Scheduled(t).cset, y) = {}

LEMMA StopUsingMemIs ==
  ASSUME TypeOK, Held, NEW t \in Threads, NEW y \in Addrs, StopUsingMem(t, y)
  PROVE  \E X \in DState : Become(X) /\ Cleared(X, t, y)
PROOF
<1> DEFINE S == Scheduled(t)
           users == {j \in Threads \ {t} : \E q \in Range(list[j]) : On(seg[q].bm, y) # {}}
           sg == [i \in SegIds |-> [seg[i] EXCEPT !.bm = IF \E j \in Threads : i \in Range(list[j])
                                                         THEN @ \ On(@, y) ELSE @]]
           T == [S EXCEPT !.seg = sg]
<1>1. status[t] # "none"
  BY DEF StopUsingMem, InClient
<1>2. \/ Become(thread_compute_conflict_set(T))
      \/ Become(T) /\ (users = {} \/ On(S.cset, y) = {})
  BY DEF StopUsingMem
<1>3. /\ S \in DState /\ S.seg = seg /\ S.list = list /\ S.run = t /\ list[t] # <<>> /\ Listed(list)
      /\ seg \in [SegIds -> SegRec]
  <2>1. Listed(list) /\ seg \in [SegIds -> SegRec]
    BY DEF Held, Owned
  <2> QED
    BY <1>1, <2>1, ScheduledIs, HasList
<1>5. ASSUME NEW i \in SegIds
      PROVE  /\ sg[i] \in SegRec /\ sg[i].vc = seg[i].vc
             /\ InList(list, i) => sg[i].bm = seg[i].bm \ On(seg[i].bm, y)
  <2>1. seg[i] \in SegRec
    BY <1>3
  <2> DEFINE b == IF \E j \in Threads : i \in Range(list[j]) THEN seg[i].bm \ On(seg[i].bm, y) ELSE seg[i].bm
  <2>2. sg[i] = [seg[i] EXCEPT !.bm = b]
    OBVIOUS
  <2>3. b \in SUBSET Access /\ (InList(list, i) => b = seg[i].bm \ On(seg[i].bm, y))
    BY <2>1, SegFields, ThreadsAre DEF InList
  <2> HIDE DEF b, sg
  <2>4. [seg[i] EXCEPT !.bm = b] \in SegRec /\ [seg[i] EXCEPT !.bm = b].vc = seg[i].vc /\ [seg[i] EXCEPT !.bm = b].bm = b
    BY <2>1, <2>3 DEF SegRec
  <2> QED
    BY <2>2, <2>3, <2>4
<1>6. sg \in [SegIds -> SegRec]
  BY <1>5
<1> HIDE DEF sg, S
<1>7. T = [seg |-> sg, list |-> S.list, run |-> S.run, cset |-> S.cset]
  BY <1>3, SetSeg
<1> HIDE DEF T
<1>8. T \in DState /\ T.seg = sg /\ T.list = list /\ T.run = t /\ T.cset = S.cset
  BY <1>3, <1>6, <1>7, DStateFields DEF DState
<1>9. CASE Become(thread_compute_conflict_set(T))
  <2> DEFINE X == thread_compute_conflict_set(T)
  <2>1. /\ X.seg = T.seg /\ X.list = T.list /\ X.run = T.run /\ X.cset = ConflictSet(T, T.run)
        /\ \A v \in Threads : ConflictSet(X, v) = ConflictSet(T, v)
    BY <1>8, ComputeSlim
  <2>2. X \in DState
    BY <1>8, ComputeIs
  <2> HIDE DEF X
  <2>3. X.cset = ConflictSet(X, t)
    BY <1>8, <2>1
  <2>4. Cleared(X, t, y)
    BY <1>5, <1>8, <2>1, <2>3 DEF Cleared
  <2> QED
    BY <1>9, <2>2, <2>4 DEF X
<1>10. CASE Become(T) /\ (users = {} \/ On(S.cset, y) = {})
  <2>1. users = {} => \A q \in SegIds : InList(list, q) /\ q[1] # t => On(seg[q].bm, y) = {}
    BY ThreadsAre DEF InList
  <2> HIDE DEF users
  <2>2. Cleared(T, t, y)
    BY <1>5, <1>8, <1>10, <2>1 DEF Cleared, S
  <2> QED
    BY <1>8, <1>10, <2>2
<1> QED
  BY <1>2, <1>9, <1>10

LEMMA StopUsingMemRanked ==
  ASSUME TypeOK, Held, Ranked, NEW t \in Threads, NEW y \in Addrs, StopUsingMem(t, y)
  PROVE  Ranked'
PROOF
<1> DEFINE S == Scheduled(t)
<1>1. status[t] # "none" /\ UNCHANGED s_segment_merging
  BY DEF StopUsingMem, InClient
<1>2. PICK X \in DState : Become(X) /\ Cleared(X, t, y)
  BY StopUsingMemIs
<1>3. S \in DState /\ S.seg = seg /\ S.list = list /\ S.run = t /\ list[t] # <<>> /\ Listed(list)
  <2>1. Listed(list)
    BY DEF Held, Owned
  <2> QED
    BY <1>1, <2>1, ScheduledIs, HasList
<1>4. InOrder(S) /\ Current(S, s_segment_merging)
  BY <1>1, ScheduledRanked
<1>5. /\ X.list = list /\ X.run = t
      /\ \A i \in SegIds : X.seg[i].vc = seg[i].vc /\ (InList(list, i) => X.seg[i].bm = seg[i].bm \ On(seg[i].bm, y))
  BY <1>2 DEF Cleared
<1>6. \/ X.cset = ConflictSet(X, t)
      \/ /\ X.cset = S.cset
         /\ \/ \A q \in SegIds : InList(list, q) /\ q[1] # t => On(seg[q].bm, y) = {}
            \/ On(S.cset, y) = {}
  BY <1>2 DEF Cleared
<1> HIDE DEF S
<1>7. InOrder(X)
  <2>1. Slim(S, X)
    BY <1>3, <1>5, SlimSame
  <2> QED
    BY <1>3, <1>4, <2>1, SlimInOrder
<1>8. CASE X.cset = ConflictSet(X, t)
  <2>1. Current(X, s_segment_merging)
    BY <1>5, <1>8 DEF Current
  <2> QED
    BY <1>1, <1>2, <1>7, <2>1, BecomeRanked
<1>9. CASE X.cset = S.cset /\ (\/ \A q \in SegIds : InList(list, q) /\ q[1] # t => On(seg[q].bm, y) = {}
                              \/ On(S.cset, y) = {})
  <2>1. Latest(X, t) = Latest(S, t) /\ Latest(S, t) \in SegIds
    BY <1>3, <1>5, LatestIs DEF Latest
  <2>2. \A q \in SegIds : Unordered(X, Latest(X, t), q) <=> Unordered(S, Latest(S, t), q)
    BY <1>3, <1>5, <2>1 DEF Unordered
  <2>3. ASSUME NEW b PROVE b \in ConflictSet(X, t) <=>
           \E q \in SegIds : InList(list, q) /\ q[1] # t /\ b \in X.seg[q].bm /\ Unordered(X, Latest(X, t), q)
    BY <1>3, <1>5, ConflictSetIs
  <2>4. ASSUME NEW b PROVE b \in ConflictSet(S, t) <=>
           \E q \in SegIds : InList(list, q) /\ q[1] # t /\ b \in seg[q].bm /\ Unordered(S, Latest(S, t), q)
    BY <1>3, ConflictSetIs
  <2>5. ASSUME NEW b, b \in ConflictSet(X, t) PROVE b \in ConflictSet(S, t)
    BY <1>5, <2>2, <2>3, <2>4, <2>5
  <2>6. ASSUME NEW b, b \in ConflictSet(S, t) PROVE b \in ConflictSet(X, t)
    <3>1. PICK q \in SegIds : InList(list, q) /\ q[1] # t /\ b \in seg[q].bm /\ Unordered(S, Latest(S, t), q)
      BY <2>4, <2>6
    <3>2. b \notin On(seg[q].bm, y)
      <4>1. b \in S.cset
        BY <1>3, <1>4, <2>6 DEF Current
      <4> QED
        BY <1>9, <3>1, <4>1 DEF On
    <3>3. b \in X.seg[q].bm
      BY <1>5, <3>1, <3>2
    <3> QED
      BY <2>2, <2>3, <3>1, <3>3
  <2>7. ConflictSet(X, t) = ConflictSet(S, t)
    BY <2>5, <2>6
  <2>8. Current(X, s_segment_merging)
    BY <1>3, <1>4, <1>5, <1>9, <2>7 DEF Current
  <2> QED
    BY <1>1, <1>2, <1>7, <1>9, <2>8, BecomeRanked
<1> QED
  BY <1>6, <1>8, <1>9

LEMMA CreateRanked ==
  ASSUME Parents \subseteq {1}, TypeOK, Held, Ranked, NEW t \in Threads, NEW u \in Threads, Create(t, u)
  PROVE  Ranked'
PROOF
<1> DEFINE S == Scheduled(t)
           A == thread_append_segment(S, t, u)
           X == thread_new_segment(A, t)
           x == Ext(mutex, barrier)
<1>1. /\ status[u] = "none" /\ status[t] = "live" /\ u # t /\ t = 1
      /\ HasRoom(seg, t) /\ HasRoom(seg, u) /\ Become(X) /\ UNCHANGED s_segment_merging
  BY FreshThread, RoomIs DEF Create
<1>2. S \in DState /\ S.seg = seg /\ S.list = list /\ S.run = t /\ list[t] # <<>> /\ list[u] = <<>>
  BY <1>1, ScheduledIs, HasList DEF Held
<1>3. Owned(S.seg, S.list, x)
  BY <1>2 DEF Held
<1>4. Listed(S.list)
  BY <1>3 DEF Owned
<1>5. InOrder(S)
  BY <1>1, ScheduledRanked
<1> HIDE DEF S
<1>6. Appended(S, A, x, u)
  BY <1>1, <1>2, <1>3, AppendKeeps
<1>7. PICK i \in SegIds : AppendedAs(S, A, t, u, i)
  BY <1>1, <1>2, <1>3, AppendIs
<1> HIDE DEF A
<1>8. Home(S, u) = t
  BY <1>1, <1>2 DEF Home
<1>9. InOrder(A)
  BY <1>2, <1>4, <1>5, <1>7, <1>8, AppendInOrder
<1>10. A \in DState /\ Owned(A.seg, A.list, x) /\ A.list[t] # <<>> /\ HasRoom(A.seg, t) /\ A.run = t
  BY <1>1, <1>2, <1>6 DEF Appended
<1>11. SteadyBut(A, X, x, t)
  BY <1>10, NewSegmentKeeps
<1>12. InOrder(X) /\ Current(X, s_segment_merging)
  BY <1>9, <1>10, NewSegmentOrder
<1> QED
  BY <1>1, <1>11, <1>12, BecomeRanked DEF SteadyBut

(* A request that only lets its thread run. *)
LEMMA StayRanked ==
  ASSUME TypeOK, Held, Ranked, NEW t \in Threads, BarrierInit(t) \/ BarrierPostWait(t), Become(Scheduled(t))
  PROVE  Ranked'
PROOF
<1>1. status[t] # "none" /\ UNCHANGED s_segment_merging
  BY PostWaitCases DEF BarrierInit, InClient, Held
<1>2. Scheduled(t) \in DState
  BY ScheduledIs
<1>3. InOrder(Scheduled(t)) /\ Current(Scheduled(t), s_segment_merging)
  BY <1>1, ScheduledRanked
<1> HIDE DEF Scheduled
<1> QED
  BY <1>1, <1>2, <1>3, BecomeRanked

LEMMA BarrierInitRanked ==
  ASSUME TypeOK, Held, Ranked, NEW t \in Threads, BarrierInit(t)
  PROVE  Ranked'
PROOF
BY StayRanked DEF BarrierInit

LEMMA BarrierPostWaitRanked ==
  ASSUME TypeOK, Held, Ranked, NEW t \in Threads, BarrierPostWait(t)
  PROVE  Ranked'
PROOF
<1> DEFINE S == Scheduled(t)
           x == Ext(mutex, barrier)
           C == combine_others(t)[DRD_N_THREADS - 1]
           X == thread_new_segment(C, t)
           P == {T \in DState : Steady(S, T, x) /\ InOrder(T)}
<1> SUFFICES ASSUME PostWaited(t) PROVE Ranked'
  BY PostWaitCases, StayRanked
<1>1. waiting[t] # None /\ SegmentsLeft(t) /\ HasRoom(seg, t) /\ Become(X) /\ UNCHANGED s_segment_merging
  BY PostWaitCases DEF PostWaited
<1>2. status[t] # "none"
  BY <1>1 DEF Held
<1>3. S \in DState /\ S.seg = seg /\ S.list = list /\ S.run = t /\ list[t] # <<>> /\ Owned(seg, list, x)
  BY <1>2, ScheduledIs, HasList DEF Held
<1>4. InOrder(S)
  BY <1>2, ScheduledRanked
<1>5. S \in P
  BY <1>3, <1>4 DEF Steady
<1> HIDE DEF S
<1>6. ASSUME NEW T \in P, NEW u \in Threads, u \in Others(t) PROVE CombineStep(t, T, u) \in P
  <2> DEFINE i == barrier.node[u].sg[barrier.post_iteration]
             U == thread_combine_vc2(T, t, T.seg[i].vc)
  <2>1. i \in SegIds
    <3>1. barrier.post_iteration \in Rounds
      BY DEF TypeOK, BarrierRec
    <3> QED
      BY <1>1, <1>6, <3>1, NodeFields DEF SegmentsLeft
  <2> HIDE DEF i
  <2>2. T \in DState /\ Owned(T.seg, T.list, x) /\ T.list[t] # <<>> /\ Steady(S, T, x) /\ InOrder(T)
    BY <1>3 DEF Steady
  <2>3. Bounded(T, T.seg[i].vc) /\ T.seg[i].vc \in Clock
    BY <2>1, <2>2, SegBounded DEF Bounded
  <2>4. Steady(T, U, x)
    BY <2>2, <2>3, Combine2Keeps
  <2>5. InOrder(U)
    BY <2>2, <2>3, Combine2Order
  <2>6. CombineStep(t, T, u) = U
    BY <1>6 DEF CombineStep, i
  <2> HIDE DEF U
  <2>7. Steady(S, U, x)
    BY <2>2, <2>4, SteadyTrans
  <2> QED
    BY <2>5, <2>6, <2>7 DEF Steady
<1> HIDE DEF P
<1>7. C \in P
  BY <1>5, <1>6, CombineAll DEF S
<1>8. C \in DState /\ Steady(S, C, x) /\ InOrder(C)
  BY <1>7 DEF P
<1> HIDE DEF C
<1>9. Owned(C.seg, C.list, x) /\ C.list[t] # <<>> /\ C.run = t /\ HasRoom(C.seg, t)
  BY <1>1, <1>3, <1>8 DEF Steady
<1>10. SteadyBut(C, X, x, t)
  BY <1>8, <1>9, NewSegmentKeeps
<1>11. InOrder(X) /\ Current(X, s_segment_merging)
  BY <1>8, <1>9, NewSegmentOrder
<1> QED
  BY <1>1, <1>10, <1>11, BecomeRanked DEF SteadyBut

(* The main thread has joined u: what u knew it knows.                     *)
LEMMA DeleteOrder ==
  ASSUME NEW S \in DState, NEW x, Owned(S.seg, S.list, x), InOrder(S), NEW u \in Threads, u # 1,
         S.list[u] # <<>>, vc_lte(ClockOf(S, u), ClockOf(S, 1))
  PROVE  LET T == thread_delete(S, u) IN
         /\ InOrder(T) /\ ConflictSet(T, 1) = ConflictSet(S, 1)
         /\ T.run = S.run /\ T.cset = S.cset
PROOF
<1> DEFINE T == thread_delete(S, u)
<1>1. /\ T = [seg |-> sg_put(S.seg, Range(S.list[u])), list |-> [S.list EXCEPT ![u] = <<>>],
              run |-> S.run, cset |-> S.cset]
      /\ T \in DState /\ Owned(T.seg, T.list, x)
  BY DeleteIs
<1> HIDE DEF T
<1>2. /\ T.seg = sg_put(S.seg, Range(S.list[u])) /\ T.run = S.run /\ T.cset = S.cset
      /\ T.list[u] = <<>> /\ \A v \in Threads : v # u => T.list[v] = S.list[v]
  <2>1. T.list = [S.list EXCEPT ![u] = <<>>] /\ S.list \in [Threads -> Seq(SegIds)]
    BY <1>1, DStateFields
  <2> QED
    BY <1>1, <2>1
<1>3. Listed(S.list) /\ Listed(T.list) /\ S.seg \in [SegIds -> SegRec] /\ 1 \in Threads
  BY <1>1, ThreadsAre DEF Owned
<1>4. ASSUME NEW i \in SegIds
      PROVE  /\ i \in Range(S.list[u]) <=> i[1] = u /\ InList(S.list, i)
             /\ InList(T.list, i) <=> InList(S.list, i) /\ i[1] # u
  <2>1. i \in Range(S.list[u]) <=> i[1] = u /\ InList(S.list, i)
    BY <1>3, ListedAt DEF InList
  <2>2. Range(T.list[u]) = {}
    BY <1>2 DEF Range
  <2> QED
    BY <1>2, <2>1, <2>2, ThreadsAre DEF InList
<1>5. \A i \in SegIds : i \in Range(S.list[u]) => S.seg[i].refcnt # 0
  BY <1>4 DEF Owned
<1>6. /\ \A i \in SegIds : i \notin Range(S.list[u]) => T.seg[i] = S.seg[i]
      /\ \A i \in SegIds : i \in Range(S.list[u]) =>
           T.seg[i] = IF S.seg[i].refcnt = 1 THEN NoSegment ELSE [S.seg[i] EXCEPT !.refcnt = @ - 1]
  BY <1>2, <1>3, <1>5, sg_putIs
<1>7. ASSUME NEW i \in SegIds
      PROVE  /\ InList(T.list, i) => T.seg[i] = S.seg[i]
             /\ T.seg[i].vc = S.seg[i].vc \/ T.seg[i] = NoSegment
  <2>1. S.seg[i] \in SegRec
    BY <1>3
  <2>2. [S.seg[i] EXCEPT !.refcnt = @ - 1].vc = S.seg[i].vc
    BY <2>1 DEF SegRec
  <2> QED
    BY <1>4, <1>6, <2>2
<1>8. ASSUME NEW v \in Threads, v # u, S.list[v] # <<>>
      PROVE  Latest(T, v) = Latest(S, v) /\ ClockOf(T, v) = ClockOf(S, v) /\ T.list[v] # <<>>
  <2>1. Latest(T, v) = Latest(S, v) /\ T.list[v] # <<>>
    BY <1>2, <1>8 DEF Latest
  <2>2. Latest(T, v) \in SegIds /\ InList(T.list, Latest(T, v))
    BY <1>1, <1>3, <2>1, LatestIs
  <2> QED
    BY <1>7, <2>1, <2>2 DEF ClockOf
<1>9. ASSUME NEW i \in SegIds, NEW v \in Threads
      PROVE  T.seg[i].vc[v] <= ClockOf(T, Home(T, v))[v]
  <2>0. S.list[1] # <<>> /\ ClockOf(T, 1) = ClockOf(S, 1) /\ ClockOf(S, 1) \in Clock
    BY <1>3, <1>8, LatestIs DEF InOrder
  <2>1. S.seg[i].vc[v] <= ClockOf(S, Home(S, v))[v] /\ S.seg[i].vc[v] \in Nat
    BY ClockFields DEF InOrder
  <2>2. T.seg[i].vc[v] = S.seg[i].vc[v] \/ T.seg[i].vc[v] = 0
    BY <1>7, NoSegmentType
  <2>3. ClockOf(S, Home(S, v))[v] \in Nat
    BY HomeClock
  <2>4. ClockOf(S, Home(S, v))[v] <= ClockOf(T, Home(T, v))[v] /\ ClockOf(T, Home(T, v))[v] \in Nat
    <3>1. CASE v = u
      <4>1. Home(T, v) = 1 /\ Home(S, v) = u
        BY <1>2, <3>1 DEF Home
      <4> QED
        BY <2>0, <2>3, <3>1, <4>1 DEF vc_lte, Clock
    <3>2. CASE v # u /\ S.list[v] # <<>>
      <4>1. Home(T, v) = v /\ Home(S, v) = v /\ ClockOf(T, v) = ClockOf(S, v)
        BY <1>8, <3>2 DEF Home
      <4> QED
        BY <2>3, <4>1
    <3>3. CASE v # u /\ S.list[v] = <<>>
      <4>1. Home(T, v) = 1 /\ Home(S, v) = 1
        BY <1>2, <3>3, SMTT(30) DEF Home
      <4> QED
        BY <2>0, <2>3, <4>1
    <3> QED
      BY <3>1, <3>2, <3>3
  <2> QED
    BY <2>1, <2>2, <2>3, <2>4
<1>10. ASSUME NEW v \in Threads, NEW a \in DOMAIN T.list[v], NEW b \in DOMAIN T.list[v], a < b
       PROVE  vc_lte(T.seg[T.list[v][a]].vc, T.seg[T.list[v][b]].vc)
  <2>1. v # u
    BY <1>2, <1>10
  <2>2. T.list[v] = S.list[v]
    BY <1>2, <2>1
  <2>3. \A c \in DOMAIN T.list[v] : T.list[v][c] \in SegIds /\ InList(T.list, T.list[v][c])
    BY <1>3, ListedAt DEF Range
  <2>4. \A c \in DOMAIN T.list[v] : T.seg[T.list[v][c]] = S.seg[T.list[v][c]]
    BY <1>7, <2>3
  <2>5. vc_lte(S.seg[S.list[v][a]].vc, S.seg[S.list[v][b]].vc)
    BY <1>10, <2>2 DEF InOrder
  <2> QED
    BY <2>2, <2>4, <2>5
<1>11. InOrder(T)
  <2>1. T.list[1] # <<>>
    BY <1>3, <1>8 DEF InOrder
  <2>2. \A i \in SegIds : InList(T.list, i) => T.seg[i].vc[1] >= 1 /\ T.seg[i].vc[i[1]] >= 1
    BY <1>4, <1>7 DEF InOrder
  <2> QED
    BY <1>9, <1>10, <2>1, <2>2 DEF InOrder
<1>12. /\ S.list[1] # <<>> /\ T.list[1] # <<>> /\ Latest(T, 1) = Latest(S, 1) /\ ClockOf(T, 1) = ClockOf(S, 1)
       /\ ClockOf(S, 1) \in Clock /\ ClockOf(S, u) \in Clock
  BY <1>3, <1>8, LatestIs DEF InOrder
<1>13. ASSUME NEW q \in SegIds, InList(S.list, q), Unordered(S, Latest(S, 1), q) PROVE q[1] # u
  <2>1. SUFFICES ASSUME q[1] = u PROVE FALSE
    OBVIOUS
  <2>2. vc_lte(S.seg[q].vc, ClockOf(S, u))
    <3>1. q \in Range(S.list[u]) /\ S.list[u] \in Seq(SegIds)
      BY <1>3, <1>4, <1>13, <2>1, ListedAt
    <3>2. PICK a \in 1 .. Len(S.list[u]) : S.list[u][a] = q
      BY <3>1, RangeSeq
    <3>3. Len(S.list[u]) \in Nat /\ Len(S.list[u]) >= 1 /\ Latest(S, u) = S.list[u][Len(S.list[u])]
          /\ DOMAIN S.list[u] = 1 .. Len(S.list[u])
      BY <3>1, RangeSeq DEF Latest
    <3>4. CASE a = Len(S.list[u])
      BY <1>12, <3>2, <3>3, <3>4, vc_lteRefl, SMTT(30) DEF ClockOf
    <3>5. CASE a < Len(S.list[u])
      BY <3>2, <3>3, <3>5 DEF InOrder, ClockOf
    <3> QED
      BY <3>3, <3>4, <3>5
  <2>3. S.seg[q].vc \in Clock
    BY ClockFields
  <2>4. vc_lte(S.seg[q].vc, ClockOf(S, 1))
    BY <1>12, <2>2, <2>3, vc_lteTrans
  <2> QED
    BY <1>13, <2>4 DEF Unordered, ClockOf
<1>14. ASSUME NEW b PROVE b \in ConflictSet(T, 1) <=> b \in ConflictSet(S, 1)
  <2>1. b \in ConflictSet(T, 1) <=>
          \E q \in SegIds : InList(T.list, q) /\ q[1] # 1 /\ b \in T.seg[q].bm /\ Unordered(T, Latest(T, 1), q)
    BY <1>1, <1>3, <1>12, ConflictSetIs
  <2>2. b \in ConflictSet(S, 1) <=>
          \E q \in SegIds : InList(S.list, q) /\ q[1] # 1 /\ b \in S.seg[q].bm /\ Unordered(S, Latest(S, 1), q)
    BY <1>3, <1>12, ConflictSetIs
  <2>3. ASSUME NEW q \in SegIds, InList(T.list, q)
        PROVE  Unordered(T, Latest(T, 1), q) <=> Unordered(S, Latest(S, 1), q)
    BY <1>7, <1>12, <2>3 DEF Unordered, ClockOf
  <2> QED
    BY <1>4, <1>7, <1>13, <2>1, <2>2, <2>3
<1> QED
  BY <1>2, <1>11, <1>14 DEF T

LEMMA JoinRanked ==
  ASSUME Parents \subseteq {1}, TypeOK, Held, Ranked, NEW t \in Threads, NEW u \in Threads, Join(t, u)
  PROVE  Ranked'
PROOF
<1> DEFINE S  == Scheduled(t)
           S1 == thread_new_segment(S, u)
           S2 == thread_combine_vc(S1, t, u)
           S3 == thread_new_segment(S2, t)
           D  == thread_delete(S3, u)
           X  == barrier_thread_destroy(D, barrier.node[u])
           x  == Ext(mutex, barrier)
<1>1. status[t] # "none" /\ t = 1 /\ Become(X) /\ UNCHANGED s_segment_merging
  BY DEF Join, InClient
<1>2. /\ u # t /\ S \in DState /\ S.seg = seg /\ S.list = list /\ S.run = t
      /\ Owned(seg, list, x) /\ list[u] # <<>> /\ list[t] # <<>> /\ HasRoom(seg, u)
      /\ SteadyBut(S, S1, x, u) /\ S1.run = t /\ S1.list[u] # <<>> /\ S1.list[t] # <<>>
      /\ Steady(S1, S2, x) /\ S2.run = t /\ S2.list[u] # <<>> /\ S2.list[t] # <<>> /\ HasRoom(S2.seg, t)
      /\ SteadyBut(S2, S3, x, t) /\ S3.run = t
      /\ \A v \in Threads : S3.list[v] = <<>> <=> list[v] = <<>>
  BY JoinSteps
<1>3. InOrder(S)
  BY <1>1, ScheduledRanked
<1> HIDE DEF S
<1>4. InOrder(S1)
  BY <1>2, <1>3, NewSegmentOrder
<1>5. S1 \in DState /\ Owned(S1.seg, S1.list, x) /\ S2 \in DState /\ Owned(S2.seg, S2.list, x)
      /\ S3 \in DState /\ Owned(S3.seg, S3.list, x) /\ S3.list[u] # <<>> /\ S3.list[t] # <<>>
  BY <1>2 DEF SteadyBut, Steady
<1> HIDE DEF S1
<1>6. InOrder(S2) /\ vc_lte(ClockOf(S2, u), ClockOf(S2, t))
  BY <1>2, <1>4, <1>5, CombineOrder
<1> HIDE DEF S2
<1>7. /\ InOrder(S3) /\ vc_lte(ClockOf(S2, t), ClockOf(S3, t)) /\ ClockOf(S3, u) = ClockOf(S2, u)
      /\ Current(S3, s_segment_merging)
  BY <1>2, <1>5, <1>6, NewSegmentOrder
<1> HIDE DEF S3
<1>8. vc_lte(ClockOf(S3, u), ClockOf(S3, 1))
  <2>1. ClockOf(S2, u) \in Clock /\ ClockOf(S2, t) \in Clock /\ ClockOf(S3, t) \in Clock
    BY <1>2, <1>5, LatestIs
  <2> QED
    BY <1>1, <1>6, <1>7, <2>1, vc_lteTrans
<1>9. /\ InOrder(D) /\ ConflictSet(D, 1) = ConflictSet(S3, 1) /\ D.run = S3.run /\ D.cset = S3.cset
  BY <1>1, <1>2, <1>5, <1>7, <1>8, DeleteOrder
<1>10. /\ D = [seg |-> sg_put(S3.seg, Range(S3.list[u])), list |-> [S3.list EXCEPT ![u] = <<>>],
              run |-> S3.run, cset |-> S3.cset]
       /\ D \in DState /\ Owned(D.seg, D.list, x)
  BY <1>5, DeleteIs
<1>11. D.list[1] # <<>> /\ Listed(D.list)
  BY <1>9, <1>10 DEF InOrder, Owned
<1> HIDE DEF D
<1>12. /\ X \in DState /\ X.list = D.list /\ X.run = D.run /\ X.cset = D.cset
       /\ \A i \in SegIds : \/ X.seg[i].vc = D.seg[i].vc /\ X.seg[i].bm = D.seg[i].bm
                            \/ X.seg[i] = NoSegment /\ ~ InList(D.list, i)
  BY <1>10, NodeDestroyIs, ZenonT(60)
<1> HIDE DEF X
<1>13. InOrder(X)
  <2>1. Slim(D, X)
    BY <1>10, <1>12, SlimSame
  <2> QED
    BY <1>9, <1>10, <1>11, <2>1, SlimInOrder
<1>14. ConflictSet(X, 1) = ConflictSet(D, 1)
  BY <1>10, <1>11, <1>12, ConflictSame, ThreadsAre
<1>15. Current(X, s_segment_merging)
  BY <1>1, <1>2, <1>7, <1>9, <1>12, <1>14 DEF Current
<1> QED
  BY <1>1, <1>12, <1>13, <1>15, BecomeRanked

LEMMA NextRanked ==
  ASSUME Parents \subseteq {1}, TypeOK, Held, Ranked, [Next]_vars
  PROVE  Ranked'
PROOF
<1>1. CASE UNCHANGED vars
  BY <1>1 DEF vars, drdVars, Ranked, S0
<1>2. ASSUME NEW t \in Threads, Finish(t) PROVE Ranked'
  BY <1>2, FinishRanked
<1>3. ASSUME NEW t \in Threads, NEW a \in Access, TraceAccess(t, a) PROVE Ranked'
  BY <1>3, TraceAccessRanked
<1>4. ASSUME NEW t \in Threads, NEW x \in Addrs, StopUsingMem(t, x) PROVE Ranked'
  BY <1>4, StopUsingMemRanked
<1>5. ASSUME NEW t \in Threads, NEW u \in Threads, Create(t, u) PROVE Ranked'
  BY <1>5, CreateRanked
<1>6. ASSUME NEW t \in Threads, NEW u \in Threads, Join(t, u) PROVE Ranked'
  BY <1>6, JoinRanked
<1>7. ASSUME NEW t \in Threads, NEW m \in Mutexes, MutexPostLock(t, m) PROVE Ranked'
  BY <1>7, MutexPostLockRanked
<1>8. ASSUME NEW t \in Threads, NEW m \in Mutexes, MutexUnlock(t, m) PROVE Ranked'
  BY <1>8, MutexUnlockRanked
<1>9. ASSUME NEW t \in Threads, NEW m \in Mutexes, MutexDestroy(t, m) PROVE Ranked'
  BY <1>9, MutexDestroyRanked
<1>10. ASSUME NEW t \in Threads, BarrierPreWait(t) PROVE Ranked'
  BY <1>10, BarrierPreWaitRanked
<1>11. ASSUME NEW t \in Threads, BarrierPostWait(t) PROVE Ranked'
  BY <1>11, BarrierPostWaitRanked
<1>12. ASSUME NEW t \in Threads, BarrierDestroy(t) PROVE Ranked'
  BY <1>12, BarrierDestroyRanked
<1>13. ASSUME NEW t \in Threads, BarrierInit(t) PROVE Ranked'
  BY <1>13, BarrierInitRanked
<1> QED
  BY <1>1, <1>2, <1>3, <1>4, <1>5, <1>6, <1>7, <1>8, <1>9, <1>10, <1>11, <1>12, <1>13, Zenon DEF Next

LEMMA RankedClocks ==
  ASSUME TypeOK, Ranked
  PROVE  ClocksInOrder /\ ConflictSetCurrent
PROOF
<1>1. InOrder(S0) /\ Current(S0, s_segment_merging)
  BY DEF Ranked
<1>2. S0.seg = seg /\ S0.list = list /\ S0.run = running /\ S0.cset = s_conflict_set
  BY S0Fields
<1>3. ConflictSetCurrent
  BY <1>1, <1>2 DEF Current, ConflictSetCurrent
<1>4. \A t \in Threads : \A i, j \in DOMAIN list[t] :
        i < j => vc_lte(seg[list[t][i]].vc, seg[list[t][j]].vc)
  BY <1>1, <1>2 DEF InOrder
<1>5. \A i \in SegIds, t \in Threads : list[t] # <<>> => seg[i].vc[t] <= ClockOf(S0, t)[t]
  BY <1>1, <1>2 DEF InOrder, Home
<1> QED
  BY <1>3, <1>4, <1>5 DEF ClocksInOrder

(* Where the main thread alone creates and joins threads, the segments of  *)
(* every thread are in the order of their vector clocks, and no clock that *)
(* a segment, a mutex or a barrier keeps runs ahead of the thread it       *)
(* counts, also for a thread id that is used again after a join.           *)
THEOREM ClocksInOrderHold ==
  ASSUME Parents \subseteq {1}
  PROVE  Spec => []ClocksInOrder
PROOF
<1>1. Init => TypeOK /\ Held /\ Ranked
  BY InitHeld, InitRanked
<1>2. TypeOK /\ Held /\ Ranked /\ [Next]_vars => (TypeOK /\ Held /\ Ranked)'
  BY NextHeld, NextRanked
<1>3. TypeOK /\ Held /\ Ranked => ClocksInOrder
  BY RankedClocks
<1> QED
  BY <1>1, <1>2, <1>3, PTL DEF Spec

(* Under the same condition s_conflict_set is at every moment what a fresh *)
(* computation for the running thread would give, or, with merging, more:  *)
(* no step that skips thread_compute_conflict_set leaves it stale.         *)
THEOREM ConflictSetHold ==
  ASSUME Parents \subseteq {1}
  PROVE  Spec => []ConflictSetCurrent
PROOF
<1>1. Init => TypeOK /\ Held /\ Ranked
  BY InitHeld, InitRanked
<1>2. TypeOK /\ Held /\ Ranked /\ [Next]_vars => (TypeOK /\ Held /\ Ranked)'
  BY NextHeld, NextRanked
<1>3. TypeOK /\ Held /\ Ranked => ConflictSetCurrent
  BY RankedClocks
<1> QED
  BY <1>1, <1>2, <1>3, PTL DEF Spec
=============================================================================
