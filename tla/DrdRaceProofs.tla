--------------------------- MODULE DrdRaceProofs ---------------------------
(***************************************************************************)
(* What DRD reports is a race, and with --segment-merging=no every race is *)
(* reported, as long as DRD has been told of every return from a barrier   *)
(* before the barrier was destroyed.                                       *)
(***************************************************************************)
EXTENDS DrdProofs

(* The count of the segment's own thread. *)
Own(S, q) == S.seg[q].vc[q[1]]

(* A clock that has heard of a segment in a list knows all that this       *)
(* segment knew.                                                           *)
Informed(S) ==
  \A q, i \in SegIds : InList(S.list, q) /\ Own(S, q) <= S.seg[i].vc[q[1]] =>
    vc_lte(S.seg[q].vc, S.seg[i].vc)

(* Accesses move only to an older segment of their thread. *)
Thinned(S, T) ==
  \A q \in SegIds : InList(T.list, q) => \A b \in T.seg[q].bm :
    \E p \in SegIds : InList(S.list, p) /\ p[1] = q[1] /\ b \in S.seg[p].bm /\ Own(T, q) <= Own(S, p)

(* Unless the main thread is alone, no access is dropped; without merging  *)
(* it stays with its count.                                                *)
Retained(S, T) ==
  /\ \A t \in Threads : S.list[t] # <<>> => T.list[t] # <<>>
  /\ (\E t \in Threads : t # 1 /\ S.list[t] # <<>>) =>
       \A q \in SegIds : InList(S.list, q) =>
         \E p \in SegIds : /\ InList(T.list, p) /\ p[1] = q[1] /\ S.seg[q].bm \subseteq T.seg[p].bm
                           /\ ~ s_segment_merging => Own(T, p) = Own(S, q)

Contents(S, T) == Thinned(S, T) /\ Retained(S, T)

LEMMA OwnNat ==
  ASSUME NEW S \in DState, NEW q \in SegIds
  PROVE  Own(S, q) \in Nat /\ q[1] \in Threads /\ \A t \in Threads : S.seg[q].vc[t] \in Nat
PROOF
BY ClockFields, ThreadsAre DEF Own

LEMMA ContentsTrans ==
  ASSUME NEW S \in DState, NEW T \in DState, NEW U \in DState, Contents(S, T), Contents(T, U)
  PROVE  Contents(S, U)
PROOF
<1>1. Thinned(S, U)
  <2>1. SUFFICES ASSUME NEW q \in SegIds, InList(U.list, q), NEW b \in U.seg[q].bm
                 PROVE  \E p \in SegIds : InList(S.list, p) /\ p[1] = q[1] /\ b \in S.seg[p].bm /\ Own(U, q) <= Own(S, p)
    BY DEF Thinned
  <2>2. PICK p \in SegIds : InList(T.list, p) /\ p[1] = q[1] /\ b \in T.seg[p].bm /\ Own(U, q) <= Own(T, p)
    BY <2>1 DEF Contents, Thinned
  <2>3. PICK r \in SegIds : InList(S.list, r) /\ r[1] = p[1] /\ b \in S.seg[r].bm /\ Own(T, p) <= Own(S, r)
    BY <2>2 DEF Contents, Thinned
  <2>4. Own(U, q) \in Nat /\ Own(T, p) \in Nat /\ Own(S, r) \in Nat
    BY OwnNat
  <2>5. Own(U, q) <= Own(S, r)
    BY <2>2, <2>3, <2>4
  <2> QED
    BY <2>2, <2>3, <2>5
<1>2. Retained(S, U)
  <2>1. \A t \in Threads : S.list[t] # <<>> => T.list[t] # <<>> /\ U.list[t] # <<>>
    BY DEF Contents, Retained
  <2>2. ASSUME NEW t \in Threads, t # 1, S.list[t] # <<>>, NEW q \in SegIds, InList(S.list, q)
        PROVE  \E p \in SegIds : /\ InList(U.list, p) /\ p[1] = q[1] /\ S.seg[q].bm \subseteq U.seg[p].bm
                                 /\ ~ s_segment_merging => Own(U, p) = Own(S, q)
    <3>1. PICK p \in SegIds : /\ InList(T.list, p) /\ p[1] = q[1] /\ S.seg[q].bm \subseteq T.seg[p].bm
                              /\ ~ s_segment_merging => Own(T, p) = Own(S, q)
      BY <2>2 DEF Contents, Retained
    <3>2. PICK r \in SegIds : /\ InList(U.list, r) /\ r[1] = p[1] /\ T.seg[p].bm \subseteq U.seg[r].bm
                              /\ ~ s_segment_merging => Own(U, r) = Own(T, p)
      BY <2>1, <2>2, <3>1 DEF Contents, Retained
    <3> QED
      BY <3>1, <3>2
  <2> QED
    BY <2>1, <2>2 DEF Retained
<1> QED
  BY <1>1, <1>2 DEF Contents

LEMMA SameContents ==
  ASSUME NEW S \in DState, NEW T \in DState, T.list = S.list,
         \A i \in SegIds : InList(S.list, i) => T.seg[i].bm = S.seg[i].bm /\ Own(T, i) = Own(S, i)
  PROVE  Contents(S, T)
PROOF
<1>1. Thinned(S, T)
  <2>1. \A i \in SegIds : Own(T, i) \in Nat
    BY OwnNat
  <2> QED
    BY <2>1 DEF Thinned
<1>2. Retained(S, T)
  BY DEF Retained
<1> QED
  BY <1>1, <1>2 DEF Contents

LEMMA AppendContents ==
  ASSUME NEW S \in DState, NEW T, NEW c \in Threads, NEW t \in Threads, NEW i, AppendedAs(S, T, c, t, i)
  PROVE  Contents(S, T)
PROOF
<1>0. AppendLists(S, T, t, i)
  BY AppendedLists
<1>1. /\ \A j \in SegIds : InList(T.list, j) <=> InList(S.list, j) \/ j = i
      /\ T.list[t] # <<>> /\ \A u \in Threads : u # t => (T.list[u] = <<>> <=> S.list[u] = <<>>)
  BY <1>0 DEF AppendLists
<1>2. /\ T \in DState /\ i \in SegIds /\ ~ InList(S.list, i) /\ T.seg[i].bm = {}
      /\ \A j \in SegIds : j # i => T.seg[j] = S.seg[j]
  BY DEF AppendedAs
<1>3. \A j \in SegIds : j # i => Own(T, j) = Own(S, j)
  BY <1>2 DEF Own
<1>4. Thinned(S, T)
  <2>1. \A j \in SegIds : Own(T, j) \in Nat
    BY <1>2, OwnNat
  <2> QED
    BY <1>1, <1>2, <1>3, <2>1 DEF Thinned
<1>5. Retained(S, T)
  BY <1>1, <1>2, <1>3 DEF Retained
<1> QED
  BY <1>4, <1>5 DEF Contents

LEMMA DiscardContents ==
  ASSUME NEW S \in DState, NEW x, Owned(S.seg, S.list, x), InOrder(S)
  PROVE  Contents(S, thread_discard_ordered_segments(S))
PROOF
<1> DEFINE T == thread_discard_ordered_segments(S)
<1>1. /\ T \in DState /\ Shrunk(S.seg, S.list, T.seg, T.list)
      /\ \A i \in SegIds : InList(T.list, i) => T.seg[i] = S.seg[i]
  BY DiscardIs
<1>2. \A t \in Threads : t # 1 /\ S.list[t] # <<>> =>
        /\ T.list = S.list
        /\ \A i \in SegIds : T.seg[i].vc = S.seg[i].vc /\ T.seg[i].bm = S.seg[i].bm
  BY DiscardNothing
<1> HIDE DEF T
<1>3. /\ \A i \in SegIds : InList(T.list, i) => InList(S.list, i)
      /\ \A t \in Threads : T.list[t] = <<>> <=> S.list[t] = <<>>
  BY <1>1, ShrunkListed DEF Owned
<1>4. Thinned(S, T)
  <2>1. \A j \in SegIds : Own(T, j) \in Nat
    BY <1>1, OwnNat
  <2> QED
    BY <1>1, <1>3, <2>1 DEF Thinned, Own
<1>5. Retained(S, T)
  BY <1>2, <1>3 DEF Retained, Own
<1> QED
  BY <1>4, <1>5 DEF Contents, T

LEMMA MergeContents ==
  ASSUME NEW S \in DState, NEW x, Owned(S.seg, S.list, x), InOrder(S), s_segment_merging
  PROVE  Contents(S, thread_merge_segments(S))
PROOF
<1> DEFINE T == thread_merge_segments(S)
<1>1. /\ T \in DState /\ Shrunk(S.seg, S.list, T.seg, T.list)
      /\ \A i \in SegIds : InList(T.list, i) =>
              \A b \in T.seg[i].bm :
                \/ b \in S.seg[i].bm
                \/ \E n \in 2 .. Len(S.list[i[1]]) - 1 :
                     S.list[i[1]][n - 1] = i /\ b \in S.seg[S.list[i[1]][n]].bm
      /\ \A q \in SegIds : InList(S.list, q) =>
              \E p \in SegIds : InList(T.list, p) /\ p[1] = q[1] /\ S.seg[q].bm \subseteq T.seg[p].bm
  BY MergeIs
<1>2. Slim(S, T)
  BY MergeSlim
<1> HIDE DEF T
<1>3. Listed(S.list)
  BY DEF Owned
<1>4. /\ \A i \in SegIds : InList(T.list, i) => InList(S.list, i) /\ T.seg[i].vc = S.seg[i].vc
      /\ \A t \in Threads : T.list[t] = <<>> <=> S.list[t] = <<>>
  BY <1>2, <1>3, SlimClocks DEF SameClocks
<1>5. Thinned(S, T)
  <2>1. SUFFICES ASSUME NEW q \in SegIds, InList(T.list, q), NEW b \in T.seg[q].bm
                 PROVE  \E p \in SegIds : InList(S.list, p) /\ p[1] = q[1] /\ b \in S.seg[p].bm /\ Own(T, q) <= Own(S, p)
    BY DEF Thinned
  <2>2. InList(S.list, q) /\ Own(T, q) = Own(S, q) /\ Own(T, q) \in Nat
    BY <1>1, <1>4, <2>1, OwnNat DEF Own
  <2>3. CASE b \in S.seg[q].bm
    BY <2>2, <2>3
  <2>4. CASE b \notin S.seg[q].bm
    <3> DEFINE l == S.list[q[1]]
    <3>1. PICK n \in 2 .. Len(l) - 1 : l[n - 1] = q /\ b \in S.seg[l[n]].bm
      BY <1>1, <2>1, <2>4
    <3>2. q[1] \in Threads
      BY OwnNat
    <3>3. Len(l) \in Nat /\ DOMAIN l = 1 .. Len(l)
      BY <1>3, <3>2, ListedAt
    <3>4. n \in 1 .. Len(l) /\ n - 1 \in 1 .. Len(l) /\ n - 1 < n
      BY <3>3
    <3>5. l[n] \in SegIds /\ l[n][1] = q[1] /\ InList(S.list, l[n])
      <4>1. l[n] \in Range(l)
        BY <3>3, <3>4 DEF Range
      <4> QED
        BY <1>3, <3>2, <3>4, <4>1, ListedAt
    <3>6. vc_lte(S.seg[q].vc, S.seg[l[n]].vc)
      BY <3>1, <3>2, <3>3, <3>4 DEF InOrder
    <3>7. Own(S, q) <= Own(S, l[n])
      BY <3>2, <3>5, <3>6 DEF vc_lte, Own
    <3> QED
      BY <2>2, <3>1, <3>5, <3>7
  <2> QED
    BY <2>3, <2>4
<1>6. Retained(S, T)
  BY <1>1, <1>4 DEF Retained
<1> QED
  BY <1>5, <1>6 DEF Contents, T

LEMMA SlimInformed ==
  ASSUME NEW S \in DState, NEW T, Listed(S.list), Slim(S, T), InOrder(S), Informed(S)
  PROVE  Informed(T)
PROOF
<1>1. \A i \in SegIds : InList(T.list, i) => InList(S.list, i) /\ T.seg[i].vc = S.seg[i].vc
  BY SlimClocks
<1>2. SUFFICES ASSUME NEW q \in SegIds, NEW i \in SegIds, InList(T.list, q), Own(T, q) <= T.seg[i].vc[q[1]]
               PROVE  vc_lte(T.seg[q].vc, T.seg[i].vc)
  BY DEF Informed
<1>3. InList(S.list, q) /\ T.seg[q].vc = S.seg[q].vc /\ Own(T, q) = Own(S, q)
  BY <1>1, <1>2 DEF Own
<1>4. T.seg[i].vc = S.seg[i].vc \/ T.seg[i] = NoSegment
  BY DEF Slim
<1>5. T.seg[i] # NoSegment
  <2>1. Own(S, q) >= 1 /\ Own(S, q) \in Nat /\ q[1] \in Threads
    BY <1>3, OwnNat DEF InOrder, Own
  <2> QED
    BY <1>2, <1>3, <2>1, NoSegmentType
<1> QED
  BY <1>2, <1>3, <1>4, <1>5 DEF Informed

(* A segment of t that is new: its clock is above that of the thread t, or *)
(* of the main thread, which creates t.                                    *)
LEMMA AppendInformed ==
  ASSUME NEW S \in DState, Listed(S.list), InOrder(S), Informed(S), NEW t \in Threads, NEW T, NEW i,
         AppendedAs(S, T, Home(S, t), t, i)
  PROVE  Informed(T)
PROOF
<1> DEFINE c == Home(S, t)
<1>1. c \in Threads /\ S.list[c] # <<>> /\ ClockOf(S, c) \in Clock
  BY HomeClock
<1>2. AppendLists(S, T, t, i)
  BY <1>1, AppendedLists
<1>3. InOrder(T) /\ Fresh(T, t) /\ vc_lte(ClockOf(S, c), ClockOf(T, t))
  BY AppendInOrder
<1>4. /\ T \in DState /\ i \in SegIds /\ i[1] = t /\ ~ InList(S.list, i)
      /\ \A j \in SegIds : j # i => T.seg[j] = S.seg[j]
      /\ T.seg[i].vc = vc_increment(ClockOf(S, c), t)
  BY DEF AppendedAs
<1>5. Latest(T, t) = i /\ Latest(S, c) \in SegIds
  <2>1. T.list[t] = Append(S.list[t], i) /\ S.list[t] \in Seq(SegIds)
    BY DStateFields DEF AppendedAs
  <2> QED
    BY <1>1, <1>4, <2>1, LatestIs DEF Latest, Last
<1> HIDE DEF c
<1>6. SUFFICES ASSUME NEW q \in SegIds, NEW j \in SegIds, InList(T.list, q), Own(T, q) <= T.seg[j].vc[q[1]], q # j
               PROVE  vc_lte(T.seg[q].vc, T.seg[j].vc)
  BY <1>4, ClockFields, vc_lteRefl DEF Informed
<1>7. CASE q = i
  <2>1. T.seg[j].vc[t] < T.seg[i].vc[t]
    BY <1>3, <1>5, <1>6, <1>7 DEF Fresh, ClockOf
  <2> QED
    BY <1>4, <1>6, <1>7, <2>1, OwnNat DEF Own
<1>8. CASE q # i /\ j # i
  BY <1>2, <1>4, <1>6, <1>8 DEF AppendLists, Informed, Own
<1>9. CASE q # i /\ j = i
  <2>1. InList(S.list, q) /\ T.seg[q] = S.seg[q] /\ Own(T, q) = Own(S, q) /\ q[1] \in Threads
    BY <1>2, <1>4, <1>6, <1>9, OwnNat DEF AppendLists, Own
  <2>2. CASE q[1] # t
    <3>1. T.seg[i].vc[q[1]] = ClockOf(S, c)[q[1]]
      BY <1>1, <1>4, <2>1, <2>2, vc_incrementType, SMTT(30)
    <3>2. vc_lte(S.seg[q].vc, ClockOf(S, c))
      BY <1>5, <1>6, <1>9, <2>1, <3>1 DEF Informed, ClockOf
    <3> QED
      BY <1>1, <1>3, <1>4, <1>5, <1>9, <2>1, <3>2, ClockFields, vc_lteTrans DEF ClockOf
  <2>3. CASE q[1] = t
    <3>1. PICK a \in DOMAIN S.list[t] : S.list[t][a] = q
      BY <2>1, <2>3 DEF InList, Range
    <3>2. /\ a \in DOMAIN T.list[t] /\ Len(S.list[t]) + 1 \in DOMAIN T.list[t] /\ a < Len(S.list[t]) + 1
          /\ T.list[t][a] = q /\ T.list[t][Len(S.list[t]) + 1] = i
      BY <1>2, <3>1 DEF AppendLists
    <3> QED
      BY <1>3, <1>9, <3>2 DEF InOrder
  <2> QED
    BY <2>2, <2>3
<1> QED
  BY <1>7, <1>8, <1>9

(* Who has heard of t's latest segment knows vc. *)
Behind(S, t, vc) ==
  \A i \in SegIds : i # Latest(S, t) /\ S.seg[i].vc[t] >= ClockOf(S, t)[t] => vc_lte(vc, S.seg[i].vc)

(* vc knows all that the segments it has heard of knew. *)
InformedClock(S, vc) ==
  \A q \in SegIds : InList(S.list, q) /\ Own(S, q) <= vc[q[1]] => vc_lte(S.seg[q].vc, vc)

LEMMA CombineInformed ==
  ASSUME NEW S \in DState, Listed(S.list), InOrder(S), Informed(S), NEW t \in Threads, S.list[t] # <<>>,
         NEW vc, Bounded(S, vc), Behind(S, t, vc), InformedClock(S, vc), NEW T, CombinedAs(S, T, t, vc)
  PROVE  Informed(T)
PROOF
<1> DEFINE L == Latest(S, t)
           w == vc_combine(ClockOf(S, t), vc)
<1>1. L \in SegIds /\ InList(S.list, L) /\ L[1] = t /\ ClockOf(S, t) \in Clock /\ vc \in Clock
      /\ S.seg[L].vc = ClockOf(S, t)
  BY LatestIs DEF Bounded, ClockOf
<1>2. /\ T \in DState /\ T.list = S.list /\ T.seg[L].vc = w
      /\ \A i \in SegIds : i # L => T.seg[i] = S.seg[i]
  BY DEF CombinedAs
<1>3. /\ w \in Clock /\ \A u \in Threads : w[u] = IF ClockOf(S, t)[u] < vc[u] THEN vc[u] ELSE ClockOf(S, t)[u]
      /\ vc_lte(ClockOf(S, t), w) /\ vc_lte(vc, w)
      /\ \A z \in Clock : vc_lte(ClockOf(S, t), z) /\ vc_lte(vc, z) => vc_lte(w, z)
  BY <1>1, vc_combineType, vc_combineAbove
<1>4. w[t] = ClockOf(S, t)[t]
  BY CombineInOrder DEF CombinedAs
<1> HIDE DEF L, w
<1>5. SUFFICES ASSUME NEW q \in SegIds, NEW j \in SegIds, InList(S.list, q), Own(T, q) <= T.seg[j].vc[q[1]], q # j
               PROVE  vc_lte(T.seg[q].vc, T.seg[j].vc)
  BY <1>2, ClockFields, vc_lteRefl DEF Informed
<1>6. CASE q # L /\ j # L
  BY <1>2, <1>5, <1>6 DEF Informed, Own
<1>7. CASE q = L /\ j # L
  <2>1. T.seg[j] = S.seg[j] /\ Own(T, q) = ClockOf(S, t)[t] /\ S.seg[j].vc \in Clock
    BY <1>1, <1>2, <1>4, <1>7, ClockFields DEF Own
  <2>2. ClockOf(S, t)[t] <= S.seg[j].vc[t] /\ ClockOf(S, t)[t] \in Nat /\ S.seg[j].vc[t] \in Nat
    BY <1>1, <1>5, <1>7, <2>1, OwnNat DEF Clock
  <2>3. vc_lte(vc, S.seg[j].vc)
    BY <1>7, <2>2 DEF Behind, L
  <2>4. vc_lte(ClockOf(S, t), S.seg[j].vc)
    BY <1>1, <2>2 DEF Informed, Own
  <2> QED
    BY <1>2, <1>3, <1>7, <2>1, <2>3, <2>4
<1>8. CASE q # L /\ j = L
  <2>1. T.seg[q] = S.seg[q] /\ Own(T, q) = Own(S, q) /\ S.seg[q].vc \in Clock /\ q[1] \in Threads /\ Own(S, q) <= w[q[1]]
    BY <1>2, <1>5, <1>8, ClockFields, OwnNat DEF Own
  <2>2. CASE ClockOf(S, t)[q[1]] < vc[q[1]]
    <3>1. vc_lte(S.seg[q].vc, vc)
      BY <1>3, <1>5, <2>1, <2>2 DEF InformedClock
    <3> QED
      BY <1>1, <1>2, <1>3, <1>8, <2>1, <3>1, vc_lteTrans
  <2>3. CASE ~ (ClockOf(S, t)[q[1]] < vc[q[1]])
    <3>1. vc_lte(S.seg[q].vc, ClockOf(S, t))
      BY <1>1, <1>3, <1>5, <2>1, <2>3 DEF Informed
    <3> QED
      BY <1>1, <1>2, <1>3, <1>8, <2>1, <3>1, vc_lteTrans
  <2> QED
    BY <2>2, <2>3
<1> QED
  BY <1>5, <1>6, <1>7, <1>8

-----------------------------------------------------------------------------
(* What a new segment and a combination of clocks do, as seen by clocks    *)

(* Clocks but j's stay, unless nobody refers to the segment any more. *)
Clocked(S, T, x, j) ==
  \A i \in SegIds : i # j => \/ T.seg[i].vc = S.seg[i].vc
                             \/ T.seg[i].vc = NoSegment.vc /\ x[i] = 0

(* An access in T's conflict set was in a segment of S that the running    *)
(* thread has not heard of.                                                *)
Warned(S, T) ==
  \A b \in T.cset : \E p \in SegIds :
    InList(S.list, p) /\ p[1] # T.run /\ b \in S.seg[p].bm /\ ClockOf(T, T.run)[p[1]] < Own(S, p)

(* t has a new segment, that nothing refers to yet. *)
Stepped(S, T, x, t) ==
  /\ SteadyBut(S, T, x, t) /\ InOrder(T) /\ Informed(T) /\ Contents(S, T) /\ Warned(S, T)
  /\ x[Latest(T, t)] = 0 /\ ClockOf(T, t) = vc_increment(ClockOf(S, t), t)
  /\ \A u \in Threads : u # t /\ S.list[u] # <<>> => Latest(T, u) = Latest(S, u) /\ ClockOf(T, u) = ClockOf(S, u)
  /\ Clocked(S, T, x, Latest(T, t))

(* t's latest segment knows more. *)
Raised(S, T, x, t) ==
  /\ Steady(S, T, x) /\ InOrder(T) /\ Informed(T) /\ Contents(S, T)
  /\ vc_lte(ClockOf(S, t), ClockOf(T, t)) /\ ClockOf(T, t)[t] = ClockOf(S, t)[t]
  /\ \A u \in Threads : S.list[u] # <<>> => Latest(T, u) = Latest(S, u) /\ (u # t => ClockOf(T, u) = ClockOf(S, u))
  /\ Clocked(S, T, x, Latest(S, t))

LEMMA SlimClocked ==
  ASSUME NEW S, NEW T, NEW x, Slim(S, T), Owned(T.seg, T.list, x), NEW j
  PROVE  Clocked(S, T, x, j)
PROOF
<1>1. SUFFICES ASSUME NEW i \in SegIds, T.seg[i].vc # S.seg[i].vc PROVE T.seg[i].vc = NoSegment.vc /\ x[i] = 0
  BY DEF Clocked
<1>2. T.seg[i] = NoSegment /\ ~ InList(T.list, i)
  BY <1>1 DEF Slim
<1>3. T.seg[i].refcnt = x[i] /\ x[i] \in Nat
  BY <1>2 DEF Owned
<1> QED
  BY <1>2, <1>3, NoSegmentType

LEMMA ClockedTrans ==
  ASSUME NEW S, NEW T, NEW U, NEW x, NEW j, Clocked(S, T, x, j), Clocked(T, U, x, j)
  PROVE  Clocked(S, U, x, j)
PROOF
BY DEF Clocked

(* The conflict set of a state, computed. *)
LEMMA ComputedWarned ==
  ASSUME NEW S \in DState, Listed(S.list), Informed(S), NEW r \in Threads, S.list[r] # <<>>,
         NEW b \in ConflictSet(S, r)
  PROVE  \E p \in SegIds : InList(S.list, p) /\ p[1] # r /\ b \in S.seg[p].bm /\ ClockOf(S, r)[p[1]] < Own(S, p)
PROOF
<1>1. PICK q \in SegIds : InList(S.list, q) /\ q[1] # r /\ b \in S.seg[q].bm /\ Unordered(S, Latest(S, r), q)
  BY ConflictSetIs
<1>2. Latest(S, r) \in SegIds
  BY LatestIs
<1>3. ~ (Own(S, q) <= S.seg[Latest(S, r)].vc[q[1]])
  BY <1>1, <1>2 DEF Informed, Unordered
<1>4. Own(S, q) \in Nat /\ S.seg[Latest(S, r)].vc[q[1]] \in Nat
  BY <1>2, OwnNat
<1>5. ClockOf(S, r)[q[1]] < Own(S, q)
  BY <1>3, <1>4 DEF ClockOf
<1> QED
  BY <1>1, <1>5

LEMMA NewSegmentStepped ==
  ASSUME NEW S \in DState, NEW x, Owned(S.seg, S.list, x), InOrder(S), Informed(S), NEW t \in Threads,
         S.list[t] # <<>>, HasRoom(S.seg, t), S.list[S.run] # <<>>
  PROVE  Stepped(S, thread_new_segment(S, t), x, t)
PROOF
<1> DEFINE A == thread_append_segment(S, t, t)
           B == thread_compute_conflict_set(A)
           C == thread_discard_ordered_segments(B)
           D == thread_merge_segments(C)
           T == thread_new_segment(S, t)
<1>0. SteadyBut(S, T, x, t)
  BY NewSegmentKeeps
<1>1. Appended(S, A, x, t)
  BY AppendKeeps
<1>2. PICK i \in SegIds : AppendedAs(S, A, t, t, i)
  BY AppendIs
<1>3. T = IF s_segment_merging THEN D ELSE C
  BY DEF thread_new_segment
<1> HIDE DEF A, T
<1>4. A \in DState /\ Owned(A.seg, A.list, x) /\ Listed(A.list) /\ Listed(S.list) /\ A.run = S.run
      /\ A.list[t] # <<>>
  BY <1>1 DEF Appended, Owned
<1>5. Home(S, t) = t
  BY DEF Home
<1>6. /\ InOrder(A) /\ Informed(A) /\ Contents(S, A)
      /\ \A u \in Threads : u # t /\ S.list[u] # <<>> => Latest(A, u) = Latest(S, u) /\ ClockOf(A, u) = ClockOf(S, u)
  BY <1>2, <1>4, <1>5, AppendInOrder, AppendInformed, AppendContents
<1>7. Latest(A, t) = i /\ ClockOf(A, t) = vc_increment(ClockOf(S, t), t) /\ x[i] = 0
  <2>1. A.list[t] = Append(S.list[t], i) /\ S.list[t] \in Seq(SegIds) /\ S.seg[i] = NoSegment
        /\ A.seg[i].vc = vc_increment(ClockOf(S, t), t) /\ ~ InList(S.list, i)
    BY <1>2, DStateFields DEF AppendedAs
  <2>2. Latest(A, t) = i
    BY <2>1 DEF Latest, Last
  <2>3. S.seg[i].refcnt = x[i] /\ x[i] \in Nat
    BY <2>1 DEF Owned
  <2> QED
    BY <2>1, <2>2, <2>3, NoSegmentType DEF ClockOf
<1>8. /\ Slim(A, B) /\ B.run = S.run /\ B.cset = ConflictSet(A, S.run) /\ Steady(A, B, x)
      /\ B.seg = A.seg /\ B.list = A.list
  BY <1>4, ComputeSlim, ComputeSteady
<1> HIDE DEF B
<1>9. B \in DState /\ Owned(B.seg, B.list, x) /\ Listed(B.list) /\ InOrder(B) /\ Informed(B) /\ SameClocks(A, B)
  BY <1>4, <1>6, <1>8, SlimInOrder, SlimInformed, SlimClocks DEF Steady
<1>10. Contents(A, B)
  BY <1>4, <1>8, <1>9, SameContents DEF Own
<1>11. Slim(B, C) /\ C.cset = B.cset /\ Steady(B, C, x) /\ Contents(B, C)
  BY <1>9, DiscardSlim, DiscardIs, DiscardSteady, DiscardContents
<1> HIDE DEF C
<1>12. /\ C \in DState /\ Owned(C.seg, C.list, x) /\ Listed(C.list) /\ InOrder(C) /\ Informed(C)
       /\ SameClocks(B, C) /\ C.run = S.run
  BY <1>8, <1>9, <1>11, SlimInOrder, SlimInformed, SlimClocks DEF Steady
<1>13. Slim(C, D) /\ Steady(C, D, x) /\ D.cset = C.cset /\ (s_segment_merging => Contents(C, D))
  BY <1>12, MergeSlim, MergeSteady, MergeIs, MergeContents
<1> HIDE DEF D
<1>14. D \in DState /\ Owned(D.seg, D.list, x) /\ InOrder(D) /\ Informed(D) /\ SameClocks(C, D) /\ D.run = S.run
  BY <1>12, <1>13, SlimInOrder, SlimInformed, SlimClocks DEF Steady
<1>15. Contents(S, C) /\ (s_segment_merging => Contents(S, D))
  <2>1. Contents(S, B)
    BY <1>4, <1>6, <1>9, <1>10, ContentsTrans
  <2>2. Contents(S, C)
    BY <1>9, <1>11, <1>12, <2>1, ContentsTrans
  <2> QED
    BY <1>12, <1>13, <1>14, <2>2, ContentsTrans
<1>16. SameClocks(A, C) /\ SameClocks(A, D)
  BY <1>9, <1>12, <1>14 DEF SameClocks
<1>17. Clocked(A, C, x, i) /\ Clocked(A, D, x, i)
  BY <1>8, <1>9, <1>11, <1>12, <1>13, <1>14, SlimClocked, ClockedTrans
<1>18. /\ InOrder(T) /\ Informed(T) /\ Contents(S, T) /\ SameClocks(A, T) /\ Clocked(A, T, x, i)
       /\ T.run = S.run /\ T.cset = ConflictSet(A, S.run)
  BY <1>3, <1>8, <1>11, <1>12, <1>13, <1>14, <1>15, <1>16, <1>17
<1>19. Latest(T, t) = i /\ ClockOf(T, t) = vc_increment(ClockOf(S, t), t)
  BY <1>4, <1>7, <1>18 DEF SameClocks
<1>20. Clocked(S, T, x, Latest(T, t))
  <2>1. \A j \in SegIds : j # i => A.seg[j] = S.seg[j]
    BY <1>2 DEF AppendedAs
  <2> QED
    BY <1>18, <1>19, <2>1 DEF Clocked
<1>21. \A u \in Threads : u # t /\ S.list[u] # <<>> => Latest(T, u) = Latest(S, u) /\ ClockOf(T, u) = ClockOf(S, u)
  BY <1>1, <1>6, <1>18 DEF SameClocks, Appended
<1>22. Warned(S, T)
  <2>1. SUFFICES ASSUME NEW b \in ConflictSet(A, S.run)
                 PROVE  \E p \in SegIds : /\ InList(S.list, p) /\ p[1] # S.run /\ b \in S.seg[p].bm
                                          /\ ClockOf(T, S.run)[p[1]] < Own(S, p)
    BY <1>18 DEF Warned
  <2>2. S.run \in Threads /\ A.list[S.run] # <<>>
    BY <1>1, <1>4, DStateFields DEF Appended
  <2>3. PICK p \in SegIds : InList(A.list, p) /\ p[1] # S.run /\ b \in A.seg[p].bm /\ ClockOf(A, S.run)[p[1]] < Own(A, p)
    BY <1>4, <1>6, <2>1, <2>2, ComputedWarned
  <2>4. AppendLists(S, A, t, i)
    BY <1>2, AppendedLists
  <2>5. p # i
    BY <1>2, <2>3 DEF AppendedAs
  <2>6. InList(S.list, p) /\ A.seg[p] = S.seg[p] /\ Own(A, p) = Own(S, p)
    BY <1>2, <2>3, <2>4, <2>5 DEF AppendedAs, AppendLists, Own
  <2>7. ClockOf(T, S.run) = ClockOf(A, S.run)
    BY <1>18, <2>2 DEF SameClocks
  <2> QED
    BY <2>3, <2>6, <2>7
<1>23. x[Latest(T, t)] = 0
  BY <1>7, <1>19
<1>24. Stepped(S, T, x, t)
  BY <1>0, <1>18, <1>19, <1>20, <1>21, <1>22, <1>23, Zenon DEF Stepped
<1> QED
  BY <1>24 DEF T

(* CombineLatest, and discards after it. *)
LEMMA CombineRaised ==
  ASSUME NEW S \in DState, NEW x, Owned(S.seg, S.list, x), InOrder(S), Informed(S), NEW t \in Threads,
         S.list[t] # <<>>, NEW vc, Bounded(S, vc), Behind(S, t, vc), InformedClock(S, vc)
  PROVE  /\ Raised(S, CombineLatest(S, t, vc), x, t)
         /\ ClockOf(CombineLatest(S, t, vc), t) = vc_combine(ClockOf(S, t), vc)
PROOF
<1> DEFINE A == CombineLatest(S, t, vc)
           L == Latest(S, t)
<1>0. vc \in Clock /\ Listed(S.list) /\ L \in SegIds /\ L[1] = t /\ ClockOf(S, t) \in Clock
      /\ S.seg[L].vc = ClockOf(S, t)
  BY LatestIs DEF Bounded, Owned, ClockOf
<1>1. Steady(S, A, x) /\ CombinedAs(S, A, t, vc)
  BY <1>0, CombineSteady, CombineAs
<1> HIDE DEF A, L
<1>2. /\ InOrder(A) /\ vc_lte(ClockOf(S, t), ClockOf(A, t)) /\ ClockOf(A, t)[t] = ClockOf(S, t)[t]
      /\ A \in DState /\ Informed(A)
  BY <1>0, <1>1, CombineInOrder, CombineInformed DEF Steady
<1>3. /\ A.list = S.list /\ \A i \in SegIds : i # L => A.seg[i] = S.seg[i]
      /\ A.seg[L].bm = S.seg[L].bm /\ \A u \in Threads : Latest(A, u) = Latest(S, u)
      /\ ClockOf(A, t) = vc_combine(ClockOf(S, t), vc)
  BY <1>1 DEF CombinedAs, L
<1>4. Contents(S, A)
  <2>1. Own(A, L) = Own(S, L)
    BY <1>0, <1>2, <1>3 DEF Own, ClockOf, L
  <2> QED
    BY <1>2, <1>3, <2>1, SameContents DEF Own
<1>5. \A u \in Threads : S.list[u] # <<>> => Latest(A, u) = Latest(S, u) /\ (u # t => ClockOf(A, u) = ClockOf(S, u))
  <2>1. \A u \in Threads : S.list[u] # <<>> => Latest(S, u) \in SegIds /\ Latest(S, u)[1] = u
    BY <1>0, LatestIs
  <2> QED
    BY <1>0, <1>3, <2>1 DEF ClockOf
<1>6. Clocked(S, A, x, L)
  BY <1>3 DEF Clocked
<1> QED
  BY <1>1, <1>2, <1>3, <1>4, <1>5, <1>6 DEF Raised, A, L

LEMMA RaisedTrans ==
  ASSUME NEW S \in DState, NEW T, NEW U, NEW x, NEW t \in Threads, S.list[t] # <<>>, Raised(S, T, x, t), Raised(T, U, x, t)
  PROVE  Raised(S, U, x, t)
PROOF
<1>1. /\ T \in DState /\ U \in DState /\ Steady(S, U, x) /\ InOrder(U) /\ Informed(U)
      /\ \A u \in Threads : T.list[u] = <<>> <=> S.list[u] = <<>>
  <2>1. Steady(S, T, x) /\ Steady(T, U, x)
    BY DEF Raised
  <2> QED
    BY <2>1, SteadyTrans DEF Raised, Steady
<1>2. Contents(S, U)
  BY <1>1, ContentsTrans DEF Raised
<1>3. ClockOf(S, t) \in Clock /\ ClockOf(T, t) \in Clock /\ ClockOf(U, t) \in Clock
  BY <1>1, LatestIs DEF Raised, Steady
<1>4. vc_lte(ClockOf(S, t), ClockOf(U, t)) /\ ClockOf(U, t)[t] = ClockOf(S, t)[t]
  BY <1>3, vc_lteTrans DEF Raised
<1>5. \A u \in Threads : S.list[u] # <<>> => Latest(U, u) = Latest(S, u) /\ (u # t => ClockOf(U, u) = ClockOf(S, u))
  BY <1>1 DEF Raised
<1>6. Latest(T, t) = Latest(S, t)
  BY DEF Raised
<1>7. Clocked(S, U, x, Latest(S, t))
  BY <1>6, ClockedTrans DEF Raised
<1> QED
  BY <1>1, <1>2, <1>4, <1>5, <1>7 DEF Raised

LEMMA SlimRaised ==
  ASSUME NEW S \in DState, NEW T, NEW x, NEW t \in Threads, S.list[t] # <<>>, Listed(S.list), InOrder(S), Informed(S),
         Slim(S, T), Steady(S, T, x), Contents(S, T)
  PROVE  Raised(S, T, x, t) /\ ClockOf(T, t) = ClockOf(S, t)
PROOF
<1>1. InOrder(T) /\ Informed(T) /\ SameClocks(S, T) /\ Clocked(S, T, x, Latest(S, t))
  BY SlimInOrder, SlimInformed, SlimClocks, SlimClocked DEF Steady
<1>2. \A u \in Threads : S.list[u] # <<>> => Latest(T, u) = Latest(S, u) /\ ClockOf(T, u) = ClockOf(S, u)
  BY <1>1 DEF SameClocks
<1>3. vc_lte(ClockOf(S, t), ClockOf(S, t))
  BY LatestIs, vc_lteRefl
<1> QED
  BY <1>1, <1>2, <1>3 DEF Raised

LEMMA ComputeContents ==
  ASSUME NEW S \in DState
  PROVE  Contents(S, thread_compute_conflict_set(S))
PROOF
<1> DEFINE T == thread_compute_conflict_set(S)
<1>1. T.seg = S.seg /\ T.list = S.list
  BY ComputeSlim
<1>2. T \in DState
  BY ComputeIs
<1> HIDE DEF T
<1>3. Contents(S, T)
  BY <1>1, <1>2, SameContents DEF Own
<1> QED
  BY <1>3 DEF T

LEMMA Combine2Raised ==
  ASSUME NEW S \in DState, NEW x, Owned(S.seg, S.list, x), InOrder(S), Informed(S), NEW t \in Threads,
         S.list[t] # <<>>, NEW vc, Bounded(S, vc), Behind(S, t, vc), InformedClock(S, vc)
  PROVE  /\ Raised(S, thread_combine_vc2(S, t, vc), x, t)
         /\ ClockOf(thread_combine_vc2(S, t, vc), t) = vc_combine(ClockOf(S, t), vc)
PROOF
<1> DEFINE A == CombineLatest(S, t, vc)
           B == thread_compute_conflict_set(A)
           C == thread_discard_ordered_segments(B)
<1>1. Raised(S, A, x, t) /\ ClockOf(A, t) = vc_combine(ClockOf(S, t), vc)
  BY CombineRaised
<1>2. thread_combine_vc2(S, t, vc) = C
  BY DEF thread_combine_vc2
<1> HIDE DEF A
<1>3. A \in DState /\ Owned(A.seg, A.list, x) /\ Listed(A.list) /\ InOrder(A) /\ Informed(A) /\ A.list[t] # <<>>
  BY <1>1 DEF Raised, Steady, Owned
<1>4. Slim(A, B) /\ Steady(A, B, x) /\ Contents(A, B)
  BY <1>3, ComputeSlim, ComputeSteady, ComputeContents
<1> HIDE DEF B
<1>5. Raised(A, B, x, t) /\ ClockOf(B, t) = ClockOf(A, t)
  BY <1>3, <1>4, SlimRaised
<1>6. B \in DState /\ Owned(B.seg, B.list, x) /\ Listed(B.list) /\ InOrder(B) /\ Informed(B) /\ B.list[t] # <<>>
  BY <1>3, <1>5 DEF Raised, Steady, Owned
<1>7. Slim(B, C) /\ Steady(B, C, x) /\ Contents(B, C)
  BY <1>6, DiscardSlim, DiscardSteady, DiscardContents
<1> HIDE DEF C
<1>8. Raised(B, C, x, t) /\ ClockOf(C, t) = ClockOf(B, t)
  BY <1>6, <1>7, SlimRaised
<1>9. Raised(S, C, x, t)
  BY <1>1, <1>3, <1>5, <1>8, RaisedTrans
<1> QED
  BY <1>1, <1>2, <1>5, <1>8, <1>9

LEMMA CombineVcRaised ==
  ASSUME NEW S \in DState, NEW x, Owned(S.seg, S.list, x), InOrder(S), Informed(S), NEW t \in Threads,
         S.list[t] # <<>>, NEW u \in Threads, Bounded(S, ClockOf(S, u)), Behind(S, t, ClockOf(S, u)),
         InformedClock(S, ClockOf(S, u))
  PROVE  /\ Raised(S, thread_combine_vc(S, t, u), x, t)
         /\ ClockOf(thread_combine_vc(S, t, u), t) = vc_combine(ClockOf(S, t), ClockOf(S, u))
PROOF
<1> DEFINE A == CombineLatest(S, t, ClockOf(S, u))
           B == thread_discard_ordered_segments(A)
           C == thread_compute_conflict_set(B)
<1>1. Raised(S, A, x, t) /\ ClockOf(A, t) = vc_combine(ClockOf(S, t), ClockOf(S, u))
  BY CombineRaised
<1>2. thread_combine_vc(S, t, u) = IF t = S.run THEN C ELSE B
  BY DEF thread_combine_vc
<1> HIDE DEF A
<1>3. A \in DState /\ Owned(A.seg, A.list, x) /\ Listed(A.list) /\ InOrder(A) /\ Informed(A) /\ A.list[t] # <<>>
  BY <1>1 DEF Raised, Steady, Owned
<1>4. Slim(A, B) /\ Steady(A, B, x) /\ Contents(A, B)
  BY <1>3, DiscardSlim, DiscardSteady, DiscardContents
<1> HIDE DEF B
<1>5. Raised(A, B, x, t) /\ ClockOf(B, t) = ClockOf(A, t)
  BY <1>3, <1>4, SlimRaised
<1>6. B \in DState /\ Owned(B.seg, B.list, x) /\ Listed(B.list) /\ InOrder(B) /\ Informed(B) /\ B.list[t] # <<>>
  BY <1>3, <1>5 DEF Raised, Steady, Owned
<1>7. Slim(B, C) /\ Steady(B, C, x) /\ Contents(B, C)
  BY <1>6, ComputeSlim, ComputeSteady, ComputeContents
<1> HIDE DEF C
<1>8. Raised(B, C, x, t) /\ ClockOf(C, t) = ClockOf(B, t)
  BY <1>6, <1>7, SlimRaised
<1>9. Raised(S, C, x, t) /\ Raised(S, B, x, t)
  BY <1>1, <1>3, <1>5, <1>8, RaisedTrans
<1> QED
  BY <1>1, <1>2, <1>5, <1>8, <1>9

(* Nobody forgets. *)
Grows(S, T) ==
  \A u \in Threads : /\ T.list[u] = <<>> <=> S.list[u] = <<>>
                     /\ S.list[u] # <<>> => vc_lte(ClockOf(S, u), ClockOf(T, u))

LEMMA SteppedGrows ==
  ASSUME NEW S \in DState, NEW T, NEW x, NEW t \in Threads, S.list[t] # <<>>, Stepped(S, T, x, t)
  PROVE  Grows(S, T) /\ T \in DState /\ \A u \in Threads : S.list[u] # <<>> => ClockOf(S, u) \in Clock /\ ClockOf(T, u) \in Clock
PROOF
<1>1. T \in DState /\ \A u \in Threads : T.list[u] = <<>> <=> S.list[u] = <<>>
  BY DEF Stepped, SteadyBut
<1>2. \A u \in Threads : S.list[u] # <<>> => ClockOf(S, u) \in Clock /\ ClockOf(T, u) \in Clock
  BY <1>1, LatestIs
<1>3. ASSUME NEW u \in Threads, S.list[u] # <<>> PROVE vc_lte(ClockOf(S, u), ClockOf(T, u))
  <2>1. CASE u = t
    BY <1>2, <2>1, vc_incrementAbove DEF Stepped
  <2>2. CASE u # t
    BY <1>2, <1>3, <2>2, vc_lteRefl DEF Stepped
  <2> QED
    BY <2>1, <2>2
<1> QED
  BY <1>1, <1>2, <1>3 DEF Grows

LEMMA RaisedGrows ==
  ASSUME NEW S \in DState, NEW T, NEW x, NEW t \in Threads, S.list[t] # <<>>, Raised(S, T, x, t)
  PROVE  Grows(S, T) /\ T \in DState /\ \A u \in Threads : S.list[u] # <<>> => ClockOf(S, u) \in Clock /\ ClockOf(T, u) \in Clock
PROOF
<1>1. T \in DState /\ \A u \in Threads : T.list[u] = <<>> <=> S.list[u] = <<>>
  BY DEF Raised, Steady
<1>2. \A u \in Threads : S.list[u] # <<>> => ClockOf(S, u) \in Clock /\ ClockOf(T, u) \in Clock
  BY <1>1, LatestIs
<1>3. ASSUME NEW u \in Threads, S.list[u] # <<>> PROVE vc_lte(ClockOf(S, u), ClockOf(T, u))
  <2>1. CASE u = t
    BY <2>1 DEF Raised
  <2>2. CASE u # t
    BY <1>2, <1>3, <2>2, vc_lteRefl DEF Raised
  <2> QED
    BY <2>1, <2>2
<1> QED
  BY <1>1, <1>2, <1>3 DEF Grows

-----------------------------------------------------------------------------
(* The accesses remembered, each dated by the count of its thread when it  *)
(* was made                                                                *)

Known(at, e, vc) == at[e] <= vc[e.thread]

(* Accesses are of threads that have not been joined, and a thread's past  *)
(* is what its clock has heard of.                                         *)
Heard(S, E, at, P) ==
  /\ \A e \in E : S.list[e.thread] # <<>> /\ Known(at, e, ClockOf(S, e.thread))
  /\ \A t \in Threads : \A e : e \in P[t] <=> e \in E /\ S.list[t] # <<>> /\ Known(at, e, ClockOf(S, t))

(* Q is what the segment i, of a mutex, has heard of. *)
HeardAt(S, E, at, i, Q) == \A e : e \in Q <=> e \in E /\ i # Null /\ Known(at, e, S.seg[i].vc)

(* What is in a segment was accessed, in it or later. *)
Evident(S, E, at) ==
  \A q \in SegIds : InList(S.list, q) => \A b \in S.seg[q].bm :
    \E e \in E : e.thread = q[1] /\ e.access = b /\ at[e] >= Own(S, q)

(* What is in the conflict set was accessed, by a thread and at a time     *)
(* that the running thread has not heard of.                               *)
Hits(S, E, at) ==
  \A b \in S.cset : \E e \in E :
    e.thread # S.run /\ e.access = b /\ at[e] > ClockOf(S, S.run)[e.thread]

(* What somebody has not heard of is in a segment still. *)
Kept(S, E, at, merging) ==
  \A e \in E, t \in Threads : t # e.thread /\ S.list[t] # <<>> /\ ~ Known(at, e, ClockOf(S, t)) =>
    \E q \in SegIds : /\ InList(S.list, q) /\ q[1] = e.thread /\ e.access \in S.seg[q].bm
                      /\ ~ merging => Own(S, q) = at[e]

Dates(E, at) == E \subseteq Event /\ at \in [Event -> Nat]

LEMMA DatesNat ==
  ASSUME NEW E, NEW at, Dates(E, at), NEW e \in E
  PROVE  e \in Event /\ at[e] \in Nat /\ e.thread \in Threads /\ e.access \in Access
PROOF
BY DEF Dates, Event

LEMMA KeptContents ==
  ASSUME NEW S \in DState, NEW T \in DState, NEW E, NEW at, Dates(E, at), Contents(S, T), Evident(S, E, at),
         Kept(S, E, at, s_segment_merging), \A e \in E : S.list[e.thread] # <<>>,
         \A e \in E, u \in Threads : u # e.thread /\ T.list[u] # <<>> /\ ~ Known(at, e, ClockOf(T, u)) =>
           \E v \in Threads : v # e.thread /\ S.list[v] # <<>> /\ ~ Known(at, e, ClockOf(S, v))
  PROVE  Evident(T, E, at) /\ Kept(T, E, at, s_segment_merging)
PROOF
<1>1. Evident(T, E, at)
  <2>1. SUFFICES ASSUME NEW q \in SegIds, InList(T.list, q), NEW b \in T.seg[q].bm
                 PROVE  \E e \in E : e.thread = q[1] /\ e.access = b /\ at[e] >= Own(T, q)
    BY DEF Evident
  <2>2. PICK p \in SegIds : InList(S.list, p) /\ p[1] = q[1] /\ b \in S.seg[p].bm /\ Own(T, q) <= Own(S, p)
    BY <2>1 DEF Contents, Thinned
  <2>3. PICK e \in E : e.thread = p[1] /\ e.access = b /\ at[e] >= Own(S, p)
    BY <2>2 DEF Evident
  <2>4. at[e] >= Own(T, q)
    BY <2>2, <2>3, OwnNat, DatesNat
  <2> QED
    BY <2>2, <2>3, <2>4
<1>2. Kept(T, E, at, s_segment_merging)
  <2>1. SUFFICES ASSUME NEW e \in E, NEW u \in Threads, u # e.thread, T.list[u] # <<>>, ~ Known(at, e, ClockOf(T, u))
                 PROVE  \E q \in SegIds : /\ InList(T.list, q) /\ q[1] = e.thread /\ e.access \in T.seg[q].bm
                                          /\ ~ s_segment_merging => Own(T, q) = at[e]
    BY DEF Kept
  <2>2. PICK v \in Threads : v # e.thread /\ S.list[v] # <<>> /\ ~ Known(at, e, ClockOf(S, v))
    BY <2>1
  <2>3. PICK q \in SegIds : /\ InList(S.list, q) /\ q[1] = e.thread /\ e.access \in S.seg[q].bm
                            /\ ~ s_segment_merging => Own(S, q) = at[e]
    BY <2>2 DEF Kept
  <2>4. \E t \in Threads : t # 1 /\ S.list[t] # <<>>
    BY <2>2, DatesNat
  <2>5. PICK p \in SegIds : /\ InList(T.list, p) /\ p[1] = q[1] /\ S.seg[q].bm \subseteq T.seg[p].bm
                            /\ ~ s_segment_merging => Own(T, p) = Own(S, q)
    BY <2>3, <2>4 DEF Contents, Retained
  <2> QED
    BY <2>3, <2>5
<1> QED
  BY <1>1, <1>2

LEMMA GrowsKept ==
  ASSUME NEW S \in DState, NEW T \in DState, NEW E, NEW at, Dates(E, at), Contents(S, T), Evident(S, E, at),
         Kept(S, E, at, s_segment_merging), \A e \in E : S.list[e.thread] # <<>>, Grows(S, T)
  PROVE  Evident(T, E, at) /\ Kept(T, E, at, s_segment_merging)
PROOF
<1>1. ASSUME NEW e \in E, NEW u \in Threads, T.list[u] # <<>>, ~ Known(at, e, ClockOf(T, u))
      PROVE  S.list[u] # <<>> /\ ~ Known(at, e, ClockOf(S, u))
  <2>1. e.thread \in Threads /\ at[e] \in Nat
    BY DatesNat
  <2>2. S.list[u] # <<>> /\ vc_lte(ClockOf(S, u), ClockOf(T, u))
    BY <1>1 DEF Grows
  <2>3. ClockOf(S, u) \in Clock /\ ClockOf(T, u) \in Clock
    BY <1>1, <2>2, LatestIs
  <2>4. ClockOf(S, u)[e.thread] <= ClockOf(T, u)[e.thread] /\ ClockOf(S, u)[e.thread] \in Nat /\ ClockOf(T, u)[e.thread] \in Nat
    BY <2>1, <2>2, <2>3 DEF vc_lte, Clock
  <2> QED
    BY <1>1, <2>1, <2>2, <2>4 DEF Known
<1> QED
  BY <1>1, KeptContents

LEMMA WarnedHits ==
  ASSUME NEW S \in DState, NEW T \in DState, NEW E, NEW at, Dates(E, at), Warned(S, T), Evident(S, E, at), T.list[T.run] # <<>>
  PROVE  Hits(T, E, at)
PROOF
<1>1. SUFFICES ASSUME NEW b \in T.cset
               PROVE  \E e \in E : e.thread # T.run /\ e.access = b /\ at[e] > ClockOf(T, T.run)[e.thread]
  BY DEF Hits
<1>2. PICK p \in SegIds : InList(S.list, p) /\ p[1] # T.run /\ b \in S.seg[p].bm /\ ClockOf(T, T.run)[p[1]] < Own(S, p)
  BY DEF Warned
<1>3. PICK e \in E : e.thread = p[1] /\ e.access = b /\ at[e] >= Own(S, p)
  BY <1>2 DEF Evident
<1>4. ClockOf(T, T.run) \in Clock
  BY DStateFields, LatestIs
<1>5. ClockOf(T, T.run)[p[1]] \in Nat /\ Own(S, p) \in Nat /\ at[e] \in Nat
  BY <1>4, OwnNat, DatesNat DEF Clock
<1>6. at[e] > ClockOf(T, T.run)[p[1]]
  BY <1>2, <1>3, <1>5
<1> QED
  BY <1>2, <1>3, <1>6

LEMMA SteppedHeard ==
  ASSUME NEW S \in DState, NEW T, NEW x, NEW t \in Threads, S.list[t] # <<>>, Stepped(S, T, x, t),
         NEW E, NEW at, NEW P, Dates(E, at), Heard(S, E, at, P)
  PROVE  Heard(T, E, at, P)
PROOF
<1>1. T \in DState /\ \A u \in Threads : T.list[u] = <<>> <=> S.list[u] = <<>>
  BY DEF Stepped, SteadyBut
<1>2. ASSUME NEW u \in Threads, S.list[u] # <<>>, NEW e \in E
      PROVE  Known(at, e, ClockOf(T, u)) <=> Known(at, e, ClockOf(S, u))
  <2>1. CASE u # t
    BY <1>2, <2>1 DEF Stepped
  <2>2. CASE u = t
    <3>1. e.thread \in Threads /\ at[e] \in Nat /\ ClockOf(S, t) \in Clock
      BY <1>2, <2>2, DatesNat, LatestIs
    <3>2. ClockOf(T, t) = vc_increment(ClockOf(S, t), t)
      BY DEF Stepped
    <3>3. CASE e.thread # t
      BY <2>2, <3>1, <3>2, <3>3, vc_incrementType DEF Known
    <3>4. CASE e.thread = t
      <4>1. at[e] <= ClockOf(S, t)[t]
        BY <3>4 DEF Heard, Known
      <4>2. ClockOf(T, t)[t] = ClockOf(S, t)[t] + 1 /\ ClockOf(S, t)[t] \in Nat
        BY <3>1, <3>2, vc_incrementType DEF Clock
      <4> QED
        BY <2>2, <3>1, <3>4, <4>1, <4>2 DEF Known
    <3> QED
      BY <3>3, <3>4
  <2> QED
    BY <2>1, <2>2
<1>3. \A e \in E : T.list[e.thread] # <<>> /\ Known(at, e, ClockOf(T, e.thread))
  BY <1>1, <1>2, DatesNat DEF Heard
<1>4. \A u \in Threads : \A e : e \in P[u] <=> e \in E /\ T.list[u] # <<>> /\ Known(at, e, ClockOf(T, u))
  BY <1>1, <1>2 DEF Heard
<1> QED
  BY <1>3, <1>4 DEF Heard

(* Q is what t hears of between S and T; P2 are the pasts with it. *)
News(S, T, E, at, t, Q) ==
  /\ \A e : e \in Q => e \in E
  /\ \A e \in E : Known(at, e, ClockOf(T, t)) <=> Known(at, e, ClockOf(S, t)) \/ e \in Q

Learnt(P, P2, t, Q) == P2[t] = P[t] \cup Q /\ \A u \in Threads : u # t => P2[u] = P[u]

LEMMA RaisedHeard ==
  ASSUME NEW S \in DState, NEW T, NEW x, NEW t \in Threads, S.list[t] # <<>>, Raised(S, T, x, t),
         NEW E, NEW at, NEW P, Dates(E, at), Heard(S, E, at, P), NEW Q,
         News(S, T, E, at, t, Q), NEW P2, Learnt(P, P2, t, Q)
  PROVE  Heard(T, E, at, P2)
PROOF
<1>1. T \in DState /\ \A u \in Threads : T.list[u] = <<>> <=> S.list[u] = <<>>
  BY DEF Raised, Steady
<1>2. \A e \in E : T.list[e.thread] # <<>> /\ Known(at, e, ClockOf(T, e.thread))
  <2>1. SUFFICES ASSUME NEW e \in E PROVE T.list[e.thread] # <<>> /\ Known(at, e, ClockOf(T, e.thread))
    OBVIOUS
  <2>2. e.thread \in Threads /\ S.list[e.thread] # <<>> /\ Known(at, e, ClockOf(S, e.thread))
    BY DatesNat DEF Heard
  <2>3. CASE e.thread = t
    BY <1>1, <2>2, <2>3 DEF News
  <2>4. CASE e.thread # t
    BY <1>1, <2>2, <2>4 DEF Raised
  <2> QED
    BY <2>3, <2>4
<1>3. ASSUME NEW u \in Threads, NEW e
      PROVE  e \in P2[u] <=> e \in E /\ T.list[u] # <<>> /\ Known(at, e, ClockOf(T, u))
  <2>1. e \in P[u] <=> e \in E /\ S.list[u] # <<>> /\ Known(at, e, ClockOf(S, u))
    BY DEF Heard
  <2>2. CASE u = t
    BY <1>1, <2>1, <2>2 DEF News, Learnt
  <2>3. CASE u # t
    <3>1. S.list[u] # <<>> => ClockOf(T, u) = ClockOf(S, u)
      BY <2>3 DEF Raised
    <3> QED
      BY <1>1, <2>1, <2>3, <3>1 DEF Learnt
  <2> QED
    BY <2>2, <2>3
<1> QED
  BY <1>2, <1>3 DEF Heard

-----------------------------------------------------------------------------
(* Who has heard of a thread's latest segment: nobody, but for threads at  *)
(* the barrier                                                             *)

LEMMA AliveCount ==
  ASSUME NEW S \in DState, Listed(S.list), InOrder(S), NEW u \in Threads, S.list[u] # <<>>
  PROVE  /\ ClockOf(S, u) \in Clock /\ ClockOf(S, u)[u] \in Nat /\ ClockOf(S, u)[u] >= 1 /\ ClockOf(S, u)[1] >= 1
         /\ Latest(S, u) \in SegIds /\ Latest(S, u)[1] = u /\ InList(S.list, Latest(S, u))
         /\ ClockOf(S, u) = S.seg[Latest(S, u)].vc /\ Home(S, u) = u
         /\ \A v \in Threads : ClockOf(S, u)[v] \in Nat
         /\ \A i \in SegIds : S.seg[i].vc[u] <= ClockOf(S, u)[u] /\ S.seg[i].vc[u] \in Nat
PROOF
<1>1. /\ ClockOf(S, u) \in Clock /\ Latest(S, u) \in SegIds /\ Latest(S, u)[1] = u /\ InList(S.list, Latest(S, u))
      /\ ClockOf(S, u) = S.seg[Latest(S, u)].vc /\ Home(S, u) = u
  BY LatestIs DEF ClockOf, Home
<1>2. ClockOf(S, u)[u] >= 1 /\ ClockOf(S, u)[1] >= 1 /\ \A i \in SegIds : S.seg[i].vc[u] <= ClockOf(S, u)[u]
  BY <1>1 DEF InOrder
<1>3. \A i \in SegIds : S.seg[i].vc[u] \in Nat
  BY ClockFields
<1> QED
  BY <1>1, <1>2, <1>3 DEF Clock

LEMMA SteppedFresh ==
  ASSUME NEW S \in DState, Listed(S.list), InOrder(S), NEW T, NEW x, NEW t \in Threads, S.list[t] # <<>>, Stepped(S, T, x, t)
  PROVE  Fresh(T, t) /\ \A u \in Threads : u # t /\ S.list[u] # <<>> /\ Fresh(S, u) => Fresh(T, u)
PROOF
<1>1. /\ ClockOf(S, t) \in Clock /\ ClockOf(T, t) = vc_increment(ClockOf(S, t), t) /\ ClockOf(T, t)[t] = ClockOf(S, t)[t] + 1
      /\ ClockOf(S, t)[t] \in Nat
  BY AliveCount, vc_incrementType DEF Stepped
<1>2. ASSUME NEW i \in SegIds, i # Latest(T, t), NEW u \in Threads
      PROVE  T.seg[i].vc[u] = S.seg[i].vc[u] \/ T.seg[i].vc[u] = 0
  BY <1>2, NoSegmentType DEF Stepped, Clocked
<1>3. Fresh(T, t)
  <2>1. \A i \in SegIds : S.seg[i].vc[t] <= ClockOf(S, t)[t] /\ S.seg[i].vc[t] \in Nat
    BY AliveCount
  <2>2. ASSUME NEW i \in SegIds, i # Latest(T, t) PROVE T.seg[i].vc[t] < ClockOf(T, t)[t]
    BY <1>1, <1>2, <2>1, <2>2
  <2> QED
    BY <2>2 DEF Fresh
<1>4. ASSUME NEW u \in Threads, u # t, S.list[u] # <<>>, Fresh(S, u) PROVE Fresh(T, u)
  <2>1. Latest(T, u) = Latest(S, u) /\ ClockOf(T, u) = ClockOf(S, u)
    BY <1>4 DEF Stepped
  <2>2. ClockOf(S, u)[u] \in Nat /\ ClockOf(S, u)[u] >= 1 /\ Latest(S, u)[1] = u
    BY <1>4, AliveCount
  <2>3. SUFFICES ASSUME NEW i \in SegIds, i # Latest(S, u) PROVE T.seg[i].vc[u] < ClockOf(S, u)[u]
    BY <2>1 DEF Fresh
  <2>4. CASE i # Latest(T, t)
    <3>1. S.seg[i].vc[u] < ClockOf(S, u)[u]
      BY <1>4, <2>3 DEF Fresh
    <3> QED
      BY <1>2, <2>2, <2>4, <3>1
  <2>5. CASE i = Latest(T, t)
    <3>1. Latest(S, t) # Latest(S, u) /\ Latest(S, t) \in SegIds /\ ClockOf(S, t) = S.seg[Latest(S, t)].vc
      BY <1>4, <2>2, AliveCount
    <3>2. ClockOf(S, t)[u] < ClockOf(S, u)[u]
      BY <1>4, <3>1 DEF Fresh
    <3>3. T.seg[i].vc = ClockOf(T, t)
      BY <2>5 DEF ClockOf
    <3>4. ClockOf(T, t)[u] = ClockOf(S, t)[u]
      BY <1>1, <1>4, vc_incrementType
    <3> QED
      BY <3>2, <3>3, <3>4
  <2> QED
    BY <2>4, <2>5
<1> QED
  BY <1>3, <1>4

LEMMA RaisedFresh ==
  ASSUME NEW S \in DState, Listed(S.list), InOrder(S), NEW T, NEW x, NEW t \in Threads, S.list[t] # <<>>, Raised(S, T, x, t)
  PROVE  /\ Fresh(S, t) => Fresh(T, t)
         /\ \A u \in Threads : u # t /\ S.list[u] # <<>> /\ Fresh(S, u) /\ ClockOf(T, t)[u] < ClockOf(S, u)[u] => Fresh(T, u)
PROOF
<1>1. ASSUME NEW i \in SegIds, i # Latest(S, t), NEW u \in Threads
      PROVE  T.seg[i].vc[u] = S.seg[i].vc[u] \/ T.seg[i].vc[u] = 0
  BY <1>1, NoSegmentType DEF Raised, Clocked
<1>2. Latest(T, t) = Latest(S, t) /\ ClockOf(T, t)[t] = ClockOf(S, t)[t]
  BY DEF Raised
<1>3. ASSUME Fresh(S, t) PROVE Fresh(T, t)
  <2>1. ClockOf(S, t)[t] \in Nat /\ ClockOf(S, t)[t] >= 1
    BY AliveCount
  <2>2. ASSUME NEW i \in SegIds, i # Latest(S, t) PROVE T.seg[i].vc[t] < ClockOf(T, t)[t]
    BY <1>1, <1>2, <1>3, <2>1, <2>2 DEF Fresh
  <2> QED
    BY <1>2, <2>2 DEF Fresh
<1>4. ASSUME NEW u \in Threads, u # t, S.list[u] # <<>>, Fresh(S, u), ClockOf(T, t)[u] < ClockOf(S, u)[u] PROVE Fresh(T, u)
  <2>1. Latest(T, u) = Latest(S, u) /\ ClockOf(T, u) = ClockOf(S, u)
    BY <1>4 DEF Raised
  <2>2. ClockOf(S, u)[u] \in Nat /\ ClockOf(S, u)[u] >= 1
    BY <1>4, AliveCount
  <2>3. SUFFICES ASSUME NEW i \in SegIds, i # Latest(S, u) PROVE T.seg[i].vc[u] < ClockOf(S, u)[u]
    BY <2>1 DEF Fresh
  <2>4. CASE i # Latest(S, t)
    <3>1. S.seg[i].vc[u] < ClockOf(S, u)[u]
      BY <1>4, <2>3 DEF Fresh
    <3> QED
      BY <1>1, <2>2, <2>4, <3>1
  <2>5. CASE i = Latest(S, t)
    BY <1>2, <1>4, <2>5 DEF ClockOf
  <2> QED
    BY <2>4, <2>5
<1> QED
  BY <1>3, <1>4

(* The segments N of a round that threads L have still to leave: who has   *)
(* heard of such a thread's latest knows them all; and so does the main    *)
(* thread's, once it has left.                                             *)
Gap(S, N, L) ==
  \A u \in L : \A i \in SegIds : i # Latest(S, u) /\ S.seg[i].vc[u] >= ClockOf(S, u)[u] =>
    \A v \in Threads : N[v] # Null => vc_lte(S.seg[N[v]].vc, S.seg[i].vc)

Lead(S, N, L) ==
  L # {} /\ 1 \notin L =>
    /\ N[1] # Null
    /\ \A v \in Threads : N[v] # Null => vc_lte(S.seg[N[v]].vc, S.seg[N[1]].vc)

(* Others refer to the segments of N. *)
Referred(N, x) == \A v \in Threads : N[v] # Null => N[v] \in SegIds /\ x[N[v]] # 0

(* A step that is not seen by N: of t, which gets the segment or the clock *)
(* new.                                                                    *)
LEMMA ClockedGap ==
  ASSUME NEW S \in DState, Listed(S.list), InOrder(S), NEW T \in DState, NEW x, NEW N, NEW L \in SUBSET Threads, NEW j,
         Clocked(S, T, x, j), Referred(N, x), \A v \in Threads : N[v] # Null => N[v] # j,
         \A u \in L : S.list[u] # <<>> /\ Latest(T, u) = Latest(S, u) /\ ClockOf(T, u) = ClockOf(S, u),
         \A u \in L : j \in SegIds /\ T.seg[j].vc[u] >= ClockOf(S, u)[u] =>
            \A v \in Threads : N[v] # Null => vc_lte(S.seg[N[v]].vc, T.seg[j].vc),
         Gap(S, N, L), Lead(S, N, L)
  PROVE  Gap(T, N, L) /\ Lead(T, N, L)
PROOF
<1>1. \A v \in Threads : N[v] # Null => T.seg[N[v]].vc = S.seg[N[v]].vc
  BY DEF Clocked, Referred
<1>2. Lead(T, N, L)
  BY <1>1, ThreadsAre DEF Lead
<1>3. Gap(T, N, L)
  <2>1. SUFFICES ASSUME NEW u \in L, NEW i \in SegIds, i # Latest(S, u), T.seg[i].vc[u] >= ClockOf(S, u)[u],
                        NEW v \in Threads, N[v] # Null
                 PROVE  vc_lte(S.seg[N[v]].vc, T.seg[i].vc)
    BY <1>1 DEF Gap
  <2>2. CASE i = j
    BY <2>1, <2>2
  <2>3. CASE i # j
    <3>1. ClockOf(S, u)[u] \in Nat /\ ClockOf(S, u)[u] >= 1
      BY AliveCount
    <3>2. NoSegment.vc[u] = 0
      BY NoSegmentType
    <3>3. T.seg[i].vc = S.seg[i].vc
      BY <2>1, <2>3, <3>1, <3>2 DEF Clocked
    <3> QED
      BY <2>1, <3>3 DEF Gap
  <2> QED
    BY <2>2, <2>3
<1> QED
  BY <1>2, <1>3

LEMMA SteppedGap ==
  ASSUME NEW S \in DState, Listed(S.list), InOrder(S), NEW T, NEW x, NEW t \in Threads, S.list[t] # <<>>, Stepped(S, T, x, t),
         NEW N, Referred(N, x), NEW L \in SUBSET Threads, t \notin L, \A u \in L : S.list[u] # <<>>, Gap(S, N, L), Lead(S, N, L)
  PROVE  Gap(T, N, L) /\ Lead(T, N, L)
PROOF
<1> DEFINE j == Latest(T, t)
<1>1. T \in DState /\ T.list[t] # <<>> /\ x[j] = 0 /\ Clocked(S, T, x, j) /\ Listed(T.list)
      /\ ClockOf(T, t) = vc_increment(ClockOf(S, t), t)
  BY DEF Stepped, SteadyBut, Owned
<1>2. j \in SegIds /\ T.seg[j].vc = ClockOf(T, t)
  BY <1>1, LatestIs DEF ClockOf
<1>3. \A u \in L : S.list[u] # <<>> /\ Latest(T, u) = Latest(S, u) /\ ClockOf(T, u) = ClockOf(S, u)
  BY DEF Stepped
<1> HIDE DEF j
<1>4. \A v \in Threads : N[v] # j
  BY <1>1, <1>2, ThreadsAre DEF Referred
<1>5. ASSUME NEW u \in L, T.seg[j].vc[u] >= ClockOf(S, u)[u], NEW v \in Threads, N[v] # Null
      PROVE  vc_lte(S.seg[N[v]].vc, T.seg[j].vc)
  <2>1. /\ ClockOf(S, t) \in Clock /\ Latest(S, t) \in SegIds /\ Latest(S, t)[1] = t
        /\ ClockOf(S, t) = S.seg[Latest(S, t)].vc /\ Latest(S, u)[1] = u
    BY AliveCount
  <2>0. u \in Threads /\ u # t
    OBVIOUS
  <2>2. T.seg[j].vc[u] = ClockOf(S, t)[u]
    <3>1. vc_increment(ClockOf(S, t), t)[u] = ClockOf(S, t)[u]
      BY <2>0, <2>1, vc_incrementType
    <3> QED
      BY <1>1, <1>2, <3>1
  <2>3. vc_lte(S.seg[N[v]].vc, ClockOf(S, t))
    BY <1>5, <2>1, <2>2 DEF Gap
  <2>4. vc_lte(ClockOf(S, t), T.seg[j].vc) /\ T.seg[j].vc \in Clock /\ S.seg[N[v]].vc \in Clock
    BY <1>1, <1>2, <1>5, <2>1, vc_incrementAbove, ClockFields DEF Referred
  <2> QED
    BY <2>1, <2>3, <2>4, vc_lteTrans
<1> QED
  BY <1>1, <1>2, <1>3, <1>4, <1>5, ClockedGap

(* A free mutex names a segment that its last owner has not forgotten, or  *)
(* the main thread, which has joined it.                                   *)
Knows(S, mx) ==
  \A m \in Mutexes : mx[m].recursion_count = 0 /\ mx[m].owner # None =>
    vc_lte(S.seg[mx[m].last_locked_segment].vc, ClockOf(S, Home(S, mx[m].owner)))

(* References from outside to latest segments: of barrier nodes, when      *)
(* their threads C are arriving or L leaving; of mutexes, none.  The other *)
(* conjuncts are about nodes and mutexes that have nothing to refer to.    *)
Marks(S, mx, b, C, L, X) ==
  /\ \A t \in X : S.list[t] # <<>> =>
       /\ \A r \in Rounds : b.node[t].sg[r] = Latest(S, t) <=>
            \/ t \in C /\ r = b.pre_iteration
            \/ t \in L /\ r = 1 - b.pre_iteration
       /\ \A m \in Mutexes : mx[m].last_locked_segment # Latest(S, t)
  /\ \A t \in Threads : b.node[t].present => S.list[t] # <<>>
  /\ \A m \in Mutexes : mx[m].recursion_count = 0 /\ mx[m].owner = None => mx[m].last_locked_segment = Null

Spread(S, N, L, X) ==
  /\ \A t \in X : t \notin L /\ S.list[t] # <<>> => Fresh(S, t)
  /\ Gap(S, N, L) /\ Lead(S, N, L)

RoundSegs(b) == [v \in Threads |-> b.node[v].sg[1 - b.pre_iteration]]

Scene(S, mx, b, C, L) ==
  /\ Informed(S) /\ Marks(S, mx, b, C, L, Threads) /\ Knows(S, mx) /\ Spread(S, RoundSegs(b), L, Threads)

(* Mutexes and the barrier, with their types and references. *)
Refs2(mx, b, x) ==
  /\ mx \in [Mutexes -> MutexRec] /\ b \in BarrierRec /\ x = Ext(mx, b)
  /\ \A m \in Mutexes : mx[m].recursion_count = 0 /\ mx[m].owner # None => mx[m].last_locked_segment # Null
  /\ \A v \in Threads, r \in Rounds : b.node[v].sg[r] # Null => b.node[v].sg[r][1] = v

LEMMA Refs2Facts ==
  ASSUME NEW mx, NEW b, NEW x, Refs2(mx, b, x)
  PROVE  /\ x \in [SegIds -> Nat] /\ b.pre_iteration \in Rounds /\ 1 - b.pre_iteration \in Rounds
         /\ \A m \in Mutexes : /\ mx[m].owner \in Threads \cup {None} /\ mx[m].recursion_count \in Nat
                               /\ mx[m].last_locked_segment # Null =>
                                    mx[m].last_locked_segment \in SegIds /\ x[mx[m].last_locked_segment] # 0
         /\ \A v \in Threads, r \in Rounds : b.node[v].sg[r] # Null =>
                                    b.node[v].sg[r] \in SegIds /\ x[b.node[v].sg[r]] # 0
         /\ Referred(RoundSegs(b), x)
PROOF
<1>1. x \in [SegIds -> Nat] /\ b.pre_iteration \in Rounds /\ 1 - b.pre_iteration \in Rounds
  <2>1. b.pre_iteration \in Rounds
    BY DEF Refs2, BarrierRec
  <2> QED
    BY <2>1, ExtNat DEF Refs2, Rounds
<1>2. \A m \in Mutexes : /\ mx[m].owner \in Threads \cup {None} /\ mx[m].recursion_count \in Nat
                         /\ mx[m].last_locked_segment \in SegIds \cup {Null}
  BY DEF Refs2, MutexRec
<1>3. \A v \in Threads, r \in Rounds : b.node[v].sg[r] \in SegIds \cup {Null}
  BY DEF Refs2, BarrierRec, NodeRec
<1>4. /\ \A m \in Mutexes : mx[m].last_locked_segment \in SegIds => x[mx[m].last_locked_segment] # 0
      /\ \A u \in Threads, r \in Rounds : b.node[u].sg[r] \in SegIds => x[b.node[u].sg[r]] # 0
  BY ExtNat DEF Refs2
<1>5. Referred(RoundSegs(b), x)
  BY <1>1, <1>3, <1>4 DEF Referred, RoundSegs
<1> QED
  BY <1>1, <1>2, <1>3, <1>4, <1>5

(* Knowledge of owners, when clocks grow and those of mutexes do not. *)
LEMMA GrowsKnows ==
  ASSUME NEW S \in DState, NEW T \in DState, Listed(S.list), InOrder(S), Grows(S, T),
         NEW mx, NEW b, NEW x, Refs2(mx, b, x), Knows(S, mx),
         \A m \in Mutexes : mx[m].last_locked_segment # Null =>
            T.seg[mx[m].last_locked_segment].vc = S.seg[mx[m].last_locked_segment].vc
  PROVE  Knows(T, mx)
PROOF
<1>1. SUFFICES ASSUME NEW m \in Mutexes, mx[m].recursion_count = 0, mx[m].owner # None
               PROVE  vc_lte(T.seg[mx[m].last_locked_segment].vc, ClockOf(T, Home(T, mx[m].owner)))
  BY DEF Knows
<1> DEFINE k == mx[m].last_locked_segment
           h == Home(S, mx[m].owner)
<1>2. k # Null /\ mx[m].owner \in Threads /\ k \in SegIds
  BY <1>1, Refs2Facts DEF Refs2
<1>3. h \in Threads /\ S.list[h] # <<>> /\ ClockOf(S, h) \in Clock
  BY <1>2, HomeClock
<1>4. Home(T, mx[m].owner) = h
  BY <1>2 DEF Grows, Home
<1>5. vc_lte(ClockOf(S, h), ClockOf(T, h)) /\ T.list[h] # <<>> /\ ClockOf(T, h) \in Clock
  BY <1>3, LatestIs DEF Grows
<1>6. vc_lte(S.seg[k].vc, ClockOf(S, h)) /\ S.seg[k].vc \in Clock
  BY <1>1, <1>2, ClockFields DEF Knows
<1> HIDE DEF k, h
<1>7. vc_lte(S.seg[k].vc, ClockOf(T, h))
  BY <1>3, <1>5, <1>6, vc_lteTrans
<1> QED
  BY <1>2, <1>4, <1>7 DEF k

LEMMA SteppedScene ==
  ASSUME NEW S \in DState, InOrder(S), NEW mx, NEW b, NEW x, Refs2(mx, b, x), Owned(S.seg, S.list, x), NEW T,
         NEW t \in Threads, S.list[t] # <<>>, Stepped(S, T, x, t), NEW C, NEW L \in SUBSET Threads, t \notin C, t \notin L,
         \A u \in L : S.list[u] # <<>>, Marks(S, mx, b, C, L, Threads \ {t}), Knows(S, mx), NEW Y \in SUBSET Threads,
         Spread(S, RoundSegs(b), L, Y \ {t})
  PROVE  Informed(T) /\ Marks(T, mx, b, C, L, Threads) /\ Knows(T, mx) /\ Spread(T, RoundSegs(b), L, Y)
PROOF
<1>1. Listed(S.list) /\ T \in DState /\ Informed(T) /\ \A u \in Threads : T.list[u] = <<>> <=> S.list[u] = <<>>
  BY DEF Owned, Stepped, SteadyBut
<1>2. Latest(T, t) \in SegIds /\ x[Latest(T, t)] = 0
  BY <1>1, LatestIs DEF Stepped
<1>3. \A u \in Threads : u # t /\ S.list[u] # <<>> => Latest(T, u) = Latest(S, u) /\ ClockOf(T, u) = ClockOf(S, u)
  BY DEF Stepped
<1>4. /\ \A m \in Mutexes : mx[m].last_locked_segment # Latest(T, t)
      /\ \A r \in Rounds : b.node[t].sg[r] # Latest(T, t)
  BY <1>2, Refs2Facts, ThreadsAre
<1>5. Marks(T, mx, b, C, L, Threads)
  BY <1>1, <1>3, <1>4 DEF Marks
<1>6. Knows(T, mx)
  <2>1. Grows(S, T)
    BY SteppedGrows
  <2>2. \A m \in Mutexes : mx[m].last_locked_segment # Null =>
            T.seg[mx[m].last_locked_segment].vc = S.seg[mx[m].last_locked_segment].vc
    BY <1>4, Refs2Facts DEF Stepped, Clocked
  <2> QED
    BY <1>1, <2>1, <2>2, GrowsKnows
<1>7. Gap(T, RoundSegs(b), L) /\ Lead(T, RoundSegs(b), L)
  <2>1. Referred(RoundSegs(b), x)
    BY Refs2Facts
  <2> QED
    BY <1>1, <2>1, SteppedGap DEF Spread
<1>8. \A u \in Y : u \notin L /\ T.list[u] # <<>> => Fresh(T, u)
  <2>1. Fresh(T, t) /\ \A u \in Threads : u # t /\ S.list[u] # <<>> /\ Fresh(S, u) => Fresh(T, u)
    BY <1>1, SteppedFresh
  <2> QED
    BY <1>1, <2>1 DEF Spread
<1> QED
  BY <1>1, <1>5, <1>6, <1>7, <1>8 DEF Spread

(* Any segment's clock may be combined into that of a thread t whose own   *)
(* latest segment nobody has heard of.                                     *)
LEMMA ForeignClock ==
  ASSUME NEW S \in DState, Listed(S.list), InOrder(S), Informed(S), NEW t \in Threads, S.list[t] # <<>>, Fresh(S, t), NEW k \in SegIds
  PROVE  Bounded(S, S.seg[k].vc) /\ Behind(S, t, S.seg[k].vc) /\ InformedClock(S, S.seg[k].vc)
PROOF
<1>1. Bounded(S, S.seg[k].vc)
  BY SegBounded
<1>2. InformedClock(S, S.seg[k].vc)
  BY DEF InformedClock, Informed
<1>3. Behind(S, t, S.seg[k].vc)
  <2>1. ClockOf(S, t)[t] \in Nat /\ \A i \in SegIds : S.seg[i].vc[t] \in Nat
    BY AliveCount
  <2> QED
    BY <2>1 DEF Behind, Fresh
<1> QED
  BY <1>1, <1>2, <1>3

-----------------------------------------------------------------------------
(* Steps that leave lists and clocks alone                                 *)

(* Segments that nobody refers to any more may be freed. *)
Still(S, T, y) ==
  /\ T \in DState /\ T.list = S.list /\ Owned(T.seg, T.list, y)
  /\ \A i \in SegIds : T.seg[i].vc = S.seg[i].vc \/ (T.seg[i] = NoSegment /\ ~ InList(S.list, i))

(* The clocks of segments that something refers to stay. *)
Unmoved(S, T, x) == \A i \in SegIds : x[i] # 0 => T.seg[i].vc = S.seg[i].vc

LEMMA StillClocks ==
  ASSUME NEW S \in DState, InOrder(S), NEW T, NEW y, Still(S, T, y)
  PROVE  /\ InOrder(T) /\ Listed(S.list) /\ Slim(S, T) /\ Clocked(S, T, y, Null) /\ Grows(S, T)
         /\ \A u \in Threads : S.list[u] # <<>> => Latest(T, u) = Latest(S, u) /\ ClockOf(T, u) = ClockOf(S, u)
         /\ Unmoved(S, T, y)
         /\ \A i \in SegIds : InList(S.list, i) => T.seg[i].vc = S.seg[i].vc
         /\ \A u \in Threads : S.list[u] # <<>> /\ Fresh(S, u) => Fresh(T, u)
PROOF
<1>1. T \in DState /\ T.list = S.list /\ Owned(T.seg, T.list, y) /\ Listed(S.list)
  BY DEF Still, Owned
<1>2. Slim(S, T)
  BY <1>1, SlimSame DEF Still
<1>3. InOrder(T)
  BY <1>1, <1>2, SlimInOrder
<1>4. Clocked(S, T, y, Null)
  BY <1>1, <1>2, SlimClocked
<1>5. \A u \in Threads : S.list[u] # <<>> => Latest(T, u) = Latest(S, u) /\ ClockOf(T, u) = ClockOf(S, u)
  <2>1. SameClocks(S, T)
    BY <1>1, <1>2, SlimClocks
  <2> QED
    BY <2>1 DEF SameClocks
<1>6. \A i \in SegIds : i # Null
  BY ThreadsAre DEF Null
<1>7. Unmoved(S, T, y)
  BY <1>4, <1>6 DEF Clocked, Unmoved
<1>8. Grows(S, T)
  BY <1>1, <1>5, LatestIs, vc_lteRefl DEF Grows
<1>9. ASSUME NEW u \in Threads, S.list[u] # <<>>, Fresh(S, u), NEW i \in SegIds, i # Latest(T, u)
      PROVE  T.seg[i].vc[u] < ClockOf(T, u)[u]
  <2>1. ClockOf(S, u)[u] \in Nat /\ ClockOf(S, u)[u] >= 1 /\ Latest(T, u) = Latest(S, u) /\ ClockOf(T, u) = ClockOf(S, u)
    BY <1>1, <1>5, <1>9, AliveCount
  <2>2. S.seg[i].vc[u] < ClockOf(S, u)[u]
    BY <1>9, <2>1 DEF Fresh
  <2>3. T.seg[i].vc = S.seg[i].vc \/ T.seg[i].vc[u] = 0
    BY NoSegmentType DEF Still
  <2> QED
    BY <2>1, <2>2, <2>3
<1>10. \A i \in SegIds : InList(S.list, i) => T.seg[i].vc = S.seg[i].vc
  BY DEF Still
<1> QED
  BY <1>1, <1>2, <1>3, <1>4, <1>5, <1>7, <1>8, <1>9, <1>10 DEF Fresh

LEMMA StillScene ==
  ASSUME NEW S \in DState, InOrder(S), Informed(S), NEW T, NEW y, Still(S, T, y), NEW mx, NEW b, Refs2(mx, b, y),
         NEW C, NEW L \in SUBSET Threads, NEW X \in SUBSET Threads, \A u \in L : S.list[u] # <<>>,
         Marks(S, mx, b, C, L, X), Knows(S, mx), Spread(S, RoundSegs(b), L, X)
  PROVE  Informed(T) /\ Marks(T, mx, b, C, L, X) /\ Knows(T, mx) /\ Spread(T, RoundSegs(b), L, X)
PROOF
<1>1. /\ InOrder(T) /\ Listed(S.list) /\ Slim(S, T) /\ Clocked(S, T, y, Null) /\ Grows(S, T)
      /\ Unmoved(S, T, y)
  BY StillClocks
<1>2. \A u \in Threads : S.list[u] # <<>> => Latest(T, u) = Latest(S, u) /\ ClockOf(T, u) = ClockOf(S, u)
  BY StillClocks
<1>3. \A u \in Threads : S.list[u] # <<>> /\ Fresh(S, u) => Fresh(T, u)
  BY StillClocks
<1>4. T \in DState /\ T.list = S.list
  BY DEF Still
<1>5. Informed(T)
  BY <1>1, SlimInformed
<1>6. Marks(T, mx, b, C, L, X)
  BY <1>2, <1>4 DEF Marks
<1>7. Knows(T, mx)
  <2>1. \A m \in Mutexes : mx[m].last_locked_segment # Null =>
            T.seg[mx[m].last_locked_segment].vc = S.seg[mx[m].last_locked_segment].vc
    BY <1>1, Refs2Facts DEF Unmoved
  <2> QED
    BY <1>1, <1>4, <2>1, GrowsKnows
<1>8. Gap(T, RoundSegs(b), L) /\ Lead(T, RoundSegs(b), L)
  <2>1. Referred(RoundSegs(b), y)
    BY Refs2Facts
  <2>2. \A i \in SegIds : i # Null
    BY ThreadsAre DEF Null
  <2>3. Null \notin SegIds
    BY <2>2
  <2>4. \A u \in L : S.list[u] # <<>> /\ Latest(T, u) = Latest(S, u) /\ ClockOf(T, u) = ClockOf(S, u)
    BY <1>2
  <2>5. Gap(S, RoundSegs(b), L) /\ Lead(S, RoundSegs(b), L)
    BY DEF Spread
  <2> QED
    BY <1>1, <1>4, <2>1, <2>3, <2>4, <2>5, ClockedGap
<1> QED
  BY <1>3, <1>4, <1>5, <1>6, <1>7, <1>8 DEF Spread

(* The threads arriving at the barrier, and those that have to leave it. *)
Comers(w, r)  == {t \in Threads : w[t] # None /\ w[t] > r}
Leavers(w, r) == {t \in Threads : w[t] # None /\ w[t] <= r}

(* Q is what the segments N of a round have heard of. *)
HeardOf(S, E, at, N, Q) ==
  \A e : e \in Q <=> e \in E /\ \E v \in Threads : N[v] # Null /\ Known(at, e, S.seg[N[v]].vc)

(* What threads, mutexes and the round that is being left have heard of is *)
(* what happened before.                                                   *)
Told(S, E, at, P, mx, U, b, L, Q) ==
  /\ Dates(E, at) /\ Heard(S, E, at, P)
  /\ \A m \in Mutexes : HeardAt(S, E, at, mx[m].last_locked_segment, U[m])
  /\ L # {} => HeardOf(S, E, at, RoundSegs(b), Q)

(* A thread's accesses since the last synchronization of any thread are of *)
(* its latest segment.                                                     *)
Stamped(S, E, at, w, n) ==
  \A e \in E : e.when <= n /\ (e.when = n => at[e] = ClockOf(S, e.thread)[e.thread] /\ w[e.thread] = None)

LEMMA SameTold ==
  ASSUME NEW S, NEW T, NEW E, NEW at, NEW P, NEW mx, NEW U, NEW b, NEW L, NEW Q, NEW x, Refs2(mx, b, x),
         Told(S, E, at, P, mx, U, b, L, Q), NEW P2, Heard(T, E, at, P2), Unmoved(S, T, x)
  PROVE  Told(T, E, at, P2, mx, U, b, L, Q)
PROOF
<1>1. \A m \in Mutexes : mx[m].last_locked_segment # Null =>
            T.seg[mx[m].last_locked_segment].vc = S.seg[mx[m].last_locked_segment].vc
  BY Refs2Facts DEF Unmoved
<1>2. \A v \in Threads : RoundSegs(b)[v] # Null => T.seg[RoundSegs(b)[v]].vc = S.seg[RoundSegs(b)[v]].vc
  BY Refs2Facts DEF Referred, Unmoved
<1>3. \A m \in Mutexes : HeardAt(T, E, at, mx[m].last_locked_segment, U[m])
  BY <1>1 DEF HeardAt, Told, Known
<1>4. L # {} => HeardOf(T, E, at, RoundSegs(b), Q)
  BY <1>2 DEF HeardOf, Told, Known
<1> QED
  BY <1>3, <1>4 DEF Told

LEMMA StillTold ==
  ASSUME NEW S \in DState, InOrder(S), NEW T, NEW y, Still(S, T, y), NEW E, NEW at, NEW P, NEW mx, NEW U, NEW b, NEW L, NEW Q,
         Refs2(mx, b, y), Told(S, E, at, P, mx, U, b, L, Q)
  PROVE  Told(T, E, at, P, mx, U, b, L, Q)
PROOF
<1>1. Unmoved(S, T, y)
  BY StillClocks
<1>2. \A u \in Threads : S.list[u] # <<>> => Latest(T, u) = Latest(S, u) /\ ClockOf(T, u) = ClockOf(S, u)
  BY StillClocks
<1>3. Heard(T, E, at, P)
  <2>1. T.list = S.list /\ Heard(S, E, at, P)
    BY DEF Still, Told
  <2>2. \A e \in E : e.thread \in Threads
    BY DatesNat DEF Told
  <2> QED
    BY <1>2, <2>1, <2>2 DEF Heard, Known
<1> QED
  BY <1>1, <1>3, SameTold

LEMMA SteppedTold ==
  ASSUME NEW S \in DState, NEW T, NEW x, NEW t \in Threads, S.list[t] # <<>>, Stepped(S, T, x, t),
         NEW E, NEW at, NEW P, NEW mx, NEW U, NEW b, NEW L, NEW Q,
         Refs2(mx, b, x), Told(S, E, at, P, mx, U, b, L, Q)
  PROVE  Told(T, E, at, P, mx, U, b, L, Q)
PROOF
<1>1. Unmoved(S, T, x)
  BY DEF Stepped, Clocked, Unmoved
<1>2. Heard(T, E, at, P)
  BY SteppedHeard DEF Told
<1> QED
  BY <1>1, <1>2, SameTold

(* t's latest segment, that nothing refers to, gets the clock of the       *)
(* segment k too, which is not the latest of another thread of Y.          *)
HandsOver(S, T, x, t, k, Y) ==
  /\ Raised(S, T, x, t) /\ k \in SegIds /\ ClockOf(T, t) = vc_combine(ClockOf(S, t), S.seg[k].vc)
  /\ \A u \in Y : u # t /\ S.list[u] # <<>> => k # Latest(S, u)

HandedOver(S, T, t, k) ==
  /\ T \in DState /\ \A u \in Threads : T.list[u] = <<>> <=> S.list[u] = <<>>
  /\ ClockOf(S, t) \in Clock /\ S.seg[k].vc \in Clock /\ ClockOf(T, t) \in Clock
  /\ Latest(T, t) = Latest(S, t) /\ T.seg[Latest(S, t)].vc = ClockOf(T, t)
  /\ \A v \in Threads : ClockOf(T, t)[v] = ClockOf(S, t)[v] \/ ClockOf(T, t)[v] = S.seg[k].vc[v]
  /\ \A v \in Threads, n \in Nat : n <= ClockOf(T, t)[v] <=> n <= ClockOf(S, t)[v] \/ n <= S.seg[k].vc[v]

LEMMA HandsOverFacts ==
  ASSUME NEW S \in DState, Listed(S.list), InOrder(S), NEW T, NEW x, NEW t \in Threads, S.list[t] # <<>>, NEW k,
         NEW Y, HandsOver(S, T, x, t, k, Y)
  PROVE  HandedOver(S, T, t, k)
PROOF
<1>1. T \in DState /\ (\A u \in Threads : T.list[u] = <<>> <=> S.list[u] = <<>>) /\ k \in SegIds
  BY DEF HandsOver, Raised, Steady
<1>2. ClockOf(S, t) \in Clock /\ S.seg[k].vc \in Clock /\ ClockOf(T, t) \in Clock
  BY <1>1, LatestIs, ClockFields
<1>3. Latest(T, t) = Latest(S, t) /\ T.seg[Latest(S, t)].vc = ClockOf(T, t)
  BY DEF HandsOver, Raised, ClockOf
<1>4. ClockOf(T, t) = vc_combine(ClockOf(S, t), S.seg[k].vc)
  BY DEF HandsOver
<1>5. ASSUME NEW v \in Threads
      PROVE  ClockOf(T, t)[v] = IF ClockOf(S, t)[v] < S.seg[k].vc[v] THEN S.seg[k].vc[v] ELSE ClockOf(S, t)[v]
  BY <1>4 DEF vc_combine
<1>6. \A v \in Threads : ClockOf(S, t)[v] \in Nat /\ S.seg[k].vc[v] \in Nat
  BY <1>2 DEF Clock
<1> QED
  BY <1>1, <1>2, <1>3, <1>5, <1>6 DEF HandedOver

LEMMA HandsOverScene ==
  ASSUME NEW S \in DState, InOrder(S), NEW mx, NEW b, NEW x, Refs2(mx, b, x), Owned(S.seg, S.list, x), NEW T, NEW k,
         NEW Y \in SUBSET Threads, NEW t \in Y, S.list[t] # <<>>, HandsOver(S, T, x, t, k, Y), NEW C, NEW L \in SUBSET Y, t \notin C,
         t \notin L, \A u \in L : S.list[u] # <<>>, Scene(S, mx, b, C, L)
  PROVE  /\ Informed(T) /\ Marks(T, mx, b, C, L, Threads) /\ Knows(T, mx) /\ Spread(T, RoundSegs(b), L, Y)
         /\ Unmoved(S, T, x)
PROOF
<1> DEFINE j == Latest(S, t)
<1>1. Listed(S.list) /\ Raised(S, T, x, t) /\ k \in SegIds
  BY DEF Owned, HandsOver
<1>2a. HandedOver(S, T, t, k)
  BY <1>1, HandsOverFacts
<1>2. T \in DState /\ \A u \in Threads : T.list[u] = <<>> <=> S.list[u] = <<>>
  BY <1>2a DEF HandedOver
<1>3. /\ ClockOf(S, t) \in Clock /\ S.seg[k].vc \in Clock /\ ClockOf(T, t) \in Clock
      /\ Latest(T, t) = j /\ T.seg[j].vc = ClockOf(T, t)
  BY <1>2a DEF HandedOver
<1>0. \A v \in Threads : ClockOf(T, t)[v] = ClockOf(S, t)[v] \/ ClockOf(T, t)[v] = S.seg[k].vc[v]
  BY <1>2a DEF HandedOver
<1>4. \A u \in Threads : S.list[u] # <<>> => Latest(T, u) = Latest(S, u) /\ (u # t => ClockOf(T, u) = ClockOf(S, u))
  BY <1>1 DEF Raised
<1>5. j \in SegIds /\ j[1] = t /\ S.seg[j].vc = ClockOf(S, t)
  BY <1>1, AliveCount
<1>6. /\ \A m \in Mutexes : mx[m].last_locked_segment # j
      /\ \A v \in Threads, r \in Rounds : b.node[v].sg[r] # j
  <2>1. /\ \A m \in Mutexes : mx[m].last_locked_segment # j
        /\ \A r \in Rounds : b.node[t].sg[r] # j
    BY DEF Scene, Marks
  <2>2. \A v \in Threads, r \in Rounds : b.node[v].sg[r] # Null => b.node[v].sg[r][1] = v
    BY DEF Refs2
  <2>3. j # Null
    BY <1>5, ThreadsAre DEF Null
  <2> QED
    BY <1>5, <2>1, <2>2, <2>3
<1>7. x[j] = 0
  <2>1. j \notin {mx[m].last_locked_segment : m \in Mutexes} /\ x = Ext(mx, b)
    BY <1>6 DEF Refs2
  <2>2. {m \in Mutexes : MutexRefs(mx)[m] = j} = {}
    BY <1>6 DEF MutexRefs
  <2>3. {n \in Threads \X Rounds : NodeRefs(b)[n] = j} = {}
    BY <1>6 DEF NodeRefs
  <2>4. Refs(MutexRefs(mx), j) = 0 /\ Refs(NodeRefs(b), j) = 0
    BY <2>2, <2>3, RefsFinite, FS_EmptySet DEF Refs
  <2> QED
    BY <1>5, <2>1, <2>4 DEF Ext
<1> HIDE DEF j
<1>8. Unmoved(S, T, x)
  BY <1>1, <1>7 DEF Raised, Clocked, j, Unmoved
<1>9. Informed(T)
  BY <1>1 DEF Raised
<1>10. Marks(T, mx, b, C, L, Threads)
  BY <1>2, <1>4 DEF Marks, Scene
<1>11. Knows(T, mx)
  <2>1. Grows(S, T)
    BY <1>1, RaisedGrows
  <2>2. \A m \in Mutexes : mx[m].last_locked_segment # Null =>
            T.seg[mx[m].last_locked_segment].vc = S.seg[mx[m].last_locked_segment].vc
    BY <1>8, Refs2Facts DEF Unmoved
  <2>3. Knows(S, mx)
    BY DEF Scene
  <2> QED
    BY <1>1, <1>2, <2>1, <2>2, <2>3, GrowsKnows
<1>12. ASSUME NEW u \in Y, u # t, u \notin L, S.list[u] # <<>> PROVE Fresh(T, u)
  <2>1. Fresh(S, u)
    BY <1>12 DEF Scene, Spread
  <2>2. Latest(S, u) # j /\ k # Latest(S, u)
    <3>1. Latest(S, u)[1] = u
      BY <1>1, <1>12, AliveCount
    <3> QED
      BY <1>5, <1>12, <3>1 DEF HandsOver
  <2>3. ClockOf(S, t)[u] < ClockOf(S, u)[u] /\ S.seg[k].vc[u] < ClockOf(S, u)[u]
    BY <1>1, <1>5, <2>1, <2>2 DEF Fresh
  <2>4. ClockOf(T, t)[u] < ClockOf(S, u)[u]
    BY <1>0, <2>3
  <2> QED
    BY <1>1, <1>12, <2>1, <2>4, RaisedFresh
<1>13. Fresh(T, t)
  <2>1. Fresh(S, t)
    BY DEF Scene, Spread
  <2> QED
    BY <1>1, <2>1, RaisedFresh
<1>14. Gap(T, RoundSegs(b), L) /\ Lead(T, RoundSegs(b), L)
  <2> DEFINE N == RoundSegs(b)
  <2>1. Referred(N, x) /\ Gap(S, N, L) /\ Lead(S, N, L) /\ Clocked(S, T, x, j)
    BY <1>1, Refs2Facts DEF Scene, Spread, Raised, j
  <2>2. \A v \in Threads : N[v] # j
    BY <1>6, Refs2Facts DEF RoundSegs
  <2> HIDE DEF N
  <2>3. ASSUME NEW u \in L, T.seg[j].vc[u] >= ClockOf(S, u)[u], NEW v \in Threads, N[v] # Null
        PROVE  vc_lte(S.seg[N[v]].vc, T.seg[j].vc)
    <3>0. u \in Threads /\ u # t /\ S.list[u] # <<>>
      OBVIOUS
    <3>1. Latest(S, u) # j /\ k # Latest(S, u)
      <4>1. Latest(S, u)[1] = u
        BY <1>1, <3>0, AliveCount
      <4> QED
        BY <1>5, <3>0, <4>1 DEF HandsOver
    <3>2. vc_lte(S.seg[N[v]].vc, S.seg[j].vc) \/ vc_lte(S.seg[N[v]].vc, S.seg[k].vc)
      BY <1>0, <1>1, <1>3, <1>5, <2>1, <2>3, <3>0, <3>1 DEF Gap
    <3>3. vc_lte(ClockOf(S, t), T.seg[j].vc) /\ vc_lte(S.seg[k].vc, T.seg[j].vc)
      BY <1>3, vc_combineAbove DEF HandsOver
    <3>4. S.seg[N[v]].vc \in Clock
      BY <2>1, <2>3, ClockFields DEF Referred
    <3> QED
      BY <1>3, <1>5, <3>2, <3>3, <3>4, vc_lteTrans
  <2>4. \A u \in L : S.list[u] # <<>> /\ Latest(T, u) = Latest(S, u) /\ ClockOf(T, u) = ClockOf(S, u)
    BY <1>4
  <2>5. Gap(T, N, L) /\ Lead(T, N, L)
    BY <1>1, <1>2, <2>1, <2>2, <2>3, <2>4, ClockedGap
  <2> QED
    BY <2>5 DEF N
<1>15. Spread(T, RoundSegs(b), L, Y)
  BY <1>2, <1>12, <1>13, <1>14 DEF Spread
<1> QED
  BY <1>8, <1>9, <1>10, <1>11, <1>15

LEMMA HandsOverTold ==
  ASSUME NEW S \in DState, Listed(S.list), InOrder(S), NEW mx, NEW b, NEW x, Refs2(mx, b, x), NEW T, NEW k,
         NEW t \in Threads, S.list[t] # <<>>, NEW Y, HandsOver(S, T, x, t, k, Y), NEW L,
         Unmoved(S, T, x), NEW E, NEW at, NEW P, NEW U, NEW Q, Told(S, E, at, P, mx, U, b, L, Q),
         NEW R, HeardAt(S, E, at, k, R), k # Null, NEW P2, Learnt(P, P2, t, R)
  PROVE  Told(T, E, at, P2, mx, U, b, L, Q)
PROOF
<1>1. Raised(S, T, x, t) /\ Dates(E, at) /\ Heard(S, E, at, P)
  BY DEF HandsOver, Told
<1>2. \A e : e \in R => e \in E
  BY DEF HeardAt
<1>3. ASSUME NEW e \in E PROVE Known(at, e, ClockOf(T, t)) <=> Known(at, e, ClockOf(S, t)) \/ e \in R
  <2>1. at[e] \in Nat /\ e.thread \in Threads
    BY <1>1, DatesNat
  <2>2. at[e] <= ClockOf(T, t)[e.thread] <=> at[e] <= ClockOf(S, t)[e.thread] \/ at[e] <= S.seg[k].vc[e.thread]
    BY <2>1, HandsOverFacts DEF HandedOver
  <2> QED
    BY <2>2 DEF HeardAt, Known
<1>4. News(S, T, E, at, t, R)
  BY <1>2, <1>3 DEF News
<1>5. Heard(T, E, at, P2)
  BY <1>1, <1>4, RaisedHeard
<1> QED
  BY <1>5, SameTold

-----------------------------------------------------------------------------
(* The record: what is known, and where the accesses are                   *)

Record(S, E, at, P, mx, U, b, L, Q) ==
  Told(S, E, at, P, mx, U, b, L, Q) /\ Evident(S, E, at) /\ Kept(S, E, at, s_segment_merging)

LEMMA SteppedRecord ==
  ASSUME NEW S \in DState, NEW T, NEW x, NEW t \in Threads, S.list[t] # <<>>, S.list[S.run] # <<>>, Stepped(S, T, x, t),
         NEW E, NEW at, NEW P, NEW mx, NEW U, NEW b, NEW L, NEW Q,
         Refs2(mx, b, x), Record(S, E, at, P, mx, U, b, L, Q)
  PROVE  Record(T, E, at, P, mx, U, b, L, Q) /\ Hits(T, E, at)
PROOF
<1>1. /\ Told(S, E, at, P, mx, U, b, L, Q) /\ Dates(E, at) /\ Evident(S, E, at) /\ Kept(S, E, at, s_segment_merging)
      /\ \A e \in E : S.list[e.thread] # <<>>
  BY DEF Record, Told, Heard
<1>2. Told(T, E, at, P, mx, U, b, L, Q)
  BY <1>1, SteppedTold
<1>3. Grows(S, T) /\ T \in DState
  BY SteppedGrows
<1>4. Contents(S, T) /\ Warned(S, T) /\ T.list[T.run] # <<>>
  <2>1. S.run \in Threads
    BY DStateFields
  <2> QED
    BY <2>1 DEF Stepped, SteadyBut
<1>5. Evident(T, E, at) /\ Kept(T, E, at, s_segment_merging)
  BY <1>1, <1>3, <1>4, GrowsKept
<1>6. Hits(T, E, at)
  BY <1>1, <1>3, <1>4, WarnedHits
<1> QED
  BY <1>2, <1>5, <1>6 DEF Record

LEMMA RaisedRecord ==
  ASSUME NEW S \in DState, NEW T, NEW x, NEW t \in Threads, S.list[t] # <<>>, Raised(S, T, x, t),
         NEW E, NEW at, NEW P, NEW mx, NEW U, NEW b, NEW L, NEW Q, Record(S, E, at, P, mx, U, b, L, Q),
         NEW P2, Told(T, E, at, P2, mx, U, b, L, Q)
  PROVE  Record(T, E, at, P2, mx, U, b, L, Q)
PROOF
<1>1. /\ Dates(E, at) /\ Evident(S, E, at) /\ Kept(S, E, at, s_segment_merging)
      /\ \A e \in E : S.list[e.thread] # <<>>
  BY DEF Record, Told, Heard
<1>3. Grows(S, T) /\ T \in DState
  BY RaisedGrows
<1>4. Contents(S, T)
  BY DEF Raised
<1>5. Evident(T, E, at) /\ Kept(T, E, at, s_segment_merging)
  BY <1>1, <1>3, <1>4, GrowsKept
<1> QED
  BY <1>5 DEF Record

(* Nor are accesses touched. *)
Quiet(S, T, y) ==
  Still(S, T, y) /\ \A i \in SegIds : InList(S.list, i) => T.seg[i].bm = S.seg[i].bm

LEMMA QuietRecord ==
  ASSUME NEW S \in DState, InOrder(S), NEW T, NEW y, Quiet(S, T, y), NEW E, NEW at, NEW P, NEW mx, NEW U, NEW b, NEW L, NEW Q,
         Refs2(mx, b, y), Record(S, E, at, P, mx, U, b, L, Q)
  PROVE  /\ Record(T, E, at, P, mx, U, b, L, Q)
         /\ T.run = S.run /\ T.cset = S.cset /\ S.list[S.run] # <<>> /\ Hits(S, E, at) => Hits(T, E, at)
PROOF
<1>1. /\ Told(S, E, at, P, mx, U, b, L, Q) /\ Dates(E, at) /\ Evident(S, E, at) /\ Kept(S, E, at, s_segment_merging)
      /\ \A e \in E : S.list[e.thread] # <<>>
  BY DEF Record, Told, Heard
<1>2. Still(S, T, y) /\ T \in DState /\ T.list = S.list
  BY DEF Quiet, Still
<1>3. Told(T, E, at, P, mx, U, b, L, Q)
  BY <1>1, <1>2, StillTold
<1>4. Grows(S, T) /\ \A i \in SegIds : InList(S.list, i) => T.seg[i].vc = S.seg[i].vc
  BY <1>2, StillClocks
<1>5. Contents(S, T)
  BY <1>2, <1>4, SameContents DEF Quiet, Own
<1>6. Evident(T, E, at) /\ Kept(T, E, at, s_segment_merging)
  BY <1>1, <1>2, <1>4, <1>5, GrowsKept
<1>7. T.run = S.run /\ T.cset = S.cset /\ S.list[S.run] # <<>> /\ Hits(S, E, at) => Hits(T, E, at)
  <2>1. \A u \in Threads : S.list[u] # <<>> => ClockOf(T, u) = ClockOf(S, u)
    BY <1>2, StillClocks
  <2>2. S.run \in Threads
    BY DStateFields
  <2> QED
    BY <2>1, <2>2 DEF Hits
<1> QED
  BY <1>3, <1>6, <1>7 DEF Record

-----------------------------------------------------------------------------
(* The invariant                                                           *)

(* A thread waits for the round that is being left or for the next; the    *)
(* counters of the barrier are the client's.                               *)
Gate(w, a, b) ==
  /\ \A t \in Threads : w[t] # None => t \in Participants /\ w[t] \in {a.round, a.round + 1}
  /\ a.n = Cardinality(Comers(w, a.round)) /\ a.n < BarrierCount /\ b.pre_waiters_left = BarrierCount - a.n
  /\ Leavers(w, a.round) = {} => b.post_iteration = b.pre_iteration /\ b.post_waiters_left = BarrierCount
  /\ Leavers(w, a.round) # {} => /\ b.post_iteration = 1 - b.pre_iteration
                                 /\ b.post_waiters_left = Cardinality(Leavers(w, a.round))
  /\ \A t \in Threads : b.node[t].present => t \in Participants
  /\ \A t \in Threads : ~ b.node[t].present => \A r \in Rounds : b.node[t].sg[r] = Null

(* The past of a round is that of the threads that have arrived at it. *)
Arrivals(P, C, R) == C # {} => \A e : e \in R <=> \E u \in C : e \in P[u]

Chronicle(S, E, at, P, mx, U, b, w, a, n) ==
  /\ Record(S, E, at, P, mx, U, b, Leavers(w, a.round), a.past[a.round - 1])
  /\ Stamped(S, E, at, w, n) /\ Hits(S, E, at)

Plot(S, E, P, mx, U, b, w, a, n) ==
  /\ Gate(w, a, b) /\ Scene(S, mx, b, Comers(w, a.round), Leavers(w, a.round))
  /\ Arrivals(P, Comers(w, a.round), a.past[a.round])
  /\ \E at : Chronicle(S, E, at, P, mx, U, b, w, a, n)

PlotNow == Plot(S0, made, past, mutex, unlocked, barrier, waiting, arrived, syncs)

LEMMA BecomePlot ==
  ASSUME NEW X \in DState, Become(X), UNCHANGED s_segment_merging,
         Plot(X, made', past', mutex', unlocked', barrier', waiting', arrived', syncs')
  PROVE  PlotNow'
PROOF
<1>1. X = [seg |-> X.seg, list |-> X.list, run |-> X.run, cset |-> X.cset]
  BY DEF DState
<1>2. S0' = X
  BY <1>1 DEF Become, S0
<1>3. Plot(S0', made', past', mutex', unlocked', barrier', waiting', arrived', syncs')
  BY <1>2
<1> QED
  BY <1>3 DEF PlotNow, Plot, Chronicle, Record

(* The state a thread finds when it is scheduled. *)
Entry(S, t) ==
  /\ S \in DState /\ S.seg = seg /\ S.list = list /\ S.run = t /\ list[t] # <<>>
  /\ Owned(S.seg, S.list, Ext(mutex, barrier)) /\ Listed(S.list) /\ InOrder(S) /\ Informed(S)
  /\ Refs2(mutex, barrier, Ext(mutex, barrier))
  /\ Plot(S, made, past, mutex, unlocked, barrier, waiting, arrived, syncs)
  /\ \A u \in Threads : waiting[u] # None => S.list[u] # <<>>

LEMMA Entered ==
  ASSUME TypeOK, Held, Ranked, PlotNow, NEW t \in Threads, status[t] # "none"
  PROVE  Entry(Scheduled(t), t)
PROOF
<1> DEFINE S == Scheduled(t)
           R == [S0 EXCEPT !.run = t]
           x == Ext(mutex, barrier)
           C == Comers(waiting, arrived.round)
           L == Leavers(waiting, arrived.round)
           Q == arrived.past[arrived.round - 1]
<1>1. /\ S \in DState /\ S.seg = seg /\ S.list = list /\ S.run = t
      /\ S.cset = IF t = running THEN s_conflict_set ELSE ConflictSet(R, t)
  BY ScheduledIs
<1>2. S0.seg = seg /\ S0.list = list /\ S0.run = running /\ S0.cset = s_conflict_set /\ R.seg = seg /\ R.list = list
      /\ S0 \in DState
  BY S0Fields DEF S0, TypeOK
<1>3. list[t] # <<>> /\ Owned(seg, list, x) /\ Listed(list)
  BY HasList DEF Held, Owned
<1>4. InOrder(S) /\ InOrder(S0)
  BY ScheduledRanked DEF Ranked
<1>5. Refs2(mutex, barrier, x)
  BY DEF Refs2, TypeOK, Held
<1>6. \A u \in Threads : waiting[u] # None => list[u] # <<>>
  BY DEF Held
<1> HIDE DEF S, R, x
<1>7. Quiet(S0, S, x) /\ Still(S0, S, x)
  BY <1>1, <1>2, <1>3 DEF Quiet, Still
<1>8. /\ Gate(waiting, arrived, barrier) /\ Scene(S0, mutex, barrier, C, L)
      /\ Arrivals(past, C, arrived.past[arrived.round])
  BY DEF PlotNow, Plot
<1>9. PICK at : Chronicle(S0, made, at, past, mutex, unlocked, barrier, waiting, arrived, syncs)
  BY DEF PlotNow, Plot
<1>10. Record(S0, made, at, past, mutex, unlocked, barrier, L, Q) /\ Stamped(S0, made, at, waiting, syncs) /\ Hits(S0, made, at)
  BY <1>9 DEF Chronicle
<1>11. L \in SUBSET Threads /\ \A u \in L : S0.list[u] # <<>>
  BY <1>2, <1>6 DEF Leavers
<1> HIDE DEF C, L, Q
<1>12. Record(S, made, at, past, mutex, unlocked, barrier, L, Q)
  BY <1>2, <1>4, <1>5, <1>7, <1>10, QuietRecord
<1>13. Scene(S, mutex, barrier, C, L)
  <2>1. Informed(S0) /\ Marks(S0, mutex, barrier, C, L, Threads) /\ Knows(S0, mutex) /\ Spread(S0, RoundSegs(barrier), L, Threads)
    BY <1>8 DEF Scene
  <2>2. Informed(S) /\ Marks(S, mutex, barrier, C, L, Threads) /\ Knows(S, mutex) /\ Spread(S, RoundSegs(barrier), L, Threads)
    BY <1>2, <1>4, <1>5, <1>7, <1>11, <2>1, StillScene
  <2> QED
    BY <2>2 DEF Scene
<1>14. \A u : ClockOf(S, u) = ClockOf(S0, u)
  BY <1>1, <1>2, SameInOrder
<1>15. Stamped(S, made, at, waiting, syncs)
  BY <1>10, <1>14 DEF Stamped
<1>16. Hits(S, made, at)
  <2>1. CASE t = running
    BY <1>1, <1>2, <1>10, <1>14, <2>1 DEF Hits
  <2>2. CASE t # running
    <3>1. S.cset = ConflictSet(S, t)
      BY <1>1, <1>2, <2>2, SameInOrder
    <3>2. Informed(S)
      BY <1>13 DEF Scene
    <3>3. ASSUME NEW bb \in S.cset
          PROVE  \E p \in SegIds : InList(S.list, p) /\ p[1] # S.run /\ bb \in S.seg[p].bm /\ ClockOf(S, S.run)[p[1]] < Own(S, p)
      BY <1>1, <1>3, <3>1, <3>2, ComputedWarned
    <3>4. Warned(S, S)
      BY <3>3 DEF Warned
    <3>5. Evident(S, made, at) /\ Dates(made, at)
      BY <1>12 DEF Record, Told
    <3> QED
      BY <1>1, <1>3, <3>4, <3>5, WarnedHits
  <2> QED
    BY <2>1, <2>2
<1>17. Chronicle(S, made, at, past, mutex, unlocked, barrier, waiting, arrived, syncs)
  BY <1>12, <1>15, <1>16 DEF Chronicle, L, Q
<1>18. Plot(S, made, past, mutex, unlocked, barrier, waiting, arrived, syncs)
  BY <1>8, <1>13, <1>17 DEF Plot, C, L
<1>19. Entry(S, t)
  BY <1>1, <1>3, <1>4, <1>5, <1>6, <1>13, <1>18 DEF Entry, x, Scene
<1> QED
  BY <1>19 DEF S

LEMMA FinishPlot ==
  ASSUME TypeOK, Held, Ranked, PlotNow, NEW t \in Threads, Finish(t)
  PROVE  PlotNow'
PROOF
<1>1. status[t] # "none" /\ Become(Scheduled(t)) /\ UNCHANGED <<s_segment_merging, mutex, barrier, waiting, syncs, made, past, unlocked, arrived>>
  BY DEF Finish, InClient, histVars
<1>2. Entry(Scheduled(t), t)
  BY <1>1, Entered
<1>3. Scheduled(t) \in DState /\ Plot(Scheduled(t), made', past', mutex', unlocked', barrier', waiting', arrived', syncs')
  BY <1>1, <1>2 DEF Entry
<1> QED
  BY <1>1, <1>3, BecomePlot

-----------------------------------------------------------------------------
(* Mutexes                                                                 *)

(* A new segment for t, at the end of an operation. *)
LEMMA StepEnds ==
  ASSUME NEW S \in DState, NEW mx, NEW b, NEW x, Refs2(mx, b, x), Owned(S.seg, S.list, x), InOrder(S), Informed(S),
         NEW t \in Threads, S.list[t] # <<>>, S.run = t, HasRoom(S.seg, t),
         NEW C, NEW L \in SUBSET Threads, t \notin C, t \notin L, \A u \in L : S.list[u] # <<>>,
         Marks(S, mx, b, C, L, Threads \ {t}), Knows(S, mx), Spread(S, RoundSegs(b), L, Threads \ {t}),
         NEW E, NEW at, NEW P, NEW U, NEW Q, Record(S, E, at, P, mx, U, b, L, Q)
  PROVE  LET T == thread_new_segment(S, t) IN
         T \in DState /\ Scene(T, mx, b, C, L) /\ Record(T, E, at, P, mx, U, b, L, Q) /\ Hits(T, E, at)
PROOF
<1> DEFINE T == thread_new_segment(S, t)
<1>1. Stepped(S, T, x, t)
  BY NewSegmentStepped
<1> HIDE DEF T
<1>2. T \in DState
  BY <1>1 DEF Stepped, SteadyBut
<1>3. Scene(T, mx, b, C, L)
  BY <1>1, SteppedScene DEF Scene
<1>4. Record(T, E, at, P, mx, U, b, L, Q) /\ Hits(T, E, at)
  BY <1>1, SteppedRecord
<1> QED
  BY <1>2, <1>3, <1>4 DEF T

LEMMA LaterStamped ==
  ASSUME NEW S, NEW T, NEW E, NEW at, NEW w, NEW w2, NEW n \in Nat, E \subseteq Event, Stamped(S, E, at, w, n)
  PROVE  Stamped(T, E, at, w2, n + 1)
PROOF
<1>1. \A e \in E : e.when \in Nat /\ e.when <= n
  BY DEF Event, Stamped
<1> QED
  BY <1>1 DEF Stamped

(* A mutex is locked, or unlocked but not for the last time. *)
Relocked(mx, mx2) ==
  \A n \in Mutexes : /\ mx2[n].last_locked_segment = mx[n].last_locked_segment
                     /\ mx2[n].recursion_count = 0 => mx2[n] = mx[n]

LEMMA RelockedSame ==
  ASSUME NEW mx, NEW mx2, Relocked(mx, mx2), NEW S, NEW b, NEW C, NEW L, NEW E, NEW at, NEW P, NEW U, NEW Q
  PROVE  /\ Scene(S, mx, b, C, L) => Scene(S, mx2, b, C, L)
         /\ Record(S, E, at, P, mx, U, b, L, Q) => Record(S, E, at, P, mx2, U, b, L, Q)
PROOF
<1>1. ASSUME Scene(S, mx, b, C, L) PROVE Scene(S, mx2, b, C, L)
  <2>1. Knows(S, mx2)
    BY <1>1 DEF Scene, Knows, Relocked
  <2>2. Marks(S, mx2, b, C, L, Threads)
    BY <1>1 DEF Scene, Marks, Relocked
  <2> QED
    BY <1>1, <2>1, <2>2 DEF Scene
<1>2. ASSUME Record(S, E, at, P, mx, U, b, L, Q) PROVE Record(S, E, at, P, mx2, U, b, L, Q)
  BY <1>2 DEF Record, Told, Relocked
<1> QED
  BY <1>1, <1>2

LEMMA NotWaiting ==
  ASSUME NEW t \in Threads, waiting[t] = None
  PROVE  t \notin Comers(waiting, arrived.round) /\ t \notin Leavers(waiting, arrived.round)
PROOF
BY DEF Comers, Leavers

(* What the entry of t gives, for a choice of dates. *)
LEMMA EntryIs ==
  ASSUME NEW S, NEW t \in Threads, Entry(S, t)
  PROVE  /\ S \in DState /\ S.seg = seg /\ S.list = list /\ S.run = t /\ S.list[t] # <<>>
         /\ Owned(S.seg, S.list, Ext(mutex, barrier)) /\ Listed(S.list) /\ InOrder(S) /\ Informed(S)
         /\ Refs2(mutex, barrier, Ext(mutex, barrier))
         /\ Leavers(waiting, arrived.round) \in SUBSET Threads
         /\ \A u \in Leavers(waiting, arrived.round) : S.list[u] # <<>>
         /\ Gate(waiting, arrived, barrier)
         /\ Scene(S, mutex, barrier, Comers(waiting, arrived.round), Leavers(waiting, arrived.round))
         /\ Arrivals(past, Comers(waiting, arrived.round), arrived.past[arrived.round])
         /\ \E at : /\ Record(S, made, at, past, mutex, unlocked, barrier, Leavers(waiting, arrived.round), arrived.past[arrived.round - 1])
                    /\ Stamped(S, made, at, waiting, syncs) /\ Hits(S, made, at)
PROOF
<1>1. Leavers(waiting, arrived.round) \in SUBSET Threads /\ \A u \in Leavers(waiting, arrived.round) : S.list[u] # <<>>
  BY DEF Entry, Leavers
<1>2. /\ S \in DState /\ S.seg = seg /\ S.list = list /\ S.run = t /\ S.list[t] # <<>>
      /\ Owned(S.seg, S.list, Ext(mutex, barrier)) /\ Listed(S.list) /\ InOrder(S) /\ Informed(S)
      /\ Refs2(mutex, barrier, Ext(mutex, barrier))
  BY DEF Entry
<1>3. Plot(S, made, past, mutex, unlocked, barrier, waiting, arrived, syncs)
  BY DEF Entry
<1> QED
  BY <1>1, <1>2, <1>3 DEF Plot, Chronicle

LEMMA MutexPostLockPlot ==
  ASSUME TypeOK, Held, Ranked, PlotNow, NEW t \in Threads, NEW m \in Mutexes, MutexPostLock(t, m)
  PROVE  PlotNow'
PROOF
<1> DEFINE S == Scheduled(t)
           p == mutex[m]
           k == p.last_locked_segment
           x == Ext(mutex, barrier)
           R == IF p.owner \in {t, None} THEN S ELSE thread_combine_vc2(S, t, seg[k].vc)
           X == thread_new_segment(R, t)
           C == Comers(waiting, arrived.round)
           L == Leavers(waiting, arrived.round)
           Q == arrived.past[arrived.round - 1]
<1>1. /\ status[t] # "none" /\ waiting[t] = None
      /\ UNCHANGED <<s_segment_merging, barrier, waiting, made, unlocked, arrived>>
      /\ mutex' = [mutex EXCEPT ![m].owner = t, ![m].recursion_count = @ + 1]
  BY DEF MutexPostLock, InClient
<1>2. t \notin C /\ t \notin L
  BY <1>1, NotWaiting
<1>3. Relocked(mutex, mutex')
  <2>1. mutex \in [Mutexes -> MutexRec] /\ mutex[m] \in MutexRec
    BY DEF TypeOK
  <2>2. /\ \A n \in Mutexes : n # m => mutex'[n] = mutex[n]
        /\ mutex'[m] = [mutex[m] EXCEPT !.owner = t, !.recursion_count = @ + 1]
    BY <1>1, <2>1
  <2>3. mutex'[m].last_locked_segment = mutex[m].last_locked_segment /\ mutex'[m].recursion_count = mutex[m].recursion_count + 1
        /\ mutex[m].recursion_count \in Nat
    BY <2>1, <2>2 DEF MutexRec
  <2>4. mutex'[m].recursion_count # 0
    BY <2>3
  <2> HIDE DEF p, k
  <2> QED
    BY <2>2, <2>3, <2>4 DEF Relocked
<1>4. Entry(S, t)
  BY <1>1, Entered
<1> HIDE DEF S
<1>5. /\ S \in DState /\ S.seg = seg /\ S.list = list /\ S.run = t /\ S.list[t] # <<>>
      /\ Owned(S.seg, S.list, x) /\ Listed(S.list) /\ InOrder(S) /\ Informed(S) /\ Refs2(mutex, barrier, x)
      /\ L \in SUBSET Threads /\ \A u \in L : S.list[u] # <<>>
  BY <1>4, EntryIs
<1>6. /\ Gate(waiting, arrived, barrier) /\ Scene(S, mutex, barrier, C, L)
      /\ Arrivals(past, C, arrived.past[arrived.round])
  BY <1>4, EntryIs
<1>7. PICK at : /\ Record(S, made, at, past, mutex, unlocked, barrier, L, Q)
                /\ Stamped(S, made, at, waiting, syncs) /\ Hits(S, made, at)
  BY <1>4, EntryIs
<1> HIDE DEF C, L, Q, x
<1>8. CASE p.recursion_count = 0 /\ HasRoom(seg, t) /\ Become(X) /\ Sync /\ past' = [past EXCEPT ![t] = @ \cup unlocked[m]]
  <2>1. Told(S, made, at, past, mutex, unlocked, barrier, L, Q) /\ HeardAt(S, made, at, k, unlocked[m]) /\ Dates(made, at)
        /\ Heard(S, made, at, past)
    BY <1>7 DEF Record, Told
  <2>2. Learnt(past, past', t, unlocked[m])
    BY <1>8 DEF Learnt, TypeOK
  <2>3. /\ R \in DState /\ Owned(R.seg, R.list, x) /\ InOrder(R) /\ Informed(R) /\ R.list[t] # <<>> /\ R.run = t /\ HasRoom(R.seg, t)
        /\ (\A u \in L : R.list[u] # <<>>) /\ Scene(R, mutex, barrier, C, L)
        /\ Record(R, made, at, past', mutex, unlocked, barrier, L, Q)
    <3>1. CASE p.owner \in {t, None}
      <4>1. unlocked[m] \subseteq past[t]
        <5>1. CASE p.owner = None
          <6>1. k = Null
            BY <1>6, <1>8, <5>1 DEF Scene, Marks
          <6> QED
            BY <2>1, <6>1 DEF HeardAt
        <5>2. CASE p.owner = t
          <6>1. t # None
            BY ThreadsAre DEF None
          <6>2. Home(S, t) = t
            BY <1>5 DEF Home
          <6>3. vc_lte(S.seg[k].vc, ClockOf(S, t))
            BY <1>6, <1>8, <5>2, <6>1, <6>2 DEF Scene, Knows
          <6>4. k \in SegIds /\ S.seg[k].vc \in Clock /\ ClockOf(S, t) \in Clock
            BY <1>5, <1>8, <5>2, <6>1, MutexFields, ClockFields, LatestIs DEF Held
          <6>5. ASSUME NEW e \in unlocked[m] PROVE e \in past[t]
            <7>1. e \in made /\ Known(at, e, S.seg[k].vc)
              BY <2>1 DEF HeardAt
            <7>2. at[e] \in Nat /\ e.thread \in Threads
              BY <2>1, <7>1, DatesNat
            <7>3. S.seg[k].vc[e.thread] <= ClockOf(S, t)[e.thread] /\ S.seg[k].vc[e.thread] \in Nat /\ ClockOf(S, t)[e.thread] \in Nat
              BY <6>3, <6>4, <7>2 DEF vc_lte, Clock
            <7>4. Known(at, e, ClockOf(S, t))
              BY <7>1, <7>2, <7>3 DEF Known
            <7> QED
              BY <1>5, <2>1, <7>1, <7>4 DEF Heard
          <6> QED
            BY <6>5
        <5> QED
          BY <3>1, <5>1, <5>2
      <4>2. \A u \in Threads : past'[u] = past[u]
        BY <2>2, <4>1 DEF Learnt
      <4>3. Heard(S, made, at, past')
        BY <2>1, <4>2 DEF Heard
      <4>4. Record(S, made, at, past', mutex, unlocked, barrier, L, Q)
        BY <1>7, <4>3 DEF Record, Told
      <4>5. R = S
        BY <3>1
      <4> QED
        BY <1>5, <1>6, <1>8, <4>4, <4>5
    <3>2. CASE p.owner \notin {t, None}
      <4>1. k \in SegIds /\ k # Null
        BY <1>8, <3>2, MutexFields DEF Held
      <4>2. Fresh(S, t)
        BY <1>2, <1>5, <1>6 DEF Scene, Spread
      <4>3. Bounded(S, S.seg[k].vc) /\ Behind(S, t, S.seg[k].vc) /\ InformedClock(S, S.seg[k].vc)
        BY <1>5, <4>1, <4>2, ForeignClock
      <4>4. R = thread_combine_vc2(S, t, S.seg[k].vc)
        BY <1>5, <3>2
      <4>5. Raised(S, R, x, t) /\ ClockOf(R, t) = vc_combine(ClockOf(S, t), S.seg[k].vc)
        BY <1>5, <4>3, <4>4, Combine2Raised
      <4>6. \A u \in Threads : S.list[u] # <<>> => k # Latest(S, u)
        BY <1>6 DEF Scene, Marks
      <4> HIDE DEF k, R
      <4>7. HandsOver(S, R, x, t, k, Threads)
        BY <4>1, <4>5, <4>6 DEF HandsOver
      <4>8. Scene(R, mutex, barrier, C, L) /\ Unmoved(S, R, x)
        <5>1. /\ Informed(R) /\ Marks(R, mutex, barrier, C, L, Threads) /\ Knows(R, mutex)
              /\ Spread(R, RoundSegs(barrier), L, Threads) /\ Unmoved(S, R, x)
          <6>1. Threads \in SUBSET Threads /\ L \in SUBSET Threads /\ Scene(S, mutex, barrier, C, L)
            BY <1>5, <1>6
          <6> QED
            BY <1>2, <1>5, <4>7, <6>1, HandsOverScene, ZenonT(60)
        <5> QED
          BY <5>1 DEF Scene
      <4>9. Told(R, made, at, past', mutex, unlocked, barrier, L, Q)
        BY <1>5, <2>1, <2>2, <4>1, <4>7, <4>8, HandsOverTold
      <4>10. Record(R, made, at, past', mutex, unlocked, barrier, L, Q)
        BY <1>5, <1>7, <4>5, <4>9, RaisedRecord
      <4> QED
        BY <1>5, <1>8, <4>5, <4>8, <4>10 DEF Raised, Steady
    <3> QED
      BY <3>1, <3>2
  <2> HIDE DEF R
  <2>4. Marks(R, mutex, barrier, C, L, Threads \ {t}) /\ Knows(R, mutex) /\ Spread(R, RoundSegs(barrier), L, Threads \ {t})
    BY <2>3 DEF Scene, Marks, Spread
  <2>5. X \in DState /\ Scene(X, mutex, barrier, C, L) /\ Record(X, made, at, past', mutex, unlocked, barrier, L, Q)
        /\ Hits(X, made, at)
    BY <1>2, <1>5, <2>3, <2>4, StepEnds
  <2> HIDE DEF X
  <2>6. Scene(X, mutex', barrier, C, L) /\ Record(X, made, at, past', mutex', unlocked, barrier, L, Q)
    BY <1>3, <2>5, RelockedSame
  <2>7. Stamped(X, made, at, waiting, syncs')
    BY <1>7, <1>8, <2>1, LaterStamped DEF Sync, TypeOK, Dates
  <2>8. Arrivals(past', C, arrived.past[arrived.round])
    <3>1. \A u \in C : past'[u] = past[u]
      BY <1>2, <2>2 DEF Learnt, C, Comers
    <3> QED
      BY <1>6, <3>1 DEF Arrivals
  <2>9. Plot(X, made', past', mutex', unlocked', barrier', waiting', arrived', syncs')
    BY <1>1, <1>6, <2>5, <2>6, <2>7, <2>8 DEF Plot, Chronicle, C, L, Q
  <2> QED
    BY <1>1, <1>8, <2>5, <2>9, BecomePlot
<1>9. CASE Become(S) /\ UNCHANGED <<syncs, past>>
  <2>1. Scene(S, mutex', barrier, C, L) /\ Record(S, made, at, past, mutex', unlocked, barrier, L, Q)
    BY <1>3, <1>6, <1>7, RelockedSame
  <2>2. Plot(S, made', past', mutex', unlocked', barrier', waiting', arrived', syncs')
    BY <1>1, <1>6, <1>7, <1>9, <2>1 DEF Plot, Chronicle, C, L, Q
  <2> QED
    BY <1>1, <1>5, <1>9, <2>2, BecomePlot
<1> QED
  BY <1>8, <1>9, RoomIs DEF MutexPostLock, S

LEMMA MutexUnlockPlot ==
  ASSUME TypeOK, Held, Ranked, PlotNow, NEW t \in Threads, NEW m \in Mutexes, MutexUnlock(t, m), TypeOK', Held'
  PROVE  PlotNow'
PROOF
<1> DEFINE S == Scheduled(t)
           p == mutex[m]
           old == p.last_locked_segment
           x == Ext(mutex, barrier)
           j == Latest(S0, t)
           G == thread_get_latest_segment(S, old, t)
           X == thread_new_segment(G, t)
           y == Ext(mutex', barrier)
           C == Comers(waiting, arrived.round)
           L == Leavers(waiting, arrived.round)
           Q == arrived.past[arrived.round - 1]
<1>1. /\ status[t] # "none" /\ waiting[t] = None /\ p.owner = t /\ p.recursion_count > 0
      /\ UNCHANGED <<s_segment_merging, barrier, waiting, made, past, arrived>>
  BY DEF MutexUnlock, InClient
<1>2. t \notin C /\ t \notin L
  BY <1>1, NotWaiting
<1>3. mutex \in [Mutexes -> MutexRec] /\ mutex[m] \in MutexRec /\ p.recursion_count \in Nat
  BY MutexFields DEF TypeOK
<1>4. Entry(S, t)
  BY <1>1, Entered
<1>5. /\ S \in DState /\ S.seg = seg /\ S.list = list /\ S.run = t /\ S.list[t] # <<>>
      /\ Owned(S.seg, S.list, x) /\ Listed(S.list) /\ InOrder(S) /\ Informed(S) /\ Refs2(mutex, barrier, x)
      /\ L \in SUBSET Threads /\ \A u \in L : S.list[u] # <<>>
  BY <1>4, EntryIs
<1>6. /\ Gate(waiting, arrived, barrier) /\ Scene(S, mutex, barrier, C, L)
      /\ Arrivals(past, C, arrived.past[arrived.round])
  BY <1>4, EntryIs
<1>7. PICK at : /\ Record(S, made, at, past, mutex, unlocked, barrier, L, Q)
                /\ Stamped(S, made, at, waiting, syncs) /\ Hits(S, made, at)
  BY <1>4, EntryIs
<1>8. j = Latest(S, t) /\ j \in SegIds /\ j # Null
  <2>1. Latest(S, t) = j /\ j \in SegIds
    BY <1>1, HasList
  <2> QED
    BY <2>1, ThreadsAre DEF Null
<1> HIDE DEF C, L, Q, x, S, j
<1>9. CASE /\ p.recursion_count = 1 /\ HasRoom(seg, t) /\ Become(X) /\ Sync
           /\ mutex' = [mutex EXCEPT ![m].recursion_count = 0, ![m].last_locked_segment = j]
           /\ unlocked' = [unlocked EXCEPT ![m] = past[t]]
  <2>1. /\ \A n \in Mutexes : n # m => mutex'[n] = mutex[n]
        /\ mutex'[m] = [mutex[m] EXCEPT !.recursion_count = 0, !.last_locked_segment = j]
    BY <1>3, <1>9
  <2>2. mutex'[m].last_locked_segment = j /\ mutex'[m].recursion_count = 0 /\ mutex'[m].owner = t
    BY <1>1, <1>3, <2>1 DEF MutexRec
  <2>3. unlocked'[m] = past[t] /\ \A n \in Mutexes : n # m => unlocked'[n] = unlocked[n]
    BY <1>9 DEF TypeOK
  <2>4. Refs2(mutex', barrier, y)
    <3>1. mutex' \in [Mutexes -> MutexRec] /\ barrier \in BarrierRec
      BY DEF TypeOK
    <3>2. \A n \in Mutexes : mutex'[n].recursion_count = 0 /\ mutex'[n].owner # None => mutex'[n].last_locked_segment # Null
      BY <1>5, <1>8, <2>1, <2>2 DEF Refs2
    <3> QED
      BY <1>5, <3>1, <3>2 DEF Refs2
  <2>5. Quiet(S, G, y) /\ Still(S, G, y) /\ G.run = t /\ G.list = S.list /\ G \in DState /\ Owned(G.seg, G.list, y)
    <3>1. old \in SegIds \cup {Null} /\ (old # Null => x[old] # 0)
      BY MutexFields, ExtNat DEF x
    <3>2. y = Moved(x, old, j)
      <4>1. Ext(mutex', barrier) = Moved(Ext(mutex, barrier), mutex[m].last_locked_segment, mutex'[m].last_locked_segment)
        <5>1. \A n \in Mutexes : n # m => mutex'[n].last_locked_segment = mutex[n].last_locked_segment
          BY <2>1
        <5> QED
          BY <5>1, ExtMutex
      <4> QED
        BY <2>2, <4>1 DEF x
    <3> HIDE DEF y, old
    <3>3. GotLatest(S, G, x, old, t)
      BY <1>5, <3>1, GetLatestAs
    <3> HIDE DEF G
    <3>4. /\ G \in DState /\ G.list = S.list /\ G.run = S.run /\ Owned(G.seg, G.list, y)
          /\ \A i \in SegIds : \/ G.seg[i].vc = S.seg[i].vc /\ G.seg[i].bm = S.seg[i].bm
                               \/ G.seg[i] = NoSegment /\ ~ InList(S.list, i)
      BY <1>8, <3>2, <3>3 DEF GotLatest
    <3> QED
      BY <1>5, <3>4 DEF Quiet, Still
  <2>6. HasRoom(G.seg, t)
    <3>1. old \in SegIds \cup {Null} /\ (old # Null => x[old] # 0)
      BY MutexFields, ExtNat DEF x
    <3> HIDE DEF old
    <3> QED
      BY <1>5, <1>9, <3>1, GetLatestRoom
  <2> HIDE DEF G, y, old
  <2>7. \A u \in Threads : u # t /\ S.list[u] # <<>> => Latest(S, u) # j
    <3>1. \A u \in Threads : S.list[u] # <<>> => Latest(S, u)[1] = u
      BY <1>5, AliveCount
    <3> QED
      BY <1>5, <1>8, <3>1
  <2>8. Marks(S, mutex', barrier, C, L, Threads \ {t})
    <3>1. Marks(S, mutex, barrier, C, L, Threads)
      BY <1>6 DEF Scene
    <3>2. t # None
      BY ThreadsAre DEF None
    <3>3. ASSUME NEW u \in Threads \ {t}, S.list[u] # <<>>, NEW n \in Mutexes PROVE mutex'[n].last_locked_segment # Latest(S, u)
      BY <2>1, <2>2, <2>7, <3>1, <3>3, ZenonT(60) DEF Marks
    <3>4. ASSUME NEW n \in Mutexes, mutex'[n].recursion_count = 0 /\ mutex'[n].owner = None
          PROVE  mutex'[n].last_locked_segment = Null
      BY <2>1, <2>2, <3>1, <3>2, <3>4 DEF Marks
    <3> QED
      BY <3>1, <3>3, <3>4 DEF Marks
  <2>9. Knows(S, mutex')
    <3>1. Home(S, t) = t /\ S.seg[j].vc = ClockOf(S, t) /\ vc_lte(ClockOf(S, t), ClockOf(S, t))
      BY <1>5, <1>8, LatestIs, vc_lteRefl DEF Home, ClockOf
    <3>2. ASSUME NEW n \in Mutexes, mutex'[n].recursion_count = 0, mutex'[n].owner # None
          PROVE  vc_lte(S.seg[mutex'[n].last_locked_segment].vc, ClockOf(S, Home(S, mutex'[n].owner)))
      <4>1. CASE n = m
        BY <2>2, <3>1, <4>1
      <4>2. CASE n # m
        BY <1>6, <2>1, <3>2, <4>2 DEF Scene, Knows
      <4> QED
        BY <4>1, <4>2
    <3> QED
      BY <3>2 DEF Knows
  <2>10. Spread(S, RoundSegs(barrier), L, Threads \ {t})
    BY <1>6 DEF Scene, Spread
  <2>11. Informed(G) /\ Marks(G, mutex', barrier, C, L, Threads \ {t}) /\ Knows(G, mutex')
         /\ Spread(G, RoundSegs(barrier), L, Threads \ {t})
    BY <1>5, <2>4, <2>5, <2>8, <2>9, <2>10, StillScene
  <2>12. Record(S, made, at, past, mutex', unlocked', barrier, L, Q)
    <3>1. Told(S, made, at, past, mutex, unlocked, barrier, L, Q) /\ Heard(S, made, at, past)
      BY <1>7 DEF Record, Told
    <3>2. HeardAt(S, made, at, j, past[t])
      <4>1. S.seg[j].vc = ClockOf(S, t)
        BY <1>8 DEF ClockOf
      <4> QED
        BY <1>5, <1>8, <3>1, <4>1 DEF Heard, HeardAt
    <3>3. \A n \in Mutexes : HeardAt(S, made, at, mutex'[n].last_locked_segment, unlocked'[n])
      BY <2>1, <2>2, <2>3, <3>1, <3>2 DEF Told
    <3> QED
      BY <1>7, <3>1, <3>3 DEF Record, Told
  <2>13. Record(G, made, at, past, mutex', unlocked', barrier, L, Q)
    BY <1>5, <2>4, <2>5, <2>12, QuietRecord
  <2>14. InOrder(G)
    BY <1>5, <2>5, StillClocks
  <2>15. X \in DState /\ Scene(X, mutex', barrier, C, L) /\ Record(X, made, at, past, mutex', unlocked', barrier, L, Q)
         /\ Hits(X, made, at)
    <3>1. G.list[t] # <<>> /\ \A u \in L : G.list[u] # <<>>
      BY <1>5, <2>5
    <3> QED
      BY <1>2, <1>5, <2>4, <2>5, <2>6, <2>11, <2>13, <2>14, <3>1, StepEnds
  <2> HIDE DEF X
  <2>16. Stamped(X, made, at, waiting, syncs')
    <3>1. made \subseteq Event /\ syncs \in Nat /\ syncs' = syncs + 1
      BY <1>9 DEF Sync, TypeOK
    <3> QED
      BY <1>7, <3>1, LaterStamped
  <2>17. Plot(X, made', past', mutex', unlocked', barrier', waiting', arrived', syncs')
    BY <1>1, <1>6, <2>15, <2>16 DEF Plot, Chronicle, C, L, Q
  <2> QED
    BY <1>1, <1>9, <2>15, <2>17, BecomePlot
<1>10. CASE /\ p.recursion_count > 1 /\ Become(S) /\ UNCHANGED <<syncs, unlocked>>
            /\ mutex' = [mutex EXCEPT ![m].recursion_count = @ - 1]
  <2>1. /\ \A n \in Mutexes : n # m => mutex'[n] = mutex[n]
        /\ mutex'[m] = [mutex[m] EXCEPT !.recursion_count = @ - 1]
    BY <1>3, <1>10
  <2>2. mutex'[m].last_locked_segment = mutex[m].last_locked_segment /\ mutex'[m].recursion_count = mutex[m].recursion_count - 1
    BY <1>3, <2>1 DEF MutexRec
  <2>3. mutex'[m].recursion_count # 0
    BY <1>3, <1>10, <2>2
  <2> HIDE DEF p, old
  <2>4. Relocked(mutex, mutex')
    BY <2>1, <2>2, <2>3 DEF Relocked
  <2>5. Scene(S, mutex', barrier, C, L) /\ Record(S, made, at, past, mutex', unlocked, barrier, L, Q)
    BY <1>6, <1>7, <2>4, RelockedSame
  <2>6. Plot(S, made', past', mutex', unlocked', barrier', waiting', arrived', syncs')
    BY <1>1, <1>6, <1>7, <1>10, <2>5 DEF Plot, Chronicle, C, L, Q
  <2> QED
    BY <1>1, <1>5, <1>10, <2>6, BecomePlot
<1> QED
  BY <1>9, <1>10, RoomIs DEF MutexUnlock, S, j

(* An operation that only moves references. *)
LEMMA QuietEnds ==
  ASSUME NEW S \in DState, InOrder(S), NEW X, NEW y, Quiet(S, X, y), X.run = S.run, X.cset = S.cset, S.list[S.run] # <<>>,
         NEW mx, NEW b, Refs2(mx, b, y), NEW C, NEW L \in SUBSET Threads, \A u \in L : S.list[u] # <<>>,
         Scene(S, mx, b, C, L), NEW E, NEW at, NEW P, NEW U, NEW Q, Record(S, E, at, P, mx, U, b, L, Q), Hits(S, E, at)
  PROVE  /\ X \in DState /\ Scene(X, mx, b, C, L) /\ Record(X, E, at, P, mx, U, b, L, Q) /\ Hits(X, E, at)
         /\ \A w, n : Stamped(S, E, at, w, n) => Stamped(X, E, at, w, n)
PROOF
<1>1. Still(S, X, y) /\ X \in DState
  BY DEF Quiet, Still
<1>2. Scene(X, mx, b, C, L)
  <2>1. Informed(S) /\ Marks(S, mx, b, C, L, Threads) /\ Knows(S, mx) /\ Spread(S, RoundSegs(b), L, Threads)
    BY DEF Scene
  <2>2. Informed(X) /\ Marks(X, mx, b, C, L, Threads) /\ Knows(X, mx) /\ Spread(X, RoundSegs(b), L, Threads)
    BY <1>1, <2>1, StillScene
  <2> QED
    BY <2>2 DEF Scene
<1>3. Record(X, E, at, P, mx, U, b, L, Q) /\ Hits(X, E, at)
  BY QuietRecord
<1>4. \A w, n : Stamped(S, E, at, w, n) => Stamped(X, E, at, w, n)
  <2>1. \A u \in Threads : S.list[u] # <<>> => ClockOf(X, u) = ClockOf(S, u)
    BY <1>1, StillClocks
  <2>2. Heard(S, E, at, P) /\ Dates(E, at)
    BY DEF Record, Told
  <2>3. \A e \in E : e.thread \in Threads /\ S.list[e.thread] # <<>>
    BY <2>2, DatesNat DEF Heard
  <2> QED
    BY <2>1, <2>3 DEF Stamped
<1> QED
  BY <1>1, <1>2, <1>3, <1>4

LEMMA UnreferencedQuiet ==
  ASSUME TypeOK, Held, NEW t \in Threads, status[t] # "none", NEW X \in DState, Become(X), Unreferenced(X, t), TypeOK', Held'
  PROVE  /\ Quiet(Scheduled(t), X, Ext(mutex', barrier')) /\ X.run = t /\ X.cset = Scheduled(t).cset
         /\ Refs2(mutex', barrier', Ext(mutex', barrier'))
PROOF
<1>1. X.seg = seg' /\ X.list = list'
  BY DEF Become
<1>2. Owned(seg', list', Ext(mutex', barrier'))
  BY DEF Held
<1>3. Scheduled(t).seg = seg /\ Scheduled(t).list = list
  BY ScheduledIs
<1>4. Refs2(mutex', barrier', Ext(mutex', barrier'))
  BY DEF Refs2, TypeOK, Held
<1> QED
  BY <1>1, <1>2, <1>3, <1>4 DEF Quiet, Still, Unreferenced

LEMMA MutexDestroyPlot ==
  ASSUME TypeOK, Held, Ranked, PlotNow, NEW t \in Threads, NEW m \in Mutexes, MutexDestroy(t, m), TypeOK', Held'
  PROVE  PlotNow'
PROOF
<1> DEFINE S == Scheduled(t)
           y == Ext(mutex', barrier')
           C == Comers(waiting, arrived.round)
           L == Leavers(waiting, arrived.round)
           Q == arrived.past[arrived.round - 1]
<1>1. /\ status[t] # "none" /\ waiting[t] = None
      /\ UNCHANGED <<s_segment_merging, barrier, waiting, syncs, made, past, arrived>>
      /\ mutex' = [mutex EXCEPT ![m] = NoMutex] /\ unlocked' = [unlocked EXCEPT ![m] = {}]
  BY DEF MutexDestroy, InClient
<1>4. Entry(S, t)
  BY <1>1, Entered
<1>2. PICK X \in DState : Become(X) /\ Unreferenced(X, t)
  BY MutexDestroyIs
<1>3. Quiet(S, X, y) /\ X.run = t /\ X.cset = S.cset /\ Refs2(mutex', barrier', y)
  BY <1>1, <1>2, UnreferencedQuiet
<1> HIDE DEF S
<1>5. /\ S \in DState /\ S.run = t /\ S.list[t] # <<>> /\ Listed(S.list) /\ InOrder(S) /\ Informed(S)
      /\ L \in SUBSET Threads /\ \A u \in L : S.list[u] # <<>>
  BY <1>4, EntryIs
<1>6. /\ Gate(waiting, arrived, barrier) /\ Scene(S, mutex, barrier, C, L)
      /\ Arrivals(past, C, arrived.past[arrived.round])
  BY <1>4, EntryIs
<1>7. PICK at : /\ Record(S, made, at, past, mutex, unlocked, barrier, L, Q)
                /\ Stamped(S, made, at, waiting, syncs) /\ Hits(S, made, at)
  BY <1>4, EntryIs
<1> HIDE DEF C, L, Q, y
<1>8. /\ \A n \in Mutexes : n # m => mutex'[n] = mutex[n] /\ unlocked'[n] = unlocked[n]
      /\ mutex'[m] = NoMutex /\ unlocked'[m] = {}
  BY <1>1 DEF TypeOK
<1>9. NoMutex.owner = None /\ NoMutex.last_locked_segment = Null
  BY DEF NoMutex
<1>10. Scene(S, mutex', barrier, C, L)
  <2>1. \A u \in Threads : S.list[u] # <<>> => Latest(S, u) # Null
    <3>1. \A u \in Threads : S.list[u] # <<>> => Latest(S, u) \in SegIds
      BY <1>5, LatestIs
    <3>2. Null \notin SegIds
      BY ThreadsAre DEF Null
    <3> QED
      BY <3>1, <3>2
  <2>2. Marks(S, mutex, barrier, C, L, Threads) /\ Knows(S, mutex)
    BY <1>6 DEF Scene
  <2>3. ASSUME NEW u \in Threads, S.list[u] # <<>>, NEW n \in Mutexes PROVE mutex'[n].last_locked_segment # Latest(S, u)
    BY <1>8, <1>9, <2>1, <2>2, <2>3 DEF Marks
  <2>4. ASSUME NEW n \in Mutexes, mutex'[n].recursion_count = 0 /\ mutex'[n].owner = None
        PROVE  mutex'[n].last_locked_segment = Null
    BY <1>8, <1>9, <2>2, <2>4 DEF Marks
  <2>5. Marks(S, mutex', barrier, C, L, Threads)
    BY <2>2, <2>3, <2>4 DEF Marks
  <2>6. Knows(S, mutex')
    BY <1>8, <1>9, <2>2 DEF Knows
  <2> QED
    BY <1>6, <2>5, <2>6 DEF Scene
<1>11. Record(S, made, at, past, mutex', unlocked', barrier, L, Q)
  <2>1. Told(S, made, at, past, mutex, unlocked, barrier, L, Q)
    BY <1>7 DEF Record
  <2>2. \A n \in Mutexes : HeardAt(S, made, at, mutex'[n].last_locked_segment, unlocked'[n])
    <3>1. HeardAt(S, made, at, Null, {})
      BY DEF HeardAt
    <3> QED
      BY <1>8, <1>9, <2>1, <3>1 DEF Told
  <2> QED
    BY <1>7, <2>1, <2>2 DEF Record, Told
<1>12. /\ Scene(X, mutex', barrier', C, L) /\ Record(X, made, at, past, mutex', unlocked', barrier', L, Q) /\ Hits(X, made, at)
  BY <1>1, <1>3, <1>5, <1>7, <1>10, <1>11, QuietEnds
<1>13. Stamped(X, made, at, waiting, syncs)
  BY <1>1, <1>3, <1>5, <1>7, <1>10, <1>11, QuietEnds
<1>14. Plot(X, made', past', mutex', unlocked', barrier', waiting', arrived', syncs')
  BY <1>1, <1>6, <1>12, <1>13 DEF Plot, Chronicle, C, L, Q
<1> QED
  BY <1>1, <1>2, <1>14, BecomePlot

-----------------------------------------------------------------------------
(* The barrier                                                             *)

(* The barrier is destroyed or initialized while nobody is at it. *)
LEMMA EmptyBarrierPlot ==
  ASSUME TypeOK, Held, Ranked, PlotNow, NEW t \in Threads, TypeOK', Held', status[t] # "none",
         \A u \in Threads : waiting[u] = None, barrier' \in {NewBarrier, NoBarrier}, arrived'.n = 0, arrived'.round = 0,
         UNCHANGED <<s_segment_merging, mutex, waiting, made, past, unlocked>>, syncs' \in {syncs, syncs + 1},
         NEW X \in DState, Become(X), Unreferenced(X, t)
  PROVE  PlotNow'
PROOF
<1> DEFINE S == Scheduled(t)
           y == Ext(mutex', barrier')
           C == Comers(waiting, arrived.round)
           L == Leavers(waiting, arrived.round)
           Q == arrived.past[arrived.round - 1]
           Q2 == arrived'.past[arrived'.round - 1]
<1>1. Entry(S, t)
  BY Entered
<1>2. Quiet(S, X, y) /\ X.run = t /\ X.cset = S.cset /\ Refs2(mutex', barrier', y)
  BY UnreferencedQuiet
<1> HIDE DEF S
<1>3. S \in DState /\ S.run = t /\ S.list[t] # <<>> /\ Listed(S.list) /\ InOrder(S) /\ Informed(S)
  BY <1>1, EntryIs
<1>4. Scene(S, mutex, barrier, C, L)
  BY <1>1, EntryIs
<1>5. PICK at : /\ Record(S, made, at, past, mutex, unlocked, barrier, L, Q)
                /\ Stamped(S, made, at, waiting, syncs) /\ Hits(S, made, at)
  BY <1>1, EntryIs
<1>6. C = {} /\ L = {} /\ Comers(waiting', arrived'.round) = {} /\ Leavers(waiting', arrived'.round) = {}
  BY DEF Comers, Leavers
<1> HIDE DEF C, L, Q, y
<1>7. /\ \A u \in Threads : barrier'.node[u].present = FALSE /\ \A r \in Rounds : barrier'.node[u].sg[r] = Null
      /\ barrier'.pre_iteration = 0 /\ barrier'.post_iteration = 0 /\ barrier'.pre_waiters_left = BarrierCount
      /\ barrier'.post_waiters_left = BarrierCount
  <2>1. \A u \in Threads : barrier'.node[u] = NoNode
    BY NoNodes
  <2>2. NoNode.present = FALSE /\ \A r \in Rounds : NoNode.sg[r] = Null
    BY DEF NoNode
  <2> QED
    BY <2>1, <2>2 DEF NewBarrier, NoBarrier
<1>8. Gate(waiting', arrived', barrier')
  <2>1. Cardinality({}) = 0 /\ BarrierCount \in Nat /\ BarrierCount > 0 /\ BarrierCount - 0 = BarrierCount
    BY FS_EmptySet, SizesAssumption
  <2> QED
    BY <1>6, <1>7, <2>1 DEF Gate
<1>9. Scene(S, mutex, barrier', {}, {})
  <2>1. \A u \in Threads : S.list[u] # <<>> => Latest(S, u) # Null
    <3>1. \A u \in Threads : S.list[u] # <<>> => Latest(S, u) \in SegIds
      BY <1>3, LatestIs
    <3>2. Null \notin SegIds
      BY ThreadsAre DEF Null
    <3> QED
      BY <3>1, <3>2
  <2>2. Marks(S, mutex, barrier', {}, {}, Threads)
    BY <1>4, <1>7, <2>1 DEF Marks, Scene
  <2>3. Spread(S, RoundSegs(barrier'), {}, Threads)
    BY <1>4, <1>6 DEF Spread, Gap, Lead, Scene
  <2> QED
    BY <1>4, <2>2, <2>3 DEF Scene
<1>10. Record(S, made, at, past, mutex, unlocked, barrier', {}, Q2)
  BY <1>5 DEF Record, Told
<1>11. /\ Scene(X, mutex, barrier', {}, {}) /\ Record(X, made, at, past, mutex, unlocked, barrier', {}, Q2) /\ Hits(X, made, at)
       /\ \A w, n : Stamped(S, made, at, w, n) => Stamped(X, made, at, w, n)
  <2>1. Refs2(mutex, barrier', y)
    BY <1>2
  <2> QED
    BY <1>2, <1>3, <1>5, <1>9, <1>10, <2>1, QuietEnds
<1>12. Stamped(X, made, at, waiting, syncs')
  <2>1. Stamped(X, made, at, waiting, syncs)
    BY <1>5, <1>11
  <2>2. made \subseteq Event /\ syncs \in Nat
    BY DEF TypeOK
  <2>3. Stamped(X, made, at, waiting, syncs + 1)
    BY <2>1, <2>2, LaterStamped
  <2> QED
    BY <2>1, <2>3
<1>13. Arrivals(past, {}, arrived'.past[arrived'.round])
  BY DEF Arrivals
<1>14. Plot(X, made', past', mutex', unlocked', barrier', waiting', arrived', syncs')
  BY <1>6, <1>8, <1>11, <1>12, <1>13 DEF Plot, Chronicle
<1> QED
  BY <1>14, BecomePlot

(* DRD has been told of every return. *)
LEMMA BarrierDestroyPlot ==
  ASSUME TypeOK, Held, Ranked, PlotNow, NEW t \in Threads, BarrierDestroy(t), TypeOK', Held', ReturnsSeen'
  PROVE  PlotNow'
PROOF
<1>1. /\ status[t] # "none" /\ UNCHANGED <<s_segment_merging, mutex, made, unlocked>>
      /\ barrier' = NoBarrier /\ syncs' = syncs + 1
      /\ waiting' = [u \in Threads |-> IF waiting[u] = None THEN None ELSE Gone]
      /\ past' = [u \in Threads |-> PastAfterWait(u)]
  BY DEF BarrierDestroy, InClient, Sync
<1>2. arrived'.round = 0 /\ arrived'.n = 0 /\ \A u \in Threads : waiting[u] = None
  BY DestroyedArrivals DEF ReturnsSeen
<1>3. waiting' = waiting /\ past' = past
  <2>1. waiting \in [Threads -> Nat] /\ past \in [Threads -> SUBSET Event]
    BY DEF TypeOK
  <2>2. \A u \in Threads : PastAfterWait(u) = past[u]
    BY <1>2 DEF PastAfterWait
  <2> QED
    BY <1>1, <1>2, <2>1, <2>2
<1>4. PICK X \in DState : Become(X) /\ Unreferenced(X, t)
  BY BarrierDestroyIs
<1>5. UNCHANGED <<s_segment_merging, mutex, waiting, made, past, unlocked>>
  BY <1>1, <1>3
<1> QED
  BY <1>1, <1>2, <1>4, <1>5, EmptyBarrierPlot

(* The last to arrive at a round: everybody who takes part is there, and   *)
(* the round before has been left.                                         *)
LEMMA AllArrived ==
  ASSUME Cardinality(Participants) <= BarrierCount, NEW C \in SUBSET Participants, NEW L \in SUBSET Participants,
         NEW t \in Participants, t \notin C, t \notin L, C \cap L = {}, Cardinality(C) + 1 = BarrierCount
  PROVE  L = {} /\ C \cup {t} = Participants /\ Cardinality(C \cup {t}) = BarrierCount
PROOF
<1>1. IsFiniteSet(Participants) /\ IsFiniteSet(C)
  <2>1. IsFiniteSet(Participants)
    BY ThreadsAre, SizesAssumption, FS_Subset
  <2> QED
    BY <2>1, FS_Subset
<1>2. IsFiniteSet(C \cup {t}) /\ Cardinality(C \cup {t}) = Cardinality(C) + 1
  BY <1>1, FS_AddElement
<1>3. C \cup {t} \subseteq Participants
  OBVIOUS
<1>4. Cardinality(C \cup {t}) <= Cardinality(Participants) /\ (Cardinality(C \cup {t}) = Cardinality(Participants) => C \cup {t} = Participants)
  BY <1>1, <1>3, FS_Subset
<1>5. Cardinality(Participants) \in Nat /\ Cardinality(C) \in Nat /\ BarrierCount \in Nat
  BY <1>1, FS_CardinalityType, SizesAssumption
<1>6. C \cup {t} = Participants
  BY <1>2, <1>4, <1>5
<1> QED
  BY <1>2, <1>6

LEMMA GateCounts ==
  ASSUME NEW w, NEW a, NEW b, Gate(w, a, b), NEW C, C = Comers(w, a.round), NEW L, L = Leavers(w, a.round), a.round \in Nat
  PROVE  /\ C \subseteq Participants /\ L \subseteq Participants /\ C \subseteq Threads /\ L \subseteq Threads /\ C \cap L = {}
         /\ IsFiniteSet(C) /\ IsFiniteSet(L) /\ Cardinality(C) \in Nat /\ Cardinality(L) \in Nat
         /\ (C = {} <=> Cardinality(C) = 0) /\ (L = {} <=> Cardinality(L) = 0)
PROOF
<1>1. C \subseteq Participants /\ L \subseteq Participants /\ C \subseteq Threads /\ L \subseteq Threads
  BY DEF Gate, Comers, Leavers
<1>2. C \cap L = {}
  <2>1. SUFFICES ASSUME NEW u \in C, u \in L PROVE FALSE
    OBVIOUS
  <2>2. w[u] \in {a.round, a.round + 1} /\ w[u] > a.round /\ w[u] <= a.round
    BY <2>1 DEF Gate, Comers, Leavers
  <2> QED
    BY <2>2
<1>3. IsFiniteSet(C) /\ IsFiniteSet(L)
  BY <1>1, ThreadsAre, FS_Subset
<1> QED
  BY <1>1, <1>2, <1>3, FS_CardinalityType, FS_EmptySet

LEMMA BarrierInitPlot ==
  ASSUME TypeOK, Held, Ranked, PlotNow, NEW t \in Threads, BarrierInit(t), TypeOK', Held'
  PROVE  PlotNow'
PROOF
<1>1. /\ status[t] # "none" /\ ~ barrier.exists /\ barrier' = NewBarrier /\ Become(Scheduled(t))
      /\ UNCHANGED <<s_segment_merging, mutex, waiting, made, past, unlocked>> /\ arrived' = arrived /\ syncs' = syncs
  BY DEF BarrierInit, InClient, histVars
<1>2. arrived.round = 0 /\ arrived.n = 0 /\ Gate(waiting, arrived, barrier) /\ waiting \in [Threads -> Nat]
  BY <1>1 DEF Held, TypeOK, PlotNow, Plot
<1>3. Comers(waiting, arrived.round) = {}
  <2> DEFINE C == Comers(waiting, arrived.round)
             L == Leavers(waiting, arrived.round)
  <2>1. Cardinality(C) = 0
    BY <1>2 DEF Gate
  <2>2. C = Comers(waiting, arrived.round) /\ L = Leavers(waiting, arrived.round) /\ arrived.round \in Nat
    BY <1>2
  <2> HIDE DEF C, L
  <2>3. C = {} <=> Cardinality(C) = 0
    BY <1>2, <2>2, GateCounts
  <2> QED
    BY <2>1, <2>2, <2>3
<1>4. \A u \in Threads : waiting[u] = None
  BY <1>2, <1>3 DEF Comers, None
<1>5. Scheduled(t) \in DState /\ Unreferenced(Scheduled(t), t)
  BY ScheduledIs DEF Unreferenced
<1> QED
  BY <1>1, <1>2, <1>4, <1>5, EmptyBarrierPlot

LEMMA ArriveFields ==
  ASSUME TypeOK, NEW t \in Threads, BarrierPreWait(t)
  PROVE  LET c == arrived.round
         IN  /\ c \in Nat /\ arrived.n \in Nat /\ waiting \in [Threads -> Nat]
             /\ arrived'.round = (IF arrived.n + 1 = BarrierCount THEN c + 1 ELSE c)
             /\ arrived'.n = (arrived.n + 1) % BarrierCount
             /\ arrived'.past[c] = past[t] \cup (IF arrived.n = 0 THEN {} ELSE arrived.past[c])
             /\ c # 0 => arrived'.past[c - 1] = arrived.past[c - 1]
PROOF
<1> DEFINE c == arrived.round
           q == [arrived.past EXCEPT ![c] = past[t] \cup (IF arrived.n = 0 THEN {} ELSE @)]
<1>1. arrived' = [round |-> IF arrived.n + 1 = BarrierCount THEN c + 1 ELSE c,
                  n     |-> (arrived.n + 1) % BarrierCount, past |-> q, unseen |-> arrived.unseen]
  BY DEF BarrierPreWait
<1>2. arrived \in ArrivedRec /\ arrived.round <= syncs /\ syncs \in 0 .. MaxSyncs /\ MaxSyncs \in Nat /\ waiting \in [Threads -> Nat]
  BY SizesAssumption DEF TypeOK
<1>3. c \in Nat /\ arrived.n \in Nat /\ arrived.past \in [0 .. MaxSyncs -> SUBSET Event]
  BY <1>2 DEF ArrivedRec
<1>4. c \in 0 .. MaxSyncs /\ (c # 0 => c - 1 \in 0 .. MaxSyncs /\ c - 1 # c)
  BY <1>2, <1>3
<1> HIDE DEF c
<1>5. q[c] = past[t] \cup (IF arrived.n = 0 THEN {} ELSE arrived.past[c])
  BY <1>3, <1>4
<1>6. c # 0 => q[c - 1] = arrived.past[c - 1]
  BY <1>3, <1>4
<1> HIDE DEF q
<1> QED
  BY <1>1, <1>2, <1>3, <1>5, <1>6 DEF c

LEMMA BarrierPreWaitIs ==
  ASSUME TypeOK, Held, NEW t \in Threads, BarrierPreWait(t)
  PROVE  \E X \in DState : Become(X) /\ Unreferenced(X, t)
PROOF
<1> DEFINE S == Scheduled(t)
           x == Ext(mutex, barrier)
           k == barrier.pre_iteration
           old == barrier.node[t].sg[k]
           X == thread_get_latest_segment(S, old, t)
<1>1. status[t] # "none" /\ Become(X)
  BY DEF BarrierPreWait, InClient
<1>2. S \in DState /\ S.seg = seg /\ S.list = list /\ S.run = t /\ list[t] # <<>> /\ Owned(S.seg, S.list, x)
  BY <1>1, ScheduledIs, HasList DEF Held
<1>3. k \in Rounds
  BY DEF TypeOK, BarrierRec
<1>4. old \in SegIds \cup {Null} /\ (old # Null => x[old] # 0)
  BY <1>3, NodeFields, ExtNat
<1> HIDE DEF S, old, x, k
<1>5. GotLatest(S, X, x, old, t)
  BY <1>2, <1>4, GetLatestAs
<1> HIDE DEF X
<1>6. X \in DState /\ Unreferenced(X, t)
  BY <1>2, <1>5 DEF S, GotLatest, Unreferenced
<1> QED
  BY <1>1, <1>6
(* What t adds to the barrier when it arrives: its latest segment. *)
Joined(S, b, b2, t) ==
  /\ b2.node[t].sg[b.pre_iteration] = Latest(S, t) /\ b2.node[t].present
  /\ \A v \in Threads, r \in Rounds : v # t \/ r # b.pre_iteration => b2.node[v].sg[r] = b.node[v].sg[r]
  /\ \A v \in Threads : v # t => b2.node[v].present = b.node[v].present

(* t is not the last to arrive. *)
LEMMA ArriveScene ==
  ASSUME NEW S \in DState, NEW mx, NEW b, NEW b2, b.pre_iteration \in Rounds, NEW t \in Threads, S.list[t] # <<>>, Joined(S, b, b2, t),
         b2.pre_iteration = b.pre_iteration, NEW C, NEW L, t \notin C, t \notin L, Scene(S, mx, b, C, L)
  PROVE  Scene(S, mx, b2, C \cup {t}, L) /\ RoundSegs(b2) = RoundSegs(b)
PROOF
<1> DEFINE k == b.pre_iteration
<1>1. k \in Rounds /\ 1 - k \in Rounds /\ 1 - k # k
  BY DEF Rounds
<1>2. RoundSegs(b2) = RoundSegs(b)
  BY <1>1 DEF RoundSegs, Joined
<1>3. Marks(S, mx, b, C, L, Threads)
  BY DEF Scene
<1> HIDE DEF k
<1>4. ASSUME NEW v \in Threads, S.list[v] # <<>>, NEW r \in Rounds
      PROVE  b2.node[v].sg[r] = Latest(S, v) <=> (v \in C \cup {t} /\ r = k) \/ (v \in L /\ r = 1 - k)
  <2>1. b.node[v].sg[r] = Latest(S, v) <=> (v \in C /\ r = k) \/ (v \in L /\ r = 1 - k)
    BY <1>3, <1>4 DEF Marks, k
  <2>2. CASE v = t /\ r = k
    BY <2>2 DEF Joined, k
  <2>3. CASE v # t \/ r # k
    <3>1. b2.node[v].sg[r] = b.node[v].sg[r]
      BY <2>3 DEF Joined, k
    <3> QED
      BY <2>1, <2>3, <3>1
  <2> QED
    BY <2>2, <2>3
<1>5. \A v \in Threads : b2.node[v].present => S.list[v] # <<>>
  BY <1>3 DEF Marks, Joined
<1>6. Marks(S, mx, b2, C \cup {t}, L, Threads)
  BY <1>3, <1>4, <1>5 DEF Marks, k
<1> QED
  BY <1>2, <1>6 DEF Scene

(* t is the last to arrive: everybody leaves. *)
Completes(S, b, b2, t, C, D) ==
  /\ b.pre_iteration \in Rounds /\ b2.pre_iteration \in Rounds /\ b2.pre_iteration # b.pre_iteration
  /\ Joined(S, b, b2, t) /\ t \notin C /\ D = C \cup {t} /\ 1 \in D /\ D \subseteq Threads /\ \A u \in D : S.list[u] # <<>>

LEMMA LastScene ==
  ASSUME NEW S \in DState, NEW mx, NEW b, NEW b2, NEW t, NEW C, NEW D, Completes(S, b, b2, t, C, D),
         NEW L, L = {}, Scene(S, mx, b, C, L)
  PROVE  /\ Scene(S, mx, b2, L, D)
         /\ \A v \in D : RoundSegs(b2)[v] = Latest(S, v)
PROOF
<1>0. /\ b.pre_iteration \in Rounds /\ b2.pre_iteration \in Rounds /\ b2.pre_iteration # b.pre_iteration
      /\ Joined(S, b, b2, t) /\ t \notin C /\ D = C \cup {t} /\ 1 \in D /\ D \subseteq Threads /\ \A u \in D : S.list[u] # <<>>
  BY DEF Completes
<1> DEFINE k == b.pre_iteration
<1>1. k \in Rounds /\ 1 - k \in Rounds /\ 1 - k # k /\ 1 - (1 - k) = k /\ b2.pre_iteration = 1 - k
  BY <1>0 DEF Rounds
<1>3. Marks(S, mx, b, C, {}, Threads)
  BY DEF Scene
<1> HIDE DEF k
<1>4. ASSUME NEW v \in Threads, S.list[v] # <<>>, NEW r \in Rounds
      PROVE  b2.node[v].sg[r] = Latest(S, v) <=> v \in D /\ r = k
  <2>1. b.node[v].sg[r] = Latest(S, v) <=> v \in C /\ r = k
    BY <1>3, <1>4 DEF Marks, k
  <2>2. CASE v = t /\ r = k
    BY <1>0, <2>2 DEF Joined, k
  <2>3. CASE v # t \/ r # k
    <3>1. b2.node[v].sg[r] = b.node[v].sg[r]
      BY <1>0, <2>3 DEF Joined, k
    <3> QED
      BY <1>0, <2>1, <2>3, <3>1
  <2> QED
    BY <2>2, <2>3
<1>5. \A v \in Threads : b2.node[v].present => S.list[v] # <<>>
  BY <1>0, <1>3 DEF Marks, Joined
<1>6. Marks(S, mx, b2, {}, D, Threads)
  BY <1>1, <1>3, <1>4, <1>5 DEF Marks, k
<1>7. \A v \in Threads : S.list[v] # <<>> => Fresh(S, v)
  BY DEF Scene, Spread
<1>8. Spread(S, RoundSegs(b2), D, Threads)
  <2>1. ASSUME NEW u \in D, NEW i \in SegIds, i # Latest(S, u), S.seg[i].vc[u] >= ClockOf(S, u)[u]
        PROVE  FALSE
    <3>0. u \in Threads /\ S.list[u] # <<>>
      BY <1>0
    <3>1. S.seg[i].vc[u] < ClockOf(S, u)[u]
      BY <1>7, <2>1, <3>0 DEF Fresh
    <3>2. S.seg[i].vc[u] \in Nat /\ ClockOf(S, u)[u] \in Nat
      BY <3>0, ClockFields, LatestIs DEF ClockOf
    <3> QED
      BY <2>1, <3>1, <3>2
  <2> QED
    BY <1>0, <1>7, <2>1 DEF Spread, Gap, Lead
<1> QED
  BY <1>0, <1>1, <1>4, <1>6, <1>8 DEF Scene, RoundSegs, k
LEMMA BarrierPreWaitPlot ==
  ASSUME Cardinality(Participants) <= BarrierCount, 1 \in Participants \/ Participants = {},
         TypeOK, Held, Ranked, PlotNow, NEW t \in Threads, BarrierPreWait(t), TypeOK', Held'
  PROVE  PlotNow'
PROOF
<1> DEFINE S == Scheduled(t)
           y == Ext(mutex', barrier')
           c == arrived.round
           n == arrived.n
           k == barrier.pre_iteration
           C == Comers(waiting, c)
           L == Leavers(waiting, c)
           C2 == Comers(waiting', arrived'.round)
           L2 == Leavers(waiting', arrived'.round)
           Q == arrived.past[c - 1]
           Q2 == arrived'.past[arrived'.round - 1]
<1>1. /\ status[t] # "none" /\ waiting[t] = None /\ t \in Participants
      /\ UNCHANGED <<s_segment_merging, mutex, made, past, unlocked>>
      /\ waiting' = [waiting EXCEPT ![t] = c + 1] /\ syncs' = syncs + 1
  BY DEF BarrierPreWait, InClient, Sync
<1>2. PICK X \in DState : Become(X) /\ Unreferenced(X, t)
  BY BarrierPreWaitIs
<1>3. Quiet(S, X, y) /\ X.run = t /\ X.cset = S.cset /\ Refs2(mutex', barrier', y)
  BY <1>1, <1>2, UnreferencedQuiet
<1>4. Entry(S, t)
  BY <1>1, Entered
<1>5. /\ S \in DState /\ S.run = t /\ S.list[t] # <<>> /\ Listed(S.list) /\ InOrder(S) /\ Informed(S)
      /\ L \in SUBSET Threads /\ \A u \in L : S.list[u] # <<>>
  BY <1>4, EntryIs
<1>6. Gate(waiting, arrived, barrier) /\ Scene(S, mutex, barrier, C, L) /\ Arrivals(past, C, arrived.past[c])
  BY <1>4, EntryIs
<1>7. PICK at : /\ Record(S, made, at, past, mutex, unlocked, barrier, L, Q)
                /\ Stamped(S, made, at, waiting, syncs) /\ Hits(S, made, at)
  BY <1>4, EntryIs
<1>8. t \notin C /\ t \notin L
  BY <1>1, NotWaiting
<1>9. \A u \in C : S.list[u] # <<>>
  BY <1>4 DEF Entry, Comers
<1>10. /\ c \in Nat /\ n \in Nat /\ waiting \in [Threads -> Nat]
       /\ arrived'.round = (IF n + 1 = BarrierCount THEN c + 1 ELSE c)
       /\ arrived'.n = (n + 1) % BarrierCount
       /\ arrived'.past[c] = past[t] \cup (IF n = 0 THEN {} ELSE arrived.past[c])
       /\ c # 0 => arrived'.past[c - 1] = arrived.past[c - 1]
  BY ArriveFields
<1>11. /\ k \in Rounds /\ Joined(S, barrier, barrier', t)
       /\ barrier'.pre_iteration = (IF barrier.pre_waiters_left = 1 THEN 1 - k ELSE k)
       /\ barrier'.pre_waiters_left = (IF barrier.pre_waiters_left = 1 THEN BarrierCount ELSE barrier.pre_waiters_left - 1)
       /\ barrier'.post_iteration = barrier.post_iteration /\ barrier'.post_waiters_left = barrier.post_waiters_left
  <2>1. Latest(S0, t) \in SegIds /\ Latest(S, t) = Latest(S0, t)
    BY <1>1, HasList
  <2> HIDE DEF S
  <2> QED
    BY <2>1, ArriveIs DEF Joined
<1>12. /\ C \subseteq Participants /\ L \subseteq Participants /\ C \subseteq Threads /\ C \cap L = {}
       /\ IsFiniteSet(C) /\ Cardinality(C) \in Nat /\ (C = {} <=> Cardinality(C) = 0)
  <2>1. C = Comers(waiting, arrived.round) /\ L = Leavers(waiting, arrived.round) /\ arrived.round \in Nat
    BY <1>10
  <2> HIDE DEF C, L
  <2> QED
    BY <1>6, <2>1, GateCounts
<1>13. /\ \A u \in Threads : waiting[u] # None => u \in Participants /\ waiting[u] \in {c, c + 1}
       /\ n = Cardinality(C) /\ n < BarrierCount /\ barrier.pre_waiters_left = BarrierCount - n
       /\ L = {} => barrier.post_iteration = k /\ barrier.post_waiters_left = BarrierCount
       /\ L # {} => /\ barrier.post_iteration = 1 - k
                    /\ barrier.post_waiters_left = Cardinality(L)
       /\ \A u \in Threads : barrier.node[u].present => u \in Participants
       /\ \A u \in Threads : ~ barrier.node[u].present => \A r \in Rounds : barrier.node[u].sg[r] = Null
  BY <1>6 DEF Gate
<1>14. BarrierCount \in Nat \ {0} /\ Participants \subseteq Threads
  BY SizesAssumption
<1>15. waiting'[t] = c + 1 /\ \A u \in Threads : u # t => waiting'[u] = waiting[u]
  BY <1>1, <1>10
<1>16. /\ \A u \in Threads : barrier'.node[u].present => u \in Participants
       /\ \A u \in Threads : ~ barrier'.node[u].present => \A r \in Rounds : barrier'.node[u].sg[r] = Null
  BY <1>1, <1>11, <1>13 DEF Joined
<1> HIDE DEF S, C, L, C2, L2, Q, Q2, c, n, k
<1>17. Stamped(X, made, at, waiting', syncs')
  <2>1. made \subseteq Event /\ syncs \in Nat
    BY DEF TypeOK
  <2> QED
    BY <1>1, <1>7, <2>1, LaterStamped
<1>18. SUFFICES /\ Gate(waiting', arrived', barrier') /\ Scene(S, mutex, barrier', C2, L2)
                /\ Arrivals(past, C2, arrived'.past[arrived'.round])
                /\ Record(S, made, at, past, mutex, unlocked, barrier', L2, Q2)
                /\ L2 \in SUBSET Threads /\ \A u \in L2 : S.list[u] # <<>>
  <2>1. Scene(X, mutex, barrier', C2, L2) /\ Record(X, made, at, past, mutex, unlocked, barrier', L2, Q2) /\ Hits(X, made, at)
    BY <1>1, <1>3, <1>5, <1>7, <1>18, QuietEnds
  <2>2. Plot(X, made', past', mutex', unlocked', barrier', waiting', arrived', syncs')
    BY <1>1, <1>17, <1>18, <2>1 DEF Plot, Chronicle, C2, L2, Q2
  <2> QED
    BY <1>1, <1>2, <2>2, BecomePlot
<1>19. CASE n + 1 # BarrierCount
  <2>1. arrived'.round = c /\ barrier'.pre_iteration = k /\ barrier'.pre_waiters_left = BarrierCount - (n + 1)
    BY <1>10, <1>11, <1>13, <1>14, <1>19
  <2>2. arrived'.n = n + 1 /\ n + 1 < BarrierCount
    BY <1>10, <1>13, <1>14, <1>19
  <2>3. C2 = C \cup {t} /\ L2 = L
    <3>1. c + 1 # None /\ c + 1 > c /\ ~ (c + 1 <= c)
      BY <1>10 DEF None
    <3>2. \A u \in Threads : u \in C2 <=> u \in C \/ u = t
      BY <1>15, <2>1, <3>1 DEF C, C2, Comers
    <3>3. \A u \in Threads : u \in L2 <=> u \in L
      BY <1>8, <1>15, <2>1, <3>1 DEF L, L2, Leavers
    <3> QED
      BY <3>2, <3>3 DEF C, C2, L, L2, Comers, Leavers
  <2>4. Scene(S, mutex, barrier', C2, L2) /\ RoundSegs(barrier') = RoundSegs(barrier)
    BY <1>5, <1>6, <1>8, <1>11, <2>1, <2>3, ArriveScene DEF k
  <2>5. Gate(waiting', arrived', barrier')
    <3>1. Cardinality(C2) = n + 1
      BY <1>8, <1>12, <1>13, <2>3, FS_AddElement
    <3>2. \A u \in Threads : waiting'[u] # None => u \in Participants /\ waiting'[u] \in {c, c + 1}
      BY <1>1, <1>13, <1>15
    <3> QED
      BY <1>11, <1>13, <1>16, <2>1, <2>2, <2>3, <3>1, <3>2 DEF Gate, C2, L2
  <2>6. Arrivals(past, C2, arrived'.past[arrived'.round])
    <3>1. n = 0 => C = {}
      BY <1>12, <1>13
    <3>2. n # 0 => C # {}
      BY <1>12, <1>13
    <3> QED
      BY <1>6, <1>10, <2>1, <2>3, <3>1, <3>2 DEF Arrivals
  <2>7. L # {} => Q2 = Q
    <3>1. L # {} => c # 0
      BY <1>10 DEF L, Leavers, None
    <3> QED
      BY <1>10, <2>1, <3>1 DEF Q, Q2
  <2>8. Record(S, made, at, past, mutex, unlocked, barrier', L2, Q2)
    BY <1>7, <2>3, <2>4, <2>7 DEF Record, Told
  <2> QED
    BY <1>5, <2>3, <2>4, <2>5, <2>6, <2>8
<1>20. CASE n + 1 = BarrierCount
  <2>1. arrived'.round = c + 1 /\ barrier'.pre_iteration = 1 - k /\ barrier'.pre_waiters_left = BarrierCount
    BY <1>10, <1>11, <1>13, <1>14, <1>20
  <2>2. arrived'.n = 0
    BY <1>10, <1>14, <1>20
  <2>3. L = {} /\ C \cup {t} = Participants /\ Cardinality(C \cup {t}) = BarrierCount
    BY <1>1, <1>8, <1>12, <1>13, <1>20, AllArrived
  <2>4. C2 = {} /\ L2 = C \cup {t}
    <3>1. c + 1 # None /\ ~ (c + 1 > c + 1) /\ c + 1 <= c + 1 /\ ~ (c > c + 1) /\ c <= c + 1
      BY <1>10 DEF None
    <3>2. \A u \in Threads : u # t /\ waiting[u] # None => waiting[u] = c + 1
      <4>1. \A u \in Threads : waiting[u] # None => waiting[u] > c
        BY <1>10, <2>3 DEF L, Leavers
      <4> QED
        BY <1>10, <1>13, <4>1
    <3>3. \A u \in Threads : waiting'[u] # None => waiting'[u] = c + 1
      BY <1>15, <3>2
    <3>4. \A u \in Threads : u \notin C2
      BY <2>1, <3>1, <3>3 DEF C2, Comers
    <3>5. \A u \in Threads : u \in L2 <=> waiting'[u] # None
      BY <2>1, <3>1, <3>3 DEF L2, Leavers
    <3>6. \A u \in Threads : u \in C <=> waiting[u] # None
      BY <1>1, <1>10, <3>2 DEF C, Comers
    <3>7. \A u \in Threads : u \in L2 <=> u \in C \/ u = t
      BY <1>15, <3>1, <3>5, <3>6
    <3>8. C2 \subseteq Threads /\ L2 \subseteq Threads
      BY DEF C2, L2, Comers, Leavers
    <3> QED
      BY <1>12, <3>4, <3>7, <3>8
  <2>5. 1 \in C \cup {t}
    BY <1>1, <2>3
  <2>6. Scene(S, mutex, barrier', {}, C \cup {t}) /\ \A v \in C \cup {t} : RoundSegs(barrier')[v] = Latest(S, v)
    <3>3. barrier.pre_iteration \in Rounds /\ barrier'.pre_iteration \in Rounds /\ barrier'.pre_iteration # barrier.pre_iteration
      BY <1>11, <2>1 DEF k, Rounds
    <3> DEFINE D == C \cup {t}
    <3>4. D = C \cup {t} /\ 1 \in D
      BY <2>5
    <3> HIDE DEF D
    <3>5. Scene(S, mutex, barrier', L, D) /\ \A v \in D : RoundSegs(barrier')[v] = Latest(S, v)
      <4>1. Completes(S, barrier, barrier', t, C, D)
        <5>1. D \subseteq Threads /\ \A u \in D : S.list[u] # <<>>
          BY <1>5, <1>9, <1>12, <3>4
        <5> QED
          BY <1>8, <1>11, <3>3, <3>4, <5>1 DEF Completes
      <4> QED
        BY <1>5, <1>6, <2>3, <4>1, LastScene, SMTT(30)
    <3> QED
      BY <2>3, <3>4, <3>5
  <2>7. Gate(waiting', arrived', barrier')
    <3>1. \A u \in Threads : waiting'[u] # None => u \in Participants /\ waiting'[u] \in {c + 1, c + 2}
      <4>1. \A u \in Threads : waiting'[u] # None => u \in L2
        BY <1>10, <1>13, <1>15, <2>1 DEF L2, Leavers
      <4>2. \A u \in Threads : waiting'[u] # None => waiting'[u] = c + 1
        <5>1. \A u \in Threads : waiting[u] # None => waiting[u] > c
          BY <1>10, <2>3 DEF L, Leavers
        <5> QED
          BY <1>10, <1>13, <1>15, <5>1
      <4> QED
        BY <2>3, <2>4, <4>1, <4>2
    <3>2. Cardinality(C2) = 0 /\ L2 # {} /\ Cardinality(L2) = BarrierCount
      BY <2>3, <2>4, FS_EmptySet
    <3>3. k = 1 - (1 - k)
      BY <1>11 DEF Rounds
    <3>4. arrived'.round + 1 = c + 2
      BY <1>10, <2>1
    <3> QED
      BY <1>11, <1>13, <1>14, <1>16, <2>1, <2>2, <2>3, <3>1, <3>2, <3>3, <3>4 DEF Gate, C2, L2
  <2>8. Arrivals(past, C2, arrived'.past[arrived'.round])
    BY <2>4 DEF Arrivals
  <2>9. Q2 = past[t] \cup (IF C = {} THEN {} ELSE arrived.past[c])
    <3>1. arrived'.round - 1 = c
      BY <1>10, <2>1
    <3>2. n = 0 <=> C = {}
      BY <1>12, <1>13
    <3> QED
      BY <1>10, <3>1, <3>2 DEF Q2
  <2>10. HeardOf(S, made, at, RoundSegs(barrier'), Q2)
    <3>1. \A e : e \in Q2 <=> \E u \in C \cup {t} : e \in past[u]
      BY <1>6, <2>9 DEF Arrivals
    <3>2. Heard(S, made, at, past)
      BY <1>7 DEF Record, Told
    <3>3. \A u \in C \cup {t} : u \in Threads /\ S.list[u] # <<>> /\ RoundSegs(barrier')[u] # Null
                             /\ S.seg[RoundSegs(barrier')[u]].vc = ClockOf(S, u)
      <4>1. \A u \in C \cup {t} : u \in Threads /\ S.list[u] # <<>>
        BY <1>5, <1>9, <1>12
      <4>2. \A u \in C \cup {t} : Latest(S, u) # Null
        BY <1>5, <4>1, LatestIs, ThreadsAre
      <4> QED
        BY <2>6, <4>1, <4>2 DEF ClockOf
    <3>4. \A v \in Threads : RoundSegs(barrier')[v] # Null => v \in C \cup {t}
      <4>1. k = 1 - (1 - k)
        BY <1>11 DEF Rounds
      <4>2. \A v \in Threads : RoundSegs(barrier')[v] = barrier'.node[v].sg[k]
        BY <2>1, <4>1 DEF RoundSegs
      <4> QED
        BY <1>11, <1>16, <2>3, <4>2
    <3>5. \A u \in C \cup {t} : \A e : e \in past[u] <=> e \in made /\ Known(at, e, S.seg[RoundSegs(barrier')[u]].vc)
      BY <3>2, <3>3 DEF Heard
    <3> QED
      BY <3>1, <3>3, <3>4, <3>5 DEF HeardOf
  <2>11. Record(S, made, at, past, mutex, unlocked, barrier', L2, Q2)
    BY <1>7, <2>10 DEF Record, Told
  <2> QED
    BY <1>5, <1>9, <1>12, <2>4, <2>6, <2>7, <2>8, <2>11
<1> QED
  BY <1>19, <1>20
(* t leaves a round: it learns what the segments N of the round know.      *)
Leaving(S, N, x, t, L) ==
  /\ S \in DState /\ Owned(S.seg, S.list, x) /\ Listed(S.list) /\ InOrder(S) /\ Informed(S)
  /\ t \in Threads /\ S.list[t] # <<>>
  /\ Referred(N, x) /\ \A v \in Threads : N[v] # Null => N[v][1] = v
  /\ N[t] = Latest(S, t) /\ t \in L /\ Gap(S, N, L)

Gathered(S, T, N, x, t, n) ==
  /\ Raised(S, T, x, t)
  /\ \A v \in Threads : v <= n /\ N[v] # Null => vc_lte(S.seg[N[v]].vc, ClockOf(T, t))
  /\ \A v \in Threads : \E u \in Threads : N[u] # Null /\ ClockOf(T, t)[v] = S.seg[N[u]].vc[v]

(* Clocks of other segments than t's latest are the same, or gone. *)
Topped(S, T, x, t) ==
  /\ T \in DState /\ Owned(T.seg, T.list, x) /\ Listed(T.list) /\ InOrder(T) /\ Informed(T) /\ T.run = S.run /\ T.list[t] # <<>>
  /\ Latest(T, t) = Latest(S, t) /\ T.seg[Latest(S, t)].vc = ClockOf(T, t) /\ ClockOf(T, t) \in Clock
  /\ \A u \in Threads : T.list[u] = <<>> <=> S.list[u] = <<>>
  /\ \A i \in SegIds : i # Latest(S, t) /\ x[i] # 0 => T.seg[i].vc = S.seg[i].vc
  /\ \A i \in SegIds : i # Latest(S, t) => T.seg[i].vc = S.seg[i].vc \/ \A u \in Threads : T.seg[i].vc[u] = 0

LEMMA RaisedTopped ==
  ASSUME NEW S, NEW T, NEW x, NEW t \in Threads, S.list[t] # <<>>, Raised(S, T, x, t)
  PROVE  Topped(S, T, x, t)
PROOF
<1>1. /\ T \in DState /\ Owned(T.seg, T.list, x) /\ InOrder(T) /\ Informed(T) /\ T.run = S.run
      /\ \A u \in Threads : T.list[u] = <<>> <=> S.list[u] = <<>>
      /\ Latest(T, t) = Latest(S, t)
      /\ Clocked(S, T, x, Latest(S, t))
  BY DEF Raised, Steady
<1>2. T.list[t] # <<>> /\ Listed(T.list)
  BY <1>1 DEF Owned
<1>3. T.seg[Latest(S, t)].vc = ClockOf(T, t) /\ ClockOf(T, t) \in Clock
  BY <1>1, <1>2, LatestIs DEF ClockOf
<1> QED
  BY <1>1, <1>2, <1>3, NoSegmentType DEF Clocked, Topped

LEMMA GatherOne ==
  ASSUME NEW S, NEW N, NEW x, NEW t, NEW L, Leaving(S, N, x, t, L), NEW T, NEW n \in Nat, Gathered(S, T, N, x, t, n),
         NEW u \in Threads, u = n + 1, u # t, N[u] # Null
  PROVE  Gathered(S, thread_combine_vc2(T, t, T.seg[N[u]].vc), N, x, t, u)
PROOF
<1> DEFINE vc == S.seg[N[u]].vc
           U == thread_combine_vc2(T, t, T.seg[N[u]].vc)
<1>1. /\ S \in DState /\ Owned(S.seg, S.list, x) /\ Listed(S.list) /\ InOrder(S) /\ Informed(S)
      /\ t \in Threads /\ S.list[t] # <<>>
      /\ Referred(N, x) /\ \A v \in Threads : N[v] # Null => N[v][1] = v
      /\ N[t] = Latest(S, t) /\ t \in L /\ Gap(S, N, L)
  BY DEF Leaving
<1>2. Raised(S, T, x, t)
  BY DEF Gathered
<1>3. /\ T \in DState /\ Owned(T.seg, T.list, x) /\ Listed(T.list) /\ InOrder(T) /\ Informed(T) /\ T.list[t] # <<>>
      /\ Latest(T, t) = Latest(S, t) /\ ClockOf(T, t) \in Clock
      /\ \A i \in SegIds : i # Latest(S, t) /\ x[i] # 0 => T.seg[i].vc = S.seg[i].vc
      /\ \A i \in SegIds : i # Latest(S, t) => T.seg[i].vc = S.seg[i].vc \/ \A v \in Threads : T.seg[i].vc[v] = 0
  <2>1. Topped(S, T, x, t)
    BY <1>1, <1>2, RaisedTopped
  <2> QED
    BY <2>1 DEF Topped
<1>4. N[u] \in SegIds /\ x[N[u]] # 0 /\ N[u][1] = u /\ Latest(S, t)[1] = t
  BY <1>1, LatestIs DEF Referred
<1>5. T.seg[N[u]].vc = vc /\ vc \in Clock
  BY <1>1, <1>3, <1>4, ClockFields
<1>6. Bounded(T, vc) /\ InformedClock(T, vc)
  <2>1. Bounded(T, T.seg[N[u]].vc)
    BY <1>3, <1>4, SegBounded
  <2>2. InformedClock(T, T.seg[N[u]].vc)
    BY <1>3, <1>4 DEF Informed, InformedClock
  <2> QED
    BY <1>5, <2>1, <2>2
<1>7. Behind(T, t, vc)
  <2>1. ClockOf(T, t)[t] = ClockOf(S, t)[t] /\ ClockOf(S, t)[t] >= 1 /\ ClockOf(S, t)[t] \in Nat
    BY <1>1, <1>2, AliveCount DEF Raised
  <2>2. ASSUME NEW i \in SegIds, i # Latest(T, t), T.seg[i].vc[t] >= ClockOf(T, t)[t] PROVE vc_lte(vc, T.seg[i].vc)
    <3>0. T.seg[i].vc[t] # 0
      BY <2>1, <2>2
    <3>1. T.seg[i].vc = S.seg[i].vc
      BY <1>1, <1>3, <2>2, <3>0
    <3>2. i # Latest(S, t) /\ S.seg[i].vc[t] >= ClockOf(S, t)[t]
      BY <1>3, <2>1, <2>2, <3>1
    <3> QED
      BY <1>1, <3>1, <3>2 DEF Gap
  <2> QED
    BY <2>2 DEF Behind
<1> HIDE DEF vc
<1>8. Raised(T, U, x, t) /\ ClockOf(U, t) = vc_combine(ClockOf(T, t), vc)
  <2>1. /\ Raised(T, thread_combine_vc2(T, t, vc), x, t)
        /\ ClockOf(thread_combine_vc2(T, t, vc), t) = vc_combine(ClockOf(T, t), vc)
    BY <1>1, <1>3, <1>6, <1>7, Combine2Raised
  <2> QED
    BY <1>5, <2>1
<1> HIDE DEF U
<1>9. Raised(S, U, x, t)
  BY <1>1, <1>2, <1>8, RaisedTrans
<1>10. /\ ClockOf(U, t) \in Clock /\ vc_lte(ClockOf(T, t), ClockOf(U, t)) /\ vc_lte(vc, ClockOf(U, t))
       /\ \A v \in Threads : ClockOf(U, t)[v] = vc[v] \/ ClockOf(U, t)[v] = ClockOf(T, t)[v]
  <2> DEFINE a == ClockOf(T, t)
             z == vc_combine(a, vc)
  <2>1. a \in Clock /\ vc \in Clock /\ ClockOf(U, t) = z
    BY <1>3, <1>5, <1>8
  <2> HIDE DEF a
  <2>2. z \in Clock /\ \A v \in Threads : z[v] = IF a[v] < vc[v] THEN vc[v] ELSE a[v]
    BY <2>1, vc_combineType
  <2>3. vc_lte(a, z) /\ vc_lte(vc, z)
    BY <2>1, vc_combineAbove
  <2> HIDE DEF z
  <2> QED
    BY <2>1, <2>2, <2>3 DEF a
<1>11. ASSUME NEW v \in Threads, v <= u, N[v] # Null PROVE vc_lte(S.seg[N[v]].vc, ClockOf(U, t))
  <2>1. CASE v = u
    BY <1>10, <2>1 DEF vc
  <2>2. CASE v # u
    <3>1. v <= n
      <4>1. v \in Nat
        BY ThreadsAre
      <4> QED
        BY <1>11, <2>2, <4>1
    <3>2. vc_lte(S.seg[N[v]].vc, ClockOf(T, t))
      BY <1>11, <3>1 DEF Gathered
    <3>3. S.seg[N[v]].vc \in Clock
      BY <1>1, <1>11, ClockFields DEF Referred
    <3> QED
      BY <1>3, <1>10, <3>2, <3>3, vc_lteTrans
  <2> QED
    BY <2>1, <2>2
<1>12. ASSUME NEW v \in Threads PROVE \E z \in Threads : N[z] # Null /\ ClockOf(U, t)[v] = S.seg[N[z]].vc[v]
  <2>1. CASE ClockOf(U, t)[v] = vc[v]
    BY <2>1 DEF vc
  <2>2. CASE ClockOf(U, t)[v] = ClockOf(T, t)[v]
    BY <2>2 DEF Gathered
  <2> QED
    BY <1>10, <2>1, <2>2
<1> QED
  BY <1>9, <1>11, <1>12 DEF Gathered, U
(* As CombineAll, with the number of threads that have been visited. *)
LEMMA CombineUpto ==
  ASSUME NEW t, NEW P, <<0, Scheduled(t)>> \in P,
         \A u \in Threads : \A T : <<u - 1, T>> \in P => <<u, CombineStep(t, T, u)>> \in P
  PROVE  <<DRD_N_THREADS - 1, combine_others(t)[DRD_N_THREADS - 1]>> \in P
PROOF
<1> DEFINE N == DRD_N_THREADS - 1
           f == combine_others(t)
           Bad == {n \in 0 .. N : <<n, f[n]>> \notin P}
<1>0. N \in Nat /\ Threads = 1 .. N
  BY SizesAssumption DEF Threads
<1>1. f[0] = Scheduled(t) /\ \A u \in Threads : f[u] = CombineStep(t, f[u - 1], u)
  BY combine_othersSteps
<1> HIDE DEF N, f
<1>2. ASSUME Bad # {} PROVE FALSE
  <2>1. Bad \in SUBSET Nat
    BY <1>0
  <2>2. PICK n \in Bad : \A k \in Bad : n <= k
    <3> HIDE DEF Bad
    <3> QED
      BY <1>2, <2>1, LeastNat
  <2>0. n # 0
    BY <1>1, <2>2
  <2>3. n \in Threads /\ n - 1 \in 0 .. N /\ n - 1 \notin Bad
    BY <1>0, <2>0, <2>2
  <2>4. <<n - 1, f[n - 1]>> \in P
    BY <2>3
  <2>5. f[n] = CombineStep(t, f[n - 1], n)
    BY <1>1, <2>3
  <2>6. <<n, CombineStep(t, f[n - 1], n)>> \in P
    BY <2>3, <2>4
  <2> QED
    BY <2>2, <2>5, <2>6
<1>3. <<N, f[N]>> \in P
  BY <1>0, <1>2
<1> QED
  BY <1>3 DEF f, N

LEMMA CombineGathers ==
  ASSUME NEW t, NEW N, NEW x, NEW L, Leaving(Scheduled(t), N, x, t, L),
         \A u \in Threads : u # t => /\ u \in Others(t) => N[u] # Null /\ N[u] = barrier.node[u].sg[barrier.post_iteration]
                                     /\ u \notin Others(t) => N[u] = Null
  PROVE  Gathered(Scheduled(t), combine_others(t)[DRD_N_THREADS - 1], N, x, t, DRD_N_THREADS - 1)
PROOF
<1> DEFINE S == Scheduled(t)
           M == DRD_N_THREADS - 1
           P == {p \in (0 .. M) \X DState : Gathered(S, p[2], N, x, t, p[1])}
<1>0. M \in Nat /\ Threads = 1 .. M
  BY SizesAssumption DEF Threads
<1>1. /\ S \in DState /\ Owned(S.seg, S.list, x) /\ Listed(S.list) /\ InOrder(S) /\ Informed(S)
      /\ t \in Threads /\ S.list[t] # <<>> /\ N[t] = Latest(S, t) /\ t \notin Others(t)
  BY DEF Leaving, Others
<1>2. Latest(S, t) \in SegIds /\ Latest(S, t) # Null /\ S.seg[Latest(S, t)].vc = ClockOf(S, t) /\ ClockOf(S, t) \in Clock
  BY <1>1, LatestIs, ThreadsAre DEF ClockOf
<1> HIDE DEF S, M
<1>3. <<0, S>> \in P
  <2>1. Raised(S, S, x, t)
    <3>1. Contents(S, S)
      BY <1>1, SameContents
    <3>2. Steady(S, S, x)
      BY <1>1 DEF Steady
    <3>3. Clocked(S, S, x, Latest(S, t))
      BY DEF Clocked
    <3>4. vc_lte(ClockOf(S, t), ClockOf(S, t))
      BY <1>2, vc_lteRefl
    <3> QED
      BY <1>1, <3>1, <3>2, <3>3, <3>4 DEF Raised
  <2>2. \A v \in Threads : ~ (v <= 0)
    BY <1>0
  <2>3. \A v \in Threads : \E u \in Threads : N[u] # Null /\ ClockOf(S, t)[v] = S.seg[N[u]].vc[v]
    BY <1>1, <1>2
  <2>4. Gathered(S, S, N, x, t, 0)
    BY <2>1, <2>2, <2>3 DEF Gathered
  <2> QED
    BY <1>0, <1>1, <2>4
<1>4. ASSUME NEW u \in Threads, NEW T, <<u - 1, T>> \in P PROVE <<u, CombineStep(t, T, u)>> \in P
  <2>1. u - 1 \in 0 .. M /\ u \in 0 .. M /\ T \in DState /\ Gathered(S, T, N, x, t, u - 1) /\ u - 1 \in Nat /\ u = (u - 1) + 1
    BY <1>0, <1>4
  <2>2. CASE u \in Others(t)
    <3>1. CombineStep(t, T, u) = thread_combine_vc2(T, t, T.seg[N[u]].vc) /\ u # t /\ N[u] # Null
      BY <1>1, <2>2 DEF CombineStep
    <3>2. Gathered(S, thread_combine_vc2(T, t, T.seg[N[u]].vc), N, x, t, u)
      BY <2>1, <3>1, GatherOne, SMTT(30) DEF S
    <3>3. thread_combine_vc2(T, t, T.seg[N[u]].vc) \in DState
      BY <3>2 DEF Gathered, Raised, Steady
    <3> QED
      BY <2>1, <3>1, <3>2, <3>3
  <2>3. CASE u \notin Others(t)
    <3>1. CombineStep(t, T, u) = T
      BY <2>3 DEF CombineStep
    <3>2. Raised(S, T, x, t) /\ vc_lte(ClockOf(S, t), ClockOf(T, t))
      BY <2>1 DEF Gathered, Raised
    <3>3. ASSUME NEW v \in Threads, v <= u, N[v] # Null PROVE vc_lte(S.seg[N[v]].vc, ClockOf(T, t))
      <4>1. CASE v = u
        BY <1>1, <1>2, <2>3, <3>2, <3>3, <4>1
      <4>2. CASE v # u
        <5>1. v <= u - 1
          BY <1>0, <3>3, <4>2
        <5> QED
          BY <2>1, <3>3, <5>1 DEF Gathered
      <4> QED
        BY <4>1, <4>2
    <3>4. Gathered(S, T, N, x, t, u)
      BY <2>1, <3>2, <3>3 DEF Gathered
    <3> QED
      BY <2>1, <3>1, <3>4
  <2> QED
    BY <2>2, <2>3
<1> HIDE DEF P
<1>5. <<M, combine_others(t)[M]>> \in P
  BY <1>3, <1>4, CombineUpto DEF S, M
<1> QED
  BY <1>5 DEF P, S, M
Above(S, N, z) == \A v \in Threads : N[v] # Null => vc_lte(S.seg[N[v]].vc, z)

LEMMA GatheredClocks ==
  ASSUME NEW S, NEW N, NEW x, NEW t, NEW L, Leaving(S, N, x, t, L), NEW R, Gathered(S, R, N, x, t, DRD_N_THREADS - 1)
  PROVE  /\ Topped(S, R, x, t) /\ Above(S, N, ClockOf(R, t)) /\ R.seg[N[t]].vc = ClockOf(R, t) /\ N[t] # Null
         /\ \A v \in Threads : N[v] # Null /\ v # t => R.seg[N[v]].vc = S.seg[N[v]].vc
         /\ \A z \in Clock : Above(S, N, z) => Above(R, N, z)
PROOF
<1>1. /\ S \in DState /\ Listed(S.list) /\ t \in Threads /\ S.list[t] # <<>>
      /\ Referred(N, x) /\ \A v \in Threads : N[v] # Null => N[v][1] = v
      /\ N[t] = Latest(S, t)
  BY DEF Leaving
<1>2. Topped(S, R, x, t)
  BY <1>1, RaisedTopped DEF Gathered
<1>3. Above(S, N, ClockOf(R, t))
  <2>1. \A v \in Threads : v <= DRD_N_THREADS - 1
    BY SizesAssumption DEF Threads
  <2> QED
    BY <2>1 DEF Gathered, Above
<1>4. Latest(S, t) \in SegIds /\ Latest(S, t)[1] = t /\ Latest(S, t) # Null
  BY <1>1, LatestIs, ThreadsAre
<1>5. \A v \in Threads : N[v] # Null /\ v # t => R.seg[N[v]].vc = S.seg[N[v]].vc
  BY <1>1, <1>2, <1>4 DEF Topped, Referred
<1>6. R.seg[N[t]].vc = ClockOf(R, t)
  BY <1>1, <1>2 DEF Topped
<1>7. ASSUME NEW z \in Clock, Above(S, N, z) PROVE Above(R, N, z)
  <2>1. vc_lte(ClockOf(R, t), z)
    <3>1. ASSUME NEW v \in Threads PROVE ClockOf(R, t)[v] <= z[v]
      <4>1. PICK u \in Threads : N[u] # Null /\ ClockOf(R, t)[v] = S.seg[N[u]].vc[v]
        BY DEF Gathered
      <4>2. vc_lte(S.seg[N[u]].vc, z)
        BY <1>7, <4>1 DEF Above
      <4> QED
        BY <4>1, <4>2 DEF vc_lte
    <3> QED
      BY <3>1 DEF vc_lte
  <2>2. ASSUME NEW v \in Threads, N[v] # Null PROVE vc_lte(R.seg[N[v]].vc, z)
    <3>1. CASE v = t
      BY <1>6, <2>1, <3>1
    <3>2. CASE v # t
      BY <1>5, <1>7, <2>2, <3>2 DEF Above
    <3> QED
      BY <3>1, <3>2
  <2> QED
    BY <2>2 DEF Above
<1> QED
  BY <1>1, <1>2, <1>3, <1>4, <1>5, <1>6, <1>7

Dispersed(S, R, mx, b, N, C, D, t) ==
  /\ Marks(R, mx, b, C, D, Threads \ {t}) /\ Knows(R, mx) /\ Spread(R, N, D, Threads \ {t})
  /\ \A m \in Mutexes : mx[m].last_locked_segment # Null =>
       R.seg[mx[m].last_locked_segment].vc = S.seg[mx[m].last_locked_segment].vc

LEMMA GatheredScene ==
  ASSUME NEW S, NEW mx, NEW b, NEW x, Refs2(mx, b, x), NEW N, N = RoundSegs(b), NEW t, NEW C, NEW L \in SUBSET Threads,
         \A u \in L : S.list[u] # <<>>, t \notin C, Leaving(S, N, x, t, L), Scene(S, mx, b, C, L),
         NEW R, Gathered(S, R, N, x, t, DRD_N_THREADS - 1)
  PROVE  Dispersed(S, R, mx, b, N, C, L \ {t}, t)
PROOF
<1>1. /\ S \in DState /\ Owned(S.seg, S.list, x) /\ Listed(S.list) /\ InOrder(S) /\ Informed(S) /\ t \in Threads /\ S.list[t] # <<>>
      /\ Referred(N, x) /\ \A v \in Threads : N[v] # Null => N[v][1] = v
      /\ N[t] = Latest(S, t) /\ t \in L /\ Gap(S, N, L)
  BY DEF Leaving
<1>2. Topped(S, R, x, t) /\ Above(S, N, ClockOf(R, t)) /\ R.seg[N[t]].vc = ClockOf(R, t) /\ N[t] # Null
  BY GatheredClocks
<1>3. /\ \A v \in Threads : N[v] # Null /\ v # t => R.seg[N[v]].vc = S.seg[N[v]].vc
      /\ \A z \in Clock : Above(S, N, z) => Above(R, N, z)
  BY GatheredClocks
<1>4. Raised(S, R, x, t)
  BY DEF Gathered
<1>5. \A u \in Threads : S.list[u] # <<>> => Latest(R, u) = Latest(S, u) /\ (u # t => ClockOf(R, u) = ClockOf(S, u))
  BY <1>4 DEF Raised
<1>6. /\ R \in DState /\ \A u \in Threads : R.list[u] = <<>> <=> S.list[u] = <<>>
      /\ \A i \in SegIds : i # Latest(S, t) /\ x[i] # 0 => R.seg[i].vc = S.seg[i].vc
      /\ \A i \in SegIds : i # Latest(S, t) => R.seg[i].vc = S.seg[i].vc \/ \A u \in Threads : R.seg[i].vc[u] = 0
      /\ R.seg[Latest(S, t)].vc = ClockOf(R, t) /\ ClockOf(R, t) \in Clock
  BY <1>2 DEF Topped
<1>7. Marks(S, mx, b, C, L, Threads) /\ Knows(S, mx) /\ Spread(S, N, L, Threads)
  BY DEF Scene
<1>8. Marks(R, mx, b, C, L \ {t}, Threads \ {t})
  <2>1. ASSUME NEW u \in Threads \ {t}, R.list[u] # <<>>
        PROVE  /\ \A r \in Rounds : b.node[u].sg[r] = Latest(R, u) <=>
                    \/ u \in C /\ r = b.pre_iteration
                    \/ u \in L \ {t} /\ r = 1 - b.pre_iteration
               /\ \A m \in Mutexes : mx[m].last_locked_segment # Latest(R, u)
    <3>1. S.list[u] # <<>> /\ Latest(R, u) = Latest(S, u) /\ (u \in L \ {t} <=> u \in L)
      BY <1>5, <1>6, <2>1
    <3> QED
      BY <1>7, <3>1 DEF Marks
  <2> QED
    BY <1>6, <1>7, <2>1 DEF Marks
<1>9. ASSUME NEW m \in Mutexes, mx[m].last_locked_segment # Null
      PROVE  R.seg[mx[m].last_locked_segment].vc = S.seg[mx[m].last_locked_segment].vc
  <2>1. mx[m].last_locked_segment \in SegIds /\ x[mx[m].last_locked_segment] # 0
    BY <1>9, Refs2Facts
  <2>2. mx[m].last_locked_segment # Latest(S, t)
    BY <1>1, <1>7 DEF Marks
  <2> QED
    BY <1>6, <2>1, <2>2
<1>10. Knows(R, mx)
  <2>1. Grows(S, R)
    BY <1>1, <1>4, RaisedGrows
  <2> QED
    BY <1>1, <1>6, <1>7, <1>9, <2>1, GrowsKnows
<1>11. ASSUME NEW u \in Threads \ {t}, u \notin L \ {t}, R.list[u] # <<>> PROVE Fresh(R, u)
  <2>1. u \in Threads /\ u # t /\ u \notin L /\ S.list[u] # <<>>
    BY <1>6, <1>11
  <2>2. Fresh(S, u)
    BY <1>7, <2>1 DEF Spread
  <2>3. ClockOf(R, t)[u] < ClockOf(S, u)[u]
    <3>1. PICK z \in Threads : N[z] # Null /\ ClockOf(R, t)[u] = S.seg[N[z]].vc[u]
      BY <2>1 DEF Gathered
    <3>2. N[z] \in SegIds /\ N[z][1] = z /\ Latest(S, u)[1] = u
      BY <1>1, <2>1, <3>1, LatestIs DEF Referred
    <3>3. N[z] # Latest(S, u)
      <4>1. N[u] # Latest(S, u)
        <5>1. b.pre_iteration \in Rounds /\ 1 - b.pre_iteration \in Rounds /\ 1 - b.pre_iteration # b.pre_iteration
          BY Refs2Facts DEF Rounds
        <5>2. N[u] = b.node[u].sg[1 - b.pre_iteration]
          BY <2>1 DEF RoundSegs
        <5> QED
          BY <1>7, <2>1, <5>1, <5>2 DEF Marks
      <4> QED
        BY <3>2, <4>1
    <3> QED
      BY <2>2, <3>1, <3>2, <3>3 DEF Fresh
  <2> QED
    BY <1>1, <1>4, <2>1, <2>2, <2>3, RaisedFresh
<1>12. Gap(R, N, L \ {t})
  <2>1. SUFFICES ASSUME NEW u \in L \ {t}, NEW i \in SegIds, i # Latest(R, u), R.seg[i].vc[u] >= ClockOf(R, u)[u]
                 PROVE  Above(R, N, R.seg[i].vc)
    BY DEF Gap, Above
  <2>2. u \in Threads /\ u # t /\ u \in L /\ S.list[u] # <<>>
    OBVIOUS
  <2>3. CASE i = Latest(S, t)
    BY <1>2, <1>3, <1>6, <2>3
  <2>4. CASE i # Latest(S, t)
    <3>1. ClockOf(R, u) = ClockOf(S, u) /\ Latest(R, u) = Latest(S, u)
      BY <1>5, <2>2
    <3>2. ClockOf(S, u)[u] \in Nat /\ ClockOf(S, u)[u] >= 1
      BY <1>1, <2>2, AliveCount
    <3>3. R.seg[i].vc[u] # 0
      BY <2>1, <3>1, <3>2
    <3>4. R.seg[i].vc = S.seg[i].vc
      BY <1>6, <2>2, <2>4, <3>3
    <3>5. Above(S, N, S.seg[i].vc)
      BY <1>1, <2>1, <2>2, <3>1, <3>4 DEF Gap, Above
    <3>6. S.seg[i].vc \in Clock
      BY <1>1, ClockFields
    <3> QED
      BY <1>3, <3>4, <3>5, <3>6
  <2> QED
    BY <2>3, <2>4
<1>13. Lead(R, N, L \ {t})
  <2>1. SUFFICES ASSUME L \ {t} # {}, 1 \notin L \ {t} PROVE N[1] # Null /\ Above(R, N, R.seg[N[1]].vc)
    BY DEF Lead, Above
  <2>2. CASE t = 1
    BY <1>2, <1>3, <1>6, <2>2
  <2>3. CASE t # 1
    <3>1. L # {} /\ 1 \notin L /\ 1 \in Threads
      BY <2>1, <2>3, ThreadsAre
    <3>2. N[1] # Null /\ Above(S, N, S.seg[N[1]].vc)
      BY <1>7, <3>1 DEF Spread, Lead, Above
    <3>3. R.seg[N[1]].vc = S.seg[N[1]].vc /\ S.seg[N[1]].vc \in Clock
      BY <1>1, <1>3, <2>3, <3>1, <3>2, ClockFields DEF Referred
    <3> QED
      BY <1>3, <3>2, <3>3
  <2> QED
    BY <2>2, <2>3
<1> QED
  BY <1>8, <1>9, <1>10, <1>11, <1>12, <1>13 DEF Spread, Dispersed
LEMMA GatheredTold ==
  ASSUME NEW S, NEW mx, NEW b, NEW x, NEW N, N = RoundSegs(b), NEW t, NEW L,
         Leaving(S, N, x, t, L), NEW R, Gathered(S, R, N, x, t, DRD_N_THREADS - 1),
         \A m \in Mutexes : mx[m].last_locked_segment # Null =>
              R.seg[mx[m].last_locked_segment].vc = S.seg[mx[m].last_locked_segment].vc,
         NEW E, NEW at, NEW P, NEW U, NEW Q, Told(S, E, at, P, mx, U, b, L, Q), NEW P2, Learnt(P, P2, t, Q), NEW L2
  PROVE  Told(R, E, at, P2, mx, U, b, L2, Q)
PROOF
<1>1. /\ S \in DState /\ Listed(S.list) /\ InOrder(S) /\ t \in Threads /\ S.list[t] # <<>>
      /\ Referred(N, x) /\ N[t] = Latest(S, t) /\ t \in L
  BY DEF Leaving
<1>2. Topped(S, R, x, t) /\ Above(S, N, ClockOf(R, t)) /\ R.seg[N[t]].vc = ClockOf(R, t) /\ N[t] # Null
      /\ \A v \in Threads : N[v] # Null /\ v # t => R.seg[N[v]].vc = S.seg[N[v]].vc
  BY GatheredClocks
<1>3. Raised(S, R, x, t) /\ \A v \in Threads : \E u \in Threads : N[u] # Null /\ ClockOf(R, t)[v] = S.seg[N[u]].vc[v]
  BY DEF Gathered
<1>4. Dates(E, at) /\ Heard(S, E, at, P) /\ HeardOf(S, E, at, N, Q)
  BY <1>1 DEF Told
<1>5. ASSUME NEW e \in E PROVE Known(at, e, ClockOf(R, t)) <=> e \in Q
  <2>1. e.thread \in Threads /\ at[e] \in Nat
    BY <1>4, DatesNat
  <2>2. ASSUME Known(at, e, ClockOf(R, t)) PROVE e \in Q
    <3>1. PICK u \in Threads : N[u] # Null /\ ClockOf(R, t)[e.thread] = S.seg[N[u]].vc[e.thread]
      BY <1>3, <2>1
    <3>2. Known(at, e, S.seg[N[u]].vc)
      BY <2>2, <3>1 DEF Known
    <3> QED
      BY <1>4, <3>1, <3>2 DEF HeardOf
  <2>3. ASSUME e \in Q PROVE Known(at, e, ClockOf(R, t))
    <3>1. PICK v \in Threads : N[v] # Null /\ Known(at, e, S.seg[N[v]].vc)
      BY <1>4, <2>3 DEF HeardOf
    <3>2. S.seg[N[v]].vc[e.thread] <= ClockOf(R, t)[e.thread]
      BY <1>2, <2>1, <3>1 DEF Above, vc_lte
    <3>3. S.seg[N[v]].vc[e.thread] \in Nat /\ ClockOf(R, t)[e.thread] \in Nat
      <4>1. N[v] \in SegIds /\ ClockOf(R, t) \in Clock
        BY <1>1, <1>2, <3>1 DEF Referred, Topped
      <4> QED
        BY <1>1, <2>1, <4>1, ClockFields DEF Clock
    <3> QED
      BY <2>1, <3>1, <3>2, <3>3 DEF Known
  <2> QED
    BY <2>2, <2>3
<1>6. \A e : e \in Q => e \in E
  BY <1>4 DEF HeardOf
<1>7. \A e \in E : Known(at, e, ClockOf(S, t)) => e \in Q
  <2>1. ClockOf(S, t) = S.seg[N[t]].vc
    BY <1>1 DEF ClockOf
  <2> QED
    BY <1>1, <1>2, <1>4, <2>1 DEF HeardOf
<1>8. News(S, R, E, at, t, Q)
  BY <1>5, <1>6, <1>7 DEF News
<1>9. Heard(R, E, at, P2)
  BY <1>1, <1>3, <1>4, <1>8, RaisedHeard
<1>10. HeardOf(R, E, at, N, Q)
  <2>1. ASSUME NEW e \in E PROVE e \in Q <=> \E v \in Threads : N[v] # Null /\ Known(at, e, R.seg[N[v]].vc)
    <3>1. ASSUME e \in Q PROVE \E v \in Threads : N[v] # Null /\ Known(at, e, R.seg[N[v]].vc)
      BY <1>1, <1>2, <1>5, <3>1
    <3>2. ASSUME NEW v \in Threads, N[v] # Null, Known(at, e, R.seg[N[v]].vc) PROVE e \in Q
      <4>1. CASE v = t
        BY <1>2, <1>5, <3>2, <4>1
      <4>2. CASE v # t
        BY <1>2, <1>4, <3>2, <4>2 DEF HeardOf
      <4> QED
        BY <4>1, <4>2
    <3> QED
      BY <3>1, <3>2
  <2> QED
    BY <1>6, <2>1 DEF HeardOf
<1>11. \A m \in Mutexes : HeardAt(R, E, at, mx[m].last_locked_segment, U[m])
  BY DEF Told, HeardAt
<1> QED
  BY <1>4, <1>9, <1>10, <1>11 DEF Told

SameNodes(b, b2) ==
  \A v \in Threads : b2.node[v].sg = b.node[v].sg /\ (b2.node[v].present <=> b.node[v].present)

Departs(b, b2) ==
  /\ SameNodes(b, b2) /\ b2.pre_iteration = b.pre_iteration /\ b2.pre_waiters_left = b.pre_waiters_left
  /\ b2.post_iteration = IF b.post_waiters_left = 1 THEN 1 - b.post_iteration ELSE b.post_iteration
  /\ b2.post_waiters_left = IF b.post_waiters_left = 1 THEN BarrierCount ELSE b.post_waiters_left - 1

LeftGate(w, w2, a, b2, t) ==
  /\ Gate(w2, a, b2) /\ w[t] = a.round /\ t \in Leavers(w, a.round) /\ t \notin Comers(w, a.round)
  /\ Comers(w2, a.round) = Comers(w, a.round) /\ Leavers(w2, a.round) = Leavers(w, a.round) \ {t}

LEMMA LeaveGate ==
  ASSUME NEW w, NEW w2, NEW a, NEW b, NEW b2, a.round \in Nat, w \in [Threads -> Nat], Gate(w, a, b), NEW t \in Threads,
         w[t] # None, w[t] <= a.round, w2 = [w EXCEPT ![t] = None], b.pre_iteration \in Rounds, Departs(b, b2)
  PROVE  LeftGate(w, w2, a, b2, t)
PROOF
<1> DEFINE C == Comers(w, a.round)
           L == Leavers(w, a.round)
           C2 == Comers(w2, a.round)
           L2 == Leavers(w2, a.round)
<1>0. /\ SameNodes(b, b2) /\ b2.pre_iteration = b.pre_iteration /\ b2.pre_waiters_left = b.pre_waiters_left
      /\ b2.post_iteration = IF b.post_waiters_left = 1 THEN 1 - b.post_iteration ELSE b.post_iteration
      /\ b2.post_waiters_left = IF b.post_waiters_left = 1 THEN BarrierCount ELSE b.post_waiters_left - 1
  BY DEF Departs
<1>1. w2[t] = None /\ \A u \in Threads : u # t => w2[u] = w[u]
  OBVIOUS
<1>2. w[t] = a.round /\ ~ (w[t] > a.round)
  BY DEF Gate
<1>3. t \in L /\ t \notin C
  BY <1>2 DEF Comers, Leavers
<1>4. C2 = C /\ L2 = L \ {t}
  <2>1. \A u \in Threads : (u \in C2 <=> u \in C) /\ (u \in L2 <=> u \in L /\ u # t)
    BY <1>1, <1>2 DEF Comers, Leavers
  <2> QED
    BY <2>1 DEF Comers, Leavers
<1>5. /\ C = Comers(w, a.round) /\ L = Leavers(w, a.round)
      /\ C2 = Comers(w2, a.round) /\ L2 = Leavers(w2, a.round)
  OBVIOUS
<1> HIDE DEF C, L, C2, L2
<1>6. IsFiniteSet(L) /\ Cardinality(L) \in Nat
  BY <1>5, GateCounts
<1>7. IsFiniteSet(L \ {t}) /\ Cardinality(L \ {t}) = Cardinality(L) - 1
  BY <1>3, <1>6, FS_RemoveElement
<1>8. L2 = {} <=> Cardinality(L) = 1
  <2>1. L2 = {} <=> Cardinality(L2) = 0
    BY <1>4, <1>7, FS_EmptySet
  <2> QED
    BY <1>4, <1>6, <1>7, <2>1
<1>9. /\ \A u \in Threads : w[u] # None => u \in Participants /\ w[u] \in {a.round, a.round + 1}
      /\ a.n = Cardinality(C) /\ a.n < BarrierCount /\ b.pre_waiters_left = BarrierCount - a.n
      /\ L # {} => b.post_iteration = 1 - b.pre_iteration /\ b.post_waiters_left = Cardinality(L)
      /\ \A u \in Threads : b.node[u].present => u \in Participants
      /\ \A u \in Threads : ~ b.node[u].present => \A r \in Rounds : b.node[u].sg[r] = Null
  BY <1>5 DEF Gate
<1>10. b.post_iteration = 1 - b.pre_iteration /\ b.post_waiters_left = Cardinality(L) /\ 1 - (1 - b.pre_iteration) = b.pre_iteration
  BY <1>3, <1>9 DEF Rounds
<1>11. L2 = {} => b2.post_iteration = b2.pre_iteration /\ b2.post_waiters_left = BarrierCount
  BY <1>0, <1>8, <1>10
<1>12. L2 # {} => b2.post_iteration = 1 - b2.pre_iteration /\ b2.post_waiters_left = Cardinality(L2)
  BY <1>0, <1>4, <1>7, <1>8, <1>10
<1>13. \A u \in Threads : w2[u] # None => u \in Participants /\ w2[u] \in {a.round, a.round + 1}
  BY <1>1, <1>9
<1>14. Gate(w2, a, b2)
  <2>1. a.n = Cardinality(Comers(w2, a.round)) /\ a.n < BarrierCount /\ b2.pre_waiters_left = BarrierCount - a.n
    BY <1>0, <1>4, <1>5, <1>9
  <2>2. /\ Leavers(w2, a.round) = {} => b2.post_iteration = b2.pre_iteration /\ b2.post_waiters_left = BarrierCount
        /\ Leavers(w2, a.round) # {} => /\ b2.post_iteration = 1 - b2.pre_iteration
                                        /\ b2.post_waiters_left = Cardinality(Leavers(w2, a.round))
    BY <1>5, <1>11, <1>12
  <2>3. /\ \A u \in Threads : b2.node[u].present => u \in Participants
        /\ \A u \in Threads : ~ b2.node[u].present => \A r \in Rounds : b2.node[u].sg[r] = Null
    BY <1>0, <1>9 DEF SameNodes
  <2> QED
    BY <1>13, <2>1, <2>2, <2>3 DEF Gate
<1> QED
  BY <1>2, <1>3, <1>4, <1>5, <1>14 DEF LeftGate
LEMMA SameBarrier ==
  ASSUME NEW b, NEW b2, SameNodes(b, b2), b2.pre_iteration = b.pre_iteration
  PROVE  /\ RoundSegs(b2) = RoundSegs(b)
         /\ \A S, mx, C, L : \A X \in SUBSET Threads : Marks(S, mx, b, C, L, X) => Marks(S, mx, b2, C, L, X)
         /\ \A S, E, at, P, mx, U, L, Q : Record(S, E, at, P, mx, U, b, L, Q) => Record(S, E, at, P, mx, U, b2, L, Q)
PROOF
<1>1. RoundSegs(b2) = RoundSegs(b)
  BY DEF RoundSegs, SameNodes
<1>2. ASSUME NEW S, NEW mx, NEW C, NEW L, NEW X \in SUBSET Threads, Marks(S, mx, b, C, L, X) PROVE Marks(S, mx, b2, C, L, X)
  BY <1>2 DEF Marks, SameNodes
<1>3. ASSUME NEW S, NEW E, NEW at, NEW P, NEW mx, NEW U, NEW L, NEW Q, Record(S, E, at, P, mx, U, b, L, Q)
      PROVE  Record(S, E, at, P, mx, U, b2, L, Q)
  BY <1>1, <1>3 DEF Record, Told
<1> QED
  BY <1>1, <1>2, <1>3

LEMMA BarrierPostWaitPlot ==
  ASSUME TypeOK, Held, Ranked, PlotNow, NEW t \in Threads, BarrierPostWait(t), TypeOK', Held'
  PROVE  PlotNow'
PROOF
<1> DEFINE S == Scheduled(t)
           x == Ext(mutex, barrier)
           N == RoundSegs(barrier)
           R == combine_others(t)[DRD_N_THREADS - 1]
           X == thread_new_segment(R, t)
           c == arrived.round
           C == Comers(waiting, c)
           L == Leavers(waiting, c)
           L2 == Leavers(waiting', c)
           Q == arrived.past[c - 1]
<1>24. waiting[t] # None /\ waiting[t] # Gone /\ waiting[t] <= c /\ barrier.exists
  <2>1. waiting[t] # None /\ (waiting[t] <= c \/ waiting[t] = Gone)
    BY PostWaitCases DEF Released
  <2>2. waiting[t] \in {c, c + 1}
    BY <2>1 DEF PlotNow, Plot, Gate
  <2>3. c \in Nat /\ c <= MaxSyncs /\ MaxSyncs \in Nat /\ waiting[t] \in Nat
    BY SizesAssumption DEF TypeOK, ArrivedRec
  <2>4. waiting[t] # Gone
    BY <2>2, <2>3 DEF Gone
  <2>5. c # 0
    BY <2>1, <2>3, <2>4 DEF None
  <2> QED
    BY <2>1, <2>4, <2>5 DEF Held
<1>1. /\ waiting[t] # None /\ waiting[t] <= c /\ SegmentsLeft(t) /\ HasRoom(seg, t) /\ Become(X)
      /\ waiting' = [waiting EXCEPT ![t] = None]
      /\ past' = [past EXCEPT ![t] = @ \cup arrived.past[waiting[t] - 1]]
      /\ UNCHANGED <<s_segment_merging, mutex, syncs, made, unlocked, arrived>>
  <2>1. PostWaited(t)
    BY <1>24, PostWaitCases
  <2>2. PastAfterWait(t) = past[t] \cup arrived.past[waiting[t] - 1]
    BY <1>24 DEF PastAfterWait
  <2> QED
    BY <1>24, <2>1, <2>2, PostWaitCases DEF PostWaited
<1>2. status[t] # "none"
  BY <1>1 DEF Held
<1>4. Entry(S, t)
  BY <1>2, Entered
<1>5. /\ S \in DState /\ S.seg = seg /\ S.list = list /\ S.run = t /\ S.list[t] # <<>>
      /\ Owned(S.seg, S.list, x) /\ Listed(S.list) /\ InOrder(S) /\ Informed(S) /\ Refs2(mutex, barrier, x)
      /\ L \in SUBSET Threads /\ \A u \in L : S.list[u] # <<>>
  BY <1>4, EntryIs
<1>6. Gate(waiting, arrived, barrier) /\ Scene(S, mutex, barrier, C, L) /\ Arrivals(past, C, arrived.past[c])
  BY <1>4, EntryIs
<1>7. PICK at : /\ Record(S, made, at, past, mutex, unlocked, barrier, L, Q)
                /\ Stamped(S, made, at, waiting, syncs) /\ Hits(S, made, at)
  BY <1>4, EntryIs
<1>8. barrier.pre_iteration \in Rounds /\ c \in Nat /\ waiting \in [Threads -> Nat] /\ past \in [Threads -> SUBSET Event]
  BY DEF TypeOK, BarrierRec, ArrivedRec
<1>3. Departs(barrier, barrier') /\ SameNodes(barrier, barrier') /\ barrier'.pre_iteration = barrier.pre_iteration
  <2>1. 1 - barrier.pre_iteration \in Rounds /\ t \in L
    BY <1>1, <1>8 DEF Rounds, Leavers
  <2>2. Latest(S, t) # Null
    <3>1. Latest(S, t) \in SegIds
      BY <1>5, LatestIs
    <3> QED
      BY <3>1, ThreadsAre DEF Null
  <2> HIDE DEF S, C, L
  <2>3. barrier.node[t].sg[1 - barrier.pre_iteration] = Latest(S, t)
    BY <1>5, <1>6, <2>1 DEF Marks, Scene
  <2>4. barrier.node[t].present
    BY <1>6, <2>1, <2>2, <2>3 DEF Gate
  <2>5. SameNodes(barrier, barrier')
    BY <1>24, <2>4, LeaveIs DEF SameNodes
  <2> QED
    BY <1>24, <2>5, LeaveIs DEF Departs
<1>9. /\ Gate(waiting', arrived, barrier') /\ waiting[t] = c /\ t \in L /\ t \notin C
      /\ Comers(waiting', c) = C /\ L2 = L \ {t}
  <2>1. LeftGate(waiting, waiting', arrived, barrier', t)
    <3>1. arrived.round \in Nat /\ waiting[t] <= arrived.round
      BY <1>1, <1>8
    <3> QED
      BY <1>1, <1>3, <1>6, <1>8, <3>1, LeaveGate
  <2> QED
    BY <2>1 DEF LeftGate
<1> HIDE DEF S, C, L, L2, Q, x, R
<1>10. Leaving(S, N, x, t, L)
  <2>1. Referred(N, x) /\ \A v \in Threads : N[v] # Null => N[v][1] = v
    <3>1. 1 - barrier.pre_iteration \in Rounds
      BY <1>8 DEF Rounds
    <3> QED
      BY <1>5, <3>1, Refs2Facts DEF Refs2, RoundSegs
  <2>2. N[t] = Latest(S, t)
    <3>1. 1 - barrier.pre_iteration \in Rounds
      BY <1>8 DEF Rounds
    <3>2. Marks(S, mutex, barrier, C, L, Threads)
      BY <1>6 DEF Scene
    <3>3. barrier.node[t].sg[1 - barrier.pre_iteration] = Latest(S, t)
      BY <1>5, <1>9, <3>1, <3>2 DEF Marks
    <3> QED
      BY <3>3 DEF RoundSegs
  <2>3. Gap(S, N, L)
    BY <1>6 DEF Scene, Spread
  <2> QED
    BY <1>5, <1>9, <2>1, <2>2, <2>3 DEF Leaving
<1>11. Gathered(S, R, N, x, t, DRD_N_THREADS - 1)
  <2>1. barrier.post_iteration = 1 - barrier.pre_iteration /\ 1 - barrier.pre_iteration \in Rounds
    BY <1>6, <1>8, <1>9 DEF Gate, L, Rounds
  <2>2. ASSUME NEW u \in Threads, u # t
        PROVE  /\ u \in Others(t) => N[u] # Null /\ N[u] = barrier.node[u].sg[barrier.post_iteration]
               /\ u \notin Others(t) => N[u] = Null
    <3>1. N[u] = barrier.node[u].sg[barrier.post_iteration]
      BY <2>1 DEF RoundSegs
    <3>2. ~ barrier.node[u].present => N[u] = Null
      BY <1>6, <2>1, <3>1 DEF Gate
    <3> QED
      BY <1>1, <2>2, <3>1, <3>2 DEF SegmentsLeft, Others
  <2> QED
    BY <1>10, <2>2, CombineGathers DEF S, R
<1>12. /\ RoundSegs(barrier') = N
       /\ \A T, mx, D, M : \A Y \in SUBSET Threads : Marks(T, mx, barrier, D, M, Y) => Marks(T, mx, barrier', D, M, Y)
       /\ \A T, E, a, P, mx, U, M, V : Record(T, E, a, P, mx, U, barrier, M, V) => Record(T, E, a, P, mx, U, barrier', M, V)
  BY <1>3, SameBarrier
<1>23. N = RoundSegs(barrier)
  OBVIOUS
<1> HIDE DEF N
<1>13. /\ Marks(R, mutex, barrier', C, L2, Threads \ {t}) /\ Knows(R, mutex) /\ Spread(R, N, L2, Threads \ {t})
       /\ \A m \in Mutexes : mutex[m].last_locked_segment # Null =>
            R.seg[mutex[m].last_locked_segment].vc = S.seg[mutex[m].last_locked_segment].vc
  <2>1. Dispersed(S, R, mutex, barrier, N, C, L \ {t}, t)
    BY <1>5, <1>6, <1>9, <1>10, <1>11, <1>23, GatheredScene
  <2> QED
    BY <1>9, <1>12, <2>1 DEF Dispersed
<1>14. Learnt(past, past', t, Q)
  <2>1. past'[t] = past[t] \cup Q
    BY <1>1, <1>8, <1>9 DEF Q
  <2>2. \A u \in Threads : u # t => past'[u] = past[u]
    BY <1>1, <1>8
  <2> QED
    BY <2>1, <2>2 DEF Learnt
<1>15. Record(R, made, at, past', mutex, unlocked, barrier', L2, Q)
  <2>1. Told(S, made, at, past, mutex, unlocked, barrier, L, Q)
    BY <1>7 DEF Record
  <2>2. Told(R, made, at, past', mutex, unlocked, barrier, L2, Q)
    BY <1>10, <1>11, <1>13, <1>14, <1>23, <2>1, GatheredTold
  <2>3. Record(S, made, at, past, mutex, unlocked, barrier, L2, Q)
    BY <1>7, <1>9 DEF Record, Told
  <2>4. Raised(S, R, x, t)
    BY <1>11 DEF Gathered
  <2>5. Record(R, made, at, past', mutex, unlocked, barrier, L2, Q)
    BY <1>5, <2>2, <2>3, <2>4, RaisedRecord
  <2> QED
    BY <1>12, <2>5
<1>16. /\ R \in DState /\ Owned(R.seg, R.list, x) /\ InOrder(R) /\ Informed(R) /\ R.list[t] # <<>> /\ R.run = t
       /\ HasRoom(R.seg, t) /\ \A u \in Threads : R.list[u] = <<>> <=> S.list[u] = <<>>
       /\ \A u \in Threads : S.list[u] # <<>> /\ u # t => ClockOf(R, u) = ClockOf(S, u)
  BY <1>1, <1>5, <1>11 DEF Gathered, Raised, Steady
<1>17. Refs2(mutex, barrier', x)
  <2>1. Ext(mutex, barrier') = x
    BY <1>3, ExtSame DEF x, SameNodes
  <2>2. barrier' \in BarrierRec
    BY DEF TypeOK
  <2> QED
    BY <1>3, <1>5, <2>1, <2>2 DEF Refs2, SameNodes
<1>18. L2 \in SUBSET Threads /\ t \notin L2 /\ \A u \in L2 : R.list[u] # <<>>
  BY <1>5, <1>9, <1>16
<1>19. X \in DState /\ Scene(X, mutex, barrier', C, L2) /\ Record(X, made, at, past', mutex, unlocked, barrier', L2, Q)
       /\ Hits(X, made, at)
  BY <1>9, <1>12, <1>13, <1>15, <1>16, <1>17, <1>18, StepEnds
<1>20. Stamped(X, made, at, waiting', syncs)
  <2>1. \A u \in Threads : u # t /\ R.list[u] # <<>> => ClockOf(X, u) = ClockOf(R, u)
    BY <1>16, NewSegmentOrder
  <2>2. ASSUME NEW e \in made
        PROVE  e.when <= syncs /\ (e.when = syncs => at[e] = ClockOf(X, e.thread)[e.thread] /\ waiting'[e.thread] = None)
    <3>1. e.thread \in Threads /\ S.list[e.thread] # <<>>
      BY <1>7, DatesNat DEF Record, Told, Heard
    <3>2. e.when <= syncs /\ (e.when = syncs => at[e] = ClockOf(S, e.thread)[e.thread] /\ waiting[e.thread] = None)
      BY <1>7 DEF Stamped
    <3>3. waiting[e.thread] = None => e.thread # t /\ waiting'[e.thread] = None
      BY <1>1, <1>8, <3>1
    <3>4. e.thread # t => ClockOf(X, e.thread) = ClockOf(S, e.thread)
      BY <1>16, <2>1, <3>1
    <3> QED
      BY <3>2, <3>3, <3>4
  <2> QED
    BY <2>2 DEF Stamped
<1>21. Arrivals(past', C, arrived.past[c])
  <2>1. \A u \in C : past'[u] = past[u]
    BY <1>9, <1>14 DEF Learnt, C, Comers
  <2> QED
    BY <1>6, <2>1 DEF Arrivals
<1> HIDE DEF X
<1>22. Plot(X, made', past', mutex', unlocked', barrier', waiting', arrived', syncs')
  BY <1>1, <1>9, <1>19, <1>20, <1>21 DEF Plot, Chronicle, L2, Q
<1> QED
  BY <1>1, <1>19, <1>22, BecomePlot
-----------------------------------------------------------------------------
(* Accesses                                                                *)

Adds(S, X, t, a) ==
  /\ X \in DState /\ X.list = S.list /\ X.run = S.run /\ X.cset = S.cset
  /\ \A i \in SegIds : /\ X.seg[i].vc = S.seg[i].vc
                       /\ X.seg[i].bm = IF i = Latest(S, t) THEN S.seg[i].bm \cup {a} ELSE S.seg[i].bm

(* The event e of t is dated with t's own count. *)
Dated(S, E, E2, at, at2, e, t, a) ==
  /\ e \in Event /\ e.thread = t /\ e.access = a /\ E2 = E \cup {e}
  /\ at2 \in [Event -> Nat] /\ at2[e] = ClockOf(S, t)[t] /\ \A d \in E : at2[d] = at[d]

(* Nothing but t's list refers to t's latest segment. *)
Private(S, mx, b, t) ==
  /\ \A m \in Mutexes : mx[m].last_locked_segment # Latest(S, t)
  /\ \A v \in Threads : RoundSegs(b)[v] # Latest(S, t)

LEMMA AccessRecord ==
  ASSUME NEW S \in DState, Listed(S.list), InOrder(S), NEW t \in Threads, S.list[t] # <<>>, Fresh(S, t), S.list[S.run] # <<>>,
         NEW a, NEW X, Adds(S, X, t, a), NEW E, NEW E2, NEW at, NEW at2, NEW e, Dated(S, E, E2, at, at2, e, t, a),
         NEW mx, NEW b, NEW x, Refs2(mx, b, x), Private(S, mx, b, t),
         NEW P, NEW U, NEW L, NEW Q, Record(S, E, at, P, mx, U, b, L, Q), NEW P2, Learnt(P, P2, t, {e}), Hits(S, E, at)
  PROVE  Record(X, E2, at2, P2, mx, U, b, L, Q) /\ Hits(X, E2, at2)
PROOF
<1> DEFINE j == Latest(S, t)
<1>1. /\ X \in DState /\ X.list = S.list /\ X.run = S.run /\ X.cset = S.cset
      /\ \A i \in SegIds : /\ X.seg[i].vc = S.seg[i].vc
                           /\ X.seg[i].bm = IF i = j THEN S.seg[i].bm \cup {a} ELSE S.seg[i].bm
  BY DEF Adds
<1>2. /\ e \in Event /\ e.thread = t /\ e.access = a /\ E2 = E \cup {e}
      /\ at2 \in [Event -> Nat] /\ at2[e] = ClockOf(S, t)[t] /\ \A d \in E : at2[d] = at[d]
  BY DEF Dated
<1>3. j \in SegIds /\ j[1] = t /\ InList(S.list, j) /\ S.seg[j].vc = ClockOf(S, t) /\ ClockOf(S, t)[t] \in Nat
  BY AliveCount
<1>4. \A u \in Threads : Latest(X, u) = Latest(S, u) /\ (S.list[u] # <<>> => ClockOf(X, u) = ClockOf(S, u))
  <2>1. \A u \in Threads : Latest(X, u) = Latest(S, u)
    BY <1>1 DEF Latest
  <2> QED
    BY <1>1, <2>1, LatestIs DEF ClockOf
<1>5. \A i \in SegIds : i # j => ~ Known(at2, e, S.seg[i].vc)
  <2>1. ASSUME NEW i \in SegIds, i # j PROVE ~ Known(at2, e, S.seg[i].vc)
    <3>1. S.seg[i].vc[t] < ClockOf(S, t)[t] /\ S.seg[i].vc[t] \in Nat
      BY <2>1, ClockFields DEF Fresh
    <3> QED
      BY <1>2, <1>3, <3>1 DEF Known
  <2> QED
    BY <2>1
<1>6. \A d \in E : \A vc : Known(at2, d, vc) <=> Known(at, d, vc)
  BY <1>2 DEF Known
<1>7. Told(S, E, at, P, mx, U, b, L, Q) /\ Evident(S, E, at) /\ Kept(S, E, at, s_segment_merging)
  BY DEF Record
<1>8. Dates(E, at) /\ Heard(S, E, at, P)
  BY <1>7 DEF Told
<1>9. Dates(E2, at2)
  BY <1>2, <1>8 DEF Dates
<1> HIDE DEF j
<1>10. Heard(X, E2, at2, P2)
  <2>1. ASSUME NEW d \in E2 PROVE X.list[d.thread] # <<>> /\ Known(at2, d, ClockOf(X, d.thread))
    <3>1. CASE d = e
      BY <1>1, <1>2, <1>3, <1>4, <3>1 DEF Known
    <3>2. CASE d \in E
      <4>1. d.thread \in Threads /\ S.list[d.thread] # <<>> /\ Known(at, d, ClockOf(S, d.thread))
        BY <1>8, <3>2, DatesNat DEF Heard
      <4> QED
        BY <1>1, <1>4, <1>6, <3>2, <4>1
    <3> QED
      BY <1>2, <2>1, <3>1, <3>2
  <2>2. ASSUME NEW u \in Threads, NEW d
        PROVE  d \in P2[u] <=> d \in E2 /\ X.list[u] # <<>> /\ Known(at2, d, ClockOf(X, u))
    <3>0. d \in P[u] <=> d \in E /\ S.list[u] # <<>> /\ Known(at, d, ClockOf(S, u))
      BY <1>8 DEF Heard
    <3>1. CASE u = t
      <4>1. P2[u] = P[u] \cup {e} /\ Known(at2, e, ClockOf(S, t))
        BY <1>2, <1>3, <3>1 DEF Learnt, Known
      <4> QED
        BY <1>1, <1>2, <1>4, <1>6, <3>0, <3>1, <4>1
    <3>2. CASE u # t
      <4>1. P2[u] = P[u]
        BY <3>2 DEF Learnt
      <4>2. S.list[u] # <<>> => ~ Known(at2, e, ClockOf(S, u))
        <5>1. S.list[u] # <<>> => Latest(S, u) \in SegIds /\ Latest(S, u) # j
          BY <1>3, <3>2, LatestIs
        <5> QED
          BY <1>5, <5>1 DEF ClockOf
      <4>3. d = e => d \notin P[u]
        BY <1>6, <3>0, <4>2
      <4> QED
        BY <1>1, <1>2, <1>4, <1>6, <3>0, <4>1, <4>2, <4>3
    <3> QED
      BY <3>1, <3>2
  <2> QED
    BY <2>1, <2>2 DEF Heard
<1>11. ASSUME NEW m \in Mutexes PROVE HeardAt(X, E2, at2, mx[m].last_locked_segment, U[m])
  <2> DEFINE i == mx[m].last_locked_segment
  <2>1. i # Null => i \in SegIds /\ i # j
    BY Refs2Facts DEF Private, j
  <2>2. HeardAt(S, E, at, i, U[m])
    BY <1>7 DEF Told
  <2> HIDE DEF i
  <2>3. i # Null => ~ Known(at2, e, S.seg[i].vc) /\ X.seg[i].vc = S.seg[i].vc
    BY <1>1, <1>5, <2>1
  <2>4. HeardAt(X, E2, at2, i, U[m])
    BY <1>2, <1>6, <2>2, <2>3 DEF HeardAt
  <2> QED
    BY <2>4 DEF i
<1>12. L # {} => HeardOf(X, E2, at2, RoundSegs(b), Q)
  <2> DEFINE N == RoundSegs(b)
  <2>1. \A v \in Threads : N[v] # Null => N[v] \in SegIds /\ N[v] # j
    BY Refs2Facts DEF Private, j, Referred
  <2>2. L # {} => HeardOf(S, E, at, N, Q)
    BY <1>7 DEF Told
  <2> HIDE DEF N
  <2>3. \A v \in Threads : N[v] # Null => ~ Known(at2, e, S.seg[N[v]].vc) /\ X.seg[N[v]].vc = S.seg[N[v]].vc
    BY <1>1, <1>5, <2>1
  <2>4. L # {} => HeardOf(X, E2, at2, N, Q)
    BY <1>2, <1>6, <2>2, <2>3 DEF HeardOf
  <2> QED
    BY <2>4 DEF N
<1>13. Evident(X, E2, at2)
  <2>1. SUFFICES ASSUME NEW q \in SegIds, InList(X.list, q), NEW c \in X.seg[q].bm
                 PROVE  \E d \in E2 : d.thread = q[1] /\ d.access = c /\ at2[d] >= Own(X, q)
    BY DEF Evident
  <2>2. Own(X, q) = Own(S, q) /\ InList(S.list, q)
    BY <1>1, <2>1 DEF Own
  <2>3. CASE c \in S.seg[q].bm
    BY <1>2, <1>7, <2>2, <2>3 DEF Evident
  <2>4. CASE c \notin S.seg[q].bm
    <3>1. q = j /\ c = a
      BY <1>1, <2>1, <2>4
    <3>2. Own(X, q) = ClockOf(S, t)[t] /\ e \in E2 /\ e.thread = q[1] /\ e.access = c
      BY <1>2, <1>3, <2>2, <3>1 DEF Own
    <3> QED
      BY <1>2, <1>3, <3>2
  <2> QED
    BY <2>3, <2>4
<1>14. Kept(X, E2, at2, s_segment_merging)
  <2>1. SUFFICES ASSUME NEW d \in E2, NEW u \in Threads, u # d.thread, X.list[u] # <<>>, ~ Known(at2, d, ClockOf(X, u))
                 PROVE  \E q \in SegIds : /\ InList(X.list, q) /\ q[1] = d.thread /\ d.access \in X.seg[q].bm
                                          /\ ~ s_segment_merging => Own(X, q) = at2[d]
    BY DEF Kept
  <2>2. CASE d = e
    <3>1. Own(X, j) = at2[d] /\ d.access \in X.seg[j].bm
      BY <1>1, <1>2, <1>3, <2>2 DEF Own
    <3> QED
      BY <1>1, <1>2, <1>3, <2>2, <3>1
  <2>3. CASE d # e
    <3>1. d \in E /\ S.list[u] # <<>> /\ ~ Known(at, d, ClockOf(S, u))
      BY <1>1, <1>2, <1>4, <1>6, <2>1, <2>3
    <3>2. PICK q \in SegIds : /\ InList(S.list, q) /\ q[1] = d.thread /\ d.access \in S.seg[q].bm
                              /\ ~ s_segment_merging => Own(S, q) = at[d]
      BY <1>7, <2>1, <3>1 DEF Kept
    <3>3. InList(X.list, q) /\ d.access \in X.seg[q].bm /\ Own(X, q) = Own(S, q) /\ at2[d] = at[d]
      BY <1>1, <1>2, <3>1, <3>2 DEF Own
    <3> QED
      BY <3>2, <3>3
  <2> QED
    BY <2>2, <2>3
<1>15. Hits(X, E2, at2)
  <2>1. S.run \in Threads
    BY DStateFields
  <2> QED
    BY <1>1, <1>2, <1>4, <2>1 DEF Hits
<1> QED
  BY <1>7, <1>9, <1>10, <1>11, <1>12, <1>13, <1>14, <1>15 DEF Record, Told

LEMMA TraceAccessPlot ==
  ASSUME TypeOK, Held, Ranked, PlotNow, NEW t \in Threads, NEW a \in Access, TraceAccess(t, a), TypeOK', Held'
  PROVE  PlotNow'
PROOF
<1> DEFINE S == Scheduled(t)
           x == Ext(mutex, barrier)
           C == Comers(waiting, arrived.round)
           L == Leavers(waiting, arrived.round)
           Q == arrived.past[arrived.round - 1]
           e == [thread |-> t, when |-> syncs, access |-> a]
<1>1. /\ status[t] # "none" /\ waiting[t] = None
      /\ made' = made \cup {e} /\ past' = [past EXCEPT ![t] = @ \cup {e}]
      /\ UNCHANGED <<s_segment_merging, mutex, barrier, waiting, syncs, unlocked, arrived>>
  BY DEF TraceAccess, InClient
<1>2. t \notin C /\ t \notin L
  BY <1>1, NotWaiting
<1>3. e \in Event /\ e.thread = t /\ e.access = a /\ e.when = syncs
  BY DEF Event, TypeOK
<1>4. PICK X \in DState : Become(X) /\ Traced(X, t, a)
  BY TraceAccessIs
<1>5. Entry(S, t)
  BY <1>1, Entered
<1>6. /\ S \in DState /\ S.seg = seg /\ S.list = list /\ S.run = t /\ S.list[t] # <<>>
      /\ Owned(S.seg, S.list, x) /\ Listed(S.list) /\ InOrder(S) /\ Informed(S) /\ Refs2(mutex, barrier, x)
      /\ L \in SUBSET Threads /\ \A u \in L : S.list[u] # <<>>
  BY <1>5, EntryIs
<1>7. Gate(waiting, arrived, barrier) /\ Scene(S, mutex, barrier, C, L) /\ Arrivals(past, C, arrived.past[arrived.round])
  BY <1>5, EntryIs
<1>8. PICK at : /\ Record(S, made, at, past, mutex, unlocked, barrier, L, Q)
                /\ Stamped(S, made, at, waiting, syncs) /\ Hits(S, made, at)
  BY <1>5, EntryIs
<1>9. Latest(S, t) = Latest(S0, t)
  BY <1>1, HasList
<1>10. Adds(S, X, t, a)
  BY <1>4, <1>6, <1>9 DEF Traced, Adds
<1>11. Owned(X.seg, X.list, x)
  <2>1. Owned(seg', list', Ext(mutex', barrier'))
    BY DEF Held
  <2>2. seg' = X.seg /\ list' = X.list /\ mutex' = mutex /\ barrier' = barrier
    BY <1>1, <1>4 DEF Become
  <2> QED
    BY <2>1, <2>2
<1> HIDE DEF S, C, L, Q, x, e
<1>12. Still(S, X, x)
  BY <1>10, <1>11 DEF Still, Adds
<1>13. /\ Marks(S, mutex, barrier, C, L, Threads) /\ Knows(S, mutex) /\ Spread(S, RoundSegs(barrier), L, Threads)
  BY <1>7 DEF Scene
<1>14. Scene(X, mutex, barrier, C, L)
  <2>1. Informed(X) /\ Marks(X, mutex, barrier, C, L, Threads) /\ Knows(X, mutex) /\ Spread(X, RoundSegs(barrier), L, Threads)
    BY <1>6, <1>12, <1>13, StillScene
  <2> QED
    BY <2>1 DEF Scene
<1>15. Fresh(S, t)
  BY <1>2, <1>6, <1>13 DEF Spread
<1>16. Private(S, mutex, barrier, t)
  <2>1. 1 - barrier.pre_iteration \in Rounds
    BY <1>6, Refs2Facts
  <2>2. \A m \in Mutexes : mutex[m].last_locked_segment # Latest(S, t)
    BY <1>6, <1>13 DEF Marks
  <2>3. barrier.node[t].sg[1 - barrier.pre_iteration] # Latest(S, t)
    BY <1>2, <1>6, <1>13, <2>1 DEF Marks
  <2>4. Latest(S, t)[1] = t /\ Latest(S, t) \in SegIds
    BY <1>6, AliveCount
  <2>5. Latest(S, t) # Null
    BY <2>4, ThreadsAre DEF Null
  <2>6. ASSUME NEW v \in Threads PROVE RoundSegs(barrier)[v] # Latest(S, t)
    <3>1. RoundSegs(barrier)[v] = barrier.node[v].sg[1 - barrier.pre_iteration]
      BY DEF RoundSegs
    <3>2. v # t => barrier.node[v].sg[1 - barrier.pre_iteration] # Latest(S, t)
      BY <1>6, <2>1, <2>4, <2>5 DEF Refs2
    <3> QED
      BY <2>3, <3>1, <3>2
  <2> QED
    BY <2>2, <2>6 DEF Private
<1> DEFINE at2 == [at EXCEPT ![e] = ClockOf(S, t)[t]]
<1>17. Dates(made, at)
  BY <1>8 DEF Record, Told
<1>18. Dated(S, made, made', at, at2, e, t, a)
  <2>1. ClockOf(S, t)[t] \in Nat
    BY <1>6, AliveCount
  <2>2. at2 \in [Event -> Nat] /\ at2[e] = ClockOf(S, t)[t] /\ \A d \in Event : d # e => at2[d] = at[d]
    BY <1>3, <1>17, <2>1 DEF Dates
  <2>3. ASSUME NEW d \in made PROVE at2[d] = at[d]
    <3>1. CASE d = e
      BY <1>3, <1>8, <2>2, <3>1 DEF Stamped
    <3>2. CASE d # e
      BY <1>17, <2>2, <3>2 DEF Dates
    <3> QED
      BY <3>1, <3>2
  <2> HIDE DEF at2
  <2> QED
    BY <1>1, <1>3, <2>2, <2>3 DEF Dated
<1> HIDE DEF at2
<1>19. Learnt(past, past', t, {e})
  BY <1>1 DEF Learnt, TypeOK
<1>20. Record(X, made', at2, past', mutex, unlocked, barrier, L, Q) /\ Hits(X, made', at2)
  BY <1>6, <1>8, <1>10, <1>15, <1>16, <1>18, <1>19, AccessRecord
<1>21. Stamped(X, made', at2, waiting, syncs)
  <2>1. \A u \in Threads : S.list[u] # <<>> => ClockOf(X, u) = ClockOf(S, u)
    BY <1>6, <1>12, StillClocks
  <2>2. \A d \in made : at2[d] = at[d] /\ d.thread \in Threads /\ S.list[d.thread] # <<>>
    BY <1>8, <1>17, <1>18, DatesNat DEF Dated, Record, Told, Heard
  <2>3. at2[e] = ClockOf(S, t)[t]
    BY <1>18 DEF Dated
  <2>4. ASSUME NEW d \in made'
        PROVE  d.when <= syncs /\ (d.when = syncs => at2[d] = ClockOf(X, d.thread)[d.thread] /\ waiting[d.thread] = None)
    <3>1. CASE d = e
      <4>1. syncs <= syncs
        BY DEF TypeOK
      <4> QED
        BY <1>1, <1>3, <1>6, <2>1, <2>3, <3>1, <4>1
    <3>2. CASE d \in made
      BY <1>8, <2>1, <2>2, <3>2 DEF Stamped
    <3> QED
      BY <1>1, <3>1, <3>2
  <2> QED
    BY <2>4 DEF Stamped
<1>22. Arrivals(past', C, arrived.past[arrived.round])
  <2>1. \A u \in C : past'[u] = past[u]
    BY <1>2, <1>19 DEF Learnt, C, Comers
  <2> QED
    BY <1>7, <2>1 DEF Arrivals
<1>23. Plot(X, made', past', mutex', unlocked', barrier', waiting', arrived', syncs')
  BY <1>1, <1>7, <1>14, <1>20, <1>21, <1>22 DEF Plot, Chronicle, C, L, Q
<1> QED
  BY <1>1, <1>4, <1>23, BecomePlot

(* The history without the events F. *)
Forgotten(F, E, E2, P, P2, U, U2) ==
  /\ E2 = E \ F
  /\ \A t \in Threads : P2[t] = P[t] \ F
  /\ \A m \in Mutexes : U2[m] = U[m] \ F

LEMMA ForgottenTold ==
  ASSUME NEW F, NEW E, NEW E2, NEW P, NEW P2, NEW U, NEW U2, Forgotten(F, E, E2, P, P2, U, U2), NEW L, NEW Q, NEW Q2,
         L # {} => Q2 = Q \ F, NEW S, NEW at, NEW mx, NEW b, Told(S, E, at, P, mx, U, b, L, Q)
  PROVE  Told(S, E2, at, P2, mx, U2, b, L, Q2)
PROOF
<1>1. E2 = E \ F /\ (\A t \in Threads : P2[t] = P[t] \ F) /\ (\A m \in Mutexes : U2[m] = U[m] \ F)
  BY DEF Forgotten
<1>2. /\ Dates(E, at) /\ Heard(S, E, at, P)
      /\ \A m \in Mutexes : HeardAt(S, E, at, mx[m].last_locked_segment, U[m])
      /\ L # {} => HeardOf(S, E, at, RoundSegs(b), Q)
  BY DEF Told
<1>3. Dates(E2, at)
  BY <1>1, <1>2 DEF Dates
<1>4. Heard(S, E2, at, P2)
  BY <1>1, <1>2 DEF Heard
<1>5. \A m \in Mutexes : HeardAt(S, E2, at, mx[m].last_locked_segment, U2[m])
  BY <1>1, <1>2 DEF HeardAt
<1>6. L # {} => HeardOf(S, E2, at, RoundSegs(b), Q2)
  BY <1>1, <1>2 DEF HeardOf
<1> QED
  BY <1>3, <1>4, <1>5, <1>6 DEF Told

LEMMA ForgottenArrivals ==
  ASSUME NEW F, NEW E, NEW E2, NEW P, NEW P2, NEW U, NEW U2, Forgotten(F, E, E2, P, P2, U, U2), NEW C \in SUBSET Threads,
         NEW R, NEW R2, R2 = R \ F, Arrivals(P, C, R)
  PROVE  Arrivals(P2, C, R2)
PROOF
BY DEF Arrivals, Forgotten

(* What is forgotten, for the rounds of the barrier. *)
LEMMA ForgetRounds ==
  ASSUME TypeOK, NEW F, NEW p \in [Threads -> SUBSET Event], Forget(F, p), Gate(waiting, arrived, barrier)
  PROVE  /\ Forgotten(F, made, made', p, past', unlocked, unlocked')
         /\ arrived'.round = arrived.round /\ arrived'.n = arrived.n
         /\ arrived'.past[arrived.round] = arrived.past[arrived.round] \ F
         /\ Leavers(waiting, arrived.round) # {} => arrived'.past[arrived.round - 1] = arrived.past[arrived.round - 1] \ F
PROOF
<1>1. /\ arrived'.round = arrived.round /\ arrived'.n = arrived.n
      /\ \A r \in 0 .. MaxSyncs : arrived'.past[r] = arrived.past[r] \ F
  BY ForgetType
<1>2. Forgotten(F, made, made', p, past', unlocked, unlocked')
  BY DEF Forget, Forgotten
<1>3. arrived.round \in 0 .. MaxSyncs
  BY SizesAssumption DEF TypeOK, ArrivedRec
<1>4. Leavers(waiting, arrived.round) # {} => arrived.round - 1 \in 0 .. MaxSyncs
  <2>1. ASSUME NEW u \in Leavers(waiting, arrived.round) PROVE arrived.round # 0
    BY <1>3 DEF Gate, Leavers, None, TypeOK
  <2> QED
    BY <1>3, <2>1, SizesAssumption
<1> QED
  BY <1>1, <1>2, <1>3, <1>4

LEMMA StopUsingMemPlot ==
  ASSUME TypeOK, Held, Ranked, PlotNow, NEW t \in Threads, NEW y \in Addrs, StopUsingMem(t, y), TypeOK', Held'
  PROVE  PlotNow'
PROOF
<1> DEFINE S == Scheduled(t)
           x == Ext(mutex, barrier)
           C == Comers(waiting, arrived.round)
           L == Leavers(waiting, arrived.round)
           Q == arrived.past[arrived.round - 1]
           F == {e \in made : e.access.addr = y}
<1>1. /\ status[t] # "none" /\ waiting[t] = None /\ Forget(F, past)
      /\ UNCHANGED <<s_segment_merging, mutex, barrier, waiting, syncs>>
  BY DEF StopUsingMem, InClient
<1>3. PICK X \in DState : Become(X) /\ Cleared(X, t, y)
  BY StopUsingMemIs
<1>4. Entry(S, t)
  BY <1>1, Entered
<1>5. /\ S \in DState /\ S.seg = seg /\ S.list = list /\ S.run = t /\ S.list[t] # <<>>
      /\ Owned(S.seg, S.list, x) /\ Listed(S.list) /\ InOrder(S) /\ Informed(S) /\ Refs2(mutex, barrier, x)
      /\ L \in SUBSET Threads /\ \A u \in L : S.list[u] # <<>>
  BY <1>4, EntryIs
<1>6. Gate(waiting, arrived, barrier) /\ Scene(S, mutex, barrier, C, L) /\ Arrivals(past, C, arrived.past[arrived.round])
  BY <1>4, EntryIs
<1>7. PICK at : /\ Record(S, made, at, past, mutex, unlocked, barrier, L, Q)
                /\ Stamped(S, made, at, waiting, syncs) /\ Hits(S, made, at)
  BY <1>4, EntryIs
<1>8. /\ X.list = S.list /\ X.run = S.run
      /\ \A i \in SegIds : /\ X.seg[i].vc = S.seg[i].vc
                           /\ InList(S.list, i) => X.seg[i].bm = S.seg[i].bm \ On(S.seg[i].bm, y)
  BY <1>3, <1>5 DEF Cleared
<1>9. \/ X.cset = ConflictSet(X, t)
      \/ X.cset = S.cset /\ \A q \in SegIds : InList(S.list, q) /\ q[1] # t => On(S.seg[q].bm, y) = {}
      \/ X.cset = S.cset /\ On(S.cset, y) = {}
  BY <1>3, <1>5 DEF Cleared
<1>10. Owned(X.seg, X.list, x)
  <2>1. Owned(seg', list', Ext(mutex', barrier'))
    BY DEF Held
  <2>2. seg' = X.seg /\ list' = X.list /\ mutex' = mutex /\ barrier' = barrier
    BY <1>1, <1>3 DEF Become
  <2> QED
    BY <2>1, <2>2
<1>11. /\ Forgotten(F, made, made', past, past', unlocked, unlocked')
       /\ arrived'.round = arrived.round /\ arrived'.n = arrived.n
       /\ arrived'.past[arrived.round] = arrived.past[arrived.round] \ F
       /\ L # {} => arrived'.past[arrived.round - 1] = Q \ F
  <2>1. past \in [Threads -> SUBSET Event]
    BY DEF TypeOK
  <2> QED
    BY <1>1, <1>6, <2>1, ForgetRounds
<1>12. made' = made \ F /\ \A e : e \in made' <=> e \in made /\ e.access.addr # y
  BY <1>11 DEF Forgotten
<1>13. C \in SUBSET Threads /\ Comers(waiting, arrived'.round) = C /\ Leavers(waiting, arrived'.round) = L
  BY <1>11 DEF Comers
<1> HIDE DEF S, C, L, Q, x, F
<1>14. Still(S, X, x)
  BY <1>8, <1>10 DEF Still
<1>15. Scene(X, mutex, barrier, C, L)
  <2>1. Marks(S, mutex, barrier, C, L, Threads) /\ Knows(S, mutex) /\ Spread(S, RoundSegs(barrier), L, Threads)
    BY <1>6 DEF Scene
  <2>2. Informed(X) /\ Marks(X, mutex, barrier, C, L, Threads) /\ Knows(X, mutex) /\ Spread(X, RoundSegs(barrier), L, Threads)
    BY <1>5, <1>14, <2>1, StillScene
  <2> QED
    BY <2>2 DEF Scene
<1>16. \A u \in Threads : S.list[u] # <<>> => ClockOf(X, u) = ClockOf(S, u)
  BY <1>5, <1>14, StillClocks
<1>17. Told(S, made, at, past, mutex, unlocked, barrier, L, Q) /\ Evident(S, made, at) /\ Kept(S, made, at, s_segment_merging)
       /\ Dates(made, at) /\ \A e \in made : S.list[e.thread] # <<>>
  BY <1>7 DEF Record, Told, Heard
<1>18. Told(X, made', at, past', mutex, unlocked', barrier, L, arrived'.past[arrived.round - 1])
  <2>1. Told(S, made', at, past', mutex, unlocked', barrier, L, arrived'.past[arrived.round - 1])
    BY <1>11, <1>17, ForgottenTold
  <2> QED
    BY <1>5, <1>14, <2>1, StillTold
<1>19. \A i \in SegIds : Own(X, i) = Own(S, i)
  BY <1>8 DEF Own
<1>20. Evident(X, made', at)
  <2>1. SUFFICES ASSUME NEW q \in SegIds, InList(X.list, q), NEW b \in X.seg[q].bm
                 PROVE  \E e \in made' : e.thread = q[1] /\ e.access = b /\ at[e] >= Own(X, q)
    BY DEF Evident
  <2>2. InList(S.list, q) /\ b \in S.seg[q].bm /\ b.addr # y
    BY <1>8, <2>1 DEF On
  <2> QED
    BY <1>12, <1>17, <1>19, <2>2 DEF Evident
<1>21. Kept(X, made', at, s_segment_merging)
  <2>1. SUFFICES ASSUME NEW e \in made', NEW u \in Threads, u # e.thread, X.list[u] # <<>>, ~ Known(at, e, ClockOf(X, u))
                 PROVE  \E q \in SegIds : /\ InList(X.list, q) /\ q[1] = e.thread /\ e.access \in X.seg[q].bm
                                          /\ ~ s_segment_merging => Own(X, q) = at[e]
    BY DEF Kept
  <2>2. e \in made /\ e.access.addr # y /\ S.list[u] # <<>> /\ ~ Known(at, e, ClockOf(S, u))
    BY <1>8, <1>12, <1>16, <2>1
  <2>3. PICK q \in SegIds : /\ InList(S.list, q) /\ q[1] = e.thread /\ e.access \in S.seg[q].bm
                            /\ ~ s_segment_merging => Own(S, q) = at[e]
    BY <1>17, <2>1, <2>2 DEF Kept
  <2>4. e.access \in X.seg[q].bm
    BY <1>8, <2>2, <2>3 DEF On
  <2> QED
    BY <1>8, <1>19, <2>3, <2>4
<1>22. Hits(X, made', at)
  <2>1. CASE X.cset = ConflictSet(X, t)
    <3>1. Informed(X) /\ Listed(X.list) /\ X.list[t] # <<>> /\ X.run = t
      BY <1>5, <1>8, <1>15 DEF Scene
    <3>2. ASSUME NEW b \in X.cset
          PROVE  \E p \in SegIds : InList(X.list, p) /\ p[1] # X.run /\ b \in X.seg[p].bm /\ ClockOf(X, X.run)[p[1]] < Own(X, p)
      BY <2>1, <3>1, ComputedWarned
    <3>3. Warned(X, X)
      BY <3>2 DEF Warned
    <3>4. Dates(made', at)
      BY <1>18 DEF Told
    <3> QED
      BY <1>20, <3>1, <3>3, <3>4, WarnedHits
  <2>2. CASE X.cset = S.cset /\ \A q \in SegIds : InList(S.list, q) /\ q[1] # t => On(S.seg[q].bm, y) = {}
    <3>1. SUFFICES ASSUME NEW b \in S.cset
                   PROVE  \E e \in made' : e.thread # t /\ e.access = b /\ at[e] > ClockOf(S, t)[e.thread]
      BY <1>5, <1>8, <1>16, <2>2 DEF Hits
    <3>2. PICK e \in made : e.thread # t /\ e.access = b /\ at[e] > ClockOf(S, t)[e.thread]
      BY <1>5, <1>7 DEF Hits
    <3>3. at[e] \in Nat /\ ClockOf(S, t)[e.thread] \in Nat
      BY <1>5, <1>17, DatesNat, AliveCount
    <3>4. ~ Known(at, e, ClockOf(S, t))
      BY <3>2, <3>3 DEF Known
    <3>5. PICK q \in SegIds : InList(S.list, q) /\ q[1] = e.thread /\ e.access \in S.seg[q].bm
      BY <1>5, <1>17, <3>2, <3>4 DEF Kept
    <3>6. e.access.addr # y
      BY <2>2, <3>2, <3>5 DEF On
    <3> QED
      BY <1>12, <3>2, <3>6
  <2>3. CASE X.cset = S.cset /\ On(S.cset, y) = {}
    <3>1. SUFFICES ASSUME NEW b \in S.cset
                   PROVE  \E e \in made' : e.thread # t /\ e.access = b /\ at[e] > ClockOf(S, t)[e.thread]
      BY <1>5, <1>8, <1>16, <2>3 DEF Hits
    <3>2. PICK e \in made : e.thread # t /\ e.access = b /\ at[e] > ClockOf(S, t)[e.thread]
      BY <1>5, <1>7 DEF Hits
    <3>3. e.access.addr # y
      BY <2>3, <3>2 DEF On
    <3> QED
      BY <1>12, <3>2, <3>3
  <2> QED
    BY <1>9, <2>1, <2>2, <2>3
<1>23. Stamped(X, made', at, waiting, syncs)
  <2>1. \A e \in made' : e \in made /\ e.thread \in Threads /\ ClockOf(X, e.thread) = ClockOf(S, e.thread)
    BY <1>12, <1>16, <1>17, DatesNat
  <2> QED
    BY <1>7, <2>1 DEF Stamped
<1>24. Arrivals(past', C, arrived'.past[arrived.round])
  BY <1>6, <1>11, <1>13, ForgottenArrivals
<1>25. Gate(waiting, arrived', barrier)
  BY <1>6, <1>11 DEF Gate
<1>26. Plot(X, made', past', mutex', unlocked', barrier', waiting', arrived', syncs')
  <2>1. Chronicle(X, made', at, past', mutex, unlocked', barrier, waiting, arrived', syncs)
    BY <1>11, <1>13, <1>18, <1>20, <1>21, <1>22, <1>23 DEF Chronicle, Record
  <2>2. Plot(X, made', past', mutex, unlocked', barrier, waiting, arrived', syncs)
    BY <1>11, <1>13, <1>15, <1>24, <1>25, <2>1 DEF Plot
  <2> QED
    BY <1>1, <2>2
<1> QED
  BY <1>1, <1>3, <1>26, BecomePlot

-----------------------------------------------------------------------------
(* Creation                                                                *)

(* The main thread t has given u its first segment i. *)
Spawned(S, A, x, t, u, i) ==
  /\ AppendedAs(S, A, t, u, i) /\ x[i] = 0 /\ i \in SegIds
  /\ t = 1 /\ t \in Threads /\ u \in Threads /\ u # t /\ S.list[t] # <<>> /\ S.list[u] = <<>>

(* u starts with what t knows. *)
Cloned(S, A, x, t, u, i) ==
  /\ A \in DState /\ InOrder(A) /\ Informed(A) /\ Contents(S, A) /\ Unmoved(S, A, x) /\ Clocked(S, A, x, i) /\ Fresh(A, u)
  /\ Latest(A, u) = i /\ A.list[u] # <<>> /\ \A v \in Threads : v # u => (A.list[v] = <<>> <=> S.list[v] = <<>>)
  /\ ClockOf(A, u) = A.seg[i].vc /\ vc_lte(ClockOf(S, t), ClockOf(A, u))
  /\ \A v \in Threads : v # u => ClockOf(A, u)[v] = ClockOf(S, t)[v]
  /\ \A v \in Threads : v # u /\ S.list[v] # <<>> => Latest(A, v) = Latest(S, v) /\ ClockOf(A, v) = ClockOf(S, v)
  /\ \A k \in SegIds : k # i => A.seg[k] = S.seg[k]

LEMMA SpawnedIs ==
  ASSUME NEW S \in DState, Listed(S.list), InOrder(S), Informed(S), NEW A, NEW x, NEW t, NEW u, NEW i, Spawned(S, A, x, t, u, i)
  PROVE  Cloned(S, A, x, t, u, i)
PROOF
<1>1. /\ AppendedAs(S, A, t, u, i) /\ x[i] = 0 /\ i \in SegIds
      /\ t = 1 /\ t \in Threads /\ u \in Threads /\ u # t /\ S.list[t] # <<>> /\ S.list[u] = <<>>
  BY DEF Spawned
<1>2. Home(S, u) = t
  BY <1>1 DEF Home
<1>3. /\ InOrder(A) /\ Fresh(A, u) /\ vc_lte(ClockOf(S, t), ClockOf(A, u))
      /\ \A v \in Threads : v # u /\ S.list[v] # <<>> => Latest(A, v) = Latest(S, v) /\ ClockOf(A, v) = ClockOf(S, v)
  BY <1>1, <1>2, AppendInOrder, ZenonT(60)
<1>4. Informed(A)
  BY <1>1, <1>2, AppendInformed
<1>5. Contents(S, A)
  BY <1>1, AppendContents
<1>6. /\ A \in DState /\ A.seg[i].vc = vc_increment(ClockOf(S, t), u) /\ Latest(A, u) = i
      /\ \A k \in SegIds : k # i => A.seg[k] = S.seg[k]
  BY <1>1 DEF AppendedAs
<1>7. A.list[u] # <<>> /\ \A v \in Threads : v # u => (A.list[v] = <<>> <=> S.list[v] = <<>>)
  <2>1. AppendLists(S, A, u, i)
    BY <1>1, AppendedLists
  <2> QED
    BY <2>1 DEF AppendLists
<1>8. ClockOf(A, u) = A.seg[i].vc
  BY <1>6 DEF ClockOf
<1>9. \A v \in Threads : v # u => ClockOf(A, u)[v] = ClockOf(S, t)[v]
  <2>1. ClockOf(S, t) \in Clock
    BY <1>1, AliveCount
  <2>2. \A v \in Threads : v # u => vc_increment(ClockOf(S, t), u)[v] = ClockOf(S, t)[v]
    BY <1>1, <2>1, vc_incrementType
  <2> QED
    BY <1>6, <1>8, <2>2
<1>10. Unmoved(S, A, x) /\ Clocked(S, A, x, i)
  BY <1>1, <1>6 DEF Unmoved, Clocked
<1> QED
  BY <1>3, <1>4, <1>5, <1>6, <1>7, <1>8, <1>9, <1>10 DEF Cloned

LEMMA SpawnedScene ==
  ASSUME NEW S \in DState, Listed(S.list), InOrder(S), NEW A, NEW x, NEW t, NEW u, NEW i, Spawned(S, A, x, t, u, i),
         NEW mx, NEW b, Refs2(mx, b, x), NEW C \in SUBSET Threads, NEW L \in SUBSET Threads, t \notin L, u \notin C,
         \A v \in L : S.list[v] # <<>>, Scene(S, mx, b, C, L)
  PROVE  /\ Marks(A, mx, b, C, L, Threads \ {t}) /\ Knows(A, mx) /\ Spread(A, RoundSegs(b), L, Threads \ {t})
PROOF
<1> DEFINE N == RoundSegs(b)
<1>1. /\ x[i] = 0 /\ i \in SegIds
      /\ t = 1 /\ t \in Threads /\ u \in Threads /\ u # t /\ S.list[t] # <<>> /\ S.list[u] = <<>>
  BY DEF Spawned
<1>2. Informed(S) /\ Marks(S, mx, b, C, L, Threads) /\ Knows(S, mx) /\ Spread(S, N, L, Threads)
  BY DEF Scene
<1>3. Cloned(S, A, x, t, u, i)
  BY <1>2, SpawnedIs
<1>4. /\ A \in DState /\ Clocked(S, A, x, i) /\ Fresh(A, u) /\ Latest(A, u) = i /\ A.list[u] # <<>>
      /\ ClockOf(A, u) = A.seg[i].vc /\ vc_lte(ClockOf(S, t), ClockOf(A, u))
      /\ \A k \in SegIds : k # i => A.seg[k] = S.seg[k]
  BY <1>3 DEF Cloned
<1>5. /\ \A v \in Threads : v # u => (A.list[v] = <<>> <=> S.list[v] = <<>>)
      /\ \A v \in Threads : v # u => ClockOf(A, u)[v] = ClockOf(S, t)[v]
      /\ \A v \in Threads : v # u /\ S.list[v] # <<>> => Latest(A, v) = Latest(S, v) /\ ClockOf(A, v) = ClockOf(S, v)
  BY <1>3 DEF Cloned
<1>6. u \notin L
  BY <1>1
<1>7. /\ \A m \in Mutexes : mx[m].last_locked_segment # i
      /\ \A v \in Threads, r \in Rounds : b.node[v].sg[r] # i
      /\ Referred(N, x) /\ \A v \in Threads : N[v] # Null => N[v] # i
  <2>1. i # Null
    BY <1>1, ThreadsAre DEF Null
  <2> QED
    BY <1>1, <2>1, Refs2Facts DEF Referred
<1>8. Marks(A, mx, b, C, L, Threads \ {t})
  <2>1. ASSUME NEW v \in Threads \ {t}, A.list[v] # <<>>
        PROVE  /\ \A r \in Rounds : b.node[v].sg[r] = Latest(A, v) <=>
                    \/ v \in C /\ r = b.pre_iteration
                    \/ v \in L /\ r = 1 - b.pre_iteration
               /\ \A m \in Mutexes : mx[m].last_locked_segment # Latest(A, v)
    <3>1. CASE v = u
      BY <1>4, <1>6, <1>7, <3>1
    <3>2. CASE v # u
      <4>1. S.list[v] # <<>> /\ Latest(A, v) = Latest(S, v)
        BY <1>5, <2>1, <3>2
      <4> QED
        BY <1>2, <4>1 DEF Marks
    <3> QED
      BY <3>1, <3>2
  <2>2. \A v \in Threads : b.node[v].present => A.list[v] # <<>>
    BY <1>2, <1>4, <1>5 DEF Marks
  <2> QED
    BY <1>2, <2>1, <2>2 DEF Marks
<1>9. Knows(A, mx)
  <2>1. SUFFICES ASSUME NEW m \in Mutexes, mx[m].recursion_count = 0, mx[m].owner # None
                 PROVE  vc_lte(A.seg[mx[m].last_locked_segment].vc, ClockOf(A, Home(A, mx[m].owner)))
    BY DEF Knows
  <2> DEFINE k == mx[m].last_locked_segment
             o == mx[m].owner
  <2>2. k # Null /\ o \in Threads /\ k \in SegIds
    BY <2>1, Refs2Facts DEF Refs2
  <2>3. vc_lte(S.seg[k].vc, ClockOf(S, Home(S, o))) /\ A.seg[k] = S.seg[k]
    BY <1>2, <1>4, <1>7, <2>1, <2>2 DEF Knows
  <2>6. k = mx[m].last_locked_segment /\ o = mx[m].owner
    OBVIOUS
  <2> HIDE DEF k, o
  <2>4. CASE o = u
    <3>1. Home(S, u) = t /\ Home(A, u) = u
      BY <1>1, <1>4 DEF Home
    <3>2. S.seg[k].vc \in Clock /\ ClockOf(S, t) \in Clock /\ ClockOf(A, u) \in Clock
      BY <1>1, <1>4, <2>2, ClockFields, AliveCount
    <3>3. vc_lte(S.seg[k].vc, ClockOf(A, u))
      BY <1>4, <2>3, <2>4, <3>1, <3>2, vc_lteTrans
    <3> QED
      BY <2>3, <2>4, <2>6, <3>1, <3>3
  <2>5. CASE o # u
    <3>1. Home(A, o) = Home(S, o) /\ Home(S, o) # u /\ Home(S, o) \in Threads /\ S.list[Home(S, o)] # <<>>
      BY <1>1, <1>5, <2>2, <2>5 DEF Home
    <3>2. ClockOf(A, Home(S, o)) = ClockOf(S, Home(S, o))
      BY <1>5, <3>1
    <3> QED
      BY <2>3, <2>6, <3>1, <3>2
  <2> QED
    BY <2>4, <2>5
<1>10. Gap(S, N, L) /\ Lead(S, N, L)
  BY <1>2 DEF Spread
<1>11. /\ ClockOf(S, t) \in Clock /\ Latest(S, t) \in SegIds /\ Latest(S, t)[1] = t /\ ClockOf(S, t) = S.seg[Latest(S, t)].vc
       /\ \A v \in Threads : S.list[v] # <<>> => Latest(S, v)[1] = v /\ ClockOf(S, v)[v] \in Nat
  BY <1>1, AliveCount
<1>14. N = RoundSegs(b)
  OBVIOUS
<1> HIDE DEF N
<1>12. Gap(A, N, L) /\ Lead(A, N, L)
  <2>1. \A w \in L : S.list[w] # <<>> /\ Latest(A, w) = Latest(S, w) /\ ClockOf(A, w) = ClockOf(S, w)
    BY <1>5, <1>6
  <2>2. ASSUME NEW w \in L, A.seg[i].vc[w] >= ClockOf(S, w)[w], NEW v \in Threads, N[v] # Null
        PROVE  vc_lte(S.seg[N[v]].vc, A.seg[i].vc)
    <3>0. w \in Threads /\ w # u /\ w # t
      BY <1>6
    <3>1. A.seg[i].vc[w] = ClockOf(S, t)[w] /\ Latest(S, t) # Latest(S, w)
      BY <1>4, <1>5, <1>11, <2>1, <3>0
    <3>2. vc_lte(S.seg[N[v]].vc, ClockOf(S, t))
      BY <1>10, <1>11, <2>2, <3>1 DEF Gap
    <3>3. S.seg[N[v]].vc \in Clock /\ A.seg[i].vc \in Clock
      BY <1>1, <1>4, <1>7, <2>2, ClockFields DEF Referred
    <3> QED
      BY <1>4, <1>11, <3>2, <3>3, vc_lteTrans
  <2> QED
    BY <1>1, <1>4, <1>7, <1>10, <2>1, <2>2, ClockedGap
<1>13. ASSUME NEW v \in Threads \ {t}, v \notin L, A.list[v] # <<>> PROVE Fresh(A, v)
  <2>1. CASE v = u
    BY <1>4, <2>1
  <2>2. CASE v # u
    <3>1. S.list[v] # <<>> /\ Latest(A, v) = Latest(S, v) /\ ClockOf(A, v) = ClockOf(S, v)
      BY <1>5, <1>13, <2>2
    <3>2. Fresh(S, v)
      BY <1>2, <1>13, <3>1 DEF Spread
    <3>3. Latest(S, t) # Latest(S, v)
      BY <1>11, <1>13, <3>1
    <3>4. ASSUME NEW k \in SegIds, k # Latest(S, v) PROVE A.seg[k].vc[v] < ClockOf(S, v)[v]
      <4>1. CASE k = i
        <5>1. A.seg[i].vc[v] = ClockOf(S, t)[v]
          BY <1>4, <1>5, <2>2
        <5>2. S.seg[Latest(S, t)].vc[v] < ClockOf(S, v)[v]
          BY <1>11, <3>2, <3>3 DEF Fresh
        <5> QED
          BY <1>11, <4>1, <5>1, <5>2
      <4>2. CASE k # i
        BY <1>4, <3>2, <3>4, <4>2 DEF Fresh
      <4> QED
        BY <4>1, <4>2
    <3> QED
      BY <3>1, <3>4 DEF Fresh
  <2> QED
    BY <2>1, <2>2
<1> QED
  BY <1>8, <1>9, <1>12, <1>13, <1>14 DEF Spread

LEMMA SpawnedRecord ==
  ASSUME NEW S \in DState, Listed(S.list), InOrder(S), Informed(S), NEW A, NEW x, NEW t, NEW u, NEW i, Spawned(S, A, x, t, u, i),
         NEW mx, NEW b, Refs2(mx, b, x), NEW E, NEW at, NEW P, NEW U, NEW L, NEW Q, Record(S, E, at, P, mx, U, b, L, Q),
         NEW P2, P2[u] = P[t], \A v \in Threads : v # u => P2[v] = P[v]
  PROVE  Record(A, E, at, P2, mx, U, b, L, Q)
PROOF
<1>1. t \in Threads /\ u \in Threads /\ u # t /\ S.list[t] # <<>> /\ S.list[u] = <<>>
  BY DEF Spawned
<1>2. Cloned(S, A, x, t, u, i)
  BY SpawnedIs
<1>3. /\ A \in DState /\ Contents(S, A) /\ Unmoved(S, A, x) /\ A.list[u] # <<>>
      /\ \A v \in Threads : v # u => (A.list[v] = <<>> <=> S.list[v] = <<>>)
      /\ \A v \in Threads : v # u => ClockOf(A, u)[v] = ClockOf(S, t)[v]
      /\ \A v \in Threads : v # u /\ S.list[v] # <<>> => ClockOf(A, v) = ClockOf(S, v)
  BY <1>2 DEF Cloned
<1>4. /\ Told(S, E, at, P, mx, U, b, L, Q) /\ Dates(E, at) /\ Heard(S, E, at, P) /\ Evident(S, E, at)
      /\ Kept(S, E, at, s_segment_merging)
  BY DEF Record, Told
<1>5. \A e \in E : e.thread \in Threads /\ S.list[e.thread] # <<>> /\ e.thread # u
  BY <1>1, <1>4, DatesNat DEF Heard
<1>6. \A e \in E : Known(at, e, ClockOf(A, u)) <=> Known(at, e, ClockOf(S, t))
  BY <1>3, <1>5 DEF Known
<1>7. Heard(A, E, at, P2)
  <2>1. \A e \in E : A.list[e.thread] # <<>> /\ Known(at, e, ClockOf(A, e.thread))
    BY <1>3, <1>4, <1>5 DEF Heard
  <2>2. ASSUME NEW v \in Threads, NEW e
        PROVE  e \in P2[v] <=> e \in E /\ A.list[v] # <<>> /\ Known(at, e, ClockOf(A, v))
    <3>1. CASE v = u
      BY <1>1, <1>3, <1>4, <1>6, <3>1 DEF Heard
    <3>2. CASE v # u
      BY <1>3, <1>4, <3>2 DEF Heard
    <3> QED
      BY <3>1, <3>2
  <2> QED
    BY <2>1, <2>2 DEF Heard
<1>8. Told(A, E, at, P2, mx, U, b, L, Q)
  BY <1>3, <1>4, <1>7, SameTold
<1>9. ASSUME NEW e \in E, NEW v \in Threads, v # e.thread, A.list[v] # <<>>, ~ Known(at, e, ClockOf(A, v))
      PROVE  \E w \in Threads : w # e.thread /\ S.list[w] # <<>> /\ ~ Known(at, e, ClockOf(S, w))
  <2>1. CASE v = u
    <3>1. ~ Known(at, e, ClockOf(S, t))
      BY <1>6, <1>9, <2>1
    <3>2. e.thread # t
      BY <1>4, <3>1 DEF Heard
    <3> QED
      BY <1>1, <3>1, <3>2
  <2>2. CASE v # u
    BY <1>3, <1>9, <2>2
  <2> QED
    BY <2>1, <2>2
<1>10. Evident(A, E, at) /\ Kept(A, E, at, s_segment_merging)
  BY <1>3, <1>4, <1>5, <1>9, KeptContents
<1> QED
  BY <1>8, <1>10 DEF Record

LEMMA CreatePlot ==
  ASSUME Parents \subseteq {1}, TypeOK, Held, Ranked, PlotNow, NEW t \in Threads, NEW u \in Threads, Create(t, u)
  PROVE  PlotNow'
PROOF
<1> DEFINE S == Scheduled(t)
           A == thread_append_segment(S, t, u)
           X == thread_new_segment(A, t)
           x == Ext(mutex, barrier)
           C == Comers(waiting, arrived.round)
           L == Leavers(waiting, arrived.round)
           Q == arrived.past[arrived.round - 1]
<1>1. /\ status[u] = "none" /\ status[t] # "none" /\ waiting[t] = None /\ u # t /\ t = 1
      /\ HasRoom(seg, t) /\ HasRoom(seg, u) /\ Become(X) /\ Sync /\ past' = [past EXCEPT ![u] = past[t]]
      /\ UNCHANGED <<s_segment_merging, mutex, barrier, waiting, made, unlocked, arrived>>
  BY FreshThread, RoomIs DEF Create, InClient
<1>2. t \notin C /\ t \notin L
  BY <1>1, NotWaiting
<1>3. list[u] = <<>> /\ waiting[u] = None
  BY <1>1 DEF Held
<1>4. u \notin C /\ u \notin L
  BY <1>3, NotWaiting
<1>5. Entry(S, t)
  BY <1>1, Entered
<1>6. /\ S \in DState /\ S.seg = seg /\ S.list = list /\ S.run = t /\ S.list[t] # <<>>
      /\ Owned(S.seg, S.list, x) /\ Listed(S.list) /\ InOrder(S) /\ Informed(S) /\ Refs2(mutex, barrier, x)
      /\ L \in SUBSET Threads /\ \A v \in L : S.list[v] # <<>>
  BY <1>5, EntryIs
<1>7. Gate(waiting, arrived, barrier) /\ Scene(S, mutex, barrier, C, L) /\ Arrivals(past, C, arrived.past[arrived.round])
  BY <1>5, EntryIs
<1>8. PICK at : /\ Record(S, made, at, past, mutex, unlocked, barrier, L, Q)
                /\ Stamped(S, made, at, waiting, syncs) /\ Hits(S, made, at)
  BY <1>5, EntryIs
<1>9. C \in SUBSET Threads
  BY DEF Comers
<1> HIDE DEF S, C, L, Q, x
<1>10. Appended(S, A, x, u)
  BY <1>1, <1>6, AppendKeeps
<1>11. PICK i \in SegIds : AppendedAs(S, A, t, u, i)
  BY <1>1, <1>6, AppendIs
<1> HIDE DEF A
<1>12. A \in DState /\ Owned(A.seg, A.list, x) /\ A.list[t] # <<>> /\ HasRoom(A.seg, t) /\ A.run = t
       /\ \A v \in Threads : v # u => A.list[v] = S.list[v]
  BY <1>1, <1>6, <1>10 DEF Appended
<1>13. Spawned(S, A, x, t, u, i)
  <2>1. S.seg[i].refcnt = 0 /\ ~ InList(S.list, i)
    BY <1>11, NoSegmentType DEF AppendedAs
  <2>2. x[i] \in Nat /\ x[i] = 0
    BY <1>6, <2>1 DEF Owned
  <2> QED
    BY <1>1, <1>3, <1>6, <1>11, <2>2 DEF Spawned
<1>14. Cloned(S, A, x, t, u, i)
  BY <1>6, <1>13, SpawnedIs
<1>15. InOrder(A) /\ Informed(A)
  BY <1>14 DEF Cloned
<1>16. Marks(A, mutex, barrier, C, L, Threads \ {t}) /\ Knows(A, mutex) /\ Spread(A, RoundSegs(barrier), L, Threads \ {t})
  BY <1>2, <1>4, <1>6, <1>7, <1>9, <1>13, SpawnedScene
<1>17. past'[u] = past[t] /\ \A v \in Threads : v # u => past'[v] = past[v]
  BY <1>1 DEF TypeOK
<1>18. Record(A, made, at, past', mutex, unlocked, barrier, L, Q)
  BY <1>6, <1>8, <1>13, <1>17, SpawnedRecord
<1>19. \A v \in L : A.list[v] # <<>>
  BY <1>4, <1>6, <1>12
<1>20. X \in DState /\ Scene(X, mutex, barrier, C, L) /\ Record(X, made, at, past', mutex, unlocked, barrier, L, Q)
       /\ Hits(X, made, at)
  BY <1>2, <1>6, <1>12, <1>15, <1>16, <1>18, <1>19, StepEnds
<1> HIDE DEF X
<1>21. Stamped(X, made, at, waiting, syncs')
  <2>1. made \subseteq Event
    BY DEF TypeOK
  <2> QED
    BY <1>1, <1>8, <2>1, LaterStamped DEF Sync, TypeOK
<1>22. Arrivals(past', C, arrived.past[arrived.round])
  <2>1. \A v \in C : past'[v] = past[v]
    BY <1>4, <1>9, <1>17
  <2> QED
    BY <1>7, <2>1 DEF Arrivals
<1>23. Plot(X, made', past', mutex', unlocked', barrier', waiting', arrived', syncs')
  BY <1>1, <1>7, <1>20, <1>21, <1>22 DEF Plot, Chronicle, C, L, Q
<1> QED
  BY <1>1, <1>20, <1>23, BecomePlot

-----------------------------------------------------------------------------
(* Joining                                                                 *)

(* The thread u is gone, with its segments, its barrier node and what it   *)
(* was owner of.                                                           *)
Reaped(S, X, u, mx, mx2, b, b2, y) ==
  /\ S \in DState /\ X \in DState /\ InOrder(S) /\ InOrder(X) /\ Owned(S.seg, S.list, Ext(mx, b))
  /\ Owned(X.seg, X.list, y) /\ Refs2(mx2, b2, y) /\ X.run = S.run /\ X.cset = S.cset
  /\ X.list[u] = <<>> /\ \A v \in Threads : v # u => X.list[v] = S.list[v]
  /\ \A i \in SegIds : \/ X.seg[i].vc = S.seg[i].vc /\ X.seg[i].bm = S.seg[i].bm
                       \/ X.seg[i] = NoSegment /\ ~ InList(X.list, i)
  /\ \A m \in Mutexes : /\ mx2[m].last_locked_segment = mx[m].last_locked_segment
                        /\ mx2[m].recursion_count = mx[m].recursion_count
                        /\ mx[m].recursion_count = 0 => mx2[m].owner = mx[m].owner
  /\ b2.pre_iteration = b.pre_iteration
  /\ \A v \in Threads : b2.node[v] = IF v = u THEN NoNode ELSE b.node[v]

(* The main thread knows all that u knew. *)
Succeeded(S, u) == u \in Threads /\ u # 1 /\ S.list[u] # <<>> /\ vc_lte(ClockOf(S, u), ClockOf(S, 1))

LEMMA ReapedFacts ==
  ASSUME NEW S, NEW X, NEW u, NEW mx, NEW mx2, NEW b, NEW b2, NEW y, Reaped(S, X, u, mx, mx2, b, b2, y), Succeeded(S, u)
  PROVE  /\ \A i \in SegIds : InList(X.list, i) <=> InList(S.list, i) /\ i[1] # u
         /\ \A i \in SegIds : InList(X.list, i) \/ y[i] # 0 => X.seg[i].vc = S.seg[i].vc
         /\ \A i \in SegIds : InList(X.list, i) => X.seg[i].bm = S.seg[i].bm /\ Own(X, i) = Own(S, i)
         /\ \A v \in Threads : X.list[v] # <<>> => v # u /\ S.list[v] # <<>> /\ Latest(X, v) = Latest(S, v)
                                                   /\ ClockOf(X, v) = ClockOf(S, v)
         /\ \A v \in Threads : S.list[v] # <<>> /\ v # u => X.list[v] # <<>>
         /\ Listed(S.list) /\ Listed(X.list)
PROOF
<1>1. Listed(S.list) /\ Listed(X.list) /\ u \in Threads
  BY DEF Reaped, Owned, Succeeded
<1>2. ASSUME NEW i \in SegIds PROVE InList(X.list, i) <=> InList(S.list, i) /\ i[1] # u
  <2>1. i[1] \in Threads
    BY ThreadsAre
  <2>2. CASE i[1] = u
    <3>1. X.list[i[1]] = <<>>
      BY <2>2 DEF Reaped
    <3> QED
      BY <2>2, <3>1 DEF InList, Range
  <2>3. CASE i[1] # u
    BY <2>1, <2>3 DEF InList, Reaped
  <2> QED
    BY <2>2, <2>3
<1>3. ASSUME NEW i \in SegIds, InList(X.list, i) \/ y[i] # 0 PROVE X.seg[i].vc = S.seg[i].vc
  <2>1. CASE X.seg[i] = NoSegment /\ ~ InList(X.list, i)
    <3>1. X.seg[i].refcnt = y[i] /\ y[i] \in Nat
      BY <2>1 DEF Owned, Reaped
    <3> QED
      BY <1>3, <2>1, <3>1, NoSegmentType
  <2> QED
    BY <2>1 DEF Reaped
<1>4. ASSUME NEW i \in SegIds, InList(X.list, i) PROVE X.seg[i].bm = S.seg[i].bm /\ Own(X, i) = Own(S, i)
  BY <1>4 DEF Reaped, Own
<1>5. ASSUME NEW v \in Threads, X.list[v] # <<>>
      PROVE  v # u /\ S.list[v] # <<>> /\ Latest(X, v) = Latest(S, v) /\ ClockOf(X, v) = ClockOf(S, v)
  <2>1. v # u /\ X.list[v] = S.list[v] /\ X \in DState
    BY <1>5 DEF Reaped
  <2>2. Latest(X, v) = Latest(S, v)
    BY <2>1 DEF Latest
  <2>3. Latest(X, v) \in SegIds /\ InList(X.list, Latest(X, v))
    BY <1>1, <1>5, <2>1, LatestIs
  <2> QED
    BY <1>3, <1>5, <2>1, <2>2, <2>3 DEF ClockOf
<1>6. \A v \in Threads : S.list[v] # <<>> /\ v # u => X.list[v] # <<>>
  BY DEF Reaped
<1> QED
  BY <1>1, <1>2, <1>3, <1>4, <1>5, <1>6

LEMMA ReapedScene ==
  ASSUME NEW S, NEW X, NEW u, NEW mx, NEW mx2, NEW b, NEW b2, NEW y, Reaped(S, X, u, mx, mx2, b, b2, y), Succeeded(S, u),
         NEW C, NEW L \in SUBSET Threads, u \notin L, \A v \in L : S.list[v] # <<>>,
         Informed(S), Marks(S, mx, b, C, L, Threads), Knows(S, mx), Spread(S, RoundSegs(b), L, Threads \ {u})
  PROVE  Scene(X, mx2, b2, C, L)
PROOF
<1>1. /\ \A i \in SegIds : InList(X.list, i) <=> InList(S.list, i) /\ i[1] # u
      /\ \A i \in SegIds : InList(X.list, i) \/ y[i] # 0 => X.seg[i].vc = S.seg[i].vc
      /\ \A i \in SegIds : InList(X.list, i) => Own(X, i) = Own(S, i)
      /\ \A v \in Threads : X.list[v] # <<>> => v # u /\ S.list[v] # <<>> /\ Latest(X, v) = Latest(S, v)
                                                /\ ClockOf(X, v) = ClockOf(S, v)
      /\ \A v \in Threads : S.list[v] # <<>> /\ v # u => X.list[v] # <<>>
      /\ Listed(S.list) /\ Listed(X.list)
  BY ReapedFacts
<1>2. /\ S \in DState /\ X \in DState /\ InOrder(S) /\ InOrder(X) /\ Refs2(mx2, b2, y)
      /\ \A i \in SegIds : X.seg[i].vc = S.seg[i].vc \/ X.seg[i] = NoSegment
      /\ u \in Threads /\ u # 1
  BY DEF Reaped, Succeeded
<1>3. /\ \A m \in Mutexes : /\ mx2[m].last_locked_segment = mx[m].last_locked_segment
                            /\ mx2[m].recursion_count = mx[m].recursion_count
                            /\ mx[m].recursion_count = 0 => mx2[m].owner = mx[m].owner
      /\ b2.pre_iteration = b.pre_iteration
      /\ \A v \in Threads : b2.node[v] = IF v = u THEN NoNode ELSE b.node[v]
  BY DEF Reaped
<1>4. Informed(X)
  <2>1. SUFFICES ASSUME NEW q \in SegIds, NEW i \in SegIds, InList(X.list, q), Own(X, q) <= X.seg[i].vc[q[1]]
                 PROVE  vc_lte(X.seg[q].vc, X.seg[i].vc)
    BY DEF Informed
  <2>2. InList(S.list, q) /\ X.seg[q].vc = S.seg[q].vc /\ Own(X, q) = Own(S, q)
    BY <1>1, <2>1
  <2>3. X.seg[i] # NoSegment
    <3>1. Own(X, q) >= 1 /\ Own(X, q) \in Nat /\ q[1] \in Threads
      BY <1>2, <2>1, OwnNat DEF InOrder, Own
    <3> QED
      BY <2>1, <3>1, NoSegmentType
  <2> QED
    BY <1>2, <2>1, <2>2, <2>3 DEF Informed
<1>5. Marks(X, mx2, b2, C, L, Threads)
  <2>1. ASSUME NEW v \in Threads, X.list[v] # <<>>
        PROVE  /\ \A r \in Rounds : b2.node[v].sg[r] = Latest(X, v) <=>
                    \/ v \in C /\ r = b2.pre_iteration
                    \/ v \in L /\ r = 1 - b2.pre_iteration
               /\ \A m \in Mutexes : mx2[m].last_locked_segment # Latest(X, v)
    <3>1. v # u /\ S.list[v] # <<>> /\ Latest(X, v) = Latest(S, v) /\ b2.node[v] = b.node[v]
      BY <1>1, <1>3, <2>1
    <3>2. /\ \A r \in Rounds : b.node[v].sg[r] = Latest(S, v) <=>
               \/ v \in C /\ r = b.pre_iteration
               \/ v \in L /\ r = 1 - b.pre_iteration
          /\ \A m \in Mutexes : mx[m].last_locked_segment # Latest(S, v)
      BY <3>1 DEF Marks
    <3> QED
      BY <1>3, <3>1, <3>2
  <2>2. ASSUME NEW v \in Threads, b2.node[v].present PROVE X.list[v] # <<>>
    <3>1. v # u /\ b.node[v].present
      BY <1>3, <2>2 DEF NoNode
    <3> QED
      BY <1>1, <3>1 DEF Marks
  <2>3. \A m \in Mutexes : mx2[m].recursion_count = 0 /\ mx2[m].owner = None => mx2[m].last_locked_segment = Null
    BY <1>3 DEF Marks
  <2> QED
    BY <2>1, <2>2, <2>3 DEF Marks
<1>6. Knows(X, mx2)
  <2>1. SUFFICES ASSUME NEW m \in Mutexes, mx2[m].recursion_count = 0, mx2[m].owner # None
                 PROVE  vc_lte(X.seg[mx2[m].last_locked_segment].vc, ClockOf(X, Home(X, mx2[m].owner)))
    BY DEF Knows
  <2> DEFINE k == mx[m].last_locked_segment
             o == mx[m].owner
  <2>2. mx2[m].last_locked_segment = k /\ mx2[m].owner = o /\ mx[m].recursion_count = 0 /\ o # None
    BY <1>3, <2>1
  <2>3. k \in SegIds /\ o \in Threads /\ X.seg[k].vc = S.seg[k].vc
    BY <1>1, <1>2, <2>1, <2>2, Refs2Facts DEF Refs2
  <2>4. vc_lte(S.seg[k].vc, ClockOf(S, Home(S, o)))
    BY <2>2 DEF Knows
  <2> HIDE DEF k, o
  <2>5. CASE o = u
    <3>1. Home(S, u) = u /\ Home(X, u) = 1 /\ X.list[1] # <<>> /\ 1 \in Threads
      BY <1>1, <1>2, ThreadsAre DEF Home, Succeeded, InOrder
    <3>2. ClockOf(S, u) \in Clock /\ ClockOf(S, 1) \in Clock /\ S.seg[k].vc \in Clock /\ ClockOf(X, 1) = ClockOf(S, 1)
      BY <1>1, <1>2, <2>3, <3>1, LatestIs, ClockFields DEF Succeeded
    <3>3. vc_lte(S.seg[k].vc, ClockOf(S, 1))
      BY <2>4, <2>5, <3>1, <3>2, vc_lteTrans DEF Succeeded
    <3> QED
      BY <2>2, <2>3, <2>5, <3>1, <3>2, <3>3
  <2>6. CASE o # u
    <3>1. Home(X, o) = Home(S, o) /\ ClockOf(X, Home(X, o)) = ClockOf(S, Home(S, o))
      <4>1. X.list[o] = <<>> <=> S.list[o] = <<>>
        BY <1>1, <2>3, <2>6
      <4>2. X.list[Home(X, o)] # <<>> /\ Home(X, o) \in Threads
        BY <1>2, <2>3, HomeClock
      <4> QED
        BY <1>1, <4>1, <4>2 DEF Home
    <3> QED
      BY <2>2, <2>3, <2>4, <3>1
  <2> QED
    BY <2>5, <2>6
<1>7. ASSUME NEW v \in Threads, v \notin L, X.list[v] # <<>> PROVE Fresh(X, v)
  <2>1. Fresh(S, v) /\ Latest(X, v) = Latest(S, v) /\ ClockOf(X, v) = ClockOf(S, v)
    BY <1>1, <1>7 DEF Spread
  <2>2. ClockOf(X, v)[v] \in Nat /\ ClockOf(X, v)[v] >= 1
    BY <1>1, <1>2, <1>7, AliveCount, SMTT(30)
  <2> QED
    BY <1>2, <2>1, <2>2, NoSegmentType DEF Fresh
<1>8. ASSUME NEW v \in Threads, RoundSegs(b2)[v] # Null
      PROVE  RoundSegs(b2)[v] = RoundSegs(b)[v] /\ X.seg[RoundSegs(b2)[v]].vc = S.seg[RoundSegs(b)[v]].vc
  <2>1. RoundSegs(b2)[v] = b2.node[v].sg[1 - b.pre_iteration] /\ RoundSegs(b)[v] = b.node[v].sg[1 - b.pre_iteration]
        /\ 1 - b.pre_iteration \in Rounds
    BY <1>2, <1>3, Refs2Facts DEF RoundSegs
  <2>2. v # u
    BY <1>3, <1>8, <2>1 DEF NoNode
  <2>3. RoundSegs(b2)[v] \in SegIds /\ y[RoundSegs(b2)[v]] # 0
    BY <1>2, <1>8, Refs2Facts DEF Referred
  <2> QED
    BY <1>1, <1>3, <2>1, <2>2, <2>3, ZenonT(60)
<1>9. Gap(X, RoundSegs(b2), L)
  <2>1. SUFFICES ASSUME NEW w \in L, NEW i \in SegIds, i # Latest(X, w), X.seg[i].vc[w] >= ClockOf(X, w)[w],
                        NEW v \in Threads, RoundSegs(b2)[v] # Null
                 PROVE  vc_lte(X.seg[RoundSegs(b2)[v]].vc, X.seg[i].vc)
    BY DEF Gap
  <2>2. w \in Threads /\ X.list[w] # <<>>
    BY <1>1
  <2>3. Latest(X, w) = Latest(S, w) /\ ClockOf(X, w) = ClockOf(S, w) /\ ClockOf(X, w)[w] \in Nat /\ ClockOf(X, w)[w] >= 1
    BY <1>1, <1>2, <2>2, AliveCount
  <2>4. X.seg[i].vc = S.seg[i].vc
    BY <1>2, <2>1, <2>2, <2>3, NoSegmentType
  <2>5. vc_lte(S.seg[RoundSegs(b)[v]].vc, S.seg[i].vc)
    BY <1>8, <2>1, <2>3, <2>4 DEF Spread, Gap
  <2> QED
    BY <1>8, <2>1, <2>4, <2>5
<1>10. Lead(X, RoundSegs(b2), L)
  <2>1. SUFFICES ASSUME L # {}, 1 \notin L
                 PROVE  /\ RoundSegs(b2)[1] # Null
                        /\ \A v \in Threads : RoundSegs(b2)[v] # Null =>
                             vc_lte(X.seg[RoundSegs(b2)[v]].vc, X.seg[RoundSegs(b2)[1]].vc)
    BY DEF Lead
  <2>2. /\ RoundSegs(b)[1] # Null
        /\ \A v \in Threads : RoundSegs(b)[v] # Null => vc_lte(S.seg[RoundSegs(b)[v]].vc, S.seg[RoundSegs(b)[1]].vc)
    BY <2>1 DEF Spread, Lead
  <2>3. 1 \in Threads /\ RoundSegs(b2)[1] = RoundSegs(b)[1]
    BY <1>2, <1>3, ThreadsAre DEF RoundSegs
  <2> QED
    BY <1>8, <2>2, <2>3
<1>11. Spread(X, RoundSegs(b2), L, Threads)
  BY <1>7, <1>9, <1>10 DEF Spread
<1> QED
  BY <1>4, <1>5, <1>6, <1>11 DEF Scene

(* The history forgets u's accesses, and u. *)
Outlived(u, E, E2, P, P2, U, U2) ==
  /\ \A e : e \in E2 <=> e \in E /\ e.thread # u
  /\ P2[u] = {} /\ \A v \in Threads : v # u => \A e : e \in P2[v] <=> e \in P[v] /\ (e \in E => e.thread # u)
  /\ \A m \in Mutexes : \A e : e \in U2[m] <=> e \in U[m] /\ (e \in E => e.thread # u)

LEMMA ReapedTold ==
  ASSUME NEW S, NEW X, NEW u, NEW mx, NEW mx2, NEW b, NEW b2, NEW y, Reaped(S, X, u, mx, mx2, b, b2, y), Succeeded(S, u),
         NEW L \in SUBSET Threads, 1 \notin L, Lead(S, RoundSegs(b), L), Refs2(mx, b, Ext(mx, b)),
         NEW E, NEW E2, NEW P, NEW P2, NEW U, NEW U2, Outlived(u, E, E2, P, P2, U, U2), NEW at, NEW Q, NEW Q2,
         L # {} => \A e : e \in Q2 <=> e \in Q /\ (e \in E => e.thread # u),
         Told(S, E, at, P, mx, U, b, L, Q)
  PROVE  Told(X, E2, at, P2, mx2, U2, b2, L, Q2)
PROOF
<1>1. /\ \A i \in SegIds : y[i] # 0 => X.seg[i].vc = S.seg[i].vc
      /\ \A v \in Threads : X.list[v] # <<>> => v # u /\ S.list[v] # <<>> /\ ClockOf(X, v) = ClockOf(S, v)
      /\ \A v \in Threads : S.list[v] # <<>> /\ v # u => X.list[v] # <<>>
  BY ReapedFacts
<1>2. /\ S \in DState /\ X \in DState /\ Refs2(mx2, b2, y) /\ u \in Threads /\ u # 1 /\ X.list[u] = <<>>
      /\ \A m \in Mutexes : mx2[m].last_locked_segment = mx[m].last_locked_segment
      /\ b2.pre_iteration = b.pre_iteration
      /\ \A v \in Threads : b2.node[v] = IF v = u THEN NoNode ELSE b.node[v]
  BY DEF Reaped, Succeeded
<1>3. /\ Dates(E, at) /\ Heard(S, E, at, P)
      /\ \A m \in Mutexes : HeardAt(S, E, at, mx[m].last_locked_segment, U[m])
      /\ L # {} => HeardOf(S, E, at, RoundSegs(b), Q)
  BY DEF Told
<1>4. /\ \A e : e \in E2 <=> e \in E /\ e.thread # u
      /\ P2[u] = {} /\ \A v \in Threads : v # u => \A e : e \in P2[v] <=> e \in P[v] /\ (e \in E => e.thread # u)
      /\ \A m \in Mutexes : \A e : e \in U2[m] <=> e \in U[m] /\ (e \in E => e.thread # u)
  BY DEF Outlived
<1>5. Dates(E2, at)
  BY <1>3, <1>4 DEF Dates
<1>6. Heard(X, E2, at, P2)
  <2>1. ASSUME NEW e \in E2 PROVE X.list[e.thread] # <<>> /\ Known(at, e, ClockOf(X, e.thread))
    <3>1. e \in E /\ e.thread # u /\ e.thread \in Threads
      BY <1>3, <1>4, DatesNat
    <3> QED
      BY <1>1, <1>3, <3>1 DEF Heard
  <2>2. ASSUME NEW v \in Threads, NEW e
        PROVE  e \in P2[v] <=> e \in E2 /\ X.list[v] # <<>> /\ Known(at, e, ClockOf(X, v))
    <3>1. CASE v = u
      BY <1>2, <1>4, <3>1
    <3>2. CASE v # u
      <4>1. e \in P[v] <=> e \in E /\ S.list[v] # <<>> /\ Known(at, e, ClockOf(S, v))
        BY <1>3 DEF Heard
      <4> QED
        BY <1>1, <1>4, <3>2, <4>1
    <3> QED
      BY <3>1, <3>2
  <2> QED
    BY <2>1, <2>2 DEF Heard
<1>7. ASSUME NEW m \in Mutexes PROVE HeardAt(X, E2, at, mx2[m].last_locked_segment, U2[m])
  <2> DEFINE k == mx[m].last_locked_segment
  <2>1. mx2[m].last_locked_segment = k /\ (k # Null => X.seg[k].vc = S.seg[k].vc)
    BY <1>1, <1>2, Refs2Facts
  <2>2. HeardAt(S, E, at, k, U[m])
    BY <1>3
  <2> HIDE DEF k
  <2>3. \A e : e \in U2[m] <=> e \in E2 /\ k # Null /\ Known(at, e, X.seg[k].vc)
    BY <1>4, <2>1, <2>2 DEF HeardAt
  <2> QED
    BY <2>1, <2>3 DEF HeardAt
<1>8. ASSUME L # {} PROVE HeardOf(X, E2, at, RoundSegs(b2), Q2)
  <2> DEFINE N == RoundSegs(b)
             M == RoundSegs(b2)
  <2>1. \A v \in Threads : M[v] # Null => M[v] = N[v] /\ X.seg[M[v]].vc = S.seg[N[v]].vc
    <3>1. ASSUME NEW v \in Threads, M[v] # Null PROVE M[v] = N[v] /\ X.seg[M[v]].vc = S.seg[N[v]].vc
      <4>1. M[v] = b2.node[v].sg[1 - b.pre_iteration] /\ N[v] = b.node[v].sg[1 - b.pre_iteration]
            /\ 1 - b.pre_iteration \in Rounds
        BY <1>2, Refs2Facts DEF RoundSegs
      <4>2. v # u
        BY <1>2, <3>1, <4>1 DEF NoNode
      <4>3. M[v] \in SegIds /\ y[M[v]] # 0
        BY <1>2, <3>1, Refs2Facts DEF Referred
      <4> QED
        BY <1>1, <1>2, <4>1, <4>2, <4>3
    <3> QED
      BY <3>1
  <2>2. \A v \in Threads : v # u => M[v] = N[v]
    BY <1>2 DEF RoundSegs
  <2>3. N[1] # Null /\ \A v \in Threads : N[v] # Null => vc_lte(S.seg[N[v]].vc, S.seg[N[1]].vc)
    BY <1>8 DEF Lead
  <2>4. HeardOf(S, E, at, N, Q) /\ Referred(N, Ext(mx, b)) /\ 1 \in Threads
    BY <1>3, <1>8, Refs2Facts, ThreadsAre
  <2> HIDE DEF N, M
  <2>5. ASSUME NEW e \in E2, NEW v \in Threads, N[v] # Null, Known(at, e, S.seg[N[v]].vc)
        PROVE  \E w \in Threads : M[w] # Null /\ Known(at, e, X.seg[M[w]].vc)
    <3>1. CASE v # u
      BY <2>1, <2>2, <2>5, <3>1
    <3>2. CASE v = u
      <4>1. at[e] \in Nat /\ e.thread \in Threads
        BY <1>5, DatesNat
      <4>2. N[v] \in SegIds /\ N[1] \in SegIds
        BY <2>3, <2>4, <2>5 DEF Referred
      <4>3. S.seg[N[v]].vc[e.thread] <= S.seg[N[1]].vc[e.thread]
        BY <2>3, <2>5, <4>1 DEF vc_lte
      <4>4. S.seg[N[v]].vc[e.thread] \in Nat /\ S.seg[N[1]].vc[e.thread] \in Nat
        BY <1>2, <4>1, <4>2, ClockFields
      <4>5. Known(at, e, S.seg[N[1]].vc)
        BY <2>5, <4>1, <4>3, <4>4 DEF Known
      <4>6. M[1] = N[1] /\ M[1] # Null
        BY <1>2, <2>2, <2>3, <2>4
      <4> QED
        BY <2>1, <2>4, <4>5, <4>6
    <3> QED
      BY <3>1, <3>2
  <2>6. ASSUME NEW e, e \in Q2 PROVE e \in E2 /\ \E v \in Threads : M[v] # Null /\ Known(at, e, X.seg[M[v]].vc)
    <3>1. e \in Q /\ e \in E2
      BY <1>4, <1>8, <2>4, <2>6 DEF HeardOf
    <3>2. PICK v \in Threads : N[v] # Null /\ Known(at, e, S.seg[N[v]].vc)
      BY <2>4, <3>1 DEF HeardOf
    <3> QED
      BY <2>5, <3>1, <3>2
  <2>7. ASSUME NEW e \in E2, NEW v \in Threads, M[v] # Null, Known(at, e, X.seg[M[v]].vc) PROVE e \in Q2
    <3>1. e \in E /\ e.thread # u
      BY <1>4
    <3>2. Known(at, e, S.seg[N[v]].vc) /\ N[v] # Null
      BY <2>1, <2>7
    <3> QED
      BY <1>8, <2>4, <3>1, <3>2 DEF HeardOf
  <2>8. HeardOf(X, E2, at, M, Q2)
    BY <2>6, <2>7 DEF HeardOf
  <2> QED
    BY <2>8 DEF M
<1> QED
  BY <1>5, <1>6, <1>7, <1>8 DEF Told

LEMMA ReapedRecord ==
  ASSUME NEW S, NEW X, NEW u, NEW mx, NEW mx2, NEW b, NEW b2, NEW y, Reaped(S, X, u, mx, mx2, b, b2, y), Succeeded(S, u),
         NEW L \in SUBSET Threads, 1 \notin L, Lead(S, RoundSegs(b), L), Refs2(mx, b, Ext(mx, b)),
         NEW E, NEW E2, NEW P, NEW P2, NEW U, NEW U2, Outlived(u, E, E2, P, P2, U, U2), NEW at, NEW Q, NEW Q2,
         L # {} => \A e : e \in Q2 <=> e \in Q /\ (e \in E => e.thread # u),
         Record(S, E, at, P, mx, U, b, L, Q), Hits(S, E, at), S.run = 1
  PROVE  Record(X, E2, at, P2, mx2, U2, b2, L, Q2) /\ Hits(X, E2, at)
PROOF
<1>1. /\ \A i \in SegIds : InList(X.list, i) <=> InList(S.list, i) /\ i[1] # u
      /\ \A i \in SegIds : InList(X.list, i) => X.seg[i].bm = S.seg[i].bm /\ Own(X, i) = Own(S, i)
      /\ \A v \in Threads : X.list[v] # <<>> => v # u /\ S.list[v] # <<>> /\ ClockOf(X, v) = ClockOf(S, v)
      /\ \A v \in Threads : S.list[v] # <<>> /\ v # u => X.list[v] # <<>>
  BY ReapedFacts
<1>2. Told(S, E, at, P, mx, U, b, L, Q) /\ Evident(S, E, at) /\ Kept(S, E, at, s_segment_merging)
      /\ Dates(E, at) /\ Heard(S, E, at, P)
  BY DEF Record, Told
<1>3. Told(X, E2, at, P2, mx2, U2, b2, L, Q2)
  BY <1>2, ReapedTold
<1>4. \A e : e \in E2 <=> e \in E /\ e.thread # u
  BY DEF Outlived
<1>5. Evident(X, E2, at)
  <2>1. SUFFICES ASSUME NEW q \in SegIds, InList(X.list, q), NEW a \in X.seg[q].bm
                 PROVE  \E e \in E2 : e.thread = q[1] /\ e.access = a /\ at[e] >= Own(X, q)
    BY DEF Evident
  <2>2. InList(S.list, q) /\ q[1] # u /\ a \in S.seg[q].bm /\ Own(X, q) = Own(S, q)
    BY <1>1, <2>1
  <2>3. PICK e \in E : e.thread = q[1] /\ e.access = a /\ at[e] >= Own(S, q)
    BY <1>2, <2>2 DEF Evident
  <2> QED
    BY <1>4, <2>2, <2>3
<1>6. Kept(X, E2, at, s_segment_merging)
  <2>1. SUFFICES ASSUME NEW e \in E2, NEW v \in Threads, v # e.thread, X.list[v] # <<>>, ~ Known(at, e, ClockOf(X, v))
                 PROVE  \E q \in SegIds : /\ InList(X.list, q) /\ q[1] = e.thread /\ e.access \in X.seg[q].bm
                                          /\ ~ s_segment_merging => Own(X, q) = at[e]
    BY DEF Kept
  <2>2. e \in E /\ e.thread # u /\ S.list[v] # <<>> /\ ~ Known(at, e, ClockOf(S, v))
    BY <1>1, <1>4, <2>1
  <2>3. PICK q \in SegIds : /\ InList(S.list, q) /\ q[1] = e.thread /\ e.access \in S.seg[q].bm
                            /\ ~ s_segment_merging => Own(S, q) = at[e]
    BY <1>2, <2>1, <2>2 DEF Kept
  <2>4. InList(X.list, q) /\ X.seg[q].bm = S.seg[q].bm /\ Own(X, q) = Own(S, q)
    BY <1>1, <2>2, <2>3
  <2> QED
    BY <2>3, <2>4
<1>7. Hits(X, E2, at)
  <2>1. S \in DState /\ X.run = 1 /\ X.cset = S.cset /\ u \in Threads /\ u # 1 /\ S.list[u] # <<>> /\ S.list[1] # <<>>
        /\ vc_lte(ClockOf(S, u), ClockOf(S, 1)) /\ 1 \in Threads
    BY ThreadsAre DEF Reaped, InOrder, Succeeded
  <2>2. ClockOf(X, 1) = ClockOf(S, 1) /\ ClockOf(S, 1) \in Clock /\ ClockOf(S, u) \in Clock
    BY <1>1, <2>1, LatestIs
  <2>3. SUFFICES ASSUME NEW a \in S.cset
                 PROVE  \E e \in E2 : e.thread # 1 /\ e.access = a /\ at[e] > ClockOf(S, 1)[e.thread]
    BY <2>1, <2>2 DEF Hits
  <2>4. PICK e \in E : e.thread # 1 /\ e.access = a /\ at[e] > ClockOf(S, 1)[e.thread]
    BY DEF Hits
  <2>5. e.thread # u
    <3>1. SUFFICES ASSUME e.thread = u PROVE FALSE
      OBVIOUS
    <3>2. at[e] <= ClockOf(S, u)[u] /\ at[e] \in Nat
      BY <1>2, <3>1, DatesNat DEF Heard, Known
    <3>3. ClockOf(S, u)[u] <= ClockOf(S, 1)[u] /\ ClockOf(S, u)[u] \in Nat /\ ClockOf(S, 1)[u] \in Nat
      BY <2>1, <2>2 DEF vc_lte, Clock
    <3> QED
      BY <2>4, <3>1, <3>2, <3>3
  <2> QED
    BY <1>4, <2>4, <2>5
<1> QED
  BY <1>3, <1>5, <1>6, <1>7 DEF Record

(* The thread t has taken over what u knew; u's latest segment has become  *)
(* known.                                                                  *)
TakenOver(T, t, u, mx, b, C, L) ==
  /\ T \in DState /\ InOrder(T) /\ Informed(T) /\ Marks(T, mx, b, C, L, Threads) /\ Knows(T, mx)
  /\ Spread(T, RoundSegs(b), L, Threads \ {u}) /\ T.run = t
  /\ T.list[u] # <<>> /\ vc_lte(ClockOf(T, u), ClockOf(T, t)) /\ Owned(T.seg, T.list, Ext(mx, b))
  /\ \A v \in L : T.list[v] # <<>>

LEMMA TakeOver ==
  ASSUME NEW S \in DState, NEW mx, NEW b, NEW x, Refs2(mx, b, x), Owned(S.seg, S.list, x), InOrder(S), Informed(S),
         NEW t \in Threads, NEW u \in Threads, u # t, S.list[t] # <<>>, S.list[u] # <<>>, S.run = t,
         HasRoom(S.seg, u), HasRoom(S.seg, t),
         NEW C, NEW L \in SUBSET Threads, t \notin C, t \notin L, u \notin C, u \notin L, \A v \in L : S.list[v] # <<>>,
         Scene(S, mx, b, C, L), NEW E, NEW at, NEW P, NEW U, NEW Q, Record(S, E, at, P, mx, U, b, L, Q),
         NEW P2, Learnt(P, P2, t, P[u])
  PROVE  LET T == thread_new_segment(thread_combine_vc(thread_new_segment(S, u), t, u), t) IN
         TakenOver(T, t, u, mx, b, C, L) /\ Record(T, E, at, P2, mx, U, b, L, Q) /\ Hits(T, E, at)
PROOF
<1> DEFINE S1 == thread_new_segment(S, u)
           S2 == thread_combine_vc(S1, t, u)
           T  == thread_new_segment(S2, t)
           k  == Latest(S1, u)
           Y  == Threads \ {u}
<1>1. Stepped(S, S1, x, u)
  BY NewSegmentStepped
<1> HIDE DEF S1
<1>2. /\ S1 \in DState /\ Owned(S1.seg, S1.list, x) /\ Listed(S1.list) /\ InOrder(S1) /\ S1.run = t
      /\ S1.list[u] # <<>> /\ S1.list[t] # <<>> /\ HasRoom(S1.seg, t) /\ \A v \in L : S1.list[v] # <<>>
  BY <1>1 DEF Stepped, SteadyBut, Owned
<1>3. Informed(S1) /\ Scene(S1, mx, b, C, L)
  <2>1. Marks(S, mx, b, C, L, Threads \ {u}) /\ Knows(S, mx) /\ Spread(S, RoundSegs(b), L, Threads \ {u}) /\ Threads \in SUBSET Threads
    BY DEF Scene, Marks, Spread
  <2>2. Informed(S1) /\ Marks(S1, mx, b, C, L, Threads) /\ Knows(S1, mx) /\ Spread(S1, RoundSegs(b), L, Threads)
    BY <1>1, <2>1, SteppedScene
  <2> QED
    BY <2>2 DEF Scene
<1>4. Record(S1, E, at, P, mx, U, b, L, Q)
  BY <1>1, SteppedRecord
<1>5. k \in SegIds /\ k[1] = u /\ k # Null /\ ClockOf(S1, u) = S1.seg[k].vc
  <2>1. k \in SegIds /\ k[1] = u /\ ClockOf(S1, u) = S1.seg[k].vc
    BY <1>2, AliveCount
  <2> QED
    BY <2>1, ThreadsAre DEF Null
<1>6. Raised(S1, S2, x, t) /\ ClockOf(S2, t) = vc_combine(ClockOf(S1, t), S1.seg[k].vc)
  <2>1. Fresh(S1, t)
    BY <1>2, <1>3 DEF Scene, Spread
  <2>2. Bounded(S1, ClockOf(S1, u)) /\ Behind(S1, t, ClockOf(S1, u)) /\ InformedClock(S1, ClockOf(S1, u))
    BY <1>2, <1>3, <1>5, <2>1, ForeignClock
  <2> QED
    BY <1>2, <1>3, <1>5, <2>2, CombineVcRaised
<1>7. vc_lte(ClockOf(S2, u), ClockOf(S2, t))
  BY <1>2, CombineOrder
<1>8. \A v \in Y : v # t /\ S1.list[v] # <<>> => k # Latest(S1, v)
  <2>1. \A v \in Threads : S1.list[v] # <<>> => Latest(S1, v)[1] = v
    BY <1>2, AliveCount
  <2> QED
    BY <1>5, <2>1
<1> HIDE DEF S2, k
<1>9. HandsOver(S1, S2, x, t, k, Y)
  BY <1>5, <1>6, <1>8 DEF HandsOver
<1>10. /\ Informed(S2) /\ Marks(S2, mx, b, C, L, Threads) /\ Knows(S2, mx) /\ Spread(S2, RoundSegs(b), L, Y)
       /\ Unmoved(S1, S2, x)
  <2>1. Y \in SUBSET Threads /\ t \in Y /\ L \in SUBSET Y
    OBVIOUS
  <2> HIDE DEF Y
  <2> QED
    BY <1>2, <1>3, <1>9, <2>1, HandsOverScene
<1>11. Record(S2, E, at, P2, mx, U, b, L, Q)
  <2>1. Told(S1, E, at, P, mx, U, b, L, Q) /\ Heard(S1, E, at, P)
    BY <1>4 DEF Record, Told
  <2>2. HeardAt(S1, E, at, k, P[u])
    BY <1>2, <1>5, <2>1 DEF HeardAt, Heard
  <2>3. Told(S2, E, at, P2, mx, U, b, L, Q)
    BY <1>2, <1>5, <1>9, <1>10, <2>1, <2>2, HandsOverTold
  <2> QED
    BY <1>2, <1>4, <1>6, <2>3, RaisedRecord
<1>12. /\ S2 \in DState /\ Owned(S2.seg, S2.list, x) /\ InOrder(S2) /\ Informed(S2) /\ S2.run = t /\ HasRoom(S2.seg, t)
       /\ \A v \in Threads : S2.list[v] = <<>> <=> S1.list[v] = <<>>
  BY <1>2, <1>6 DEF Raised, Steady
<1>13. S2.list[t] # <<>> /\ S2.list[u] # <<>> /\ \A v \in L : S2.list[v] # <<>>
  BY <1>2, <1>12
<1>14. Stepped(S2, T, x, t)
  BY <1>12, <1>13, NewSegmentStepped
<1> HIDE DEF T
<1>15. Record(T, E, at, P2, mx, U, b, L, Q) /\ Hits(T, E, at)
  BY <1>11, <1>12, <1>13, <1>14, SteppedRecord
<1>16. Informed(T) /\ Marks(T, mx, b, C, L, Threads) /\ Knows(T, mx) /\ Spread(T, RoundSegs(b), L, Y)
  <2>1. Marks(S2, mx, b, C, L, Threads \ {t}) /\ Spread(S2, RoundSegs(b), L, Y \ {t}) /\ Y \in SUBSET Threads
    BY <1>10 DEF Marks, Spread
  <2> HIDE DEF Y
  <2> QED
    BY <1>10, <1>12, <1>13, <1>14, <2>1, SteppedScene
<1>17. /\ T \in DState /\ InOrder(T) /\ Owned(T.seg, T.list, x) /\ T.run = t
       /\ \A v \in Threads : T.list[v] = <<>> <=> S2.list[v] = <<>>
  BY <1>12, <1>14 DEF Stepped, SteadyBut
<1>18. vc_lte(ClockOf(T, u), ClockOf(T, t))
  <2>1. ClockOf(T, u) = ClockOf(S2, u) /\ vc_lte(ClockOf(S2, t), ClockOf(T, t))
    BY <1>12, <1>13, <1>14, SteppedGrows DEF Grows, Stepped
  <2>2. ClockOf(S2, u) \in Clock /\ ClockOf(S2, t) \in Clock /\ ClockOf(T, t) \in Clock
    BY <1>12, <1>13, <1>17, LatestIs
  <2> QED
    BY <1>7, <2>1, <2>2, vc_lteTrans
<1>19. TakenOver(T, t, u, mx, b, C, L)
  <2>1. x = Ext(mx, b) /\ T.list[u] # <<>> /\ \A v \in L : T.list[v] # <<>>
    BY <1>13, <1>17 DEF Refs2
  <2> QED
    BY <1>16, <1>17, <1>18, <2>1 DEF TakenOver
<1> QED
  BY <1>15, <1>19 DEF T, S2, S1

LEMMA DeletedIs ==
  ASSUME NEW S \in DState, NEW x, Owned(S.seg, S.list, x), NEW u \in Threads
  PROVE  LET D == thread_delete(S, u) IN
         /\ D \in DState /\ Owned(D.seg, D.list, x) /\ D.run = S.run /\ D.cset = S.cset
         /\ D.list[u] = <<>> /\ \A v \in Threads : v # u => D.list[v] = S.list[v]
         /\ \A i \in SegIds : \/ D.seg[i].vc = S.seg[i].vc /\ D.seg[i].bm = S.seg[i].bm
                              \/ D.seg[i] = NoSegment /\ ~ InList(D.list, i)
PROOF
<1> DEFINE D == thread_delete(S, u)
<1>1. /\ D = [seg |-> sg_put(S.seg, Range(S.list[u])), list |-> [S.list EXCEPT ![u] = <<>>],
              run |-> S.run, cset |-> S.cset]
      /\ D \in DState /\ Owned(D.seg, D.list, x)
  BY DeleteIs
<1> HIDE DEF D
<1>2. D.list = [S.list EXCEPT ![u] = <<>>] /\ S.list \in [Threads -> Seq(SegIds)]
      /\ D.seg = sg_put(S.seg, Range(S.list[u])) /\ D.run = S.run /\ D.cset = S.cset
  BY <1>1, DStateFields
<1>3. D.list[u] = <<>> /\ \A v \in Threads : v # u => D.list[v] = S.list[v]
  BY <1>2
<1>4. ASSUME NEW i \in SegIds
      PROVE  \/ D.seg[i].vc = S.seg[i].vc /\ D.seg[i].bm = S.seg[i].bm
             \/ D.seg[i] = NoSegment /\ ~ InList(D.list, i)
  <2>1. S.seg[i] \in SegRec
    BY DStateFields
  <2>2. CASE i \notin Range(S.list[u])
    BY <1>2, <2>2 DEF sg_put
  <2>3. CASE i \in Range(S.list[u]) /\ S.seg[i].refcnt # 1
    <3>1. D.seg[i] = [S.seg[i] EXCEPT !.refcnt = @ - 1]
      BY <1>2, <2>3 DEF sg_put
    <3> QED
      BY <2>1, <3>1 DEF SegRec
  <2>4. CASE i \in Range(S.list[u]) /\ S.seg[i].refcnt = 1
    <3>1. D.seg[i] = NoSegment
      BY <1>2, <2>4 DEF sg_put
    <3>2. i[1] = u
      BY <2>4, ListedAt DEF Owned
    <3>3. ~ InList(D.list, i)
      BY <1>3, <3>2 DEF InList, Range
    <3> QED
      BY <3>1, <3>3
  <2> QED
    BY <2>2, <2>3, <2>4
<1> QED
  BY <1>1, <1>2, <1>3, <1>4 DEF D

LEMMA JoinPlot ==
  ASSUME Parents \subseteq {1}, TypeOK, Held, Ranked, PlotNow, NEW t \in Threads, NEW u \in Threads, Join(t, u),
         TypeOK', Held', Ranked'
  PROVE  PlotNow'
PROOF
<1> DEFINE S  == Scheduled(t)
           T  == thread_new_segment(thread_combine_vc(thread_new_segment(S, u), t, u), t)
           D  == thread_delete(T, u)
           X  == barrier_thread_destroy(D, barrier.node[u])
           x  == Ext(mutex, barrier)
           y  == Ext(mutex', barrier')
           C  == Comers(waiting, arrived.round)
           L  == Leavers(waiting, arrived.round)
           Q  == arrived.past[arrived.round - 1]
           p  == [past EXCEPT ![t] = @ \cup past[u], ![u] = {}]
           P  == [past EXCEPT ![t] = @ \cup past[u]]
           F  == {e \in made : e.thread = u}
<1>1. /\ status[t] # "none" /\ waiting[t] = None /\ status[u] = "finished" /\ u # t /\ t = 1
      /\ HasRoom(seg, t) /\ HasRoom(seg, u) /\ Become(X) /\ Sync /\ Forget(F, p)
      /\ mutex' = mutex_thread_delete(u) /\ barrier' = [barrier EXCEPT !.node[u] = NoNode]
      /\ UNCHANGED <<s_segment_merging, waiting>>
  BY RoomIs DEF Join, InClient
<1>2. list[u] # <<>> /\ waiting[u] = None
  BY <1>1 DEF Held
<1>3. t \notin C /\ t \notin L /\ u \notin C /\ u \notin L
  BY <1>1, <1>2, NotWaiting
<1>4. Entry(S, t)
  BY <1>1, Entered
<1>5. /\ S \in DState /\ S.seg = seg /\ S.list = list /\ S.run = t /\ S.list[t] # <<>>
      /\ Owned(S.seg, S.list, x) /\ Listed(S.list) /\ InOrder(S) /\ Informed(S) /\ Refs2(mutex, barrier, x)
      /\ L \in SUBSET Threads /\ \A v \in L : S.list[v] # <<>>
  BY <1>4, EntryIs
<1>6. Gate(waiting, arrived, barrier) /\ Scene(S, mutex, barrier, C, L) /\ Arrivals(past, C, arrived.past[arrived.round])
  BY <1>4, EntryIs
<1>7. PICK at : /\ Record(S, made, at, past, mutex, unlocked, barrier, L, Q)
                /\ Stamped(S, made, at, waiting, syncs) /\ Hits(S, made, at)
  BY <1>4, EntryIs
<1>8. /\ past \in [Threads -> SUBSET Event] /\ p \in [Threads -> SUBSET Event]
      /\ \A v \in Threads : p[v] = IF v = u THEN {} ELSE P[v]
      /\ Learnt(past, P, t, past[u])
  BY <1>1 DEF TypeOK, Learnt
<1>9. /\ Forgotten(F, made, made', p, past', unlocked, unlocked')
      /\ arrived'.round = arrived.round /\ arrived'.n = arrived.n
      /\ arrived'.past[arrived.round] = arrived.past[arrived.round] \ F
      /\ L # {} => arrived'.past[arrived.round - 1] = Q \ F
  BY <1>1, <1>6, <1>8, ForgetRounds
<1>10. C \in SUBSET Threads /\ Comers(waiting, arrived'.round) = C /\ Leavers(waiting, arrived'.round) = L
  BY <1>9 DEF Comers
<1> HIDE DEF S, C, L, Q, x, p, P
<1>11. TakenOver(T, t, u, mutex, barrier, C, L) /\ Record(T, made, at, P, mutex, unlocked, barrier, L, Q) /\ Hits(T, made, at)
  BY <1>1, <1>2, <1>3, <1>5, <1>6, <1>7, <1>8, TakeOver
<1> HIDE DEF T
<1>12. /\ T \in DState /\ InOrder(T) /\ Owned(T.seg, T.list, x) /\ T.run = t /\ T.list[u] # <<>>
       /\ vc_lte(ClockOf(T, u), ClockOf(T, t)) /\ \A v \in L : T.list[v] # <<>>
  BY <1>11 DEF TakenOver, x
<1>13. /\ D \in DState /\ Owned(D.seg, D.list, x) /\ D.run = T.run /\ D.cset = T.cset
       /\ D.list[u] = <<>> /\ \A v \in Threads : v # u => D.list[v] = T.list[v]
       /\ \A i \in SegIds : \/ D.seg[i].vc = T.seg[i].vc /\ D.seg[i].bm = T.seg[i].bm
                            \/ D.seg[i] = NoSegment /\ ~ InList(D.list, i)
  BY <1>12, DeletedIs
<1> HIDE DEF D
<1>14. /\ X \in DState /\ X.list = D.list /\ X.run = D.run /\ X.cset = D.cset
       /\ \A v \in Threads : barrier'.node[v] = IF v = u THEN NoNode ELSE barrier.node[v]
       /\ \A i \in SegIds : \/ X.seg[i].vc = D.seg[i].vc /\ X.seg[i].bm = D.seg[i].bm
                            \/ X.seg[i] = NoSegment /\ ~ InList(D.list, i)
  BY <1>1, <1>13, NodeDestroyIs, ZenonT(60) DEF x
<1>15. ASSUME NEW i \in SegIds, x[i] = 0 PROVE X.seg[i] = D.seg[i]
  <2> DEFINE o0 == barrier.node[u].sg[0]
             o1 == barrier.node[u].sg[1]
  <2>1. i # o0 /\ i # o1
    BY <1>5, <1>15, Refs2Facts, ThreadsAre DEF Rounds, Null
  <2>2. X = [D EXCEPT !.seg = sg_put(sg_put(@, {o0}), {o1})]
    BY DEF barrier_thread_destroy
  <2>3. X.seg = sg_put(sg_put(D.seg, {o0}), {o1})
    BY <1>13, <2>2, SetSeg
  <2> QED
    BY <2>1, <2>3 DEF sg_put
<1> HIDE DEF X
<1>16. Reaped(T, X, u, mutex, mutex', barrier, barrier', y)
  <2>1. seg' = X.seg /\ list' = X.list /\ X = S0'
    <3>1. X = [seg |-> X.seg, list |-> X.list, run |-> X.run, cset |-> X.cset]
      BY <1>14 DEF DState
    <3> QED
      BY <1>1, <3>1 DEF Become, S0
  <2>2. Owned(seg', list', y)
    BY DEF Held
  <2>3. InOrder(X)
    BY <2>1 DEF Ranked
  <2>4. Refs2(mutex', barrier', y)
    BY DEF Refs2, TypeOK, Held
  <2>5. \A m \in Mutexes : /\ mutex'[m].last_locked_segment = mutex[m].last_locked_segment
                           /\ mutex'[m].recursion_count = mutex[m].recursion_count
                           /\ mutex[m].recursion_count = 0 => mutex'[m].owner = mutex[m].owner
    BY <1>1, MutexDeleteIs
  <2>6. barrier'.pre_iteration = barrier.pre_iteration
    BY <1>1 DEF TypeOK, BarrierRec
  <2>7. \A i \in SegIds : \/ X.seg[i].vc = T.seg[i].vc /\ X.seg[i].bm = T.seg[i].bm
                          \/ X.seg[i] = NoSegment /\ ~ InList(X.list, i)
    <3>1. ASSUME NEW i \in SegIds, D.seg[i] = NoSegment, ~ InList(D.list, i) PROVE X.seg[i] = NoSegment
      <4>1. x[i] \in Nat /\ D.seg[i].refcnt = x[i]
        BY <1>13, <3>1 DEF Owned
      <4> QED
        BY <1>15, <3>1, <4>1, NoSegmentType
    <3> QED
      BY <1>13, <1>14, <3>1
  <2> QED
    BY <1>12, <1>13, <1>14, <2>1, <2>2, <2>3, <2>4, <2>5, <2>6, <2>7 DEF Reaped, x
<1> HIDE DEF y
<1>17. Succeeded(T, u)
  BY <1>1, <1>12 DEF Succeeded
<1>18. Scene(X, mutex', barrier', C, L)
  <2>1. Informed(T) /\ Marks(T, mutex, barrier, C, L, Threads) /\ Knows(T, mutex) /\ Spread(T, RoundSegs(barrier), L, Threads \ {u})
    BY <1>11 DEF TakenOver
  <2> QED
    BY <1>3, <1>5, <1>12, <1>16, <1>17, <2>1, ReapedScene
<1>19. Outlived(u, made, made', P, past', unlocked, unlocked')
  <2>1. made' = made \ F /\ (\A v \in Threads : past'[v] = p[v] \ F) /\ (\A m \in Mutexes : unlocked'[m] = unlocked[m] \ F)
    BY <1>9 DEF Forgotten
  <2>2. past'[u] = {} /\ \A v \in Threads : v # u => past'[v] = P[v] \ F
    BY <1>8, <2>1
  <2> QED
    BY <2>1, <2>2 DEF Outlived
<1>20. /\ Record(X, made', at, past', mutex', unlocked', barrier', L, arrived'.past[arrived.round - 1])
       /\ Hits(X, made', at)
  <2>1. L # {} => \A e : e \in arrived'.past[arrived.round - 1] <=> e \in Q /\ (e \in made => e.thread # u)
    BY <1>9
  <2>2. Lead(T, RoundSegs(barrier), L) /\ 1 \notin L /\ T.run = 1 /\ Refs2(mutex, barrier, Ext(mutex, barrier))
    BY <1>1, <1>3, <1>5, <1>11, <1>12 DEF TakenOver, Spread, x
  <2> QED
    BY <1>5, <1>11, <1>16, <1>17, <1>19, <2>1, <2>2, ReapedRecord
<1>21. Stamped(X, made', at, waiting, syncs')
  <2>1. made' \subseteq made /\ made \subseteq Event /\ syncs \in Nat /\ syncs' = syncs + 1
    BY <1>1, <1>9 DEF Forgotten, TypeOK, Sync
  <2>2. Stamped(S, made', at, waiting, syncs) /\ made' \subseteq Event
    BY <1>7, <2>1 DEF Stamped
  <2> QED
    BY <2>1, <2>2, LaterStamped
<1>22. Arrivals(past', C, arrived'.past[arrived.round])
  <2>1. \A v \in C : p[v] = past[v]
    BY <1>3, <1>8, <1>10 DEF Learnt
  <2>2. Arrivals(p, C, arrived.past[arrived.round])
    BY <1>6, <2>1 DEF Arrivals
  <2> QED
    BY <1>9, <1>10, <2>2, ForgottenArrivals
<1>23. Gate(waiting, arrived', barrier')
  <2>1. /\ barrier'.pre_iteration = barrier.pre_iteration /\ barrier'.post_iteration = barrier.post_iteration
        /\ barrier'.pre_waiters_left = barrier.pre_waiters_left /\ barrier'.post_waiters_left = barrier.post_waiters_left
    BY <1>1 DEF TypeOK, BarrierRec
  <2>2. \A v \in Threads : barrier'.node[v].present => v \in Participants
    BY <1>6, <1>14 DEF Gate, NoNode
  <2>3. \A v \in Threads : ~ barrier'.node[v].present => \A r \in Rounds : barrier'.node[v].sg[r] = Null
    BY <1>6, <1>14 DEF Gate, NoNode
  <2> QED
    BY <1>6, <1>9, <2>1, <2>2, <2>3 DEF Gate
<1>24. Plot(X, made', past', mutex', unlocked', barrier', waiting', arrived', syncs')
  <2>1. Chronicle(X, made', at, past', mutex', unlocked', barrier', waiting, arrived', syncs')
    BY <1>9, <1>10, <1>20, <1>21 DEF Chronicle
  <2> QED
    BY <1>1, <1>9, <1>10, <1>18, <1>22, <1>23, <2>1 DEF Plot
<1> QED
  BY <1>1, <1>14, <1>24, BecomePlot

-----------------------------------------------------------------------------
(* The theorems                                                            *)

LEMMA InitPlot == Init => PlotNow
PROOF
<1> SUFFICES ASSUME Init PROVE PlotNow
  OBVIOUS
<1> DEFINE one == <<1, 1>>
           v == vc_increment(NoSegment.vc, 1)
           C == Comers(waiting, arrived.round)
           L == Leavers(waiting, arrived.round)
           at == [e \in Event |-> 0]
<1>1. TypeOK /\ Held /\ InOrder(S0)
  BY InitHeld, InitRanked DEF Ranked
<1>2. S0 \in DState /\ S0.seg = seg /\ S0.list = list /\ S0.run = 1 /\ S0.cset = {} /\ Listed(list)
  BY <1>1, S0Fields DEF TypeOK, Held, Owned, Init
<1>3. one \in SegIds /\ one[1] = 1 /\ one # Null /\ 1 \in Threads
  BY ThreadsAre, SizesAssumption DEF SegIds, Null
<1>4. v \in Clock /\ v[1] = 1
  <2>1. NoSegment.vc \in Clock /\ \A t \in Threads : NoSegment.vc[t] = 0
    BY NoSegmentType, SegFields
  <2> QED
    BY <2>1, vc_incrementType, ThreadsAre
<1> HIDE DEF v
<1>5. /\ \A i \in SegIds : seg[i] = IF i = one THEN [vc |-> v, bm |-> {}, refcnt |-> 1] ELSE NoSegment
      /\ \A t \in Threads : list[t] = IF t = 1 THEN << one >> ELSE <<>>
  BY DEF Init, v
<1> HIDE DEF one
<1>6. seg[one].vc = v /\ list[1] = << one >> /\ \A t \in Threads : list[t] # <<>> => t = 1
  BY <1>3, <1>5
<1>7. Latest(S0, 1) = one /\ ClockOf(S0, 1) = v
  BY <1>2, <1>6 DEF ClockOf, Latest, Last
<1>8. /\ \A i \in SegIds : InList(list, i) => i = one
      /\ \A i \in SegIds : i # one => seg[i].vc[1] = 0
      /\ \A i \in SegIds : seg[i].bm = {}
  <2>1. ASSUME NEW i \in SegIds, InList(list, i) PROVE i = one
    <3>1. i[1] \in Threads /\ i \in Range(list[i[1]]) /\ list[i[1]] \in Seq(SegIds)
      BY <1>2, <2>1, ThreadsAre, ListedAt DEF InList
    <3>2. PICK a \in 1 .. Len(list[i[1]]) : list[i[1]][a] = i
      BY <3>1, RangeSeq
    <3> QED
      BY <1>5, <3>1, <3>2
  <2> QED
    BY <1>3, <1>5, <2>1, NoSegmentType DEF NoSegment
<1>9. C = {} /\ L = {} /\ arrived.round = 0 /\ arrived.n = 0 /\ \A t \in Threads : waiting[t] = None
  BY DEF Init, Comers, Leavers, NoArrivals
<1>10. /\ barrier.pre_iteration = 0 /\ barrier.post_iteration = 0
       /\ barrier.pre_waiters_left = BarrierCount /\ barrier.post_waiters_left = BarrierCount
       /\ \A t \in Threads : ~ barrier.node[t].present /\ \A r \in Rounds : barrier.node[t].sg[r] = Null
  BY DEF Init, NewBarrier, NoNode
<1>11. \A m \in Mutexes : mutex[m].owner = None /\ mutex[m].last_locked_segment = Null
  BY DEF Init, NoMutex
<1>12. made = {} /\ (\A t \in Threads : past[t] = {}) /\ \A m \in Mutexes : unlocked[m] = {}
  BY DEF Init
<1>13. Gate(waiting, arrived, barrier)
  <2>1. Cardinality({}) = 0
    BY FS_EmptySet
  <2> QED
    BY <1>9, <1>10, <2>1, SizesAssumption DEF Gate, C, L
<1> HIDE DEF C, L
<1>14. Scene(S0, mutex, barrier, C, L)
  <2>1. Informed(S0)
    <3>1. SUFFICES ASSUME NEW q \in SegIds, NEW i \in SegIds, InList(list, q), Own(S0, q) <= seg[i].vc[q[1]]
                   PROVE  vc_lte(seg[q].vc, seg[i].vc)
      BY <1>2 DEF Informed
    <3>2. q = one /\ Own(S0, q) = 1
      BY <1>2, <1>3, <1>4, <1>6, <1>8, <3>1 DEF Own
    <3>3. i = one
      BY <1>3, <1>8, <3>1, <3>2
    <3> QED
      BY <1>4, <1>6, <3>2, <3>3, vc_lteRefl
  <2>2. Marks(S0, mutex, barrier, C, L, Threads)
    BY <1>2, <1>3, <1>6, <1>7, <1>9, <1>10, <1>11 DEF Marks
  <2>3. Knows(S0, mutex)
    BY <1>11 DEF Knows
  <2>4. Fresh(S0, 1)
    BY <1>2, <1>4, <1>7, <1>8 DEF Fresh
  <2>5. Spread(S0, RoundSegs(barrier), L, Threads)
    BY <1>2, <1>6, <1>9, <2>4 DEF Spread, Gap, Lead
  <2> QED
    BY <2>1, <2>2, <2>3, <2>5 DEF Scene
<1>15. Arrivals(past, C, arrived.past[arrived.round])
  BY <1>9 DEF Arrivals
<1>16. Chronicle(S0, made, at, past, mutex, unlocked, barrier, waiting, arrived, syncs)
  <2>1. Told(S0, made, at, past, mutex, unlocked, barrier, L, arrived.past[arrived.round - 1])
    BY <1>9, <1>12 DEF Told, Dates, Heard, HeardAt
  <2>2. Evident(S0, made, at) /\ Kept(S0, made, at, s_segment_merging)
    BY <1>2, <1>8, <1>12 DEF Evident, Kept
  <2>3. Stamped(S0, made, at, waiting, syncs) /\ Hits(S0, made, at)
    BY <1>2, <1>12 DEF Stamped, Hits
  <2> QED
    BY <2>1, <2>2, <2>3 DEF Chronicle, Record, L
<1> QED
  BY <1>13, <1>14, <1>15, <1>16 DEF PlotNow, Plot, C, L

(* What DRD has not been told of a barrier it is never told. *)
LEMMA SeenBefore ==
  ASSUME TypeOK, [Next]_vars, ReturnsSeen'
  PROVE  ReturnsSeen
PROOF
<1>1. CASE UNCHANGED arrived
  BY <1>1 DEF ReturnsSeen
<1>2. ASSUME NEW t \in Threads, NEW x \in Addrs, StopUsingMem(t, x) PROVE ReturnsSeen
  <2>1. Forget({e \in made : e.access.addr = x}, past) /\ past \in [Threads -> SUBSET Event]
    BY <1>2 DEF StopUsingMem, TypeOK
  <2>2. arrived'.unseen = arrived.unseen
    BY <2>1, ForgetType
  <2> QED
    BY <2>2 DEF ReturnsSeen
<1>3. ASSUME NEW t \in Threads, NEW u \in Threads, Join(t, u) PROVE ReturnsSeen
  <2> DEFINE p == [past EXCEPT ![t] = @ \cup past[u], ![u] = {}]
  <2>1. Forget({e \in made : e.thread = u}, p)
    BY <1>3 DEF Join
  <2>2. p \in [Threads -> SUBSET Event]
    BY DEF TypeOK
  <2> HIDE DEF p
  <2>3. arrived'.unseen = arrived.unseen
    BY <2>1, <2>2, ForgetType
  <2> QED
    BY <2>3 DEF ReturnsSeen
<1>4. ASSUME NEW t \in Threads, BarrierPreWait(t) PROVE ReturnsSeen
  BY <1>4 DEF BarrierPreWait, ReturnsSeen
<1>5. ASSUME NEW t \in Threads, BarrierDestroy(t) PROVE ReturnsSeen
  BY <1>5, DestroyedArrivals DEF ReturnsSeen
<1>6. CASE UNCHANGED vars
  BY <1>1, <1>6 DEF vars, histVars
<1>7. ASSUME NEW t \in Threads, \/ Finish(t) \/ (\E a \in Access : TraceAccess(t, a)) \/ (\E u \in Threads : Create(t, u))
                                 \/ (\E m \in Mutexes : MutexPostLock(t, m) \/ MutexUnlock(t, m) \/ MutexDestroy(t, m))
                                 \/ BarrierInit(t) \/ BarrierPostWait(t)
      PROVE  UNCHANGED arrived
  BY <1>7 DEF Finish, TraceAccess, Create, MutexPostLock, MutexUnlock, MutexDestroy, BarrierInit, BarrierPostWait, histVars
<1> QED
  BY <1>1, <1>2, <1>3, <1>4, <1>5, <1>6, <1>7, Zenon DEF Next

(* The participants of the barrier, of which there are no more than it is  *)
(* initialized for, and among which is the thread that joins the others.   *)
LEMMA NextPlot ==
  ASSUME Parents \subseteq {1}, Cardinality(Participants) <= BarrierCount, 1 \in Participants \/ Participants = {},
         TypeOK, Held, Ranked, ReturnsSeen => PlotNow, [Next]_vars
  PROVE  ReturnsSeen' => PlotNow'
PROOF
<1>0. TypeOK' /\ Held' /\ Ranked'
  BY NextHeld, NextRanked
<1> SUFFICES ASSUME ReturnsSeen' PROVE PlotNow'
  OBVIOUS
<1>14. PlotNow
  BY SeenBefore
<1>1. CASE UNCHANGED vars
  <2>1. S0' = S0 /\ UNCHANGED <<made, past, mutex, unlocked, barrier, waiting, arrived, syncs, s_segment_merging>>
    BY <1>1 DEF vars, drdVars, histVars, S0
  <2>2. S0 \in DState /\ Become(S0) /\ Plot(S0, made', past', mutex', unlocked', barrier', waiting', arrived', syncs')
    BY <1>14, <2>1, S0Fields DEF TypeOK, PlotNow, Become, S0
  <2> QED
    BY <2>1, <2>2, BecomePlot
<1>2. ASSUME NEW t \in Threads, Finish(t) PROVE PlotNow'
  BY <1>0, <1>2, <1>14, FinishPlot
<1>3. ASSUME NEW t \in Threads, NEW a \in Access, TraceAccess(t, a) PROVE PlotNow'
  BY <1>0, <1>3, <1>14, TraceAccessPlot
<1>4. ASSUME NEW t \in Threads, NEW x \in Addrs, StopUsingMem(t, x) PROVE PlotNow'
  BY <1>0, <1>4, <1>14, StopUsingMemPlot
<1>5. ASSUME NEW t \in Threads, NEW u \in Threads, Create(t, u) PROVE PlotNow'
  BY <1>0, <1>5, <1>14, CreatePlot
<1>6. ASSUME NEW t \in Threads, NEW u \in Threads, Join(t, u) PROVE PlotNow'
  BY <1>0, <1>6, <1>14, JoinPlot
<1>7. ASSUME NEW t \in Threads, NEW m \in Mutexes, MutexPostLock(t, m) PROVE PlotNow'
  BY <1>0, <1>7, <1>14, MutexPostLockPlot
<1>8. ASSUME NEW t \in Threads, NEW m \in Mutexes, MutexUnlock(t, m) PROVE PlotNow'
  BY <1>0, <1>8, <1>14, MutexUnlockPlot
<1>9. ASSUME NEW t \in Threads, NEW m \in Mutexes, MutexDestroy(t, m) PROVE PlotNow'
  BY <1>0, <1>9, <1>14, MutexDestroyPlot
<1>10. ASSUME NEW t \in Threads, BarrierPreWait(t) PROVE PlotNow'
  BY <1>0, <1>10, <1>14, BarrierPreWaitPlot
<1>11. ASSUME NEW t \in Threads, BarrierPostWait(t) PROVE PlotNow'
  BY <1>0, <1>11, <1>14, BarrierPostWaitPlot
<1>12. ASSUME NEW t \in Threads, BarrierDestroy(t) PROVE PlotNow'
  BY <1>0, <1>12, <1>14, BarrierDestroyPlot
<1>13. ASSUME NEW t \in Threads, BarrierInit(t) PROVE PlotNow'
  BY <1>0, <1>13, <1>14, BarrierInitPlot
<1> QED
  BY <1>1, <1>2, <1>3, <1>4, <1>5, <1>6, <1>7, <1>8, <1>9, <1>10, <1>11, <1>12, <1>13, Zenon DEF Next

LEMMA PlotFalseRace ==
  ASSUME TypeOK, Held, Ranked, PlotNow
  PROVE  NoFalseRace
PROOF
<1>1. SUFFICES ASSUME NEW t \in Threads, InClient(t), NEW b \in CheckedAgainst(t), NEW a \in Access, Conflicting(a, b)
               PROVE  Racing(t, a)
  BY DEF NoFalseRace
<1> DEFINE S == Scheduled(t)
<1>2. Entry(S, t)
  BY <1>1, Entered DEF InClient
<1>3. b \in S.cset
  BY <1>1 DEF CheckedAgainst
<1> HIDE DEF S
<1>4. S \in DState /\ Listed(S.list) /\ InOrder(S) /\ S.run = t /\ S.list[t] # <<>>
  BY <1>2, EntryIs
<1>5. PICK at : /\ Record(S, made, at, past, mutex, unlocked, barrier, Leavers(waiting, arrived.round), arrived.past[arrived.round - 1])
                /\ Hits(S, made, at)
  BY <1>2, EntryIs
<1>6. Dates(made, at) /\ Heard(S, made, at, past)
  BY <1>5 DEF Record, Told
<1>7. PICK e \in made : e.thread # t /\ e.access = b /\ at[e] > ClockOf(S, t)[e.thread]
  BY <1>3, <1>4, <1>5 DEF Hits
<1>8. at[e] \in Nat /\ ClockOf(S, t)[e.thread] \in Nat
  BY <1>4, <1>6, DatesNat, AliveCount
<1>9. e \notin past[t]
  BY <1>6, <1>7, <1>8 DEF Heard, Known
<1> QED
  BY <1>1, <1>7, <1>9 DEF Racing

LEMMA PlotRaceLost ==
  ASSUME TypeOK, Held, Ranked, PlotNow
  PROVE  NoRaceIsLost
PROOF
<1>1. SUFFICES ASSUME ~ s_segment_merging, NEW t \in Threads, InClient(t), NEW a \in Access, Racing(t, a)
               PROVE  Reports(t, a)
  BY DEF NoRaceIsLost, RacesAreReported
<1> DEFINE S == Scheduled(t)
           L == Leavers(waiting, arrived.round)
<1>2. Entry(S, t) /\ Current(S, s_segment_merging)
  BY <1>1, Entered, ScheduledRanked DEF InClient
<1>3. t \notin L
  BY <1>1, NotWaiting DEF InClient
<1>4. PICK e \in made \ past[t] : e.thread # t /\ Conflicting(a, e.access)
  BY <1>1 DEF Racing
<1>5. SUFFICES e.access \in S.cset
  BY <1>4 DEF Reports, CheckedAgainst
<1> HIDE DEF S, L
<1>6. S \in DState /\ Listed(S.list) /\ InOrder(S) /\ S.run = t /\ S.list[t] # <<>>
  BY <1>2, EntryIs
<1>7. Fresh(S, t)
  <2>1. Scene(S, mutex, barrier, Comers(waiting, arrived.round), L)
    BY <1>2, EntryIs DEF L
  <2> QED
    BY <1>3, <1>6, <2>1 DEF Scene, Spread
<1>8. PICK at : Record(S, made, at, past, mutex, unlocked, barrier, L, arrived.past[arrived.round - 1])
  BY <1>2, EntryIs DEF L
<1>9. Dates(made, at) /\ Heard(S, made, at, past) /\ Kept(S, made, at, s_segment_merging)
  BY <1>8 DEF Record, Told
<1>10. ~ Known(at, e, ClockOf(S, t)) /\ at[e] \in Nat /\ e.thread \in Threads /\ ClockOf(S, t)[e.thread] \in Nat
  BY <1>4, <1>6, <1>9, DatesNat, AliveCount DEF Heard
<1>11. PICK q \in SegIds : InList(S.list, q) /\ q[1] = e.thread /\ e.access \in S.seg[q].bm /\ Own(S, q) = at[e]
  BY <1>1, <1>4, <1>6, <1>9, <1>10 DEF Kept
<1>12. /\ Latest(S, t) \in SegIds /\ Latest(S, t)[1] = t /\ ClockOf(S, t) = S.seg[Latest(S, t)].vc
       /\ ClockOf(S, t)[t] \in Nat /\ S.seg[q].vc[t] \in Nat /\ S.seg[q].vc[e.thread] \in Nat
  BY <1>6, <1>10, <1>11, AliveCount, OwnNat
<1>13. ~ vc_lte(S.seg[q].vc, ClockOf(S, t))
  <2>1. S.seg[q].vc[e.thread] = at[e]
    BY <1>11 DEF Own
  <2>2. ~ (S.seg[q].vc[e.thread] <= ClockOf(S, t)[e.thread])
    BY <1>10, <2>1 DEF Known
  <2> QED
    BY <1>10, <2>2 DEF vc_lte
<1>14. ~ vc_lte(ClockOf(S, t), S.seg[q].vc)
  <2>1. q # Latest(S, t)
    BY <1>4, <1>11, <1>12
  <2>2. S.seg[q].vc[t] < ClockOf(S, t)[t]
    BY <1>7, <2>1 DEF Fresh
  <2>3. ~ (ClockOf(S, t)[t] <= S.seg[q].vc[t])
    BY <1>12, <2>2
  <2> QED
    BY <2>3 DEF vc_lte
<1>15. e.access \in ConflictSet(S, t)
  <2>1. Unordered(S, Latest(S, t), q)
    BY <1>12, <1>13, <1>14 DEF Unordered
  <2> QED
    BY <1>4, <1>6, <1>11, <2>1, ConflictSetIs
<1> QED
  BY <1>2, <1>6, <1>15 DEF Current

(* Where the main thread alone creates and joins threads, and takes part   *)
(* in the barrier if anyone does, which no more threads use than it was    *)
(* initialized for: whatever hits the conflict set that an access of a     *)
(* thread is checked against is an access of another thread that did not   *)
(* happen before it, unless a barrier was destroyed between the return of  *)
(* a thread from it and that thread's POST_BARRIER_WAIT.  Neither segments *)
(* that are merged or discarded, nor clocks that mutexes and barriers hand *)
(* on, nor thread ids used again make DRD report what is ordered.          *)
THEOREM NoFalseRaceHolds ==
  ASSUME Parents \subseteq {1}, Cardinality(Participants) <= BarrierCount, 1 \in Participants \/ Participants = {}
  PROVE  Spec => []NoFalseRace
PROOF
<1>1. Init => TypeOK /\ Held /\ Ranked /\ (ReturnsSeen => PlotNow)
  BY InitHeld, InitRanked, InitPlot
<1>2. TypeOK /\ Held /\ Ranked /\ (ReturnsSeen => PlotNow) /\ [Next]_vars
        => (TypeOK /\ Held /\ Ranked /\ (ReturnsSeen => PlotNow))'
  BY NextHeld, NextRanked, NextPlot
<1>3. TypeOK /\ Held /\ Ranked /\ (ReturnsSeen => PlotNow) => NoFalseRace
  BY PlotFalseRace DEF NoFalseRace
<1> QED
  BY <1>1, <1>2, <1>3, PTL DEF Spec

(* Under the same conditions and with --segment-merging=no, an access that *)
(* races with one of a thread that has not been joined hits the conflict   *)
(* set: no segment that somebody is not ordered after is discarded, and no *)
(* clock knows of an access that did not happen before.                    *)
THEOREM NoRaceIsLostHolds ==
  ASSUME Parents \subseteq {1}, Cardinality(Participants) <= BarrierCount, 1 \in Participants \/ Participants = {}
  PROVE  Spec => []NoRaceIsLost
PROOF
<1>1. Init => TypeOK /\ Held /\ Ranked /\ (ReturnsSeen => PlotNow)
  BY InitHeld, InitRanked, InitPlot
<1>2. TypeOK /\ Held /\ Ranked /\ (ReturnsSeen => PlotNow) /\ [Next]_vars
        => (TypeOK /\ Held /\ Ranked /\ (ReturnsSeen => PlotNow))'
  BY NextHeld, NextRanked, NextPlot
<1>3. TypeOK /\ Held /\ Ranked /\ (ReturnsSeen => PlotNow) => NoRaceIsLost
  BY PlotRaceLost DEF NoRaceIsLost
<1> QED
  BY <1>1, <1>2, <1>3, PTL DEF Spec
=============================================================================
