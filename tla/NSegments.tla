----------------------------- MODULE NSegments -----------------------------
(***************************************************************************)
(* The segment array of the address space manager                          *)
(* (m_aspacemgr/aspacemgr-linux.c): who owns every page of the address     *)
(* space, and what the manager advises about new mappings.                 *)
(*                                                                         *)
(* The unit of addresses is the page: P pages make the address space, and  *)
(* the manager places mappings in aspacem_minAddr .. aspacem_maxAddr.  A   *)
(* file stands for its device, inode and name; protections are sets of     *)
(* "R", "W", "X".  An address space `am' is the array of segments and the  *)
(* table of file names they refer to.                                      *)
(***************************************************************************)
EXTENDS Integers, Sequences, SequencesExt, FiniteSetsExt

CONSTANTS
  P,                \* number of pages of the address space
  aspacem_minAddr,
  aspacem_maxAddr,
  Files,            \* the files that are mapped
  NoFile

ASSUME PageAssumption ==
  /\ {P, aspacem_minAddr, aspacem_maxAddr} \subseteq Nat
  /\ 0 < aspacem_minAddr
  /\ aspacem_minAddr < aspacem_maxAddr
  /\ aspacem_maxAddr < P - 1

ASSUME FileAssumption == NoFile \notin Files

Addr == 0 .. P - 1
pages(a, n) == a .. a + n - 1

AnonKinds == {"SkAnonC", "SkAnonV"}
FileKinds == {"SkFileC", "SkFileV"}
MappedKinds == AnonKinds \cup FileKinds \cup {"SkShmC"}
ClientKinds == {"SkAnonC", "SkFileC", "SkShmC"}
VKinds == {"SkAnonV", "SkFileV"}
Vacant == {"SkFree", "SkResvn"}
RWX == {"R", "W", "X"}

NSegment ==
  [kind : MappedKinds \cup Vacant, start : Int, end : Int,
   smode : {"SmFixed", "SmLower", "SmUpper"}, file : Files \cup {NoFile},
   offset : Int, fnIdx : Int, prot : SUBSET RWX, hasT : BOOLEAN, isCH : BOOLEAN]

init_nsegment(kind, start, end) ==
  [kind |-> kind, start |-> start, end |-> end, smode |-> "SmFixed",
   file |-> NoFile, offset |-> 0, fnIdx |-> -1, prot |-> {},
   hasT |-> FALSE, isCH |-> FALSE]

\* What every segment on its own must satisfy.
sane_NSegment(names, s) ==
  /\ s.start \in Addr /\ s.end \in s.start .. P - 1
  /\ s.kind # "SkResvn" => s.smode = "SmFixed"
  /\ s.kind \notin FileKinds => s.file = NoFile /\ s.offset = 0 /\ s.fnIdx = -1
  /\ s.kind \in FileKinds => s.fnIdx = -1 \/ (s.fnIdx \in DOMAIN names /\ names[s.fnIdx] # NoFile)
  /\ s.kind \in Vacant => s.prot = {} /\ ~s.hasT
  /\ s.isCH => s.kind = "SkAnonC"

-----------------------------------------------------------------------------
\* The binary search: the index of the segment that holds a.
find_nsegment_idx(segs, a) == CHOOSE i \in DOMAIN segs : a \in segs[i].start .. segs[i].end

NoSegment == [kind |-> "NULL"]

\* VG_(am_find_nsegment): free segments are not returned.
am_find_nsegment(segs, a) ==
  LET s == segs[find_nsegment_idx(segs, a)]
  IN  IF s.kind = "SkFree" THEN NoSegment ELSE s

\* VG_(am_next_nsegment), of the segment that holds a.
am_next_nsegment(segs, a, fwds) ==
  LET i == find_nsegment_idx(segs, a) + (IF fwds THEN 1 ELSE -1)
  IN  IF i \notin DOMAIN segs \/ segs[i].kind = "SkFree" THEN NoSegment ELSE segs[i]

\* The segments iLo .. iHi of the loops over a range.
segments_of(segs, a, n) ==
  {segs[i] : i \in find_nsegment_idx(segs, a) .. find_nsegment_idx(segs, a + n - 1)}

\* Only the segment that a range begins in is looked at.
first_valid_for_client(segs, a, n, freeOk) ==
  LET s == segs[find_nsegment_idx(segs, a)]
  IN  s.kind \in ClientKinds \/ (freeOk /\ s.kind \in Vacant)

is_valid_for_client(segs, a, n, freeOk) ==
  \A s \in segments_of(segs, a, n) : s.kind \in ClientKinds \/ (freeOk /\ s.kind \in Vacant)

is_valid_for_valgrind(segs, a, n) == \A s \in segments_of(segs, a, n) : s.kind \in VKinds

any_Ts_in_range(segs, a, n) == \E s \in segments_of(segs, a, n) : s.hasT

-----------------------------------------------------------------------------
\* The offsets of file mappings are not compared.
mergeable_any_offset(s1, s2) ==
  /\ s1.kind = s2.kind
  /\ s1.end + 1 = s2.start
  /\ \/ s1.kind = "SkFree"
     \/ s1.kind \in AnonKinds \cup FileKinds /\ s1.prot = s2.prot /\ s1.file = s2.file
        /\ s1.isCH = s2.isCH
     \/ s1.kind = "SkResvn" /\ s1.smode = "SmFixed" /\ s2.smode = "SmFixed"

\* maybe_merge_nsegments: the condition.
mergeable(s1, s2) ==
  /\ s1.kind = s2.kind
  /\ s1.end + 1 = s2.start
  /\ \/ s1.kind = "SkFree"
     \/ s1.kind \in AnonKinds /\ s1.prot = s2.prot /\ s1.isCH = s2.isCH
     \/ /\ s1.kind \in FileKinds /\ s1.prot = s2.prot /\ s1.file = s2.file
        /\ s2.offset = s1.offset + (s2.start - s1.start)
     \/ s1.kind = "SkResvn" /\ s1.smode = "SmFixed" /\ s2.smode = "SmFixed"

\* ... the flag of the second is lost.
merged_forgets_T(s1, s2) == [s1 EXCEPT !.end = s2.end]

\* ... and the result.
merged(s1, s2) == [s1 EXCEPT !.end = s2.end, !.hasT = @ \/ s2.hasT]

\* One segment more of the array in the making: merged with the last, or added.
preen_put(done, s) ==
  IF done # <<>> /\ mergeable(done[Len(done)], s)
  THEN [done EXCEPT ![Len(done)] = merged(@, s)]
  ELSE Append(done, s)

\* The array in the making after each segment of segs.
preened(segs) ==
  LET upto[i \in 0 .. Len(segs)] == IF i = 0 THEN <<>> ELSE preen_put(upto[i - 1], segs[i])
  IN  upto

\* preen_nsegments: merge neighbours, then release the names nobody uses.
preen_nsegments(segs, names) ==
  LET out == preened(segs)[Len(segs)]
  IN  [segs  |-> out,
       names |-> [i \in DOMAIN names |->
                    IF \E k \in 1 .. Len(out) : out[k].fnIdx = i THEN names[i] ELSE NoFile]]

split_nsegment_at(segs, a) ==
  LET i == find_nsegment_idx(segs, a)
      s == segs[i]
      upper == [s EXCEPT !.start = a,
                         !.offset = IF s.kind \in FileKinds THEN @ + (a - s.start) ELSE @]
  IN  IF s.start = a THEN segs
      ELSE SubSeq(segs, 1, i - 1) \o <<[s EXCEPT !.end = a - 1], upper>>
           \o SubSeq(segs, i + 1, Len(segs))

split_nsegments_lo_and_hi(segs, lo, hi) ==
  LET below == IF lo > 0 THEN split_nsegment_at(segs, lo) ELSE segs
  IN  IF hi < P - 1 THEN split_nsegment_at(below, hi + 1) ELSE below

add_segment(am, seg) ==
  LET segs == split_nsegments_lo_and_hi(am.segs, seg.start, seg.end)
  IN  preen_nsegments(SubSeq(segs, 1, find_nsegment_idx(segs, seg.start) - 1) \o <<seg>>
                      \o SubSeq(segs, find_nsegment_idx(segs, seg.end) + 1, Len(segs)),
                      am.names)

\* allocate_segname: the index of a name, and the table with it.  names is a
\* function on 0 .. segnames_used - 1.
allocate_segname(names, name) ==
  LET used == Cardinality(DOMAIN names)
      has  == {i \in DOMAIN names : names[i] = name}
      free == {i \in DOMAIN names : names[i] = NoFile}
      idx  == IF has # {} THEN Min(has) ELSE Min(free \cup {used})
  IN  [idx |-> idx, names |-> [i \in DOMAIN names \cup {idx} |-> IF i = idx THEN name ELSE names[i]]]

\* A new mapping in am: init_nsegment, the fields of the mapping, add_segment.
record_mapping(am, kind, a, n, prot, file, offset) ==
  LET anon == [init_nsegment(kind, a, a + n - 1) EXCEPT !.prot = prot]
      nm   == allocate_segname(am.names, file)
  IN  IF kind \in FileKinds
      THEN add_segment([am EXCEPT !.names = nm.names],
                       [anon EXCEPT !.file = file, !.offset = offset, !.fnIdx = nm.idx])
      ELSE add_segment(am, anon)

-----------------------------------------------------------------------------
aspacem_cStart == aspacem_minAddr
aspacem_vStart == (aspacem_minAddr + aspacem_maxAddr + 2) \div 2

\* A hint may overwrite what the client has mapped, as a fixed request may.
hint_over_client(kinds) == kinds \subseteq Vacant \cup ClientKinds

\* The kinds a client's hint may fall on without a search.
hint_accepted(kinds) == kinds \subseteq Vacant

\* VG_(am_get_advisory): ok and addr are its answer; sane is whether the holes
\* it looked at satisfy its assertions.
am_get_advisory(segs, rkind, start, len, forClient) ==
  LET n == Len(segs)
      reqStart == IF rkind = "MAny" THEN 0 ELSE start
      reqEnd == reqStart + len - 1
      i0 == find_nsegment_idx(segs, IF forClient THEN aspacem_cStart ELSE aspacem_vStart)
      at(j) == segs[((i0 - 1 + j) % n) + 1]
      holes == {j \in 0 .. n - 1 : at(j).kind = "SkFree"}
      floats == {j \in holes : at(j).end - at(j).start + 1 >= len}
      fixes == {j \in holes : at(j).start <= reqStart /\ reqEnd <= at(j).end}
      last == IF floats # {} /\ rkind = "MAny" THEN Min(floats)
              ELSE IF floats # {} /\ fixes # {} THEN Max({Min(floats), Min(fixes)})
              ELSE n - 1
      sane == \A j \in holes \cap 0 .. last :
                aspacem_minAddr <= at(j).start /\ at(j).end <= aspacem_maxAddr
      kinds == {s.kind : s \in segments_of(segs, reqStart, len)}
      answer(ok, a, sn) == [ok |-> ok, addr |-> IF ok THEN a ELSE 0, sane |-> sn]
  IN  IF forClient /\ rkind = "MFixed"
      THEN answer(kinds \subseteq Vacant \cup ClientKinds, reqStart, TRUE)
      ELSE IF forClient /\ rkind = "MHint" /\ hint_accepted(kinds) THEN answer(TRUE, reqStart, TRUE)
      ELSE IF rkind # "MAny" /\ fixes # {} THEN answer(TRUE, start, sane)
      ELSE IF rkind # "MFixed" /\ floats # {} THEN answer(TRUE, at(Min(floats)).start, sane)
      ELSE answer(FALSE, 0, sane)

-----------------------------------------------------------------------------
\* Where the segment array says mapped memory came from and ends: the kind
\* that a range becomes when it is unmapped.
unmapped_kind(start, end) ==
  IF start > aspacem_maxAddr \/ end < aspacem_minAddr THEN "SkResvn" ELSE "SkFree"

am_notify_munmap(am, a, n) ==
  add_segment(am, init_nsegment(unmapped_kind(a, a + n - 1), a, a + n - 1))

am_notify_mprotect(am, a, n, prot) ==
  LET segs == split_nsegments_lo_and_hi(am.segs, a, a + n - 1)
      hit(s) == s.kind \in MappedKinds /\ a <= s.start /\ s.end <= a + n - 1
  IN  preen_nsegments([i \in DOMAIN segs |-> IF hit(segs[i]) THEN [segs[i] EXCEPT !.prot = prot]
                                             ELSE segs[i]], am.names)

\* VG_(am_change_ownership_v_to_c), for a range within one segment of Valgrind's.
am_change_ownership_v_to_c(am, a, n) ==
  LET segs == split_nsegments_lo_and_hi(am.segs, a, a + n - 1)
      i == find_nsegment_idx(segs, a)
  IN  preen_nsegments([segs EXCEPT ![i].kind = IF @ = "SkFileV" THEN "SkFileC" ELSE "SkAnonC"],
                      am.names)

\* VG_(am_create_reservation): extra pages must be free above (or below) it.
am_create_reservation(am, a, n, smode, extra) ==
  LET lo == IF extra < 0 THEN a + extra ELSE a
      hi == IF extra > 0 THEN a + n - 1 + extra ELSE a + n - 1
      i  == find_nsegment_idx(am.segs, lo)
      ok == i = find_nsegment_idx(am.segs, hi) /\ am.segs[i].kind = "SkFree"
  IN  [ok |-> ok,
       am |-> IF ok THEN add_segment(am, [init_nsegment("SkResvn", a, a + n - 1) EXCEPT !.smode = smode])
              ELSE am]

\* VG_(am_extend_into_adjacent_reservation_client): the array after the segment
\* at index i has grown by n pages, upwards or downwards, where that may be.
can_extend_into_reservation(segs, i, n, up) ==
  LET r == IF up THEN i + 1 ELSE i - 1
  IN  /\ segs[i].kind = "SkAnonC"
      /\ r \in DOMAIN segs
      /\ segs[r].kind = "SkResvn"
      /\ segs[r].smode = IF up THEN "SmLower" ELSE "SmUpper"
      /\ n + 1 <= segs[r].end - segs[r].start + 1

\* The reservation keeps its size.
extend_one_side(segs, i, n, up) ==
  IF up THEN [segs EXCEPT ![i].end = @ + n] ELSE [segs EXCEPT ![i].start = @ - n]

extend_into_reservation(segs, i, n, up) ==
  IF up THEN [segs EXCEPT ![i].end = @ + n, ![i + 1].start = @ + n]
  ELSE [segs EXCEPT ![i].start = @ - n, ![i - 1].end = @ - n]

\* The flags that VG_(am_set_segment_isCH_if_SkAnonC) and its hasT sibling set.
am_set_isCH(segs, a) ==
  LET i == find_nsegment_idx(segs, a)
  IN  [segs EXCEPT ![i].isCH = @ \/ segs[i].kind = "SkAnonC"]
am_set_hasT(segs, a) ==
  LET i == find_nsegment_idx(segs, a)
  IN  [segs EXCEPT ![i].hasT = @ \/ segs[i].kind \in {"SkAnonC", "SkFileC"}]

-----------------------------------------------------------------------------
\* What the operations above keep.

\* The segments cover the pages 0 .. hi, in order and without a gap.
Tiles(segs, hi) ==
  /\ segs \in Seq(NSegment) /\ segs # <<>>
  /\ segs[1].start = 0 /\ segs[Len(segs)].end = hi
  /\ \A i \in 1 .. Len(segs) : segs[i].start <= segs[i].end
  /\ \A i \in 1 .. Len(segs) - 1 : segs[i].end + 1 = segs[i + 1].start

Covers(segs) == Tiles(segs, P - 1)

\* names is a table of names, with holes.
IsNames(names) ==
  /\ IsFiniteSet(DOMAIN names)
  /\ \E n \in 0 .. Cardinality(DOMAIN names) : names \in [0 .. n - 1 -> Files \cup {NoFile}]

\* A segment on its own, with its file's name; shared memory is in one piece.
Sound(names, s) ==
  /\ sane_NSegment(names, s)
  /\ s.kind \in FileKinds => s.fnIdx \in DOMAIN names /\ names[s.fnIdx] = s.file /\ s.file # NoFile
  /\ s.kind = "SkShmC" => s.start = s.end

\* An array that a call may leave, and find.
IsSpace(m) ==
  /\ DOMAIN m = {"segs", "names"}
  /\ Covers(m.segs) /\ IsNames(m.names)
  /\ \A i \in 1 .. Len(m.segs) : Sound(m.names, m.segs[i])

\* No neighbours are left that could be one; superblocks are marked too late.
Preened(segs) ==
  \A i \in 1 .. Len(segs) - 1 : mergeable(segs[i], segs[i + 1]) => segs[i].isCH
=============================================================================
