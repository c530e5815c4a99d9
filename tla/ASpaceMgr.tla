----------------------------- MODULE ASpaceMgr -----------------------------
(***************************************************************************)
(* The address space manager at work: the segment array of NSegments, the  *)
(* kernel's own map, the client's system calls that change both (mmap,     *)
(* munmap, mprotect, mremap, brk, shmat, shmdt and the growth of the       *)
(* stack), Valgrind's own mappings, and the translations that a discard    *)
(* must remove when the code they were made from goes away.                *)
(*                                                                         *)
(* Every action is one system call with its wrapper: all of them run to    *)
(* their end with the big lock held.  The kernel is external: it refuses   *)
(* pages outside UserPages, may refuse a hinted placement, and a call it   *)
(* refuses changes nothing.  Requests are of whole pages and do not wrap   *)
(* around; the others are refused before anything changes.                 *)
(*                                                                         *)
(* kern, stale, vmaps and clobbered are not the manager's: they are what   *)
(* really is mapped, which translations no longer match the memory they    *)
(* were made from, what Valgrind was given for itself, and which pages a   *)
(* floating request has overwritten.                                       *)
(***************************************************************************)
EXTENDS NSegments

CONSTANTS
  UserPages,        \* pages the kernel lets a process map
  Starts, Lens,     \* places and lengths of the client's requests
  Prots,            \* protections the client asks for
  Offsets,          \* offsets in the file of what it maps
  ExeFile, ImageFile,
  ExePage, BrkBase, DsegPages, StackEnd, StackPages, ImagePage, TrampolinePage,
  HALVES,           \* brk counts in parts of a page
  ShmPages,         \* length of the shared memory segment
  CrossSegments,    \* do translated blocks run from one segment into the next?
  MaxOps, MaxTrans, MaxV   \* bounds of the instance

\* Requests do not wrap around.
ASSUME RequestAssumption ==
  /\ Starts \subseteq Addr /\ Lens \subseteq Nat \ {0}
  /\ \A a \in Starts, n \in Lens : a + n <= P
  /\ Prots \subseteq SUBSET RWX /\ Offsets \subseteq Nat
  /\ HALVES \in Nat \ {0}

\* Where the program, its stack and its data segment are: not where Valgrind is.
ASSUME LayoutAssumption ==
  /\ {ExeFile, ImageFile} \subseteq Files
  /\ pages(ImagePage, 2) \subseteq Addr /\ ImagePage \in Addr /\ TrampolinePage \in pages(ImagePage, 2)
  /\ {0, ExePage, StackEnd, BrkBase} \subseteq Addr \ pages(ImagePage, 2)
  /\ StackPages \in 2 .. StackEnd + 1
  /\ DsegPages \in 2 .. P - 1 /\ BrkBase + DsegPages < P

VARIABLES
  am,               \* nsegments[] and segnames[]
  kern,             \* the kernel's map: page -> mapping
  brk,              \* VG_(brk_base) and VG_(brk_limit)
  trans,            \* the translated blocks: sets of pages
  stale, vmaps, clobbered,
  dead,             \* an assertion has failed, or NULL was followed: where
  ops

vars == <<am, kern, brk, trans, stale, vmaps, clobbered, dead, ops>>

RX == {"R", "X"}

-----------------------------------------------------------------------------
\* The kernel.
Hole == [file |-> "hole"]
kmap(k, a, n, file, offset, prot, owner) ==
  [p \in Addr |-> IF p \in pages(a, n)
                  THEN [file |-> file, prot |-> prot, owner |-> owner,
                        offset |-> IF file = NoFile THEN 0 ELSE offset + (p - a)]
                  ELSE k[p]]
kunmap(k, a, n) == [p \in Addr |-> IF p \in pages(a, n) THEN Hole ELSE k[p]]
kprotect(k, a, n, prot) == [p \in Addr |-> IF p \in pages(a, n) THEN [k[p] EXCEPT !.prot = prot]
                                           ELSE k[p]]
kremap(k, old, oldn, new, newn) ==
  [p \in Addr |-> IF p \in pages(new, newn)
                  THEN [k[old] EXCEPT !.offset = IF k[old].file = NoFile THEN 0 ELSE @ + (p - new)]
                  ELSE IF p \in pages(old, oldn) THEN Hole ELSE k[p]]

-----------------------------------------------------------------------------
\* Startup.

\* VG_(am_startup): the reservations, and what is mapped already.
am_startup ==
  LET all   == [segs |-> <<init_nsegment("SkFree", 0, P - 1)>>, names |-> <<>>]
      low   == add_segment(all, init_nsegment("SkResvn", 0, aspacem_minAddr - 1))
      high  == add_segment(low, init_nsegment("SkResvn", aspacem_maxAddr + 1, P - 1))
      bound == add_segment(high, init_nsegment("SkResvn", aspacem_vStart, aspacem_vStart))
  IN  record_mapping(bound, "SkFileV", ImagePage, 2, RX, ImageFile, 0)

\* The client's stack: a reservation that shrinks from above, then one page.
setup_client_stack(m) ==
  LET r == am_create_reservation(m, StackEnd + 1 - StackPages, StackPages - 1, "SmUpper", 1)
  IN  record_mapping(r.am, "SkAnonC", StackEnd, 1, RWX, NoFile, 0)

\* The client's data segment, at brk_base or else where there is room.
setup_client_dataseg(m) ==
  LET at(a) == am_create_reservation(m, a + 1, DsegPages - 1, "SmLower", 1)
      plan_B == am_get_advisory(m.segs, "MAny", 0, DsegPages, TRUE).addr
      base == IF at(BrkBase).ok THEN BrkBase ELSE plan_B
  IN  [base |-> base, am |-> record_mapping(at(base).am, "SkAnonC", base, 1, RWX, NoFile, 0)]

Init ==
  LET loaded == record_mapping(am_startup, "SkFileC", ExePage, 1, RX, ExeFile, 0)
      data   == setup_client_dataseg(setup_client_stack(loaded))
      k1 == kmap([p \in Addr |-> Hole], ImagePage, 2, ImageFile, 0, RX, "V")
      k2 == kmap(k1, ExePage, 1, ExeFile, 0, RX, "C")
      k3 == kmap(k2, StackEnd, 1, NoFile, 0, RWX, "C")
  IN  /\ am = am_change_ownership_v_to_c(data.am, TrampolinePage, 1)
      /\ kern = [kmap(k3, data.base, 1, NoFile, 0, RWX, "C")
                 EXCEPT ![TrampolinePage].owner = "C"]
      /\ brk = [base |-> data.base * HALVES, limit |-> data.base * HALVES]
      /\ vmaps = {<<p, 1, "SkFileV">> : p \in pages(ImagePage, 2) \ {TrampolinePage}}
      /\ trans = {} /\ stale = {} /\ clobbered = {} /\ dead = "no" /\ ops = 0

-----------------------------------------------------------------------------
\* The pages in `changed' get other contents, and those in `discard' lose their
\* translations.
Memory(k, changed, discard) ==
  /\ kern' = k
  /\ trans' = {e \in trans : e \cap discard = {}}
  /\ stale' = {e \in trans' : e \in stale \/ e \cap changed # {}}

\* The range if its segments are marked.
if_Ts(a, n) == IF any_Ts_in_range(am.segs, a, n) THEN pages(a, n) ELSE {}

Dies(where) ==
  /\ dead' = where
  /\ UNCHANGED <<am, kern, brk, trans, stale, vmaps, clobbered>>

Alive == dead = "no"
Request == Alive /\ ops < MaxOps /\ ops' = ops + 1

valid_client_addr(a, n) == is_valid_for_client(am.segs, a, n, TRUE)

-----------------------------------------------------------------------------
\* notify_aspacem_of_mmap with the kernel's mmap before it.
mmap_done(a, n, prot, file, offset, fixed) ==
  /\ pages(a, n) \subseteq UserPages
  /\ am' = record_mapping(am, IF file = NoFile THEN "SkAnonC" ELSE "SkFileC", a, n, prot, file, offset)
  /\ Memory(kmap(kern, a, n, file, offset, prot, "C"), pages(a, n), if_Ts(a, n))
  /\ clobbered' = IF fixed THEN clobbered
                  ELSE clobbered \cup {p \in pages(a, n) : kern[p] # Hole}
  /\ UNCHANGED <<brk, vmaps, dead>>

\* What a request maps: no file, or a file from an offset on.
Mappable == {<<NoFile, 0>>} \cup ({ExeFile} \X Offsets)

\* ML_(generic_PRE_sys_mmap)
sys_mmap(rkind, a, n) ==
  LET adv   == am_get_advisory(am.segs, rkind, a, n, TRUE)
      again == am_get_advisory(am.segs, "MAny", 0, n, TRUE)
      hint  == adv.sane /\ adv.ok /\ rkind = "MHint"   \* and the kernel refuses it
  IN  \/ (~adv.sane \/ (hint /\ ~again.sane)) /\ Dies("hole")
      \/ /\ adv.sane /\ adv.ok
         /\ \E prot \in Prots, of \in Mappable :
              \/ mmap_done(adv.addr, n, prot, of[1], of[2], rkind = "MFixed")
              \/ hint /\ again.sane /\ again.ok /\ mmap_done(again.addr, n, prot, of[1], of[2], FALSE)

\* PRE and POST(sys_munmap)
sys_munmap(a, n) ==
  /\ valid_client_addr(a, n)
  /\ pages(a, n) \subseteq UserPages
  /\ am' = am_notify_munmap(am, a, n)
  /\ Memory(kunmap(kern, a, n), pages(a, n), if_Ts(a, n))
  /\ UNCHANGED <<brk, vmaps, clobbered, dead>>

\* The kernel's mprotect of a range that is all mapped, and POST(sys_mprotect).
mprotect_done(a, n, prot) ==
  /\ \A p \in pages(a, n) : kern[p] # Hole
  /\ am' = am_notify_mprotect(am, a, n, prot)
  /\ IF "X" \in prot THEN Memory(kprotect(kern, a, n, prot), {}, {})
     ELSE Memory(kprotect(kern, a, n, prot), pages(a, n), if_Ts(a, n))
  /\ UNCHANGED <<brk, vmaps, clobbered, dead>>

\* PRE(sys_mprotect)
sys_mprotect(a, n, prot) ==
  /\ valid_client_addr(a, n)
  /\ mprotect_done(a, n, prot)

\* PRE(sys_mprotect) with PROT_GROWSDOWN or PROT_GROWSUP.
sys_mprotect_grows(a, n, prot, down) ==
  LET aseg == am_find_nsegment(am.segs, a)
      rseg == am_next_nsegment(am.segs, a, ~down)
  IN  /\ valid_client_addr(a, n)
      /\ \/ aseg = NoSegment /\ Dies("mprotect")
         \/ /\ aseg # NoSegment /\ rseg # NoSegment
            /\ rseg.kind = "SkResvn"
            /\ \/ /\ down /\ rseg.smode = "SmUpper"
                  /\ mprotect_done(aseg.start, a + n - aseg.start, prot)
               \/ /\ ~down /\ rseg.smode = "SmLower"
                  /\ mprotect_done(a, aseg.end - a + 1, prot)

-----------------------------------------------------------------------------
\* VG_(am_extend_map_client)
am_extend_map_client(s, n) == add_segment(am, [s EXCEPT !.end = @ + n])

\* The ranges whose translations do_mremap discards after a move.
relocate_discards(old, oldn, new, newn) ==
  IF any_Ts_in_range(am.segs, old, oldn) \/ any_Ts_in_range(am.segs, new, newn)
  THEN pages(old, oldn) \cup pages(new, newn) ELSE {}

\* VG_(am_relocate_nooverlap_client): old range within one segment.
am_relocate_nooverlap_client(old, oldn, new, newn) ==
  LET s == am.segs[find_nsegment_idx(am.segs, old)]
      moved == add_segment(am, [s EXCEPT !.start = new, !.end = new + newn - 1,
                                         !.offset = IF s.kind = "SkFileC" THEN @ + (old - s.start)
                                                    ELSE @])
      kind == IF old > aspacem_maxAddr THEN "SkResvn" ELSE "SkFree"
  IN  add_segment(moved, init_nsegment(kind, old, old + oldn - 1))

move(old, oldn, new, newn, fixed) ==
  /\ pages(new, newn) \subseteq UserPages
  /\ am' = am_relocate_nooverlap_client(old, oldn, new, newn)
  /\ Memory(kremap(kern, old, oldn, new, newn), pages(old, oldn) \cup pages(new, newn),
            relocate_discards(old, oldn, new, newn))
  /\ clobbered' = IF fixed THEN clobbered
                  ELSE clobbered \cup {p \in pages(new, newn) : kern[p] # Hole}
  /\ UNCHANGED <<brk, vmaps, dead>>

\* The test that do_mremap makes before it grows a mapping in place: it asks
\* for a free segment, but am_find_nsegment returns none of those.
room_above(a, n) ==
  LET lo == am_find_nsegment(am.segs, a)
      hi == am_find_nsegment(am.segs, a + n - 1)
  IN  /\ am_get_advisory(am.segs, "MFixed", a, n, TRUE).ok
      /\ lo # NoSegment /\ hi # NoSegment /\ lo = hi
      /\ lo.kind = "SkFree"

grow_in_place(s, old, oldn, newn) ==
  /\ am' = am_extend_map_client(s, newn - oldn)
  /\ Memory(kremap(kern, old, oldn, old, newn), pages(old + oldn, newn - oldn),
            if_Ts(old + oldn, newn - oldn))
  /\ UNCHANGED <<brk, vmaps, clobbered, dead>>

\* The old range as do_mremap wants it.
remappable(s, old, oldn) ==
  /\ s.kind \in {"SkAnonC", "SkFileC"}
  /\ s.start <= old /\ old + oldn - 1 <= s.end

\* do_mremap with MREMAP_FIXED: to a place of the client's choice.
mremap_fixed(s, old, oldn, new, newn) ==
  /\ pages(old, oldn) \cap pages(new, newn) = {}
  /\ new # 0
  /\ am_get_advisory(am.segs, "MFixed", new, newn, TRUE).ok
  /\ move(old, oldn, new, newn, TRUE)

\* do_mremap without it: shrink, grow in place, or move if that is allowed.
mremap_float(s, old, oldn, newn, maymove) ==
  LET adv == am_get_advisory(am.segs, "MAny", 0, newn, TRUE)
  IN  \/ newn < oldn /\ sys_munmap(old + newn, oldn - newn)
      \/ /\ newn > oldn
         /\ IF room_above(old + oldn, newn - oldn) THEN grow_in_place(s, old, oldn, newn)
            ELSE /\ maymove
                 /\ IF ~adv.sane THEN Dies("hole")
                    ELSE adv.ok /\ move(old, oldn, adv.addr, newn, FALSE)

do_mremap(old, oldn, new, newn, flags) ==
  LET s == am_find_nsegment(am.segs, old)
  IN  /\ valid_client_addr(old, oldn)
      /\ \/ s = NoSegment /\ Dies("mremap")
         \/ /\ s # NoSegment /\ remappable(s, old, oldn)
            /\ \/ flags = "FIXED" /\ mremap_fixed(s, old, oldn, new, newn)
               \/ flags # "FIXED" /\ mremap_float(s, old, oldn, newn, flags = "MAYMOVE")

-----------------------------------------------------------------------------
\* do_brk.  Addresses of brk count in parts of a page.
pageof(b) == b \div HALVES
whole_pages(lo, hi) == {p \in Addr : lo <= p * HALVES /\ (p + 1) * HALVES <= hi}

\* Shrinking keeps the pages, and clears what is given up if it can.
brk_shrink(newbrk) ==
  LET seg  == am_find_nsegment(am.segs, pageof(newbrk))
      seg2 == am_find_nsegment(am.segs, pageof(brk.limit - 1))
      cut  == whole_pages(newbrk, brk.limit)
  IN      /\ brk.base <= newbrk /\ newbrk < brk.limit
      /\ brk' = [brk EXCEPT !.limit = newbrk]
      /\ Memory(kern, IF seg # NoSegment /\ seg = seg2 /\ "W" \in seg.prot THEN cut ELSE {},
                IF seg # NoSegment /\ seg.hasT THEN cut ELSE {})
      /\ UNCHANGED <<am, vmaps, clobbered, dead>>

\* An anonymous mapping of the client's grows into the reservation next to it.
extend_client(i, n, up) ==
  LET s == am.segs[i]
      a == IF up THEN s.end + 1 ELSE s.start - n
  IN  /\ am' = [am EXCEPT !.segs = extend_into_reservation(@, i, n, up)]
      /\ Memory(kmap(kern, a, n, NoFile, 0, s.prot, "C"), pages(a, n), {})
      /\ clobbered' = clobbered \cup {p \in pages(a, n) : kern[p] # Hole}

brk_expand(newbrk) ==
  LET at   == pageof(IF brk.limit > brk.base THEN brk.limit - 1 ELSE brk.limit)
      i    == find_nsegment_idx(am.segs, at)
      aseg == am_find_nsegment(am.segs, at)
      rseg == am_next_nsegment(am.segs, at, TRUE)
      newbrkP == (newbrk + HALVES - 1) \div HALVES
  IN  /\ newbrk >= brk.limit
      /\ IF ~(aseg.kind = "SkAnonC" /\ rseg.kind = "SkResvn") THEN Dies("brk")
         ELSE /\ brk' = [brk EXCEPT !.limit = newbrk]
              /\ UNCHANGED <<vmaps, dead>>
              /\ \/ newbrk <= rseg.start * HALVES /\ UNCHANGED <<am, kern, trans, stale, clobbered>>
                 \/ /\ newbrk > rseg.start * HALVES
                    /\ newbrk <= rseg.end * HALVES
                    /\ can_extend_into_reservation(am.segs, i, newbrkP - rseg.start, TRUE)
                    /\ extend_client(i, newbrkP - rseg.start, TRUE)

\* VG_(extend_stack), for a fault in the reservation below an anonymous mapping.
extend_stack(a) ==
  LET i == find_nsegment_idx(am.segs, a) + 1
      n == am.segs[i].start - a
  IN      /\ am.segs[i - 1].kind = "SkResvn" /\ am.segs[i - 1].smode = "SmUpper"
      /\ i \in DOMAIN am.segs
      /\ can_extend_into_reservation(am.segs, i, n, FALSE)
      /\ extend_client(i, n, FALSE)
      /\ UNCHANGED <<brk, vmaps, dead>>

-----------------------------------------------------------------------------
\* Shared memory.  The kernel attaches only where nothing is mapped.
shmat(a, prot) ==
  LET adv == am_get_advisory(am.segs, "MAny", 0, ShmPages, TRUE)
      at  == IF a = 0 THEN adv.addr ELSE a
  IN  IF a = 0 /\ ~adv.sane THEN Dies("hole")
      ELSE /\ IF a = 0 THEN adv.ok ELSE valid_client_addr(a, ShmPages)
           /\ pages(at, ShmPages) \subseteq UserPages
           /\ \A p \in pages(at, ShmPages) : kern[p] = Hole
           /\ am' = record_mapping(am, "SkShmC", at, ShmPages, prot, NoFile, 0)
           /\ Memory(kmap(kern, at, ShmPages, NoFile, 0, prot, "C"), pages(at, ShmPages),
                     if_Ts(at, ShmPages))
           /\ UNCHANGED <<brk, vmaps, clobbered, dead>>

\* The kernel detaches what the shmat at this address attached.
shmdt(a) ==
  LET s == am.segs[find_nsegment_idx(am.segs, a)]
  IN      /\ s.kind = "SkShmC" /\ s.start = a
      /\ am' = am_notify_munmap(am, s.start, s.end + 1 - s.start)
      /\ Memory(kunmap(kern, a, ShmPages), pages(a, ShmPages), if_Ts(s.start, s.end + 1 - s.start))
      /\ UNCHANGED <<brk, vmaps, clobbered, dead>>

-----------------------------------------------------------------------------
\* The superblocks of the client arena: newSuperblock.
newSuperblock_client(n) ==
  LET adv == am_get_advisory(am.segs, "MAny", 0, n, TRUE)
      m   == record_mapping(am, "SkAnonC", adv.addr, n, RWX, NoFile, 0)
  IN  IF ~adv.sane THEN Dies("hole")
      ELSE /\ adv.ok
           /\ am' = [m EXCEPT !.segs = am_set_isCH(@, adv.addr)]
           /\ Memory(kmap(kern, adv.addr, n, NoFile, 0, RWX, "C"), pages(adv.addr, n), {})
           /\ clobbered' = clobbered \cup {p \in pages(adv.addr, n) : kern[p] # Hole}
           /\ UNCHANGED <<brk, vmaps, dead>>

\* VG_(am_mmap_anon_float_valgrind) and VG_(am_mmap_file_float_valgrind): the
\* second asks as if it were the client.
mmap_float_valgrind(n, kind) ==
  LET adv  == am_get_advisory(am.segs, "MAny", 0, n, kind = "SkFileV")
      file == IF kind = "SkFileV" THEN ExeFile ELSE NoFile
      prot == IF kind = "SkFileV" THEN {"R"} ELSE RWX
  IN  /\ Cardinality(vmaps) < MaxV
      /\ IF ~adv.sane THEN Dies("hole")
         ELSE /\ adv.ok
              /\ am' = record_mapping(am, kind, adv.addr, n, prot, file, 0)
              /\ Memory(kmap(kern, adv.addr, n, file, 0, prot, "V"), pages(adv.addr, n), {})
              /\ clobbered' = clobbered \cup {p \in pages(adv.addr, n) : kern[p] # Hole}
              /\ vmaps' = vmaps \cup {<<adv.addr, n, kind>>}
              /\ UNCHANGED <<brk, dead>>

\* VG_(am_munmap_valgrind), of an object file whose debug information was read.
am_munmap_valgrind(m) ==
  /\ m[1] # ImagePage /\ m[3] = "SkFileV"
  /\ is_valid_for_valgrind(am.segs, m[1], m[2])
  /\ IF any_Ts_in_range(am.segs, m[1], m[2]) THEN Dies("munmap_valgrind")
     ELSE /\ am' = am_notify_munmap(am, m[1], m[2])
          /\ Memory(kunmap(kern, m[1], m[2]), pages(m[1], m[2]), {})
          /\ vmaps' = vmaps \ {m}
          /\ UNCHANGED <<brk, clobbered, dead>>

translations_allowable_from_seg(s) == s.kind \in {"SkAnonC", "SkFileC"} /\ "X" \in s.prot

\* Only the segment of the base of a block is marked.
mark_base(segs, a, b) == am_set_hasT(segs, a)

\* The segments of the bases of a block's two extents are marked.
mark_extents(segs, a, b) == am_set_hasT(am_set_hasT(segs, a), b)

\* A jump may be followed into page b.  (TransTab has the other conditions.)
chase_into_ok(b) == translations_allowable_from_seg(am.segs[find_nsegment_idx(am.segs, b)])

\* VG_(translate), without self-checks: a block of n pages that begins at a and,
\* where chase_into_ok lets it, goes on in page b (b = a: it does not).
translate(a, n, b) ==
  LET block == pages(a, n) \cup {b}
  IN  /\ Alive /\ Cardinality(trans) < MaxTrans
      /\ block \notin trans
      /\ translations_allowable_from_seg(am.segs[find_nsegment_idx(am.segs, a)])
      /\ b = a \/ chase_into_ok(b)
      /\ \A p \in block : kern[p] # Hole /\ "R" \in kern[p].prot
      /\ CrossSegments \/ Cardinality(segments_of(am.segs, a, n)) = 1
      /\ am' = [am EXCEPT !.segs = mark_extents(@, a, b)]
      /\ trans' = trans \cup {block}
      /\ UNCHANGED <<kern, brk, stale, vmaps, clobbered, dead, ops>>

-----------------------------------------------------------------------------
Mmap == \E n \in Lens : \/ sys_mmap("MAny", 0, n)
                        \/ \E a \in Starts, rkind \in {"MHint", "MFixed"} : sys_mmap(rkind, a, n)
Munmap == \E a \in Starts, n \in Lens : sys_munmap(a, n)
Mprotect == \E a \in Starts, n \in Lens, prot \in Prots : sys_mprotect(a, n, prot)
MprotectGrows == \E a \in Starts, n \in Lens, prot \in Prots, down \in BOOLEAN :
                   sys_mprotect_grows(a, n, prot, down)
Mremap == \E old \in Starts, oldn, newn \in Lens :
            \/ \E new \in Starts : do_mremap(old, oldn, new, newn, "FIXED")
            \/ \E flags \in {"MAYMOVE", "NONE"} : do_mremap(old, oldn, 0, newn, flags)
Brk == \E newbrk \in brk.base .. brk.base + DsegPages * HALVES :
         brk_shrink(newbrk) \/ brk_expand(newbrk)
ExtendStack == \E a \in StackEnd - StackPages + 1 .. StackEnd - 1 : extend_stack(a)
Shm == \/ \E a \in Starts \cup {0} : shmat(a, {"R", "W"})
       \/ \E a \in Starts : shmdt(a)
Valgrind == \/ \E n \in Lens : newSuperblock_client(n)
            \/ \E n \in Lens, kind \in VKinds : mmap_float_valgrind(n, kind)
            \/ \E m \in vmaps : am_munmap_valgrind(m)
Translate == \E a, b \in Starts, n \in Lens : translate(a, n, b)

\* Nothing could happen to what is translated after the last call of an instance.
Next == \/ /\ Request
           /\ \/ Mmap \/ Munmap \/ Mprotect \/ MprotectGrows \/ Mremap
              \/ Brk \/ ExtendStack \/ Shm \/ Valgrind
        \/ ops < MaxOps /\ Translate

Spec == Init /\ [][Next]_vars

-----------------------------------------------------------------------------
segment_at(a) == am.segs[find_nsegment_idx(am.segs, a)]

\* What the segment of a page and the kernel's mapping of it must agree on.
MatchAt(s, p, k) ==
  IF k = Hole THEN s.kind \in Vacant
  ELSE /\ s.kind \in MappedKinds
       /\ s.prot = k.prot
       /\ s.file = k.file
       /\ s.kind \in FileKinds => s.offset + (p - s.start) = k.offset

\* VG_(am_do_sync_check), page by page: the segment array says mapped exactly
\* where the kernel has something mapped, with the kernel's permissions and, for
\* a file, the kernel's file and offset.  Splits, merges, moves and growth into
\* a reservation each rewrite these fields, in their own way, after the kernel
\* has done its part.
MatchesKernel == \A p \in Addr : MatchAt(segment_at(p), p, kern[p])

\* The array after any sequence of calls: its segments cover the address space
\* in order, each is one that sane_NSegment accepts, a file segment's name is
\* the name of its file (a name is released when its last segment goes, and its
\* slot reused), and no neighbours are left that preen_nsegments would merge -
\* except superblocks of the client arena, which are marked as such only after
\* the merge.
SegmentsSane ==
  LET segs == am.segs
  IN  /\ segs[1].start = 0 /\ Last(segs).end = P - 1
      /\ \A i \in DOMAIN segs :
           /\ sane_NSegment(am.names, segs[i])
           /\ segs[i].kind \in FileKinds => am.names[segs[i].fnIdx] = segs[i].file
           /\ i < Len(segs) => /\ segs[i].end + 1 = segs[i + 1].start
                               /\ mergeable(segs[i], segs[i + 1]) => segs[i].isCH

\* No request of the client's takes a page of Valgrind's: what Valgrind mapped
\* for itself and has not given back is still its own, in the kernel and in the
\* array, and nothing else is recorded as its own.
ValgrindKeepsItsPages ==
  LET own == UNION {pages(m[1], m[2]) : m \in vmaps}
  IN  /\ {p \in Addr : segment_at(p).kind \in VKinds} = own
      /\ \A p \in own : kern[p] # Hole /\ kern[p].owner = "V"

\* Translations do not outlive the code they were made from.  A segment is
\* marked when a translation is made from it, and the mark has to survive every
\* split, merge, change of protection and move, because the system calls discard
\* only what any_Ts_in_range says may have translations.
NoStaleTranslation == stale = {}

\* "Tell aspacem of all segments that have had translations taken from them":
\* whatever a translated block was read from is marked.
TranslatedSegmentsMarked ==
  \A e \in trans : \A p \in e :
    segment_at(p).kind \in {"SkAnonC", "SkFileC"} => segment_at(p).hasT

\* A placement that the manager chose, and the growth of the data segment and of
\* the stack, never overwrite a mapping.
NothingClobbered == clobbered = {}

CodeKinds == {"SkAnonC", "SkFileC"}

\* Where no block runs on into another segment: every page of a translated block,
\* in whichever extent it is, is the client's and in a marked segment, until the
\* block is discarded.  The calls that take pages away, change or move them ask
\* only the marks (any_Ts_in_range).
FromMarkedPages ==
  \A e \in trans : \A p \in e :
    p \in Addr /\ segment_at(p).kind \in CodeKinds /\ segment_at(p).hasT

-----------------------------------------------------------------------------
\* The inductive invariant.
Mapping == [file : Files \cup {NoFile}, prot : SUBSET RWX, owner : {"C", "V"}, offset : Int]

\* Valgrind's mappings are ranges, apart from each other.
OwnRanges ==
  /\ \A m \in vmaps : /\ m[1] \in Addr /\ m[2] \in Nat \ {0} /\ m[1] + m[2] - 1 \in Addr
  /\ \A m1, m2 \in vmaps : m1 # m2 => pages(m1[1], m1[2]) \cap pages(m2[1], m2[2]) = {}

\* The data segment lies in the address space.
BrkInRange ==
  /\ brk \in [base : Nat, limit : Nat]
  /\ brk.base <= brk.limit /\ brk.limit <= brk.base + DsegPages * HALVES
  /\ \E b \in 0 .. P - DsegPages : brk.base = b * HALVES

\* Everything the calls rely on when they find the array: that it is well formed
\* and agrees with the kernel, that Valgrind's mappings are apart, that the break
\* is within the data segment and, where no block runs on into another segment,
\* that all of a translated block's pages are marked, whichever extent they are
\* in.  Each operation needs all of it from the ones before.
AInv ==
  /\ IsSpace(am) /\ Preened(am.segs)
  /\ kern \in [Addr -> {Hole} \cup Mapping]
  /\ MatchesKernel /\ ValgrindKeepsItsPages /\ NothingClobbered
  /\ OwnRanges /\ BrkInRange
  /\ ~CrossSegments => NoStaleTranslation /\ FromMarkedPages
=============================================================================
