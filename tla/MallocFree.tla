----------------------------- MODULE MallocFree -----------------------------
(***************************************************************************)
(* One arena of coregrind/m_mallocfree.c: superblocks obtained from the    *)
(* address space manager, cut into blocks that tile them, the free blocks  *)
(* on rings by payload size.  arena_malloc splits, arena_free merges with  *)
(* both neighbours, arena_memalign cuts an aligned block out of a larger   *)
(* one, arena_realloc moves.                                               *)
(*                                                                         *)
(* The arena is a record, and a function of the C code is an operator from *)
(* arenas to arenas; arena_malloc, whose outcome depends on the address    *)
(* space manager, gives the set of its outcomes.  Sizes and addresses are  *)
(* bytes.  A block's two size fields are one entry of blk (its start gives *)
(* bszB and the in-use bit); a ring is the sequence of its blocks from     *)
(* freelist[lno] along the next pointers.  Redzone bytes, cost centres and *)
(* the statistics bytes_on_loan_max and next_profile_at are left out.      *)
(***************************************************************************)
EXTENDS Integers, Sequences, FiniteSets, FiniteSetsExt, Functions

CONSTANTS
  VG_MIN_MALLOC_SZB,     \* granularity of payloads and of alignment
  WORD,                  \* sizeof(SizeT), sizeof(void* )
  HP_OVERHEAD,           \* the cost-centre field: sizeof(ULong) or 0
  RZ,                    \* the redzone size the owner of the arena asks for
  SB_ADMIN,              \* sizeof(Superblock)
  MIN_SBLOCK_SZB,        \* min_sblock_szB
  PAGE,                  \* VKI_PAGE_SIZE
  EXACT_LISTS,           \* lists that hold one size each: 64
  ListBounds,            \* upper bounds of the other lists but the last
  SWIZZLE,               \* how far swizzle looks each way: 5
  SBLOCKS_SIZE_INITIAL,  \* 50
  Space,                 \* addresses the address space manager can give out
  Sizes,                 \* request sizes
  Aligns,                \* request alignments
  MaxBlocks              \* bound: blocks on loan at once

VARIABLES
  arena,                 \* the Arena
  handed,                \* what callers hold: address -> what they asked for
  exited                 \* VG_(out_of_memory_NORETURN) was called

NULL == 0
NORETURN == -1

\* "redzone size might be made bigger to ensure that VG_MIN_MALLOC_SZB is observed"
rz_szB ==
  LET least == Max({RZ, WORD})
  IN  Min({r \in least .. least + VG_MIN_MALLOC_SZB - 1 :
             (HP_OVERHEAD + WORD + r) % VG_MIN_MALLOC_SZB = 0})

overhead_szB_lo == HP_OVERHEAD + WORD + rz_szB
overhead_szB_hi == rz_szB + WORD
overhead_szB == overhead_szB_lo + overhead_szB_hi

ASSUME SizesAssumption ==
  /\ VG_MIN_MALLOC_SZB \in Nat \ {0} /\ WORD \in Nat \ {0} /\ HP_OVERHEAD \in Nat
  /\ RZ \in 0 .. 127 /\ SB_ADMIN \in Nat \ {0} /\ PAGE \in Nat \ {0}
  /\ SB_ADMIN % VG_MIN_MALLOC_SZB = 0 /\ PAGE % VG_MIN_MALLOC_SZB = 0
  /\ MIN_SBLOCK_SZB \in Nat /\ MIN_SBLOCK_SZB % PAGE = 0
  /\ Space \subseteq Nat \ {0}
  /\ Sizes \subseteq Nat

\* The two vg_asserts of arena_init.
ASSUME OverheadAssumption ==
  /\ overhead_szB_lo % VG_MIN_MALLOC_SZB = 0
  /\ overhead_szB_hi % VG_MIN_MALLOC_SZB = 0

\* Alignments are powers of two of at least VG_MIN_MALLOC_SZB, which is one
\* itself: arena_memalign panics about others.
ASSUME AlignsAssumption ==
  \A al \in Aligns : al \in Nat \ {0} /\ al % VG_MIN_MALLOC_SZB = 0

Increasing(s) == \A i, j \in DOMAIN s : i < j => s[i] < s[j]

ASSUME ListsAssumption ==
  /\ EXACT_LISTS \in Nat \ {0} /\ SWIZZLE \in Nat
  /\ ListBounds \in Seq(Nat) /\ Increasing(ListBounds)
  /\ \A i \in DOMAIN ListBounds : EXACT_LISTS < ListBounds[i]

-----------------------------------------------------------------------------
(* Sizes and lists. *)

round_up(n, m) == ((n + m - 1) \div m) * m

align_req_pszB(n) == round_up(n, VG_MIN_MALLOC_SZB)
pszB_to_bszB(pszB) == pszB + overhead_szB
bszB_to_pszB(bszB) == bszB - overhead_szB

pszB_to_listNo(pszB) ==
  LET n == pszB \div VG_MIN_MALLOC_SZB
  IN  IF n < EXACT_LISTS THEN n
      ELSE EXACT_LISTS + Cardinality({i \in DOMAIN ListBounds : ListBounds[i] <= n})

N_MALLOC_LISTS == EXACT_LISTS + Len(ListBounds) + 1
Lists == 0 .. N_MALLOC_LISTS - 1

listNo_of(bszB) == pszB_to_listNo(bszB_to_pszB(bszB))

\* The table of pszB_to_listNo in the code, for EXACT_LISTS = 64.
VgListBounds ==
  << 67, 70, 74, 77, 81, 85, 90, 94, 99, 104, 109, 114, 120, 126, 133, 139,
     153, 169, 185, 204, 224, 247, 272, 299, 329, 362, 398, 438, 482, 530, 583, 641,
     770, 924, 1109, 1331, 1597, 1916, 2300, 2760, 3312, 3974, 4769, 5723, 6868,
     8241, 9890 >>

-----------------------------------------------------------------------------
(* Blocks and rings. *)

\* A new extent for a block swallows the blocks whose size fields it covers.
set_bszB(blk, b, bszB, inuse) ==
  [c \in (DOMAIN blk \ (b .. b + bszB - 1)) \cup {b} |->
     IF c = b THEN [bszB |-> bszB, inuse |-> inuse] ELSE blk[c]]

get_bszB(a, b) == a.blk[b].bszB
is_inuse_block(a, b) == a.blk[b].inuse
get_pszB(a, b) == bszB_to_pszB(get_bszB(a, b))
get_block_payload(b) == b + overhead_szB_lo
get_payload_block(p) == p - overhead_szB_lo
get_predecessor_block(a, b) == CHOOSE c \in DOMAIN a.blk : c + get_bszB(a, c) = b

\* The ring s, entered at its k-th block.
enter(s, k) == [i \in DOMAIN s |-> s[((k + i - 2) % Len(s)) + 1]]

\* "Try and replace a->freelist[lno] with another block on the same list but
\* with a lower address": within SWIZZLE steps of the head, either way.
swizzle(s) ==
  LET near == {k \in DOMAIN s : k - 1 <= SWIZZLE \/ Len(s) + 1 - k <= SWIZZLE}
  IN  enter(s, CHOOSE k \in near : \A j \in near : s[k] <= s[j])

\* The ring is entered at b_prev when b leaves it.
unlinked(s, b) ==
  LET k == CHOOSE i \in DOMAIN s : s[i] = b
      r == enter(s, k)
  IN  IF Len(s) = 1 THEN << >>
      ELSE swizzle(enter(Tail(r), Len(s) - 1))

mkFreeBlock(a, b, bszB) ==
  [a EXCEPT !.blk = set_bszB(@, b, bszB, FALSE),
            !.freelist[listNo_of(bszB)] = Append(@, b)]

mkInuseBlock(a, b, bszB) == [a EXCEPT !.blk = set_bszB(@, b, bszB, TRUE)]

unlinkBlock(a, b, lno) == [a EXCEPT !.freelist[lno] = unlinked(@, b)]

-----------------------------------------------------------------------------
(* Superblocks.  sblocks is the sorted array of their addresses, sb gives  *)
(* n_payload_bytes.                                                        *)

payload_bytes(s) == s + SB_ADMIN
sb_end(a, s) == payload_bytes(s) + a.sb[s]

\* Binary search over sblocks[min .. max], which starts at max = sblocks_used.
\* NULL stands for the failed assertion and for the panic at the end.
findSb(a, b) ==
  LET n == Len(a.sblocks)
      probe[r \in (0 .. n + 1) \X (-1 .. n)] ==
        LET pos == r[1] + (r[2] - r[1]) \div 2
            s == a.sblocks[pos + 1]
        IN  IF r[1] > r[2] \/ pos >= n THEN NULL
            ELSE IF payload_bytes(s) <= b /\ b < sb_end(a, s) THEN s
            ELSE IF payload_bytes(s) <= b THEN probe[<<pos + 1, r[2]>>]
            ELSE probe[<<r[1], pos - 1>>]
  IN  probe[<<0, n>>]

new_sb_szB(req_bszB) == round_up(Max({req_bszB + SB_ADMIN, MIN_SBLOCK_SZB}), PAGE)

\* The address space manager: any page-aligned hole of the size asked for.
am_sbrk_anon_float(a, cszB) ==
  {s \in Space :
     /\ s % PAGE = 0 /\ s .. s + cszB - 1 \subseteq Space
     /\ \A t \in DOMAIN a.sb : s + cszB <= t \/ sb_end(a, t) <= s}

\* The insertion loop: new_sb goes behind the last entry that is not above it.
inserted(sblocks, s) ==
  LET below == Cardinality({i \in DOMAIN sblocks : sblocks[i] <= s})
  IN  SubSeq(sblocks, 1, below) \o <<s>> \o SubSeq(sblocks, below + 1, Len(sblocks))

newSuperblock(a, s, cszB) ==
  [a EXCEPT !.sb = [t \in DOMAIN @ \cup {s} |-> IF t = s THEN cszB - SB_ADMIN ELSE @[t]],
            !.sblocks = inserted(@, s),
            !.sblocks_size = IF Len(a.sblocks) = @ THEN 2 * @ ELSE @,
            !.bytes_mmaped = @ + cszB]

-----------------------------------------------------------------------------
(* VG_(arena_malloc). *)

big_enough(a, lno, req_bszB) ==
  {i \in DOMAIN a.freelist[lno] : get_bszB(a, a.freelist[lno][i]) >= req_bszB}

\* The search starts one list too high.
hits_above(a, req_bszB) ==
  {lno \in listNo_of(req_bszB) + 1 .. N_MALLOC_LISTS - 1 :
     big_enough(a, lno, req_bszB) # {}}

\* The lists from the request's own upwards that hold a block to take.
hits(a, req_bszB) ==
  {lno \in listNo_of(req_bszB) .. N_MALLOC_LISTS - 1 : big_enough(a, lno, req_bszB) # {}}

first_fit(a, lno, req_bszB) == a.freelist[lno][Min(big_enough(a, lno, req_bszB))]

\* From obtained_block on: split b if the rest is a useful block, or use it whole.
obtained_block(a, b, lno, req_bszB) ==
  LET b_bszB == get_bszB(a, b)
      frag_bszB == b_bszB - req_bszB
      u == unlinkBlock(a, b, lno)
      taken == IF frag_bszB >= overhead_szB
               THEN mkFreeBlock(mkInuseBlock(u, b, req_bszB), b + req_bszB, frag_bszB)
               ELSE mkInuseBlock(u, b, b_bszB)
  IN  [a |-> [taken EXCEPT !.bytes_on_loan = @ + get_pszB(taken, b)],
       p |-> get_block_payload(b)]

with_superblock(a, s, req_bszB) ==
  LET g == newSuperblock(a, s, new_sb_szB(req_bszB))
      b == payload_bytes(s)
  IN  obtained_block(mkFreeBlock(g, b, g.sb[s]), b, listNo_of(g.sb[s]), req_bszB)

\* The outcomes: the arena afterwards with the payload, with NULL (client arena
\* only) or with NORETURN when there is no memory for the superblock, or for
\* the larger array of superblocks.
arena_malloc(a, req_pszB) ==
  LET req_bszB == pszB_to_bszB(align_req_pszB(req_pszB))
      lno == Min(hits(a, req_bszB))
  IN  IF hits(a, req_bszB) # {}
      THEN {obtained_block(a, first_fit(a, lno, req_bszB), lno, req_bszB)}
      ELSE {[a |-> a, p |-> IF a.clientmem THEN NULL ELSE NORETURN]}
           \cup (IF Len(a.sblocks) = a.sblocks_size THEN {[a |-> a, p |-> NORETURN]} ELSE {})
           \cup {with_superblock(a, s, req_bszB) :
                   s \in am_sbrk_anon_float(a, new_sb_szB(req_bszB))}

-----------------------------------------------------------------------------
(* VG_(arena_free). *)

\* The successor test: b is far enough from the superblock's end to have one.
merge_successor(a, b, s) ==
  LET other_b == b + get_bszB(a, b)
      both == get_bszB(a, b) + get_bszB(a, other_b)
  IN  IF other_b + overhead_szB <= sb_end(a, s) /\ ~is_inuse_block(a, other_b)
      THEN mkFreeBlock(unlinkBlock(unlinkBlock(a, b, listNo_of(get_bszB(a, b))),
                                   other_b, listNo_of(get_bszB(a, other_b))),
                       b, both)
      ELSE a

\* A predecessor of the least size is taken for the superblock's start.
merge_large_predecessor(a, b, s) ==
  LET other_b == get_predecessor_block(a, b)
      both == get_bszB(a, b) + get_bszB(a, other_b)
  IN  IF b > payload_bytes(s) + overhead_szB /\ ~is_inuse_block(a, other_b)
      THEN mkFreeBlock(unlinkBlock(unlinkBlock(a, b, listNo_of(get_bszB(a, b))),
                                   other_b, listNo_of(get_bszB(a, other_b))),
                       other_b, both)
      ELSE a

merge_predecessor(a, b, s) ==
  LET other_b == get_predecessor_block(a, b)
      both == get_bszB(a, b) + get_bszB(a, other_b)
  IN  IF b >= payload_bytes(s) + overhead_szB /\ ~is_inuse_block(a, other_b)
      THEN mkFreeBlock(unlinkBlock(unlinkBlock(a, b, listNo_of(get_bszB(a, b))),
                                   other_b, listNo_of(get_bszB(a, other_b))),
                       other_b, both)
      ELSE a

arena_free(a, ptr) ==
  LET b == get_payload_block(ptr)
      s == findSb(a, b)
      freed == mkFreeBlock([a EXCEPT !.bytes_on_loan = @ - get_pszB(a, b)],
                           b, get_bszB(a, b))
  IN  merge_predecessor(merge_successor(freed, b, s), b, s)

-----------------------------------------------------------------------------
(* VG_(arena_memalign): an aligned block is cut from the upper part of a   *)
(* larger one, and the part below it becomes a free block.                 *)

align_upwards(p, align) == round_up(p, align)

cut_aligned(loan, r, req_alignB) ==
  LET base_b == get_payload_block(r.p)
      align_p == align_upwards(base_b + 2 * overhead_szB_lo + overhead_szB_hi, req_alignB)
      align_b == get_payload_block(align_p)
      frag_bszB == align_b - base_b
      align_bszB == get_bszB(r.a, base_b) - frag_bszB
      cut == mkInuseBlock(mkFreeBlock(r.a, base_b, frag_bszB), align_b, align_bszB)
  IN  [a |-> [cut EXCEPT !.bytes_on_loan = loan + bszB_to_pszB(align_bszB)],
       p |-> align_p]

arena_memalign(a, req_alignB, req_pszB) ==
  {IF r.p \in {NULL, NORETURN} THEN r ELSE cut_aligned(a.bytes_on_loan, r, req_alignB) :
     r \in arena_malloc(a, align_req_pszB(req_pszB) + overhead_szB + req_alignB)}

-----------------------------------------------------------------------------
(* The callers that use an arena directly (Valgrind's core and the tools). *)

vars == <<arena, handed, exited>>

new_arena(client) ==
  [clientmem |-> client, blk |-> [b \in {} |-> 0], sb |-> [s \in {} |-> 0],
   freelist |-> [lno \in Lists |-> << >>], sblocks |-> << >>,
   sblocks_size |-> SBLOCKS_SIZE_INITIAL, bytes_on_loan |-> 0, bytes_mmaped |-> 0]

\* What callers hold once p has been handed out for a request, and taken back.
lend(h, p, n, al) ==
  [q \in DOMAIN h \cup {p} |-> IF q = p THEN [szB |-> n, alignB |-> al] ELSE h[q]]
take_back(h, ps) == [q \in DOMAIN h \ ps |-> h[q]]

\* The bound on the blocks that are out, before each request.
Room == Cardinality(DOMAIN handed) < MaxBlocks

\* VG_(arena_malloc), and VG_(arena_calloc) and VG_(arena_strdup) built on it.
Malloc(n) ==
  /\ ~exited /\ Room
  /\ \E r \in arena_malloc(arena, n) :
       /\ arena' = r.a
       /\ exited' = (r.p = NORETURN)
       /\ handed' = IF r.p = NORETURN THEN handed
                    ELSE lend(handed, r.p, n, VG_MIN_MALLOC_SZB)

Free(p) ==
  /\ ~exited /\ p \in DOMAIN handed
  /\ arena' = arena_free(arena, p)
  /\ handed' = take_back(handed, {p})
  /\ UNCHANGED exited

\* VG_(arena_realloc): the block stays if its payload is large enough.
Realloc(p, n) ==
  /\ ~exited /\ Room /\ p \in DOMAIN handed
  /\ IF n <= get_pszB(arena, get_payload_block(p))
     THEN /\ handed' = lend(handed, p, n, handed[p].alignB)
          /\ UNCHANGED <<arena, exited>>
     ELSE \E r \in arena_malloc(arena, n) :
            IF r.p = NORETURN
            THEN /\ exited' = TRUE /\ arena' = r.a /\ UNCHANGED handed
            ELSE /\ arena' = arena_free(r.a, p)
                 /\ handed' = take_back(lend(handed, r.p, n, VG_MIN_MALLOC_SZB), {p})
                 /\ UNCHANGED exited

CoreInit == arena = new_arena(FALSE) /\ handed = [p \in {} |-> 0] /\ exited = FALSE

CoreNext ==
  \/ \E n \in Sizes : Malloc(n)
  \/ \E p \in DOMAIN handed : Free(p)
  \/ \E p \in DOMAIN handed, n \in Sizes : Realloc(p, n)

CoreSpec == CoreInit /\ [][CoreNext]_vars
=============================================================================
