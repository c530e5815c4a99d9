------------------------------- MODULE McHeap -------------------------------
(***************************************************************************)
(* Memcheck's heap (memcheck/mc_malloc_wrappers.c) on top of the client    *)
(* arena of m_mallocfree.c: the client's malloc, memalign, calloc, new,    *)
(* free, delete and realloc, the MALLOCLIKE and FREELIKE client requests,  *)
(* the table of live chunks, the queue that keeps freed blocks out of      *)
(* reach for a while, and the shadow state of the bytes.  The behaviours   *)
(* are those of two kinds of arena: the client's, used by Memcheck only,   *)
(* and one of the others, used by the core directly.                       *)
(*                                                                         *)
(* Left out: error records and statistics, fills with junk, memory pools.  *)
(***************************************************************************)
EXTENDS MallocFree, SequencesExt

CONSTANTS
  FreelistVols,     \* values of --freelist-vol
  CustomAddrs,      \* where the client's own allocator has its blocks
  CustomSzB         \* ... and their size

VARIABLES
  malloc_list,      \* MC_(malloc_list): data -> MC_Chunk
  freed_list,       \* the queue freed_list_start .. freed_list_end
  free_queue_volume,
  clo_freelist_vol,
  acc,              \* shadow memory: the addressable bytes of the heap
  defd,             \* ... and those of them that are defined
  content           \* what the client may count on: data -> leading bytes it knows

mcvars == <<malloc_list, freed_list, free_queue_volume, acc, defd, content>>
allvars == <<vars, mcvars, clo_freelist_vol>>

MC_MALLOC_REDZONE_SZB == RZ
bytes(p, n) == p .. p + n - 1

ASSUME FreelistAssumption == FreelistVols \subseteq Nat

\* The client's own allocator has its memory elsewhere, with room between blocks.
ASSUME CustomAssumption ==
  /\ CustomAddrs \subseteq Nat \ Space /\ CustomSzB \in Nat
  /\ \A p \in CustomAddrs : bytes(p - RZ, CustomSzB + 2 * RZ) \cap Space = {}
  /\ \A p, q \in CustomAddrs : p < q => p + CustomSzB + RZ <= q

-----------------------------------------------------------------------------
\* Every alignment is taken for the default one.
cli_malloc_unaligned(a, align, nbytes) ==
  IF align >= VG_MIN_MALLOC_SZB THEN arena_malloc(a, nbytes)
  ELSE arena_memalign(a, align, nbytes)

\* VG_(cli_malloc)
cli_malloc(a, align, nbytes) ==
  IF align = VG_MIN_MALLOC_SZB THEN arena_malloc(a, nbytes)
  ELSE arena_memalign(a, align, nbytes)

chunk(p, n, kind) == [data |-> p, szB |-> n, allockind |-> kind]
HT_add_node(t, mc) == [q \in DOMAIN t \cup {mc.data} |-> IF q = mc.data THEN mc ELSE t[q]]
HT_remove(t, p) == [q \in DOMAIN t \ {p} |-> t[q]]

volume(q) == FoldLeft(LAMBDA v, mc : v + mc.szB, 0, q)

\* One test where the loop of add_to_freed_queue tests again.
discards_one(q, vol) == IF vol <= clo_freelist_vol THEN 0 ELSE 1

\* The loop of add_to_freed_queue: how many of the oldest chunks it discards.
discards(q, vol) ==
  Min({k \in 0 .. Len(q) : vol - volume(SubSeq(q, 1, k)) <= clo_freelist_vol})

\* add_to_freed_queue, applied to the arena a and to what callers hold of it.
add_to_freed_queue(a, h, mc) ==
  LET q == Append(freed_list, mc)
      vol == IF freed_list = << >> THEN mc.szB ELSE free_queue_volume + mc.szB
      k == discards(q, vol)
      old == SubSeq(q, 1, k)
  IN  /\ freed_list' = SubSeq(q, k + 1, Len(q))
      /\ free_queue_volume' = vol - volume(old)
      /\ arena' = FoldLeft(LAMBDA x, c : arena_free(x, c.data), a, old)
      /\ handed' = take_back(h, {old[i].data : i \in DOMAIN old})

\* die_and_free_mem, but for the shadow state, which its callers compute.
die_and_free_mem(a, h, mc) ==
  IF mc.allockind # "Custom" THEN add_to_freed_queue(a, h, mc)
  ELSE /\ arena' = a /\ handed' = h
       /\ UNCHANGED <<freed_list, free_queue_volume>>

\* What die_and_free_mem makes inaccessible.
dead_bytes(mc, rzB) == bytes(mc.data - rzB, mc.szB + 2 * rzB)

new_chunk(p, n, kind, zeroed) ==
  /\ malloc_list' = HT_add_node(malloc_list, chunk(p, n, kind))
  /\ acc' = acc \cup bytes(p, n)
  /\ defd' = IF zeroed THEN defd \cup bytes(p, n) ELSE defd \ bytes(p, n)
  /\ content' = [q \in DOMAIN content \cup {p} |->
                   IF q = p THEN (IF zeroed THEN n ELSE 0) ELSE content[q]]

Running == ~exited /\ arena.clientmem

\* MC_(malloc), MC_(memalign), MC_(calloc), MC_(__builtin_new) and _vec_new.
new_block(n, align, zeroed) ==
  /\ Running /\ Room
  /\ \E r \in cli_malloc(arena, align, n) :
       /\ arena' = r.a
       /\ exited' = (r.p = NORETURN)
       /\ IF r.p \in {NULL, NORETURN}
          THEN UNCHANGED <<handed, malloc_list, acc, defd, content>>
          ELSE /\ handed' = lend(handed, r.p, n, align)
               /\ new_chunk(r.p, n, "Malloc", zeroed)
  /\ UNCHANGED <<freed_list, free_queue_volume, clo_freelist_vol>>

\* VALGRIND_MALLOCLIKE_BLOCK, for an address that has no chunk.
malloclike_block(p, n, zeroed) ==
  /\ Running /\ p \notin DOMAIN malloc_list
  /\ new_chunk(p, n, "Custom", zeroed)
  /\ UNCHANGED <<vars, freed_list, free_queue_volume, clo_freelist_vol>>

\* MC_(handle_free), from free, delete, delete[] and VALGRIND_FREELIKE_BLOCK: a
\* mismatched kind is reported and makes no other difference.
handle_free(p, rzB) ==
  /\ Running /\ p \in DOMAIN malloc_list
  /\ malloc_list' = HT_remove(malloc_list, p)
  /\ acc' = acc \ dead_bytes(malloc_list[p], rzB)
  /\ defd' = defd \ dead_bytes(malloc_list[p], rzB)
  /\ content' = HT_remove(content, p)
  /\ die_and_free_mem(arena, handed, malloc_list[p])
  /\ UNCHANGED <<exited, clo_freelist_vol>>

\* The copy takes the new size, whichever is larger.
copied_all(set, p, q, k, n, fresh) ==
  (set \ dead_bytes(chunk(q, n, "Malloc"), MC_MALLOC_REDZONE_SZB))
    \cup {q + i : i \in {j \in 0 .. n - 1 : p + j \in set}}

\* The shadow of the n bytes at q once MC_(copy_address_range_state) has copied
\* the first k from p; the redzones around them are made inaccessible.
copied(set, p, q, k, n, fresh) ==
  (set \ dead_bytes(chunk(q, n, "Malloc"), MC_MALLOC_REDZONE_SZB))
    \cup {q + i : i \in {j \in 0 .. k - 1 : p + j \in set}}
    \cup (IF fresh THEN bytes(q + k, n - k) ELSE {})

\* The chunk of a block that could not be moved is not put back.
replaced_if_moved(p_old, mc) ==
  IF mc.data = p_old THEN HT_remove(malloc_list, p_old)
  ELSE HT_add_node(HT_remove(malloc_list, p_old), mc)

\* malloc_list after realloc has removed p_old: mc is inserted, be it the chunk
\* of the new block or, when there is none, the old one.
replaced(p_old, mc) == HT_add_node(HT_remove(malloc_list, p_old), mc)

\* MC_(realloc) always moves: the old address must become inaccessible.
realloc(p_old, n) ==
  /\ Running /\ Room /\ p_old \in DOMAIN malloc_list
  /\ LET mc == malloc_list[p_old]
         k == Min({n, mc.szB})
         dead == dead_bytes(mc, MC_MALLOC_REDZONE_SZB)
     IN  \E r \in cli_malloc(arena, VG_MIN_MALLOC_SZB, n) :
           IF r.p \in {NULL, NORETURN}
           THEN /\ arena' = r.a /\ exited' = (r.p = NORETURN)
                /\ malloc_list' = replaced(p_old, mc)
                /\ UNCHANGED <<handed, freed_list, free_queue_volume, acc, defd, content>>
           ELSE /\ malloc_list' = replaced(p_old, chunk(r.p, n, "Malloc"))
                /\ acc' = copied(acc, p_old, r.p, k, n, TRUE) \ dead
                /\ defd' = copied(defd, p_old, r.p, k, n, FALSE) \ dead
                /\ content' = [q \in (DOMAIN content \ {p_old}) \cup {r.p} |->
                                 IF q = r.p THEN Min({content[p_old], k}) ELSE content[q]]
                /\ die_and_free_mem(r.a, lend(handed, r.p, n, VG_MIN_MALLOC_SZB), mc)
                /\ UNCHANGED exited
  /\ UNCHANGED clo_freelist_vol

-----------------------------------------------------------------------------
Init ==
  /\ \E client \in BOOLEAN : arena = new_arena(client)
  /\ handed = [p \in {} |-> 0] /\ exited = FALSE
  /\ malloc_list = [p \in {} |-> 0]
  /\ freed_list = << >> /\ free_queue_volume = 0
  /\ clo_freelist_vol \in FreelistVols
  /\ acc = {} /\ defd = {}
  /\ content = [p \in {} |-> 0]

\* The other arenas, for the core and the tools themselves.
Core == ~arena.clientmem /\ CoreNext /\ UNCHANGED <<mcvars, clo_freelist_vol>>

Next ==
  \/ Core
  \/ \E n \in Sizes : new_block(n, VG_MIN_MALLOC_SZB, FALSE)
  \/ \E n \in Sizes, al \in Aligns : new_block(n, al, FALSE)
  \/ \E n \in Sizes : new_block(n, VG_MIN_MALLOC_SZB, TRUE)
  \/ \E p \in CustomAddrs : malloclike_block(p, CustomSzB, TRUE)
  \/ \E p \in DOMAIN malloc_list : handle_free(p, MC_MALLOC_REDZONE_SZB)
  \/ \E p \in DOMAIN malloc_list, n \in Sizes : realloc(p, n)

Spec == Init /\ [][Next]_allvars

-----------------------------------------------------------------------------
InUse == {b \in DOMAIN arena.blk : is_inuse_block(arena, b)}
FreeBlocks == DOMAIN arena.blk \ InUse

\* The size of block that the request [szB, alignB] takes.
needed_bszB(req) ==
  pszB_to_bszB(align_req_pszB(req.szB))
    + IF req.alignB = VG_MIN_MALLOC_SZB THEN 0 ELSE overhead_szB + req.alignB

(* What sanity_check_malloc_arena checks, and panics about: the blocks of  *)
(* a superblock cover it without overlap or "unused bytes at the end", no  *)
(* two neighbours are both free ("UNMERGED FREES"), the free lists hold    *)
(* exactly the free blocks, each once and on the list for its size, and    *)
(* bytes_on_loan is the payload in use.  And findSb's binary search finds  *)
(* the superblock of every block, wherever superblocks were inserted; no   *)
(* split leaves a block too small for its own overhead, or unaligned.      *)
ArenaSane ==
  /\ \A s \in DOMAIN arena.sb :
       LET bs == {b \in DOMAIN arena.blk : findSb(arena, b) = s}
       IN  /\ payload_bytes(s) \in bs
           /\ \A b \in bs : LET e == b + get_bszB(arena, b)
                            IN  \/ e = sb_end(arena, s)
                                \/ e \in bs /\ (b \in FreeBlocks => e \in InUse)
           /\ \A b, c \in bs : b < c => b + get_bszB(arena, b) <= c
  /\ \A b \in DOMAIN arena.blk :
       LET s == findSb(arena, b)
       IN  /\ s # NULL /\ payload_bytes(s) <= b /\ b < sb_end(arena, s)
           /\ get_bszB(arena, b) >= overhead_szB
           /\ b % VG_MIN_MALLOC_SZB = 0
  /\ \A lno \in Lists : IsInjective(arena.freelist[lno])
  /\ \A lno \in Lists : Range(arena.freelist[lno])
                          = {b \in FreeBlocks : listNo_of(get_bszB(arena, b)) = lno}
  /\ arena.bytes_on_loan = MapThenSumSet(LAMBDA b : get_pszB(arena, b), InUse)
  /\ arena.bytes_mmaped = MapThenSumSet(LAMBDA s : arena.sb[s] + SB_ADMIN, DOMAIN arena.sb)

(* An arena grows only when no free block could have served the request:  *)
(* the search of arena_malloc overlooks none, although it skips every list *)
(* below the request's own.                                                *)
GrowsOnlyWhenFull ==
  [][\A s \in DOMAIN arena'.sb \ DOMAIN arena.sb :
       \E p \in DOMAIN handed' \ DOMAIN handed :
         /\ payload_bytes(s) <= p /\ p < sb_end(arena', s)
         /\ \A b \in FreeBlocks : get_bszB(arena, b) < needed_bszB(handed'[p])
    ]_allvars

\* Callers see an arena as a set of regions on loan.
HeapRef == INSTANCE Heap WITH live <- handed

(* The arena implements the abstract heap: regions on loan are aligned,    *)
(* never overlap, and stay put until they are given back, through every    *)
(* split, merge, aligned cut and move.                                     *)
HeapSpec == HeapRef!Spec

(* The chunks of Memcheck and the blocks in use in its arena are the same: *)
(* every block belongs to one live or one queued chunk and has room for    *)
(* it, so that no block is freed twice, none is lost when realloc fails or *)
(* moves, and none is handed out again while it waits in the queue.        *)
ChunksOwnBlocks ==
  LET live == {p \in DOMAIN malloc_list : malloc_list[p].allockind # "Custom"}
      queued == {freed_list[i].data : i \in DOMAIN freed_list}
  IN  /\ arena.clientmem =>
           /\ live \cap queued = {} /\ Cardinality(queued) = Len(freed_list)
           /\ DOMAIN handed = live \cup queued
           /\ \A p \in live : handed[p].szB = malloc_list[p].szB
      /\ InUse = {get_payload_block(p) : p \in DOMAIN handed}
      /\ \A p \in DOMAIN handed : handed[p].szB <= get_pszB(arena, get_payload_block(p))

(* The client can touch exactly the bytes of its live blocks, through      *)
(* every reuse of memory; what it knew of a block survives realloc.        *)
ShadowMatches ==
  /\ acc = UNION {bytes(p, malloc_list[p].szB) : p \in DOMAIN malloc_list}
  /\ defd = UNION {bytes(p, content[p]) : p \in DOMAIN malloc_list}

(* The volume of the queue is what its chunks add up to and at most        *)
(* --freelist-vol after every operation (the assertion volume >= 0), and   *)
(* VG_(mallinfo) never counts more queued bytes than are on loan.          *)
QueueWithinVolume ==
  /\ free_queue_volume = volume(freed_list)
  /\ free_queue_volume <= clo_freelist_vol
  /\ free_queue_volume <= arena.bytes_on_loan
=============================================================================
