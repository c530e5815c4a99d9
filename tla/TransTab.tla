------------------------------ MODULE TransTab ------------------------------
(***************************************************************************)
(* The translation table and cache of coregrind/m_transtab.c, with the     *)
(* dispatcher's fast cache in front of it and the redirections of          *)
(* m_redir.c it has to honour.                                             *)
(*                                                                         *)
(* A translation is kept in a sector: its host code in the sector's tc     *)
(* area, its description in the sector's tt, a hash table with linear      *)
(* probing and lazy deletion.  The youngest sector is filled until tt or   *)
(* tc is full; then the next one, the oldest, is emptied and filled.       *)
(* Translations are listed by address-range classes (eclasses), so that    *)
(* small discards need not look at all of them.  Everything runs under     *)
(* the_BigLock.  Unredirected translations have a table of their own: see  *)
(* Unredir.  What VEX makes of an address is a member of Blocks.           *)
(***************************************************************************)
EXTENDS Extents, FiniteSets, FiniteSetsExt, Functions

CONSTANTS
  Addrs,           \* guest addresses at which translations start
  Blocks,          \* what VEX may translate: sequences of extents [base, len]
  Ranges,          \* ranges [base, len] that are discarded
  Redirs,          \* redirections [from, to] that may come into force
  CodeSizes,       \* lengths of host code, in ULongs
  N_SECTORS, N_TTES_PER_SECTOR, N_TTES_PER_SECTOR_USABLE,
  tc_sector_szQ,   \* ULongs in a tc area
  HASH_TT,         \* [Addrs -> Slots]
  VG_TT_FAST_SIZE,
  ECLASS_SIZE,     \* 2^ECLASS_SHIFT, the addresses in a bin
  ECLASS_MISC      \* 2^ECLASS_WIDTH, the number of bins

VARIABLES
  youngest_sector,
  inited,          \* sectors whose tc and tt are allocated
  tt, tc, tc_next, tt_n_inuse, ec2tte,      \* per sector
  tt_fast,         \* tt_fast and tt_fastN: guest, host, pointer to count
  active           \* activeSet of m_redir.c: from -> to

sectorVars == <<youngest_sector, inited, tt, tc, tc_next, tt_n_inuse, ec2tte>>
vars == <<sectorVars, tt_fast, active>>

Sectors  == 0 .. N_SECTORS - 1
Slots    == 0 .. N_TTES_PER_SECTOR - 1
Quads    == 0 .. tc_sector_szQ - 1
Fast     == 0 .. VG_TT_FAST_SIZE - 1
EClasses == 0 .. ECLASS_MISC

ASSUME SizesAssumption ==
  /\ N_SECTORS \in Nat \ {0} /\ N_TTES_PER_SECTOR \in Nat
  /\ N_TTES_PER_SECTOR_USABLE \in 1 .. N_TTES_PER_SECTOR - 1
  /\ VG_TT_FAST_SIZE \in Nat \ {0} /\ ECLASS_SIZE \in Nat \ {0}
  /\ ECLASS_MISC \in Nat \ {0} /\ tc_sector_szQ \in Nat
  /\ CodeSizes \subseteq 1 .. tc_sector_szQ
ASSUME AddrsAssumption == Addrs \subseteq Nat /\ HASH_TT \in [Addrs -> Slots]
(* Each extent is no longer than all bins but one together (in the code    *)
(* 65535 against 2^19 - 2^11), so it cannot go round into its first bin.   *)
ASSUME BlocksAssumption ==
  \A b \in Blocks :
    /\ IsVexGuestExtents(b)
    /\ \A i \in 1 .. Len(b) : b[i].len <= ECLASS_SIZE * (ECLASS_MISC - 1)
ASSUME RangesAssumption == Ranges \subseteq Extent
ASSUME RedirsAssumption == Redirs \subseteq [from: Addrs, to: Addrs]

-----------------------------------------------------------------------------
(* Address-range equivalence classes *)

bin(a) == (a \div ECLASS_SIZE) % ECLASS_MISC

range_to_eclass(r) ==
  IF bin(r.base) = bin(r.base + r.len - 1) THEN bin(r.base) ELSE ECLASS_MISC

vexGuestExtents_to_eclasses(vge) ==
  LET cs == {range_to_eclass(vge[i]) : i \in 1 .. Len(vge)}
  IN  IF ECLASS_MISC \in cs THEN {ECLASS_MISC} ELSE cs

(* Marks a list element whose translation is gone: not a slot number. *)
EC2TTE_DELETED == N_TTES_PER_SECTOR

-----------------------------------------------------------------------------
(* tt, tc and the fast cache *)

Empty   == [status |-> "Empty"]
Deleted == [status |-> "Deleted"]
InUse(s, k) == tt[s][k].status = "InUse"

NoFast == [guest |-> 0 - 1]     \* TRANSTAB_BOGUS_GUEST_ADDR

VG_TT_FAST_HASH(a) == a % VG_TT_FAST_SIZE

invalidateFastCache == [c \in Fast |-> NoFast]

FastCacheEntry(a, s, k, q) ==
  [guest |-> a, host |-> <<s, q>>, count |-> <<s, k>>]

setFastCacheEntry(fast, a, s, k, q) ==
  [fast EXCEPT ![VG_TT_FAST_HASH(a)] = FastCacheEntry(a, s, k, q)]

(* The slot reached from a's home slot after d steps. *)
probe(a, d) == (HASH_TT[a] + d) % N_TTES_PER_SECTOR

(* How far search_transtab has to go in sector s, if it finds a there. *)
hits(s, a) ==
  {d \in Slots : /\ tt[s][probe(a, d)].status = "InUse"
                 /\ tt[s][probe(a, d)].entry = a
                 /\ \A e \in 0 .. d - 1 : tt[s][probe(a, e)] # Empty}

age(s) == (youngest_sector - s) % N_SECTORS

search_sectors(a) == {s \in inited : hits(s, a) # {}}

(* Where search_transtab finds a: in the youngest sector that has it, at   *)
(* the first match.                                                        *)
search_transtab(a) ==
  LET s == CHOOSE s \in search_sectors(a) :
             \A u \in search_sectors(a) : age(s) <= age(u)
  IN  <<s, probe(a, Min(hits(s, a)))>>

found(a) == search_sectors(a) # {}

-----------------------------------------------------------------------------
(* Adding a translation *)

sector_full(y, reqdQ) ==
  \/ tc_sector_szQ - tc_next[y] < reqdQ
  \/ tt_n_inuse[y] >= N_TTES_PER_SECTOR_USABLE

next_sector(y) == IF y + 1 >= N_SECTORS THEN 0 ELSE y + 1

(* The first slot that is not InUse: an Empty or a Deleted one. *)
first_free(t, a) ==
  probe(a, Min({d \in Slots : t[probe(a, d)].status # "InUse"}))

(* initialiseSector empties the fast cache too. *)
recycled_fast(fresh) == IF fresh THEN invalidateFastCache ELSE tt_fast

add_to_transtab(vge, entry, reqdQ) ==
  LET moves == youngest_sector \in inited /\ sector_full(youngest_sector, reqdQ)
      y     == IF moves THEN next_sector(youngest_sector) ELSE youngest_sector
      fresh == moves \/ y \notin inited            \* initialiseSector(y)
      tt0   == IF fresh THEN [k \in Slots |-> Empty] ELSE tt[y]
      ec0   == IF fresh THEN [e \in EClasses |-> <<>>] ELSE ec2tte[y]
      q     == IF fresh THEN 0 ELSE tc_next[y]
      n     == IF fresh THEN 0 ELSE tt_n_inuse[y]
      k     == first_free(tt0, entry)
      cs    == vexGuestExtents_to_eclasses(vge)
      tte   == [status |-> "InUse", entry |-> entry, vge |-> vge, tcptr |-> q,
                tte2ec |-> [e \in cs |-> Len(ec0[e]) + 1]]
      hcode == [entry |-> entry, vge |-> vge]
  IN  /\ youngest_sector' = y
      /\ inited' = inited \cup {y}
      /\ tt' = [tt EXCEPT ![y] = [tt0 EXCEPT ![k] = tte]]
      /\ tc' = [tc EXCEPT ![y] =
                  [p \in Quads |-> IF p = q THEN hcode
                                   ELSE IF p \in q + 1 .. q + reqdQ - 1 THEN NoCode
                                   ELSE tc[y][p]]]
      /\ tc_next' = [tc_next EXCEPT ![y] = q + reqdQ]
      /\ tt_n_inuse' = [tt_n_inuse EXCEPT ![y] = n + 1]
      /\ ec2tte' = [ec2tte EXCEPT ![y] =
                      [e \in EClasses |-> IF e \in cs THEN Append(ec0[e], k) ELSE ec0[e]]]
      /\ tt_fast' = setFastCacheEntry(recycled_fast(fresh), entry, y, k, q)

redir_do_lookup(a) == IF a \in DOMAIN active THEN active[a] ELSE a

(* What VEX may make of code at a: it chases no jump to a redirected place *)
(* (chase_into_ok).                                                        *)
blocks_at(a) ==
  {b \in Blocks : /\ b[1].base = a
                  /\ \A i \in 2 .. Len(b) : b[i].base \notin DOMAIN active}

(* The dispatcher missed in the fast cache.  handle_tt_miss searches and,  *)
(* if that fails, translates and searches again, which finds what it added *)
(* and sets the same fast cache entry again.                               *)
handle_tt_miss(a) ==
  /\ tt_fast[VG_TT_FAST_HASH(a)].guest # a
  /\ IF found(a)
     THEN LET s == search_transtab(a)[1]
              k == search_transtab(a)[2]
          IN  /\ tt_fast' = setFastCacheEntry(tt_fast, a, s, k, tt[s][k].tcptr)
              /\ UNCHANGED sectorVars
     ELSE \E vge \in blocks_at(redir_do_lookup(a)), reqdQ \in CodeSizes :
            add_to_transtab(vge, a, reqdQ)
  /\ UNCHANGED active

-----------------------------------------------------------------------------
(* Discarding translations *)

candidates_ec_only(s, r) ==
  LET ec == range_to_eclass(r)
  IN  IF r.len < ECLASS_SIZE /\ ec # ECLASS_MISC
      THEN Range(ec2tte[s][ec]) \ {EC2TTE_DELETED}
      ELSE Slots

(* The slots that a discard of r looks at in sector s: a small range in    *)
(* one bin needs only the lists of that bin and of ECLASS_MISC.            *)
candidates(s, r) ==
  LET ec == range_to_eclass(r)
  IN  IF r.len < ECLASS_SIZE /\ ec # ECLASS_MISC
      THEN (Range(ec2tte[s][ec]) \cup Range(ec2tte[s][ECLASS_MISC])) \ {EC2TTE_DELETED}
      ELSE Slots

doomed(rs, s) ==
  {k \in UNION {candidates(s, r) : r \in rs} :
     InUse(s, k) /\ \E r \in rs : overlaps(r, tt[s][k].vge)}

delete_tte_leaves_links(s, ks, e, ix) == ec2tte[s][e][ix]

(* delete_tte marks the list elements that the deleted entries point at. *)
delete_tte(s, ks, e, ix) ==
  IF \E k \in ks : e \in DOMAIN tt[s][k].tte2ec /\ tt[s][k].tte2ec[e] = ix
  THEN EC2TTE_DELETED ELSE ec2tte[s][e][ix]

discard_keeps_fast(del) == tt_fast

fast_after_discard(del) ==
  IF \E s \in inited : del[s] # {} THEN invalidateFastCache ELSE tt_fast

(* discard_translations of each of the ranges rs, one after the other:     *)
(* what one deletes does not change what another looks at.  The call of    *)
(* unredir_discard_translations at its end touches none of this state: it  *)
(* is an action of Unredir.                                                *)
discard_translations(rs) ==
  LET del == [s \in Sectors |-> IF s \in inited THEN doomed(rs, s) ELSE {}]
  IN  /\ tt' = [s \in Sectors |-> [k \in Slots |->
                  IF k \in del[s] THEN Deleted ELSE tt[s][k]]]
      /\ ec2tte' = [s \in Sectors |-> [e \in EClasses |->
                      [ix \in 1 .. Len(ec2tte[s][e]) |-> delete_tte(s, del[s], e, ix)]]]
      /\ tt_n_inuse' = [s \in Sectors |-> tt_n_inuse[s] - Cardinality(del[s])]
      /\ tt_fast' = fast_after_discard(del)
      /\ tc' = [s \in Sectors |-> [q \in Quads |-> unwanted(tc[s][q], rs)]]
      /\ UNCHANGED <<youngest_sector, inited, tc_next>>

(* The client's code in r changes, or it asks for a discard. *)
Discard(r) == discard_translations({r}) /\ UNCHANGED active

redir_ranges(from, to) == {[base |-> from, len |-> 1], [base |-> to, len |-> 1]}

(* A redirection comes into force.  One that is there already, or that     *)
(* conflicts with one, is ignored.                                         *)
maybe_add_active(d) ==
  /\ d.from \notin DOMAIN active
  /\ active' = [a \in DOMAIN active \cup {d.from} |->
                  IF a = d.from THEN d.to ELSE active[a]]
  /\ discard_translations(redir_ranges(d.from, d.to))

(* An object is unmapped, and the redirections that came with it go. *)
redir_notify_delete_DebugInfo(ds) ==
  /\ ds # {}
  /\ active' = Restrict(active, DOMAIN active \ ds)
  /\ discard_translations(UNION {redir_ranges(a, active[a]) : a \in ds})

-----------------------------------------------------------------------------
(* VG_(init_tt_tc) *)
Init ==
  /\ youngest_sector = 0
  /\ inited = {}
  /\ tt = [s \in Sectors |-> [k \in Slots |-> Empty]]
  /\ tc = [s \in Sectors |-> [q \in Quads |-> NoCode]]
  /\ tc_next = [s \in Sectors |-> 0]
  /\ tt_n_inuse = [s \in Sectors |-> 0]
  /\ ec2tte = [s \in Sectors |-> [e \in EClasses |-> <<>>]]
  /\ tt_fast = invalidateFastCache
  /\ active = [a \in {} |-> a]

Next ==
  \/ \E a \in Addrs : handle_tt_miss(a)
  \/ \E r \in Ranges : Discard(r)
  \/ \E d \in Redirs : maybe_add_active(d)
  \/ \E ds \in SUBSET DOMAIN active : redir_notify_delete_DebugInfo(ds)

Spec == Init /\ [][Next]_vars

-----------------------------------------------------------------------------
(* Host code c is a translation for guest address a that may be run: no    *)
(* discard has hit it, and it was made under the redirection that is now   *)
(* in force for a.                                                         *)
runnable(c, a) ==
  c # NoCode /\ c.entry = a /\ c.vge[1].base = redir_do_lookup(a)

(* What the dispatcher jumps to without asking anyone is such code: no     *)
(* discard, redirection or recycled sector leaves a stale address in       *)
(* VG_(tt_fast).  And "tt_fastN[i] must point to the .count field of the   *)
(* corresponding TT entry" (m_transtab.c).                                 *)
FastCodeIsCurrent ==
  \A c \in Fast : tt_fast[c] # NoFast =>
    LET h == tt_fast[c].host
        s == tt_fast[c].count[1]
        k == tt_fast[c].count[2]
    IN  /\ runnable(tc[h[1]][h[2]], tt_fast[c].guest)
        /\ s \in inited /\ InUse(s, k)
        /\ tt[s][k].entry = tt_fast[c].guest
        /\ <<s, tt[s][k].tcptr>> = tt_fast[c].host

(* Every translation in use is the one a search for its address finds      *)
(* (linear probing survives deletions, and there is one translation for an *)
(* address in all sectors together), and its host code may be run: a       *)
(* discard by class misses nothing.                                        *)
SearchFindsCurrentCode ==
  \A s \in inited, k \in Slots : InUse(s, k) =>
    /\ found(tt[s][k].entry) /\ search_transtab(tt[s][k].entry) = <<s, k>>
    /\ runnable(tc[s][tt[s][k].tcptr], tt[s][k].entry)

(* What sanity_check_eclasses_in_sector checks and delete_tte asserts: tt  *)
(* entries and class lists point at each other, through every reuse of a   *)
(* slot; tt_n_inuse counts what is in use, so that the search for a free   *)
(* slot ends; and no translation is written beyond the end of tc.          *)
SectorSane ==
  \A s \in Sectors :
    /\ tt_n_inuse[s] = Cardinality({k \in Slots : InUse(s, k)})
    /\ tt_n_inuse[s] <= N_TTES_PER_SECTOR_USABLE
    /\ tc_next[s] <= tc_sector_szQ
    /\ \A k \in Slots : InUse(s, k) =>
         /\ DOMAIN tt[s][k].tte2ec = vexGuestExtents_to_eclasses(tt[s][k].vge)
         /\ \A e \in DOMAIN tt[s][k].tte2ec :
              /\ tt[s][k].tte2ec[e] \in DOMAIN ec2tte[s][e]
              /\ ec2tte[s][e][tt[s][k].tte2ec[e]] = k
    /\ \A e \in EClasses : \A ix \in DOMAIN ec2tte[s][e] :
         LET k == ec2tte[s][e][ix]
         IN  k # EC2TTE_DELETED =>
               /\ InUse(s, k) /\ e \in DOMAIN tt[s][k].tte2ec
               /\ tt[s][k].tte2ec[e] = ix

-----------------------------------------------------------------------------
(* The inductive invariant behind these, sector by sector: t is a sector's *)
(* tt, ec its class lists, code its tc.                                    *)

used(t) == {k \in Slots : t[k].status = "InUse"}

IsTTEntry(e) ==
  \/ e \in {Empty, Deleted}
  \/ e.status = "InUse" /\ e.entry \in Addrs /\ e.vge \in Blocks /\ e.tcptr \in Quads

HostCode == {NoCode} \cup [entry: Addrs, vge: Blocks]

SectorTypes(t, ec, code, next, n) ==
  /\ DOMAIN t = Slots /\ \A k \in Slots : IsTTEntry(t[k])
  /\ ec \in [EClasses -> Seq(Slots \cup {EC2TTE_DELETED})]
  /\ code \in [Quads -> HostCode]
  /\ next \in 0 .. tc_sector_szQ
  /\ n \in 0 .. N_TTES_PER_SECTOR_USABLE

Counted(t, n) == n = Cardinality(used(t))

LinkedForth(t, ec) ==
  \A k \in used(t) :
    /\ DOMAIN t[k].tte2ec = vexGuestExtents_to_eclasses(t[k].vge)
    /\ \A e \in DOMAIN t[k].tte2ec :
         t[k].tte2ec[e] \in DOMAIN ec[e] /\ ec[e][t[k].tte2ec[e]] = k

LinkedBack(t, ec) ==
  \A e \in EClasses : \A ix \in DOMAIN ec[e] : ec[e][ix] # EC2TTE_DELETED =>
    /\ ec[e][ix] \in used(t) /\ e \in DOMAIN t[ec[e][ix]].tte2ec
    /\ t[ec[e][ix]].tte2ec[e] = ix

(* Nothing on the way from its home slot to a translation is Empty. *)
reaches(t, k, d) ==
  probe(t[k].entry, d) = k /\ \A e \in 0 .. d - 1 : t[probe(t[k].entry, e)] # Empty

Chained(t) == \A k \in used(t) : \E d \in Slots : reaches(t, k, d)

(* What a tt entry says of its host code is what is there, and below       *)
(* tc_next, so that nothing is written over it.                            *)
Coded(t, code, next) ==
  \A k \in used(t) :
    /\ t[k].tcptr < next
    /\ code[t[k].tcptr] = [entry |-> t[k].entry, vge |-> t[k].vge]

SectorOK(t, ec, code, next, n) ==
  /\ SectorTypes(t, ec, code, next, n)
  /\ Counted(t, n)
  /\ LinkedForth(t, ec) /\ LinkedBack(t, ec)
  /\ Chained(t)
  /\ Coded(t, code, next)

SectorsOK ==
  \A s \in Sectors : SectorOK(tt[s], ec2tte[s], tc[s], tc_next[s], tt_n_inuse[s])

(* Per sector tables, the redirections, and sectors never used. *)
Tables ==
  /\ youngest_sector \in Sectors /\ inited \subseteq Sectors
  /\ DOMAIN tt = Sectors /\ DOMAIN ec2tte = Sectors /\ DOMAIN tc = Sectors
  /\ DOMAIN tc_next = Sectors /\ DOMAIN tt_n_inuse = Sectors
  /\ DOMAIN active \subseteq Addrs /\ \A a \in DOMAIN active : active[a] \in Addrs
  /\ \A s \in Sectors \ inited : used(tt[s]) = {}

OneEach ==
  \A s, u \in Sectors : \A k \in used(tt[s]), j \in used(tt[u]) :
    tt[s][k].entry = tt[u][j].entry => s = u /\ k = j

RedirsHonoured ==
  \A s \in Sectors : \A k \in used(tt[s]) :
    tt[s][k].vge[1].base = redir_do_lookup(tt[s][k].entry)

FastPoints ==
  /\ DOMAIN tt_fast = Fast
  /\ \A c \in Fast : tt_fast[c] # NoFast =>
       \E s \in inited : \E k \in used(tt[s]) :
         tt_fast[c] = FastCacheEntry(tt[s][k].entry, s, k, tt[s][k].tcptr)

TInv == Tables /\ SectorsOK /\ OneEach /\ RedirsHonoured /\ FastPoints
=============================================================================
