-------------------------------- MODULE Heap --------------------------------
(***************************************************************************)
(* What VG_(arena_malloc), VG_(arena_memalign), VG_(arena_realloc) and     *)
(* VG_(arena_free) promise their callers, whatever the arena does inside:  *)
(* the regions that are out on loan are aligned as asked and never         *)
(* overlap, and a region stays where it is until it is given back.  A step *)
(* hands out at most one region, or changes the length of one, and may     *)
(* take back any number (a deferred-free queue gives back several).        *)
(***************************************************************************)
EXTENDS Integers, FiniteSets

\* live[p] = [szB, alignB]: the region at p, as it was asked for.
VARIABLE live

Apart(l) ==
  \A p, q \in DOMAIN l : p < q => p + l[p].szB <= q

Aligned(l) == \A p \in DOMAIN l : p > 0 /\ p % l[p].alignB = 0

Init == live = [p \in {} |-> 0]

\* The new region lies beside every region that was live when the step began,
\* also beside those the same step takes back: realloc copies before it frees.
Beside(p) == \A q \in DOMAIN live : p + live'[p].szB <= q \/ q + live[q].szB <= p

Step ==
  /\ Apart(live') /\ Aligned(live')
  /\ LET changed == {p \in DOMAIN live' : p \notin DOMAIN live \/ live'[p] # live[p]}
     IN  /\ Cardinality(changed) <= 1
         /\ \A p \in changed \ DOMAIN live : Beside(p)
         /\ \A p \in changed \cap DOMAIN live : live'[p].alignB = live[p].alignB

Spec == Init /\ [][Step]_live
=============================================================================
