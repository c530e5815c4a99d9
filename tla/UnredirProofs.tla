--------------------------- MODULE UnredirProofs ---------------------------
(***************************************************************************)
(* Proofs about Unredir, for every size of the table and of its code area, *)
(* every set of blocks and every set of discarded ranges.  The three       *)
(* invariants that TLC checks are together inductive.                      *)
(***************************************************************************)
EXTENDS Unredir, WellFoundedInduction, TLAPS

UInv == TypeOK /\ CodeIsCurrent /\ OnePerAddress

(* A set of naturals that is not empty has its minimum as a member; the    *)
(* loop that looks for a free slot stops at one.                           *)
LEMMA MinIsMember ==
  ASSUME NEW S \in SUBSET Nat, S # {}
  PROVE  Min(S) \in S
PROOF
<1> DEFINE R == OpToRel(<, Nat)
<1>1. IsWellFoundedOn(R, Nat)
  BY NatLessThanWellFounded
<1>2. \A y, x \in Nat : y < x => <<y, x>> \in R
  BY DEF OpToRel
<1> HIDE DEF R
<1>3. PICK x \in S : \A y \in S : ~(<<y, x>> \in R)
  BY <1>1, WFMin, Zenon
<1>4. ASSUME NEW y \in S PROVE x <= y
  <2>1. x \in Nat /\ y \in Nat
    OBVIOUS
  <2>2. ~(y < x)
    BY <1>2, <1>3, <2>1, Zenon
  <2> QED
    BY <2>1, <2>2
<1> QED
  BY <1>4 DEF Min

(* An entry in use has a block and a place in the code area. *)
LEMMA EntryInUse ==
  ASSUME NEW e \in Entries, e.inUse
  PROVE  e.vge \in Blocks /\ e.hcode \in Quads
PROOF
<1>1. e # Free
  BY DEF Free
<1>2. e \in [inUse: {TRUE}, vge: Blocks, hcode: Quads]
  BY <1>1 DEF Entries
<1> QED
  BY <1>2

(* The initial, empty table satisfies the invariant. *)
LEMMA UInit == Init => UInv
PROOF
  BY SizesAssumption
     DEF Init, UInv, TypeOK, CodeIsCurrent, OnePerAddress, init_unredir_tt, Free,
         Entries, Codes, Slots, Quads

(* A new translation gets a slot and code of its own. *)
LEMMA AddKeeps ==
  ASSUME UInv, NEW vge \in Blocks, NEW n \in CodeSizes,
         search_unredir_transtab(vge[1].base) = {},
         add_to_unredir_transtab(vge, n)
  PROVE  UInv'
PROOF
<1> DEFINE dump == full(n)
           tt0  == IF dump THEN init_unredir_tt ELSE unredir_tt
           i    == IF dump THEN 0 ELSE Min(free_slots)
           q    == IF dump THEN 0 ELSE unredir_tc_used
           high == IF dump THEN 0 - 1 ELSE unredir_tt_highwater
           new  == [inUse |-> TRUE, vge |-> vge, hcode |-> q]
           code == [entry |-> vge[1].base, vge |-> vge]
<1>1. /\ unredir_tt' = [tt0 EXCEPT ![i] = new]
      /\ unredir_tc' = [p \in Quads |-> IF p = q THEN code
                                        ELSE IF p \in q + 1 .. q + n - 1 THEN NoCode
                                        ELSE unredir_tc[p]]
      /\ unredir_tc_used' = q + n
      /\ unredir_tt_highwater' = IF i > high THEN i ELSE high
  BY DEF add_to_unredir_transtab
<1>2. n \in 1 .. N_UNREDIR_TCQ /\ N_UNREDIR_TCQ \in Nat /\ N_UNREDIR_TT \in Nat \ {0}
  BY SizesAssumption
<1>3. i \in Slots /\ (~dump => ~unredir_tt[i].inUse)
  <2>1. free_slots \in SUBSET Nat /\ free_slots \subseteq Slots
    BY DEF free_slots, Slots
  <2>2. CASE ~dump
    BY <2>1, <2>2, MinIsMember DEF full, free_slots
  <2> QED
    BY <1>2, <2>2 DEF Slots
<1>4. q \in Quads /\ q + n \in 0 .. N_UNREDIR_TCQ /\ q \in Nat
  BY <1>2 DEF UInv, TypeOK, full, Quads
<1>5. code \in Codes /\ new \in Entries
  BY <1>4, BlocksAssumption DEF Codes, Entries
<1>6. tt0 \in [Slots -> Entries]
  BY DEF UInv, TypeOK, init_unredir_tt, Entries
<1>7. high \in -1 .. N_UNREDIR_TT - 1
  BY <1>2 DEF UInv, TypeOK
<1>8. \A j \in Slots : j > high => ~tt0[j].inUse
  BY DEF UInv, TypeOK, init_unredir_tt, Free
(* What was in use and still is lies below q and is untouched. *)
<1>9. \A j \in Slots : tt0[j].inUse =>
        /\ ~dump /\ tt0[j] = unredir_tt[j] /\ unredir_tt[j].hcode < q
        /\ unredir_tt[j].hcode \in Quads
        /\ unredir_tc[unredir_tt[j].hcode] =
             [entry |-> unredir_tt[j].vge[1].base, vge |-> unredir_tt[j].vge]
        /\ unredir_tt[j].vge[1].base # vge[1].base
  <2> SUFFICES ASSUME NEW j \in Slots, tt0[j].inUse
               PROVE  /\ ~dump /\ tt0[j] = unredir_tt[j] /\ unredir_tt[j].hcode < q
                      /\ unredir_tt[j].hcode \in Quads
                      /\ unredir_tc[unredir_tt[j].hcode] =
                           [entry |-> unredir_tt[j].vge[1].base, vge |-> unredir_tt[j].vge]
                      /\ unredir_tt[j].vge[1].base # vge[1].base
    OBVIOUS
  <2>1. ~dump /\ tt0[j] = unredir_tt[j] /\ unredir_tt[j].inUse /\ q = unredir_tc_used
    BY DEF init_unredir_tt, Free
  <2>2. unredir_tt[j] \in Entries
    BY DEF UInv, TypeOK
  <2>3. unredir_tt[j].hcode \in Quads
    BY <2>1, <2>2, EntryInUse
  <2>4. j \notin search_unredir_transtab(vge[1].base)
    OBVIOUS
  <2>5. unredir_tt[j].vge[1].base # vge[1].base
    BY <2>1, <2>4 DEF search_unredir_transtab
  <2>6. /\ unredir_tt[j].hcode < unredir_tc_used
        /\ unredir_tc[unredir_tt[j].hcode] =
             [entry |-> unredir_tt[j].vge[1].base, vge |-> unredir_tt[j].vge]
    BY <2>1 DEF UInv, CodeIsCurrent
  <2> HIDE DEF tt0, q, dump
  <2> QED
    BY <2>1, <2>3, <2>5, <2>6
<1> HIDE DEF tt0, i, q, high, dump, new, code
<1>10. TypeOK'
  <2>1. unredir_tt' \in [Slots -> Entries]
    BY <1>1, <1>5, <1>6
  <2>2. unredir_tc' \in [Quads -> Codes]
    BY <1>1, <1>5 DEF UInv, TypeOK, Codes
  <2>3. unredir_tt_highwater' \in -1 .. N_UNREDIR_TT - 1
    BY <1>1, <1>2, <1>3, <1>7 DEF Slots
  <2>4. ASSUME NEW j \in Slots, j > unredir_tt_highwater'
        PROVE  ~unredir_tt'[j].inUse
    BY <1>1, <1>2, <1>3, <1>6, <1>7, <1>8, <2>4 DEF Slots
  <2> QED
    BY <1>1, <1>4, <2>1, <2>2, <2>3, <2>4 DEF TypeOK
<1>11. ASSUME NEW j \in Slots, unredir_tt'[j].inUse
       PROVE  \/ j = i /\ unredir_tt'[j] = new
              \/ j # i /\ tt0[j].inUse /\ unredir_tt'[j] = unredir_tt[j]
  BY <1>1, <1>3, <1>6, <1>9, <1>11
<1>12. CodeIsCurrent'
  <2> SUFFICES ASSUME NEW j \in Slots, unredir_tt'[j].inUse
               PROVE  /\ unredir_tt'[j].hcode < unredir_tc_used'
                      /\ unredir_tc'[unredir_tt'[j].hcode] =
                           [entry |-> unredir_tt'[j].vge[1].base,
                            vge |-> unredir_tt'[j].vge]
    BY DEF CodeIsCurrent
  <2>1. CASE j = i /\ unredir_tt'[j] = new
    BY <1>1, <1>2, <1>4, <2>1 DEF new, code
  <2>2. CASE j # i /\ tt0[j].inUse /\ unredir_tt'[j] = unredir_tt[j]
    <3>1. unredir_tt[j].hcode \in Quads /\ unredir_tt[j].hcode < q
      BY <1>9, <2>2
    <3>2. unredir_tc'[unredir_tt[j].hcode] = unredir_tc[unredir_tt[j].hcode]
      BY <1>1, <1>2, <1>4, <3>1 DEF Quads
    <3> QED
      BY <1>1, <1>2, <1>4, <1>9, <2>2, <3>1, <3>2 DEF Quads
  <2> QED
    BY <1>11, <2>1, <2>2
<1>13. OnePerAddress'
  <2> SUFFICES ASSUME NEW j \in Slots, NEW k \in Slots,
                      unredir_tt'[j].inUse, unredir_tt'[k].inUse,
                      unredir_tt'[j].vge[1].base = unredir_tt'[k].vge[1].base
               PROVE  j = k
    BY DEF OnePerAddress
  <2>1. ASSUME NEW m \in Slots, m # i, unredir_tt'[m].inUse
        PROVE  unredir_tt'[m].vge[1].base # vge[1].base
    BY <1>9, <1>11, <2>1
  <2>2. j = i => unredir_tt'[j].vge = vge
    BY <1>1, <1>3, <1>6 DEF new
  <2>3. k = i => unredir_tt'[k].vge = vge
    BY <1>1, <1>3, <1>6 DEF new
  <2>4. CASE j # i /\ k # i
    <3>1. /\ tt0[j].inUse /\ unredir_tt'[j] = unredir_tt[j] /\ tt0[j] = unredir_tt[j]
          /\ tt0[k].inUse /\ unredir_tt'[k] = unredir_tt[k] /\ tt0[k] = unredir_tt[k]
      BY <1>9, <1>11, <2>4
    <3> QED
      BY <3>1 DEF UInv, OnePerAddress
  <2> QED
    BY <2>1, <2>2, <2>3, <2>4
<1> QED
  BY <1>10, <1>12, <1>13 DEF UInv

(* A discard removes every entry that overlaps the range, as all of them   *)
(* are below the high water mark, and keeps the others and their code.     *)
LEMMA DiscardKeeps ==
  ASSUME UInv, NEW r \in Ranges, unredir_discard_translations(r)
  PROVE  UInv'
PROOF
<1>1. ASSUME NEW j \in Slots, unredir_tt'[j].inUse
      PROVE  /\ unredir_tt'[j] = unredir_tt[j] /\ unredir_tt[j].inUse
             /\ ~overlaps(r, unredir_tt[j].vge)
  BY <1>1 DEF unredir_discard_translations, scanned, UInv, TypeOK, Free, Slots
<1>2. TypeOK'
  <2>1. unredir_tt' \in [Slots -> Entries]
    BY DEF unredir_discard_translations, UInv, TypeOK, Entries
  <2>2. unredir_tc' \in [Quads -> Codes]
    BY DEF unredir_discard_translations, UInv, TypeOK, Codes, unwanted
  <2> QED
    BY <1>1, <2>1, <2>2 DEF unredir_discard_translations, UInv, TypeOK
<1>3. CodeIsCurrent'
  <2> SUFFICES ASSUME NEW j \in Slots, unredir_tt'[j].inUse
               PROVE  /\ unredir_tt'[j].hcode < unredir_tc_used'
                      /\ unredir_tc'[unredir_tt'[j].hcode] =
                           [entry |-> unredir_tt'[j].vge[1].base,
                            vge |-> unredir_tt'[j].vge]
    BY DEF CodeIsCurrent
  <2> DEFINE c == unredir_tc[unredir_tt[j].hcode]
  <2>1. /\ unredir_tt'[j] = unredir_tt[j] /\ unredir_tt[j].inUse
        /\ ~overlaps(r, unredir_tt[j].vge)
    BY <1>1
  <2>2. /\ c = [entry |-> unredir_tt[j].vge[1].base, vge |-> unredir_tt[j].vge]
        /\ unredir_tt[j].hcode < unredir_tc_used
    BY <2>1 DEF UInv, CodeIsCurrent
  <2>3. unredir_tt[j].hcode \in Quads
    BY <2>1, EntryInUse DEF UInv, TypeOK
  <2>4. unredir_tc'[unredir_tt[j].hcode] = unwanted(c, {r})
    BY <2>3 DEF unredir_discard_translations
  <2>5. c.vge = unredir_tt[j].vge
    BY <2>2
  <2> HIDE DEF c
  <2>6. unwanted(c, {r}) = c
    BY <2>1, <2>5 DEF unwanted
  <2> QED
    BY <2>1, <2>2, <2>4, <2>6 DEF unredir_discard_translations
<1>4. OnePerAddress'
  BY <1>1 DEF UInv, OnePerAddress
<1> QED
  BY <1>2, <1>3, <1>4 DEF UInv

(* The table of unredirected translations is safe to run from: every entry *)
(* in use has intact code that no discard was to remove, and is the only   *)
(* one for its address.                                                    *)
THEOREM UnredirInvariant == Spec => []UInv
PROOF
<1>1. UInv /\ [Next]_vars => UInv'
  <2> SUFFICES ASSUME UInv, [Next]_vars PROVE UInv'
    OBVIOUS
  <2>1. ASSUME NEW a \in Addrs, handle_noredir_jump(a) PROVE UInv'
    BY <2>1, AddKeeps DEF handle_noredir_jump
  <2>2. ASSUME NEW r \in Ranges, unredir_discard_translations(r) PROVE UInv'
    BY <2>2, DiscardKeeps
  <2>3. CASE UNCHANGED vars
    BY <2>3 DEF UInv, vars, TypeOK, CodeIsCurrent, OnePerAddress
  <2> QED
    BY <2>1, <2>2, <2>3 DEF Next
<1> QED
  BY UInit, <1>1, PTL DEF Spec

(* What TLC checks as CodeIsCurrent, for every instance. *)
THEOREM UnredirCodeIsCurrent == Spec => []CodeIsCurrent
PROOF
<1>1. UInv => CodeIsCurrent
  BY DEF UInv
<1> QED
  BY UnredirInvariant, <1>1, PTL

(* What TLC checks as OnePerAddress, for every instance. *)
THEOREM UnredirOnePerAddress == Spec => []OnePerAddress
PROOF
<1>1. UInv => OnePerAddress
  BY DEF UInv
<1> QED
  BY UnredirInvariant, <1>1, PTL
=============================================================================
