------------------------------ MODULE Unredir ------------------------------
(***************************************************************************)
(* The small table of unredirected translations in m_transtab.c, which     *)
(* wrappers of functions use to call the original: a slot array with a     *)
(* high water mark over a code area that only grows, dumped as a whole     *)
(* when either is full.  There is no fast cache in front of it, and it is  *)
(* independent of the main table.                                          *)
(***************************************************************************)
EXTENDS Extents, FiniteSetsExt

CONSTANTS
  Addrs,        \* guest addresses jumped to without redirection
  Blocks,       \* what VEX may translate: sequences of extents [base, len]
  Ranges,       \* ranges [base, len] that are discarded
  CodeSizes,    \* lengths of host code, in ULongs
  N_UNREDIR_TT, N_UNREDIR_TCQ

VARIABLES unredir_tt, unredir_tc, unredir_tc_used, unredir_tt_highwater

vars == <<unredir_tt, unredir_tc, unredir_tc_used, unredir_tt_highwater>>

Slots == 0 .. N_UNREDIR_TT - 1
Quads == 0 .. N_UNREDIR_TCQ - 1

ASSUME SizesAssumption ==
  /\ N_UNREDIR_TT \in Nat \ {0} /\ N_UNREDIR_TCQ \in Nat
  /\ CodeSizes \subseteq 1 .. N_UNREDIR_TCQ
ASSUME BlocksAssumption ==
  /\ Addrs \subseteq Nat /\ Ranges \subseteq Extent
  /\ \A b \in Blocks : IsVexGuestExtents(b) /\ b[1].base \in Addrs

Free == [inUse |-> FALSE]

free_slots == {i \in Slots : ~unredir_tt[i].inUse}

(* search_unredir_transtab: the slots it would accept for a. *)
search_unredir_transtab(a) ==
  {i \in Slots : unredir_tt[i].inUse /\ unredir_tt[i].vge[1].base = a}

full(reqdQ) == free_slots = {} \/ reqdQ > N_UNREDIR_TCQ - unredir_tc_used

init_unredir_tt == [i \in Slots |-> Free]

add_to_unredir_transtab(vge, reqdQ) ==
  LET tt0  == IF full(reqdQ) THEN init_unredir_tt ELSE unredir_tt
      i    == IF full(reqdQ) THEN 0 ELSE Min(free_slots)
      q    == IF full(reqdQ) THEN 0 ELSE unredir_tc_used
      high == IF full(reqdQ) THEN 0 - 1 ELSE unredir_tt_highwater
      code == [entry |-> vge[1].base, vge |-> vge]
  IN  /\ unredir_tt' = [tt0 EXCEPT ![i] = [inUse |-> TRUE, vge |-> vge, hcode |-> q]]
      /\ unredir_tc' = [p \in Quads |->
                          IF p = q THEN code
                          ELSE IF p \in q + 1 .. q + reqdQ - 1 THEN NoCode
                          ELSE unredir_tc[p]]
      /\ unredir_tc_used' = q + reqdQ
      /\ unredir_tt_highwater' = IF i > high THEN i ELSE high

handle_noredir_jump_always_translates(a) ==
  \E vge \in Blocks, reqdQ \in CodeSizes :
    vge[1].base = a /\ add_to_unredir_transtab(vge, reqdQ)

(* Translates what the table does not have yet; otherwise nothing changes. *)
handle_noredir_jump(a) ==
  /\ search_unredir_transtab(a) = {}
  /\ \E vge \in Blocks, reqdQ \in CodeSizes :
       vge[1].base = a /\ add_to_unredir_transtab(vge, reqdQ)

scanned_below(i) == i < unredir_tt_highwater

(* A discard looks no further than the high water mark. *)
scanned(i) == i <= unredir_tt_highwater

unredir_discard_translations(r) ==
  /\ unredir_tt' = [i \in Slots |->
                      IF /\ scanned(i) /\ unredir_tt[i].inUse
                         /\ overlaps(r, unredir_tt[i].vge)
                      THEN Free ELSE unredir_tt[i]]
  /\ unredir_tc' = [q \in Quads |-> unwanted(unredir_tc[q], {r})]
  /\ UNCHANGED <<unredir_tc_used, unredir_tt_highwater>>

Init ==
  /\ unredir_tt = init_unredir_tt
  /\ unredir_tc = [q \in Quads |-> NoCode]
  /\ unredir_tc_used = 0
  /\ unredir_tt_highwater = 0 - 1

Next ==
  \/ \E a \in Addrs : handle_noredir_jump(a)
  \/ \E r \in Ranges : unredir_discard_translations(r)

Spec == Init /\ [][Next]_vars

-----------------------------------------------------------------------------
Entries == {Free} \cup [inUse: {TRUE}, vge: Blocks, hcode: Quads]
Codes   == {NoCode} \cup [entry: Addrs, vge: Blocks]

(* Types, and what sanity_check_redir_tt_tc checks: the high water mark    *)
(* and the amount of code stay in bounds, and no slot above the mark is in *)
(* use.                                                                    *)
TypeOK ==
  /\ unredir_tt \in [Slots -> Entries]
  /\ unredir_tc \in [Quads -> Codes]
  /\ unredir_tc_used \in 0 .. N_UNREDIR_TCQ
  /\ unredir_tt_highwater \in -1 .. N_UNREDIR_TT - 1
  /\ \A i \in Slots : i > unredir_tt_highwater => ~unredir_tt[i].inUse

(* Every entry in use has its own code, which no later translation has     *)
(* overwritten and no discard was to remove.                               *)
CodeIsCurrent ==
  \A i \in Slots : unredir_tt[i].inUse =>
    /\ unredir_tt[i].hcode < unredir_tc_used
    /\ unredir_tc[unredir_tt[i].hcode] =
         [entry |-> unredir_tt[i].vge[1].base, vge |-> unredir_tt[i].vge]

(* There is one translation for an address, whichever slot comes first. *)
OnePerAddress ==
  \A i, j \in Slots :
    /\ unredir_tt[i].inUse /\ unredir_tt[j].inUse
    /\ unredir_tt[i].vge[1].base = unredir_tt[j].vge[1].base
    => i = j
=============================================================================
