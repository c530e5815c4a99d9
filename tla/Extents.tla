------------------------------ MODULE Extents ------------------------------
(***************************************************************************)
(* Guest address ranges: VexGuestExtents and the test for overlap that     *)
(* every discard of translations uses (coregrind/m_transtab.c).            *)
(***************************************************************************)
EXTENDS Integers, Sequences

Extent == [base: Nat, len: Nat \ {0}]

(* What VEX translates in one piece: one to three extents. *)
IsVexGuestExtents(b) == b \in Seq(Extent) /\ Len(b) \in 1 .. 3

overlap1(r, x) == ~(r.base + r.len - 1 < x.base \/ x.base + x.len - 1 < r.base)

overlaps(r, vge) == \E i \in 1 .. Len(vge) : overlap1(r, vge[i])

(* Host code is the record of what was translated, and NoCode once         *)
(* somebody has asked for guest code it was made from to be discarded,     *)
(* since that has changed (munmap, mprotect, client request) or is         *)
(* redirected: it stays where it is, but must not be run any more.         *)
NoCode == [entry |-> 0 - 1]

unwanted(c, rs) == IF c # NoCode /\ (\E r \in rs : overlaps(r, c.vge)) THEN NoCode ELSE c
=============================================================================
