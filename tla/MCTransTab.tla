----------------------------- MODULE MCTransTab -----------------------------
(* An instance of TransTab for TLC: addresses 0 .. 3 in two bins of two.   *)
(* Blocks: inside a bin, across two bins (ECLASS_MISC), and in two extents *)
(* of different bins (a chased jump).                                      *)
EXTENDS TransTab

X(b, n) == [base |-> b, len |-> n]

SomeBlocks == {<<X(0, 1)>>, <<X(0, 1), X(2, 1)>>, <<X(1, 2)>>, <<X(2, 1)>>}

SomeRanges == {X(1, 1), X(2, 1), X(0, 2)}

SomeRedirs == {[from |-> 2, to |-> 1]}

(* Everything collides. *)
Hash == [a \in Addrs |-> 1]
=============================================================================
