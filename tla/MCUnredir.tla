----------------------------- MODULE MCUnredir -----------------------------
(* An instance of Unredir for TLC: blocks of one and two extents that      *)
(* overlap each other's.                                                   *)
EXTENDS Unredir

X(b, n) == [base |-> b, len |-> n]

SomeBlocks == {<<X(0, 1)>>, <<X(0, 1), X(3, 2)>>, <<X(1, 2)>>, <<X(2, 1)>>, <<X(3, 1)>>}

SomeRanges == {X(0, 1), X(1, 1), X(2, 2), X(4, 1)}
=============================================================================
