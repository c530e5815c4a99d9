------------------------------- MODULE MCHeap -------------------------------
(* Instances of McHeap for TLC. *)
EXTENDS McHeap

MCBounds == <<4, 8>>
MCSpace == 48 .. 191

\* The table in the code satisfies what the lists of an arena are assumed to.
ASSUME VgTable ==
  Increasing(VgListBounds) /\ Len(VgListBounds) + 64 + 1 = 112 /\ 64 < VgListBounds[1]
=============================================================================
