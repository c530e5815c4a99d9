---------------------------- MODULE MCScheduler ----------------------------
(* Instances of Scheduler for TLC. *)
EXTENDS Scheduler

DefaultOnly == {[handler |-> "DFL", restart |-> FALSE]}

Catching == {[handler |-> "fn", restart |-> TRUE], [handler |-> "fn", restart |-> FALSE]}

(* SA_RESTART says nothing of a signal that is not caught. *)
AllDispositions ==
  Catching \cup DefaultOnly \cup {[handler |-> "IGN", restart |-> FALSE]}
=============================================================================
