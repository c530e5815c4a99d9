------------------------------ MODULE BigLock ------------------------------
(***************************************************************************)
(* What the_BigLock promises its users: one LWP at a time holds the        *)
(* virtual CPU.  The scheduler is written against this specification;      *)
(* module Sema shows that the token-in-a-pipe semaphore of                 *)
(* coregrind/m_scheduler/sema.c implements it.                             *)
(***************************************************************************)
EXTENDS Naturals

CONSTANT Procs    \* who may hold the lock; never 0

VARIABLE holder   \* 0: the token is in the pipe; otherwise its holder

LockInit == holder = 0

Take(p) == holder = 0 /\ holder' = p

Give(p) == holder = p /\ holder' = 0

LockNext == \E p \in Procs : Take(p) \/ Give(p)

LockSpec == LockInit /\ [][LockNext]_holder
=============================================================================
