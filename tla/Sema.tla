-------------------------------- MODULE Sema --------------------------------
(***************************************************************************)
(* the_BigLock as coregrind/m_scheduler/sema.c builds it: a token, one     *)
(* byte, is in a pipe when the lock is free.  sema_down reads the byte and *)
(* then notes its owner; sema_up clears the owner and then writes a byte.  *)
(* Each read, write and assignment is a step of its own, a read may be     *)
(* interrupted (EINTR), and sema_char runs cyclically through A .. Z.      *)
(*                                                                         *)
(* at[p] is where LWP p is:                                                *)
(*   out     outside                    read   in read() for the token     *)
(*   got     read() returned 1          in     owns the lock               *)
(*   put     owner cleared, write next                                     *)
(*   nested  a handler for a user-sent SIGSEGV interrupted "got" or "put"  *)
(*           and is in its own sema_down (sync_signalhandler, WaitSys)     *)
(***************************************************************************)
EXTENDS Naturals, Sequences

CONSTANTS
  Lwps,          \* kernel thread ids; positive, as owner_lwpid 0 and -1 are not
  Letters,       \* length of the cycle of sema_char: 26 in the code
  SyncSignals    \* may a process send SIGSEGV to a waiting LWP?

VARIABLES pipe, owner_lwpid, sema_char, at

vars == <<pipe, owner_lwpid, sema_char, at>>

ASSUME LwpsAssumption == Lwps \subseteq Nat \ {0} /\ Lwps # {}
ASSUME LettersAssumption == Letters \in Nat \ {0, 1}
ASSUME SyncAssumption == SyncSignals \in BOOLEAN

NoOwner == 0       \* after sema_up
Unset   == 0 - 1   \* after sema_init

Where == {"out", "read", "got", "in", "put", "nested"}

(* The letters are 1 .. Letters; the pipe starts with the first of them. *)
sema_init_state(p, o, c) == p = <<1>> /\ o = Unset /\ c = 2

next_char_runs_over(c) == c + 1

next_char(c) == IF c = Letters THEN 1 ELSE c + 1

Init ==
  /\ sema_init_state(pipe, owner_lwpid, sema_char)
  /\ at = [p \in Lwps |-> "out"]

Move(p, from, to) == at[p] = from /\ at' = [at EXCEPT ![p] = to]

Down(p) ==
  /\ Move(p, "out", "read")
  /\ UNCHANGED <<pipe, owner_lwpid, sema_char>>

ReadToken_leaves_byte(p) ==
  /\ Move(p, "read", "got")
  /\ pipe # <<>>
  /\ UNCHANGED <<pipe, owner_lwpid, sema_char>>

(* read() takes the byte; otherwise it blocks. *)
ReadToken(p) ==
  /\ Move(p, "read", "got")
  /\ pipe # <<>>
  /\ pipe' = Tail(pipe)
  /\ UNCHANGED <<owner_lwpid, sema_char>>

(* EINTR: "goto again".  The read is simply issued once more. *)
ReadInterrupted(p) == at[p] = "read" /\ UNCHANGED vars

Own(p) ==
  /\ Move(p, "got", "in")
  /\ sema_char' = next_char(sema_char)
  /\ owner_lwpid' = p
  /\ UNCHANGED pipe

Disown(p) ==
  /\ Move(p, "in", "put")
  /\ owner_lwpid' = NoOwner
  /\ UNCHANGED <<pipe, sema_char>>

WriteToken_loses_byte(p) ==
  /\ Move(p, "put", "out")
  /\ UNCHANGED <<pipe, owner_lwpid, sema_char>>

WriteToken(p) ==
  /\ Move(p, "put", "out")
  /\ pipe' = Append(pipe, sema_char)
  /\ UNCHANGED <<owner_lwpid, sema_char>>

(* sched_fork_cleanup in the child of the lock's owner, which the model    *)
(* follows: every other LWP is gone, and the semaphore is made anew and    *)
(* taken (sema_deinit, sema_init, sema_down) before anyone else exists.    *)
ForkChild(p) ==
  /\ at[p] = "in"
  /\ at' = [q \in Lwps |-> IF q = p THEN "in" ELSE "out"]
  /\ pipe' = <<>>
  /\ sema_char' = next_char(2)
  /\ owner_lwpid' = p

(* A SIGSEGV sent by kill() is never blocked here; it may find the token   *)
(* read and not yet owned, or disowned and not yet written, by a thread    *)
(* whose status is WaitSys; its handler then calls sema_down again, which  *)
(* reads from a pipe that stays empty.                                     *)
NestedDown(p) ==
  /\ SyncSignals
  /\ Move(p, "got", "nested") \/ Move(p, "put", "nested")
  /\ UNCHANGED <<pipe, owner_lwpid, sema_char>>

Next == \E p \in Lwps :
  \/ Down(p) \/ ReadToken(p) \/ ReadInterrupted(p) \/ Own(p) \/ Disown(p)
  \/ WriteToken(p) \/ ForkChild(p) \/ NestedDown(p)

Spec == Init /\ [][Next]_vars

(* An LWP finishes what it started, and a reader whose pipe has a byte     *)
(* again and again gets one (the kernel queues the readers).               *)
Fairness ==
  \A p \in Lwps : SF_vars(ReadToken(p)) /\ WF_vars(Own(p) \/ Disown(p) \/ WriteToken(p))

FairSpec == Spec /\ Fairness

-----------------------------------------------------------------------------
(* Types; above all sema_char stays a letter, which sema_down asserts of   *)
(* every byte it reads.                                                    *)
TypeOK ==
  /\ pipe \in Seq(1 .. Letters)
  /\ owner_lwpid \in Lwps \cup {NoOwner, Unset}
  /\ sema_char \in 1 .. Letters
  /\ at \in [Lwps -> Where]

(* Who has taken the token out of the pipe and not put it back. *)
Users == {p \in Lwps : at[p] \in {"got", "in", "put", "nested"}}

(* There is one token: in the pipe or with one LWP.  The assertions of     *)
(* sema_down (exactly one byte, a letter) and of sema_up (the caller owns  *)
(* the lock) follow, and so does that a read never finds a second byte.    *)
OneToken ==
  /\ Len(pipe) <= 1
  /\ pipe # <<>> <=> Users = {}
  /\ \A p, q \in Users : p = q
  /\ \A p \in Lwps : owner_lwpid = p <=> at[p] = "in"

(* Every LWP that waits for the lock gets it, unless a SIGSEGV sent by     *)
(* another process caught one between token and owner: that LWP then waits *)
(* for the token it has itself, past the assertion "can't have it already".*)
WaiterGetsToken ==
  \A p \in Lwps : at[p] = "read" ~> (at[p] # "read" \/ \E q \in Lwps : at[q] = "nested")

(* The lock the scheduler sees: held from the moment the token leaves the  *)
(* pipe until it is back.                                                  *)
holderOf == IF Users = {} THEN 0 ELSE CHOOSE p \in Users : TRUE

Lock == INSTANCE BigLock WITH Procs <- Lwps, holder <- holderOf

LockSpec == Lock!LockSpec
=============================================================================
