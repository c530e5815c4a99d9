----------------------------- MODULE Scheduler -----------------------------
(***************************************************************************)
(* Client threads of one Valgrind process and the code that runs them:     *)
(* the_BigLock and thread slots (coregrind/m_scheduler/scheduler.c),       *)
(* blocking client syscalls and what happens when a signal interrupts one  *)
(* (m_syswrap/syswrap-main.c, syscall-amd64-linux.S), SIGVGKILL, delivery  *)
(* and polling of signals (m_signals.c), and the ways a thread or the      *)
(* whole process ends (exit, exit_group, execve, SIGKILL, a fatal signal,  *)
(* fork's child; syswrap-linux.c, syswrap-generic.c, m_main.c).            *)
(*                                                                         *)
(* A step between two places where the code drops or takes the lock, or    *)
(* where a host signal can arrive, is one action.  pc[t] says where the    *)
(* LWP of slot t is:                                                       *)
(*   none      no LWP                    start     created, wants the lock *)
(*   loop      top of VG_(scheduler)     slice     timeslice over, yielded *)
(*   poll      must run VG_(poll_signals), then loop                       *)
(*   masked .. reacquire   the async route of VG_(client_syscall):         *)
(*     masked    lock dropped, host signals still blocked                  *)
(*     setup     [blksys_setup, blksys_restart), signals unblocked         *)
(*     restart   at blksys_restart: about to enter or inside the kernel    *)
(*     complete  [blksys_complete, blksys_committed)                       *)
(*     committed [blksys_committed, blksys_finished)                       *)
(*     reacquire signals blocked again, wants the lock                     *)
(*   async     in async_signalhandler, wants the lock                      *)
(*   vgkill    in sigvgkill_handler, wants the lock                        *)
(*   yield     VG_(vg_yield) after a clone, wants the lock                 *)
(*   reaptop, reap, reappoll   VG_(reap_threads) called from execve        *)
(*   zombie    VG_(exit_thread) done, slot not yet Empty                   *)
(*                                                                         *)
(* Signals are three: USR stands for an asynchronous client signal, SEGV   *)
(* for the synchronous ones (whose disposition is taken to be default),    *)
(* VGKILL for Valgrind's private SIGVGKILL.  SIGKILL appears only as the   *)
(* fatalsig that nuke_all_threads_except and do_sigkill record.            *)
(***************************************************************************)
EXTENDS Naturals, FiniteSets

CONSTANTS
  N,              \* thread slots 1 .. VG_N_THREADS-1
  Dispositions,   \* dispositions of USR the client may install
  RunLibcFreeres, \* does final_tidyup run __libc_freeres?
  MaxAsync,       \* bound: USR signals sent by the environment
  MaxSync,        \* bound: SEGV signals sent (not raised) by a process
  MaxCalls        \* bound: clone and fork calls

VARIABLES
  status, exitreason, fatalsig, lwp, sig_mask, sched_jmpbuf_valid, \* threads[]
  running_tid, holder,              \* VG_(running_tid), the_BigLock
  sci,                              \* syscallInfo[t].status.what
  scss,                             \* what the client asked for USR
  queue,                            \* sig_queue of each thread, 0: process
  pend, shared,                     \* pending in the kernel: thread, process
  pc, ip, hsig,                     \* LWP; interrupted place and signal
  schedret,                         \* reason the last thread shut down for
  outcome,                          \* "run", or how the process ended
  kernel, lastcall,                 \* history: see the properties
  sent                              \* how much of the bounds is used

threadVars == <<status, exitreason, fatalsig, lwp, sig_mask, sched_jmpbuf_valid>>
lockVars   == <<running_tid, holder>>
sigVars    == <<scss, queue, pend, shared>>
endVars    == <<schedret, outcome>>
vars == <<threadVars, lockVars, sci, sigVars, pc, ip, hsig, endVars,
          kernel, lastcall, sent>>

Tids == 1 .. N

ASSUME NAssumption == N \in Nat \ {0}
ASSUME BoundsAssumption == MaxAsync \in Nat /\ MaxSync \in Nat /\ MaxCalls \in Nat
ASSUME FreeresAssumption == RunLibcFreeres \in BOOLEAN

Handlers == {"DFL", "IGN", "fn"}

ASSUME DispositionsAssumption ==
  Dispositions # {} /\ Dispositions \subseteq [handler: Handlers, restart: BOOLEAN]

Statuses  == {"Empty", "Init", "Runnable", "WaitSys", "Yielding", "Zombie"}
Reasons   == {"None", "ExitThread", "FatalSig"}
ClientSigs == {"USR", "SEGV"}
HostSigs  == {"USR", "VGKILL"}             \* what the kernel may hold pending
Fatal     == {"none", "SIGKILL"} \cup ClientSigs
Outcomes  == {"run", "exit", "exec", "execfailed", "noslots", "panic", "SIGKILL"}
               \cup ClientSigs

Unmasked_at_loop == {"setup", "restart", "complete", "committed", "loop"}
Unmasked  == {"setup", "restart", "complete", "committed"}
WaitSysAt == {"masked", "reacquire", "async", "vgkill"} \cup Unmasked
YieldAt   == {"slice", "yield", "reap"}
LockAt    == {"loop", "poll", "reaptop", "reappoll"}
Places    == {"none", "start", "zombie"} \cup WaitSysAt \cup YieldAt \cup LockAt

NoCall == [guest |-> "none", kernel |-> FALSE, post |-> FALSE]
Calls  == [guest: {"none", "result", "EINTR", "restart", "lost"},
           kernel: BOOLEAN, post: BOOLEAN]

Lock == INSTANCE BigLock WITH Procs <- Tids

-----------------------------------------------------------------------------
(* m_threadstate.c *)

is_exiting(t) == exitreason[t] # "None"

living == {u \in Tids : status[u] \notin {"Empty", "Zombie"}}

i_am_the_only_runnable == Cardinality({u \in Tids : status[u] = "Runnable"}) = 1

i_am_the_only_thread == Cardinality(living) = 1

(* The lock and the slots: scheduler.c *)

acquire_without_sema_down(t) ==
  /\ holder' = t
  /\ status' = [status EXCEPT ![t] = "Runnable"]
  /\ running_tid' = t

acquire_BigLock(t) ==
  /\ Lock!Take(t)
  /\ status' = [status EXCEPT ![t] = "Runnable"]
  /\ running_tid' = t

release_BigLock(t, sleepstate) ==
  /\ status' = [status EXCEPT ![t] = sleepstate]
  /\ running_tid' = 0
  /\ Lock!Give(t)

mostly_clear_to_Empty(t) ==
  /\ status' = [status EXCEPT ![t] = "Empty"]
  /\ lwp' = [lwp EXCEPT ![t] = FALSE]
  /\ sig_mask' = [sig_mask EXCEPT ![t] = {}]
  /\ queue' = [queue EXCEPT ![t] = {}]
  /\ sched_jmpbuf_valid' = [sched_jmpbuf_valid EXCEPT ![t] = FALSE]

mostly_clear_thread_record(t) ==
  /\ status' = [status EXCEPT ![t] = "Zombie"]
  /\ lwp' = [lwp EXCEPT ![t] = FALSE]
  /\ sig_mask' = [sig_mask EXCEPT ![t] = {}]
  /\ queue' = [queue EXCEPT ![t] = {}]
  /\ sched_jmpbuf_valid' = [sched_jmpbuf_valid EXCEPT ![t] = FALSE]

exit_thread_without_sema_up(t) ==
  /\ mostly_clear_thread_record(t)
  /\ running_tid' = 0
  /\ UNCHANGED holder

exit_thread(t) ==
  /\ mostly_clear_thread_record(t)
  /\ running_tid' = 0
  /\ Lock!Give(t)

Goto(t, place) == pc' = [pc EXCEPT ![t] = place]

zapped_nobody(p, us) == p

zapped_everybody(p, us) ==
  [u \in Tids |-> IF status[u] = "WaitSys" THEN p[u] \cup {"VGKILL"} ELSE p[u]]

(* SIGVGKILL for everybody in us who is inside a syscall. *)
zapped(p, us) ==
  [u \in Tids |-> IF u \in us /\ status[u] = "WaitSys"
                  THEN p[u] \cup {"VGKILL"} ELSE p[u]]

nuked(t) == {u \in Tids \ {t} : status[u] # "Empty"}

(* get_thread_out_of_syscall asserts that its argument still is a valid   *)
(* slot; a Zombie may become Empty, without the lock, after the caller's  *)
(* own test of status, and the assertion then fails.                      *)
nuke_outcome(t) ==
  outcome' \in {"run"} \cup {"panic" : u \in {v \in nuked(t) : status[v] = "Zombie"}}

-----------------------------------------------------------------------------
(* Delivering signals: m_signals.c.  p is pend after the signal was taken. *)

default_action_only_marks_others(t, s, p) ==
  /\ exitreason' = [u \in Tids |-> IF u \in nuked(t) \cup {t} THEN "FatalSig"
                                   ELSE exitreason[u]]
  /\ fatalsig' = [fatalsig EXCEPT ![t] = s]
  /\ pend' = zapped(p, nuked(t))
  /\ nuke_outcome(t)
  /\ UNCHANGED sig_mask

default_action(t, s, p) ==
  /\ exitreason' = [u \in Tids |-> IF u \in nuked(t) \cup {t} THEN "FatalSig"
                                   ELSE exitreason[u]]
  /\ fatalsig' = [u \in Tids |-> IF u = t THEN s
                                 ELSE IF u \in nuked(t) THEN "SIGKILL"
                                 ELSE fatalsig[u]]
  /\ pend' = zapped(p, nuked(t))
  /\ nuke_outcome(t)
  /\ UNCHANGED sig_mask

enter_handler(t, s, p) ==
  /\ sig_mask' = [sig_mask EXCEPT ![t] = @ \cup {s}]
  /\ pend' = p
  /\ UNCHANGED <<exitreason, fatalsig, outcome>>

no_delivery(p) ==
  pend' = p /\ UNCHANGED <<exitreason, fatalsig, outcome, sig_mask>>

is_sig_ign(s) == s = "USR" /\ scss.handler = "IGN"

deliver_signal(t, s, p) ==
  CASE s = "VGKILL" -> no_delivery(p)
    [] s = "USR" /\ scss.handler = "fn" -> enter_handler(t, s, p)
    [] OTHER -> default_action(t, s, p)

(* deliver_signal unless the client ignores the signal *)
deliver_unless_ignored(t, s, p) ==
  IF is_sig_ign(s) THEN no_delivery(p) ELSE deliver_signal(t, s, p)

-----------------------------------------------------------------------------
(* Life of a thread: thread_wrapper, VG_(scheduler), run_a_thread_NORETURN *)

Here(t, place) == outcome = "run" /\ pc[t] = place

(* Client code runs only in the scheduler loop, not marked to exit. *)
Client(t) == Here(t, "loop") /\ ~is_exiting(t)

StartThread(t) ==
  /\ Here(t, "start")
  /\ acquire_BigLock(t)
  /\ lwp' = [lwp EXCEPT ![t] = TRUE]
  /\ Goto(t, "loop")
  /\ UNCHANGED <<exitreason, fatalsig, sig_mask, sched_jmpbuf_valid, sci,
                 sigVars, ip, hsig, endVars, kernel, lastcall, sent>>

EndTimeslice(t) ==
  /\ Client(t)
  /\ release_BigLock(t, "Yielding")
  /\ Goto(t, "slice")
  /\ lastcall' = NoCall
  /\ UNCHANGED <<exitreason, fatalsig, lwp, sig_mask, sched_jmpbuf_valid, sci,
                 sigVars, ip, hsig, endVars, kernel, sent>>

NextTimeslice(t) ==
  /\ Here(t, "slice")
  /\ acquire_BigLock(t)
  /\ Goto(t, "poll")
  /\ UNCHANGED <<exitreason, fatalsig, lwp, sig_mask, sched_jmpbuf_valid, sci,
                 sigVars, ip, hsig, endVars, kernel, lastcall, sent>>

next_queued(q, t) == queue[q] \ sig_mask[t]

from_queue(q, t) ==
  \E s \in next_queued(q, t) :
    /\ queue' = [queue EXCEPT ![q] = @ \ {s}]
    /\ deliver_unless_ignored(t, s, pend)
    /\ UNCHANGED shared

(* sigtimedwait: from the thread's pending signals, then the process's. *)
from_kernel(t) ==
  \E s \in (pend[t] \cup shared) \ sig_mask[t] :
    /\ deliver_unless_ignored(t, s, [pend EXCEPT ![t] = @ \ {s}])
    /\ shared' = IF s \in pend[t] THEN shared ELSE shared \ {s}
    /\ UNCHANGED queue

(* The thread's queue first, then the process's, then the kernel. *)
poll_signals(t) ==
  \/ from_queue(t, t)
  \/ next_queued(t, t) = {} /\ from_queue(0, t)
  \/ next_queued(t, t) = {} /\ next_queued(0, t) = {} /\ from_kernel(t)
  \/ /\ next_queued(t, t) = {} /\ next_queued(0, t) = {}
     /\ (pend[t] \cup shared) \subseteq sig_mask[t]
     /\ no_delivery(pend)
     /\ UNCHANGED <<queue, shared>>

PollSignals(t) ==
  /\ \/ Here(t, "poll")     /\ Goto(t, "loop")
     \/ Here(t, "reappoll") /\ Goto(t, "reaptop")
  /\ poll_signals(t)
  /\ UNCHANGED <<status, lwp, sched_jmpbuf_valid, lockVars, sci, scss, ip, hsig,
                 schedret, kernel, lastcall, sent>>

(* A thread whose VG_(scheduler) returned while others live: exit_thread.  *)
ThreadExit(t) ==
  /\ Here(t, "loop") /\ is_exiting(t) /\ ~i_am_the_only_thread
  /\ exit_thread(t)
  /\ Goto(t, "zombie")
  /\ lastcall' = NoCall
  /\ UNCHANGED <<exitreason, fatalsig, sci, scss, pend, shared, ip, hsig,
                 endVars, kernel, sent>>

(* The assembly at the end of run_a_thread_NORETURN, without the lock. *)
LwpGone(t) ==
  /\ Here(t, "zombie")
  /\ status' = [status EXCEPT ![t] = "Empty"]
  /\ pend' = [pend EXCEPT ![t] = {}]
  /\ Goto(t, "none")
  /\ UNCHANGED <<exitreason, fatalsig, lwp, sig_mask, sched_jmpbuf_valid,
                 lockVars, sci, scss, queue, shared, ip, hsig, endVars, kernel,
                 lastcall, sent>>

Ending_by_signal(t, why) == fatalsig[t]

Ending(t, why) == IF why = "FatalSig" THEN fatalsig[t] ELSE "exit"

(* Everything blocked, the mark taken back, the scheduler entered again.   *)
final_tidyup(t) ==
  /\ sig_mask' = [sig_mask EXCEPT ![t] = HostSigs]
  /\ exitreason' = [exitreason EXCEPT ![t] = "None"]

(* The last one standing: shutdown_actions_NORETURN up to final_tidyup,    *)
(* which may send the thread back into the scheduler to run libc_freeres.  *)
Shutdown(t) ==
  /\ Here(t, "loop") /\ is_exiting(t) /\ i_am_the_only_thread
  /\ schedret = "None"
  /\ schedret' = exitreason[t]
  /\ IF RunLibcFreeres
     THEN final_tidyup(t) /\ UNCHANGED <<status, outcome>>
     ELSE /\ status' = [status EXCEPT ![t] = "Empty"]
          /\ outcome' = Ending(t, exitreason[t])
          /\ UNCHANGED <<sig_mask, exitreason>>
  /\ lastcall' = NoCall
  /\ UNCHANGED <<fatalsig, lwp, sched_jmpbuf_valid, lockVars, sci, sigVars, pc,
                 ip, hsig, kernel, sent>>

(* Back from the scheduler run that final_tidyup started. *)
Terminate(t) ==
  /\ Here(t, "loop") /\ is_exiting(t) /\ schedret # "None"
  /\ i_am_the_only_thread
  /\ status' = [status EXCEPT ![t] = "Empty"]
  /\ outcome' = Ending(t, schedret)
  /\ UNCHANGED <<exitreason, fatalsig, lwp, sig_mask, sched_jmpbuf_valid,
                 lockVars, sci, sigVars, pc, ip, hsig, schedret,
                 kernel, lastcall, sent>>

-----------------------------------------------------------------------------
(* Client syscalls that run under the lock.  Each is VG_(client_syscall)   *)
(* from the SsIdle test to VG_(post_syscall).                              *)

(* A fault in generated code whose disposition is the default one. *)
Fault(t) ==
  /\ Client(t)
  /\ default_action(t, "SEGV", pend)
  /\ lastcall' = NoCall
  /\ UNCHANGED <<status, lwp, sched_jmpbuf_valid, lockVars, sci, scss, queue,
                 shared, pc, ip, hsig, schedret, kernel, sent>>

(* Any syscall that asks for SfPollAfter and changes nothing else here.   *)
SyncSyscall(t) ==
  /\ Client(t)
  /\ Goto(t, "poll")
  /\ lastcall' = NoCall
  /\ UNCHANGED <<threadVars, lockVars, sci, sigVars, ip, hsig, endVars, kernel,
                 sent>>

(* Setting SIG_IGN makes the kernel drop what was pending. *)
SysSigaction(t, d) ==
  /\ Client(t)
  /\ scss # d
  /\ scss' = d
  /\ IF d.handler = "IGN"
     THEN /\ pend' = [u \in Tids |-> pend[u] \ {"USR"}]
          /\ shared' = shared \ {"USR"}
     ELSE UNCHANGED <<pend, shared>>
  /\ lastcall' = NoCall
  /\ UNCHANGED <<threadVars, lockVars, sci, queue, pc, ip, hsig, endVars,
                 kernel, sent>>

SysRtSigreturn(t) ==
  /\ Client(t)
  /\ sig_mask[t] = {"USR"}
  /\ sig_mask' = [sig_mask EXCEPT ![t] = {}]
  /\ Goto(t, "poll")
  /\ lastcall' = NoCall
  /\ UNCHANGED <<status, exitreason, fatalsig, lwp, sched_jmpbuf_valid, lockVars,
                 sci, sigVars, ip, hsig, endVars, kernel, sent>>

SysExit(t) ==
  /\ Client(t)
  /\ exitreason' = [exitreason EXCEPT ![t] = "ExitThread"]
  /\ lastcall' = NoCall
  /\ UNCHANGED <<status, fatalsig, lwp, sig_mask, sched_jmpbuf_valid, lockVars,
                 sci, sigVars, pc, ip, hsig, endVars, kernel, sent>>

(* threadgroup, like lwpid, is 0 until the new thread gets the lock. *)
same_group(t) == {u \in Tids : status[u] # "Empty" /\ lwp[u] = lwp[t]}

SysExitGroup(t) ==
  /\ Client(t)
  /\ exitreason' = [u \in Tids |-> IF u \in same_group(t) THEN "ExitThread"
                                   ELSE exitreason[u]]
  /\ pend' = zapped(pend, same_group(t) \ {t})
  /\ lastcall' = NoCall
  /\ UNCHANGED <<status, fatalsig, lwp, sig_mask, sched_jmpbuf_valid, lockVars,
                 sci, scss, queue, shared, pc, ip, hsig, endVars, kernel, sent>>

(* kill/tkill/tgkill with SIGKILL for one of our own threads: do_sigkill.  *)
SysSigkill(t, u) ==
  /\ Client(t)
  /\ lwp[u] /\ status[u] # "Empty"
  /\ IF is_exiting(u) THEN UNCHANGED <<exitreason, fatalsig, pend>>
     ELSE /\ exitreason' = [exitreason EXCEPT ![u] = "FatalSig"]
          /\ fatalsig' = [fatalsig EXCEPT ![u] = "SIGKILL"]
          /\ pend' = zapped(pend, {u})
  /\ Goto(t, "poll")
  /\ lastcall' = NoCall
  /\ UNCHANGED <<status, lwp, sig_mask, sched_jmpbuf_valid, lockVars, sci, scss,
                 queue, shared, ip, hsig, schedret, outcome, kernel, sent>>

empty_or_zombie_slots == {u \in Tids : status[u] \in {"Empty", "Zombie"}}

empty_slots == {u \in Tids : status[u] = "Empty"}

(* c is the slot alloc_ThreadState hands out. *)
alloc_ThreadState(c) == c \in empty_slots /\ \A v \in empty_slots : c <= v

(* __libc_freeres starts no thread, process or program. *)
Spawns(t) == Client(t) /\ schedret = "None"

(* do_clone, then the yield that a successful clone asks for. *)
SysClone(t) ==
  /\ Spawns(t) /\ sent.calls < MaxCalls
  /\ \E c \in Tids :
       /\ alloc_ThreadState(c)
       /\ status' = [status EXCEPT ![c] = "Init", ![t] = "Yielding"]
       /\ exitreason' = [exitreason EXCEPT ![c] = "None"]
       /\ sig_mask' = [sig_mask EXCEPT ![c] = sig_mask[t]]
       /\ pc' = [pc EXCEPT ![c] = "start", ![t] = "yield"]
  /\ sched_jmpbuf_valid' = [sched_jmpbuf_valid EXCEPT ![t] = TRUE]
  /\ running_tid' = 0
  /\ Lock!Give(t)
  /\ sent' = [sent EXCEPT !.calls = @ + 1]
  /\ lastcall' = NoCall
  /\ UNCHANGED <<fatalsig, lwp, sci, sigVars, ip, hsig, endVars, kernel>>

(* No stack or no LWP: the slot is Empty again, with its exitreason reset. *)
SysCloneFails(t) ==
  /\ Spawns(t) /\ sent.calls < MaxCalls
  /\ \E c \in Tids :
       /\ alloc_ThreadState(c)
       /\ exitreason' = [exitreason EXCEPT ![c] = "None"]
       /\ sig_mask' \in {sig_mask, [sig_mask EXCEPT ![c] = sig_mask[t]]}
  /\ sent' = [sent EXCEPT !.calls = @ + 1]
  /\ lastcall' = NoCall
  /\ UNCHANGED <<status, fatalsig, lwp, sched_jmpbuf_valid, lockVars, sci,
                 sigVars, pc, ip, hsig, endVars, kernel>>

SysCloneNoSlot(t) ==
  /\ Spawns(t) /\ sent.calls < MaxCalls
  /\ empty_slots = {}
  /\ outcome' = "noslots"
  /\ UNCHANGED <<threadVars, lockVars, sci, sigVars, pc, ip, hsig, schedret,
                 kernel, lastcall, sent>>

(* vg_yield on behalf of post_syscall: back in the scheduler loop. *)
YieldDone(t) ==
  /\ Here(t, "yield")
  /\ acquire_BigLock(t)
  /\ sched_jmpbuf_valid' = [sched_jmpbuf_valid EXCEPT ![t] = FALSE]
  /\ Goto(t, "loop")
  /\ UNCHANGED <<exitreason, fatalsig, lwp, sig_mask, sci, sigVars, ip, hsig,
                 endVars, kernel, lastcall, sent>>

Only(t, f, v) == [u \in Tids |-> IF u = t THEN f[u] ELSE v]

(* The model follows the child: sched_fork_cleanup empties every other     *)
(* slot and makes a new semaphore, and the kernel gives it no pending      *)
(* signals.  The parent's side of a fork changes nothing, and a yield      *)
(* after the fork finds nobody to yield to.                                *)
SysFork(t) ==
  /\ Spawns(t) /\ sent.calls < MaxCalls
  /\ status' = Only(t, status, "Empty")
  /\ lwp' = [u \in Tids |-> IF u = t THEN TRUE ELSE FALSE]
  /\ sig_mask' = Only(t, sig_mask, {})
  /\ queue' = [q \in 0 .. N |-> IF q \in {0, t} THEN queue[q] ELSE {}]
  /\ sched_jmpbuf_valid' = Only(t, sched_jmpbuf_valid, FALSE)
  /\ sci' = Only(t, sci, "Idle")
  /\ pc' = Only(t, pc, "none")
  /\ ip' = Only(t, ip, "none")
  /\ hsig' = Only(t, hsig, "none")
  /\ kernel' = Only(t, kernel, FALSE)
  /\ pend' = [u \in Tids |-> {}] /\ shared' = {}
  /\ holder' = t
  /\ sent' = [sent EXCEPT !.calls = @ + 1]
  /\ lastcall' = NoCall
  /\ UNCHANGED <<exitreason, fatalsig, running_tid, scss, endVars>>

(* PRE(sys_execve): everybody else is told to exit, then reap_threads. *)
SysExecve(t) ==
  /\ Spawns(t)
  /\ exitreason' = [u \in Tids |-> IF u \in nuked(t) THEN "ExitThread"
                                   ELSE exitreason[u]]
  /\ pend' = zapped(pend, nuked(t))
  /\ nuke_outcome(t)
  /\ sci' = [sci EXCEPT ![t] = "HandToKernel"]
  /\ sched_jmpbuf_valid' = [sched_jmpbuf_valid EXCEPT ![t] = TRUE]
  /\ Goto(t, "reaptop")
  /\ lastcall' = NoCall
  /\ UNCHANGED <<status, fatalsig, lwp, sig_mask, lockVars, scss, queue, shared,
                 ip, hsig, schedret, kernel, sent>>

ReapYield(t) ==
  /\ Here(t, "reaptop") /\ ~i_am_the_only_thread
  /\ release_BigLock(t, "Yielding")
  /\ Goto(t, "reap")
  /\ UNCHANGED <<exitreason, fatalsig, lwp, sig_mask, sched_jmpbuf_valid, sci,
                 sigVars, ip, hsig, endVars, kernel, lastcall, sent>>

ReapResume(t) ==
  /\ Here(t, "reap")
  /\ acquire_BigLock(t)
  /\ Goto(t, "reappoll")
  /\ UNCHANGED <<exitreason, fatalsig, lwp, sig_mask, sched_jmpbuf_valid, sci,
                 sigVars, ip, hsig, endVars, kernel, lastcall, sent>>

(* The kernel replaces the program, or refuses and Valgrind gives up. *)
Exec(t) ==
  /\ Here(t, "reaptop") /\ i_am_the_only_thread
  /\ outcome' \in {"exec", "execfailed"}
  /\ UNCHANGED <<threadVars, lockVars, sci, sigVars, pc, ip, hsig, schedret,
                 kernel, lastcall, sent>>

-----------------------------------------------------------------------------
(* A syscall that may block: VG_(client_syscall)[async] and                *)
(* do_syscall_for_client.  sci must be Idle here; see SyscallStartsIdle.   *)

SyscallAsync(t) ==
  /\ Client(t)
  /\ sci' = [sci EXCEPT ![t] = "HandToKernel"]
  /\ sched_jmpbuf_valid' = [sched_jmpbuf_valid EXCEPT ![t] = TRUE]
  /\ release_BigLock(t, "WaitSys")
  /\ Goto(t, "masked")
  /\ kernel' = [kernel EXCEPT ![t] = FALSE]
  /\ lastcall' = NoCall
  /\ UNCHANGED <<exitreason, fatalsig, lwp, sig_mask, sigVars, ip, hsig,
                 endVars, sent>>

(* The LWP moves from one place of do_syscall_for_client_WRK to the next. *)
AsmStep(t, from, to) ==
  /\ Here(t, from)
  /\ Goto(t, to)
  /\ UNCHANGED <<threadVars, lockVars, sci, sigVars, ip, hsig, endVars,
                 lastcall, sent>>

UnblockSignals(t) == AsmStep(t, "masked", "setup") /\ UNCHANGED kernel

LoadArguments(t) == AsmStep(t, "setup", "restart") /\ UNCHANGED kernel

KernelCompletes(t) ==
  AsmStep(t, "restart", "complete") /\ kernel' = [kernel EXCEPT ![t] = TRUE]

CommitResult(t) == AsmStep(t, "complete", "committed") /\ UNCHANGED kernel

ReblockSignals(t) == AsmStep(t, "committed", "reacquire") /\ UNCHANGED kernel

(* Lock regained, result in the guest state, post_syscall run; SfPollAfter *)
(* may be set.                                                             *)
SyscallDone(t) ==
  /\ Here(t, "reacquire")
  /\ acquire_BigLock(t)
  /\ sci' = [sci EXCEPT ![t] = "Idle"]
  /\ sched_jmpbuf_valid' = [sched_jmpbuf_valid EXCEPT ![t] = FALSE]
  /\ \/ Goto(t, "loop")
     \/ Goto(t, "poll")
  /\ lastcall' = [guest |-> "result", kernel |-> kernel[t], post |-> TRUE]
  /\ UNCHANGED <<exitreason, fatalsig, lwp, sig_mask, sigVars, ip, hsig,
                 endVars, kernel, sent>>

-----------------------------------------------------------------------------
(* Host signals *)

(* USR reaches an LWP that is inside a syscall and does not block it. *)
SignalArrives(t) ==
  /\ outcome = "run" /\ pc[t] \in Unmasked
  /\ "USR" \in (pend[t] \cup shared) \ sig_mask[t]
  /\ IF "USR" \in pend[t]
     THEN pend' = [pend EXCEPT ![t] = @ \ {"USR"}] /\ UNCHANGED shared
     ELSE shared' = shared \ {"USR"} /\ UNCHANGED pend
  /\ hsig' = [hsig EXCEPT ![t] = "USR"]
  /\ ip' = [ip EXCEPT ![t] = pc[t]]
  /\ Goto(t, "async")
  /\ UNCHANGED <<threadVars, lockVars, sci, scss, queue, endVars, kernel,
                 lastcall, sent>>

(* SIGVGKILL does; no client mask blocks it (sanitize_client_sigmask).    *)
VgkillArrives(t) ==
  /\ outcome = "run" /\ pc[t] \in Unmasked
  /\ "VGKILL" \in pend[t]
  /\ pend' = [pend EXCEPT ![t] = @ \ {"VGKILL"}]
  /\ hsig' = [hsig EXCEPT ![t] = "VGKILL"]
  /\ ip' = [ip EXCEPT ![t] = pc[t]]
  /\ Goto(t, "vgkill")
  /\ UNCHANGED <<threadVars, lockVars, sci, scss, queue, shared, endVars, kernel,
                 lastcall, sent>>

Fixup_restarts_completed(where, restart, done) ==
  [guest |-> IF where \in {"setup", "restart", "complete"} THEN "restart" ELSE "result",
   kernel |-> done, post |-> FALSE]

(* fixup_guest_state_after_syscall_interrupted: the guest's view of the    *)
(* call, and whether the wrapper's post handler ran.  Outside the assembly *)
(* nothing is fixed up.                                                    *)
Fixup(where, restart, done) ==
  CASE where = "setup" -> [guest |-> "restart", kernel |-> done, post |-> FALSE]
    [] where = "restart" ->
         [guest |-> IF restart THEN "restart" ELSE "EINTR", kernel |-> done, post |-> FALSE]
    [] where = "complete" -> [guest |-> "result", kernel |-> done, post |-> TRUE]
    [] where \in {"committed", "reacquire"} ->
         [guest |-> "result", kernel |-> done, post |-> FALSE]
    [] OTHER -> [guest |-> "lost", kernel |-> done, post |-> FALSE]

FixedUp_unless_restarted(where) == where \in Unmasked \ {"setup"}

(* ... and every such call is over, but for one that was not fixed up. *)
FixedUp(where) == where \in Unmasked

AsyncHandler(t) ==
  /\ Here(t, "async")
  /\ acquire_BigLock(t)
  /\ lastcall' = Fixup(ip[t], scss.restart /\ hsig[t] = "USR", kernel[t])
  /\ sci' = IF FixedUp(ip[t]) THEN [sci EXCEPT ![t] = "Idle"] ELSE sci
  /\ deliver_unless_ignored(t, hsig[t], pend)
  /\ sched_jmpbuf_valid' = [sched_jmpbuf_valid EXCEPT ![t] = FALSE]
  /\ Goto(t, "poll")
  /\ ip' = [ip EXCEPT ![t] = "none"]
  /\ hsig' = [hsig EXCEPT ![t] = "none"]
  /\ UNCHANGED <<lwp, scss, queue, shared, schedret, kernel, sent>>

(* sigvgkill_handler drops the call: post_syscall finds HandToKernel. *)
VgkillHandler(t) ==
  /\ Here(t, "vgkill")
  /\ acquire_BigLock(t)
  /\ sci' = [sci EXCEPT ![t] = "Idle"]
  /\ sched_jmpbuf_valid' = [sched_jmpbuf_valid EXCEPT ![t] = FALSE]
  /\ lastcall' = [guest |-> IF ip[t] = "committed" THEN "result" ELSE "lost",
                  kernel |-> kernel[t], post |-> FALSE]
  /\ Goto(t, "poll")
  /\ ip' = [ip EXCEPT ![t] = "none"]
  /\ hsig' = [hsig EXCEPT ![t] = "none"]
  /\ UNCHANGED <<exitreason, fatalsig, lwp, sig_mask, sigVars, endVars, kernel,
                 sent>>

(* The environment: somebody sends USR to a thread or to the process.  The *)
(* kernel drops a signal that is ignored.                                  *)
SendSignal ==
  /\ outcome = "run" /\ sent.async < MaxAsync
  /\ scss.handler # "IGN"
  /\ \/ \E t \in Tids : pc[t] # "none"
          /\ pend' = [pend EXCEPT ![t] = @ \cup {"USR"}] /\ UNCHANGED shared
     \/ shared' = shared \cup {"USR"} /\ UNCHANGED pend
  /\ sent' = [sent EXCEPT !.async = @ + 1]
  /\ UNCHANGED <<threadVars, lockVars, sci, scss, queue, pc, ip, hsig, endVars,
                 kernel, lastcall>>

(* A process sends SEGV: every thread has it unblocked but in a handler or *)
(* before it first runs, so it arrives at once.  sync_signalhandler hands  *)
(* it to async_signalhandler if the thread's status is WaitSys, otherwise  *)
(* queues it for the thread or (not sent by tkill) for the process.  In    *)
(* "masked" the host may or may not have reached blksys_setup yet.         *)
UserSendsSync(t) ==
  /\ outcome = "run" /\ sent.sync < MaxSync
  /\ pc[t] \notin {"none", "start", "async", "vgkill"}
  /\ IF status[t] = "WaitSys"
     THEN /\ \/ ip' = [ip EXCEPT ![t] = pc[t]]
             \/ pc[t] = "masked" /\ ip' = [ip EXCEPT ![t] = "setup"]
          /\ hsig' = [hsig EXCEPT ![t] = "SEGV"]
          /\ Goto(t, "async")
          /\ UNCHANGED queue
     ELSE /\ \E q \in (IF lwp[t] THEN {t, 0} ELSE {0}) :
               queue' = [queue EXCEPT ![q] = @ \cup {"SEGV"}]
          /\ UNCHANGED <<ip, hsig, pc>>
  /\ sent' = [sent EXCEPT !.sync = @ + 1]
  /\ UNCHANGED <<threadVars, lockVars, sci, scss, pend, shared, endVars, kernel,
                 lastcall>>

(* The process is gone. *)
Terminated == outcome # "run" /\ UNCHANGED vars

-----------------------------------------------------------------------------
(* The main thread is about to start, alone. *)
Init ==
  /\ status = [t \in Tids |-> IF t = 1 THEN "Init" ELSE "Empty"]
  /\ exitreason = [t \in Tids |-> "None"]
  /\ fatalsig = [t \in Tids |-> "none"]
  /\ lwp = [t \in Tids |-> FALSE]
  /\ sig_mask = [t \in Tids |-> {}]
  /\ sched_jmpbuf_valid = [t \in Tids |-> FALSE]
  /\ running_tid = 0
  /\ Lock!LockInit
  /\ sci = [t \in Tids |-> "Idle"]
  /\ scss \in Dispositions
  /\ queue = [q \in 0 .. N |-> {}]
  /\ pend = [t \in Tids |-> {}]
  /\ shared = {}
  /\ pc = [t \in Tids |-> IF t = 1 THEN "start" ELSE "none"]
  /\ ip = [t \in Tids |-> "none"]
  /\ hsig = [t \in Tids |-> "none"]
  /\ schedret = "None"
  /\ outcome = "run"
  /\ kernel = [t \in Tids |-> FALSE]
  /\ lastcall = NoCall
  /\ sent = [async |-> 0, sync |-> 0, calls |-> 0]

ThreadStep(t) ==
  \/ StartThread(t) \/ EndTimeslice(t) \/ NextTimeslice(t) \/ PollSignals(t)
  \/ ThreadExit(t) \/ LwpGone(t) \/ Shutdown(t) \/ Terminate(t)

ClientStep(t) ==
  \/ Fault(t) \/ SyncSyscall(t) \/ SysRtSigreturn(t)
  \/ \E d \in Dispositions : SysSigaction(t, d)
  \/ SysExit(t) \/ SysExitGroup(t)
  \/ \E u \in Tids : SysSigkill(t, u)
  \/ SysClone(t) \/ SysCloneFails(t) \/ SysCloneNoSlot(t) \/ SysFork(t)
  \/ SysExecve(t) \/ SyscallAsync(t)

WaitStep(t) ==
  \/ YieldDone(t) \/ ReapYield(t) \/ ReapResume(t) \/ Exec(t)
  \/ UnblockSignals(t) \/ LoadArguments(t) \/ KernelCompletes(t)
  \/ CommitResult(t) \/ ReblockSignals(t) \/ SyscallDone(t)

SignalStep(t) ==
  \/ SignalArrives(t) \/ VgkillArrives(t) \/ AsyncHandler(t) \/ VgkillHandler(t)
  \/ UserSendsSync(t)

Next ==
  \/ \E t \in Tids : ThreadStep(t) \/ ClientStep(t) \/ WaitStep(t) \/ SignalStep(t)
  \/ SendSignal
  \/ Terminated

Spec == Init /\ [][Next]_vars

-----------------------------------------------------------------------------
(* Fairness.  A thread that holds the lock goes on; the kernel runs every   *)
(* LWP and delivers SIGVGKILL to one that does not block it; and a thread   *)
(* that wants the lock gets it, if it is free again and again (the readers  *)
(* of the pipe queue in the kernel).  dispatch_ctr, which only a new slice  *)
(* sets back, makes every timeslice end.  Nothing is assumed of the client, *)
(* of blocking syscalls or of whoever sends signals.                        *)
GetsLock(t) ==
  \/ StartThread(t) \/ NextTimeslice(t) \/ YieldDone(t) \/ ReapResume(t)
  \/ SyscallDone(t) \/ AsyncHandler(t) \/ VgkillHandler(t)

GoesOn(t) ==
  \/ PollSignals(t) \/ ThreadExit(t) \/ LwpGone(t) \/ Shutdown(t) \/ Terminate(t)
  \/ ReapYield(t) \/ Exec(t)
  \/ UnblockSignals(t) \/ LoadArguments(t) \/ CommitResult(t) \/ ReblockSignals(t)
  \/ VgkillArrives(t)

Fairness ==
  \A t \in Tids :
    SF_vars(GetsLock(t)) /\ SF_vars(EndTimeslice(t)) /\ WF_vars(GoesOn(t))

FairSpec == Spec /\ Fairness

-----------------------------------------------------------------------------
(* Type correctness of the thread table, the lock, the pending signals and *)
(* the control state.                                                      *)
TypeOK ==
  /\ status \in [Tids -> Statuses]
  /\ exitreason \in [Tids -> Reasons]
  /\ fatalsig \in [Tids -> Fatal]
  /\ lwp \in [Tids -> BOOLEAN]
  /\ sig_mask \in [Tids -> SUBSET HostSigs]
  /\ sched_jmpbuf_valid \in [Tids -> BOOLEAN]
  /\ running_tid \in Tids \cup {0}
  /\ holder \in Tids \cup {0}
  /\ sci \in [Tids -> {"Idle", "HandToKernel"}]
  /\ scss \in [handler: Handlers, restart: BOOLEAN]
  /\ queue \in [0 .. N -> SUBSET {"SEGV"}]
  /\ pend \in [Tids -> SUBSET HostSigs]
  /\ shared \in SUBSET {"USR"}
  /\ pc \in [Tids -> Places]
  /\ ip \in [Tids -> Places]
  /\ hsig \in [Tids -> {"none"} \cup ClientSigs \cup HostSigs]
  /\ schedret \in Reasons
  /\ outcome \in Outcomes
  /\ kernel \in [Tids -> BOOLEAN]
  /\ lastcall \in Calls
  /\ sent \in [async: 0 .. MaxAsync, sync: 0 .. MaxSync, calls: 0 .. MaxCalls]

(* One virtual CPU: a thread is Runnable exactly while its own LWP holds   *)
(* the_BigLock and is VG_(running_tid), so no two threads are Runnable at  *)
(* once, and every vg_assert in acquire_BigLock, release_BigLock and       *)
(* exit_thread (scheduler.c) holds.                                        *)
OneRunner ==
  outcome = "run" =>
    /\ running_tid = holder
    /\ \A t \in Tids : status[t] = "Runnable" <=> holder = t

(* shutdown_actions_NORETURN asserts fatalsig != 0 before it kills the     *)
(* process with it: whoever exits for a fatal signal has its number, also  *)
(* when the mark was taken back by final_tidyup and set again.             *)
FatalSignalKnown ==
  outcome = "run" =>
    \A t \in Tids :
      exitreason[t] = "FatalSig" \/ (schedret = "FatalSig" /\ t \in living)
        => fatalsig[t] # "none"

(* A slot that alloc_ThreadState may hand out (Empty) has no LWP left that *)
(* could still be using its stack, and carries over no signal: the reason  *)
(* exit_thread leaves a Zombie behind (syswrap-linux.c).                   *)
EmptySlotIsUnused ==
  outcome = "run" =>
    \A t \in Tids : status[t] = "Empty" => pc[t] = "none" /\ pend[t] = {} /\ ~lwp[t]

(* What async_signalhandler, sigvgkill_handler, resume_scheduler and       *)
(* fixup_guest_state_after_syscall_interrupted assert when a signal lands: *)
(* the thread waits in a syscall it started, lwpid_to_vgtid finds it, and  *)
(* there is a scheduler to jump back to.                                   *)
HandlerFindsSyscall ==
  outcome = "run" =>
    \A t \in Tids : pc[t] \in {"async", "vgkill"} =>
      /\ status[t] = "WaitSys"
      /\ lwp[t]
      /\ sci[t] # "Idle"
      /\ sched_jmpbuf_valid[t]

(* client_syscall asserts that the previous call's record is SsIdle and    *)
(* SCHEDSETJMP that no jump buffer is live, whatever interrupted the       *)
(* previous call, short of a SIGSEGV sent by another process.              *)
SyscallStartsIdle ==
  sent.sync = 0 => \A t \in Tids : Client(t) => sci[t] = "Idle" /\ ~sched_jmpbuf_valid[t]

(* An interrupted call takes effect exactly once: the guest is told to     *)
(* restart it, or that it failed with EINTR, only if the kernel did not    *)
(* complete it, and is given a result only if the kernel did.              *)
ExactlyOnce ==
  /\ lastcall.guest \in {"restart", "EINTR"} => ~lastcall.kernel
  /\ lastcall.guest = "result" => lastcall.kernel

(* SIGVGKILL is only ever on its way to a thread that is marked to exit,   *)
(* or was until the last thread's final_tidyup took the mark back.         *)
VgkillOnlyForExiting ==
  outcome = "run" =>
    \A t \in Tids : "VGKILL" \in pend[t] \/ pc[t] = "vgkill" =>
      is_exiting(t) \/ schedret # "None"

(* Once shutdown_actions_NORETURN has begun, nobody else is alive: the     *)
(* count == 1 tests of run_a_thread_NORETURN and shutdown_actions cannot   *)
(* be overtaken by a thread being born, and the process does not go on     *)
(* with nobody in it.                                                      *)
ShutdownIsAlone ==
  /\ outcome = "run" => living # {}
  /\ outcome = "run" /\ schedret # "None" => i_am_the_only_thread
  /\ outcome \in {"exec", "execfailed"} => i_am_the_only_thread
  /\ outcome \in {"exit", "SIGKILL"} \cup ClientSigs => living = {}

KeepsMarks ==
  \A t \in Tids : is_exiting(t) /\ status[t] # "Empty" /\ exitreason'[t] = "None"
                   => schedret = "None" /\ schedret' # "None"

(* A thread marked to exit is never unmarked while it lives, except by the *)
(* last thread's own final_tidyup.                                         *)
MarkIsFinal == [][KeepsMarks]_vars

(* A thread marked to exit (by exit, exit_group, execve, SIGKILL or a      *)
(* fatal signal) stops, wherever it was, unless the process ends first.    *)
MarkedThreadStops ==
  \A t \in Tids : (is_exiting(t) /\ status[t] \notin {"Empty", "Zombie"})
                    ~> (status[t] \in {"Empty", "Zombie"} \/ outcome # "run"
                        \/ schedret # "None")

(* execve's wait for the other threads (reap_threads) ends. *)
ReapEnds == \A t \in Tids : pc[t] \in {"reap", "reaptop"} ~> outcome # "run"

(* A thread that wants the lock gets it: nobody keeps it for ever. *)
WaiterRuns ==
  \A t \in Tids :
    pc[t] \in {"start", "slice", "yield", "reap", "reacquire", "async", "vgkill"}
      ~> (pc[t] \in LockAt \cup {"none"} \/ outcome # "run")

-----------------------------------------------------------------------------
(* The inductive invariant behind the safety properties: pc and the thread *)
(* table agree, and what each place of a syscall implies.                  *)

SlotMatchesPlace(t) ==
  /\ status[t] = "Runnable" <=> pc[t] \in LockAt
  /\ status[t] = "WaitSys"  <=> pc[t] \in WaitSysAt
  /\ status[t] = "Yielding" <=> pc[t] \in YieldAt
  /\ status[t] = "Init"     <=> pc[t] = "start"
  /\ status[t] = "Zombie"   <=> pc[t] = "zombie"
  /\ status[t] = "Empty"    <=> pc[t] = "none"
  /\ holder = t <=> pc[t] \in LockAt

(* Where the LWP is, or was when the signal it is handling arrived. *)
BeforeKernel == {"masked", "setup", "restart"}
AfterKernel  == {"complete", "committed", "reacquire"}

SyscallMatchesPlace(t) ==
  /\ pc[t] \in WaitSysAt => lwp[t] /\ sci[t] # "Idle" /\ sched_jmpbuf_valid[t]
  /\ pc[t] \in BeforeKernel => ~kernel[t]
  /\ pc[t] \in AfterKernel => kernel[t]
  /\ pc[t] \in {"async", "vgkill"} =>
       \/ ip[t] \in BeforeKernel /\ ~kernel[t]
       \/ ip[t] \in AfterKernel /\ kernel[t]
  /\ pc[t] = "async" => hsig[t] \in ClientSigs
  /\ pc[t] \in {"none", "zombie"} => ~lwp[t]
  /\ pc[t] \in LockAt \cup YieldAt => lwp[t]
  /\ pc[t] = "none" => pend[t] = {}

Control ==
  outcome = "run" =>
    /\ running_tid = holder
    /\ \A t \in Tids : SlotMatchesPlace(t)

Interrupts == outcome = "run" => \A t \in Tids : SyscallMatchesPlace(t)

(* Outside a call its record is free and no jump buffer is live, and a     *)
(* handler that ran on top of a call found a place it can fix up, as long  *)
(* as nobody has sent a SIGSEGV: what SyscallStartsIdle needs.             *)
ReapAt == {"reaptop", "reap", "reappoll"}

RecordMatchesPlace(t) ==
  /\ pc[t] \notin WaitSysAt \cup ReapAt => sci[t] = "Idle"
  /\ pc[t] \notin WaitSysAt \cup ReapAt \cup {"yield"} => ~sched_jmpbuf_valid[t]
  /\ pc[t] = "async" => ip[t] \in Unmasked

Records == outcome = "run" /\ sent.sync = 0 => \A t \in Tids : RecordMatchesPlace(t)

IInv == TypeOK /\ Control /\ Interrupts /\ FatalSignalKnown
          /\ VgkillOnlyForExiting /\ ExactlyOnce

-----------------------------------------------------------------------------
(* What comments and assertions of the source say and the code does not do *)

(* syswrap-linux.c, exit_group: "find all the threads with the same        *)
(* threadgroup as this one (including this one), and mark them to exit".   *)
ExitGroupMarksAll ==
  [][\A t \in Tids : SysExitGroup(t) => \A u \in living : exitreason'[u] # "None"]_vars
=============================================================================
