-------------------------- MODULE SchedulerProofs --------------------------
(***************************************************************************)
(* Proofs about module Scheduler, for any number of thread slots, any set  *)
(* of dispositions and any bounds.                                         *)
(***************************************************************************)
EXTENDS Scheduler, FiniteSetTheorems, TLAPS

(* Delivering a signal keeps the thread table well typed. *)
LEMMA DeliverTypes ==
  ASSUME TypeOK, NEW t \in Tids, NEW s \in ClientSigs \cup HostSigs,
         NEW p \in [Tids -> SUBSET HostSigs], outcome = "run",
         deliver_unless_ignored(t, s, p)
  PROVE  /\ exitreason' \in [Tids -> Reasons]
         /\ fatalsig' \in [Tids -> Fatal]
         /\ sig_mask' \in [Tids -> SUBSET HostSigs]
         /\ pend' \in [Tids -> SUBSET HostSigs]
         /\ outcome' \in Outcomes
PROOF
<1>1. CASE no_delivery(p)
  BY <1>1 DEF no_delivery, TypeOK
<1>2. CASE s = "USR" /\ enter_handler(t, s, p)
  BY <1>2 DEF enter_handler, TypeOK, HostSigs
<1>3. CASE s \in ClientSigs /\ default_action(t, s, p)
  BY <1>3 DEF default_action, nuke_outcome, zapped, nuked, TypeOK, Fatal, Reasons,
     Outcomes, HostSigs, ClientSigs
<1> QED
  BY <1>1, <1>2, <1>3 DEF deliver_unless_ignored, deliver_signal, ClientSigs, HostSigs

(* Type correctness: the initial states are well typed. *)
LEMMA TypeInit == Init => TypeOK
PROOF
  BY NAssumption, BoundsAssumption, DispositionsAssumption
     DEF Init, TypeOK, Lock!LockInit, Tids, Statuses, Reasons, Fatal, Outcomes,
         Places, Calls, NoCall, ClientSigs, HostSigs

(* Polling keeps the types: it takes one signal and delivers it. *)
LEMMA PollTypes ==
  ASSUME TypeOK, NEW t \in Tids, outcome = "run", poll_signals(t)
  PROVE  /\ exitreason' \in [Tids -> Reasons]
         /\ fatalsig' \in [Tids -> Fatal]
         /\ sig_mask' \in [Tids -> SUBSET HostSigs]
         /\ pend' \in [Tids -> SUBSET HostSigs]
         /\ outcome' \in Outcomes
         /\ queue' \in [0 .. N -> SUBSET {"SEGV"}]
         /\ shared' \in SUBSET {"USR"}
PROOF
<1>0. t \in 0 .. N /\ 0 \in 0 .. N
  BY NAssumption DEF Tids
<1>1. ASSUME NEW q \in 0 .. N, from_queue(q, t)
      PROVE  /\ \E s \in ClientSigs \cup HostSigs : deliver_unless_ignored(t, s, pend)
             /\ queue' \in [0 .. N -> SUBSET {"SEGV"}]
             /\ shared' \in SUBSET {"USR"}
  BY <1>1 DEF from_queue, next_queued, TypeOK, ClientSigs
<1>2. ASSUME from_kernel(t)
      PROVE  /\ \E s \in ClientSigs \cup HostSigs, p \in [Tids -> SUBSET HostSigs] :
                  deliver_unless_ignored(t, s, p)
             /\ queue' \in [0 .. N -> SUBSET {"SEGV"}]
             /\ shared' \in SUBSET {"USR"}
  <2>1. PICK s \in (pend[t] \cup shared) \ sig_mask[t] :
           /\ deliver_unless_ignored(t, s, [pend EXCEPT ![t] = @ \ {s}])
           /\ shared' = IF s \in pend[t] THEN shared ELSE shared \ {s}
           /\ UNCHANGED queue
    BY <1>2 DEF from_kernel
  <2>2. s \in ClientSigs \cup HostSigs
    BY DEF TypeOK, HostSigs
  <2>3. [pend EXCEPT ![t] = @ \ {s}] \in [Tids -> SUBSET HostSigs]
    BY DEF TypeOK
  <2> QED
    BY <2>1, <2>2, <2>3 DEF TypeOK
<1>3. CASE \E q \in {t, 0} : from_queue(q, t)
  BY <1>0, <1>1, <1>3, DeliverTypes DEF TypeOK
<1>4. CASE from_kernel(t)
  BY <1>2, <1>4, DeliverTypes
<1>5. CASE no_delivery(pend) /\ UNCHANGED <<queue, shared>>
  BY <1>5 DEF no_delivery, TypeOK
<1> QED
  BY <1>3, <1>4, <1>5 DEF poll_signals

(* Every step of the life of a thread keeps the types.  Shutdown and       *)
(* Terminate use that the fatal signal they die of is known.               *)
LEMMA TypeThreadStep ==
  ASSUME TypeOK, Control, FatalSignalKnown, NEW t \in Tids, ThreadStep(t)
  PROVE  TypeOK'
PROOF
<1> USE DEF Here, Goto, threadVars, lockVars, sigVars, endVars
<1>1. CASE StartThread(t)
  BY <1>1 DEF StartThread, TypeOK, acquire_BigLock, Lock!Take, Places, LockAt, Statuses
<1>2. CASE EndTimeslice(t)
  BY <1>2 DEF EndTimeslice, Client, TypeOK, release_BigLock, Lock!Give, Places, YieldAt,
     Statuses, Calls, NoCall
<1>3. CASE NextTimeslice(t)
  BY <1>3 DEF NextTimeslice, TypeOK, acquire_BigLock, Lock!Take, Places, LockAt, Statuses
<1>4. CASE PollSignals(t)
  <2>1. outcome = "run" /\ poll_signals(t)
    BY <1>4 DEF PollSignals
  <2> QED
    BY <1>4, <2>1, PollTypes DEF PollSignals, TypeOK, Places, LockAt
<1>5. CASE ThreadExit(t)
  BY <1>5, NAssumption DEF ThreadExit, TypeOK, exit_thread, mostly_clear_thread_record,
     Lock!Give, Places, Statuses, Calls, NoCall
<1>6. CASE LwpGone(t)
  BY <1>6 DEF LwpGone, TypeOK, Places, Statuses
<1>7. CASE Shutdown(t)
  <2>1. exitreason[t] = "FatalSig" => fatalsig[t] # "none"
    BY <1>7 DEF Shutdown, FatalSignalKnown
  <2> QED
    BY <1>7, <2>1 DEF Shutdown, TypeOK, final_tidyup, Ending, Statuses, Calls, NoCall,
       Reasons, Outcomes, Fatal
<1>8. CASE Terminate(t)
  <2>1. t \in living
    BY <1>8 DEF Terminate, Control, SlotMatchesPlace, LockAt, living
  <2>2. schedret = "FatalSig" => fatalsig[t] # "none"
    BY <1>8, <2>1 DEF Terminate, FatalSignalKnown
  <2> QED
    BY <1>8, <2>2 DEF Terminate, TypeOK, Ending, Statuses, Outcomes, Fatal
<1> QED
  BY <1>1, <1>2, <1>3, <1>4, <1>5, <1>6, <1>7, <1>8 DEF ThreadStep

(* Every client syscall keeps the types. *)
LEMMA TypeClientStep ==
  ASSUME TypeOK, NEW t \in Tids, ClientStep(t)
  PROVE  TypeOK'
PROOF
<1> USE DEF Here, Client, Spawns, Goto, threadVars, lockVars, sigVars, endVars
<1>0. NoCall \in Calls
  BY DEF Calls, NoCall
<1>1. CASE Fault(t)
  <2>1. ~is_sig_ign("SEGV") /\ deliver_signal(t, "SEGV", pend)
    BY <1>1 DEF Fault, deliver_signal, is_sig_ign
  <2>2. deliver_unless_ignored(t, "SEGV", pend)
    BY <2>1 DEF deliver_unless_ignored
  <2> QED
    BY <1>0, <1>1, <2>2, DeliverTypes DEF Fault, TypeOK, ClientSigs
<1>2. CASE SyncSyscall(t)
  BY <1>0, <1>2 DEF SyncSyscall, TypeOK, Places, LockAt
<1>3. CASE SysRtSigreturn(t)
  BY <1>0, <1>3 DEF SysRtSigreturn, TypeOK, Places, LockAt
<1>4. ASSUME NEW d \in Dispositions, SysSigaction(t, d) PROVE TypeOK'
  <2>1. scss' \in [handler: Handlers, restart: BOOLEAN]
    BY <1>4, DispositionsAssumption, Zenon DEF SysSigaction
  <2>2. pend' \in [Tids -> SUBSET HostSigs] /\ shared' \in SUBSET {"USR"}
    <3>0. pend \in [Tids -> SUBSET HostSigs] /\ shared \in SUBSET {"USR"}
      BY DEF TypeOK
    <3>1. CASE d.handler = "IGN"
      BY <1>4, <3>0, <3>1 DEF SysSigaction
    <3>2. CASE d.handler # "IGN"
      BY <1>4, <3>0, <3>2 DEF SysSigaction
    <3> QED
      BY <3>1, <3>2
  <2> QED
    BY <1>0, <1>4, <2>1, <2>2 DEF SysSigaction, TypeOK
<1>5. CASE SysExit(t)
  BY <1>0, <1>5 DEF SysExit, TypeOK, Reasons
<1>6. CASE SysExitGroup(t)
  BY <1>0, <1>6 DEF SysExitGroup, TypeOK, Reasons, zapped, HostSigs
<1>7. ASSUME NEW u \in Tids, SysSigkill(t, u) PROVE TypeOK'
  BY <1>0, <1>7 DEF SysSigkill, TypeOK, Reasons, Fatal, zapped, HostSigs, Places, LockAt
<1>8. CASE SysClone(t)
  BY <1>0, <1>8, BoundsAssumption DEF SysClone, TypeOK, Statuses, Reasons, Places,
     YieldAt, Lock!Give
<1>9. CASE SysCloneFails(t)
  BY <1>0, <1>9, BoundsAssumption DEF SysCloneFails, TypeOK, Reasons
<1>10. CASE SysCloneNoSlot(t)
  BY <1>10 DEF SysCloneNoSlot, TypeOK, Outcomes
<1>11. CASE SysFork(t)
  <2>4. queue' \in [0 .. N -> SUBSET {"SEGV"}]
    BY <1>11 DEF SysFork, TypeOK
  <2>5. sent' \in [async: 0 .. MaxAsync, sync: 0 .. MaxSync, calls: 0 .. MaxCalls]
    BY <1>11, BoundsAssumption DEF SysFork, TypeOK
  <2> QED
    BY <1>0, <1>11, <2>4, <2>5 DEF SysFork, Only, TypeOK, Statuses, Places
<1>12. CASE SysExecve(t)
  BY <1>0, <1>12 DEF SysExecve, TypeOK, Reasons, nuked, zapped, nuke_outcome, HostSigs,
     Outcomes, Places, LockAt
<1>13. CASE SyscallAsync(t)
  BY <1>0, <1>13 DEF SyscallAsync, release_BigLock, Lock!Give, TypeOK, Statuses, Places,
     WaitSysAt
<1> QED
  BY <1>1, <1>2, <1>3, <1>4, <1>5, <1>6, <1>7, <1>8, <1>9, <1>10, <1>11, <1>12, <1>13
     DEF ClientStep

(* Yielding, reaping and the steps of a blocking syscall keep the types. *)
LEMMA TypeWaitStep ==
  ASSUME TypeOK, NEW t \in Tids, WaitStep(t)
  PROVE  TypeOK'
PROOF
<1> USE DEF Here, Goto, threadVars, lockVars, sigVars, endVars
<1>1. CASE YieldDone(t)
  BY <1>1 DEF YieldDone, acquire_BigLock, Lock!Take, TypeOK, Statuses, Places, LockAt
<1>2. CASE ReapYield(t)
  BY <1>2 DEF ReapYield, release_BigLock, Lock!Give, TypeOK, Statuses, Places, YieldAt
<1>3. CASE ReapResume(t)
  BY <1>3 DEF ReapResume, acquire_BigLock, Lock!Take, TypeOK, Statuses, Places, LockAt
<1>4. CASE Exec(t)
  BY <1>4 DEF Exec, TypeOK, Outcomes
<1>5. CASE UnblockSignals(t) \/ LoadArguments(t) \/ KernelCompletes(t) \/ CommitResult(t)
            \/ ReblockSignals(t)
  BY <1>5 DEF UnblockSignals, LoadArguments, KernelCompletes, CommitResult,
     ReblockSignals, AsmStep, TypeOK, Places, WaitSysAt, Unmasked
<1>6. CASE SyscallDone(t)
  BY <1>6 DEF SyscallDone, acquire_BigLock, Lock!Take, TypeOK, Statuses, Places, LockAt,
     Calls
<1> QED
  BY <1>1, <1>2, <1>3, <1>4, <1>5, <1>6 DEF WaitStep

(* What fixup_guest_state_after_syscall_interrupted reports is well typed. *)
LEMMA FixupType ==
  ASSUME NEW where, NEW restart, NEW done \in BOOLEAN
  PROVE  Fixup(where, restart, done) \in Calls
PROOF
  BY DEF Fixup, Calls

(* Arriving and handled signals keep the types. *)
LEMMA TypeSignalStep ==
  ASSUME TypeOK, Interrupts, NEW t \in Tids, SignalStep(t)
  PROVE  TypeOK'
PROOF
<1> USE DEF Here, Goto, threadVars, lockVars, sigVars, endVars
<1>1. CASE SignalArrives(t)
  <2>1. pend' \in [Tids -> SUBSET HostSigs] /\ shared' \in SUBSET {"USR"}
    <3>0. pend \in [Tids -> SUBSET HostSigs] /\ shared \in SUBSET {"USR"}
      BY DEF TypeOK
    <3>1. CASE "USR" \in pend[t]
      BY <1>1, <3>0, <3>1 DEF SignalArrives
    <3>2. CASE "USR" \notin pend[t]
      BY <1>1, <3>0, <3>2 DEF SignalArrives
    <3> QED
      BY <3>1, <3>2
  <2> QED
    BY <1>1, <2>1 DEF SignalArrives, TypeOK, Places, WaitSysAt, ClientSigs
<1>2. CASE VgkillArrives(t)
  BY <1>2 DEF VgkillArrives, TypeOK, Places, WaitSysAt, HostSigs
<1>3. CASE AsyncHandler(t)
  <2>1. lastcall' \in Calls
    BY <1>3, FixupType DEF AsyncHandler, TypeOK
  <2>2. hsig[t] \in ClientSigs \cup HostSigs
    BY <1>3 DEF AsyncHandler, Interrupts, SyscallMatchesPlace
  <2> QED
    BY <1>3, <2>1, <2>2, DeliverTypes DEF AsyncHandler, acquire_BigLock, Lock!Take, TypeOK,
       Statuses, Places, LockAt
<1>4. CASE VgkillHandler(t)
  BY <1>4 DEF VgkillHandler, acquire_BigLock, Lock!Take, TypeOK, Statuses, Places, LockAt,
     Calls
<1>5. CASE UserSendsSync(t)
  <2>1. sent' \in [async: 0 .. MaxAsync, sync: 0 .. MaxSync, calls: 0 .. MaxCalls]
    BY <1>5, BoundsAssumption DEF UserSendsSync, TypeOK
  <2>2. CASE status[t] = "WaitSys"
    BY <1>5, <2>1, <2>2 DEF UserSendsSync, TypeOK, Places, WaitSysAt, Unmasked, ClientSigs
  <2>3. CASE status[t] # "WaitSys"
    <3>1. queue' \in [0 .. N -> SUBSET {"SEGV"}]
      BY <1>5, <2>3, NAssumption DEF UserSendsSync, TypeOK, Tids
    <3> QED
      BY <1>5, <2>1, <2>3, <3>1 DEF UserSendsSync, TypeOK
  <2> QED
    BY <2>2, <2>3
<1> QED
  BY <1>1, <1>2, <1>3, <1>4, <1>5 DEF SignalStep

-----------------------------------------------------------------------------
(* Control: pc, the thread table and the lock agree. *)

(* Before the main thread starts nobody has the lock. *)
LEMMA ControlInit == Init => Control
PROOF
  BY NAssumption DEF Init, Control, SlotMatchesPlace, Lock!LockInit, Tids, LockAt,
     WaitSysAt, Unmasked, YieldAt

(* A thread starting, yielding, polling or ending takes its slot along. *)
LEMMA ControlThreadStep ==
  ASSUME TypeOK, Control, NEW t \in Tids, ThreadStep(t)
  PROVE  Control'
PROOF
<1> USE NAssumption DEF Here, Goto, threadVars, lockVars, sigVars, endVars, TypeOK,
    Control, SlotMatchesPlace, LockAt, WaitSysAt, Unmasked, YieldAt, Tids
<1>1. CASE StartThread(t)
  BY <1>1 DEF StartThread, acquire_BigLock, Lock!Take
<1>2. CASE EndTimeslice(t)
  BY <1>2 DEF EndTimeslice, Client, release_BigLock, Lock!Give
<1>3. CASE NextTimeslice(t)
  BY <1>3 DEF NextTimeslice, acquire_BigLock, Lock!Take
<1>4. CASE PollSignals(t)
  BY <1>4 DEF PollSignals
<1>5. CASE ThreadExit(t)
  BY <1>5 DEF ThreadExit, exit_thread, mostly_clear_thread_record, Lock!Give
<1>6. CASE LwpGone(t)
  BY <1>6 DEF LwpGone
<1>7. CASE Shutdown(t)
  <2>1. CASE RunLibcFreeres
    BY <1>7, <2>1 DEF Shutdown
  <2>2. CASE ~RunLibcFreeres
    BY <1>7, <2>2 DEF Shutdown, Ending, Fatal, ClientSigs
  <2> QED
    BY <2>1, <2>2
<1>8. CASE Terminate(t)
  BY <1>8 DEF Terminate, Ending, Fatal, ClientSigs
<1> QED
  BY <1>1, <1>2, <1>3, <1>4, <1>5, <1>6, <1>7, <1>8 DEF ThreadStep

(* Only clone, fork and a blocking call move slots among the syscalls. *)
LEMMA ControlClientStep ==
  ASSUME TypeOK, Control, NEW t \in Tids, ClientStep(t)
  PROVE  Control'
PROOF
<1> USE NAssumption DEF Here, Client, Spawns, Goto, threadVars, lockVars, sigVars,
    endVars, TypeOK, Control, SlotMatchesPlace, LockAt, WaitSysAt, Unmasked, YieldAt, Tids
<1>1. CASE Fault(t)
  BY <1>1 DEF Fault
<1>2. CASE SyncSyscall(t) \/ SysRtSigreturn(t)
  BY <1>2 DEF SyncSyscall, SysRtSigreturn
<1>3. CASE \E d \in Dispositions : SysSigaction(t, d)
  BY <1>3 DEF SysSigaction
<1>4. CASE SysExit(t) \/ SysExitGroup(t) \/ SysCloneFails(t) \/ SysCloneNoSlot(t)
  BY <1>4 DEF SysExit, SysExitGroup, SysCloneFails, SysCloneNoSlot
<1>5. CASE \E u \in Tids : SysSigkill(t, u)
  BY <1>5 DEF SysSigkill
<1>6. CASE SysClone(t)
  BY <1>6 DEF SysClone, alloc_ThreadState, empty_slots, Lock!Give
<1>7. CASE SysFork(t)
  BY <1>7 DEF SysFork, Only
<1>8. CASE SysExecve(t)
  BY <1>8 DEF SysExecve
<1>9. CASE SyscallAsync(t)
  BY <1>9 DEF SyscallAsync, release_BigLock, Lock!Give
<1> QED
  BY <1>1, <1>2, <1>3, <1>4, <1>5, <1>6, <1>7, <1>8, <1>9 DEF ClientStep

(* Giving up and regaining the lock, and the assembly in between. *)
LEMMA ControlWaitStep ==
  ASSUME TypeOK, Control, NEW t \in Tids, WaitStep(t)
  PROVE  Control'
PROOF
<1> USE NAssumption DEF Here, Goto, threadVars, lockVars, sigVars, endVars, TypeOK,
    Control, SlotMatchesPlace, LockAt, WaitSysAt, Unmasked, YieldAt, Tids
<1>1. CASE YieldDone(t) \/ ReapResume(t)
  BY <1>1 DEF YieldDone, ReapResume, acquire_BigLock, Lock!Take
<1>2. CASE SyscallDone(t)
  BY <1>2 DEF SyscallDone, acquire_BigLock, Lock!Take
<1>3. CASE ReapYield(t)
  BY <1>3 DEF ReapYield, release_BigLock, Lock!Give
<1>4. CASE Exec(t)
  BY <1>4 DEF Exec
<1>5. CASE UnblockSignals(t) \/ LoadArguments(t) \/ KernelCompletes(t) \/ CommitResult(t)
            \/ ReblockSignals(t)
  BY <1>5 DEF UnblockSignals, LoadArguments, KernelCompletes, CommitResult,
     ReblockSignals, AsmStep
<1> QED
  BY <1>1, <1>2, <1>3, <1>4, <1>5 DEF WaitStep

(* A handler moves only the thread it interrupted. *)
LEMMA ControlSignalStep ==
  ASSUME TypeOK, Control, NEW t \in Tids, SignalStep(t)
  PROVE  Control'
PROOF
<1> USE NAssumption DEF Here, Goto, threadVars, lockVars, sigVars, endVars, TypeOK,
    Control, SlotMatchesPlace, LockAt, WaitSysAt, Unmasked, YieldAt, Tids
<1>1. CASE SignalArrives(t) \/ VgkillArrives(t)
  BY <1>1 DEF SignalArrives, VgkillArrives
<1>2. CASE AsyncHandler(t)
  BY <1>2 DEF AsyncHandler, acquire_BigLock, Lock!Take
<1>3. CASE VgkillHandler(t)
  BY <1>3 DEF VgkillHandler, acquire_BigLock, Lock!Take
<1>4. CASE UserSendsSync(t)
  BY <1>4 DEF UserSendsSync
<1> QED
  BY <1>1, <1>2, <1>3, <1>4 DEF SignalStep

-----------------------------------------------------------------------------
(* What delivery may do to a thread: either nothing is added to what the   *)
(* kernel holds for it, or it was inside a syscall and is now marked; a    *)
(* mark is never taken back, and a thread newly marked has a fatal signal. *)
LEMMA DeliverMarks ==
  ASSUME TypeOK, NEW t \in Tids, NEW s \in ClientSigs \cup HostSigs,
         NEW p \in [Tids -> SUBSET HostSigs], deliver_unless_ignored(t, s, p),
         NEW u \in Tids
  PROVE  /\ pend'[u] = p[u] \/ (status[u] = "WaitSys" /\ exitreason'[u] # "None")
         /\ exitreason[u] # "None" => exitreason'[u] # "None"
         /\ exitreason'[u] = "FatalSig" =>
              exitreason[u] = "FatalSig" \/ fatalsig'[u] # "none"
         /\ fatalsig[u] # "none" => fatalsig'[u] # "none"
PROOF
<1>1. CASE no_delivery(p) \/ enter_handler(t, s, p)
  BY <1>1 DEF no_delivery, enter_handler
<1>2. CASE s \in ClientSigs /\ default_action(t, s, p)
  BY <1>2 DEF default_action, zapped, nuked, TypeOK, ClientSigs
<1> QED
  BY <1>1, <1>2 DEF deliver_unless_ignored, deliver_signal, ClientSigs, HostSigs

(* The same of one call of poll_signals, which only takes signals. *)
LEMMA PollMarks ==
  ASSUME TypeOK, NEW t \in Tids, poll_signals(t), NEW u \in Tids
  PROVE  /\ pend'[u] \subseteq pend[u] \/ (status[u] = "WaitSys" /\ exitreason'[u] # "None")
         /\ exitreason[u] # "None" => exitreason'[u] # "None"
         /\ exitreason'[u] = "FatalSig" =>
              exitreason[u] = "FatalSig" \/ fatalsig'[u] # "none"
         /\ fatalsig[u] # "none" => fatalsig'[u] # "none"
PROOF
<1>1. ASSUME NEW q \in 0 .. N, from_queue(q, t)
      PROVE  \E s \in ClientSigs \cup HostSigs : deliver_unless_ignored(t, s, pend)
  BY <1>1 DEF from_queue, next_queued, TypeOK, ClientSigs
<1>2. CASE \E q \in {t, 0} : from_queue(q, t)
  <2>1. t \in 0 .. N /\ 0 \in 0 .. N
    BY NAssumption DEF Tids
  <2>2. PICK s \in ClientSigs \cup HostSigs : deliver_unless_ignored(t, s, pend)
    BY <1>1, <1>2, <2>1
  <2>3. pend \in [Tids -> SUBSET HostSigs]
    BY DEF TypeOK
  <2> QED
    BY <2>2, <2>3, DeliverMarks
<1>3. CASE from_kernel(t)
  <2>1. PICK s \in (pend[t] \cup shared) \ sig_mask[t] :
           deliver_unless_ignored(t, s, [pend EXCEPT ![t] = @ \ {s}])
    BY <1>3 DEF from_kernel
  <2>2. s \in ClientSigs \cup HostSigs
    BY DEF TypeOK, HostSigs
  <2> DEFINE p == [pend EXCEPT ![t] = @ \ {s}]
  <2>3. p \in [Tids -> SUBSET HostSigs] /\ p[u] \subseteq pend[u]
    BY DEF TypeOK
  <2> HIDE DEF p
  <2> QED
    BY <2>1, <2>2, <2>3, DeliverMarks DEF p
<1>4. CASE no_delivery(pend)
  BY <1>4 DEF no_delivery
<1> QED
  BY <1>2, <1>3, <1>4 DEF poll_signals

-----------------------------------------------------------------------------
(* Interrupts: what a place inside a syscall implies. *)

(* No call is under way at the start. *)
LEMMA InterruptsInit == Init => Interrupts
PROOF
  BY DEF Init, Interrupts, SyscallMatchesPlace, LockAt, YieldAt, WaitSysAt, Unmasked, BeforeKernel,
     AfterKernel

(* Outside a syscall only an exit and a new LWP matter here. *)
LEMMA InterruptsThreadStep ==
  ASSUME TypeOK, Control, Interrupts, NEW t \in Tids, ThreadStep(t)
  PROVE  Interrupts'
PROOF
<1> USE DEF Here, Goto, threadVars, lockVars, sigVars, endVars, TypeOK, Interrupts,
    SyscallMatchesPlace, LockAt, WaitSysAt, Unmasked, YieldAt, BeforeKernel, AfterKernel
<1>1. CASE StartThread(t) \/ NextTimeslice(t)
  BY <1>1 DEF StartThread, NextTimeslice
<1>2. CASE EndTimeslice(t)
  BY <1>2 DEF EndTimeslice, Client
<1>4. CASE PollSignals(t)
  <2>1. \A u \in Tids : pc[u] = "none" => status[u] # "WaitSys"
    BY <1>4 DEF PollSignals, Control, SlotMatchesPlace
  <2>2. \A u \in Tids : pend'[u] \subseteq pend[u] \/ status[u] = "WaitSys"
    BY <1>4, PollMarks DEF PollSignals
  <2> QED
    BY <1>4, <2>1, <2>2 DEF PollSignals
<1>5. CASE ThreadExit(t)
  BY <1>5 DEF ThreadExit, exit_thread, mostly_clear_thread_record
<1>6. CASE LwpGone(t)
  BY <1>6 DEF LwpGone
<1>7. CASE Shutdown(t) \/ Terminate(t)
  BY <1>7 DEF Shutdown, Terminate
<1> QED
  BY <1>1, <1>2, <1>4, <1>5, <1>6, <1>7 DEF ThreadStep

(* A call begins with a fresh record; SIGVGKILL reaches no empty slot. *)
LEMMA InterruptsClientStep ==
  ASSUME TypeOK, Control, Interrupts, NEW t \in Tids, ClientStep(t)
  PROVE  Interrupts'
PROOF
<1> USE DEF Here, Client, Spawns, Goto, threadVars, lockVars, sigVars, endVars, Interrupts,
    SyscallMatchesPlace, LockAt, WaitSysAt, Unmasked, YieldAt, BeforeKernel, AfterKernel
<1>0. outcome = "run" => \A u \in Tids : pc[u] = "none" => status[u] # "WaitSys"
  BY DEF Control, SlotMatchesPlace
<1>1. CASE Fault(t)
  <2>1. \A u \in Tids : pend'[u] = pend[u] \/ status[u] = "WaitSys"
    BY <1>1 DEF Fault, default_action, zapped
  <2> QED
    BY <1>0, <1>1, <2>1 DEF Fault, default_action
<1>2. CASE SyncSyscall(t) \/ SysRtSigreturn(t)
  BY <1>2 DEF SyncSyscall, SysRtSigreturn, TypeOK
<1>3. ASSUME NEW d \in Dispositions, SysSigaction(t, d) PROVE Interrupts'
  <2>1. \A u \in Tids : pend'[u] \subseteq pend[u]
    BY <1>3 DEF SysSigaction
  <2> QED
    BY <1>3, <2>1 DEF SysSigaction
<1>4. CASE SysExit(t) \/ SysCloneFails(t) \/ SysCloneNoSlot(t)
  BY <1>4 DEF SysExit, SysCloneFails, SysCloneNoSlot
<1>5. CASE SysExitGroup(t)
  BY <1>0, <1>5 DEF SysExitGroup, zapped
<1>6. ASSUME NEW u \in Tids, SysSigkill(t, u) PROVE Interrupts'
  <2>1. \A v \in Tids : pend'[v] = pend[v] \/ status[v] = "WaitSys"
    BY <1>6 DEF SysSigkill, zapped
  <2> QED
    BY <1>0, <1>6, <2>1 DEF SysSigkill, TypeOK
<1>7. CASE SysClone(t)
  BY <1>7 DEF SysClone, TypeOK, alloc_ThreadState, empty_slots, Control, SlotMatchesPlace
<1>8. CASE SysFork(t)
  BY <1>8 DEF SysFork, Only
<1>9. CASE SysExecve(t)
  BY <1>0, <1>9 DEF SysExecve, zapped, TypeOK
<1>10. CASE SyscallAsync(t)
  BY <1>10 DEF SyscallAsync, TypeOK
<1> QED
  BY <1>1, <1>2, <1>3, <1>4, <1>5, <1>6, <1>7, <1>8, <1>9, <1>10 DEF ClientStep

(* kernel becomes TRUE exactly when the system call instruction is past. *)
LEMMA InterruptsWaitStep ==
  ASSUME TypeOK, Interrupts, NEW t \in Tids, WaitStep(t)
  PROVE  Interrupts'
PROOF
<1> USE DEF Here, Goto, threadVars, lockVars, sigVars, endVars, TypeOK, Interrupts,
    SyscallMatchesPlace, LockAt, WaitSysAt, Unmasked, YieldAt, BeforeKernel, AfterKernel
<1>1. CASE YieldDone(t) \/ ReapResume(t) \/ ReapYield(t)
  BY <1>1 DEF YieldDone, ReapResume, ReapYield
<1>2. CASE SyscallDone(t)
  BY <1>2 DEF SyscallDone
<1>4. CASE Exec(t)
  BY <1>4 DEF Exec
<1>5. CASE UnblockSignals(t) \/ LoadArguments(t) \/ KernelCompletes(t) \/ CommitResult(t)
            \/ ReblockSignals(t)
  BY <1>5 DEF UnblockSignals, LoadArguments, KernelCompletes, CommitResult,
     ReblockSignals, AsmStep
<1> QED
  BY <1>1, <1>2, <1>4, <1>5 DEF WaitStep

(* A handler remembers in ip where in the call it struck. *)
LEMMA InterruptsSignalStep ==
  ASSUME TypeOK, Control, Interrupts, NEW t \in Tids, SignalStep(t)
  PROVE  Interrupts'
PROOF
<1> USE DEF Here, Goto, threadVars, lockVars, sigVars, endVars, Interrupts,
    SyscallMatchesPlace, LockAt, WaitSysAt, Unmasked, YieldAt, BeforeKernel, AfterKernel
<1>1. CASE SignalArrives(t)
  <2>1. \A u \in Tids : pend'[u] \subseteq pend[u]
    BY <1>1 DEF SignalArrives, TypeOK
  <2> QED
    BY <1>1, <2>1 DEF SignalArrives, TypeOK, ClientSigs
<1>2. CASE VgkillArrives(t)
  BY <1>2 DEF VgkillArrives, TypeOK
<1>3. CASE AsyncHandler(t)
  <2>1. hsig[t] \in ClientSigs \cup HostSigs
    BY <1>3 DEF AsyncHandler
  <2>2. \A u \in Tids : pend'[u] = pend[u] \/ status[u] = "WaitSys"
    BY <1>3, <2>1, DeliverMarks DEF AsyncHandler, TypeOK
  <2>3. \A u \in Tids : pc[u] = "none" => status[u] # "WaitSys"
    BY <1>3 DEF AsyncHandler, Control, SlotMatchesPlace
  <2>4. \A u \in Tids \ {t} : sci'[u] = sci[u] /\ pc'[u] = pc[u]
    BY <1>3 DEF AsyncHandler, TypeOK
  <2>5. pc'[t] = "poll"
    BY <1>3 DEF AsyncHandler, TypeOK
  <2> QED
    BY <1>3, <2>2, <2>3, <2>4, <2>5 DEF AsyncHandler, TypeOK
<1>4. CASE VgkillHandler(t)
  BY <1>4 DEF VgkillHandler, TypeOK
<1>5. CASE UserSendsSync(t)
  <2>1. CASE status[t] = "WaitSys"
    <3>1. pc[t] \in {"masked", "reacquire"} \cup Unmasked
      BY <1>5, <2>1 DEF UserSendsSync, Control, SlotMatchesPlace
    <3> QED
      BY <1>5, <2>1, <3>1 DEF UserSendsSync, TypeOK, ClientSigs
  <2>2. CASE status[t] # "WaitSys"
    BY <1>5, <2>2 DEF UserSendsSync
  <2> QED
    BY <2>1, <2>2
<1> QED
  BY <1>1, <1>2, <1>3, <1>4, <1>5 DEF SignalStep

-----------------------------------------------------------------------------
(* FatalSignalKnown *)

(* VG_(count_living_threads)() == 1, seen by a living thread, means that   *)
(* no other thread lives.                                                  *)
LEMMA OnlyOneLives ==
  ASSUME NEW t \in Tids, t \in living, i_am_the_only_thread
  PROVE  living = {t}
PROOF
<1>1. IsFiniteSet(living)
  <2>1. 1 \in Int /\ N \in Int
    BY NAssumption
  <2>2. IsFiniteSet(Tids)
    BY <2>1, FS_Interval DEF Tids
  <2> QED
    BY <2>2, FS_Subset DEF living
<1>2. \E x : living = {x}
  BY <1>1, FS_Singleton DEF i_am_the_only_thread
<1> QED
  BY <1>2

(* Nobody is marked at the start. *)
LEMMA FatalInit == Init => FatalSignalKnown
PROOF
  BY DEF Init, FatalSignalKnown

(* Shutdown is the delicate step: schedret takes the mark over. *)
LEMMA FatalThreadStep ==
  ASSUME TypeOK, Control, FatalSignalKnown, NEW t \in Tids, ThreadStep(t)
  PROVE  FatalSignalKnown'
PROOF
<1> USE DEF Here, Goto, threadVars, lockVars, sigVars, endVars, FatalSignalKnown, living
<1>0. outcome = "run" => \A u \in Tids : pc[u] \notin {"none", "zombie"} => u \in living
  BY DEF Control, SlotMatchesPlace
<1>1. CASE StartThread(t) \/ NextTimeslice(t)
  BY <1>0, <1>1 DEF StartThread, NextTimeslice, acquire_BigLock, TypeOK
<1>2. CASE EndTimeslice(t)
  BY <1>0, <1>2 DEF EndTimeslice, Client, release_BigLock, TypeOK
<1>3. CASE PollSignals(t)
  BY <1>3, PollMarks DEF PollSignals
<1>4. CASE ThreadExit(t)
  BY <1>4 DEF ThreadExit, exit_thread, mostly_clear_thread_record, TypeOK
<1>5. CASE LwpGone(t)
  BY <1>5 DEF LwpGone, TypeOK
<1>6. CASE Shutdown(t)
  <2>1. living = {t}
    BY <1>0, <1>6, OnlyOneLives DEF Shutdown
  <2>2. CASE RunLibcFreeres
    BY <1>6, <2>1, <2>2 DEF Shutdown, final_tidyup, TypeOK
  <2>3. CASE ~RunLibcFreeres
    BY <1>6, <2>3 DEF Shutdown, Ending, TypeOK, Fatal, ClientSigs
  <2> QED
    BY <2>2, <2>3
<1>7. CASE Terminate(t)
  BY <1>7 DEF Terminate, Ending, TypeOK, Fatal, ClientSigs
<1> QED
  BY <1>1, <1>2, <1>3, <1>4, <1>5, <1>6, <1>7 DEF ThreadStep

(* Whoever marks a thread with FatalSig also sets its fatalsig. *)
LEMMA FatalClientStep ==
  ASSUME TypeOK, Control, FatalSignalKnown, NEW t \in Tids, ClientStep(t)
  PROVE  FatalSignalKnown'
PROOF
<1> USE DEF Here, Client, Spawns, Goto, threadVars, lockVars, sigVars, endVars,
    FatalSignalKnown, living
<1>0. outcome = "run" => \A u \in Tids : pc[u] \notin {"none", "zombie"} => u \in living
  BY DEF Control, SlotMatchesPlace
<1>1. CASE Fault(t)
  BY <1>1 DEF Fault, default_action, TypeOK
<1>2. CASE SyncSyscall(t) \/ SysRtSigreturn(t) \/ SysCloneNoSlot(t)
  BY <1>2 DEF SyncSyscall, SysRtSigreturn, SysCloneNoSlot
<1>3. CASE \E d \in Dispositions : SysSigaction(t, d)
  BY <1>3 DEF SysSigaction
<1>4. CASE SysExit(t) \/ SysExitGroup(t)
  BY <1>4 DEF SysExit, SysExitGroup, TypeOK
<1>5. ASSUME NEW u \in Tids, SysSigkill(t, u) PROVE FatalSignalKnown'
  <2>1. CASE is_exiting(u)
    BY <1>5, <2>1 DEF SysSigkill
  <2>2. CASE ~is_exiting(u)
    BY <1>5, <2>2 DEF SysSigkill, TypeOK
  <2> QED
    BY <2>1, <2>2
<1>6. CASE SysClone(t) \/ SysCloneFails(t)
  BY <1>6 DEF SysClone, SysCloneFails, TypeOK
<1>7. CASE SysFork(t)
  BY <1>7 DEF SysFork, Only
<1>8. CASE SysExecve(t)
  BY <1>8 DEF SysExecve
<1>9. CASE SyscallAsync(t)
  BY <1>0, <1>9 DEF SyscallAsync, release_BigLock, TypeOK
<1> QED
  BY <1>1, <1>2, <1>3, <1>4, <1>5, <1>6, <1>7, <1>8, <1>9 DEF ClientStep

(* Waiting marks nobody and brings nobody to life. *)
LEMMA FatalWaitStep ==
  ASSUME TypeOK, Control, FatalSignalKnown, NEW t \in Tids, WaitStep(t)
  PROVE  FatalSignalKnown'
PROOF
<1> USE DEF Here, Goto, threadVars, lockVars, sigVars, endVars, FatalSignalKnown, living
<1>0. outcome = "run" => \A u \in Tids : pc[u] \notin {"none", "zombie"} => u \in living
  BY DEF Control, SlotMatchesPlace
<1>1. CASE YieldDone(t) \/ ReapResume(t) \/ SyscallDone(t)
  BY <1>0, <1>1 DEF YieldDone, ReapResume, SyscallDone, acquire_BigLock, TypeOK
<1>2. CASE ReapYield(t)
  BY <1>0, <1>2 DEF ReapYield, release_BigLock, TypeOK
<1>3. CASE Exec(t)
  BY <1>3 DEF Exec
<1>4. CASE UnblockSignals(t) \/ LoadArguments(t) \/ KernelCompletes(t) \/ CommitResult(t)
            \/ ReblockSignals(t)
  BY <1>4 DEF UnblockSignals, LoadArguments, KernelCompletes, CommitResult,
     ReblockSignals, AsmStep
<1> QED
  BY <1>1, <1>2, <1>3, <1>4 DEF WaitStep

(* Handlers mark only through default_action. *)
LEMMA FatalSignalStep ==
  ASSUME TypeOK, Control, Interrupts, FatalSignalKnown, NEW t \in Tids, SignalStep(t)
  PROVE  FatalSignalKnown'
PROOF
<1> USE DEF Here, Goto, threadVars, lockVars, sigVars, endVars, FatalSignalKnown, living
<1>0. outcome = "run" => \A u \in Tids : pc[u] \notin {"none", "zombie"} => u \in living
  BY DEF Control, SlotMatchesPlace
<1>1. CASE SignalArrives(t) \/ VgkillArrives(t) \/ UserSendsSync(t)
  BY <1>1 DEF SignalArrives, VgkillArrives, UserSendsSync
<1>2. CASE AsyncHandler(t)
  <2>1. hsig[t] \in ClientSigs \cup HostSigs
    BY <1>2 DEF AsyncHandler, Interrupts, SyscallMatchesPlace
  <2>2. \A u \in Tids : /\ exitreason'[u] = "FatalSig" =>
                              exitreason[u] = "FatalSig" \/ fatalsig'[u] # "none"
                        /\ fatalsig[u] # "none" => fatalsig'[u] # "none"
    BY <1>2, <2>1, DeliverMarks DEF AsyncHandler, TypeOK
  <2> QED
    BY <1>0, <1>2, <2>2 DEF AsyncHandler, acquire_BigLock, TypeOK
<1>3. CASE VgkillHandler(t)
  BY <1>0, <1>3 DEF VgkillHandler, acquire_BigLock, TypeOK
<1> QED
  BY <1>1, <1>2, <1>3 DEF SignalStep

-----------------------------------------------------------------------------
(* VgkillOnlyForExiting *)

(* No SIGVGKILL is pending at the start. *)
LEMMA VgkillInit == Init => VgkillOnlyForExiting
PROOF
  BY DEF Init, VgkillOnlyForExiting

(* Only Shutdown takes a mark back, and it sets schedret. *)
LEMMA VgkillThreadStep ==
  ASSUME TypeOK, Control, VgkillOnlyForExiting, NEW t \in Tids, ThreadStep(t)
  PROVE  VgkillOnlyForExiting'
PROOF
<1> USE DEF Here, Goto, threadVars, lockVars, sigVars, endVars, VgkillOnlyForExiting,
    is_exiting
<1>1. CASE StartThread(t) \/ NextTimeslice(t)
  BY <1>1 DEF StartThread, NextTimeslice, TypeOK
<1>2. CASE EndTimeslice(t)
  BY <1>2 DEF EndTimeslice, Client, TypeOK
<1>3. CASE PollSignals(t)
  BY <1>3, PollMarks DEF PollSignals, TypeOK
<1>4. CASE ThreadExit(t) \/ LwpGone(t)
  BY <1>4 DEF ThreadExit, LwpGone, TypeOK
<1>5. CASE Shutdown(t)
  BY <1>5 DEF Shutdown
<1>6. CASE Terminate(t)
  BY <1>6 DEF Terminate
<1> QED
  BY <1>1, <1>2, <1>3, <1>4, <1>5, <1>6 DEF ThreadStep

(* get_thread_out_of_syscall is called for marked threads only. *)
LEMMA VgkillClientStep ==
  ASSUME TypeOK, Control, Interrupts, VgkillOnlyForExiting, NEW t \in Tids, ClientStep(t)
  PROVE  VgkillOnlyForExiting'
PROOF
<1> USE DEF Here, Client, Spawns, Goto, threadVars, lockVars, sigVars, endVars,
    VgkillOnlyForExiting, is_exiting
<1>1. CASE Fault(t)
  BY <1>1 DEF Fault, default_action, zapped, nuked, TypeOK
<1>2. CASE SyncSyscall(t) \/ SysRtSigreturn(t) \/ SysCloneNoSlot(t)
  BY <1>2 DEF SyncSyscall, SysRtSigreturn, SysCloneNoSlot, TypeOK
<1>3. ASSUME NEW d \in Dispositions, SysSigaction(t, d) PROVE VgkillOnlyForExiting'
  <2>1. \A u \in Tids : pend'[u] \subseteq pend[u]
    BY <1>3 DEF SysSigaction
  <2> QED
    BY <1>3, <2>1 DEF SysSigaction
<1>4. CASE SysExit(t)
  BY <1>4 DEF SysExit, TypeOK
<1>5. CASE SysExitGroup(t)
  BY <1>5 DEF SysExitGroup, zapped
<1>6. ASSUME NEW u \in Tids, SysSigkill(t, u) PROVE VgkillOnlyForExiting'
  <2>1. CASE is_exiting(u)
    BY <1>6, <2>1 DEF SysSigkill, TypeOK
  <2>2. CASE ~is_exiting(u)
    BY <1>6, <2>2 DEF SysSigkill, zapped, TypeOK
  <2> QED
    BY <2>1, <2>2
<1>0. ASSUME outcome = "run", NEW c \in Tids, alloc_ThreadState(c)
      PROVE  pend[c] = {} /\ pc[c] = "none"
  BY <1>0 DEF alloc_ThreadState, empty_slots, Control, SlotMatchesPlace, Interrupts,
     SyscallMatchesPlace
<1>7. CASE SysClone(t)
  BY <1>0, <1>7 DEF SysClone, TypeOK
<1>11. CASE SysCloneFails(t)
  BY <1>0, <1>11 DEF SysCloneFails, TypeOK
<1>8. CASE SysFork(t)
  BY <1>8 DEF SysFork, Only
<1>9. CASE SysExecve(t)
  BY <1>9 DEF SysExecve, zapped, nuked, TypeOK
<1>10. CASE SyscallAsync(t)
  BY <1>10 DEF SyscallAsync, TypeOK
<1> QED
  BY <1>1, <1>2, <1>3, <1>4, <1>5, <1>6, <1>7, <1>8, <1>9, <1>10, <1>11
     DEF ClientStep

(* Waiting sends no SIGVGKILL. *)
LEMMA VgkillWaitStep ==
  ASSUME TypeOK, VgkillOnlyForExiting, NEW t \in Tids, WaitStep(t)
  PROVE  VgkillOnlyForExiting'
PROOF
<1> USE DEF Here, Goto, threadVars, lockVars, sigVars, endVars, VgkillOnlyForExiting,
    is_exiting, TypeOK
<1>1. CASE YieldDone(t) \/ ReapResume(t) \/ ReapYield(t)
  BY <1>1 DEF YieldDone, ReapResume, ReapYield
<1>2. CASE SyscallDone(t)
  BY <1>2 DEF SyscallDone
<1>3. CASE Exec(t)
  BY <1>3 DEF Exec
<1>4. CASE UnblockSignals(t) \/ LoadArguments(t) \/ KernelCompletes(t) \/ CommitResult(t)
            \/ ReblockSignals(t)
  BY <1>4 DEF UnblockSignals, LoadArguments, KernelCompletes, CommitResult,
     ReblockSignals, AsmStep
<1> QED
  BY <1>1, <1>2, <1>3, <1>4 DEF WaitStep

(* SIGVGKILL moves from pending to its handler. *)
LEMMA VgkillSignalStep ==
  ASSUME TypeOK, Interrupts, VgkillOnlyForExiting, NEW t \in Tids, SignalStep(t)
  PROVE  VgkillOnlyForExiting'
PROOF
<1> USE DEF Here, Goto, threadVars, lockVars, sigVars, endVars, VgkillOnlyForExiting,
    is_exiting
<1>1. CASE SignalArrives(t)
  <2>1. \A u \in Tids : pend'[u] \subseteq pend[u]
    BY <1>1 DEF SignalArrives, TypeOK
  <2> QED
    BY <1>1, <2>1 DEF SignalArrives, TypeOK
<1>2. CASE VgkillArrives(t)
  BY <1>2 DEF VgkillArrives, TypeOK
<1>3. CASE AsyncHandler(t)
  <2>1. hsig[t] \in ClientSigs \cup HostSigs
    BY <1>3 DEF AsyncHandler, Interrupts, SyscallMatchesPlace
  <2>2. \A u \in Tids : /\ pend'[u] = pend[u] \/ exitreason'[u] # "None"
                        /\ exitreason[u] # "None" => exitreason'[u] # "None"
    BY <1>3, <2>1, DeliverMarks DEF AsyncHandler, TypeOK
  <2>3. \A u \in Tids : pc'[u] = "vgkill" => pc[u] = "vgkill"
    BY <1>3 DEF AsyncHandler, TypeOK
  <2>4. outcome' = "run" => outcome = "run" /\ schedret' = schedret
    BY <1>3 DEF AsyncHandler
  <2> QED
    BY <2>2, <2>3, <2>4
<1>4. CASE VgkillHandler(t)
  BY <1>4 DEF VgkillHandler, TypeOK
<1>5. CASE UserSendsSync(t)
  BY <1>5 DEF UserSendsSync, TypeOK
<1> QED
  BY <1>1, <1>2, <1>3, <1>4, <1>5 DEF SignalStep

-----------------------------------------------------------------------------
(* ExactlyOnce: which step decides what the guest is told about a call. *)

(* No call has been reported at the start. *)
LEMMA ExactlyOnceInit == Init => ExactlyOnce
PROOF
  BY DEF Init, ExactlyOnce, NoCall

(* Only the end of a call reports on it, from where the signal struck. *)
LEMMA ExactlyOnceStep ==
  ASSUME TypeOK, Interrupts, ExactlyOnce, NEW t \in Tids,
         ThreadStep(t) \/ ClientStep(t) \/ WaitStep(t) \/ SignalStep(t)
  PROVE  ExactlyOnce'
PROOF
<1> USE DEF Here, ExactlyOnce
<1>1. CASE UNCHANGED lastcall
  BY <1>1
<1>2. CASE lastcall' = NoCall
  BY <1>2 DEF NoCall
<1>3. CASE SyscallDone(t)
  BY <1>3 DEF SyscallDone, Interrupts, SyscallMatchesPlace, AfterKernel
<1>4. CASE AsyncHandler(t)
  BY <1>4 DEF AsyncHandler, Fixup, Interrupts, SyscallMatchesPlace, BeforeKernel,
     AfterKernel, TypeOK
<1>5. CASE VgkillHandler(t)
  BY <1>5 DEF VgkillHandler, Interrupts, SyscallMatchesPlace, BeforeKernel, AfterKernel
<1>6. ThreadStep(t) => UNCHANGED lastcall \/ lastcall' = NoCall
  BY DEF ThreadStep, StartThread, EndTimeslice, NextTimeslice, PollSignals, ThreadExit,
     LwpGone, Shutdown, Terminate
<1>7. ClientStep(t) => UNCHANGED lastcall \/ lastcall' = NoCall
  BY DEF ClientStep, Fault, SyncSyscall, SysRtSigreturn, SysSigaction, SysExit,
     SysExitGroup, SysSigkill, SysClone, SysCloneFails, SysCloneNoSlot, SysFork,
     SysExecve, SyscallAsync
<1>8. WaitStep(t) => UNCHANGED lastcall \/ SyscallDone(t)
  BY DEF WaitStep, YieldDone, ReapYield, ReapResume, Exec, UnblockSignals, LoadArguments,
     KernelCompletes, CommitResult, ReblockSignals, AsmStep
<1>9. SignalStep(t) => UNCHANGED lastcall \/ AsyncHandler(t) \/ VgkillHandler(t)
  BY DEF SignalStep, SignalArrives, VgkillArrives, UserSendsSync
<1> QED
  BY <1>1, <1>2, <1>3, <1>4, <1>5, <1>6, <1>7, <1>8, <1>9

-----------------------------------------------------------------------------
(* A signal from the environment, or none at all, disturbs no part. *)
LEMMA SendSignalKeeps ==
  ASSUME IInv, SendSignal
  PROVE  IInv'
PROOF
<1>0. outcome = "run" /\ outcome' = "run"
  BY DEF SendSignal, endVars
<1>1. /\ UNCHANGED <<threadVars, lockVars, sci, scss, queue, pc, ip, hsig, endVars, kernel,
                     lastcall>>
      /\ \A u \in Tids : pend'[u] \subseteq pend[u] \cup {"USR"}
      /\ \A u \in Tids : pc[u] = "none" => pend'[u] = pend[u]
  BY DEF SendSignal, IInv, TypeOK
<1>2. TypeOK'
  <2>1. pend' \in [Tids -> SUBSET HostSigs] /\ shared' \in SUBSET {"USR"}
    BY DEF SendSignal, IInv, TypeOK, HostSigs
  <2>2. sent' \in [async: 0 .. MaxAsync, sync: 0 .. MaxSync, calls: 0 .. MaxCalls]
    BY BoundsAssumption DEF SendSignal, IInv, TypeOK
  <2> QED
    BY <1>1, <2>1, <2>2 DEF IInv, TypeOK, threadVars, lockVars, endVars
<1>3. Control'
  BY <1>0, <1>1 DEF IInv, Control, SlotMatchesPlace, threadVars, lockVars, endVars
<1>4. Interrupts'
  BY <1>0, <1>1 DEF IInv, Interrupts, SyscallMatchesPlace, threadVars
<1>5. FatalSignalKnown' /\ ExactlyOnce'
  BY <1>0, <1>1 DEF IInv, FatalSignalKnown, ExactlyOnce, living, threadVars, endVars
<1>6. VgkillOnlyForExiting'
  BY <1>0, <1>1 DEF IInv, VgkillOnlyForExiting, is_exiting, threadVars, endVars
<1> QED
  BY <1>2, <1>3, <1>4, <1>5, <1>6 DEF IInv

(* A stuttering step keeps everything. *)
LEMMA StutterKeeps ==
  ASSUME IInv, UNCHANGED vars
  PROVE  IInv'
PROOF
<1> USE DEF vars, threadVars, lockVars, sigVars, endVars, IInv
<1>1. TypeOK' /\ Control'
  BY DEF TypeOK, Control, SlotMatchesPlace
<1>2. Interrupts' /\ FatalSignalKnown' /\ VgkillOnlyForExiting' /\ ExactlyOnce'
  BY DEF Interrupts, SyscallMatchesPlace, FatalSignalKnown, living, VgkillOnlyForExiting,
     is_exiting, ExactlyOnce
<1> QED
  BY <1>1, <1>2

(* The inductive step: every step of every thread keeps IInv. *)
LEMMA IInvStep == IInv /\ [Next]_vars => IInv'
PROOF
<1> SUFFICES ASSUME IInv, [Next]_vars PROVE IInv'
  OBVIOUS
<1>1. ASSUME NEW t \in Tids, ThreadStep(t) PROVE IInv'
  BY <1>1, TypeThreadStep, ControlThreadStep, InterruptsThreadStep, FatalThreadStep,
     VgkillThreadStep, ExactlyOnceStep DEF IInv
<1>2. ASSUME NEW t \in Tids, ClientStep(t) PROVE IInv'
  BY <1>2, TypeClientStep, ControlClientStep, InterruptsClientStep, FatalClientStep,
     VgkillClientStep, ExactlyOnceStep DEF IInv
<1>3. ASSUME NEW t \in Tids, WaitStep(t) PROVE IInv'
  BY <1>3, TypeWaitStep, ControlWaitStep, InterruptsWaitStep, FatalWaitStep,
     VgkillWaitStep, ExactlyOnceStep DEF IInv
<1>4. ASSUME NEW t \in Tids, SignalStep(t) PROVE IInv'
  BY <1>4, TypeSignalStep, ControlSignalStep, InterruptsSignalStep, FatalSignalStep,
     VgkillSignalStep, ExactlyOnceStep DEF IInv
<1> QED
  BY <1>1, <1>2, <1>3, <1>4, SendSignalKeeps, StutterKeeps DEF Next, Terminated

(* The conjunction behind all the safety theorems below holds always. *)
THEOREM Invariant == Spec => []IInv
PROOF
<1>1. Init => IInv
  BY TypeInit, ControlInit, InterruptsInit, FatalInit, VgkillInit, ExactlyOnceInit
     DEF IInv
<1> QED
  BY <1>1, IInvStep, PTL DEF Spec

(* Type correctness of the thread table, the lock and the control state,   *)
(* for any number of thread slots.                                         *)
THEOREM TypeCorrect == Spec => []TypeOK
PROOF
<1>1. IInv => TypeOK
  BY DEF IInv
<1> QED
  BY <1>1, Invariant, PTL

(* At most one thread is Runnable, it is the one VG_(running_tid) names    *)
(* and its LWP holds the_BigLock: the assertions of acquire_BigLock,       *)
(* release_BigLock and exit_thread in scheduler.c.                         *)
THEOREM OneRunnerAlways == Spec => []OneRunner
PROOF
<1>1. IInv => OneRunner
  BY DEF IInv, Control, SlotMatchesPlace, OneRunner
<1> QED
  BY <1>1, Invariant, PTL

(* A slot alloc_ThreadState may reuse has no LWP and no pending signal.    *)
THEOREM SlotsReusedSafely == Spec => []EmptySlotIsUnused
PROOF
<1>1. IInv => EmptySlotIsUnused
  BY DEF IInv, Control, SlotMatchesPlace, Interrupts, SyscallMatchesPlace,
     EmptySlotIsUnused
<1> QED
  BY <1>1, Invariant, PTL

(* The assertions of the host signal handlers in m_signals.c hold, also    *)
(* for signals sent by other processes at any moment.                      *)
THEOREM HandlersSafe == Spec => []HandlerFindsSyscall
PROOF
<1>1. IInv => HandlerFindsSyscall
  BY DEF IInv, Control, SlotMatchesPlace, Interrupts, SyscallMatchesPlace,
     HandlerFindsSyscall, WaitSysAt
<1> QED
  BY <1>1, Invariant, PTL

(* shutdown_actions_NORETURN always knows the signal to die of.            *)
THEOREM FatalSignalAlwaysKnown == Spec => []FatalSignalKnown
PROOF
<1>1. IInv => FatalSignalKnown
  BY DEF IInv
<1> QED
  BY <1>1, Invariant, PTL

(* SIGVGKILL is on its way only to threads marked to exit.                 *)
THEOREM VgkillJustified == Spec => []VgkillOnlyForExiting
PROOF
<1>1. IInv => VgkillOnlyForExiting
  BY DEF IInv
<1> QED
  BY <1>1, Invariant, PTL

(* An interrupted blocking syscall is restarted, or reported as EINTR,     *)
(* only if the kernel did not complete it, and has a result only if it did *)
(* (fixup_guest_state_after_syscall_interrupted).                          *)
THEOREM InterruptedOnce == Spec => []ExactlyOnce
PROOF
<1>1. IInv => ExactlyOnce
  BY DEF IInv
<1> QED
  BY <1>1, Invariant, PTL

(* A mark to exit is never taken back while the thread lives, but by the   *)
(* last thread's own final_tidyup.                                         *)
THEOREM MarksAreFinal == Spec => MarkIsFinal
PROOF
<1>1. IInv /\ [Next]_vars => KeepsMarks
  <2> SUFFICES ASSUME IInv, [Next]_vars PROVE KeepsMarks
    OBVIOUS
  <2> USE DEF KeepsMarks, is_exiting
  <2>1. ASSUME NEW t \in Tids, ThreadStep(t) PROVE KeepsMarks
    <3>1. CASE PollSignals(t)
      BY <3>1, PollMarks DEF PollSignals, IInv
    <3>2. CASE Shutdown(t)
      BY <3>2 DEF Shutdown
    <3> QED
      BY <2>1, <3>1, <3>2 DEF ThreadStep, StartThread, EndTimeslice, NextTimeslice,
         ThreadExit, LwpGone, Terminate
  <2>2. ASSUME NEW t \in Tids, ClientStep(t) PROVE KeepsMarks
    <3>1. CASE SysClone(t) \/ SysCloneFails(t)
      BY <3>1 DEF SysClone, SysCloneFails, alloc_ThreadState, empty_slots, IInv, TypeOK
    <3>2. CASE Fault(t)
      BY <3>2 DEF Fault, default_action
    <3>3. CASE SysExit(t) \/ SysExitGroup(t) \/ SysExecve(t)
      BY <3>3 DEF SysExit, SysExitGroup, SysExecve, IInv, TypeOK
    <3>4. CASE \E u \in Tids : SysSigkill(t, u)
      BY <3>4 DEF SysSigkill, IInv, TypeOK
    <3> QED
      BY <2>2, <3>1, <3>2, <3>3, <3>4 DEF ClientStep, SyncSyscall, SysRtSigreturn,
         SysSigaction, SysCloneNoSlot, SysFork, SyscallAsync, threadVars
  <2>3. ASSUME NEW t \in Tids, WaitStep(t) PROVE KeepsMarks
    BY <2>3 DEF WaitStep, YieldDone, ReapYield, ReapResume, Exec, UnblockSignals,
       LoadArguments, KernelCompletes, CommitResult, ReblockSignals, AsmStep, SyscallDone,
       threadVars
  <2>4. ASSUME NEW t \in Tids, SignalStep(t) PROVE KeepsMarks
    <3>1. CASE AsyncHandler(t)
      <4>1. hsig[t] \in ClientSigs \cup HostSigs
        BY <3>1 DEF AsyncHandler, IInv, Interrupts, SyscallMatchesPlace, Here
      <4> QED
        BY <3>1, <4>1, DeliverMarks DEF AsyncHandler, IInv, TypeOK
    <3> QED
      BY <2>4, <3>1 DEF SignalStep, SignalArrives, VgkillArrives, VgkillHandler,
         UserSendsSync, threadVars
  <2>5. CASE SendSignal \/ UNCHANGED vars
    BY <2>5 DEF SendSignal, vars, threadVars
  <2> QED
    BY <2>1, <2>2, <2>3, <2>4, <2>5 DEF Next, Terminated
<1> QED
  BY <1>1, Invariant, PTL DEF MarkIsFinal, Spec

-----------------------------------------------------------------------------
(* Records: between calls the record is idle and no jump buffer is live. *)

(* Nobody has made a call at the start. *)
LEMMA RecordsInit == Init => Records
PROOF
  BY DEF Init, Records, RecordMatchesPlace, WaitSysAt, Unmasked, ReapAt

(* No step that is not a syscall touches a record, but for the end of a    *)
(* thread, which drops its jump buffer.                                    *)
LEMMA RecordsThreadStep ==
  ASSUME TypeOK, Records, NEW t \in Tids, ThreadStep(t)
  PROVE  Records'
PROOF
<1> USE DEF Here, Goto, threadVars, lockVars, sigVars, endVars, TypeOK, Records,
    RecordMatchesPlace, WaitSysAt, Unmasked, ReapAt
<1>1. CASE StartThread(t) \/ NextTimeslice(t)
  BY <1>1 DEF StartThread, NextTimeslice
<1>2. CASE EndTimeslice(t)
  BY <1>2 DEF EndTimeslice, Client
<1>3. CASE PollSignals(t)
  BY <1>3 DEF PollSignals
<1>4. CASE ThreadExit(t)
  BY <1>4 DEF ThreadExit, exit_thread, mostly_clear_thread_record
<1>5. CASE LwpGone(t)
  BY <1>5 DEF LwpGone
<1>6. CASE Shutdown(t)
  BY <1>6 DEF Shutdown
<1>7. CASE Terminate(t)
  BY <1>7 DEF Terminate
<1> QED
  BY <1>1, <1>2, <1>3, <1>4, <1>5, <1>6, <1>7 DEF ThreadStep

(* A syscall starts with its record idle; clone leaves it so but yields    *)
(* with the jump buffer live, execve and a blocking call keep it in use.   *)
LEMMA RecordsClientStep ==
  ASSUME TypeOK, Control, Records, NEW t \in Tids, ClientStep(t)
  PROVE  Records'
PROOF
<1> USE DEF Here, Client, Spawns, Goto, threadVars, lockVars, sigVars, endVars, TypeOK,
    Records, RecordMatchesPlace, WaitSysAt, Unmasked, ReapAt
<1>1. CASE Fault(t) \/ SyncSyscall(t) \/ SysRtSigreturn(t)
  BY <1>1 DEF Fault, SyncSyscall, SysRtSigreturn
<1>2. CASE \E d \in Dispositions : SysSigaction(t, d)
  BY <1>2 DEF SysSigaction
<1>3. CASE SysExit(t) \/ SysExitGroup(t) \/ SysCloneNoSlot(t)
  BY <1>3 DEF SysExit, SysExitGroup, SysCloneNoSlot
<1>4. CASE \E u \in Tids : SysSigkill(t, u)
  BY <1>4 DEF SysSigkill
<1>5. CASE SysClone(t)
  <2>1. \A c \in empty_slots : c \in Tids /\ pc[c] = "none"
    BY <1>5 DEF SysClone, Control, SlotMatchesPlace, empty_slots
  <2> QED
    BY <1>5, <2>1 DEF SysClone, alloc_ThreadState
<1>6. CASE SysCloneFails(t)
  BY <1>6 DEF SysCloneFails
<1>7. CASE SysFork(t)
  BY <1>7 DEF SysFork, Only
<1>8. CASE SysExecve(t)
  BY <1>8 DEF SysExecve
<1>9. CASE SyscallAsync(t)
  BY <1>9 DEF SyscallAsync
<1> QED
  BY <1>1, <1>2, <1>3, <1>4, <1>5, <1>6, <1>7, <1>8, <1>9 DEF ClientStep

(* A call's record is given back by the step that regains the lock. *)
LEMMA RecordsWaitStep ==
  ASSUME TypeOK, Records, NEW t \in Tids, WaitStep(t)
  PROVE  Records'
PROOF
<1> USE DEF Here, Goto, threadVars, lockVars, sigVars, endVars, TypeOK, Records,
    RecordMatchesPlace, WaitSysAt, Unmasked, ReapAt
<1>1. CASE YieldDone(t)
  BY <1>1 DEF YieldDone
<1>2. CASE ReapYield(t) \/ ReapResume(t) \/ Exec(t)
  BY <1>2 DEF ReapYield, ReapResume, Exec
<1>3. CASE UnblockSignals(t) \/ LoadArguments(t) \/ KernelCompletes(t) \/ CommitResult(t)
            \/ ReblockSignals(t)
  BY <1>3 DEF UnblockSignals, LoadArguments, KernelCompletes, CommitResult,
     ReblockSignals, AsmStep
<1>4. CASE SyscallDone(t)
  BY <1>4 DEF SyscallDone
<1> QED
  BY <1>1, <1>2, <1>3, <1>4 DEF WaitStep

(* A signal that arrives by the kernel's mask finds one of the places that *)
(* are fixed up; only a SIGSEGV that is sent may find another.             *)
LEMMA RecordsSignalStep ==
  ASSUME TypeOK, Records, NEW t \in Tids, SignalStep(t)
  PROVE  Records'
PROOF
<1> USE DEF Here, Goto, threadVars, lockVars, sigVars, endVars, TypeOK, Records,
    RecordMatchesPlace, WaitSysAt, Unmasked, ReapAt
<1>1. CASE SignalArrives(t) \/ VgkillArrives(t)
  BY <1>1 DEF SignalArrives, VgkillArrives
<1>2. CASE AsyncHandler(t)
  BY <1>2 DEF AsyncHandler, FixedUp
<1>3. CASE VgkillHandler(t)
  BY <1>3 DEF VgkillHandler
<1>4. CASE UserSendsSync(t)
  <2>1. sent'.sync # 0
    BY <1>4 DEF UserSendsSync
  <2> QED
    BY <2>1
<1> QED
  BY <1>1, <1>2, <1>3, <1>4 DEF SignalStep

(* client_syscall finds the record of the previous call SsIdle and         *)
(* SCHEDSETJMP no live jump buffer, for any number of threads, calls and   *)
(* signals, as long as no other process sends a SIGSEGV.                   *)
THEOREM SyscallsStartIdle == Spec => []SyscallStartsIdle
PROOF
<1>1. IInv /\ Records /\ [Next]_vars => Records'
  <2> SUFFICES ASSUME IInv, Records, [Next]_vars PROVE Records'
    OBVIOUS
  <2>1. ASSUME NEW t \in Tids, ThreadStep(t) \/ ClientStep(t) \/ WaitStep(t) \/ SignalStep(t)
        PROVE  Records'
    BY <2>1, RecordsThreadStep, RecordsClientStep, RecordsWaitStep, RecordsSignalStep
       DEF IInv
  <2>2. CASE SendSignal
    BY <2>2 DEF SendSignal, Records, RecordMatchesPlace, IInv, TypeOK, threadVars, endVars
  <2>3. CASE UNCHANGED vars
    BY <2>3 DEF vars, threadVars, endVars, Records, RecordMatchesPlace
  <2> QED
    BY <2>1, <2>2, <2>3 DEF Next, Terminated
<1>2. IInv /\ Records => SyscallStartsIdle
  BY DEF Records, RecordMatchesPlace, SyscallStartsIdle, Client, Here, WaitSysAt,
     Unmasked, ReapAt
<1> QED
  BY <1>1, <1>2, RecordsInit, Invariant, PTL DEF Spec

-----------------------------------------------------------------------------
(* ShutdownIsAlone *)

(* Whoever is neither nothing nor a zombie lives. *)
LEMMA PlaceMeansLiving ==
  ASSUME TypeOK, Control, outcome = "run", NEW t \in Tids, pc[t] \notin {"none", "zombie"}
  PROVE  t \in living
PROOF
  BY DEF TypeOK, Control, SlotMatchesPlace, living, Statuses

(* A count of 1 is what a set with one thread has. *)
LEMMA AloneMeansOne ==
  ASSUME NEW t \in Tids, living = {t}
  PROVE  i_am_the_only_thread
PROOF
  BY FS_Singleton DEF i_am_the_only_thread

(* The thread that shuts down is the only one; every other end of a thread *)
(* leaves somebody, since the count of living threads was not 1.           *)
LEMMA AloneThreadStep ==
  ASSUME TypeOK, Control, ShutdownIsAlone, NEW t \in Tids, ThreadStep(t)
  PROVE  ShutdownIsAlone'
PROOF
<1> USE DEF Here, Goto, threadVars, lockVars, sigVars, endVars
<1>0. outcome = "run"
  BY DEF ThreadStep, StartThread, EndTimeslice, Client, NextTimeslice, PollSignals,
     ThreadExit, LwpGone, Shutdown, Terminate
<1>1. CASE StartThread(t) \/ EndTimeslice(t) \/ NextTimeslice(t) \/ LwpGone(t)
  <2>1. living' = living
    BY <1>0, <1>1 DEF StartThread, EndTimeslice, NextTimeslice, LwpGone, Client,
       acquire_BigLock, release_BigLock, TypeOK, Control, SlotMatchesPlace, LockAt,
       YieldAt, living
  <2> QED
    BY <1>0, <1>1, <2>1 DEF StartThread, EndTimeslice, NextTimeslice, LwpGone,
       ShutdownIsAlone, i_am_the_only_thread, ClientSigs
<1>2. CASE PollSignals(t)
  <2>1. outcome' \in {"run", "panic"}
    <3>1. ASSUME NEW s, NEW p, deliver_unless_ignored(t, s, p)
          PROVE  outcome' \in {"run", "panic"}
      BY <1>0, <3>1 DEF deliver_unless_ignored, deliver_signal, no_delivery, enter_handler,
         default_action, nuke_outcome
    <3> QED
      BY <1>0, <1>2, <3>1 DEF PollSignals, poll_signals, from_queue, from_kernel,
         no_delivery
  <2> QED
    BY <1>0, <1>2, <2>1 DEF PollSignals, ShutdownIsAlone, i_am_the_only_thread, living,
       ClientSigs
<1>3. CASE ThreadExit(t)
  <2>1. t \in living
    BY <1>0, <1>3, PlaceMeansLiving DEF ThreadExit
  <2>2. living # {t} /\ schedret = "None"
    BY <1>0, <1>3, AloneMeansOne DEF ThreadExit, ShutdownIsAlone
  <2>3. living' = living \ {t}
    BY <1>3 DEF ThreadExit, exit_thread, mostly_clear_thread_record, TypeOK, living
  <2> QED
    BY <1>0, <1>3, <2>1, <2>2, <2>3 DEF ThreadExit, ShutdownIsAlone, ClientSigs
<1>4. CASE Shutdown(t) \/ Terminate(t)
  <2>1. living = {t} /\ i_am_the_only_thread
    BY <1>0, <1>4, PlaceMeansLiving, OnlyOneLives DEF Shutdown, Terminate
  <2>2. CASE Shutdown(t) /\ RunLibcFreeres
    BY <1>0, <2>1, <2>2 DEF Shutdown, ShutdownIsAlone, i_am_the_only_thread, living,
       ClientSigs
  <2>3. CASE Terminate(t) \/ ~RunLibcFreeres
    <3>1. living' = {}
      BY <1>4, <2>1, <2>3 DEF Shutdown, Terminate, TypeOK, living
    <3>2. outcome' \in {"exit"} \cup Fatal
      BY <1>4, <2>3 DEF Shutdown, Terminate, Ending, TypeOK
    <3> QED
      BY <3>1, <3>2 DEF ShutdownIsAlone, Fatal, ClientSigs
  <2> QED
    BY <1>4, <2>2, <2>3
<1> QED
  BY <1>1, <1>2, <1>3, <1>4 DEF ThreadStep

(* Threads are born and forked off only while no shutdown has begun. *)
LEMMA AloneClientStep ==
  ASSUME TypeOK, Control, ShutdownIsAlone, NEW t \in Tids, ClientStep(t)
  PROVE  ShutdownIsAlone'
PROOF
<1> USE DEF Here, Client, Spawns, Goto, threadVars, lockVars, sigVars, endVars
<1>0. outcome = "run" /\ pc[t] = "loop"
  BY DEF ClientStep, Fault, SyncSyscall, SysRtSigreturn, SysSigaction, SysExit,
     SysExitGroup, SysSigkill, SysClone, SysCloneFails, SysCloneNoSlot, SysFork,
     SysExecve, SyscallAsync
<1>1. t \in living
  BY <1>0, PlaceMeansLiving
<1>2. CASE SysClone(t)
  <2>1. t \in living'
    BY <1>0, <1>1, <1>2 DEF SysClone, TypeOK, living, alloc_ThreadState, empty_slots
  <2> QED
    BY <1>0, <1>2, <2>1 DEF SysClone, ShutdownIsAlone, ClientSigs
<1>3. CASE SysFork(t)
  <2>1. t \in living'
    BY <1>1, <1>3 DEF SysFork, Only, living
  <2> QED
    BY <1>0, <1>3, <2>1 DEF SysFork, ShutdownIsAlone, ClientSigs
<1>4. CASE ~SysClone(t) /\ ~SysFork(t)
  <2>1. living' = living /\ schedret' = schedret
    BY <1>0, <1>1, <1>4 DEF ClientStep, Fault, SyncSyscall, SysRtSigreturn, SysSigaction,
       SysExit, SysExitGroup, SysSigkill, SysCloneFails, SysCloneNoSlot, SysExecve,
       SyscallAsync, release_BigLock, TypeOK, living
  <2>2. outcome' \in {"run", "panic", "noslots"}
    BY <1>0, <1>4 DEF ClientStep, Fault, default_action, nuke_outcome, SyncSyscall,
       SysRtSigreturn, SysSigaction, SysExit, SysExitGroup, SysSigkill, SysCloneFails,
       SysCloneNoSlot, SysExecve, SyscallAsync
  <2> QED
    BY <1>0, <2>1, <2>2 DEF ShutdownIsAlone, i_am_the_only_thread, ClientSigs
<1> QED
  BY <1>2, <1>3, <1>4

(* Waiting threads live; execve replaces the program only when alone. *)
LEMMA AloneWaitStep ==
  ASSUME TypeOK, Control, ShutdownIsAlone, NEW t \in Tids, WaitStep(t) \/ SignalStep(t)
  PROVE  ShutdownIsAlone'
PROOF
<1> USE DEF Here, Goto, threadVars, lockVars, sigVars, endVars
<1>0. outcome = "run" /\ pc[t] \notin {"none"} /\ schedret' = schedret
  BY DEF WaitStep, YieldDone, ReapYield, ReapResume, Exec, UnblockSignals, LoadArguments,
     KernelCompletes, CommitResult, ReblockSignals, AsmStep, SyscallDone, SignalStep,
     SignalArrives, VgkillArrives, AsyncHandler, VgkillHandler, UserSendsSync, Unmasked
<1>1. living' = living
  <2>1. CASE UNCHANGED status
    BY <2>1 DEF living
  <2>2. CASE acquire_BigLock(t) /\ pc[t] # "zombie"
    BY <1>0, <2>2, PlaceMeansLiving DEF acquire_BigLock, TypeOK, living
  <2>3. CASE ReapYield(t)
    BY <1>0, <2>3, PlaceMeansLiving DEF ReapYield, release_BigLock, TypeOK, living
  <2> QED
    BY <2>1, <2>2, <2>3
       DEF WaitStep, YieldDone, ReapResume, Exec, UnblockSignals, LoadArguments,
       KernelCompletes, CommitResult, ReblockSignals, AsmStep, SyscallDone, SignalStep,
       SignalArrives, VgkillArrives, AsyncHandler, VgkillHandler, UserSendsSync
<1>2. CASE Exec(t)
  BY <1>0, <1>1, <1>2 DEF Exec, ShutdownIsAlone, i_am_the_only_thread, ClientSigs
<1>3. CASE ~Exec(t)
  <2>1. outcome' \in {"run", "panic"}
    BY <1>0, <1>3 DEF WaitStep, YieldDone, ReapYield, ReapResume, UnblockSignals,
       LoadArguments, KernelCompletes, CommitResult, ReblockSignals, AsmStep, SyscallDone,
       SignalStep, SignalArrives, VgkillArrives, AsyncHandler, VgkillHandler,
       UserSendsSync, deliver_unless_ignored, deliver_signal, no_delivery, enter_handler,
       default_action, nuke_outcome
  <2> QED
    BY <1>0, <1>1, <2>1 DEF ShutdownIsAlone, i_am_the_only_thread, ClientSigs
<1> QED
  BY <1>2, <1>3

(* The count == 1 tests of run_a_thread_NORETURN, shutdown_actions and     *)
(* reap_threads cannot be overtaken: whoever shuts the process down, or    *)
(* replaces its program, is alone, and the process never runs on empty.    *)
THEOREM ShutdownAlwaysAlone == Spec => []ShutdownIsAlone
PROOF
<1>1. Init => ShutdownIsAlone
  <2>1. ASSUME Init PROVE 1 \in living /\ outcome = "run" /\ schedret = "None"
    BY <2>1, NAssumption DEF Init, living, Tids
  <2> QED
    BY <2>1 DEF ShutdownIsAlone, ClientSigs
<1>2. IInv /\ ShutdownIsAlone /\ [Next]_vars => ShutdownIsAlone'
  <2> SUFFICES ASSUME IInv, ShutdownIsAlone, [Next]_vars PROVE ShutdownIsAlone'
    OBVIOUS
  <2>1. ASSUME NEW t \in Tids, ThreadStep(t) \/ ClientStep(t) \/ WaitStep(t) \/ SignalStep(t)
        PROVE  ShutdownIsAlone'
    BY <2>1, AloneThreadStep, AloneClientStep, AloneWaitStep DEF IInv
  <2>2. CASE SendSignal \/ UNCHANGED vars
    <3>1. UNCHANGED <<status, outcome, schedret>>
      BY <2>2 DEF SendSignal, vars, threadVars, endVars
    <3> QED
      BY <3>1 DEF ShutdownIsAlone, i_am_the_only_thread, living
  <2> QED
    BY <2>1, <2>2 DEF Next, Terminated
<1> QED
  BY <1>1, <1>2, Invariant, PTL DEF Spec
=============================================================================
