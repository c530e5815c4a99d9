# Valgrind: a TLA+ verification project

This directory models the core of Valgrind (the SVN trunk between 3.3 and 3.4)
and parts of its tools in TLA+, checks the models with TLC on small instances,
and proves their safety properties with TLAPS for every size. The source is `src/`; `PROJECT.json`
maps every definition to the lines it stands for.

Valgrind runs a client program inside its own process. Guest code is translated
block by block and only ever executed as translated code; one client thread
runs at a time, under a lock; syscalls are made on the client's behalf, with
the lock dropped around those that may block; signals are intercepted and
delivered by hand. A tool (Memcheck, DRD, ...) supplies the instrumentation.
The project follows **amd64-linux** where the code differs by platform.

## 1. Inventory

### 1.1 Components

| Part | Source (`src/coregrind/` unless said) | State it keeps | Operations | Here |
|---|---|---|---|---|
| Scheduler, big lock | `m_scheduler/scheduler.c`, `sema.c`, `m_threadstate.c` | `threads[]` (status, exitreason, jump buffer), `running_tid`, the token pipe | acquire/release, timeslices, yield, exit, fork cleanup, nuke, reap | `Scheduler`, `Sema`, `BigLock` |
| Syscall control flow | `m_syswrap/syswrap-main.c`, `syscall-amd64-linux.S`, thread and process calls of `syswrap-linux.c`, `syswrap-generic.c` | `syscallInfo[t]` | client_syscall, its asm, fixup, post_syscall, clone, fork, execve, exit, exit_group, kill | `Scheduler` |
| Signals | `m_signals.c` | SCSS, per-thread queues, masks | arrival in each handler, polling, delivery, default action, SIGVGKILL | `Scheduler` |
| Shutdown | `m_main.c` | exit code, tidyup state | shutdown_actions, final_tidyup | `Scheduler` |
| Translation table | `m_transtab.c` | sectors (`tt`, `tc`, eclass lists), `tt_fast`, the unredirected table | add, search, discard, recycle | `TransTab`, `Unredir`, `Extents` |
| Redirection | `m_redir.c` | specs, `activeSet` | new/delete DebugInfo, lookup | `TransTab` (active set) |
| Translation driver, dispatcher | `m_translate.c`, `m_dispatch/` | none of its own | translate, chase_into_ok, fast lookup | `TransTab`, `Unredir` |
| Arena allocator | `m_mallocfree.c` | superblocks, free lists | malloc, calloc, memalign, realloc, free | `MallocFree`, `Heap` |
| Address space manager | `m_aspacemgr/`, the memory calls of `m_syswrap/syswrap-generic.c` | the segment array, file names | advise, notify, reserve, extend, move, sync check | `NSegments`, `ASpaceMgr` |
| DRD | `src/drd/` | threads, segments, vector clocks, conflict set, mutexes, barriers | access, create, join, lock, unlock, wait | `Drd` |
| Memcheck | `src/memcheck/` | chunk table, freed queue, shadow state; shadow map, V-bit table | malloc wrappers; set/copy permissions, leak search | `McHeap` (the first three) |
| Containers | `m_oset.c`, `m_wordfm.c`, `m_hashtable.c`, `m_xarray.c` | AVL trees, chains | insert, remove, iterate | planned |
| Stacks | `m_stacks.c` | registered stacks | register, change, unknown_SP_update | planned |
| Contexts, errors | `m_execontext.c`, `m_errormgr.c`, `m_stacktrace.c` | context table, error list | record, resize, suppress | planned |
| Helgrind, Massif, Cachegrind, Callgrind | their directories | see PROJECT.json | | planned, last |
| VEX | `src/VEX/` | none that outlives a call | guest code to host code | not modelled |
| Debug info readers, demangler, frames and images, library layer, launcher, AIX port, experimental tools | see PROJECT.json | | | not modelled |

The last rows are pure functions, sequential parsing, layout and formatting, or
a second platform; PROJECT.json gives the reason part by part. VEX and the
benchmark programs under `src/perf/` make up most of the repository's lines.

### 1.2 How the parts interact

* A client thread is an LWP in `VG_(scheduler)`. It holds `the_BigLock` from
  the top of the loop until a timeslice ends, a blocking syscall starts or it
  exits. Everything the core keeps (tables, arenas, tool state) is protected by
  that lock alone.
* A blocking syscall drops the lock, unblocks host signals and enters the
  kernel from a few lines of assembly; a signal handler that runs there takes
  the lock, works out from the interrupted program counter what became of the
  call, and jumps back into the scheduler.
* Threads are made to exit by a mark (`exitreason`) plus SIGVGKILL to get them
  out of a syscall; the last one runs the shutdown.
* The dispatcher finds translations in `tt_fast`; a miss returns to the
  scheduler, which searches the table, translates and adds. munmap, mprotect,
  self-modifying code, client requests and redirections discard.
* The address space manager is asked where a mapping may go (advise), and told
  afterwards what the kernel did (notify). It never asks the kernel; its array
  is the only record of who owns a page, and its mark on a segment decides
  whether an unmapped page's translations are discarded.
* Arenas take superblocks from the address space manager. The client's heap is
  one of them: a replaced malloc is a client request that ends in the tool,
  which takes the block from the client arena and keeps its own table of it.
* DRD sees accesses, and the client's pthread calls as client requests, on the
  LWP of the running thread, under the lock.

### 1.3 What is hard

Concurrency is real in the scheduler and signals: every instruction between
dropping and taking the lock can be interleaved, every instruction of the
syscall assembly can be interrupted, and a dying LWP frees its slot without the
lock. The translation table is sequential, but its four views of the same fact
(tt, class lists, code area, fast cache) are updated by operations whose long
sequences no test reaches. The same holds of the segment array against the
kernel's map, of an arena's free lists against the blocks they thread, and of
DRD's cached conflict set, reference counts and clocks against the program's
own happens-before. PROJECT.json lists these hazards one by one with the
properties that cover them.

## 2. Modules

| Module | Models | Notes |
|---|---|---|
| `BigLock` | what the lock promises | abstract specification |
| `Sema` | `sema.c`, byte by byte | implements `BigLock` |
| `Scheduler` | threads, syscalls, signals, exit, shutdown | uses `BigLock`'s actions |
| `MCScheduler` | TLC instances of `Scheduler` | sets of dispositions |
| `Extents` | `VexGuestExtents`, `overlaps` | shared by the two tables |
| `TransTab`, `MCTransTab` | the main table, the fast cache, active redirections | |
| `Unredir`, `MCUnredir` | the table of unredirected translations | |
| `Heap` | what an allocator promises | abstract specification |
| `MallocFree` | one arena | implements `Heap` |
| `McHeap`, `MCHeap` | Memcheck's heap on the client arena | composes with `MallocFree` |
| `Drd` | DRD | with a happens-before history beside it |
| `NSegments` | the segment array: pure operators | |
| `ASpaceMgr` | the memory system calls on it | with the kernel's map beside it |
| `SchedulerProofs`, `SemaProofs`, `TransTabProofs`, `UnredirProofs`, `ASpaceMgrProofs` | theorems on the specification of that name | section 4 |
| `DrdProofs` | theorems on `Drd`: reference counts, order of clocks, conflict set | section 4 |
| `DrdRaceProofs` | theorems on `Drd`: what is reported is a race, and the converse | extends `DrdProofs` |
| `McHeapProofs` | theorems on `McHeap`, and the lemmas on the operators of `MallocFree` | section 4 |

`Sema` shows that the pipe is a lock; `Scheduler` is written against that lock
and not against the pipe, so the two state spaces do not multiply. `TransTab`
and `Unredir` share no variable in the code either, so they are two
specifications: `discard_translations` ends with a call of
`unredir_discard_translations`, which is `Unredir`'s action.

### 2.1 Scheduler

`pc[t]` is where the LWP of slot `t` is; the module's header lists the places.
A step reaches from one point where the code drops or takes the lock, or can be
hit by a host signal, to the next. So

* everything a thread does between acquiring and releasing the lock is one
  action (`SysExitGroup`, `SysExecve`, `PollSignals`, ...), including the
  signals it sends, the poll it asks for (place `poll`: no other action of that
  thread is enabled there, and the lock is held) and the yield of a clone;
* the unlocked part of a blocking call is one action per address range that
  `fixup_guest_state_after_syscall_interrupted` tells apart;
* the locked half and the unlocked half of a thread's exit (`ThreadExit`,
  `LwpGone`) are two actions.

`lastcall` and `kernel` are history variables: what the guest was told about
its last blocking call, whether the wrapper's post handler ran, and what the
kernel had really done. `sent` only counts against the bounds.

Data abstracted: signals are one asynchronous client signal (USR), one
synchronous one (SEGV) and SIGVGKILL; `sig_mask` is both `sig_mask` and
`tmp_sig_mask`, which differ only inside sigsuspend; `lwp[t]` is whether
`os_state.lwpid` (and `threadgroup`) is set; exit codes are left out. The
quantum (`dispatch_ctr`) is the nondeterministic `EndTimeslice`.
`nuke_outcome` has the outcome "panic" exactly where a Zombie can turn Empty
between a test and an assertion that runs without regard to it.

Left out of this version: sigprocmask by the client, SA_ONESHOT and SA_NOMASK,
sigsuspend, sigaltstack, overrun of the eight-element signal queue (queues are
sets), a handler installed for SEGV, and the parent's side of a fork (it
changes nothing here). A handler's frame always finds room: that
push_signal_frame fails and the thread dies of a forced SIGSEGV
(m_signals.c:1391) is not modelled. Nor are two things post_syscall may do when
it is called for an interrupted call: poll for signals (syswrap-main.c:1095),
and run a post handler that asked to be run on failure. `__libc_freeres` is
assumed to start no thread, process or program.

### 2.2 Sema

One action per read, write and assignment; EINTR retries; the child of a fork;
and a handler that interrupts `sema_down` or `sema_up` between the token and
the owner and calls `sema_down` itself. The mapping to `BigLock` is
`holderOf`: the LWP that has the token out of the pipe. Not modelled is the
window in which a signal finds `owner_lwpid` already set, or not yet cleared,
while the thread's status is still or already WaitSys (scheduler.c:215 to 221
and 256 to 271): a handler that takes the lock there fails the assertion at
sema.c:96.

### 2.3 TransTab

`handle_tt_miss` is the dispatcher's miss: search, translate, add. What VEX
makes of an address is any member of `Blocks` that starts there and chases into
no redirected place; how long its host code is, any member of `CodeSizes`.
`Discard` stands for every caller of `discard_translations` with a range of at
least one byte (range 0 returns at once). `tc` holds at each ULong the
translation whose code starts there; `NoCode` stands for the inside of a
translation, for free space and, as a ghost of what the code cannot see, for
code that a discard was meant to remove. `tte2ec` is a function from class to
index, where the code has two parallel arrays.

Hash function, sizes, bins and blocks are constants. Left out: statistics, tool
notifications, growth of the class lists' arrays (they are sequences), a failed
translation (changes nothing), and the segment flag `hasT`, by which the
address space manager skips discards that would find nothing: that is
`ASpaceMgr`'s subject.

### 2.4 Unredir

Slots with a high water mark over a code area that only grows, dumped when
either is full. `search_unredir_transtab` accepts any match: `OnePerAddress`
shows there is at most one.

### 2.5 MallocFree, McHeap and Heap

An arena is a record and a C function an operator from arenas to arenas, so
that realloc and memalign are compositions of the same operators as in the
code. `blk` gives each block's size and in-use bit (the two size fields of a
block always agree: both are written together), a free list is a sequence, and
`sblocks` the sorted array that `findSb` searches. Where the address space
manager puts a superblock, and whether it has one, is a choice; so is the arena
(the client's, whose allocation may fail, or another, where failure ends the
program).

`McHeap` adds Memcheck's table of chunks, the queue of freed blocks, and the
bytes that are addressable and defined; the client may also announce blocks of
its own allocator. `content` is a history: how many leading bytes of a block
the client may count on. `HeapSpec` shows that what callers hold is a `Heap`:
regions apart and aligned, and a moved block lies beside its old place.
Where a superblock comes from is `ASpaceMgr`'s subject; here it is any aligned
hole, which is more than aspacemgr-linux.c would give. The tool's
`--alignment` is the default, VG_MIN_MALLOC_SZB, and a block announced by the
client has malloc's redzone, where MALLOCLIKE and FREELIKE carry one of their
own.

### 2.6 Drd

`seg` holds the segments by address, `list` each thread's segments, oldest
first; bitmaps are sets of accesses. An action is one event of drd_main.c or
drd_clientreq.c with everything it causes: new segment, combination of clocks,
discards, merging, the conflict set. `Scheduled(t)` is the switch of the
running thread, which may come before any event.
`made`, `past`, `unlocked` and `arrived` are a history of the client program:
which accesses happened before a thread's next step, computed from create,
join, lock, unlock and barriers alone. `NoFalseRace` and `NoRaceIsLost` compare
the two: DRD reports exactly the accesses unordered in the history, with
`--segment-merging=no`; with merging, the default, see section 6.

A wait at the barrier is two requests, PRE_BARRIER_WAIT and POST_BARRIER_WAIT,
with the wait of the C library between them. Once a round is complete
(`Released`) its threads have returned, but DRD hears of it only by the second
request, and others run in between. They may arrive for the next round, and
they may destroy the barrier and initialize it again (`BarrierDestroy`,
`BarrierInit`): `barrier.exists` is whether clientobj has it, and a thread whose
barrier has gone waits in round `Gone`. `BarrierPostWait` then returns at once
if there is no barrier (drd_barrier.c:355), and otherwise makes a node without
segments for the thread (:365 to 381) and goes on as usual. The history gives
such a thread its past when the barrier is destroyed, for it has returned by
then. `arrived.unseen`, also history, is whether that has ever happened;
`NoFalseRace` and `NoRaceIsLost` are stated as long as it has not
(`ReturnsSeen`), since neither holds after it (section 6).

Not modelled: a wait that fails (`waited` false changes nothing), gomp barriers
and their reinitialization with another count, initializing a barrier that
exists (reported, and nothing changes), waiting at one that does not (an
assertion), and memory with a mutex or a barrier in it that is freed.

### 2.7 NSegments and ASpaceMgr

`NSegments` has an operator for each function of aspacemgr-linux.c that reads
or changes the array; addresses are pages. Binary search is "the segment that
holds the page"; preening is a left-to-right merge followed by the release of
unused names. `am_get_advisory` returns its answer and whether the holes it
looked at satisfy its assertions: it may abort, and actions do so with it
(`Dies`).

`ASpaceMgr` has an action per system call, PRE handler, kernel and POST handler
together: they run with the big lock held. `kern` is the kernel's map, page by
page, and external. `trans` is the set of translated blocks as pages, with up
to two extents; `stale` those of them whose pages changed without a discard;
`vmaps` what Valgrind mapped for itself; `clobbered` the pages a floating
request or a growing segment has overwritten. `brk` counts in half pages, so
that rounding matters. The object files that debug information is read from are
mapped and unmapped by Valgrind at any time.

Assumed: requests of whole pages that do not wrap around (others are refused
before anything changes); --smc-check=none; shared memory segments of one page
(see section 6); a kernel whose failed calls change nothing; and, in the passing
run, blocks that do not run from one segment into the next (`CrossSegments`).

## 3. Runs

| Run | Instance | Shows |
|---|---|---|
| `sched_life` | 2 slots, 1 async signal, 2 clones/forks, default disposition, fair | one runner, safe slot reuse, marks are final, SIGVGKILL only for those who exit, shutdown alone, fatal signal known; marked threads stop, execve's wait ends, waiters run |
| `sched_signals` | 2 slots, all dispositions, 2 async signals, 1 sent SEGV, 1 clone/fork | handlers' assertions, exactly-once calls, clean record for the next call; the inductive invariant of the proofs |
| `sema` | 3 LWPs, 4 letters, fair | one token, refinement of `BigLock`, every waiter gets the token |
| `transtab` | 2 sectors of 3 slots (2 usable), 3 ULongs of code, 3 addresses, 4 blocks, 2 bins | fast cache, search, class lists and counts agree and only lead to current code |
| `unredir` | 3 slots, 5 ULongs, 4 addresses, 5 blocks | code current, one per address |
| `drd` | 3 threads, 1 address, 1 mutex, 1 barrier of 2, 5 synchronisations | exactly the real races are reported, as long as returns from the barrier are seen before it is destroyed; conflict set, reference counts and clocks in order |
| `mcheap` | 144 bytes of space, 3 request sizes, 3 blocks, two kinds of arena | arena sane, chunks own their blocks, shadow state right, queue bounded, growth only when full, refinement of `Heap` |
| `aspacem` | 14 pages, 3 calls, 1 translated block at a time | array sane and equal to the kernel's map, Valgrind keeps its pages, nothing stale, translated pages marked, nothing overwritten |
| `find_exit_group`, `find_merge`, `find_barrier`, `find_stale` | small | section 6 |

Deadlock is checked in the runs of the scheduler, `Sema` and the tables: the
scheduler can always move, and a process that has ended stutters
(`Terminated`). In `drd`, `mcheap` and `aspacem` a behaviour may stop: the
program has used up its bound, or an assertion or failed allocation has ended
it.

### Bounds

* `N` = 2: slot reuse needs two, and the interesting interleavings are of one
  thread with its own signals and one other. What needs a third thread (a
  caller, one in a syscall and one that dies or is born) is covered by the
  proofs, which are for every `N` and state every invariant of these runs, and
  with `N` = 3 the invariants and `MarkIsFinal` of `sched_life` were also checked
  by TLC, without the fairness (1.8 million states). Only its three liveness
  properties are for two slots alone.
* `MaxAsync`, `MaxSync`, `MaxCalls` bound what the environment sends and how
  many threads and processes are made. A second asynchronous signal makes one
  pend while another is handled, with a change of disposition between. A
  second clone reuses a slot.
* `Letters` is the alphabet of `sema_char`; 4 suffices for it to wrap around,
  26 only makes the cycle longer.
* `N_SECTORS` = 2 lets a sector be recycled while the other is in use;
  `N_TTES_PER_SECTOR` = 3 with 2 usable keeps the code's rule that one slot
  stays free; all addresses collide, so every probe sequence is as long as it
  can be and crosses the end of the array. `tc_sector_szQ` = 3 with code of 1
  or 2 ULongs fills `tc` before and after `tt`. The blocks lie in one bin,
  across two, and in two extents of different bins. The one redirection starts
  where a block may have chased to and leads to a block across two bins.
* `N_UNREDIR_TT` = 3, `N_UNREDIR_TCQ` = 5: both ways to be full happen, with
  one or more free slots left below the mark.
* `Drd`: three threads let an id be reused while two others are alive. One
  remembered access (`MaxMade` = 1) suffices: a false or a lost race is about
  one earlier access and the next one, and bitmaps are unions, so leaving out
  the other accesses takes away neither. `MaxSyncs` = 5 is create, lock,
  unlock, lock and join, or two rounds of the barrier, or a round, the barrier
  destroyed (which counts too) and initialized, and an arrival there. Only thread 1 creates
  and joins, one of the orders the code takes for granted.
* `McHeap`: sizes are scaled so that overhead (12), payload granularity (4) and
  redzone keep their proportions; requests of 0, 7 and 33 bytes are a block
  without payload, one that splits a superblock, and one that nearly fills it;
  three blocks give every combination of free and used neighbours, and up to
  three superblocks come in any order into an array that starts with room for
  one. An instance with four blocks was checked too and adds no new case.
* `ASpaceMgr`: pages 2 to 10 are the manager's; below and above lie mapped
  pages it does not place (the executable, Valgrind's image with the trampoline
  page), as on a 32-bit host. Requests start at the executable (1), in free
  space (5, 6) and at the stack (10) and are one or two pages long, so that
  they reach over each boundary; hints and fixed requests may fall on
  reservations. Files are mapped from page 1 on, and the executable from page 0.
  With both offsets (`Offsets` = {0, 1}, 404,861 states) the invariants were
  checked too, and the theorems are for any. Three calls, with translations
  before and between them, are enough to split, merge and take away; what is translated
  after the last call nothing can happen to.

### Fairness

Only `sched_life`, `find_exit_group` and `sema` use fairness.

* Weak fairness of everything a thread does while it holds the lock or runs on
  its own without waiting (`GoesOn`): the code has no waiting there.
* Strong fairness of taking the lock (`GetsLock`; `ReadToken`): readers of a
  pipe queue in the kernel. Weak fairness would not do, since the lock is not
  continuously free.
* Strong fairness of `EndTimeslice`: `dispatch_ctr` decreases with every block
  run and is only set back at a new slice.
* Nothing is assumed of the client, of the kernel completing a blocking
  syscall, or of who sends signals. So `MarkedThreadStops` really rests on
  SIGVGKILL.

## 4. Proofs

All are for arbitrary constants within the modules' assumptions; a theorem that
needs more of them says so, below and in its ASSUME.

* **Scheduler.** `IInv` = `TypeOK` /\ `Control` /\ `Interrupts` /\
  `FatalSignalKnown` /\ `VgkillOnlyForExiting` /\ `ExactlyOnce`. `OneRunner`
  and `HandlerFindsSyscall` are not inductive: nothing in them says that an LWP
  that is about to take the lock has the status the code asserts. `Control`
  ties `pc`, status and holder of every slot together, and `Interrupts` what a
  place inside a syscall implies (record in use, jump buffer live, LWP known,
  kernel done or not, also for the place a handler interrupted). From it follow
  `OneRunnerAlways`, `SlotsReusedSafely`, `HandlersSafe`,
  `FatalSignalAlwaysKnown`, `VgkillJustified`, `InterruptedOnce` and the action
  property `MarksAreFinal`. Each conjunct has a lemma per group of actions.
  The last thread's case needs a cardinality argument (`OnlyOneLives`): if one
  thread is living and t is, nobody else is.
  `SyscallsStartIdle` takes a second invariant beside `IInv`, `Records`: at
  every place outside a call the record is idle and no jump buffer is live,
  unless a SIGSEGV was sent (section 6). `ShutdownAlwaysAlone` needs that the
  places of the shutdown are reached with a count of one living thread, and that
  such a thread makes no other; it follows from `Control` and cardinality.
* **Sema.** `TokenInv` (types and `OneToken`) is inductive and gives
  `OneTokenAlways` and `SemaTypeCorrect`; `SemaIsALock` then
  shows that every step is a step of the abstract lock or a stutter: the steps
  of reading and writing the byte are `Take` and `Give`, the others leave
  `holderOf` alone. Fork's child keeps the holder.
* **TransTab.** `FastCodeIsCurrent` and `SearchFindsCurrentCode` are not
  inductive: that the fast cache and a search lead to current code depends on
  discards finding every translation, which depends on the class lists, which
  depend on deletions leaving the right marks. `TInv` has, sector by sector
  (`SectorOK`): types; the count (`Counted`); translations and class lists that
  name each other (`LinkedForth`, `LinkedBack`); no Empty slot on the way from
  its home slot to a translation (`Chained`); host code where the entry says,
  below `tc_next` (`Coded`); and over all sectors at most one translation per
  address (`OneEach`), translations that begin where the redirections say
  (`RedirsHonoured`), and fast entries that name a live one (`FastPoints`).
  Each operation on a sector (insertion, deletion, discard of a set, recycling)
  has a lemma that it keeps `SectorOK`; the theorems put the sectors together.
  The geometry (sectors, slots, code area, classes, hash) is arbitrary.
* **Unredir.** `UInv` = `TypeOK` /\ `CodeIsCurrent` /\ `OnePerAddress`. A
  discard looks only below the high water mark, so currency needs that no slot
  above is in use; that new code overwrites none in use needs that all code in
  use begins below `unredir_tc_used`. The choice of the least free slot is
  handled by `MinIsMember`, from the well-foundedness of the naturals.

* **NSegments.** The first part of `ASpaceMgrProofs`. The lemmas describe an operator on the array by what it does to
  the segment of each page (`At(segs, p)`) and not by the array it builds: a
  split gives pieces of the old segments (`Pieces`); a merge segments that hold
  the old ones (`Holds`); `add_segment` places its segment and leaves every
  other page with a segment that is like the one before (`Placed`, `Like`:
  the same but for its ends, with the offset moved along). On top of these stand
  the notifications (`RecordMapping`, `NotifyMunmap`, `NotifyMprotect`), the
  reservations (`CreateReservation`, `ExtendUp`, `ExtendDown`) and `Advice`:
  a place that `am_get_advisory` returns for a floating request lies within the
  limits and is vacant in all its pages. That preening keeps all this is an
  induction over the array; the library's induction theorem is out of reach,
  so it is made by the least index at which the claim would fail (`LeastNat`,
  from the well-foundedness of the naturals).
* **ASpaceMgr.** `AInv` is `IsSpace` /\ `Preened` (the array and its table of
  names) /\ `MatchesKernel` /\ `ValgrindKeepsItsPages` /\ `NothingClobbered`
  /\ `OwnRanges` /\ `BrkInRange`, with `NoStaleTranslation` and
  `FromMarkedPages` where blocks stay in their segments. `MatchesKernel` alone
  is not inductive: a merge may only keep offsets right if the segments tile the
  space, a name is only safe to release if every segment's index names its file,
  an unmapping by Valgrind only leaves the others alone if its ranges are apart,
  and brk's arithmetic only stays in the address space if the break is within
  the data segment. `NoStaleTranslation` needs that every page of a translated
  block has a marked segment. Every action is shown page by page: `PageStep` is
  what one page's segment, mapping and translations must do, `OwnStep` the same
  for ownership, and `Carry` says that a step that is both everywhere keeps the
  invariant. The theorems hold for any number of pages, any layout and limits,
  any set of requests that do not wrap around, and any number of calls. They
  have hypotheses that the code needs: `ShmPages = 1` for all (section 6: a
  longer one that has been cut in two leaves the array wrong), and
  `~CrossSegments` for `TranslationsAreFresh` and `MarksCoverTranslations`
  (`find_stale` shows why).

* **MallocFree.** `ArenaInv(a)` is `Sane` /\ `Merged` /\ `Counted`: superblocks
  apart, inside the address space and in increasing order in `sblocks`
  (`Superblocks`); blocks that are aligned, large enough, disjoint and cover
  every superblock from its first payload byte to its end (`Tiled`); free lists
  that hold the free blocks, each once and by size (`Linked`); no two free
  neighbours; both byte counts. `Merged` does not hold in the middle of an
  operation: arena_free links its block before it merges it with the next and
  the previous one. And the free fragment that memalign leaves below the aligned
  block is merged with nothing: the block before it must be in use
  (`UsedBefore`), as it is because the base block has just been taken from a
  free one, whose neighbours are not. So the lemmas on the parts of an operation
  (`mkInuseBlock`, `mkFreeBlock`, linking, unlinking) keep `Sane` and say what
  becomes of the two maps from addresses to sizes that matter, `UseOf` and
  `FreeOf`, and those on a whole arena_malloc, arena_memalign or arena_free give
  `ArenaInv` again.
  findSb's binary search is a recursive function: that it finds the superblock
  of every address in one is shown by the shortest interval on which it would
  fail; sums are taken element by element over finite sets. `NoHits` is what
  `GrowsOnlyWhenFull` rests on: listNo_of is monotone, so no list below the
  request's own holds a block that is large enough.
* **McHeap.** `HInv` (theorem `HeapInvariant`) adds to `ArenaInv`: what callers
  hold are the payloads of the blocks in use, aligned and with room for what was
  asked for (`Holds`); live and queued chunks share these out (`Owned`); shadow
  memory is the union of the chunks' bytes (`Shadow`); the queue's volume is its
  sum and within its limit (`Within`). None of the invariants of the run is
  inductive alone: that freeing a chunk takes away no byte of another
  (`ShadowMatches`) needs that chunks lie apart, which follows from tiling; that
  a block in the queue is freed once needs `Owned`; that the queue never counts
  more than is on loan (`QueueWithinVolume`) needs that queued chunks are
  different blocks, each at least as large as its chunk. `HeapStep` shows that
  every step keeps `HInv` and is one of four changes of what callers hold
  (`Changed`: none, some taken back, one lent out of an arena that grew only for
  it and some taken back, one resized in place); the action property
  `GrowsOnlyWhenFullHolds` and the refinement `HeapSpecHolds` follow from that
  summary and from `HInv'`. All for any sizes, alignments, redzone, page size,
  list bounds, space and number of blocks. The assumptions on constants are the
  asserts of arena_init and arena_memalign, that superblocks come in multiples
  of the page, and that the client's own allocator has its memory elsewhere, with
  its blocks a redzone apart (`CustomAssumption`): Memcheck believes what the
  client announces, so without that nothing can be said of the shadow memory.

* **Drd, references.** `RefCountsHold` is for any number of threads, addresses,
  mutexes and segments, any barrier and any set of participants and parents. A
  step of DRD is a composition of operators on the record S = [seg, list, run,
  cset], so the invariant is stated on such a record together with who refers
  to its segments from outside: `Owned(S.seg, S.list, x)` says that the count of
  a segment is one for its list, plus `x[i]` for mutexes and barrier nodes.
  Each operator has a lemma that it keeps `DState` and `Owned`, with the `x` it
  leaves; `Held` adds that the lists hold segments of their own thread, each
  once, that ids without a thread have no segments, nodes or lists, and that a
  barrier that does not exist has no nodes and no arrivals.
  The minimum of the clocks, the pass that merges and the combination of the
  others' clocks are recursive functions; what is claimed of them is shown by
  the least argument at which it would fail (`LeastNat`).
* **Drd, clocks and conflict set.** `ClocksInOrderHold` and `ConflictSetHold`
  rest on `Ranked`: `InOrder` (a list's clocks increase, and nobody knows more of
  a thread than its latest segment) and `Current` (the cached set). Neither
  is kept by each operator separately: a new segment is appended before the set
  is computed, a clock is combined before segments are discarded, and a discard
  may only drop segments that are ordered before the running thread's latest,
  which is where the order of clocks is needed (the loop stops at the first
  segment that is not below the minimum). The hypothesis is
  `Parents \subseteq {1}`: the main thread creates and joins the others. It is
  needed: if thread 2 joins 3 and thread 1, which knows nothing of that, then
  creates a thread, the new owner of the id starts from a lower count than
  segments elsewhere have seen, and TLC finds `ClocksInOrder` violated.
* **Drd, races.** `NoFalseRaceHolds` and `NoRaceIsLostHolds` compare DRD's clocks
  with the history, which no operator of DRD mentions. `PlotNow` ties them by a
  date `at[e]` for each remembered access e, a count of the clock of e's thread:
  e happened before a thread's next step if and only if that thread's clock has
  reached the date (`Heard`), and the same for what a mutex hands on and for the
  round of the barrier that is being left (`Told`). It is only stated that such
  dates exist; each action says how they go on (an access gets its thread's
  present count, the others keep theirs). Around this stand: an access in a
  segment has a date not before it (`Evident`), so that merging moves accesses
  to older segments only; what some thread has not heard of is in a segment
  still (`Kept`); what is in the conflict set has not been heard of by the
  running thread (`Hits`); accesses since the last synchronization of any thread
  are in latest segments (`Stamped`), for the history tells accesses apart
  only by that. `Scene` is about clocks alone: who has heard of a segment knows
  all it knew (`Informed`), nobody has heard of a thread's latest count
  (`Fresh`) except while a round is being left: DRD combines clocks into a
  thread's last segment, which others may have seen by then, and that is
  harmless only because they know the same (`Gap`, `Lead`); a mutex's segment is
  one its last owner remembers (`Knows`). `Gate` says that DRD's counters of the
  barrier are the client's. All operators and actions are shown for any number
  of threads, addresses, mutexes, segments and steps. The hypotheses, which the
  `drd` run's constants satisfy: `Parents \subseteq {1}`, as above; no more
  participants than the barrier's count (`find_barrier`); and, if there are
  participants, the main thread is one. Without the last TLC refutes
  `NoFalseRace` (section 6, "Of DRD"). The invariant is `ReturnsSeen => PlotNow`:
  the dates are only kept up as long as no barrier has been destroyed before a
  POST_BARRIER_WAIT, which is also the condition in the two properties. It
  cannot be left out, and `ReturnsSeen` never becomes true again. The
  destruction of a barrier whose returns have been seen, and a new one at the
  same place, are covered.

### Only model-checked

* Liveness under fairness (`MarkedThreadStops`, `ReapEnds`, `WaiterRuns`,
  `WaiterGetsToken`): out of the prover's reach.

Every other property of a passing run is stated by a theorem.

## 5. What the runs found to hold that was not obvious

* A redirection's two discards (of one byte at `from` and at `to`) do find every
  translation whose meaning changes, even those keyed by another address: VEX
  never chases into a redirected place, and a translation redirected to `to`
  starts there.
* A discard that looks only at the list of its own bin and at ECLASS_MISC
  misses nothing, as no extent is long enough to go round all bins.
* A SIGVGKILL that is pending when the last thread takes back its own mark is
  not taken by `poll_signals`, because final_tidyup blocks everything first;
  the next blocking syscall of libc_freeres meets it, and is dropped.
* As long as it is told of every return from a barrier before the barrier is
  destroyed, DRD without merging neither invents nor loses a race, although it
  never looks at a segment twice: locks of a mutex combine clocks only with its last
  unlocker, and a reused thread id goes on counting where the old one stopped.
* Client mappings inside the reservations of the data segment and the stack do
  not get overwritten by later growth: what is left of the reservation keeps
  its mode, and growth needs one whole page of it to remain.

## 6. Where comments and code disagree

Each has a run that shows it, and an entry in PROJECT.json with the lines.

* **exit_group** (`find_exit_group`): compares thread groups that a new thread
  fills in only when it first gets the lock, so it does not mark one.
* **DRD's segment merging** (`find_merge`): `vc_min` does not step past an id
  that it found in both clocks, so ordered segments are never discarded when
  there are two threads; merging relies on their being gone, and merges an
  access made after pthread_create() into a segment the new thread knows.
* **barriers with changing threads** (`find_barrier`): barrier_post_wait asserts
  that every thread that has ever waited at a barrier has a segment for the
  round that is being left. With more threads than the barrier's count, which
  POSIX allows, a thread that was in one round and not in the other has none.
  The `drd` run therefore lets two threads meet at the barrier (`Participants`);
  with three, `NoFalseRace` fails too, in rounds of a thread that others have
  not met.
* **marking translated segments** (`find_stale`): only the segments that a
  block's extents begin in are marked. A block that runs on into the next
  segment leaves that one unmarked, and a munmap of it discards nothing.

### Observed, without a run

Of the core:

* For a call interrupted after its result was committed, the record still says
  HandToKernel, so post_syscall returns at once and the wrapper's post handler
  is skipped (syswrap-main.c:1363; `lastcall.post` records it), where the
  comment at :1257 says it is called.
* A thread is WaitSys before and after it is really inside the syscall, and a
  SIGSEGV sent by another process there leaves the record of the call as it was
  (m_signals.c:1759). `SyscallStartsIdle` is therefore stated for behaviours
  without a sent SIGSEGV.
* nuke_all_threads_except: a slot tested to be not Empty can become Empty before
  get_thread_out_of_syscall asserts that it is valid (outcome "panic").
* The process can be seen to die of SIGKILL and not of the fatal signal, when
  the thread that took the signal is not the last to exit.
* `NestedDown` of `Sema` waits for a token its own LWP has.
* `sanity_check_eclasses_in_sector`'s second loop runs to
  `N_TTES_PER_SECTOR_USABLE` and so does not look at all of `tt`.

Of the address space manager (the `dead` states of `ASpaceMgr` are the first
four):

* munmap of a range that reaches over `aspacem_minAddr` or `aspacem_maxAddr`, or
  mremap away from below `aspacem_minAddr`, leaves a free segment outside the
  limits, and the next search fails its assertion that holes lie inside.
* do_mremap of a free address uses the segment that am_find_nsegment does not
  return for free space; so does mprotect with PROT_GROWSDOWN, by an assertion.
* Growing a mapping in place never succeeds, for the same reason: the test asks
  am_find_nsegment for a free segment. The comment promises "grow -> if can
  grow in-place, do so".
* do_brk's assertions on the segments around the break fail once the client has
  unmapped or mapped over its data segment; the comment says they are "assured
  by setup_client_dataseg".
* do_mremap tells the tool the permissions of `old_seg` after the array has
  been changed, when the pointer may be to another segment.
* shmdt after a partial munmap or mprotect of a segment of several pages takes
  only the first piece out of the array (syswrap-generic.c:1767): with
  `ShmPages` = 2 TLC refutes `MatchesKernel`, which is why the theorems assume 1.
* A superblock of the client arena that merges with a neighbouring mapping of
  the client marks both as heap, and the leak search skips both as roots.

Of the arenas and Memcheck:

* arena_memalign sets back bytes_on_loan but not bytes_on_loan_max; findSb of an
  address beyond all superblocks fails its own assertion and not with "wrong
  arena?"; arena_calloc's overflow check accepts some products that wrap;
  failure to grow the array of superblocks ends the program for the client
  arena too.
* mempool_trim takes a chunk that strictly contains the trimmed extent for one
  outside it; zero-size blocks never count towards the volume of the queue;
  realloc counts in the statistics also when it fails.

Of DRD: semaphore_pre_post makes the new segment before it hands on the old one;
a later rdlock clears the mark of the last writer, and only the first node of a
rwlock is looked at; ids of detached threads are not reused. A thread that is
joined before its fellows have left the barrier takes its node with it
(barrier_thread_delete), and with the node what they should learn: with
`Participants` = {2, 3} the main thread creates 2, makes an access, creates 3;
2 and 3 wait at the barrier; 3 leaves, ends and is joined; then 2 leaves. What
it does next comes after the access, through 3, but DRD reports a race.

A barrier that is destroyed after a thread has returned from it and before that
thread's POST_BARRIER_WAIT (drd_barrier.c:352 to 356, "Just return in that
case"; pthread_barrier_destroy is allowed then) leaves the thread without the
others' clocks and in its old segment. Without the condition `ReturnsSeen` TLC
refutes both comparisons in seven steps. A false race: thread 1 creates 2, makes
an access and creates 3; 1 and 2 wait at the barrier; 3 destroys it; 2 goes
on, after the access, but DRD reports a race with it. A lost race: 1 and 2 wait,
1 leaves and makes an access, then destroys the barrier, and 2 goes on in the
segment whose clock 1 has combined: what it does next races with the access of
1, but counts as ordered before it. The manual says that
"the happens-before data race detection algorithm does not report any false
positives" (src/drd/docs/drd-manual.xml:275). If the barrier is initialized
again first, the late request counts as a departure from the new one:
`post_waiters_left` and `post_iteration` are then one ahead, and the assertion
at drd_barrier.c:387 may fail.

## 7. Plan

Done: the scheduler with its lock, syscalls, signals and shutdown; the
translation tables; the arena allocator and Memcheck's heap on it; DRD's
threads, mutexes and barriers; the address space manager. Next:

1. `Scheduler`: overrun of the signal queue, masks, SA_ONESHOT, sigsuspend.
2. `Drd`: semaphores, reader-writer locks, condition variables.
3. Memcheck's two-bit shadow map and V-bit table with garbage collection; memory
   pools.
4. Pure algorithms: AVL trees of `m_oset.c`, the LRU sets of `cg_sim.c`, the
   stack heuristic of `m_stacks.c`.
