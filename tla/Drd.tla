-------------------------------- MODULE Drd --------------------------------
(***************************************************************************)
(* The data-race detector DRD: vector clocks (drd_vc.c), segments          *)
(* (drd_segment.c), threads and the conflict set (drd_thread.c), mutexes   *)
(* (drd_mutex.c), barriers (drd_barrier.c) and the events of drd_main.c    *)
(* and drd_clientreq.c that drive them.                                    *)
(*                                                                         *)
(* Every DRD thread has a list of segments; a segment has a vector clock   *)
(* and a bitmap of the accesses made in it.  s_conflict_set caches, for    *)
(* the running thread, the accesses of the segments that are unordered     *)
(* with its latest segment; an access that hits it is reported as a race.  *)
(* Everything runs under the_BigLock, on the LWP of the running thread.    *)
(*                                                                         *)
(* The client program is what the actions let it do: create, join, lock    *)
(* and so on as POSIX allows.  What happens before what in that program is *)
(* kept apart, in history variables that no action of DRD reads.           *)
(***************************************************************************)
EXTENDS Naturals, FiniteSets, FiniteSetsExt, Sequences, SequencesExt

CONSTANTS
  DRD_N_THREADS,   \* thread ids are 1 .. DRD_N_THREADS - 1; 1 is the main thread
  Addrs,           \* addresses the client accesses and frees
  Mutexes,
  BarrierCount,    \* number of threads that meet at the barrier
  Participants,    \* threads of the client that wait at the barrier
  MaxSegments,     \* bound: segments of one thread alive at once
  Parents,         \* threads of the client that create and join others
  MaxRecursion,    \* bound: nesting of one mutex
  MaxSyncs,        \* bound: synchronization operations, of all threads
  MaxMade          \* bound: accesses remembered by the history

Threads  == 1 .. DRD_N_THREADS - 1
SegIds   == Threads \X (1 .. MaxSegments)
None     == 0      \* DRD_INVALID_THREADID
Null     == <<0, 0>>  \* the null Segment*
Access   == [addr : Addrs, store : BOOLEAN]
Rounds   == {0, 1} \* indices of barrier_thread_info.sg
Gone     == MaxSyncs + 2 \* no round: the barrier waited at has been destroyed

ASSUME SizesAssumption ==
  /\ DRD_N_THREADS \in Nat \ {0, 1} /\ MaxSegments \in Nat \ {0}
  /\ BarrierCount \in Nat \ {0} /\ Participants \subseteq Threads
  /\ MaxRecursion \in Nat /\ MaxSyncs \in Nat
  /\ MaxMade \in Nat /\ Parents \subseteq Threads /\ IsFiniteSet(Mutexes)

VARIABLES
  s_segment_merging,  \* the option --segment-merging
  seg,                \* segments by address: clock, bitmap, reference count
  list,               \* s_threadinfo[t].first .. last, oldest first
  status,             \* "none", "live", "finished" (vg_thread_exists cleared)
  running,            \* s_drd_running_tid
  s_conflict_set,
  mutex,              \* mutex_info: owner, recursion_count, last_locked_segment
  barrier,            \* barrier_info with its barrier_thread_info nodes
  (* The client's side of the barrier, and its history. *)
  waiting,            \* threads inside pthread_barrier_wait, with their round
  syncs,              \* synchronization operations so far
  made,               \* accesses made, by live or finished threads
  past,               \* accesses that happened before a thread's next step
  unlocked,           \* ... before the last unlock of a mutex
  arrived             \* the barrier: rounds completed, arrivals at the next, their past,
                      \* and whether it was destroyed before DRD saw every return

drdVars  == <<s_segment_merging, seg, list, status, running,
              s_conflict_set, mutex, barrier>>
histVars == <<waiting, syncs, made, past, unlocked, arrived>>
vars     == <<drdVars, histVars>>

-----------------------------------------------------------------------------
(* drd_vc.c.  A thread that is not in a vector clock has count 0: counts   *)
(* start at 1.                                                             *)
vc_lte(v, w) == \A t \in Threads : v[t] <= w[t]

vc_increment(v, t) == [v EXCEPT ![t] = @ + 1]

vc_combine(v, w) == [t \in Threads |-> IF v[t] < w[t] THEN w[t] ELSE v[t]]

(* The loop does not step past a thread id found in both clocks, so the    *)
(* next id of rhs clears it: only the last id of rhs gets the minimum.     *)
vc_min(v, rhs) ==
  LET last == Max({t \in Threads : rhs[t] > 0})
  IN  [t \in Threads |-> IF t < last THEN 0
                         ELSE IF t = last /\ rhs[t] < v[t] THEN rhs[t]
                         ELSE v[t]]

-----------------------------------------------------------------------------
(* Segments and thread lists.  The operations below take and return the    *)
(* part of the state they change, S = [seg, list, run, cset].              *)
NoSegment == [vc |-> [t \in Threads |-> 0], bm |-> {}, refcnt |-> 0]

S0 == [seg |-> seg, list |-> list, run |-> running, cset |-> s_conflict_set]

Latest(S, t) == Last(S.list[t])
ClockOf(S, t) == S.seg[Latest(S, t)].vc

sg_get(sg, i) == [sg EXCEPT ![i].refcnt = @ + 1]

(* sg_put of each segment in ids. *)
sg_put(sg, ids) ==
  [i \in SegIds |-> IF i \notin ids THEN sg[i]
                    ELSE IF sg[i].refcnt = 1 THEN NoSegment
                    ELSE [sg[i] EXCEPT !.refcnt = @ - 1]]

(* Mutated: the clock is that of the creator's first segment. *)
thread_append_first_clock(S, creator, created) ==
  LET i == <<created, Min({k \in 1 .. MaxSegments : S.seg[<<created, k>>].refcnt = 0})>>
  IN  [S EXCEPT !.seg[i] = [vc |-> vc_increment(S.seg[Head(S.list[creator])].vc, created),
                            bm |-> {}, refcnt |-> 1],
                !.list[created] = Append(@, i)]

(* sg_new(creator, created) and thread_append_segment. *)
thread_append_segment(S, creator, created) ==
  LET i == <<created, Min({k \in 1 .. MaxSegments : S.seg[<<created, k>>].refcnt = 0})>>
  IN  [S EXCEPT !.seg[i] = [vc |-> vc_increment(ClockOf(S, creator), created),
                            bm |-> {}, refcnt |-> 1],
                !.list[created] = Append(@, i)]

Unordered(S, p, q) == ~ vc_lte(S.seg[q].vc, S.seg[p].vc) /\ ~ vc_lte(S.seg[p].vc, S.seg[q].vc)

(* IsValidDrdThreadId holds of every thread that has segments. *)
ConflictSet(S, t) ==
  UNION {S.seg[q].bm :
           q \in {k \in UNION {Range(S.list[j]) : j \in Threads \ {t}} :
                    Unordered(S, Latest(S, t), k)}}

thread_compute_conflict_set(S) == [S EXCEPT !.cset = ConflictSet(S, S.run)]

(* Mutated: the conflict set of the previous thread is kept. *)
Scheduled_keeps_set(t) == [S0 EXCEPT !.run = t]

(* drd_start_client_code, before t executes anything after another thread  *)
(* has: thread_set_vg_running_tid.                                         *)
Scheduled(t) ==
  IF t = running THEN S0 ELSE thread_compute_conflict_set([S0 EXCEPT !.run = t])

(* Threads are visited in the order of their ids; min[t] is the minimum    *)
(* over the threads up to t, << >> before the first that has a segment.    *)
minimum_upto(S) ==
  LET min[t \in 0 .. DRD_N_THREADS - 1] ==
        IF t = 0 THEN << >>
        ELSE IF S.list[t] = << >> THEN min[t - 1]
        ELSE IF min[t - 1] = << >> THEN ClockOf(S, t)
        ELSE vc_min(min[t - 1], ClockOf(S, t))
  IN  min

thread_compute_minimum_vc(S) == minimum_upto(S)[DRD_N_THREADS - 1]

thread_discard_ordered_segments(S) ==
  LET min      == thread_compute_minimum_vc(S)
      keep(l)  == Min({k \in DOMAIN l : k = Len(l) \/ ~ vc_lte(S.seg[l[k]].vc, min)})
      rest     == [t \in Threads |->
                     IF S.list[t] = <<>> THEN <<>>
                     ELSE SubSeq(S.list[t], keep(S.list[t]), Len(S.list[t]))]
      gone     == UNION {Range(S.list[t]) \ Range(rest[t]) : t \in Threads}
  IN  [S EXCEPT !.seg = sg_put(@, gone), !.list = rest]

(* One pass over one list: kept[k] is what it leaves of the first k        *)
(* segments.  One that comes after a segment the pass has stepped to, and  *)
(* before another, is merged into it when nothing else refers to the two.  *)
merge_pass(sg, l) ==
  LET kept[k \in 0 .. Len(l)] ==
        IF k = 0 THEN << >>
        ELSE IF /\ k \in 2 .. Len(l) - 1 /\ Last(kept[k - 1]) = l[k - 1]
                /\ sg[l[k - 1]].refcnt = 1 /\ sg[l[k]].refcnt = 1
        THEN kept[k - 1]
        ELSE Append(kept[k - 1], l[k])
  IN  kept

(* sg_merge keeps the clock of the first segment, and adds the accesses.   *)
thread_merge_segments(S) ==
  LET kept  == [t \in Threads |-> merge_pass(S.seg, S.list[t])[Len(S.list[t])]]
      gone  == UNION {Range(S.list[t]) \ Range(kept[t]) : t \in Threads}
      next(i) == {S.list[i[1]][k] : k \in {n \in 2 .. Len(S.list[i[1]]) : S.list[i[1]][n - 1] = i}}
      sg_merged == [i \in SegIds |->
                      [S.seg[i] EXCEPT !.bm = @ \cup UNION {S.seg[q].bm : q \in next(i) \cap gone}]]
  IN  [S EXCEPT !.seg = sg_put(sg_merged, gone), !.list = kept]

thread_new_segment(S, t) ==
  LET T == thread_discard_ordered_segments(
             thread_compute_conflict_set(thread_append_segment(S, t, t)))
  IN  IF s_segment_merging THEN thread_merge_segments(T) ELSE T

CombineLatest(S, t, vc) == [S EXCEPT !.seg[Latest(S, t)].vc = vc_combine(@, vc)]

thread_combine_vc(S, joiner, joinee) ==
  LET T == thread_discard_ordered_segments(CombineLatest(S, joiner, ClockOf(S, joinee)))
  IN  IF joiner = S.run THEN thread_compute_conflict_set(T) ELSE T

(* Mutated: the clock is not combined. *)
thread_wait_only(S, t, vc) == thread_compute_conflict_set(S)

thread_combine_vc2(S, t, vc) ==
  thread_discard_ordered_segments(
    thread_compute_conflict_set(CombineLatest(S, t, vc)))

thread_delete(S, t) ==
  [S EXCEPT !.seg = sg_put(@, Range(S.list[t])), !.list[t] = <<>>]

(* Mutated: the segment that was referenced before is not released. *)
thread_get_without_put(S, old, t) == [S EXCEPT !.seg = sg_get(@, Latest(S, t))]

(* thread_get_latest_segment: the reference moves from old to the latest   *)
(* segment of t.                                                           *)
thread_get_latest_segment(S, old, t) ==
  [S EXCEPT !.seg = sg_get(sg_put(@, {old}), Latest(S, t))]

Become(S) ==
  /\ seg' = S.seg /\ list' = S.list
  /\ running' = S.run /\ s_conflict_set' = S.cset

-----------------------------------------------------------------------------
NoMutex == [owner |-> None, recursion_count |-> 0, last_locked_segment |-> Null]
NoArrivals == [round |-> 0, n |-> 0, past |-> [r \in 0 .. MaxSyncs |-> {}],
               unseen |-> FALSE]
NoNode  == [present |-> FALSE, sg |-> [r \in Rounds |-> Null]]
NewBarrier == [exists |-> TRUE, pre_iteration |-> 0, post_iteration |-> 0,
               pre_waiters_left |-> BarrierCount, post_waiters_left |-> BarrierCount,
               node |-> [t \in Threads |-> NoNode]]
NoBarrier == [NewBarrier EXCEPT !.exists = FALSE] \* barrier_get returns 0

(* The main thread is about to create others; it has initialized the       *)
(* barrier.                                                                *)
Init ==
  /\ s_segment_merging \in BOOLEAN
  /\ seg = [i \in SegIds |-> IF i = <<1, 1>> THEN [vc |-> vc_increment(NoSegment.vc, 1),
                                            bm |-> {}, refcnt |-> 1]
                             ELSE NoSegment]
  /\ list = [t \in Threads |-> IF t = 1 THEN << <<1, 1>> >> ELSE <<>>]
  /\ status = [t \in Threads |-> IF t = 1 THEN "live" ELSE "none"]
  /\ running = 1
  /\ s_conflict_set = {}
  /\ mutex = [m \in Mutexes |-> NoMutex]
  /\ barrier = NewBarrier
  /\ waiting = [t \in Threads |-> None]
  /\ syncs = 0
  /\ made = {}
  /\ past = [t \in Threads |-> {}]
  /\ unlocked = [m \in Mutexes |-> {}]
  /\ arrived = NoArrivals

(* Thread t executes client code, or does so when it is scheduled. *)
InClient(t) == status[t] = "live" /\ waiting[t] = None

(* A synchronization operation of t.  An ordering arrow may start in it:   *)
(* accesses of t before it are told from those after it.                   *)
Sync == syncs < MaxSyncs /\ syncs' = syncs + 1

(* drd_trace_load and drd_trace_store.  Whether a race is reported is      *)
(* decided by s_conflict_set alone, see Reports.                           *)
TraceAccess(t, a) ==
  /\ InClient(t)
  /\ Become([Scheduled(t) EXCEPT !.seg[Latest(S0, t)].bm = @ \cup {a}])
  /\ LET e == [thread |-> t, when |-> syncs, access |-> a]
     IN  /\ Cardinality(made \cup {e}) <= MaxMade
         /\ made' = made \cup {e}
         /\ past' = [past EXCEPT ![t] = @ \cup {e}]
  /\ UNCHANGED <<s_segment_merging, status, mutex, barrier, waiting,
                 syncs, unlocked, arrived>>

(* The history after a step that leaves the pasts p and forgets E. *)
Forget(E, p) ==
  /\ made' = made \ E
  /\ past' = [t \in Threads |-> p[t] \ E]
  /\ unlocked' = [m \in Mutexes |-> unlocked[m] \ E]
  /\ arrived' = [arrived EXCEPT !.past = [r \in 0 .. MaxSyncs |-> @[r] \ E]]

On(bm, x) == {a \in bm : a.addr = x}

(* thread_stop_using_mem, for free() of memory that has been accessed; the *)
(* history forgets the address too.                                        *)
StopUsingMem(t, x) ==
  /\ InClient(t) /\ \E e \in made : e.access.addr = x
  /\ LET users == {j \in Threads \ {t} : \E q \in Range(list[j]) : On(seg[q].bm, x) # {}}
         S     == Scheduled(t)
         T     == [S EXCEPT !.seg = [i \in SegIds |->
                     [seg[i] EXCEPT !.bm = IF \E j \in Threads : i \in Range(list[j])
                                           THEN @ \ On(@, x) ELSE @]]]
     IN  Become(IF users # {} /\ On(S.cset, x) # {}
                THEN thread_compute_conflict_set(T) ELSE T)
  /\ Forget({e \in made : e.access.addr = x}, past)
  /\ UNCHANGED <<s_segment_merging, status, mutex, barrier, waiting,
                 syncs>>

-----------------------------------------------------------------------------
(* Threads. *)
Room(t) == \E k \in 1 .. MaxSegments : seg[<<t, k>>].refcnt = 0

(* drd_pre_thread_create; the slot is the first that is free. *)
Create(t, u) ==
  /\ InClient(t) /\ t \in Parents /\ Room(t) /\ Room(u)
  /\ u = Min({v \in Threads : status[v] = "none"} \cup {DRD_N_THREADS}) /\ u \in Threads
  /\ Become(thread_new_segment(thread_append_segment(Scheduled(t), t, u), t))
  /\ status' = [status EXCEPT ![u] = "live"]
  /\ Sync
  /\ past' = [past EXCEPT ![u] = past[t]]
  /\ UNCHANGED <<s_segment_merging, mutex, barrier, waiting, made,
                 unlocked, arrived>>

(* drd_thread_finished.  A detached thread is one that is never joined.    *)
Finish(t) ==
  /\ InClient(t) /\ t \notin Parents
  /\ Become(Scheduled(t))
  /\ status' = [status EXCEPT ![t] = "finished"]
  /\ UNCHANGED <<s_segment_merging, mutex, barrier, histVars>>

(* mutex_thread_delete and barrier_thread_delete. *)
mutex_thread_delete(t) ==
  [m \in Mutexes |-> IF mutex[m].owner = t /\ mutex[m].recursion_count > 0
                     THEN [mutex[m] EXCEPT !.owner = None] ELSE mutex[m]]

barrier_thread_destroy(S, node) ==
  [S EXCEPT !.seg = sg_put(sg_put(@, {node.sg[0]}), {node.sg[1]})]

(* drd_post_thread_join.  With its segments the accesses of u are gone,    *)
(* also for threads that are not ordered after them: that is by design.    *)
Join(t, u) ==
  /\ InClient(t) /\ t \in Parents /\ Room(t) /\ Room(u)
  /\ status[u] = "finished"
  /\ LET S1 == thread_new_segment(Scheduled(t), u)
         S2 == thread_combine_vc(S1, t, u)
         S3 == thread_new_segment(S2, t)
     IN  Become(barrier_thread_destroy(thread_delete(S3, u), barrier.node[u]))
  /\ status' = [status EXCEPT ![u] = "none"]
  /\ mutex' = mutex_thread_delete(u)
  /\ barrier' = [barrier EXCEPT !.node[u] = NoNode]
  /\ Forget({e \in made : e.thread = u},
            [past EXCEPT ![t] = @ \cup past[u], ![u] = {}])
  /\ Sync
  /\ UNCHANGED <<s_segment_merging, waiting>>

-----------------------------------------------------------------------------
(* Mutexes.  The client's mutex is taken when DRD's view of it says so:    *)
(* POST_MUTEX_LOCK and PRE_MUTEX_UNLOCK are made while the client holds it.*)
MutexPostLock(t, m) ==
  LET p == mutex[m] IN
  /\ InClient(t)
  /\ \/ /\ p.recursion_count = 0 /\ Room(t)
        /\ Become(thread_new_segment(
                    IF p.owner \in {t, None} THEN Scheduled(t)
                    ELSE thread_combine_vc2(Scheduled(t), t, seg[p.last_locked_segment].vc), t))
        /\ Sync
        /\ past' = [past EXCEPT ![t] = @ \cup unlocked[m]]
     \/ /\ p.recursion_count \in 1 .. MaxRecursion - 1 /\ p.owner = t
        /\ Become(Scheduled(t))
        /\ UNCHANGED <<syncs, past>>
  /\ mutex' = [mutex EXCEPT ![m].owner = t, ![m].recursion_count = @ + 1]
  /\ UNCHANGED <<s_segment_merging, status, barrier, waiting,
                 made, unlocked, arrived>>

(* Mutated: the new segment is made first, and handed to the mutex. *)
MutexUnlock_new_first(t, m) ==
  LET p == mutex[m]
      T == thread_new_segment(Scheduled(t), t)
  IN
  /\ InClient(t) /\ p.owner = t /\ p.recursion_count = 1 /\ Room(t)
  /\ Become(thread_get_latest_segment(T, p.last_locked_segment, t))
  /\ mutex' = [mutex EXCEPT ![m].recursion_count = 0,
                            ![m].last_locked_segment = Latest(T, t)]
  /\ Sync
  /\ unlocked' = [unlocked EXCEPT ![m] = past[t]]
  /\ UNCHANGED <<s_segment_merging, status, barrier, waiting, made, past, arrived>>

MutexUnlock(t, m) ==
  LET p == mutex[m] IN
  /\ InClient(t) /\ p.owner = t /\ p.recursion_count > 0
  /\ \/ /\ p.recursion_count = 1 /\ Room(t)
        /\ Become(thread_new_segment(
                    thread_get_latest_segment(Scheduled(t), p.last_locked_segment, t), t))
        /\ mutex' = [mutex EXCEPT ![m].recursion_count = 0,
                                  ![m].last_locked_segment = Latest(S0, t)]
        /\ Sync
        /\ unlocked' = [unlocked EXCEPT ![m] = past[t]]
     \/ /\ p.recursion_count > 1
        /\ mutex' = [mutex EXCEPT ![m].recursion_count = @ - 1]
        /\ Become(Scheduled(t))
        /\ UNCHANGED <<syncs, unlocked>>
  /\ UNCHANGED <<s_segment_merging, status, barrier, waiting,
                 made, past, arrived>>

(* mutex_post_destroy of a mutex that is not locked. *)
MutexDestroy(t, m) ==
  /\ InClient(t) /\ mutex[m] # NoMutex /\ mutex[m].recursion_count = 0
  /\ Become([Scheduled(t) EXCEPT !.seg = sg_put(@, {mutex[m].last_locked_segment})])
  /\ mutex' = [mutex EXCEPT ![m] = NoMutex]
  /\ unlocked' = [unlocked EXCEPT ![m] = {}]
  /\ UNCHANGED <<s_segment_merging, status, barrier, waiting, syncs,
                 made, past, arrived>>

-----------------------------------------------------------------------------
(* The barrier.  barrier_init of a barrier that does not exist.            *)
BarrierInit(t) ==
  /\ InClient(t) /\ ~ barrier.exists
  /\ Become(Scheduled(t))
  /\ barrier' = NewBarrier
  /\ UNCHANGED <<s_segment_merging, status, mutex, histVars>>

BarrierPreWait(t) ==
  LET b == barrier
      k == b.pre_iteration
      c == arrived.round
  IN
  /\ InClient(t) /\ t \in Participants /\ barrier.exists
  /\ Become(thread_get_latest_segment(Scheduled(t), b.node[t].sg[k], t))
  /\ barrier' = [b EXCEPT
        !.node[t] = [present |-> TRUE, sg |-> [@.sg EXCEPT ![k] = Latest(S0, t)]],
        !.pre_iteration = IF b.pre_waiters_left = 1 THEN 1 - k ELSE k,
        !.pre_waiters_left = IF @ = 1 THEN BarrierCount ELSE @ - 1]
  /\ Sync
  /\ waiting' = [waiting EXCEPT ![t] = c + 1]
  /\ arrived' = [round |-> IF arrived.n + 1 = BarrierCount THEN c + 1 ELSE c,
                 n     |-> (arrived.n + 1) % BarrierCount,
                 past  |-> [arrived.past EXCEPT ![c] =
                              past[t] \cup (IF arrived.n = 0 THEN {} ELSE @)],
                 unseen |-> arrived.unseen]
  /\ UNCHANGED <<s_segment_merging, status, mutex, made, past, unlocked>>

(* The other participants, whose segments are combined into t's. *)
Others(t) == {u \in Threads \ {t} : barrier.node[u].present}

(* The C library has released t: its round is complete. *)
Released(t) == waiting[t] # None /\ (waiting[t] <= arrived.round \/ waiting[t] = Gone)

(* tl_assert(r->sg[p->post_iteration]); Valgrind stops where it fails. *)
SegmentsLeft(t) == \A u \in Others(t) : barrier.node[u].sg[barrier.post_iteration] # Null

(* The clocks of the others are combined one after the other, in the order *)
(* of their nodes.                                                         *)
combine_others(t) ==
  LET S[u \in 0 .. DRD_N_THREADS - 1] ==
        IF u = 0 THEN Scheduled(t)
        ELSE IF u \notin Others(t) THEN S[u - 1]
        ELSE thread_combine_vc2(S[u - 1], t,
                                S[u - 1].seg[barrier.node[u].sg[barrier.post_iteration]].vc)
  IN  S

(* The past of t after it has left the barrier.  One that was destroyed in *)
(* the meantime has handed it on before, see BarrierDestroy.               *)
PastAfterWait(t) ==
  past[t] \cup (IF waiting[t] \in {None, Gone} THEN {} ELSE arrived.past[waiting[t] - 1])

(* Between the return of pthread_barrier_wait and this request others run, *)
(* and may destroy the barrier: then nothing happens.  When it has been    *)
(* initialized again t has no node and is given one without segments.      *)
BarrierPostWait(t) ==
  LET b == barrier
      S == combine_others(t)[DRD_N_THREADS - 1]
  IN
  /\ Released(t)
  /\ \/ ~ b.exists /\ Become(Scheduled(t)) /\ barrier' = b
     \/ /\ b.exists /\ SegmentsLeft(t) /\ Room(t)
        /\ Become(thread_new_segment(S, t))
        /\ barrier' = [b EXCEPT
              !.node[t] = [present |-> TRUE, sg |-> @.sg],
              !.post_iteration = IF b.post_waiters_left = 1 THEN 1 - @ ELSE @,
              !.post_waiters_left = IF @ = 1 THEN BarrierCount ELSE @ - 1]
  /\ waiting' = [waiting EXCEPT ![t] = None]
  /\ past' = [past EXCEPT ![t] = PastAfterWait(t)]
  /\ UNCHANGED <<s_segment_merging, status, mutex, syncs,
                 made, unlocked, arrived>>

(* barrier_destroy, by the client's rules of a barrier nobody is blocked   *)
(* at.  DRD may still wait for the POST_BARRIER_WAIT of released threads:  *)
(* active waiters, which are reported and forgotten.  A barrier that has   *)
(* not been used is left alone: it is as good as a new one.                *)
BarrierDestroy(t) ==
  /\ InClient(t) /\ barrier.exists /\ barrier # NewBarrier
  /\ \A u \in Threads : waiting[u] # None => Released(u)
  /\ Become([Scheduled(t) EXCEPT !.seg =
               sg_put(sg_put(@, {barrier.node[u].sg[0] : u \in Threads}),
                      {barrier.node[u].sg[1] : u \in Threads})])
  /\ barrier' = NoBarrier
  /\ Sync
  /\ waiting' = [u \in Threads |-> IF waiting[u] = None THEN None ELSE Gone]
  /\ past' = [u \in Threads |-> PastAfterWait(u)]
  /\ arrived' = [NoArrivals EXCEPT !.unseen =
                   arrived.unseen \/ \E u \in Threads : waiting[u] # None]
  /\ UNCHANGED <<s_segment_merging, status, mutex, made, unlocked>>

-----------------------------------------------------------------------------
Next ==
  \E t \in Threads :
    \/ Finish(t)
    \/ \E a \in Access : TraceAccess(t, a)
    \/ \E x \in Addrs : StopUsingMem(t, x)
    \/ \E u \in Threads : Create(t, u) \/ Join(t, u)
    \/ \E m \in Mutexes : MutexPostLock(t, m) \/ MutexUnlock(t, m) \/ MutexDestroy(t, m)
    \/ BarrierInit(t) \/ BarrierPreWait(t)
    \/ BarrierPostWait(t) \/ BarrierDestroy(t)

Spec == Init /\ [][Next]_vars

-----------------------------------------------------------------------------
(* A segment is held by its thread's list, by mutexes and by barrier       *)
(* nodes; refcnt counts them, so none of them names a freed segment and    *)
(* none is leaked (sg_get, sg_put).                                        *)
RefCounts ==
  \A i \in SegIds :
    seg[i].refcnt = Cardinality({t \in Threads : i \in Range(list[t])})
                  + Cardinality({m \in Mutexes : mutex[m].last_locked_segment = i})
                  + Cardinality({n \in Threads \X Rounds : barrier.node[n[1]].sg[n[2]] = i})

(* The cached set is what thread_conflict_set_up_to_date would compute.    *)
(* Merging, which follows the computation, may leave it larger.            *)
ConflictSetCurrent ==
  /\ ConflictSet(S0, running) \subseteq s_conflict_set
  /\ ~ s_segment_merging => s_conflict_set = ConflictSet(S0, running)

(* The accesses of other threads that t's next access is checked against. *)
CheckedAgainst(t) == Scheduled(t).cset

Conflicting(a, b) == a.addr = b.addr /\ (a.store \/ b.store)

Reports(t, a) == \E b \in CheckedAgainst(t) : Conflicting(a, b)

Racing(t, a) ==
  \E e \in made \ past[t] : e.thread # t /\ Conflicting(a, e.access)

(* DRD has been told of every return from a barrier before the barrier was *)
(* destroyed.  Otherwise the thread that returned is ordered after nobody  *)
(* at that barrier, and stays in its old segment (barrier_post_wait with   *)
(* p == 0); neither of the next two properties holds then.                 *)
ReturnsSeen == ~ arrived.unseen

(* What DRD would report is a race: no false positive, as long as it has   *)
(* seen the returns.                                                       *)
NoFalseRace ==
  ReturnsSeen => \A t \in {u \in Threads : InClient(u)} :
    \A b \in CheckedAgainst(t) : \A a \in Access :
      Conflicting(a, b) => Racing(t, a)

RacesAreReported ==
  \A t \in {u \in Threads : InClient(u)} : \A a \in Access :
    Racing(t, a) => Reports(t, a)

(* With --segment-merging=no: an access that races with one of a thread    *)
(* that has not been joined is reported, as long as the returns are seen.  *)
NoRaceIsLost == ReturnsSeen /\ ~ s_segment_merging => RacesAreReported

(* "Merge all segments that may be merged without triggering false         *)
(* positives or discarding real data races" (thread_merge_segments).       *)
MergingLosesNoRace == ReturnsSeen /\ s_segment_merging => RacesAreReported

(* "q iterates over the segments of thread i in order of decreasing vector *)
(* clocks" (drd_thread.c:872); and no clock, kept in whatever segment,     *)
(* knows more of a thread than the thread itself, also when its id had     *)
(* another owner before.                                                   *)
ClocksInOrder ==
  /\ \A t \in Threads : \A i, j \in DOMAIN list[t] :
       i < j => vc_lte(seg[list[t][i]].vc, seg[list[t][j]].vc)
  /\ \A i \in SegIds, t \in Threads :
       list[t] # <<>> => seg[i].vc[t] <= ClockOf(S0, t)[t]

(* The assertion of barrier_post_wait holds whenever a thread leaves the    *)
(* barrier: everyone who has a node has left a segment in the round.        *)
BarrierSegmentsHeld == \A t \in Threads : Released(t) => SegmentsLeft(t)
=============================================================================
