------------------------------ MODULE DynPool -------------------------------
(***************************************************************************)
(* The self-sizing thread pool (pthread_pool/pool.c) over its ring queue   *)
(* (pthread_pool/queue.c).  An admin thread adds Step workers when all are *)
(* busy and asks Step of them to leave when many are idle; a request to    *)
(* leave is a counter that any worker may take up, and a signal on the     *)
(* condition variable that also announces tasks.                           *)
(*                                                                         *)
(* Everything but busy_threads is touched under mut_pool only, and every   *)
(* critical section but pthread_cond_wait's is one step.  A worker is its  *)
(* place in the array workers.  Tasks are numbered in the order of         *)
(* pool_add_task; of mytask only matters whether it is still to be run.    *)
(*                                                                         *)
(* The admin thread does not look at what pthread_create returns: a worker *)
(* that could not be created is counted as live, and its id, which may be  *)
(* of no thread, is detached.                                              *)
(***************************************************************************)
EXTENDS Naturals, FiniteSets

CONSTANTS
  MaxThreads,        \* capacity, the client's limit
  MinFree, MaxFree,  \* MIN_FREE_NR, MAX_FREE_NR
  Step,              \* STEP
  QueueCap,          \* MAXJOB
  Producers,         \* threads that call pool_add_task
  MaxTasks,          \* bound: tasks added
  MaxStray           \* bound: spurious wake-ups

(* pool_init writes MinFree entries of an array of MaxThreads. *)
ASSUME DynAssumption ==
  /\ {MaxThreads, MinFree, MaxFree, Step, QueueCap, MaxTasks, MaxStray} \subseteq Nat
  /\ 1 <= MinFree /\ MinFree <= MaxFree /\ MinFree <= MaxThreads
  /\ 1 <= Step /\ 1 <= QueueCap /\ IsFiniteSet(Producers)

VARIABLES
  owner,                 \* the thread that calls pool_init and pool_destroy
  admin,                 \* the admin thread
  wpc,                   \* where each worker is
  ppc,                   \* where each producer is
  s, front, rear,        \* the ring queue
  live_threads, busy_threads, exit_threads,
  closing,               \* shutdown
  mytask,                \* each worker's local variable: TRUE is a task to run,
                         \* FALSE an old one, or what was on the stack
  added, dequeued,       \* history: tasks put into and taken from the queue
  stray,                 \* spurious wake-ups so far
  uncreated              \* history: the admin thread's failed creations

queueVars == <<s, front, rear, added, dequeued>>
counters == <<live_threads, busy_threads, exit_threads, closing>>
dynVars == <<owner, admin, wpc, ppc, queueVars, counters, mytask, stray, uncreated>>

Places == 1 .. MaxThreads
RingSlots == 0 .. QueueCap
In(labels) == {w \in Places : wpc[w] \in labels}
Min(a, b) == IF a < b THEN a ELSE b

(* pool_init up to the creation of the admin thread. *)
DynInit ==
  /\ owner = "init" /\ admin = "loop"
  /\ wpc = [w \in Places |-> "none"] /\ ppc = [p \in Producers |-> "idle"]
  /\ s = [i \in RingSlots |-> 0] /\ front = 0 /\ rear = 0
  /\ live_threads = MinFree /\ busy_threads = 0 /\ exit_threads = 0 /\ closing = FALSE
  /\ mytask = [w \in Places |-> FALSE]
  /\ added = 0 /\ dequeued = 0 /\ stray = 0 /\ uncreated = 0

(* pool_init: the first workers, in order; a failure frees the pool. *)
CreateFirstWorkers ==
  /\ owner = "init"
  /\ \E w \in 1 .. MinFree :
       /\ wpc[w] = "none" /\ \A v \in 1 .. w - 1 : wpc[v] # "none"
       /\ wpc' = [wpc EXCEPT ![w] = "lock"]
       /\ owner' = IF w = MinFree THEN "live" ELSE "init"
  /\ UNCHANGED <<admin, ppc, queueVars, counters, mytask, stray, uncreated>>
InitFails ==
  /\ owner = "init"
  /\ owner' = "freed"
  /\ UNCHANGED <<admin, wpc, ppc, queueVars, counters, mytask, stray, uncreated>>
-----------------------------------------------------------------------------
(* queue.c: one slot stays empty; front is the slot before the first task. *)
NextIndex(i) == (i + 1) % (QueueCap + 1)
queue_is_empty == front = rear
RingNeverFull == FALSE \* mutant
queue_is_full == NextIndex(rear) = front

queue_en ==
  /\ rear' = NextIndex(rear)
  /\ s' = [s EXCEPT ![NextIndex(rear)] = added + 1]
  /\ added' = added + 1
  /\ UNCHANGED <<front, dequeued>>

(* An empty queue returns -1 and leaves mytask alone: nobody looks. *)
queue_de(w) ==
  IF queue_is_empty
    THEN UNCHANGED <<mytask, queueVars>>
    ELSE /\ front' = NextIndex(front)
         /\ mytask' = [mytask EXCEPT ![w] = TRUE]
         /\ s' = [s EXCEPT ![NextIndex(front)] = 0]
         /\ dequeued' = dequeued + 1
         /\ UNCHANGED <<rear, added>>

(* Wake n of those that sleep, or all if there are fewer; f is the state   *)
(* of the sleepers after the other changes of the step.                    *)
WakeUp(n, f) ==
  LET asleep == {w \in Places : f[w] = "wait"}
  IN  { [w \in Places |-> IF w \in wake THEN "woken" ELSE f[w]] :
        wake \in {x \in SUBSET asleep : Cardinality(x) = Min(n, Cardinality(asleep))} }

(* pthread_cond_signal(&queue_not_full) *)
SignalNoProducer == UNCHANGED ppc \* mutant
SignalNotFull ==
  IF \A p \in Producers : ppc[p] # "full" THEN UNCHANGED ppc
  ELSE \E p \in Producers : ppc[p] = "full" /\ ppc' = [ppc EXCEPT ![p] = "retry"]
-----------------------------------------------------------------------------
(* worker_job.  The test for an empty queue is an if: a worker that was    *)
(* woken goes on without looking again.                                    *)
WaitForTask(w) ==
  /\ wpc[w] = "lock" /\ queue_is_empty
  /\ wpc' = [wpc EXCEPT ![w] = "wait"]
  /\ UNCHANGED <<owner, admin, ppc, queueVars, counters, mytask, stray, uncreated>>

GoesOn(w) == wpc[w] = "woken" \/ (wpc[w] = "lock" /\ ~queue_is_empty)

WorkerShutdown(w) ==
  /\ GoesOn(w) /\ closing
  /\ wpc' = [wpc EXCEPT ![w] = "exited"]
  /\ UNCHANGED <<owner, admin, ppc, queueVars, counters, mytask, stray, uncreated>>

RetireUncounted(w) == \* mutant: live_threads is not decremented
  /\ GoesOn(w) /\ ~closing /\ exit_threads > 0
  /\ exit_threads' = exit_threads - 1
  /\ wpc' = [wpc EXCEPT ![w] = "exited"]
  /\ UNCHANGED <<owner, admin, ppc, queueVars, live_threads, busy_threads, closing, mytask, stray, uncreated>>
Retire(w) ==
  /\ GoesOn(w) /\ ~closing /\ exit_threads > 0
  /\ exit_threads' = exit_threads - 1
  /\ live_threads' = live_threads - 1
  /\ wpc' = [wpc EXCEPT ![w] = "exited"]
  /\ UNCHANGED <<owner, admin, ppc, queueVars, busy_threads, closing, mytask, stray, uncreated>>

Dequeue(w) ==
  /\ GoesOn(w) /\ ~closing /\ exit_threads = 0
  /\ queue_de(w)
  /\ SignalNotFull
  /\ wpc' = [wpc EXCEPT ![w] = "start"]
  /\ UNCHANGED <<owner, admin, counters, stray, uncreated>>

BusyBegin(w) ==
  /\ wpc[w] = "start"
  /\ busy_threads' = busy_threads + 1
  /\ mytask' = [mytask EXCEPT ![w] = FALSE]
  /\ wpc' = [wpc EXCEPT ![w] = "run"]
  /\ UNCHANGED <<owner, admin, ppc, queueVars, live_threads, exit_threads, closing, stray, uncreated>>

BusyEnd(w) ==
  /\ wpc[w] = "run"
  /\ busy_threads' = busy_threads - 1
  /\ wpc' = [wpc EXCEPT ![w] = "lock"]
  /\ UNCHANGED <<owner, admin, ppc, queueVars, live_threads, exit_threads, closing, mytask, stray, uncreated>>

worker_job(w) ==
  WaitForTask(w) \/ WorkerShutdown(w) \/ Retire(w) \/ Dequeue(w) \/ BusyBegin(w) \/ BusyEnd(w)

WakeSpuriously(w) ==
  /\ wpc[w] = "wait" /\ stray < MaxStray
  /\ stray' = stray + 1
  /\ wpc' = [wpc EXCEPT ![w] = "woken"]
  /\ UNCHANGED <<owner, admin, ppc, queueVars, counters, mytask, uncreated>>
-----------------------------------------------------------------------------
(* admin_job: one round a second. *)
ShrinkSoon == live_threads - busy_threads >= MaxFree \* mutant
TooManyFree == live_threads - busy_threads >= MaxFree + Step
AdminShrink ==
  /\ admin = "loop" /\ ~closing
  /\ TooManyFree
  /\ exit_threads' = Step
  /\ wpc' \in WakeUp(Step, wpc)
  /\ UNCHANGED <<owner, admin, ppc, queueVars, live_threads, busy_threads, closing, mytask, stray, uncreated>>

(* __get_free_pos, Step times: places never used first, in order, then     *)
(* those whose thread has ended.  Asking pthread_kill about a detached     *)
(* thread that has ended is undefined: such a place is found or not.       *)
(*                                                                         *)
(* Each time pthread_create makes a thread (the places new) or fails, and  *)
(* then leaves the place as it was, or (the places lost) with the id of no *)
(* thread, which is again undefined to ask about: failed times in all.     *)
InOrder(places) == \A w \in places, v \in In({"none"}) \ places : w < v
Found(new, lost, failed) ==
  LET used == (new \cup lost) \cap In({"none"})
      tries == Cardinality(new) + failed
  IN  /\ new \cap lost = {} /\ lost \subseteq used /\ InOrder(used)
      /\ Cardinality(lost) <= failed /\ tries <= Step
      /\ used # In({"none"}) => tries = Step
      /\ failed > 0 => In({"none", "exited"}) # {}

AdminGrow ==
  /\ admin = "loop" /\ ~closing
  /\ busy_threads = live_threads /\ live_threads < MaxThreads
  /\ \E new \in SUBSET In({"none", "exited"}), lost \in SUBSET In({"none"}), failed \in 0 .. Step :
       /\ Found(new, lost, failed)
       /\ wpc' = [w \in Places |-> IF w \in new THEN "lock" ELSE IF w \in lost THEN "exited" ELSE wpc[w]]
       /\ live_threads' = live_threads + Cardinality(new) + failed
       /\ uncreated' = uncreated + failed
       /\ owner' \in {owner} \cup (IF failed > 0 THEN {"crashed"} ELSE {})
  /\ UNCHANGED <<admin, ppc, queueVars, busy_threads, exit_threads, closing, mytask, stray>>

AdminExit ==
  /\ admin = "loop" /\ closing
  /\ admin' = "exited"
  /\ UNCHANGED <<owner, wpc, ppc, queueVars, counters, mytask, stray, uncreated>>
-----------------------------------------------------------------------------
(* pool_add_task: shutdown is not looked at. *)
MayAdd(p) ==
  /\ owner # "init"
  /\ \/ ppc[p] = "idle" /\ added + Cardinality({q \in Producers : ppc[q] # "idle"}) < MaxTasks
     \/ ppc[p] = "retry"

AddWait(p) ==
  /\ MayAdd(p)
  /\ queue_is_full
  /\ ppc' = [ppc EXCEPT ![p] = "full"]
  /\ UNCHANGED <<owner, admin, wpc, queueVars, counters, mytask, stray, uncreated>>

Add(p) ==
  /\ MayAdd(p)
  /\ ~queue_is_full
  /\ queue_en
  /\ wpc' \in WakeUp(1, wpc)
  /\ ppc' = [ppc EXCEPT ![p] = "idle"]
  /\ UNCHANGED <<owner, admin, counters, mytask, stray, uncreated>>

(* pool_destroy: flag and broadcast, a second's sleep, then free. *)
BroadcastShutdown ==
  /\ owner = "live"
  /\ owner' = "sleep"
  /\ closing' = TRUE
  /\ wpc' \in WakeUp(MaxThreads, wpc)
  /\ UNCHANGED <<admin, ppc, queueVars, live_threads, busy_threads, exit_threads, mytask, stray, uncreated>>
FreePool ==
  /\ owner = "sleep"
  /\ owner' = "freed"
  /\ UNCHANGED <<admin, wpc, ppc, queueVars, counters, mytask, stray, uncreated>>
-----------------------------------------------------------------------------
Quiet == added = MaxTasks /\ \A w \in Places : wpc[w] \in {"none", "wait", "exited"}

(* Use of a freed pool is undefined, and so is to detach no thread. *)
InUse == owner \notin {"freed", "crashed"}

DynNext ==
  \/ /\ InUse
     /\ \/ CreateFirstWorkers \/ InitFails
        \/ \E w \in Places : worker_job(w) \/ WakeSpuriously(w)
        \/ AdminShrink \/ AdminGrow \/ AdminExit
        \/ \E p \in Producers : AddWait(p) \/ Add(p)
        \/ BroadcastShutdown \/ FreePool
  \/ (~InUse \/ Quiet) /\ UNCHANGED dynVars

DynSpec == DynInit /\ [][DynNext]_dynVars
(* Threads that can run do, and tasks end. *)
DynFairSpec ==
  /\ DynSpec
  /\ \A w \in Places : WF_dynVars(InUse /\ worker_job(w))
  /\ \A p \in Producers : WF_dynVars(InUse /\ ppc[p] = "retry" /\ (AddWait(p) \/ Add(p)))
-----------------------------------------------------------------------------
DynTypeOK ==
  /\ owner \in {"init", "live", "sleep", "freed", "crashed"} /\ admin \in {"loop", "exited"}
  /\ wpc \in [Places -> {"none", "lock", "wait", "woken", "start", "run", "exited"}]
  /\ ppc \in [Producers -> {"idle", "full", "retry"}]
  /\ s \in [RingSlots -> 0 .. MaxTasks] /\ front \in RingSlots /\ rear \in RingSlots
  /\ live_threads \in 1 .. MaxThreads + Step /\ busy_threads \in 0 .. MaxThreads
  /\ exit_threads \in 0 .. Step /\ closing \in BOOLEAN
  /\ mytask \in [Places -> BOOLEAN]
  /\ added \in 0 .. MaxTasks /\ dequeued \in 0 .. MaxTasks
  /\ stray \in 0 .. MaxStray /\ uncreated \in 0 .. Step

(* The slot i places after f. *)
DynAt(f, i) == IF f + i <= QueueCap THEN f + i ELSE f + i - QueueCap - 1

(* Behind front lie the tasks added and not yet dequeued, in order, and    *)
(* every other slot has been cleared; every variable has its type.         *)
QueueIsFifo ==
  /\ DynTypeOK
  /\ dequeued <= added /\ added - dequeued <= QueueCap
  /\ rear = DynAt(front, added - dequeued)
  /\ \A i \in 1 .. QueueCap + 1 : s[DynAt(front, i % (QueueCap + 1))] = IF i <= added - dequeued THEN dequeued + i ELSE 0

(* The workers that have not left; while pool_init runs, those it is about *)
(* to create too.                                                          *)
Alive == In({"lock", "wait", "woken", "start", "run"})
           \cup (IF owner = "init" THEN {w \in 1 .. MinFree : wpc[w] = "none"} ELSE {})

(* The counters the admin thread decides by are right, although the two    *)
(* are kept under different locks: busy_threads counts the workers in a    *)
(* task and, until destroy, live_threads those that have not left and one  *)
(* for each creation that failed.  Once one has failed, busy_threads never *)
(* reaches live_threads: the pool does not grow again, however many of its *)
(* workers are busy.                                                       *)
CountersAgree ==
  /\ busy_threads = Cardinality(In({"run"}))
  /\ owner \in {"init", "live"} => live_threads = Cardinality(Alive) + uncreated
  /\ owner \in {"init", "live"} /\ uncreated > 0 => busy_threads < live_threads

(* However requests to leave, late wake-ups, growth and its failures mix,  *)
(* never so many workers are asked to leave that fewer than MinFree stay:  *)
(* by the counter; in truth a round of failures may leave MaxFree - Step,  *)
(* which for the constants of pool.h is MinFree again.                     *)
NeverTooFew ==
  /\ live_threads >= MinFree + exit_threads
  /\ owner \in {"init", "live"} =>
       \/ Cardinality(Alive) >= MinFree + exit_threads
       \/ uncreated > 0 /\ Cardinality(Alive) + Step >= MaxFree + exit_threads

(* A producer that found the queue full gets its task in, or the pool is   *)
(* shut down, or fell victim to creations that failed: to their undefined  *)
(* ids, or to limits that let all its workers leave after them.            *)
AddReturns ==
  \A p \in Producers :
    ppc[p] = "full" ~>
      \/ ppc[p] = "idle" \/ closing \/ owner = "crashed"
      \/ uncreated > 0 /\ MaxFree < MinFree + Step

(* pool.c:189 "a task has come": a worker that goes to work has just   *)
(* taken a task from the queue, so that each task is run once.             *)
RunsTakenTask == \A w \in Places : wpc[w] = "start" => mytask[w]
=============================================================================
