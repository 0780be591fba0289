----------------------------- MODULE ThreadPool -----------------------------
(***************************************************************************)
(* The gateway's fixed-size thread pool (thread_pool.c): a ring of tasks   *)
(* and a shutdown flag behind one mutex, worker threads that sleep on one  *)
(* condition variable, and the three calls create, add and destroy.        *)
(*                                                                         *)
(* A thread's section between pthread_mutex_lock and unlock is two steps,  *)
(* taking the lock and the body that ends by giving it back: nobody else   *)
(* reads or writes the pool in between, but other threads do move, and a   *)
(* signal handler may run on top of the holder (module AlarmPool).         *)
(*                                                                         *)
(* A task is the number of its acceptance by threadpool_add: the pair of   *)
(* function and argument is only ever stored, copied and called.           *)
(***************************************************************************)
EXTENDS Naturals, FiniteSets

CONSTANTS
  Workers,      \* the worker threads threadpool_create is asked for
  Adders,       \* the contexts that call threadpool_add
  Owner,        \* the thread that calls create and destroy (main)
  NoThread,     \* the holder of a free mutex
  QueueSize,    \* pool->queue_size
  MaxCalls,     \* bound: calls of threadpool_add in a behaviour
  MaxSpurious   \* bound: wake-ups of pthread_cond_wait without a signal

ASSUME PoolAssumption ==
  /\ IsFiniteSet(Workers) /\ Workers # {}
  /\ Workers \cap Adders = {}
  /\ Owner \notin Workers \cup Adders
  /\ NoThread \notin Workers \cup Adders \cup {Owner}
  /\ QueueSize \in Nat \ {0}
  /\ MaxCalls \in Nat /\ MaxSpurious \in Nat

VARIABLES
  lock,        \* the thread that holds pool->lock
  queue,       \* pool->queue
  head, tail, count, shutdown,   \* the fields of the same names
  pc,          \* where each thread is
  task,        \* the worker's local copy of the task it took
  calls,       \* calls of threadpool_add so far
  accepted,    \* history: tasks threadpool_add has stored
  taken,       \* history: tasks workers have removed from the ring
  finished,    \* history: tasks whose function has returned
  spurious     \* spurious wake-ups so far

vars == <<lock, queue, head, tail, count, shutdown, pc, task,
          calls, accepted, taken, finished, spurious>>
ring == <<queue, head, tail, count>>
hist == <<calls, accepted, taken, finished, spurious>>

Threads == Workers \cup Adders \cup {Owner}
Slots == 0 .. QueueSize - 1
NoTask == 0

WorkerLabels == {"none", "lock", "locked", "wait", "run", "exited"}
AdderLabels == {"idle", "add_lock", "add"}
OwnerLabels == {"create", "live", "d_lock", "destroy", "join", "freed"}

Waiting == {w \in Workers : pc[w] = "wait"}
Created == {w \in Workers : pc[w] # "none"}

(* pool->head, tail, count and shutdown start at 0, thread_count at 0: no *)
(* worker exists and Owner is inside threadpool_create.                   *)
Init ==
  /\ lock = NoThread
  /\ queue = [i \in Slots |-> NoTask]
  /\ head = 0 /\ tail = 0 /\ count = 0
  /\ shutdown = FALSE
  /\ pc = [t \in Threads |-> IF t \in Workers THEN "none"
                             ELSE IF t = Owner THEN "create" ELSE "idle"]
  /\ task = [w \in Workers |-> NoTask]
  /\ calls = 0 /\ accepted = 0 /\ taken = 0 /\ finished = {} /\ spurious = 0

(* pool->count == pool->queue_size, the test of threadpool_add. *)
NeverFull == FALSE
Full == count = QueueSize

(* The step of head and of tail. *)
NextSlot(i) == (i + 1) % QueueSize

Goto(t, label) == pc' = [pc EXCEPT ![t] = label]

(* pthread_mutex_lock(&pool->lock): blocks until the mutex is free. *)
Acquire(t, from, to) ==
  /\ pc[t] = from
  /\ lock = NoThread
  /\ lock' = t
  /\ Goto(t, to)

-----------------------------------------------------------------------------
(* threadpool_create: one pthread_create after another; the pool pointer   *)
(* is returned, and becomes visible to the adders, after the last one.     *)
CreateWorker(w) ==
  /\ pc[Owner] = "create"
  /\ pc[w] = "none"
  /\ pc' = [pc EXCEPT ![w] = "lock",
                      ![Owner] = IF Created \cup {w} = Workers THEN "live" ELSE "create"]
  /\ UNCHANGED <<lock, ring, shutdown, task, hist>>

(* An allocation, an initialisation or a pthread_create failed: create     *)
(* calls threadpool_destroy on what exists so far and returns NULL.        *)
CreateFails ==
  /\ pc[Owner] = "create"
  /\ Goto(Owner, "d_lock")
  /\ UNCHANGED <<lock, ring, shutdown, task, hist>>

-----------------------------------------------------------------------------
(* threadpool_worker. *)
WorkerLock(w) ==
  /\ Acquire(w, "lock", "locked")
  /\ UNCHANGED <<ring, shutdown, task, hist>>

(* The queue is empty and the pool is not being destroyed: cond_wait       *)
(* gives the mutex back and sleeps in one step.                            *)
WorkerWait(w) ==
  /\ pc[w] = "locked"
  /\ count = 0 /\ ~shutdown
  /\ Goto(w, "wait")
  /\ lock' = NoThread
  /\ UNCHANGED <<ring, shutdown, task, hist>>

WorkerExit(w) ==
  /\ pc[w] = "locked"
  /\ shutdown
  /\ Goto(w, "exited")
  /\ lock' = NoThread
  /\ UNCHANGED <<ring, shutdown, task, hist>>

WorkerTake(w) ==
  /\ pc[w] = "locked"
  /\ count # 0 /\ ~shutdown
  /\ task' = [task EXCEPT ![w] = queue[head]]
  /\ head' = NextSlot(head)
  /\ count' = count - 1
  /\ taken' = taken + 1
  /\ Goto(w, "run")
  /\ lock' = NoThread
  /\ UNCHANGED <<queue, tail, shutdown, calls, accepted, finished, spurious>>

(* task.function(task.argument), called without the lock. *)
WorkerRun(w) ==
  /\ pc[w] = "run"
  /\ finished' = finished \cup {task[w]}
  /\ Goto(w, "lock")
  /\ UNCHANGED <<lock, ring, shutdown, task, calls, accepted, taken, spurious>>

(* POSIX lets pthread_cond_wait return without a signal. *)
SpuriousWake(w) ==
  /\ pc[w] = "wait"
  /\ spurious < MaxSpurious
  /\ spurious' = spurious + 1
  /\ Goto(w, "lock")
  /\ UNCHANGED <<lock, ring, shutdown, task, calls, accepted, taken, finished>>

-----------------------------------------------------------------------------
(* threadpool_add *)
AddCall(a) ==
  /\ pc[a] = "idle"
  /\ calls < MaxCalls
  /\ calls' = calls + 1
  /\ Goto(a, "add_lock")
  /\ UNCHANGED <<lock, ring, shutdown, task, accepted, taken, finished, spurious>>

AddLock(a) ==
  /\ Acquire(a, "add_lock", "add")
  /\ UNCHANGED <<ring, shutdown, task, hist>>

(* The ring is full, or the pool is being destroyed: -1. *)
AddReject(a) ==
  /\ pc[a] = "add"
  /\ Full \/ shutdown
  /\ Goto(a, "idle")
  /\ lock' = NoThread
  /\ UNCHANGED <<ring, shutdown, task, hist>>

(* pthread_cond_signal: one sleeping worker, if there is one, leaves       *)
(* cond_wait and goes for the mutex.                                       *)
SignalNobody(a) == Goto(a, "idle")
SignalIfWasEmpty(a) ==
  \/ /\ Waiting = {} \/ count > 0
     /\ Goto(a, "idle")
  \/ /\ count = 0
     /\ \E w \in Waiting : pc' = [pc EXCEPT ![w] = "lock", ![a] = "idle"]
Signal(a) ==
  \/ /\ Waiting = {}
     /\ Goto(a, "idle")
  \/ \E w \in Waiting : pc' = [pc EXCEPT ![w] = "lock", ![a] = "idle"]

AddAccept(a) ==
  /\ pc[a] = "add"
  /\ ~Full /\ ~shutdown
  /\ queue' = [queue EXCEPT ![tail] = accepted + 1]
  /\ tail' = NextSlot(tail)
  /\ count' = count + 1
  /\ accepted' = accepted + 1
  /\ Signal(a)
  /\ lock' = NoThread
  /\ UNCHANGED <<head, shutdown, task, calls, taken, finished, spurious>>

-----------------------------------------------------------------------------
(* threadpool_destroy *)
DestroyCall ==
  /\ pc[Owner] = "live"
  /\ Goto(Owner, "d_lock")
  /\ UNCHANGED <<lock, ring, shutdown, task, hist>>

DestroyLock ==
  /\ Acquire(Owner, "d_lock", "destroy")
  /\ UNCHANGED <<ring, shutdown, task, hist>>

DestroySignal ==
  /\ pc[Owner] = "destroy"
  /\ shutdown' = TRUE
  /\ \/ Waiting = {} /\ Goto(Owner, "join")
     \/ \E w \in Waiting : pc' = [pc EXCEPT ![w] = "lock", ![Owner] = "join"]
  /\ lock' = NoThread
  /\ UNCHANGED <<ring, task, hist>>
(* Owner destroys once, so the test of shutdown at the top is false here. *)
DestroyBroadcast ==
  /\ pc[Owner] = "destroy"
  /\ shutdown' = TRUE
  /\ pc' = [t \in Threads |-> IF t = Owner THEN "join"
                              ELSE IF t \in Waiting THEN "lock" ELSE pc[t]]
  /\ lock' = NoThread
  /\ UNCHANGED <<ring, task, hist>>

(* pthread_join has returned for every created worker. *)
NotJoined == TRUE
Joined == \A w \in Created : pc[w] = "exited"

(* The joins, then the frees. *)
DestroyFree ==
  /\ pc[Owner] = "join"
  /\ Joined
  /\ Goto(Owner, "freed")
  /\ UNCHANGED <<lock, ring, shutdown, task, hist>>
-----------------------------------------------------------------------------
WorkerStep(w) ==
  \/ WorkerLock(w) \/ WorkerWait(w) \/ WorkerExit(w) \/ WorkerTake(w) \/ WorkerRun(w)
AddStep(a) == AddLock(a) \/ AddReject(a) \/ AddAccept(a)
OwnerStep == DestroyLock \/ DestroyBroadcast \/ DestroyFree

(* The callers' side: an adder has the pool pointer from the end of create *)
(* until destroy is called, and destroy is called when no add is running.  *)
Callers ==
  \/ \E a \in Adders : pc[Owner] = "live" /\ AddCall(a)
  \/ (\A a \in Adders : pc[a] = "idle") /\ DestroyCall

Next ==
  \/ \E w \in Workers : CreateWorker(w) \/ WorkerStep(w) \/ SpuriousWake(w)
  \/ \E a \in Adders : AddStep(a)
  \/ CreateFails
  \/ OwnerStep
  \/ Callers
  \/ pc[Owner] = "freed" /\ UNCHANGED vars   \* the pool is gone

Spec == Init /\ [][Next]_vars

(* A thread that can run does run; a task's function returns. *)
Fairness ==
  /\ \A w \in Workers : WF_vars(WorkerStep(w))
  /\ \A a \in Adders : WF_vars(AddStep(a))
  /\ WF_vars(OwnerStep)

FairSpec == Spec /\ Fairness
-----------------------------------------------------------------------------
TypeOK ==
  /\ lock \in Threads \cup {NoThread}
  /\ queue \in [Slots -> Nat]
  /\ head \in Slots /\ tail \in Slots
  /\ count \in 0 .. QueueSize
  /\ shutdown \in BOOLEAN
  /\ pc \in [Threads -> WorkerLabels \cup AdderLabels \cup OwnerLabels]
  /\ task \in [Workers -> Nat]
  /\ calls \in 0 .. MaxCalls
  /\ accepted \in Nat /\ taken \in Nat /\ finished \subseteq Nat
  /\ spurious \in 0 .. MaxSpurious

(* The index i places behind h in the ring. *)
At(h, i) == IF h + i < QueueSize THEN h + i ELSE h + i - QueueSize

(* The ring holds, from head on, exactly the accepted tasks no worker has  *)
(* taken yet, oldest first: nothing is overwritten when the indices wrap,  *)
(* nothing is skipped, and count agrees with the two indices.              *)
RingIsFifo ==
  /\ accepted = taken + count
  /\ tail = At(head, count)
  /\ \A i \in 0 .. count - 1 : queue[At(head, i)] = taken + 1 + i

Running == {w \in Workers : pc[w] = "run"}

(* Every task a worker took is run once: it is finished, or exactly one    *)
(* worker is running it, never both, and no untaken task is either.        *)
RunsOnce ==
  /\ finished \cap {task[w] : w \in Running} = {}
  /\ \A v, w \in Running : task[v] = task[w] => v = w
  /\ finished \cup {task[w] : w \in Running} = 1 .. taken

(* Tasks are taken in the order in which they were accepted, and each one  *)
(* that was taken is run exactly once.                                     *)
TasksOnceInOrder == RingIsFifo /\ RunsOnce

Awake == {w \in Workers : pc[w] \in {"lock", "locked", "run"}}

(* No wake-up is lost: while the pool is in use, as many workers are awake *)
(* as there are queued tasks (or all of them), although add signals just   *)
(* one sleeper and any worker may steal the task it was signalled for.     *)
NoLostWakeup ==
  pc[Owner] = "live" =>
    \/ Awake = Workers
    \/ Cardinality(Awake) >= count

(* When destroy frees the pool no thread is inside it or will enter it. *)
FreedIsUnused ==
  pc[Owner] = "freed" =>
    \A t \in Threads \ {Owner} : pc[t] \in {"none", "exited", "idle"}

(* A task in the ring is eventually run, unless destroy comes first. *)
AcceptedIsRun ==
  \A n \in 1 .. MaxCalls : accepted >= n ~> (n \in finished \/ shutdown)

(* threadpool_destroy returns: no worker sleeps through the broadcast. *)
DestroyReturns == pc[Owner] = "d_lock" ~> pc[Owner] = "freed"
=============================================================================
