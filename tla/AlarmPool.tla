----------------------------- MODULE AlarmPool ------------------------------
(***************************************************************************)
(* The alarm scheduler (alarm_scheduler.c) composed with the thread pool   *)
(* it feeds.  setitimer raises SIGALRM every second; the handler runs on   *)
(* top of whatever thread the kernel picks, counts the periodic tasks down *)
(* and calls threadpool_add for those that are due.  While it runs, its    *)
(* host thread is suspended exactly where it was, inside a critical        *)
(* section of the pool too.                                                *)
(*                                                                         *)
(* The adders of the pool are Reactor (handle_udp_read on the main thread) *)
(* and Handler, a context of its own that lives on its host's stack.  The  *)
(* main thread is Owner.  At most one handler runs at a time: ticks are a  *)
(* second apart and a handler is either done by then or stuck for ever.    *)
(***************************************************************************)
EXTENDS ThreadPool, Sequences

CONSTANTS
  Reactor, Handler,   \* the two adders
  Intervals,          \* the interval_sec of each alarm_scheduler_add_task call
  MaxAlarmTasks,      \* MAX_ALARM_TASKS
  MaxTicks            \* bound: SIGALRMs in a behaviour

ASSUME AlarmAssumption ==
  /\ Adders = {Reactor, Handler} /\ Reactor # Handler
  /\ Intervals \in Seq(Nat \ {0})
  /\ MaxAlarmTasks \in Nat /\ MaxTicks \in Nat

VARIABLES
  tasks,        \* the slots
  registered,   \* calls of alarm_scheduler_add_task so far
  armed,        \* the interval timer runs
  pending,      \* SIGALRM is pending: a second one is merged with it
  host, pos,    \* the thread the handler runs on, and its loop index
  ticks,        \* SIGALRMs raised so far
  seen, fired   \* history: for each slot, ticks counted and firings

alarmVars == <<tasks, registered, armed, pending, host, pos, ticks, seen, fired>>
allVars == <<vars, alarmVars>>

AlarmSlots == 1 .. MaxAlarmTasks
Free == [in_use |-> 0, interval |-> 0, ticks_left |-> 0]

(* alarm_scheduler_init has cleared the slots and started the timer; main  *)
(* is about to register its tasks and to create the pool.                  *)
InitAlarm ==
  /\ Init
  /\ tasks = [i \in AlarmSlots |-> Free]
  /\ registered = 0 /\ armed = TRUE /\ pending = FALSE
  /\ host = NoThread /\ pos = 1 /\ ticks = 0
  /\ seen = [i \in AlarmSlots |-> 0] /\ fired = [i \in AlarmSlots |-> 0]

(* Threads that can take the signal. *)
Hosts == {t \in Workers : pc[t] \notin {"none", "exited"}} \cup {Owner}
-----------------------------------------------------------------------------
(* alarm_scheduler_add_task, with SIGALRM blocked in the main thread, the  *)
(* only one at that time: no handler runs in the middle.                   *)
FirstFree == CHOOSE i \in AlarmSlots :
               tasks[i].in_use = 0 /\ \A j \in AlarmSlots : tasks[j].in_use = 0 => i <= j
AddTask ==
  /\ pc[Owner] = "create" /\ host # Owner
  /\ registered < Len(Intervals)
  /\ registered' = registered + 1
  /\ tasks' = IF \A i \in AlarmSlots : tasks[i].in_use = 1 THEN tasks
              ELSE [tasks EXCEPT ![FirstFree] =
                      [in_use |-> 1, interval |-> Intervals[registered + 1],
                       ticks_left |-> Intervals[registered + 1]]]
  /\ UNCHANGED <<vars, armed, pending, host, pos, ticks, seen, fired>>

(* The kernel's side: the timer expires; the signal is delivered. *)
Tick ==
  /\ armed /\ ticks < MaxTicks
  /\ ticks' = ticks + 1
  /\ pending' = TRUE
  /\ UNCHANGED <<vars, tasks, registered, armed, host, pos, seen, fired>>

Deliver(h) ==
  /\ pending /\ host = NoThread
  /\ h \in Hosts
  /\ pending' = FALSE
  /\ host' = h /\ pos' = 1
  /\ UNCHANGED <<vars, tasks, registered, armed, ticks, seen, fired>>

(* g_threadpool is not NULL: create has returned (nobody clears it). *)
PoolExists == pc[Owner] # "create"

(* One slot of handle_sigalrm's loop. *)
CountDown(i) ==
  [tasks EXCEPT ![i].ticks_left = IF @ - 1 <= 0 THEN tasks[i].interval ELSE @ - 1]
DueLate(i) == tasks[i].ticks_left - 1 < 0
Due(i) == tasks[i].ticks_left - 1 <= 0

HandlerSlot ==
  /\ host # NoThread /\ pos <= MaxAlarmTasks /\ pc[Handler] = "idle"
  /\ pos' = pos + 1
  /\ IF tasks[pos].in_use = 1
       THEN /\ tasks' = CountDown(pos)
            /\ seen' = [seen EXCEPT ![pos] = @ + 1]
            /\ fired' = IF Due(pos) THEN [fired EXCEPT ![pos] = @ + 1] ELSE fired
            /\ pc' = IF Due(pos) /\ PoolExists THEN [pc EXCEPT ![Handler] = "add_lock"] ELSE pc
       ELSE UNCHANGED <<tasks, seen, fired, pc>>
  /\ UNCHANGED <<lock, ring, shutdown, task, hist, registered, armed, pending, host, ticks>>

HandlerReturn ==
  /\ host # NoThread /\ pos > MaxAlarmTasks /\ pc[Handler] = "idle"
  /\ host' = NoThread
  /\ UNCHANGED <<vars, tasks, registered, armed, pending, pos, ticks, seen, fired>>

(* alarm_scheduler_destroy, called by main before threadpool_destroy. *)
AlarmDestroy ==
  /\ pc[Owner] = "live" /\ pc[Reactor] = "idle" /\ armed
  /\ armed' = FALSE
  /\ tasks' = [i \in AlarmSlots |-> Free]
  /\ seen' = [i \in AlarmSlots |-> 0] /\ fired' = [i \in AlarmSlots |-> 0]
  /\ UNCHANGED <<vars, registered, pending, host, pos, ticks>>
-----------------------------------------------------------------------------
(* The steps of the pool, each on a thread the handler has not suspended.  *)
OnWorker(w) == host # w /\ WorkerStep(w) /\ UNCHANGED alarmVars
OnMain ==
  /\ host # Owner
  /\ \/ /\ OwnerStep \/ AddStep(Reactor)
        /\ UNCHANGED alarmVars
     \/ /\ registered = Len(Intervals)
        /\ \E w \in Workers : CreateWorker(w)
        /\ UNCHANGED alarmVars
     \/ AddTask
     \/ AlarmDestroy
     \/ /\ ~armed /\ pc[Reactor] = "idle" /\ DestroyCall
        /\ UNCHANGED alarmVars
InHandler == \/ HandlerSlot
             \/ AddStep(Handler) /\ UNCHANGED alarmVars
             \/ HandlerReturn

NextAlarm ==
  \/ \E w \in Workers : OnWorker(w)
  \/ \E w \in Workers : host # w /\ SpuriousWake(w) /\ UNCHANGED alarmVars
  \/ OnMain
  \/ armed /\ host # Owner /\ pc[Owner] = "live" /\ AddCall(Reactor) /\ UNCHANGED alarmVars
  \/ InHandler
  \/ Tick
  \/ \E h \in Hosts : Deliver(h)
  \/ pc[Owner] = "freed" /\ host = NoThread /\ UNCHANGED allVars   \* the pool is gone

SpecAlarm == InitAlarm /\ [][NextAlarm]_allVars
(* Threads that can run do; a handler that waits for the mutex gets it if  *)
(* it is free again and again.                                             *)
FairAlarm ==
  /\ SpecAlarm
  /\ SF_allVars(InHandler)
  /\ \A w \in Workers : WF_allVars(OnWorker(w))
  /\ WF_allVars(host # Owner /\ (OwnerStep \/ AddStep(Reactor)) /\ UNCHANGED alarmVars)
-----------------------------------------------------------------------------
TypeOKAlarm ==
  /\ TypeOK
  /\ \A i \in AlarmSlots : tasks[i].ticks_left \in 0 .. tasks[i].interval
  /\ host \in Workers \cup {Owner, NoThread} /\ pos \in 1 .. MaxAlarmTasks + 1

(* The pool's own guarantees survive an adding thread that is a signal     *)
(* handler on top of any of its threads: the ring stays a FIFO, and as     *)
(* long as tasks are queued somebody is awake or about to be woken.  After *)
(* threadpool_destroy has freed the pool no handler is in it and none will *)
(* enter it, although g_threadpool still points there: a handler on a      *)
(* worker keeps the worker from being joined, and the slots are empty      *)
(* before destroy is called.                                               *)
HandlerKeepsPool ==
  /\ TypeOKAlarm /\ RingIsFifo /\ NoLostWakeup
  /\ pc[Owner] = "freed" => pc[Handler] = "idle" /\ \A i \in AlarmSlots : tasks[i].in_use = 0

(* A periodic task is due at every interval-th tick that is handled, with  *)
(* no drift: firings are ticks divided by the interval.                    *)
FiresOnTime ==
  \A i \in AlarmSlots :
    tasks[i].in_use = 1 =>
      /\ fired[i] = seen[i] \div tasks[i].interval
      /\ tasks[i].ticks_left = tasks[i].interval - (seen[i] % tasks[i].interval)

(* alarm_scheduler.c: the handler hands the task over and does nothing     *)
(* that takes time, so it returns.                                         *)
HandlerReturns == host # NoThread ~> host = NoThread
=============================================================================
