---------------------------- MODULE GatewayExit -----------------------------
(***************************************************************************)
(* The end of the gateway process: main's exit sequence (main.c), which    *)
(* runs when poll fails, against the pool workers and the cloud thread     *)
(* that are still at work, and the handler of SIGTERM and SIGINT that ends *)
(* the process instead (daemon.c).  Everybody logs: write_log holds one    *)
(* mutex across library calls that are cancellation points (logger.c).     *)
(* The pool's own locking is ThreadPool's subject; here its queue is       *)
(* filled and emptied in single steps.                                     *)
(***************************************************************************)
EXTENDS Naturals, Sequences, FiniteSets

CONSTANTS
  Workers,     \* threads of the pool
  Main, Cloud, \* the main thread and the cloud client's thread
  Nobody,      \* the holder of a free mutex
  MaxTasks     \* bound: tasks given to the pool

ASSUME ExitAssumption ==
  /\ IsFiniteSet(Workers) /\ Main # Cloud /\ {Main, Cloud} \cap Workers = {}
  /\ Nobody \notin Workers \cup {Main, Cloud} /\ MaxTasks \in Nat

VARIABLES
  pc,          \* where each thread is
  log_mutex,   \* its holder
  cancelling,  \* pthread_cancel has been called on the cloud thread
  armed,       \* the alarm timer runs
  fifo,        \* fifo_write_fd is open
  attached,    \* shared_mem is mapped
  objects,     \* the FIFO and the System V objects that exist
  shutdown,    \* pool->shutdown
  queue,       \* tasks in the pool's queue
  added        \* tasks given to the pool

vars == <<pc, log_mutex, cancelling, armed, fifo, attached, objects, shutdown, queue, added>>
res == <<cancelling, armed, attached, objects, shutdown>>
pool == <<queue, added>>

Threads == Workers \cup {Main, Cloud}

(* The event loop runs; everything has been created. *)
Init ==
  /\ pc = [t \in Threads |-> IF t = Main THEN "poll" ELSE IF t = Cloud THEN "wait" ELSE "idle"]
  /\ log_mutex = Nobody /\ cancelling = FALSE /\ armed = TRUE
  /\ fifo = TRUE /\ attached = TRUE /\ objects = {"fifo", "shm", "sem"}
  /\ shutdown = FALSE /\ queue = <<>> /\ added = 0

Goto(t, label) == pc' = [pc EXCEPT ![t] = label]
-----------------------------------------------------------------------------
(* write_log: t takes the mutex and opens the file; then it closes the     *)
(* file and leaves.                                                        *)
LogOpenUnlocked(t, from, inside) == \* mutant: no mutex
  /\ pc[t] = from
  /\ log_mutex' = t
  /\ Goto(t, inside)
  /\ UNCHANGED <<res, fifo, pool>>
LogOpen(t, from, inside) ==
  /\ pc[t] = from
  /\ log_mutex = Nobody
  /\ log_mutex' = t
  /\ Goto(t, inside)
  /\ UNCHANGED <<res, fifo, pool>>

LogClose(t, inside, to) ==
  /\ pc[t] = inside
  /\ log_mutex' = Nobody
  /\ Goto(t, to)
  /\ UNCHANGED <<res, fifo, pool>>
-----------------------------------------------------------------------------
(* The tasks: a datagram with two readings or with one, one that is only   *)
(* logged (not understood, or the data queue is full), and the heartbeat.  *)
(* handle_udp_read adds the first three while main polls, the alarm        *)
(* handler the last while the timer runs.                                  *)
AddTask ==
  /\ added < MaxTasks
  /\ \E kind \in (IF pc[Main] = "poll" THEN {"pair", "udp", "udp_log"} ELSE {})
                 \cup (IF armed THEN {"beat"} ELSE {}) :
       queue' = Append(queue, kind)
  /\ added' = added + 1
  /\ UNCHANGED <<pc, log_mutex, res, fifo>>

(* threadpool_worker: the flag is looked at before the queue. *)
TakeTask(w) ==
  /\ pc[w] = "idle" /\ ~shutdown /\ queue # <<>>
  /\ Goto(w, Head(queue))
  /\ queue' = Tail(queue)
  /\ UNCHANGED <<log_mutex, res, fifo, added>>

WorkerExit(w) ==
  /\ pc[w] = "idle" /\ shutdown
  /\ Goto(w, "exited")
  /\ UNCHANGED <<log_mutex, res, fifo, pool>>

(* update_shared_sensor_data: the pointer is neither NULL nor -1 after     *)
(* shmdt, so the table is touched whether it is mapped or not.             *)
UpdateShared(w) ==
  /\ \/ pc[w] = "pair" /\ attached /\ Goto(w, "pair_log")
     \/ pc[w] = "udp" /\ attached /\ Goto(w, "udp_log")
     \/ pc[w] \in {"pair", "udp"} /\ ~attached /\ pc' = [t \in Threads |-> "crashed"]
  /\ UNCHANGED <<log_mutex, res, fifo, pool>>

(* process_udp_data_task: each reading is stored, then logged. *)
UdpTask(w) ==
  \/ UpdateShared(w)
  \/ LogOpen(w, "pair_log", "pair_in") \/ LogClose(w, "pair_in", "udp")
  \/ LogOpen(w, "udp_log", "udp_in") \/ LogClose(w, "udp_in", "idle")

(* process_pool_submit_task: fifo_write_fd keeps its value after close, so *)
(* the write is tried in any case; a failure is not looked at.             *)
SubmitTask(w) ==
  /\ pc[w] = "submit"
  /\ Goto(w, "idle")
  /\ UNCHANGED <<log_mutex, res, fifo, pool>>

(* heartbeat_task *)
HeartbeatTask(w) == LogOpen(w, "beat", "beat_in") \/ LogClose(w, "beat_in", "submit") \/ SubmitTask(w)

Worker(w) == TakeTask(w) \/ UdpTask(w) \/ HeartbeatTask(w) \/ WorkerExit(w)
-----------------------------------------------------------------------------
(* cloud_client_thread: it waits, uploads and logs.  A cancellation that   *)
(* is pending acts at the next cancellation point; sem_wait, connect, read *)
(* and sleep are such points, and so are fopen, fprintf and printf inside  *)
(* write_log; pthread_mutex_lock is not.  No cleanup handler is installed. *)
CloudUpload ==
  /\ pc[Cloud] = "wait"
  /\ Goto(Cloud, "cloud_log")
  /\ UNCHANGED <<log_mutex, res, fifo, pool>>
CloudStep == CloudUpload \/ LogOpen(Cloud, "cloud_log", "cloud_in") \/ LogClose(Cloud, "cloud_in", "wait")

CloudCancelled ==
  /\ cancelling /\ pc[Cloud] \in {"wait", "cloud_in"}
  /\ Goto(Cloud, "cancelled")
  /\ UNCHANGED <<log_mutex, res, fifo, pool>>
-----------------------------------------------------------------------------
(* start_event_loop ends when poll fails with another error than EINTR. *)
PollFails ==
  /\ pc[Main] = "poll"
  /\ Goto(Main, "err_log")
  /\ UNCHANGED <<log_mutex, res, fifo, pool>>

(* The exit sequence of main. *)
CancelCloud ==
  /\ pc[Main] = "cancel"
  /\ cancelling' = TRUE
  /\ Goto(Main, "join_cloud")
  /\ UNCHANGED <<log_mutex, armed, fifo, attached, objects, shutdown, pool>>

JoinCloud ==
  /\ pc[Main] = "join_cloud" /\ pc[Cloud] = "cancelled"
  /\ Goto(Main, "alarm")
  /\ UNCHANGED <<log_mutex, res, fifo, pool>>

(* alarm_scheduler_destroy *)
StopAlarm ==
  /\ pc[Main] = "alarm"
  /\ armed' = FALSE
  /\ Goto(Main, "alarm_log")
  /\ UNCHANGED <<log_mutex, cancelling, fifo, attached, objects, shutdown, pool>>

(* process_pool_destroy *)
CloseFifo ==
  /\ pc[Main] = "procs"
  /\ fifo' = FALSE
  /\ objects' = objects \ {"fifo"}
  /\ Goto(Main, "procs_log")
  /\ UNCHANGED <<log_mutex, cancelling, armed, attached, shutdown, pool>>

(* destroy_system_v_ipc *)
DetachTable ==
  /\ pc[Main] = "ipc"
  /\ attached' = FALSE
  /\ objects' = objects \ {"shm", "sem"}
  /\ Goto(Main, "ipc_log")
  /\ UNCHANGED <<log_mutex, cancelling, armed, fifo, shutdown, pool>>

(* threadpool_destroy: the flag, then the joins. *)
StopPool ==
  /\ pc[Main] = "pool"
  /\ shutdown' = TRUE
  /\ Goto(Main, "join_pool")
  /\ UNCHANGED <<log_mutex, cancelling, armed, fifo, attached, objects, pool>>

JoinPool ==
  /\ pc[Main] = "join_pool"
  /\ \A w \in Workers : pc[w] = "exited"
  /\ Goto(Main, "pool_log")
  /\ UNCHANGED <<log_mutex, res, fifo, pool>>

(* The lines main logs on its way: where, inside, and where it goes on. *)
MainLogs == { <<"err_log", "err_in", "stop_log">>, <<"stop_log", "stop_in", "cancel">>,
              <<"alarm_log", "alarm_in", "procs">>, <<"procs_log", "procs_in", "ipc">>,
              <<"ipc_log", "ipc_in", "pool">>, <<"pool_log", "pool_in", "bye_log">>,
              <<"bye_log", "bye_in", "end">> }

MainStep ==
  \/ CancelCloud \/ JoinCloud \/ StopAlarm \/ CloseFifo \/ DetachTable \/ StopPool \/ JoinPool
  \/ \E l \in MainLogs : LogOpen(Main, l[1], l[2]) \/ LogClose(Main, l[2], l[3])

Ended == pc[Main] \in {"end", "killed", "crashed"}

(* signal_handler: g_running = 0, then exit(0) on whatever thread. *)
SignalHandler ==
  /\ pc' = [t \in Threads |-> "killed"]
  /\ UNCHANGED <<log_mutex, res, fifo, pool>>

Next ==
  \/ /\ ~Ended
     /\ \/ AddTask \/ \E w \in Workers : Worker(w)
        \/ CloudStep \/ CloudCancelled
        \/ PollFails \/ MainStep
        \/ SignalHandler
  \/ Ended /\ UNCHANGED vars

Spec == Init /\ [][Next]_vars
(* Threads that can run do; a mutex that is free again and again is got. *)
FairSpec ==
  /\ Spec
  /\ SF_vars(MainStep) /\ SF_vars(CloudStep) /\ WF_vars(CloudCancelled)
  /\ \A w \in Workers : SF_vars(Worker(w))
-----------------------------------------------------------------------------
(* Types; the descriptor and the FIFO, and the mapping and the System V    *)
(* objects, go together.                                                   *)
TypeOK ==
  /\ DOMAIN pc = Threads /\ log_mutex \in Threads \cup {Nobody}
  /\ {cancelling, armed, fifo, attached, shutdown} \subseteq BOOLEAN
  /\ objects = (IF fifo THEN {"fifo"} ELSE {}) \cup (IF attached THEN {"shm", "sem"} ELSE {})
  /\ queue \in Seq({"pair", "udp", "udp_log", "beat"}) /\ added \in Len(queue) .. MaxTasks

Logging == {t \in Threads : pc[t] \in {"pair_in", "udp_in", "beat_in", "cloud_in"} \cup {l[2] : l \in MainLogs}}

(* While main stops everything, log lines are never mixed: one thread at a *)
(* time is inside write_log, and the mutex is its.  When main returns, no  *)
(* thread of the gateway runs, and nothing of what it created in the       *)
(* system is left.  Every variable keeps its type.                         *)
ExitIsOrderly ==
  /\ TypeOK
  /\ \A t \in Logging : log_mutex = t
  /\ pc[Main] = "end" =>
    /\ \A t \in Threads \ {Main} : pc[t] \in {"exited", "cancelled"}
    /\ objects = {} /\ log_mutex = Nobody

(* main.c:84 calls lines 85-97 the safe exit sequence: once begun, it ends *)
(* with main's return, unless a signal ends the process.                   *)
ExitCompletes == pc[Main] = "cancel" ~> pc[Main] \in {"end", "killed"}
=============================================================================
