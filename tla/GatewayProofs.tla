--------------------------- MODULE GatewayProofs ----------------------------
(***************************************************************************)
(* Parts of the gateway that share no state, for every number of threads,  *)
(* processes, sensors, lock files and tasks: one instance works, the exit  *)
(* sequence leaves nothing behind, reads of the shared table return what   *)
(* was stored last, and the stream of commands stays in order.             *)
(***************************************************************************)
EXTENDS SharedTable, ProcessPool, GatewayExit, Daemons, SequenceTheorems, FiniteSetTheorems, WellFoundedInduction, TLAPS
-----------------------------------------------------------------------------
(* The lock file *)

(* From flock to the end of the process. *)
Holds == {"truncate", "write", "fopen", "work", "unlink", "close"}

(* A program that locks has opened a file before flock, and holds its lock *)
(* after it.                                                               *)
HoldersHold ==
  dprog.locks => \A i \in Instances :
    /\ dpc[i] \in Holds \cup {"flock"} => lock_fd[i] # 0
    /\ dpc[i] \in Holds => lockOn[lock_fd[i]] = i

(* Where nobody removes the file there is only one. *)
OneFile ==
  ~dprog.unlinks =>
    /\ created <= 1 /\ path = created
    /\ \A i \in Instances : dpc[i] \notin {"unlink", "close"}

(* The PID in the file of an instance that went past the write is its own. *)
PidIsHolders ==
  dprog.locks /\ dprog.checks =>
    \A i \in Instances : dpc[i] \in {"fopen", "work"} => pidIn[lock_fd[i]] = i

DaemonInv == DaemonTypeOK /\ HoldersHold /\ OneFile /\ PidIsHolders

LEMMA DaemonConstants ==
  /\ MaxFiles \in Nat /\ 1 \in LockFiles /\ 0 \notin LockFiles /\ 0 \notin Instances
  /\ DaemonTypeOK =>
       /\ dprog.starts \in {"config", "daemonize", "fopen"}
       /\ dprog.locks \in BOOLEAN /\ dprog.checks \in BOOLEAN /\ dprog.unlinks \in BOOLEAN
       /\ dprog.locks => dprog.starts # "fopen"
<1>0. MaxFiles \in Nat \ {0} /\ 0 \notin Instances
  BY DaemonAssumption, Zenon
<1>1. MaxFiles \in Nat /\ 1 \in LockFiles /\ 0 \notin LockFiles
  BY <1>0 DEF LockFiles
<1>2. ASSUME DaemonTypeOK
      PROVE  /\ dprog.starts \in {"config", "daemonize", "fopen"}
             /\ dprog.locks \in BOOLEAN /\ dprog.checks \in BOOLEAN /\ dprog.unlinks \in BOOLEAN
  BY <1>2, DaemonAssumption, Zenon DEF DaemonTypeOK
<1>3. ASSUME DaemonTypeOK PROVE dprog.locks => dprog.starts # "fopen"
  BY <1>3, DaemonAssumption, Zenon DEF DaemonTypeOK
<1> QED
  BY <1>0, <1>1, <1>2, <1>3

LEMMA OpenFileExists ==
  ASSUME DaemonTypeOK, NEW i \in Instances, lock_fd[i] # 0
  PROVE  lock_fd[i] \in LockFiles
  BY DaemonConstants DEF DaemonTypeOK, LockFiles

LEMMA DaemonInitInv == DaemonInit => DaemonInv
<1> SUFFICES ASSUME DaemonInit PROVE DaemonInv
  OBVIOUS
<1>1. DaemonTypeOK
  BY DaemonConstants DEF DaemonInit, DaemonTypeOK, MAX_ATTEMPTS
<1>2. HoldersHold /\ OneFile /\ PidIsHolders
  BY <1>1, DaemonConstants DEF DaemonInit, HoldersHold, OneFile, PidIsHolders, Holds
<1> QED
  BY <1>1, <1>2 DEF DaemonInv

(* Steps that only go on, or that change the attempts. *)
LEMMA DaemonPlainStep ==
  ASSUME DaemonInv, NEW i \in Instances,
         StartAgain(i) \/ load_config(i) \/ shadow_authenticate(i) \/ daemonize(i) \/ OpenOutput(i) \/ LoopEnds(i)
  PROVE  DaemonInv'
<1>1. DaemonTypeOK'
  BY DaemonConstants
  DEF DaemonInv, DaemonTypeOK, StartAgain, load_config, shadow_authenticate, daemonize, OpenOutput, LoopEnds,
      DaemonGoes, lockVars, MAX_ATTEMPTS
<1>2. HoldersHold' /\ OneFile' /\ PidIsHolders'
  BY DaemonConstants
  DEF DaemonInv, DaemonTypeOK, HoldersHold, OneFile, PidIsHolders, Holds,
      StartAgain, load_config, shadow_authenticate, daemonize, OpenOutput, LoopEnds, DaemonGoes, lockVars
<1> QED
  BY <1>1, <1>2 DEF DaemonInv

LEMMA OpenLockFileStep ==
  ASSUME DaemonInv, NEW i \in Instances, OpenLockFile(i)
  PROVE  DaemonInv'
<1>1. DaemonTypeOK'
  BY DaemonConstants DEF DaemonInv, DaemonTypeOK, OpenLockFile, DaemonGoes
<1>2. HoldersHold' /\ OneFile' /\ PidIsHolders'
  BY DaemonConstants
  DEF DaemonInv, DaemonTypeOK, HoldersHold, OneFile, PidIsHolders, Holds, OpenLockFile, DaemonGoes
<1> QED
  BY <1>1, <1>2 DEF DaemonInv

LEMMA FlockStep ==
  ASSUME DaemonInv, NEW i \in Instances, Flock(i)
  PROVE  DaemonInv'
<1>0. lock_fd[i] \in LockFiles /\ AfterFlock \in {"write", "truncate"}
  BY OpenFileExists DEF DaemonInv, Flock, AfterFlock
<1>1. DaemonTypeOK'
  BY <1>0, DaemonConstants DEF DaemonInv, DaemonTypeOK, Flock, DaemonGoes
<1>2. HoldersHold' /\ OneFile' /\ PidIsHolders'
  BY <1>0, DaemonConstants
  DEF DaemonInv, DaemonTypeOK, HoldersHold, OneFile, PidIsHolders, Holds, Flock, DaemonGoes
<1> QED
  BY <1>1, <1>2 DEF DaemonInv

(* Only the holder of a file's lock writes into it. *)
LEMMA FileWriteStep ==
  ASSUME DaemonInv, NEW i \in Instances, TruncateLockFile(i) \/ WritePid(i)
  PROVE  DaemonInv'
<1>1. DaemonTypeOK'
  BY DaemonConstants, ZenonT(40) DEF DaemonInv, DaemonTypeOK, TruncateLockFile, WritePid, DaemonGoes
<1>2. HoldersHold' /\ OneFile'
  BY DaemonConstants
  DEF DaemonInv, DaemonTypeOK, HoldersHold, OneFile, Holds, TruncateLockFile, WritePid, DaemonGoes
<1>3. PidIsHolders'
  <2> SUFFICES ASSUME dprog.locks, dprog.checks, NEW j \in Instances, dpc'[j] \in {"fopen", "work"}
               PROVE  pidIn'[lock_fd[j]] = j
    BY DEF PidIsHolders, TruncateLockFile, WritePid
  <2>1. CASE j = i
    <3>1. WritePid(i) /\ dpc[i] = "write"
      BY <2>1 DEF DaemonInv, DaemonTypeOK, TruncateLockFile, WritePid, DaemonGoes
    <3>2. lock_fd[i] \in LockFiles
      BY <3>1, OpenFileExists DEF DaemonInv, HoldersHold, Holds
    <3> QED
      BY <3>1, <3>2, <2>1 DEF DaemonInv, DaemonTypeOK, WritePid
  <2>2. CASE j # i
    <3>1. dpc[j] = dpc'[j] /\ dpc[i] \in {"truncate", "write"}
      BY <2>2 DEF DaemonInv, DaemonTypeOK, TruncateLockFile, WritePid, DaemonGoes
    <3>2. lock_fd[j] # lock_fd[i] /\ pidIn[lock_fd[j]] = j
      BY <3>1, <2>2 DEF DaemonInv, HoldersHold, Holds, PidIsHolders
    <3>3. lock_fd[j] \in LockFiles
      BY <3>1, DaemonConstants DEF DaemonInv, DaemonTypeOK, HoldersHold, Holds, LockFiles
    <3> QED
      BY <3>2, <3>3 DEF DaemonInv, DaemonTypeOK, TruncateLockFile, WritePid
  <2> QED
    BY <2>1, <2>2
<1> QED
  BY <1>1, <1>2, <1>3 DEF DaemonInv

LEMMA UnlinkStep ==
  ASSUME DaemonInv, NEW i \in Instances, Unlink(i)
  PROVE  DaemonInv'
<1>1. DaemonTypeOK'
  BY DaemonConstants DEF DaemonInv, DaemonTypeOK, Unlink, DaemonGoes
<1>2. HoldersHold' /\ OneFile' /\ PidIsHolders'
  BY DaemonConstants
  DEF DaemonInv, DaemonTypeOK, HoldersHold, OneFile, PidIsHolders, Holds, Unlink, DaemonGoes
<1> QED
  BY <1>1, <1>2 DEF DaemonInv

LEMMA FailOrDieStep ==
  ASSUME DaemonInv, NEW i \in Instances, FailOrDie(i)
  PROVE  DaemonInv'
<1>1. DaemonTypeOK'
  BY DaemonConstants DEF DaemonInv, DaemonTypeOK, FailOrDie, Ends, MAX_ATTEMPTS
<1>2. HoldersHold' /\ OneFile' /\ PidIsHolders'
  BY DaemonConstants
  DEF DaemonInv, DaemonTypeOK, HoldersHold, OneFile, PidIsHolders, Holds, FailOrDie, Ends, LockFiles
<1> QED
  BY <1>1, <1>2 DEF DaemonInv

LEMMA DaemonInvWorks == DaemonInv => OneWorks
<1> SUFFICES ASSUME DaemonInv, dprog.locks
             PROVE  /\ \A i \in Working : lockOn[lock_fd[i]] = i
                    /\ ~dprog.unlinks => Cardinality(Working) <= 1
                    /\ dprog.checks /\ ~dprog.unlinks => \A i \in Working : pidIn[path] = i
  BY DEF DaemonInv, OneWorks
<1>1. \A i \in Working : i \in Instances /\ lock_fd[i] # 0 /\ lockOn[lock_fd[i]] = i
  BY DEF DaemonInv, HoldersHold, Holds, Working
<1>2. ~dprog.unlinks => \A i \in Working : lock_fd[i] = path
  BY <1>1 DEF DaemonInv, DaemonTypeOK, OneFile
<1>3. ~dprog.unlinks => Cardinality(Working) <= 1
  <2>1. CASE Working = {}
    BY <2>1, FS_EmptySet
  <2>2. ASSUME NEW i \in Working, ~dprog.unlinks PROVE Cardinality(Working) <= 1
    <3>1. Working = {i}
      BY <1>1, <1>2, <2>2
    <3> QED
      BY <3>1, FS_Singleton
  <2> QED
    BY <2>1, <2>2
<1>4. dprog.checks /\ ~dprog.unlinks => \A i \in Working : pidIn[path] = i
  BY <1>1, <1>2 DEF DaemonInv, PidIsHolders, Working
<1> QED
  BY <1>1, <1>3, <1>4

(* However many instances of a program start, fail, are killed and end, in *)
(* whatever order: with a lock file that is never removed at most one of   *)
(* them works, it holds the lock, and a checked write leaves its PID in    *)
(* the file.                                                               *)
THEOREM OnlyOneWorks == DaemonSpec => []OneWorks
<1>1. DaemonInv /\ [DaemonNext]_daemonVars => DaemonInv'
  <2> SUFFICES ASSUME DaemonInv, [DaemonNext]_daemonVars PROVE DaemonInv'
    OBVIOUS
  <2>1. CASE UNCHANGED daemonVars
    BY <2>1 DEF daemonVars, DaemonInv, DaemonTypeOK, HoldersHold, OneFile, PidIsHolders
  <2>2. CASE DaemonNext
    BY <2>2, DaemonPlainStep, OpenLockFileStep, FlockStep, FileWriteStep, UnlinkStep, FailOrDieStep
    DEF DaemonNext, process_already_running
  <2> QED
    BY <2>1, <2>2
<1> QED
  BY <1>1, DaemonInitInv, DaemonInvWorks, PTL DEF DaemonSpec
-----------------------------------------------------------------------------
(* The exit sequence *)

(* Where main is once it has joined the cloud thread, and so on. *)
PoolJoined == {"pool_log", "pool_in", "bye_log", "bye_in", "end"}
TableGone == {"ipc_log", "ipc_in", "pool", "join_pool"} \cup PoolJoined
FifoGone == {"procs_log", "procs_in", "ipc"} \cup TableGone
CloudJoined == {"alarm", "alarm_log", "alarm_in", "procs"} \cup FifoGone

InLog == {"pair_in", "udp_in", "beat_in", "cloud_in", "err_in", "stop_in", "alarm_in", "procs_in", "ipc_in",
          "pool_in", "bye_in"}

PcIsFunction == pc = [t \in Threads |-> pc[t]]

LogIsOnes == \A t \in Threads : pc[t] \in InLog => log_mutex = t

(* What main has joined stays ended, what it has removed stays gone. *)
Phases ==
  /\ pc[Main] \in CloudJoined => pc[Cloud] = "cancelled"
  /\ pc[Main] \in FifoGone => fifo = FALSE
  /\ pc[Main] \in TableGone => attached = FALSE
  /\ pc[Main] \in PoolJoined => \A w \in Workers : pc[w] = "exited"
  /\ pc[Main] = "end" => log_mutex = Nobody

ExitInv == TypeOK /\ PcIsFunction /\ LogIsOnes /\ Phases

LEMMA ExitConstants ==
  /\ Main \in Threads /\ Cloud \in Threads /\ Workers \subseteq Threads
  /\ Main # Cloud /\ Main \notin Workers /\ Cloud \notin Workers /\ Nobody \notin Threads
  /\ MaxTasks \in Nat
  BY ExitAssumption DEF Threads

(* A line that main logs belongs to one phase. *)
LEMMA MainLogLabels ==
  ASSUME NEW l \in MainLogs
  PROVE  /\ l[1] \notin InLog /\ l[2] \in InLog /\ l[3] \notin InLog
         /\ l[1] # "end" /\ l[2] # "end"
         /\ \A P \in {CloudJoined, FifoGone, TableGone, PoolJoined} :
              (l[1] \in P => l[2] \in P) /\ (l[2] \in P => l[1] \in P)
                /\ (l[2] \in P => l[3] \in P) /\ (l[3] \in P => l[2] \in P)
  BY DEF MainLogs, InLog, CloudJoined, FifoGone, TableGone, PoolJoined

LEMMA LoggingIsInLog == Logging = {t \in Threads : pc[t] \in InLog}
<1>1. {l[2] : l \in MainLogs} =
        {"err_in", "stop_in", "alarm_in", "procs_in", "ipc_in", "pool_in", "bye_in"}
  BY DEF MainLogs
<1> QED
  BY <1>1 DEF Logging, InLog

LEMMA ExitInitInv == Init => ExitInv
<1> SUFFICES ASSUME Init PROVE ExitInv
  OBVIOUS
<1>1. TypeOK
  <2>1. objects = (IF fifo THEN {"fifo"} ELSE {}) \cup (IF attached THEN {"shm", "sem"} ELSE {})
    BY DEF Init
  <2>2. /\ DOMAIN pc = Threads /\ log_mutex \in Threads \cup {Nobody}
        /\ {cancelling, armed, fifo, attached, shutdown} \subseteq BOOLEAN
    BY DEF Init
  <2>3. queue \in Seq({"pair", "udp", "udp_log", "beat"}) /\ added \in Len(queue) .. MaxTasks
    BY ExitConstants DEF Init
  <2> QED
    BY <2>1, <2>2, <2>3 DEF TypeOK
<1>2. PcIsFunction /\ LogIsOnes /\ Phases
  BY ExitConstants
  DEF Init, PcIsFunction, LogIsOnes, Phases, InLog, CloudJoined, FifoGone, TableGone, PoolJoined
<1> QED
  BY <1>1, <1>2 DEF ExitInv

(* A thread takes the log's mutex; nobody was inside. *)
LEMMA LogOpenStep ==
  ASSUME ExitInv, ~Ended, NEW t \in Threads, NEW from, NEW inside, LogOpen(t, from, inside),
         inside \in InLog,
         IF t = Main
           THEN inside # "end" /\ \A P \in {CloudJoined, FifoGone, TableGone, PoolJoined} : inside \in P => from \in P
           ELSE from \notin {"exited", "cancelled"}
  PROVE  ExitInv'
<1>1. TypeOK'
  BY DEF ExitInv, PcIsFunction, TypeOK, LogOpen, Goto, res, pool
<1>2. PcIsFunction' /\ LogIsOnes'
  BY ExitConstants DEF ExitInv, PcIsFunction, LogIsOnes, LogOpen, Goto
<1>3. Phases'
  BY ExitConstants DEF ExitInv, PcIsFunction, Phases, LogOpen, Goto, res, Ended
<1> QED
  BY <1>1, <1>2, <1>3 DEF ExitInv

LEMMA LogCloseStep ==
  ASSUME ExitInv, ~Ended, NEW t \in Threads, NEW inside, NEW to, LogClose(t, inside, to),
         inside \in InLog, to \notin InLog,
         t = Main => \A P \in {CloudJoined, FifoGone, TableGone, PoolJoined} : to \in P => inside \in P
  PROVE  ExitInv'
<1>1. TypeOK'
  BY DEF ExitInv, PcIsFunction, TypeOK, LogClose, Goto, res, pool
<1>2. PcIsFunction' /\ LogIsOnes'
  BY ExitConstants DEF ExitInv, PcIsFunction, LogIsOnes, LogClose, Goto
<1>3. Phases'
  BY ExitConstants DEF ExitInv, PcIsFunction, Phases, LogClose, Goto, res, Ended, InLog
<1> QED
  BY <1>1, <1>2, <1>3 DEF ExitInv

LEMMA MainLogStep ==
  ASSUME ExitInv, ~Ended, NEW l \in MainLogs, LogOpen(Main, l[1], l[2]) \/ LogClose(Main, l[2], l[3])
  PROVE  ExitInv'
<1>1. CASE LogOpen(Main, l[1], l[2])
  <2>1. /\ l[2] \in InLog /\ l[2] # "end"
        /\ \A P \in {CloudJoined, FifoGone, TableGone, PoolJoined} : l[2] \in P => l[1] \in P
    BY MainLogLabels
  <2> QED
    BY <1>1, <2>1, LogOpenStep, ExitConstants
<1>2. CASE LogClose(Main, l[2], l[3])
  <2>1. /\ l[2] \in InLog /\ l[3] \notin InLog
        /\ \A P \in {CloudJoined, FifoGone, TableGone, PoolJoined} : l[3] \in P => l[2] \in P
    BY MainLogLabels
  <2> QED
    BY <1>2, <2>1, LogCloseStep, ExitConstants
<1> QED
  BY <1>1, <1>2

LEMMA AddTaskStep ==
  ASSUME ExitInv, AddTask
  PROVE  ExitInv'
<1>1. TypeOK'
  BY ExitConstants DEF ExitInv, TypeOK, AddTask, res
<1>2. PcIsFunction' /\ LogIsOnes' /\ Phases'
  BY DEF ExitInv, PcIsFunction, LogIsOnes, Phases, AddTask, res
<1> QED
  BY <1>1, <1>2 DEF ExitInv

LEMMA WorkerStep ==
  ASSUME ExitInv, ~Ended, NEW w \in Workers, Worker(w)
  PROVE  ExitInv'
<1>0. w \in Threads /\ w # Main /\ w # Cloud
  BY ExitConstants
<1>1. CASE TakeTask(w)
  <2>1. Head(queue) \in {"pair", "udp", "udp_log", "beat"}
    BY <1>1 DEF ExitInv, TypeOK, TakeTask
  <2>2. TypeOK'
    BY <1>1 DEF ExitInv, PcIsFunction, TypeOK, TakeTask, Goto, res
  <2>3. PcIsFunction' /\ LogIsOnes' /\ Phases'
    BY <1>0, <1>1, <2>1, ExitConstants
    DEF ExitInv, PcIsFunction, LogIsOnes, Phases, TakeTask, Goto, res, InLog
  <2> QED
    BY <2>2, <2>3 DEF ExitInv
<1>2. CASE UpdateShared(w)
  <2>1. TypeOK'
    BY <1>2 DEF ExitInv, PcIsFunction, TypeOK, UpdateShared, Goto, res, pool
  <2>2. PcIsFunction' /\ LogIsOnes'
    BY <1>0, <1>2, ExitConstants DEF ExitInv, PcIsFunction, LogIsOnes, UpdateShared, Goto, InLog
  <2>3. Phases'
    BY <1>0, <1>2, ExitConstants
    DEF ExitInv, PcIsFunction, Phases, UpdateShared, Goto, res, CloudJoined, FifoGone, TableGone, PoolJoined
  <2> QED
    BY <2>1, <2>2, <2>3 DEF ExitInv
<1>3. CASE LogOpen(w, "pair_log", "pair_in") \/ LogOpen(w, "udp_log", "udp_in") \/ LogOpen(w, "beat", "beat_in")
  BY <1>0, <1>3, LogOpenStep DEF InLog
<1>4. CASE LogClose(w, "pair_in", "udp") \/ LogClose(w, "udp_in", "idle") \/ LogClose(w, "beat_in", "submit")
  BY <1>0, <1>4, LogCloseStep DEF InLog
<1>5. CASE SubmitTask(w) \/ WorkerExit(w)
  <2>1. TypeOK'
    BY <1>5 DEF ExitInv, PcIsFunction, TypeOK, SubmitTask, WorkerExit, Goto, res, pool
  <2>2. PcIsFunction' /\ LogIsOnes' /\ Phases'
    BY <1>0, <1>5, ExitConstants
    DEF ExitInv, PcIsFunction, LogIsOnes, Phases, SubmitTask, WorkerExit, Goto, res, InLog
  <2> QED
    BY <2>1, <2>2 DEF ExitInv
<1> QED
  BY <1>1, <1>2, <1>3, <1>4, <1>5 DEF Worker, UdpTask, HeartbeatTask

LEMMA CloudThreadStep ==
  ASSUME ExitInv, ~Ended, CloudStep \/ CloudCancelled
  PROVE  ExitInv'
<1>1. CASE CloudUpload \/ CloudCancelled
  <2>1. TypeOK'
    BY <1>1 DEF ExitInv, PcIsFunction, TypeOK, CloudUpload, CloudCancelled, Goto, res, pool
  <2>2. PcIsFunction' /\ LogIsOnes' /\ Phases'
    BY <1>1, ExitConstants
    DEF ExitInv, PcIsFunction, LogIsOnes, Phases, CloudUpload, CloudCancelled, Goto, res, InLog
  <2> QED
    BY <2>1, <2>2 DEF ExitInv
<1>2. CASE LogOpen(Cloud, "cloud_log", "cloud_in")
  BY <1>2, LogOpenStep, ExitConstants DEF InLog
<1>3. CASE LogClose(Cloud, "cloud_in", "wait")
  BY <1>3, LogCloseStep, ExitConstants DEF InLog
<1> QED
  BY <1>1, <1>2, <1>3 DEF CloudStep

LEMMA MainThreadStep ==
  ASSUME ExitInv, ~Ended, PollFails \/ MainStep
  PROVE  ExitInv'
<1>1. CASE PollFails \/ CancelCloud \/ JoinCloud \/ StopAlarm \/ CloseFifo \/ DetachTable \/ StopPool \/ JoinPool
  <2>1. TypeOK'
    <3>1. DOMAIN pc' = Threads
      BY <1>1, Zenon
      DEF ExitInv, TypeOK, PollFails, CancelCloud, JoinCloud, StopAlarm, CloseFifo, DetachTable, StopPool, JoinPool, Goto
    <3>2. UNCHANGED <<log_mutex, queue, added>>
      BY <1>1
      DEF PollFails, CancelCloud, JoinCloud, StopAlarm, CloseFifo, DetachTable, StopPool, JoinPool, pool
    <3>3. CASE CloseFifo
      BY <3>1, <3>2, <3>3 DEF ExitInv, TypeOK, CloseFifo
    <3>4. CASE DetachTable
      BY <3>1, <3>2, <3>4 DEF ExitInv, TypeOK, DetachTable
    <3>5. CASE PollFails \/ CancelCloud \/ JoinCloud \/ StopAlarm \/ StopPool \/ JoinPool
      <4>1. UNCHANGED <<fifo, attached, objects>>
        BY <3>5 DEF PollFails, CancelCloud, JoinCloud, StopAlarm, StopPool, JoinPool, res
      <4>2. {cancelling, armed, shutdown}' \subseteq BOOLEAN
        BY <3>5 DEF ExitInv, TypeOK, PollFails, CancelCloud, JoinCloud, StopAlarm, StopPool, JoinPool, res
      <4> QED
        BY <3>1, <3>2, <4>1, <4>2 DEF ExitInv, TypeOK
    <3> QED
      BY <1>1, <3>3, <3>4, <3>5
  <2>2. PcIsFunction' /\ LogIsOnes'
    BY <1>1, ExitConstants
    DEF ExitInv, PcIsFunction, LogIsOnes, PollFails, CancelCloud, JoinCloud, StopAlarm, CloseFifo, DetachTable,
        StopPool, JoinPool, Goto, InLog
  <2>3. Phases'
    BY <1>1, ExitConstants
    DEF ExitInv, PcIsFunction, Phases, PollFails, CancelCloud, JoinCloud, StopAlarm, CloseFifo, DetachTable,
        StopPool, JoinPool, Goto, res, CloudJoined, FifoGone, TableGone, PoolJoined
  <2> QED
    BY <2>1, <2>2, <2>3 DEF ExitInv
<1> QED
  BY <1>1, MainLogStep DEF MainStep

LEMMA SignalStep ==
  ASSUME ExitInv, SignalHandler
  PROVE  ExitInv'
<1>1. TypeOK'
  BY DEF ExitInv, TypeOK, SignalHandler, res, pool
<1>2. PcIsFunction' /\ LogIsOnes' /\ Phases'
  BY ExitConstants
  DEF ExitInv, PcIsFunction, LogIsOnes, Phases, SignalHandler, InLog, CloudJoined, FifoGone, TableGone, PoolJoined
<1> QED
  BY <1>1, <1>2 DEF ExitInv

LEMMA ExitInvIsOrderly == ExitInv => ExitIsOrderly
<1> SUFFICES ASSUME ExitInv PROVE ExitIsOrderly
  OBVIOUS
<1>1. \A t \in Logging : log_mutex = t
  BY LoggingIsInLog DEF ExitInv, LogIsOnes
<1>2. ASSUME pc[Main] = "end"
      PROVE  /\ \A t \in Threads \ {Main} : pc[t] \in {"exited", "cancelled"}
             /\ objects = {} /\ log_mutex = Nobody
  BY <1>2 DEF ExitInv, TypeOK, Phases, Threads, CloudJoined, FifoGone, TableGone, PoolJoined
<1> QED
  BY <1>1, <1>2 DEF ExitInv, ExitIsOrderly

(* Whatever the workers, the cloud thread and a signal do meanwhile: only  *)
(* the holder of the log's mutex is inside write_log, and when main        *)
(* returns, all threads have ended and nothing is left in the system.      *)
THEOREM ExitsInOrder == Spec => []ExitIsOrderly
<1>1. ExitInv /\ [Next]_vars => ExitInv'
  <2> SUFFICES ASSUME ExitInv, [Next]_vars PROVE ExitInv'
    OBVIOUS
  <2>1. CASE UNCHANGED vars
    BY <2>1 DEF vars, ExitInv, TypeOK, PcIsFunction, LogIsOnes, Phases
  <2>2. CASE Next
    BY <2>1, <2>2, AddTaskStep, WorkerStep, CloudThreadStep, MainThreadStep, SignalStep DEF Next
  <2> QED
    BY <2>1, <2>2
<1> QED
  BY <1>1, ExitInitInv, ExitInvIsOrderly, PTL DEF Spec
-----------------------------------------------------------------------------
(* The shared sensor table *)

(* Where clients can be, and the arguments of their calls. *)
CallsAreMade ==
  /\ \A c \in TableClients : tpc[c] \notin {"idle", "dead"} =>
       id[c] \in Ids /\ (c \in Writers => data[c] \in 1 .. MaxCalls)
  /\ \A r \in Readers : tpc[r] \notin {"id", "data"}
  /\ \A v, w \in Writers : Alive(v) => Alive(w)
  /\ \A w \in Writers : tpc[w] \in {"id", "data"} => idx[w] \in TableSlots

(* A process gives back at most one token for each of its clients inside,  *)
(* and an interrupted wait let in one client without a token.              *)
InProcess(p) == {c \in Inside : ProcessOf(c) = p}
TokensCounted ==
  /\ IsFiniteSet(Inside)
  /\ sem + Cardinality(Inside) <= 1 + interrupted
  /\ \A p \in TableProcs : undo[p] <= Cardinality(InProcess(p))

(* What holds whatever handlers run. *)
TableBounds == TableTypeOK /\ CallsAreMade /\ TokensCounted

(* One token: with the semaphore or with the client inside, and noted in   *)
(* the adjustment of its process.                                          *)
TokenKept ==
  /\ \A c, d \in Inside : c = d
  /\ sem = IF Inside = {} THEN 1 ELSE 0
  /\ \A p \in TableProcs : undo[p] = IF \E c \in Inside : ProcessOf(c) = p THEN 1 ELSE 0

(* A sensor has one slot, and the used slots come first. *)
UsedFirst ==
  /\ \A i, j \in TableSlots : table[i].sensor_id = table[j].sensor_id /\ i # j => table[i].sensor_id = 0
  /\ \E k \in 0 .. MaxSensors : \A i \in TableSlots : table[i].sensor_id = 0 <=> i > k

(* The slot a writer found is its sensor's, or the first free one. *)
SlotFound ==
  \A w \in Writers :
    /\ tpc[w] = "id" =>
         \/ table[idx[w]].sensor_id = id[w]
         \/ /\ table[idx[w]].sensor_id = 0
            /\ \A j \in TableSlots : table[j].sensor_id = 0 => idx[w] <= j
            /\ \A j \in TableSlots : table[j].sensor_id # id[w]
    /\ tpc[w] = "data" => table[idx[w]].sensor_id = id[w]

(* The table holds what was stored, except for the sensor being written. *)
TableHolds(s) ==
  /\ \A i \in TableSlots : table[i].sensor_id = s => stored[s] = table[i].latest_data
  /\ (\A i \in TableSlots : table[i].sensor_id # s) => stored[s] = Invalid
ValuesKept ==
  (\A w \in Writers : Alive(w)) =>
    /\ \A s \in Ids \ {0} : (\A w \in Writers : ~(tpc[w] = "data" /\ id[w] = s)) => TableHolds(s)
    /\ \A r \in Readers : tpc[r] = "unlock" /\ id[r] # 0 => result[r] = stored[id[r]]

(* What holds while no handler has ended a wait. *)
TableInv == TableTypeOK /\ CallsAreMade /\ TokenKept /\ UsedFirst /\ SlotFound /\ ValuesKept

LEMMA TableConstants ==
  /\ Gateway \notin Readers /\ Writers \cap Readers = {} /\ Ids \subseteq Nat
  /\ MaxSensors \in Nat \ {0} /\ MaxCalls \in Nat /\ MaxInterrupts \in Nat
  /\ Writers \subseteq TableClients /\ Readers \subseteq TableClients
  /\ TableClients = Writers \cup Readers
  /\ \A c \in TableClients : ProcessOf(c) \in TableProcs
  /\ \A r \in Readers : ProcessOf(r) = r
  BY TableAssumption DEF TableClients, TableProcs, ProcessOf

(* The least-number principle, from the library's well-founded relations.  *)
LEMMA LeastSlot == ASSUME NEW T \in SUBSET TableSlots, T # {} PROVE \E n \in T : \A k \in T : n <= k
<1> DEFINE R == OpToRel(<, Nat)
<1>0. T \subseteq Nat
  BY TableConstants DEF TableSlots
<1>1. IsWellFoundedOn(R, Nat)
  BY NatLessThanWellFounded
<1>2. \A x, y \in Nat : <<x, y>> \in R <=> x < y
  BY DEF OpToRel
<1> HIDE DEF R
<1>3. PICK n \in T : \A k \in T : ~(<<k, n>> \in R)
  BY <1>0, <1>1, WFMin
<1>4. \A k \in T : ~(k < n)
  BY <1>0, <1>2, <1>3, Zenon
<1>5. \A k \in T : n <= k
  BY <1>0, <1>4
<1> QED
  BY <1>5, Zenon

LEMMA FirstSlot ==
  ASSUME NEW s
  PROVE  \/ First(s) = NoSlot /\ \A i \in TableSlots : table[i].sensor_id # s
         \/ /\ First(s) \in TableSlots /\ table[First(s)].sensor_id = s
            /\ \A j \in TableSlots : table[j].sensor_id = s => First(s) <= j
<1> DEFINE Is(i) == table[i].sensor_id = s /\ \A j \in TableSlots : table[j].sensor_id = s => i <= j
<1> DEFINE T == {i \in TableSlots : table[i].sensor_id = s}
<1>1. CASE \A i \in TableSlots : table[i].sensor_id # s
  BY <1>1 DEF First
<1>2. ASSUME NEW i \in TableSlots, table[i].sensor_id = s
      PROVE  \E m \in TableSlots : Is(m)
  <2>1. T \in SUBSET TableSlots /\ T # {}
    BY <1>2
  <2> HIDE DEF T
  <2>2. PICK m \in T : \A k \in T : m <= k
    BY <2>1, LeastSlot
  <2> QED
    BY <2>2 DEF T
<1>3. ASSUME NEW i \in TableSlots, table[i].sensor_id = s
      PROVE  First(s) \in TableSlots /\ Is(First(s))
  <2>1. First(s) = CHOOSE m \in TableSlots : Is(m)
    BY <1>3 DEF First
  <2> QED
    BY <1>2, <1>3, <2>1
<1> QED
  BY <1>1, <1>3

(* A client goes in, out, or on where it is; another stays where it is. *)
LEMMA InsideAfter ==
  ASSUME TableTypeOK, NEW c \in TableClients, NEW label, TableGoto(c, label)
  PROVE  /\ label \in {"scan", "id", "data", "unlock"} => Inside' = Inside \cup {c}
         /\ label \notin {"scan", "id", "data", "unlock"} => Inside' = Inside \ {c}
         /\ tpc'[c] = label
         /\ \A d \in TableClients : d # c => tpc'[d] = tpc[d]
  BY DEF TableTypeOK, TableGoto, Inside

LEMMA CountsOf ==
  ASSUME TokensCounted
  PROVE  /\ Cardinality(Inside) \in Nat
         /\ \A p \in TableProcs : IsFiniteSet(InProcess(p)) /\ Cardinality(InProcess(p)) \in Nat
<1>1. IsFiniteSet(Inside) /\ \A p \in TableProcs : InProcess(p) \in SUBSET Inside
  BY DEF TokensCounted, InProcess
<1> QED
  BY <1>1, FS_Subset, FS_CardinalityType

(* The counts when a client goes in or comes out. *)
LEMMA CountsAfter ==
  ASSUME TokensCounted, NEW c \in TableClients
  PROVE  /\ c \notin Inside /\ Inside' = Inside \cup {c} =>
              /\ IsFiniteSet(Inside') /\ Cardinality(Inside') = Cardinality(Inside) + 1
              /\ \A p \in TableProcs : Cardinality(InProcess(p)') =
                   IF ProcessOf(c) = p THEN Cardinality(InProcess(p)) + 1 ELSE Cardinality(InProcess(p))
         /\ c \in Inside /\ Inside' = Inside \ {c} =>
              /\ IsFiniteSet(Inside') /\ Cardinality(Inside') = Cardinality(Inside) - 1
              /\ \A p \in TableProcs : Cardinality(InProcess(p)') =
                   IF ProcessOf(c) = p THEN Cardinality(InProcess(p)) - 1 ELSE Cardinality(InProcess(p))
<1>0. IsFiniteSet(Inside) /\ \A p \in TableProcs : IsFiniteSet(InProcess(p))
  BY CountsOf DEF TokensCounted
<1>1. ASSUME c \notin Inside, Inside' = Inside \cup {c}
      PROVE  /\ IsFiniteSet(Inside') /\ Cardinality(Inside') = Cardinality(Inside) + 1
             /\ \A p \in TableProcs : Cardinality(InProcess(p)') =
                  IF ProcessOf(c) = p THEN Cardinality(InProcess(p)) + 1 ELSE Cardinality(InProcess(p))
  <2>1. ASSUME NEW p \in TableProcs, ProcessOf(c) = p
        PROVE  Cardinality(InProcess(p)') = Cardinality(InProcess(p)) + 1
    <3>1. InProcess(p)' = InProcess(p) \cup {c} /\ c \notin InProcess(p)
      BY <1>1, <2>1 DEF InProcess, ProcessOf
    <3> QED
      BY <1>0, <3>1, FS_AddElement
  <2>2. ASSUME NEW p \in TableProcs, ProcessOf(c) # p
        PROVE  InProcess(p)' = InProcess(p)
    BY <1>1, <2>2 DEF InProcess, ProcessOf
  <2> QED
    BY <1>0, <1>1, <2>1, <2>2, FS_AddElement
<1>2. ASSUME c \in Inside, Inside' = Inside \ {c}
      PROVE  /\ IsFiniteSet(Inside') /\ Cardinality(Inside') = Cardinality(Inside) - 1
             /\ \A p \in TableProcs : Cardinality(InProcess(p)') =
                  IF ProcessOf(c) = p THEN Cardinality(InProcess(p)) - 1 ELSE Cardinality(InProcess(p))
  <2>1. ASSUME NEW p \in TableProcs, ProcessOf(c) = p
        PROVE  Cardinality(InProcess(p)') = Cardinality(InProcess(p)) - 1
    <3>1. InProcess(p)' = InProcess(p) \ {c} /\ c \in InProcess(p)
      BY <1>2, <2>1 DEF InProcess, ProcessOf
    <3> QED
      BY <1>0, <3>1, FS_RemoveElement
  <2>2. ASSUME NEW p \in TableProcs, ProcessOf(c) # p
        PROVE  InProcess(p)' = InProcess(p)
    BY <1>2, <2>2 DEF InProcess, ProcessOf
  <2> QED
    BY <1>0, <1>2, <2>1, <2>2, FS_RemoveElement
<1> QED
  BY <1>1, <1>2

LEMMA CountsUnchanged ==
  ASSUME TokensCounted, Inside' = Inside, UNCHANGED <<sem, undo, interrupted>>
  PROVE  TokensCounted'
<1>1. \A p \in TableProcs : InProcess(p)' = InProcess(p)
  BY DEF InProcess, ProcessOf
<1> QED
  BY <1>1 DEF TokensCounted

(* A process ends, and its clients with it. *)
LEMMA CountsAfterEnd ==
  ASSUME TableBounds, NEW p \in TableProcs, Inside' = Inside \ InProcess(p),
         sem' = Adjusted(p), undo' = [undo EXCEPT ![p] = 0], interrupted' = interrupted
  PROVE  TokensCounted'
<1>1. IsFiniteSet(Inside') /\ Cardinality(Inside') = Cardinality(Inside) - Cardinality(InProcess(p))
  <2>1. Inside \cap InProcess(p) = InProcess(p)
    BY DEF InProcess
  <2> QED
    BY <2>1, FS_Difference DEF TableBounds, TokensCounted
<1>2. \A q \in TableProcs : q # p => InProcess(q)' = InProcess(q)
  BY DEF InProcess, ProcessOf
<1>3. InProcess(p)' = {}
  BY DEF InProcess, ProcessOf
<1>4. \A q \in TableProcs : undo'[q] <= Cardinality(InProcess(q)')
  <2>1. undo'[p] <= Cardinality(InProcess(p)')
    BY <1>3, FS_EmptySet DEF TableBounds, TableTypeOK
  <2>2. ASSUME NEW q \in TableProcs, q # p
        PROVE  undo'[q] = undo[q]
    BY <2>2 DEF TableBounds, TableTypeOK
  <2>3. ASSUME NEW q \in TableProcs, q # p
        PROVE  undo'[q] <= Cardinality(InProcess(q)')
    BY <1>2, <2>2, <2>3 DEF TableBounds, TokensCounted
  <2> QED
    BY <2>1, <2>3
<1>5. /\ sem \in Nat /\ undo[p] \in Int /\ interrupted \in Nat
      /\ Cardinality(Inside) \in Nat /\ Cardinality(InProcess(p)) \in Nat
      /\ undo[p] <= Cardinality(InProcess(p))
      /\ sem + Cardinality(Inside) <= 1 + interrupted
  BY CountsOf, TableConstants DEF TableBounds, TableTypeOK, TokensCounted
<1>6. sem' + Cardinality(Inside') <= 1 + interrupted'
  BY <1>1, <1>5 DEF Adjusted
<1> QED
  BY <1>1, <1>4, <1>6 DEF TokensCounted
-----------------------------------------------------------------------------
(* What holds whatever handlers run, step by step. *)

LEMMA BoundsInit == TableInit => TableBounds
<1> SUFFICES ASSUME TableInit PROVE TableBounds
  OBVIOUS
<1>0. Inside = {} /\ \A p \in TableProcs : InProcess(p) = {}
  BY DEF TableInit, Inside, InProcess
<1>1. TableTypeOK
  BY TableConstants DEF TableInit, TableTypeOK, NoSlot, Invalid
<1>2. CallsAreMade
  BY TableConstants DEF TableInit, CallsAreMade, Alive
<1>3. TokensCounted
  <2>1. IsFiniteSet(Inside) /\ Cardinality(Inside) = 0
    BY <1>0, FS_EmptySet
  <2>2. \A p \in TableProcs : Cardinality(InProcess(p)) = 0
    BY <1>0, FS_EmptySet
  <2> QED
    BY <2>1, <2>2 DEF TableInit, TokensCounted
<1> QED
  BY <1>1, <1>2, <1>3 DEF TableBounds

LEMMA CallBounds ==
  ASSUME TableBounds, NEW c \in TableClients, Call(c)
  PROVE  TableBounds'
<1>1. Inside' = Inside
  BY InsideAfter DEF TableBounds, Call, Inside
<1>2. TableTypeOK'
  BY TableConstants DEF TableBounds, TableTypeOK, Call, TableGoto
<1>3. CallsAreMade'
  BY TableConstants, InsideAfter DEF TableBounds, TableTypeOK, CallsAreMade, Call, Alive
<1>4. TokensCounted'
  BY <1>1, CountsUnchanged DEF TableBounds, Call
<1> QED
  BY <1>2, <1>3, <1>4 DEF TableBounds

LEMMA SemTakenBounds ==
  ASSUME TableBounds, NEW c \in TableClients, SemTaken(c)
  PROVE  TableBounds'
<1>1. c \notin Inside /\ Inside' = Inside \cup {c}
  BY InsideAfter DEF TableBounds, SemTaken, Inside
<1>2. TableTypeOK'
  BY TableConstants DEF TableBounds, TableTypeOK, SemTaken, TableGoto
<1>3. CallsAreMade'
  BY TableConstants, InsideAfter DEF TableBounds, CallsAreMade, SemTaken, Alive
<1>4. ProcessOf(c) \in TableProcs /\ sem' = sem - 1 /\ interrupted' = interrupted
      /\ \A p \in TableProcs : undo'[p] = IF ProcessOf(c) = p THEN undo[p] + 1 ELSE undo[p]
  BY TableConstants DEF TableBounds, TableTypeOK, SemTaken
<1>5. TokensCounted'
  <2>1. /\ IsFiniteSet(Inside') /\ Cardinality(Inside') = Cardinality(Inside) + 1
        /\ \A p \in TableProcs : Cardinality(InProcess(p)') =
             IF ProcessOf(c) = p THEN Cardinality(InProcess(p)) + 1 ELSE Cardinality(InProcess(p))
    BY <1>1, CountsAfter DEF TableBounds
  <2>2. /\ sem \in Nat /\ interrupted \in Nat /\ Cardinality(Inside) \in Nat
        /\ \A p \in TableProcs : undo[p] \in Int /\ Cardinality(InProcess(p)) \in Nat
    BY CountsOf, TableConstants DEF TableBounds, TableTypeOK
  <2>3. sem' + Cardinality(Inside') <= 1 + interrupted'
    BY <1>4, <2>1, <2>2 DEF TableBounds, TokensCounted
  <2>4. \A p \in TableProcs : undo'[p] <= Cardinality(InProcess(p)')
    BY <1>4, <2>1, <2>2 DEF TableBounds, TokensCounted
  <2> QED
    BY <2>1, <2>3, <2>4 DEF TokensCounted
<1> QED
  BY <1>2, <1>3, <1>5 DEF TableBounds

LEMMA SemInterruptedBounds ==
  ASSUME TableBounds, NEW c \in TableClients, SemInterrupted(c)
  PROVE  TableBounds'
<1>1. c \notin Inside /\ Inside' = Inside \cup {c}
  BY InsideAfter DEF TableBounds, SemInterrupted, Inside
<1>2. TableTypeOK'
  BY TableConstants DEF TableBounds, TableTypeOK, SemInterrupted, TableGoto
<1>3. CallsAreMade'
  BY TableConstants, InsideAfter DEF TableBounds, CallsAreMade, SemInterrupted, Alive
<1>4. sem' = sem /\ interrupted' = interrupted + 1 /\ undo' = undo
  BY DEF SemInterrupted
<1>5. TokensCounted'
  <2>1. /\ IsFiniteSet(Inside') /\ Cardinality(Inside') = Cardinality(Inside) + 1
        /\ \A p \in TableProcs : Cardinality(InProcess(p)') =
             IF ProcessOf(c) = p THEN Cardinality(InProcess(p)) + 1 ELSE Cardinality(InProcess(p))
    BY <1>1, CountsAfter DEF TableBounds
  <2>2. /\ sem \in Nat /\ interrupted \in Nat /\ Cardinality(Inside) \in Nat
        /\ \A p \in TableProcs : undo[p] \in Int /\ Cardinality(InProcess(p)) \in Nat
    BY CountsOf, TableConstants DEF TableBounds, TableTypeOK
  <2>3. sem' + Cardinality(Inside') <= 1 + interrupted'
    BY <1>4, <2>1, <2>2 DEF TableBounds, TokensCounted
  <2>4. \A p \in TableProcs : undo'[p] <= Cardinality(InProcess(p)')
    BY <1>4, <2>1, <2>2 DEF TableBounds, TokensCounted
  <2> QED
    BY <2>1, <2>3, <2>4 DEF TokensCounted
<1> QED
  BY <1>2, <1>3, <1>5 DEF TableBounds

LEMMA SemUnlockBounds ==
  ASSUME TableBounds, NEW c \in TableClients, sem_unlock(c)
  PROVE  TableBounds'
<1>1. c \in Inside /\ Inside' = Inside \ {c}
  BY InsideAfter DEF TableBounds, sem_unlock, Inside
<1>2. TableTypeOK'
  BY TableConstants DEF TableBounds, TableTypeOK, sem_unlock, TableGoto
<1>3. CallsAreMade'
  BY TableConstants, InsideAfter DEF TableBounds, CallsAreMade, sem_unlock, Alive
<1>4. ProcessOf(c) \in TableProcs /\ sem' = sem + 1 /\ interrupted' = interrupted
      /\ \A p \in TableProcs : undo'[p] = IF ProcessOf(c) = p THEN undo[p] - 1 ELSE undo[p]
  BY TableConstants DEF TableBounds, TableTypeOK, sem_unlock
<1>5. TokensCounted'
  <2>1. /\ IsFiniteSet(Inside') /\ Cardinality(Inside') = Cardinality(Inside) - 1
        /\ \A p \in TableProcs : Cardinality(InProcess(p)') =
             IF ProcessOf(c) = p THEN Cardinality(InProcess(p)) - 1 ELSE Cardinality(InProcess(p))
    BY <1>1, CountsAfter DEF TableBounds
  <2>2. /\ sem \in Nat /\ interrupted \in Nat /\ Cardinality(Inside) \in Nat
        /\ \A p \in TableProcs : undo[p] \in Int /\ Cardinality(InProcess(p)) \in Nat
    BY CountsOf, TableConstants DEF TableBounds, TableTypeOK
  <2>3. sem' + Cardinality(Inside') <= 1 + interrupted'
    BY <1>4, <2>1, <2>2 DEF TableBounds, TokensCounted
  <2>4. \A p \in TableProcs : undo'[p] <= Cardinality(InProcess(p)')
    BY <1>4, <2>1, <2>2 DEF TableBounds, TokensCounted
  <2> QED
    BY <2>1, <2>3, <2>4 DEF TokensCounted
<1> QED
  BY <1>2, <1>3, <1>5 DEF TableBounds

LEMMA ChooseSlotBounds ==
  ASSUME TableBounds, NEW w \in Writers, ChooseSlot(w)
  PROVE  TableBounds'
<1>0. w \in TableClients /\ w \notin Readers
  BY TableConstants
<1>1. Inside' = Inside
  BY <1>0, InsideAfter DEF TableBounds, ChooseSlot, Inside
<1>2. /\ idx'[w] \in TableSlots \cup {NoSlot} /\ (tpc'[w] = "id" => idx'[w] # NoSlot)
      /\ tpc'[w] # "data"
      /\ \A v \in Writers : v # w => idx'[v] = idx[v] /\ tpc'[v] = tpc[v]
  BY <1>0, FirstSlot, InsideAfter, TableConstants DEF TableBounds, TableTypeOK, ChooseSlot
<1>3. TableTypeOK'
  BY <1>2, TableConstants DEF TableBounds, TableTypeOK, ChooseSlot, TableGoto
<1>4. CallsAreMade'
  BY <1>0, <1>2, TableConstants, InsideAfter DEF TableBounds, CallsAreMade, ChooseSlot, Alive
<1>5. TokensCounted'
  BY <1>1, CountsUnchanged DEF TableBounds, ChooseSlot
<1> QED
  BY <1>3, <1>4, <1>5 DEF TableBounds

LEMMA WriteIdBounds ==
  ASSUME TableBounds, NEW w \in Writers, WriteId(w)
  PROVE  TableBounds'
<1>0. w \in TableClients /\ w \notin Readers
  BY TableConstants
<1>1. Inside' = Inside
  BY <1>0, InsideAfter DEF TableBounds, WriteId, Inside
<1>2. TableTypeOK'
  BY <1>0, TableConstants DEF TableBounds, TableTypeOK, CallsAreMade, WriteId, TableGoto
<1>3. CallsAreMade'
  BY <1>0, TableConstants, InsideAfter DEF TableBounds, CallsAreMade, WriteId, Alive
<1>4. TokensCounted'
  BY <1>1, CountsUnchanged DEF TableBounds, WriteId
<1> QED
  BY <1>2, <1>3, <1>4 DEF TableBounds

LEMMA WriteDataBounds ==
  ASSUME TableBounds, NEW w \in Writers, WriteData(w)
  PROVE  TableBounds'
<1>0. w \in TableClients /\ w \notin Readers
  BY TableConstants
<1>1. Inside' = Inside
  BY <1>0, InsideAfter DEF TableBounds, WriteData, Inside
<1>2. idx[w] \in TableSlots /\ data[w] \in 1 .. MaxCalls /\ data[w] \in 0 .. MaxCalls
  BY <1>0 DEF TableBounds, TableTypeOK, CallsAreMade, WriteData
<1>3. TableTypeOK'
  BY <1>0, <1>2, TableConstants DEF TableBounds, TableTypeOK, WriteData, TableGoto
<1>4. CallsAreMade'
  BY <1>0, TableConstants, InsideAfter DEF TableBounds, CallsAreMade, WriteData, Alive
<1>5. TokensCounted'
  BY <1>1, CountsUnchanged DEF TableBounds, WriteData
<1> QED
  BY <1>3, <1>4, <1>5 DEF TableBounds

LEMMA LookupBounds ==
  ASSUME TableBounds, NEW r \in Readers, Lookup(r)
  PROVE  TableBounds'
<1>0. r \in TableClients /\ r \notin Writers
  BY TableConstants
<1>1. Inside' = Inside
  BY <1>0, InsideAfter DEF TableBounds, Lookup, Inside
<1>2. result'[r] \in (0 .. MaxCalls) \cup {Invalid}
  BY FirstSlot DEF TableBounds, TableTypeOK, Lookup
<1>3. TableTypeOK'
  BY <1>0, <1>2, TableConstants DEF TableBounds, TableTypeOK, Lookup, TableGoto
<1>4. CallsAreMade'
  BY <1>0, TableConstants, InsideAfter DEF TableBounds, CallsAreMade, Lookup, Alive
<1>5. TokensCounted'
  BY <1>1, CountsUnchanged DEF TableBounds, Lookup
<1> QED
  BY <1>3, <1>4, <1>5 DEF TableBounds

LEMMA KillReaderBounds ==
  ASSUME TableBounds, NEW r \in Readers, KillReader(r)
  PROVE  TableBounds'
<1>0. r \in TableClients /\ ProcessOf(r) = r /\ r \notin Writers /\ r # Gateway /\ r \in TableProcs
  BY TableConstants
<1>1. Inside' = Inside \ {r} /\ tpc'[r] = "dead" /\ \A d \in TableClients : d # r => tpc'[d] = tpc[d]
  BY <1>0, InsideAfter DEF TableBounds, KillReader
<1>2. Inside' = Inside \ InProcess(r)
  BY <1>0, <1>1, TableConstants DEF InProcess, ProcessOf, Inside
<1>3. TokensCounted'
  BY <1>0, <1>2, CountsAfterEnd DEF KillReader
<1>4. TableTypeOK'
  BY <1>0, TableConstants DEF TableBounds, TableTypeOK, KillReader, Adjusted, TableGoto
<1>5. CallsAreMade'
  BY <1>0, <1>1, TableConstants DEF TableBounds, CallsAreMade, KillReader, Alive
<1> QED
  BY <1>3, <1>4, <1>5 DEF TableBounds

LEMMA GatewayExitsBounds ==
  ASSUME TableBounds, GatewayExits
  PROVE  TableBounds'
<1>0. Gateway \in TableProcs /\ \A c \in TableClients : ProcessOf(c) = Gateway <=> c \in Writers
  BY TableConstants DEF ProcessOf, TableProcs
<1>1. /\ Inside' = Inside \ Writers
      /\ \A c \in TableClients : tpc'[c] = IF c \in Writers THEN "dead" ELSE tpc[c]
  BY DEF TableBounds, TableTypeOK, GatewayExits, Inside
<1>2. Inside' = Inside \ InProcess(Gateway)
  BY <1>0, <1>1 DEF InProcess, Inside
<1>3. TokensCounted'
  BY <1>0, <1>2, CountsAfterEnd DEF GatewayExits
<1>4. TableTypeOK'
  BY <1>0, TableConstants DEF TableBounds, TableTypeOK, GatewayExits, Adjusted
<1>5. CallsAreMade'
  BY <1>1, TableConstants DEF TableBounds, CallsAreMade, GatewayExits, Alive
<1> QED
  BY <1>3, <1>4, <1>5 DEF TableBounds

LEMMA TableNextBounds == TableBounds /\ [TableNext]_tableVars => TableBounds'
<1> SUFFICES ASSUME TableBounds, [TableNext]_tableVars PROVE TableBounds'
  OBVIOUS
<1>1. CASE UNCHANGED tableVars
  <2>1. TableTypeOK' /\ CallsAreMade' /\ Inside' = Inside
    BY <1>1 DEF tableVars, TableBounds, TableTypeOK, CallsAreMade, Inside, Alive
  <2> QED
    BY <1>1, <2>1, CountsUnchanged DEF TableBounds, tableVars
<1>2. CASE TableNext
  BY <1>1, <1>2, CallBounds, SemTakenBounds, SemInterruptedBounds, SemUnlockBounds, ChooseSlotBounds,
     WriteIdBounds, WriteDataBounds, LookupBounds, KillReaderBounds, GatewayExitsBounds
  DEF TableNext, TableStep, sem_lock
<1> QED
  BY <1>1, <1>2
-----------------------------------------------------------------------------
(* What holds while no handler has ended a wait, step by step. *)

LEMMA TableInitInv == TableInit => TableInv
<1> SUFFICES ASSUME TableInit PROVE TableInv
  OBVIOUS
<1>0. Inside = {}
  BY DEF TableInit, Inside
<1>1. TokenKept
  BY <1>0, TableConstants DEF TableInit, TokenKept
<1>2. UsedFirst
  <2>1. \A i \in TableSlots : table[i].sensor_id = 0 <=> i > 0
    BY DEF TableInit, TableSlots
  <2> QED
    BY <2>1, TableConstants DEF UsedFirst, TableInit
<1>3. SlotFound /\ ValuesKept
  BY TableConstants DEF TableInit, SlotFound, ValuesKept, TableHolds, Invalid
<1> QED
  BY <1>1, <1>2, <1>3, BoundsInit DEF TableInv, TableBounds

LEMMA CallStep ==
  ASSUME TableInv, TableBounds', NEW c \in TableClients, Call(c)
  PROVE  TableInv'
<1>0. Inside' = Inside
  BY InsideAfter DEF TableInv, Call, Inside
<1>1. TokenKept'
  BY <1>0 DEF TableInv, TokenKept, Call
<1>2. UsedFirst'
  BY DEF TableInv, UsedFirst, Call
<1>3. SlotFound' /\ ValuesKept'
  BY TableConstants, InsideAfter
  DEF TableInv, TableTypeOK, SlotFound, ValuesKept, TableHolds, Call, Alive
<1> QED
  BY <1>1, <1>2, <1>3 DEF TableInv, TableBounds

LEMMA SemTakenStep ==
  ASSUME TableInv, TableBounds', NEW c \in TableClients, SemTaken(c)
  PROVE  TableInv'
<1>0. Inside = {} /\ Inside' = {c}
  BY InsideAfter DEF TableInv, TokenKept, SemTaken
<1>1. TokenKept'
  BY <1>0, TableConstants DEF TableInv, TableTypeOK, TokenKept, SemTaken
<1>2. UsedFirst' /\ SlotFound' /\ ValuesKept'
  BY TableConstants, InsideAfter
  DEF TableInv, UsedFirst, SlotFound, ValuesKept, TableHolds, SemTaken, Alive
<1> QED
  BY <1>1, <1>2 DEF TableInv, TableBounds

LEMMA SemUnlockStep ==
  ASSUME TableInv, TableBounds', NEW c \in TableClients, sem_unlock(c)
  PROVE  TableInv'
<1>0. Inside = {c} /\ Inside' = {}
  BY InsideAfter DEF TableInv, TokenKept, sem_unlock, Inside
<1>1. TokenKept'
  BY <1>0, TableConstants DEF TableInv, TableTypeOK, TokenKept, sem_unlock
<1>2. UsedFirst' /\ SlotFound' /\ ValuesKept'
  BY TableConstants, InsideAfter
  DEF TableInv, UsedFirst, SlotFound, ValuesKept, TableHolds, sem_unlock, Alive
<1> QED
  BY <1>1, <1>2 DEF TableInv, TableBounds

LEMMA ChooseSlotStep ==
  ASSUME TableInv, TableBounds', NEW w \in Writers, ChooseSlot(w)
  PROVE  TableInv'
<1>0. Inside = {w} /\ w \in TableClients
  BY TableConstants DEF TableInv, TokenKept, ChooseSlot, Inside
<1>1. Inside' = Inside
  BY <1>0, InsideAfter DEF TableInv, ChooseSlot
<1>2. TokenKept' /\ UsedFirst'
  BY <1>1 DEF TableInv, TokenKept, UsedFirst, ChooseSlot
<1>3. SlotFound'
  <2>1. \A v \in Writers : v # w => tpc'[v] \notin {"id", "data"}
    BY <1>0, <1>1, TableConstants DEF Inside
  <2>2. ASSUME tpc'[w] = "id"
        PROVE  \/ table[idx'[w]].sensor_id = id[w]
               \/ /\ table[idx'[w]].sensor_id = 0
                  /\ \A j \in TableSlots : table[j].sensor_id = 0 => idx'[w] <= j
                  /\ \A j \in TableSlots : table[j].sensor_id # id[w]
    <3>1. idx'[w] = IF First(id[w]) # NoSlot THEN First(id[w]) ELSE First(0)
      BY DEF TableInv, TableTypeOK, ChooseSlot
    <3>2. idx'[w] # NoSlot
      BY <1>0, <2>2, InsideAfter DEF TableInv, ChooseSlot
    <3>3. CASE First(id[w]) # NoSlot
      BY <3>1, <3>3, FirstSlot
    <3>4. CASE First(id[w]) = NoSlot
      <4>1. \A j \in TableSlots : table[j].sensor_id # id[w]
        BY <3>4, FirstSlot, TableConstants DEF NoSlot, TableSlots
      <4> QED
        BY <3>1, <3>2, <3>4, <4>1, FirstSlot
    <3> QED
      BY <3>3, <3>4
  <2>3. tpc'[w] # "data"
    BY <1>0, InsideAfter DEF TableInv, ChooseSlot
  <2> QED
    BY <2>1, <2>2, <2>3 DEF SlotFound, ChooseSlot
<1>4. ValuesKept'
  <2>1. \A r \in Readers : tpc'[r] # "unlock"
    BY <1>0, <1>1, TableConstants DEF Inside
  <2>2. \A v \in Writers : Alive(v)' => Alive(v)
    BY <1>0, InsideAfter, TableConstants DEF TableInv, ChooseSlot, Alive
  <2>3. \A v \in Writers : tpc[v] # "data"
    BY <1>0, TableConstants DEF ChooseSlot, Inside
  <2> QED
    BY <2>1, <2>2, <2>3 DEF TableInv, ValuesKept, TableHolds, ChooseSlot
<1> QED
  BY <1>2, <1>3, <1>4 DEF TableInv, TableBounds

LEMMA WriteIdStep ==
  ASSUME TableInv, TableBounds', NEW w \in Writers, WriteId(w)
  PROVE  TableInv'
<1> DEFINE here == idx[w]
<1>0. Inside = {w} /\ w \in TableClients
  BY TableConstants DEF TableInv, TokenKept, WriteId, Inside
<1>1. Inside' = Inside /\ tpc'[w] = "data" /\ tpc[w] = "id" /\ \A d \in TableClients : d # w => tpc'[d] = tpc[d]
  BY <1>0, InsideAfter DEF TableInv, WriteId
<1>2. here \in TableSlots /\ id[w] \in Ids
  BY <1>0, <1>1 DEF TableInv, CallsAreMade
<1>3. /\ table'[here].sensor_id = id[w] /\ table'[here].latest_data = table[here].latest_data
      /\ \A i \in TableSlots : i # here => table'[i] = table[i]
  BY <1>2 DEF TableInv, TableTypeOK, WriteId
<1>4. TokenKept'
  BY <1>1 DEF TableInv, TokenKept, WriteId
<1>5. UsedFirst'
  <2>0. table[here].sensor_id = id[w] \/
          (table[here].sensor_id = 0 /\ (\A j \in TableSlots : table[j].sensor_id = 0 => here <= j)
             /\ \A j \in TableSlots : table[j].sensor_id # id[w])
    BY <1>1 DEF TableInv, SlotFound
  <2>1. \A i, j \in TableSlots : table'[i].sensor_id = table'[j].sensor_id /\ i # j => table'[i].sensor_id = 0
    BY <1>2, <1>3, <2>0 DEF TableInv, UsedFirst
  <2>2. PICK k \in 0 .. MaxSensors : \A i \in TableSlots : table[i].sensor_id = 0 <=> i > k
    BY DEF TableInv, UsedFirst
  <2>3. CASE table[here].sensor_id = id[w]
    BY <1>3, <2>1, <2>2, <2>3 DEF UsedFirst
  <2>4. CASE /\ table[here].sensor_id = 0 /\ id[w] # 0
             /\ \A j \in TableSlots : table[j].sensor_id = 0 => here <= j
    <3>1. here = k + 1
      BY <1>2, <2>2, <2>4, TableConstants DEF TableSlots
    <3>2. \A i \in TableSlots : table'[i].sensor_id = 0 <=> i > k + 1
      BY <1>2, <1>3, <2>2, <2>4, <3>1, TableConstants DEF TableSlots
    <3>3. k + 1 \in 0 .. MaxSensors
      BY <3>1, <1>2, TableConstants DEF TableSlots
    <3> QED
      BY <2>1, <3>2, <3>3 DEF UsedFirst
  <2> QED
    BY <2>0, <2>3, <2>4
<1>6. SlotFound'
  <2>1. \A v \in Writers : v # w => tpc'[v] \notin {"id", "data"}
    BY <1>0, <1>1, TableConstants DEF Inside
  <2> QED
    BY <1>1, <1>2, <1>3, <2>1 DEF SlotFound, WriteId
<1>7. ValuesKept'
  <2>1. \A r \in Readers : tpc'[r] # "unlock"
    BY <1>0, <1>1, TableConstants DEF Inside
  <2>2. \A v \in Writers : (Alive(v)' => Alive(v)) /\ tpc[v] # "data"
    BY <1>0, <1>1, TableConstants DEF Alive, Inside
  <2>3. ASSUME \A v \in Writers : Alive(v), NEW s \in Ids \ {0}, s # id[w]
        PROVE  TableHolds(s)'
    <3>1. TableHolds(s)
      BY <2>2, <2>3 DEF TableInv, ValuesKept
    <3>2. \A i \in TableSlots : table'[i].sensor_id = s <=> table[i].sensor_id = s
      BY <1>1, <1>2, <1>3, <2>3 DEF TableInv, SlotFound
    <3>3. \A i \in TableSlots : table'[i].sensor_id = s => table'[i].latest_data = table[i].latest_data
      BY <1>3
    <3>4. stored' = stored
      BY DEF WriteId
    <3> QED
      BY <3>1, <3>2, <3>3, <3>4 DEF TableHolds
  <2>4. id' = id
    BY DEF WriteId
  <2> QED
    BY <1>1, <2>1, <2>2, <2>3, <2>4 DEF ValuesKept
<1> QED
  BY <1>4, <1>5, <1>6, <1>7 DEF TableInv, TableBounds

LEMMA WriteDataStep ==
  ASSUME TableInv, TableBounds', NEW w \in Writers, WriteData(w)
  PROVE  TableInv'
<1> DEFINE here == idx[w]
<1>0. Inside = {w} /\ w \in TableClients
  BY TableConstants DEF TableInv, TokenKept, WriteData, Inside
<1>1. Inside' = Inside /\ tpc'[w] = "unlock" /\ tpc[w] = "data" /\ \A d \in TableClients : d # w => tpc'[d] = tpc[d]
  BY <1>0, InsideAfter DEF TableInv, WriteData
<1>2. /\ here \in TableSlots /\ id[w] \in Ids /\ table[here].sensor_id = id[w]
      /\ data[w] \in 1 .. MaxCalls /\ data[w] \in 0 .. MaxCalls
  BY <1>0, <1>1 DEF TableInv, TableTypeOK, SlotFound, CallsAreMade
<1>3. /\ \A i \in TableSlots : table'[i].sensor_id = table[i].sensor_id
      /\ \A i \in TableSlots : i # here => table'[i] = table[i]
      /\ table'[here].latest_data = data[w]
      /\ stored'[id[w]] = data[w] /\ \A s \in Ids : s # id[w] => stored'[s] = stored[s]
  BY <1>2 DEF TableInv, TableTypeOK, WriteData
<1>4. TokenKept'
  BY <1>1 DEF TableInv, TokenKept, WriteData
<1>5. UsedFirst'
  BY <1>3 DEF TableInv, UsedFirst
<1>6. SlotFound'
  BY <1>0, <1>1, TableConstants DEF SlotFound, Inside
<1>7. ValuesKept'
  <2>1. \A r \in Readers : tpc'[r] # "unlock"
    BY <1>0, <1>1, TableConstants DEF Inside
  <2>2. \A v \in Writers : (Alive(v)' => Alive(v)) /\ (v # w => tpc[v] # "data")
    BY <1>0, <1>1, TableConstants DEF Alive, Inside
  <2>3. ASSUME \A v \in Writers : Alive(v), NEW s \in Ids \ {0}
        PROVE  TableHolds(s)'
    <3>1. CASE s = id[w]
      <4>1. \A i \in TableSlots : table[i].sensor_id = s => i = here
        BY <1>2, <2>3, <3>1 DEF TableInv, UsedFirst
      <4> QED
        BY <1>2, <1>3, <3>1, <4>1 DEF TableHolds
    <3>2. CASE s # id[w]
      <4>1. TableHolds(s)
        BY <2>2, <2>3, <3>2 DEF TableInv, ValuesKept
      <4> QED
        BY <1>2, <1>3, <3>2, <4>1 DEF TableHolds
    <3> QED
      BY <3>1, <3>2
  <2> QED
    BY <2>1, <2>2, <2>3 DEF ValuesKept
<1> QED
  BY <1>4, <1>5, <1>6, <1>7 DEF TableInv, TableBounds

LEMMA LookupStep ==
  ASSUME TableInv, TableBounds', NEW r \in Readers, Lookup(r)
  PROVE  TableInv'
<1>0. Inside = {r} /\ r \in TableClients
  BY TableConstants DEF TableInv, TokenKept, Lookup, Inside
<1>1. Inside' = Inside /\ tpc'[r] = "unlock" /\ tpc[r] = "scan" /\ \A d \in TableClients : d # r => tpc'[d] = tpc[d]
  BY <1>0, InsideAfter DEF TableInv, Lookup
<1>2. result'[r] = IF First(id[r]) = NoSlot THEN Invalid ELSE table[First(id[r])].latest_data
  BY DEF TableInv, TableTypeOK, Lookup
<1>3. TokenKept'
  BY <1>1 DEF TableInv, TokenKept, Lookup
<1>4. UsedFirst' /\ SlotFound'
  BY <1>1, TableConstants DEF TableInv, UsedFirst, SlotFound, Lookup
<1>5. ValuesKept'
  <2>1. \A v \in Writers : tpc'[v] = tpc[v] /\ tpc[v] # "data"
    BY <1>0, <1>1, TableConstants DEF Inside
  <2>2. \A q \in Readers : tpc'[q] = "unlock" => q = r
    BY <1>0, <1>1, TableConstants DEF Inside
  <2>3. ASSUME \A v \in Writers : Alive(v), id[r] # 0
        PROVE  result'[r] = stored[id[r]]
    <3>1. TableHolds(id[r])
      BY <1>0, <1>1, <2>1, <2>3 DEF TableInv, CallsAreMade, ValuesKept
    <3> QED
      BY <1>2, <3>1, FirstSlot, TableConstants DEF TableInv, TableHolds, NoSlot, TableSlots
  <2> QED
    BY <2>1, <2>2, <2>3 DEF TableInv, ValuesKept, TableHolds, Lookup, Alive
<1> QED
  BY <1>3, <1>4, <1>5 DEF TableInv, TableBounds

LEMMA KillReaderStep ==
  ASSUME TableInv, TableBounds', NEW r \in Readers, KillReader(r)
  PROVE  TableInv'
<1>0. r \in TableClients /\ ProcessOf(r) = r /\ r \notin Writers /\ r # Gateway
  BY TableConstants
<1>1. Inside' = Inside \ {r} /\ tpc'[r] = "dead" /\ \A d \in TableClients : d # r => tpc'[d] = tpc[d]
  BY <1>0, InsideAfter DEF TableInv, KillReader
<1>2. \A c \in Inside : ProcessOf(c) = r => c = r
  BY <1>0, TableConstants DEF ProcessOf, Inside
<1>3. undo[r] = IF r \in Inside THEN 1 ELSE 0
  BY <1>0, <1>2, TableConstants DEF TableInv, TokenKept
<1>4. TokenKept'
  <2>1. CASE r \in Inside
    <3>1. Inside = {r} /\ Inside' = {} /\ sem = 0
      BY <1>1, <2>1 DEF TableInv, TokenKept
    <3> QED
      BY <1>0, <1>3, <2>1, <3>1, TableConstants DEF TableInv, TableTypeOK, TokenKept, KillReader, Adjusted
  <2>2. CASE r \notin Inside
    BY <1>0, <1>1, <1>2, <1>3, <2>2, TableConstants DEF TableInv, TableTypeOK, TokenKept, KillReader, Adjusted
  <2> QED
    BY <2>1, <2>2
<1>5. UsedFirst'
  BY DEF TableInv, UsedFirst, KillReader
<1>6. SlotFound' /\ ValuesKept'
  BY <1>0, <1>1, TableConstants
  DEF TableInv, SlotFound, ValuesKept, TableHolds, KillReader, Alive
<1> QED
  BY <1>4, <1>5, <1>6 DEF TableInv, TableBounds

LEMMA GatewayExitsStep ==
  ASSUME TableInv, TableBounds', GatewayExits
  PROVE  TableInv'
<1>0. \A c \in TableClients : ProcessOf(c) = Gateway <=> c \in Writers
  BY TableConstants DEF ProcessOf
<1>1. /\ Inside' = Inside \ Writers
      /\ \A c \in TableClients : tpc'[c] = IF c \in Writers THEN "dead" ELSE tpc[c]
  BY DEF TableInv, TableTypeOK, GatewayExits, Inside
<1>2. Gateway \in TableProcs /\ Inside \subseteq TableClients
  BY DEF TableProcs, Inside
<1>3. TokenKept'
  <2>1. ASSUME NEW w \in Inside, w \in Writers PROVE TokenKept'
    <3>1. Inside = {w} /\ Inside' = {} /\ sem = 0 /\ undo[Gateway] = 1 /\ ProcessOf(w) = Gateway
      BY <1>0, <1>1, <1>2, <2>1 DEF TableInv, TokenKept
    <3> QED
      BY <3>1, <1>2 DEF TableInv, TableTypeOK, TokenKept, GatewayExits, Adjusted
  <2>2. CASE \A c \in Inside : c \notin Writers
    <3>1. Inside' = Inside /\ undo[Gateway] = 0
      BY <1>0, <1>1, <1>2, <2>2 DEF TableInv, TokenKept
    <3> QED
      BY <3>1, <1>2 DEF TableInv, TableTypeOK, TokenKept, GatewayExits, Adjusted
  <2> QED
    BY <2>1, <2>2
<1>4. UsedFirst' /\ SlotFound'
  BY <1>1, TableConstants DEF TableInv, UsedFirst, SlotFound, GatewayExits
<1>5. ValuesKept'
  <2>1. CASE Writers = {}
    BY <1>1, <2>1, TableConstants DEF TableInv, ValuesKept, TableHolds, GatewayExits
  <2>2. ASSUME NEW w \in Writers PROVE ~Alive(w)'
    BY <1>1, <2>2, TableConstants DEF Alive
  <2> QED
    BY <2>1, <2>2 DEF ValuesKept
<1> QED
  BY <1>3, <1>4, <1>5 DEF TableInv, TableBounds

LEMMA TableInvReads == TableBounds /\ (interrupted = 0 => TableInv) => ReadsLastStored
<1> SUFFICES ASSUME TableBounds, interrupted = 0 => TableInv PROVE ReadsLastStored
  OBVIOUS
<1>1. ASSUME interrupted = 0 PROVE sem + Cardinality(Inside) = 1
  <2>1. CASE Inside = {}
    BY <1>1, <2>1, FS_EmptySet DEF TableInv, TokenKept
  <2>2. ASSUME NEW c \in Inside PROVE sem + Cardinality(Inside) = 1
    <3>1. Inside = {c} /\ sem = 0
      BY <1>1, <2>2 DEF TableInv, TokenKept
    <3>2. Cardinality(Inside) = 1
      BY <3>1, FS_Singleton
    <3> QED
      BY <3>1, <3>2
  <2> QED
    BY <2>1, <2>2
<1>2. ASSUME interrupted = 0 PROVE OneSlotPerSensor
  BY <1>2, TableConstants DEF TableInv, UsedFirst, OneSlotPerSensor, TableSlots
<1>3. MutualExclusion
  BY <1>1 DEF TableBounds, TokensCounted, MutualExclusion
<1> QED
  BY <1>2, <1>3 DEF TableInv, ValuesKept, ReadsLastStored

(* Whichever client is killed where: one client at a time is inside and    *)
(* one more at most for each wait that a handler ended; and until one is,  *)
(* each sensor keeps one slot, and while the gateway lives a read returns  *)
(* the last value stored for its sensor.                                   *)
THEOREM ReadsAreCurrent == TableSpec => []ReadsLastStored
<1> DEFINE Inv == TableBounds /\ (interrupted = 0 => TableInv)
<1>1. Inv /\ [TableNext]_tableVars => Inv'
  <2> SUFFICES ASSUME Inv, [TableNext]_tableVars PROVE Inv'
    OBVIOUS
  <2>1. TableBounds'
    BY TableNextBounds
  <2>2. CASE UNCHANGED tableVars
    BY <2>1, <2>2
    DEF tableVars, TableInv, TableBounds, TokenKept, UsedFirst, SlotFound, ValuesKept, TableHolds, Inside, Alive
  <2>3. ASSUME NEW c \in TableClients, SemInterrupted(c) PROVE interrupted' # 0
    BY <2>3, TableConstants DEF TableBounds, TableTypeOK, SemInterrupted
  <2>4. CASE TableNext /\ interrupted' = 0
    <3>1. interrupted = 0
      BY <2>2, <2>3, <2>4
      DEF TableNext, TableStep, sem_lock, Call, SemTaken, sem_unlock, ChooseSlot, WriteId, WriteData, Lookup,
          KillReader, GatewayExits, tableVars
    <3> QED
      BY <2>1, <2>2, <2>3, <2>4, <3>1, CallStep, SemTakenStep, SemUnlockStep, ChooseSlotStep, WriteIdStep,
         WriteDataStep, LookupStep, KillReaderStep, GatewayExitsStep
      DEF TableNext, TableStep, sem_lock
  <2> QED
    BY <2>1, <2>2, <2>4
<1>2. TableInit => Inv
  BY TableInitInv, BoundsInit
<1>3. Inv => ReadsLastStored
  BY TableInvReads
<1> QED
  BY <1>1, <1>2, <1>3, PTL DEF TableSpec
-----------------------------------------------------------------------------
(* The process pool *)

Unit == [cmd : 1 .. MaxSubmits, part : 1 .. CmdLen]

Adjacent ==
  \A i \in 1 .. Len(pipe) - 1 :
    \/ pipe[i + 1] = [pipe[i] EXCEPT !.part = @ + 1]
    \/ pipe[i].part = CmdLen /\ pipe[i + 1].part = 1 /\ pipe[i].cmd < pipe[i + 1].cmd

(* Commands follow each other by their numbers, up to the last submitted,  *)
(* whose end is the end of the stream.                                     *)
Follow ==
  /\ \A i, j \in 1 .. Len(pipe) : i < j =>
       /\ pipe[i].cmd <= pipe[j].cmd
       /\ pipe[j].part = 1 => pipe[i].cmd < pipe[j].cmd
  /\ \A i \in 1 .. Len(pipe) : pipe[i].cmd <= submits
  /\ pipe # << >> => pipe[Len(pipe)].part = CmdLen
  /\ \A n \in 1 .. MaxSubmits : n > submits => executed[n] = 0

ProcInv == ProcTypeOK /\ Adjacent /\ Follow /\ AtMostOnce

LEMMA ProcConstants ==
  CmdLen \in Nat \ {0} /\ BufLen \in Nat \ {0} /\ PipeCap \in Nat /\ MaxSubmits \in Nat
  BY ProcAssumption

(* The type of the stream apart from the others. *)
LEMMA ProcTypes ==
  /\ ProcTypeOK =>
       /\ pipe \in Seq(Unit) /\ Len(pipe) \in Nat /\ Len(pipe) <= PipeCap
       /\ \A i \in 1 .. Len(pipe) :
            pipe[i] \in Unit /\ pipe[i].cmd \in 1 .. MaxSubmits /\ pipe[i].part \in 1 .. CmdLen
       /\ submits \in Nat /\ submits <= MaxSubmits /\ executed \in [1 .. MaxSubmits -> Nat] /\ garbled \in Nat
  /\ /\ parent \in {"fork", "running", "destroyed", "gone"} /\ daemon \in BOOLEAN /\ fd \in BOOLEAN
     /\ pipe \in Seq(Unit) /\ Len(pipe) <= PipeCap
     /\ cpc \in [Children -> {"none", "open", "read", "dead", "zombie"}]
     /\ submits \in 0 .. MaxSubmits /\ executed \in [1 .. MaxSubmits -> Nat] /\ garbled \in Nat
     => ProcTypeOK
<1>1. ASSUME ProcTypeOK
      PROVE  /\ pipe \in Seq(Unit) /\ Len(pipe) <= PipeCap
             /\ submits \in 0 .. MaxSubmits /\ executed \in [1 .. MaxSubmits -> Nat] /\ garbled \in Nat
  BY <1>1, Zenon DEF ProcTypeOK, Unit
<1>2. pipe \in Seq(Unit) => Len(pipe) \in Nat /\ \A i \in 1 .. Len(pipe) : pipe[i] \in Unit
  OBVIOUS
<1>3. \A u \in Unit : u.cmd \in 1 .. MaxSubmits /\ u.part \in 1 .. CmdLen
  BY DEF Unit
<1>4. submits \in 0 .. MaxSubmits => submits \in Nat /\ submits <= MaxSubmits
  BY ProcConstants
<1>5. /\ parent \in {"fork", "running", "destroyed", "gone"} /\ daemon \in BOOLEAN /\ fd \in BOOLEAN
      /\ pipe \in Seq(Unit) /\ Len(pipe) <= PipeCap
      /\ cpc \in [Children -> {"none", "open", "read", "dead", "zombie"}]
      /\ submits \in 0 .. MaxSubmits /\ executed \in [1 .. MaxSubmits -> Nat] /\ garbled \in Nat
      => ProcTypeOK
  BY Zenon DEF ProcTypeOK, Unit
<1> QED
  BY <1>1, <1>2, <1>3, <1>4, <1>5

LEMMA ProcInitInv == ProcInit => ProcInv
<1> SUFFICES ASSUME ProcInit PROVE ProcInv
  OBVIOUS
<1>1. ProcTypeOK
  <2>1. pipe \in Seq(Unit) /\ Len(pipe) <= PipeCap /\ submits \in 0 .. MaxSubmits
        /\ executed \in [1 .. MaxSubmits -> Nat] /\ garbled \in Nat
    BY ProcConstants DEF ProcInit
  <2> QED
    BY <2>1, ProcTypes DEF ProcInit
<1>2. Adjacent /\ Follow /\ AtMostOnce
  BY ProcConstants DEF ProcInit, Adjacent, Follow, AtMostOnce
<1> QED
  BY <1>1, <1>2 DEF ProcInv

(* A whole command goes behind what is there. *)
LEMMA SubmitExtends ==
  ASSUME ProcTypeOK, submits < MaxSubmits
  PROVE  LET q == pipe \o Units(submits + 1)
         IN  /\ q \in Seq(Unit) /\ Len(q) = Len(pipe) + CmdLen
             /\ \A i \in 1 .. Len(q) :
                  q[i] = IF i <= Len(pipe) THEN pipe[i] ELSE [cmd |-> submits + 1, part |-> i - Len(pipe)]
<1> DEFINE u == Units(submits + 1)
<1>1. submits + 1 \in 1 .. MaxSubmits
  BY ProcConstants DEF ProcTypeOK
<1>2. /\ u \in Seq(Unit) /\ Len(u) = CmdLen
      /\ \A k \in 1 .. CmdLen : u[k] = [cmd |-> submits + 1, part |-> k]
  <2>1. u \in [1 .. CmdLen -> Unit]
    BY <1>1 DEF Units, Unit
  <2> QED
    BY <2>1, ProcConstants DEF Units
<1>3. pipe \in Seq(Unit)
  BY DEF ProcTypeOK, Unit
<1> HIDE DEF u
<1>4. /\ pipe \o u \in Seq(Unit) /\ Len(pipe \o u) = Len(pipe) + Len(u)
      /\ \A i \in 1 .. Len(pipe) + Len(u) : (pipe \o u)[i] = IF i <= Len(pipe) THEN pipe[i] ELSE u[i - Len(pipe)]
  BY <1>2, <1>3, ConcatProperties, Zenon
<1>5. \A i \in 1 .. Len(pipe) + CmdLen : ~(i <= Len(pipe)) => i - Len(pipe) \in 1 .. CmdLen
  BY <1>3, ProcConstants
<1> QED
  BY <1>2, <1>4, <1>5 DEF u

LEMMA SubmitStep ==
  ASSUME ProcInv, Submit
  PROVE  ProcInv'
<1>0. /\ submits \in Nat /\ submits < MaxSubmits /\ submits' = submits + 1
      /\ UNCHANGED <<parent, daemon, fd, cpc, executed, garbled>>
  BY DEF ProcInv, ProcTypeOK, Submit
<1>1. CASE ~fd
  <2>1. pipe' = pipe
    BY <1>1 DEF Submit
  <2>2. ProcTypeOK'
    BY <1>0, <2>1, ProcConstants DEF ProcInv, ProcTypeOK
  <2>3. Adjacent' /\ AtMostOnce'
    BY <1>0, <2>1 DEF ProcInv, Adjacent, AtMostOnce
  <2>4. Follow'
    <3>1. \A i \in 1 .. Len(pipe') : pipe'[i].cmd <= submits'
      BY <1>0, <2>1, ProcTypes DEF ProcInv, Follow
    <3>2. \A n \in 1 .. MaxSubmits : n > submits' => executed'[n] = 0
      BY <1>0 DEF ProcInv, Follow
    <3> QED
      BY <2>1, <3>1, <3>2 DEF ProcInv, Follow
  <2> QED
    BY <2>2, <2>3, <2>4 DEF ProcInv
<1>2. CASE fd
  <2> DEFINE L == Len(pipe)
  <2>1. pipe' = pipe \o Units(submits + 1) /\ L + CmdLen <= PipeCap
    BY <1>2 DEF Submit
  <2>2. /\ pipe' \in Seq(Unit) /\ Len(pipe') = L + CmdLen
        /\ \A i \in 1 .. Len(pipe') :
             pipe'[i] = IF i <= L THEN pipe[i] ELSE [cmd |-> submits + 1, part |-> i - L]
    BY <1>0, <2>1, SubmitExtends DEF ProcInv
  <2>3. L \in Nat /\ \A i \in 1 .. L : pipe[i] \in Unit
    BY ProcTypes DEF ProcInv
  <2>4. \A i \in 1 .. L : pipe[i].cmd \in Nat /\ pipe[i].cmd <= submits /\ pipe[i].part \in Nat
    BY ProcTypes, ProcConstants DEF ProcInv, Follow
  <2>5. /\ \A i \in 1 .. L : pipe'[i] = pipe[i]
        /\ \A i \in 1 .. Len(pipe') : i > L => pipe'[i].cmd = submits + 1 /\ pipe'[i].part = i - L
    BY <2>2, <2>3, ProcConstants
  <2>6. ProcTypeOK'
    <3>1. ProcTypeOK /\ Len(pipe') <= PipeCap /\ submits' \in 0 .. MaxSubmits
      BY <1>0, <2>1, <2>2, ProcConstants DEF ProcInv
    <3>2. /\ parent' \in {"fork", "running", "destroyed", "gone"} /\ daemon' \in BOOLEAN /\ fd' \in BOOLEAN
          /\ cpc' \in [Children -> {"none", "open", "read", "dead", "zombie"}]
          /\ executed' \in [1 .. MaxSubmits -> Nat] /\ garbled' \in Nat
      BY <1>0, <3>1, Zenon DEF ProcTypeOK
    <3>3. pipe' \in Seq([cmd : 1 .. MaxSubmits, part : 1 .. CmdLen])
      BY <2>2, Zenon DEF Unit
    <3> QED
      BY <3>1, <3>2, <3>3, Zenon DEF ProcTypeOK
  <2>7. Adjacent'
    <3> SUFFICES ASSUME NEW i \in 1 .. Len(pipe') - 1
                 PROVE  \/ pipe'[i + 1] = [pipe'[i] EXCEPT !.part = @ + 1]
                        \/ pipe'[i].part = CmdLen /\ pipe'[i + 1].part = 1 /\ pipe'[i].cmd < pipe'[i + 1].cmd
      BY DEF Adjacent
    <3>0. i \in 1 .. Len(pipe') /\ i + 1 \in 1 .. Len(pipe') /\ i \in Nat
      BY <2>2, <2>3, ProcConstants
    <3>1. CASE i < L
      <4>1. i \in 1 .. L - 1 /\ pipe'[i] = pipe[i] /\ pipe'[i + 1] = pipe[i + 1]
        BY <3>0, <3>1, <2>3, <2>5
      <4> QED
        BY <4>1 DEF ProcInv, Adjacent
    <3>2. CASE i = L
      <4>1. pipe'[i] = pipe[i] /\ i \in 1 .. L /\ i + 1 > L /\ pipe # << >>
        BY <3>0, <3>2, <2>3, <2>5
      <4>2. pipe'[i + 1].part = 1 /\ pipe'[i + 1].cmd = submits + 1
        BY <3>0, <3>2, <4>1, <2>3, <2>5
      <4>3. pipe[i].part = CmdLen
        BY <3>2, <4>1 DEF ProcInv, Follow
      <4> QED
        BY <1>0, <2>4, <4>1, <4>2, <4>3
    <3>3. CASE i > L
      <4>1. /\ pipe'[i] = [cmd |-> submits + 1, part |-> i - L]
            /\ pipe'[i + 1] = [cmd |-> submits + 1, part |-> (i - L) + 1]
        BY <3>0, <3>3, <2>2, <2>3
      <4> QED
        BY <4>1
    <3> QED
      BY <3>0, <3>1, <3>2, <3>3, <2>3
  <2>8. Follow'
    <3>1. \A i, j \in 1 .. Len(pipe') : i < j =>
            pipe'[i].cmd <= pipe'[j].cmd /\ (pipe'[j].part = 1 => pipe'[i].cmd < pipe'[j].cmd)
      <4> SUFFICES ASSUME NEW i \in 1 .. Len(pipe'), NEW j \in 1 .. Len(pipe'), i < j
                   PROVE  pipe'[i].cmd <= pipe'[j].cmd /\ (pipe'[j].part = 1 => pipe'[i].cmd < pipe'[j].cmd)
        OBVIOUS
      <4>1. CASE j <= L
        <5>1. i \in 1 .. L /\ j \in 1 .. L /\ pipe'[i] = pipe[i] /\ pipe'[j] = pipe[j]
          BY <4>1, <2>2, <2>3, <2>5, ProcConstants
        <5> QED
          BY <5>1 DEF ProcInv, Follow
      <4>2. CASE i <= L /\ j > L
        <5>1. i \in 1 .. L /\ pipe'[i] = pipe[i] /\ pipe'[j].cmd = submits + 1
          BY <4>2, <2>2, <2>3, <2>5, ProcConstants
        <5> QED
          BY <5>1, <2>4, <1>0
      <4>3. CASE i > L
        BY <4>3, <2>2, <2>3, <2>5, <1>0, ProcConstants
      <4> QED
        BY <4>1, <4>2, <4>3, <2>2, <2>3, ProcConstants
    <3>2. \A i \in 1 .. Len(pipe') : pipe'[i].cmd <= submits'
      BY <1>0, <2>2, <2>3, <2>4, <2>5, ProcConstants
    <3>3. pipe'[Len(pipe')].part = CmdLen
      BY <2>2, <2>3, <2>5, ProcConstants
    <3>4. \A n \in 1 .. MaxSubmits : n > submits' => executed'[n] = 0
      BY <1>0 DEF ProcInv, Follow
    <3> QED
      BY <3>1, <3>2, <3>3, <3>4 DEF Follow
  <2>9. AtMostOnce'
    <3>1. ASSUME NEW i \in 1 .. Len(pipe'), pipe'[i].part = 1 PROVE executed[pipe'[i].cmd] = 0
      <4>1. CASE i <= L
        <5>1. i \in 1 .. L /\ pipe'[i] = pipe[i]
          BY <4>1, <2>2, <2>3, <2>5, ProcConstants
        <5> QED
          BY <5>1, <3>1 DEF ProcInv, AtMostOnce
      <4>2. CASE i > L
        BY <4>2, <2>5, <1>0, ProcConstants DEF ProcInv, ProcTypeOK, Follow
      <4> QED
        BY <4>1, <4>2, <2>2, <2>3, ProcConstants
    <3> QED
      BY <3>1, <1>0 DEF ProcInv, AtMostOnce
  <2> QED
    BY <2>6, <2>7, <2>8, <2>9 DEF ProcInv
<1> QED
  BY <1>1, <1>2

LEMMA ChildReadStep ==
  ASSUME ProcInv, NEW c \in Children, ChildRead(c)
  PROVE  ProcInv'
<1> DEFINE L == Len(pipe)
           n == Smaller(L, BufLen)
           buf == SubSeq(pipe, 1, n)
<1>1. /\ L \in Nat /\ n \in Nat /\ 0 < n /\ n <= L
      /\ \A i \in 1 .. L : pipe[i] \in Unit
  BY ProcTypes, ProcConstants DEF ProcInv, ChildRead, Smaller
<1>2. pipe' = SubSeq(pipe, n + 1, L) /\ UNCHANGED <<parent, daemon, fd, cpc, submits>>
  BY DEF ChildRead, ReadTakes
<1>3. \/ executed' = [executed EXCEPT ![buf[1].cmd] = @ + 1] /\ garbled' = garbled /\ buf[1].part = 1
      \/ garbled' = garbled + 1 /\ executed' = executed
  BY DEF ChildRead, FirstLineIsCommand
<1>4. buf[1] = pipe[1] /\ pipe[1] \in Unit
  BY <1>1, ProcConstants, SMTT(20) DEF ProcInv, ProcTypeOK
<1> HIDE DEF n, buf
<1>5. /\ pipe' \in Seq(Unit) /\ Len(pipe') = L - n
      /\ \A i \in 1 .. Len(pipe') : i + n \in 1 .. L /\ pipe'[i] = pipe[i + n]
  <2>1. pipe \in Seq(Unit)
    BY DEF ProcInv, ProcTypeOK, Unit
  <2>2. \A i \in 1 .. L : i \in DOMAIN pipe
    BY <2>1
  <2> QED
    BY <1>1, <1>2, <2>1, <2>2, SubSeqProperties
<1>6. \A m \in 1 .. MaxSubmits : executed'[m] # executed[m] =>
        m = pipe[1].cmd /\ pipe[1].part = 1 /\ executed'[m] = executed[m] + 1
  BY <1>3, <1>4 DEF ProcInv, ProcTypeOK, Unit
<1>7. ProcTypeOK'
  <2>1. executed' \in [1 .. MaxSubmits -> Nat] /\ garbled' \in Nat
    BY <1>3, <1>4, SMTT(20) DEF ProcInv, ProcTypeOK, Unit
  <2>2. ProcTypeOK /\ Len(pipe') <= PipeCap
    BY <1>1, <1>5, ProcTypes, ProcConstants DEF ProcInv
  <2>3. /\ parent' \in {"fork", "running", "destroyed", "gone"} /\ daemon' \in BOOLEAN /\ fd' \in BOOLEAN
        /\ cpc' \in [Children -> {"none", "open", "read", "dead", "zombie"}] /\ submits' \in 0 .. MaxSubmits
    BY <1>2, <2>2, Zenon DEF ProcTypeOK
  <2>4. pipe' \in Seq([cmd : 1 .. MaxSubmits, part : 1 .. CmdLen])
    BY <1>5, Zenon DEF Unit
  <2> QED
    BY <2>1, <2>2, <2>3, <2>4, Zenon DEF ProcTypeOK
<1>8. Adjacent'
  <2> SUFFICES ASSUME NEW i \in 1 .. Len(pipe') - 1
               PROVE  \/ pipe'[i + 1] = [pipe'[i] EXCEPT !.part = @ + 1]
                      \/ pipe'[i].part = CmdLen /\ pipe'[i + 1].part = 1 /\ pipe'[i].cmd < pipe'[i + 1].cmd
    BY DEF Adjacent
  <2>1. i + n \in 1 .. L - 1 /\ pipe'[i] = pipe[i + n] /\ pipe'[i + 1] = pipe[(i + n) + 1]
    <3>1. i \in 1 .. Len(pipe') /\ i + 1 \in 1 .. Len(pipe')
      BY <1>1, <1>5
    <3>2. (i + 1) + n = (i + n) + 1 /\ i + n \in 1 .. L - 1
      BY <1>1, <1>5
    <3> QED
      BY <1>5, <3>1, <3>2
  <2> QED
    BY <2>1 DEF ProcInv, Adjacent
<1>9. Follow'
  <2>1. \A i, j \in 1 .. Len(pipe') : i < j =>
          pipe'[i].cmd <= pipe'[j].cmd /\ (pipe'[j].part = 1 => pipe'[i].cmd < pipe'[j].cmd)
    <3> SUFFICES ASSUME NEW i \in 1 .. Len(pipe'), NEW j \in 1 .. Len(pipe'), i < j
                 PROVE  pipe'[i].cmd <= pipe'[j].cmd /\ (pipe'[j].part = 1 => pipe'[i].cmd < pipe'[j].cmd)
      OBVIOUS
    <3>1. i + n < j + n
      BY <1>1, <1>5
    <3> QED
      BY <1>5, <3>1 DEF ProcInv, Follow
  <2>2. \A i \in 1 .. Len(pipe') : pipe'[i].cmd <= submits'
    BY <1>2, <1>5 DEF ProcInv, Follow
  <2>3. pipe' # << >> => pipe'[Len(pipe')].part = CmdLen
    <3> SUFFICES ASSUME pipe' # << >> PROVE pipe'[Len(pipe')].part = CmdLen
      OBVIOUS
    <3>1. Len(pipe') \in 1 .. Len(pipe') /\ Len(pipe') + n = L /\ pipe # << >>
      BY <1>1, <1>5, EmptySeq
    <3> QED
      BY <1>5, <3>1 DEF ProcInv, Follow
  <2>4. \A m \in 1 .. MaxSubmits : m > submits' => executed'[m] = 0
    <3>1. 1 \in 1 .. L /\ pipe[1].cmd <= submits /\ pipe[1].cmd \in Nat /\ submits \in Nat
      BY <1>1, ProcTypes DEF ProcInv, Follow
    <3> QED
      BY <1>2, <1>6, <3>1 DEF ProcInv, Follow
  <2> QED
    BY <2>1, <2>2, <2>3, <2>4 DEF Follow
<1>10. AtMostOnce'
  <2>1. \A m \in 1 .. MaxSubmits : executed'[m] <= 1
    <3>1. 1 \in 1 .. L /\ executed \in [1 .. MaxSubmits -> Nat]
      BY <1>1, ProcTypes DEF ProcInv
    <3>2. pipe[1].part = 1 => executed[pipe[1].cmd] = 0
      BY <3>1 DEF ProcInv, AtMostOnce
    <3> QED
      BY <1>6, <3>1, <3>2 DEF ProcInv, AtMostOnce
  <2>2. ASSUME NEW i \in 1 .. Len(pipe'), pipe'[i].part = 1
        PROVE  executed'[pipe'[i].cmd] = 0
    <3>1. i + n \in 1 .. L /\ 1 \in 1 .. L /\ 1 < i + n /\ pipe'[i] = pipe[i + n]
      BY <1>1, <1>5
    <3>2. pipe[1].cmd < pipe[i + n].cmd /\ executed[pipe[i + n].cmd] = 0
      BY <2>2, <3>1 DEF ProcInv, Follow, AtMostOnce
    <3>3. pipe[i + n].cmd \in 1 .. MaxSubmits /\ pipe[1].cmd \in 1 .. MaxSubmits
      BY <1>1, <3>1 DEF Unit
    <3> QED
      BY <1>6, <3>1, <3>2, <3>3
  <2>3. DOMAIN executed' = 1 .. MaxSubmits
    BY <1>7 DEF ProcTypeOK
  <2> QED
    BY <2>1, <2>2, <2>3 DEF AtMostOnce
<1> QED
  BY <1>7, <1>8, <1>9, <1>10 DEF ProcInv

LEMMA ProcOtherStep ==
  ASSUME ProcInv,
         \/ \E c \in Children : Fork(c) \/ ChildOpen(c) \/ ChildEof(c)
         \/ InitFails \/ OpenReadWrite \/ Destroy \/ ParentExit
         \/ UNCHANGED procVars
  PROVE  ProcInv'
<1>1. UNCHANGED <<pipe, submits, executed, garbled, daemon>>
  BY DEF Fork, ChildOpen, ChildEof, InitFails, OpenReadWrite, Destroy, ParentExit, procVars
<1>2. parent' \in {"fork", "running", "destroyed", "gone"} /\ fd' \in BOOLEAN
  BY DEF ProcInv, ProcTypeOK, Fork, ChildOpen, ChildEof, InitFails, OpenReadWrite, Destroy, ParentExit, procVars
<1>3. cpc' \in [Children -> {"none", "open", "read", "dead", "zombie"}]
  BY DEF ProcInv, ProcTypeOK, Fork, ChildOpen, ChildEof, InitFails, OpenReadWrite, Destroy, ParentExit, procVars,
         Killed, Corpse
<1>4. ProcTypeOK'
  BY <1>1, <1>2, <1>3 DEF ProcInv, ProcTypeOK
<1> QED
  BY <1>1, <1>4 DEF ProcInv, Adjacent, Follow, AtMostOnce

(* However many children share the FIFO, and whenever the gateway closes   *)
(* it or is gone: what is in it stays in order, and no command is run      *)
(* twice.                                                                  *)
THEOREM StreamStaysOrdered == ProcSpec => []StreamIsOrdered
<1>1. ProcInv /\ [ProcNext]_procVars => ProcInv'
  BY SubmitStep, ChildReadStep, ProcOtherStep DEF ProcNext, Child
<1>2. ProcInv => StreamIsOrdered
  BY DEF ProcInv, StreamIsOrdered, Adjacent
<1> QED
  BY <1>1, <1>2, ProcInitInv, PTL DEF ProcSpec
=============================================================================
