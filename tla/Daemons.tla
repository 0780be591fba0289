------------------------------- MODULE Daemons -------------------------------
(***************************************************************************)
(* How the gateway and the daemon exercises start, keep a second instance  *)
(* from running with a lock on a PID file, and end.  Several instances are *)
(* started against each other; any of them may be killed at any step, and  *)
(* any call may fail.  The lock belongs to the file that was opened, the   *)
(* path may meanwhile name another file or none.                           *)
(***************************************************************************)
EXTENDS Integers, FiniteSets

CONSTANTS
  Instances,         \* processes started, numbers from 1
  MaxFiles,          \* bound: lock files ever created
  DaemonPrograms     \* the programs considered

ASSUME DaemonAssumption ==
  /\ 0 \notin Instances /\ MaxFiles \in Nat \ {0}
  /\ DaemonPrograms \subseteq [starts : {"config", "daemonize", "fopen"}, locks : BOOLEAN,
                              truncates : {"no", "if it can", "or ends"}, checks : BOOLEAN, unlinks : BOOLEAN]
  /\ \A p \in DaemonPrograms : p.locks => p.starts # "fopen"   \* process_already_running comes first

VARIABLES
  dprog,             \* the program
  dpc,               \* where each instance is
  attempts,          \* password attempts left
  path,              \* the file LOCKFILE names, or 0
  created,           \* lock files created so far
  lock_fd,           \* the file each instance has open, or 0
  lockOn, pidIn      \* per file: the holder of its lock and the PID in it, or 0

daemonVars == <<dprog, dpc, attempts, path, created, lock_fd, lockOn, pidIn>>
-----------------------------------------------------------------------------
(* starts: the first step; only the gateway asks for a configuration and a *)
(* password.  truncates and checks: whether the file is emptied before the *)
(* PID is written, and whether failures of that and of the write end the   *)
(* program.  unlinks: the lock file is removed at the end.                 *)
gateway_d == [starts |-> "config", locks |-> TRUE, truncates |-> "no", checks |-> TRUE, unlinks |-> FALSE]
gateway_foreground == [gateway_d EXCEPT !.locks = FALSE]
single_mydaemon == [starts |-> "daemonize", locks |-> TRUE, truncates |-> "or ends", checks |-> FALSE, unlinks |-> FALSE]
syslog_06 == [single_mydaemon EXCEPT !.truncates = "if it can"]
test_daemon == [single_mydaemon EXCEPT !.truncates = "if it can"]
ai_06 == [single_mydaemon EXCEPT !.checks = TRUE, !.unlinks = TRUE]
daemon_05 == [starts |-> "daemonize", locks |-> FALSE, truncates |-> "no", checks |-> FALSE, unlinks |-> FALSE]
daemon_04 == daemon_05
daemon_03 == [daemon_05 EXCEPT !.starts = "fopen"]
-----------------------------------------------------------------------------
MAX_ATTEMPTS == 3
LockFiles == 1 .. MaxFiles

DaemonInit ==
  /\ dprog \in DaemonPrograms
  /\ dpc = [i \in Instances |-> "gone"]
  /\ attempts = [i \in Instances |-> MAX_ATTEMPTS]
  /\ path = 0 /\ created = 0 /\ lock_fd = [i \in Instances |-> 0]
  /\ lockOn = [f \in LockFiles |-> 0] /\ pidIn = [f \in LockFiles |-> 0]

DaemonGoes(i, from, to) == dpc[i] = from /\ dpc' = [dpc EXCEPT ![i] = to]
lockVars == <<path, created, lock_fd, lockOn, pidIn>>

(* The program is started, for the first time or again. *)
StartAgain(i) ==
  /\ DaemonGoes(i, "gone", dprog.starts)
  /\ UNCHANGED <<dprog, attempts, lockVars>>

(* The end of a process closes its files and so gives up its lock. *)
Ends(i) ==
  /\ dpc' = [dpc EXCEPT ![i] = "gone"]
  /\ lockOn' = [f \in LockFiles |-> IF lockOn[f] = i THEN 0 ELSE lockOn[f]]
  /\ lock_fd' = [lock_fd EXCEPT ![i] = 0]
  /\ attempts' = [attempts EXCEPT ![i] = MAX_ATTEMPTS]
  /\ UNCHANGED <<dprog, path, created, pidIn>>
-----------------------------------------------------------------------------
load_config(i) ==
  /\ DaemonGoes(i, "config", "password")
  /\ UNCHANGED <<dprog, attempts, lockVars>>

(* A right password, or a wrong one with attempts left. *)
shadow_authenticate(i) ==
  /\ \/ DaemonGoes(i, "password", "daemonize") /\ attempts' = [attempts EXCEPT ![i] = MAX_ATTEMPTS]
     \/ /\ attempts[i] > 1 /\ DaemonGoes(i, "password", "password")
        /\ attempts' = [attempts EXCEPT ![i] = @ - 1]
  /\ UNCHANGED <<dprog, lockVars>>

(* Forks, setsid, chdir and /dev/null.  A gateway without -d does none of  *)
(* it, and takes no lock.                                                  *)
daemonize(i) ==
  /\ DaemonGoes(i, "daemonize", IF dprog.locks THEN "open" ELSE "fopen")
  /\ UNCHANGED <<dprog, attempts, lockVars>>

(* open with O_CREAT: the file that LOCKFILE names, or a new one. *)
OpenLockFile(i) ==
  /\ DaemonGoes(i, "open", "flock")
  /\ path # 0 \/ created < MaxFiles
  /\ created' = IF path = 0 THEN created + 1 ELSE created
  /\ path' = IF path = 0 THEN created' ELSE path
  /\ lock_fd' = [lock_fd EXCEPT ![i] = path']
  /\ UNCHANGED <<dprog, attempts, lockOn, pidIn>>

(* flock with LOCK_NB, or fcntl with F_SETLK: whoever finds the lock taken *)
(* exits.                                                                  *)
AfterFlock == IF dprog.truncates = "no" THEN "write" ELSE "truncate"
FlockUnchecked(i) ==
  /\ DaemonGoes(i, "flock", AfterFlock)
  /\ lockOn' = [lockOn EXCEPT ![lock_fd[i]] = i]
  /\ UNCHANGED <<dprog, attempts, path, created, lock_fd, pidIn>>
Flock(i) ==
  /\ lock_fd[i] # 0 /\ lockOn[lock_fd[i]] = 0
  /\ DaemonGoes(i, "flock", AfterFlock)
  /\ lockOn' = [lockOn EXCEPT ![lock_fd[i]] = i]
  /\ UNCHANGED <<dprog, attempts, path, created, lock_fd, pidIn>>

TruncateLockFile(i) ==
  /\ DaemonGoes(i, "truncate", "write")
  /\ \/ pidIn' = [pidIn EXCEPT ![lock_fd[i]] = 0]
     \/ dprog.truncates = "if it can" /\ UNCHANGED pidIn
  /\ UNCHANGED <<dprog, attempts, path, created, lock_fd, lockOn>>

(* The first line of the file; the gateway leaves digits of a longer PID   *)
(* below it.                                                               *)
WritePid(i) ==
  /\ DaemonGoes(i, "write", "fopen")
  /\ \/ pidIn' = [pidIn EXCEPT ![lock_fd[i]] = i]
     \/ ~dprog.checks /\ UNCHANGED pidIn
  /\ UNCHANGED <<dprog, attempts, path, created, lock_fd, lockOn>>

process_already_running(i) == OpenLockFile(i) \/ Flock(i) \/ TruncateLockFile(i) \/ WritePid(i)

OpenOutput(i) ==
  /\ DaemonGoes(i, "fopen", "work")
  /\ UNCHANGED <<dprog, attempts, lockVars>>

(* A call fails, the lock is taken, the last password is wrong, or a       *)
(* signal kills the instance.                                              *)
FailOrDie(i) == dpc[i] # "gone" /\ Ends(i)

(* 06ai.c: SIGTERM, also one that came during the start, or a failure of   *)
(* time ends the loop; the lock file is removed and the descriptor closed. *)
LoopEnds(i) ==
  /\ dprog.unlinks /\ DaemonGoes(i, "work", "unlink")
  /\ UNCHANGED <<dprog, attempts, lockVars>>
Unlink(i) ==
  /\ DaemonGoes(i, "unlink", "close")
  /\ path' = 0
  /\ UNCHANGED <<dprog, attempts, created, lock_fd, lockOn, pidIn>>

DaemonNext ==
  \E i \in Instances :
    \/ StartAgain(i) \/ load_config(i) \/ shadow_authenticate(i) \/ daemonize(i) \/ process_already_running(i)
    \/ OpenOutput(i) \/ LoopEnds(i) \/ Unlink(i) \/ FailOrDie(i)

DaemonSpec == DaemonInit /\ [][DaemonNext]_daemonVars
-----------------------------------------------------------------------------
DaemonTypeOK ==
  /\ dprog \in DaemonPrograms /\ attempts \in [Instances -> 1 .. MAX_ATTEMPTS]
  /\ dpc \in [Instances -> {"gone", "config", "password", "daemonize", "open", "flock", "truncate", "write", "fopen", "work", "unlink", "close"}]
  /\ created \in 0 .. MaxFiles /\ path \in 0 .. created /\ lock_fd \in [Instances -> 0 .. created]
  /\ lockOn \in [LockFiles -> Instances \cup {0}] /\ pidIn \in [LockFiles -> Instances \cup {0}]

Working == {i \in Instances : dpc[i] = "work"}

(* process_already_running and daemonize: however starts, failures, kills  *)
(* and ends interleave, no file has two working holders, and each works    *)
(* with the lock of the file it opened; where the file is never removed    *)
(* that makes one instance, and where a failed write ends the program the  *)
(* file then holds its PID.  06ai.c, which removes the file, can have one  *)
(* instance per file: one that opened the old file before the removal and  *)
(* one that created the new file both work.                                *)
OneWorks ==
  /\ DaemonTypeOK
  /\ dprog.locks =>
       /\ \A i \in Working : lockOn[lock_fd[i]] = i
       /\ ~dprog.unlinks => Cardinality(Working) <= 1
       /\ dprog.checks /\ ~dprog.unlinks => \A i \in Working : pidIn[path] = i
=============================================================================
