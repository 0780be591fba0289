----------------------------- MODULE LogPipeline -----------------------------
(***************************************************************************)
(* The three versions of LogHawk: a collector copies the lines of a log    *)
(* into a ring of blocks in shared memory, several processors take them    *)
(* from there, classify them and send them through a message queue, and an *)
(* outputer writes them to files at the rate of a token bucket.  Three     *)
(* System V semaphores connect collector and processors: a mutex, the free *)
(* blocks and the filled ones.  Any process but the outputer may be killed *)
(* at any step; SEM_UNDO then undoes its semaphore operations.  What is to *)
(* be undone must fit the kernel's range, or semop is refused: for the     *)
(* collector, whose P of space and V of data all go one way, after SEMVMX  *)
(* lines.  Nobody looks at the result.                                     *)
(*                                                                         *)
(* A line is its number in Log, 0 is the content of a block that was never *)
(* written, and Log says which words the line contains.                    *)
(***************************************************************************)
EXTENDS Integers, Sequences, FiniteSets, FiniteSetsExt

CONSTANTS
  MAX_LOGS,     \* blocks of the ring
  Log,          \* what is appended to the log: a set of words per line
  MSG_CAP,      \* messages the queue holds before msgsnd blocks
  SEMVMX,       \* the kernel's largest semaphore value: 32767
  MaxKills,     \* bound: processes killed
  MaxRefused,   \* bound: semaphore operations refused
  Hawks         \* the versions considered

(* A version that asks for SEM_UNDO has a collector that takes the mutex.  *)
ASSUME LogAssumption ==
  /\ MAX_LOGS \in Nat \ {0} /\ MSG_CAP \in Nat \ {0} /\ Len(Log) \in Nat
  /\ SEMVMX \in Nat /\ MAX_LOGS <= SEMVMX
  /\ \A h \in Hawks : /\ h.main.processor_cnt \in Nat
                      /\ h.sem.SEM_UNDO => h.collector.locks
                      /\ h.outputer.burst \in Nat /\ h.outputer.cps \in Nat
                      /\ h.outputer.token \in 0 .. h.outputer.burst

VARIABLES
  hawk,                           \* the version that runs
  blocks, write_pos, read_pos,    \* struct shm_buffer
  sems, semadj,                   \* the semaphores; what exit undoes per process
  at,                             \* where the collector (0) and each processor is
  line, raw_log,                  \* the collector's line; each processor's
  msgs,                           \* the message queue
  opc, msg, reg,                  \* the outputer, its message and a register
  token, elapsed,                 \* its bucket; seconds since the last refill
  files,                          \* the output files
  garbled,                        \* something that was never received is written
  killed,                         \* processes killed so far
  refused                         \* semaphore operations refused so far

ringState == <<blocks, write_pos, read_pos>>
outState == <<opc, msg, reg, token, elapsed, files, garbled>>
logVars == <<hawk, ringState, sems, semadj, at, line, raw_log, msgs, outState, killed, refused>>
-----------------------------------------------------------------------------
(* The parts in which the versions differ, file by file. *)
LogHawk_main == [processor_cnt |-> 2]
LogHawk_2_main == [processor_cnt |-> 2]
AI_LogHawk_main == [processor_cnt |-> 3]

LogHawk_sem == [SEM_UNDO |-> TRUE]
LogHawk_2_sem == [SEM_UNDO |-> TRUE]
AI_LogHawk_sem == [SEM_UNDO |-> FALSE]

(* The collector of AI_LogHawk reads a file to its end, blank lines        *)
(* included, and takes no mutex.                                           *)
LogHawk_collector == [follows |-> TRUE, locks |-> TRUE]
LogHawk_2_collector == [follows |-> TRUE, locks |-> TRUE]
AI_LogHawk_collector == [follows |-> FALSE, locks |-> FALSE]

LogHawk_processor == [classifies |-> TRUE]
LogHawk_2_processor == [classifies |-> FALSE]
AI_LogHawk_processor == [classifies |-> FALSE]

(* The outputer of AI_LogHawk looks for the queue under "." when daemon()  *)
(* has already made that the root directory: msgget finds no queue, and no *)
(* result of msgrcv is looked at.  LogHawk_2 falls back to a second file.  *)
LogHawk_outputer ==
  [finds |-> TRUE, may_exit |-> TRUE, clock |-> "SIGALRM", token |-> 0, cps |-> 10, burst |-> 50]
LogHawk_2_outputer ==
  [finds |-> TRUE, may_exit |-> FALSE, clock |-> "SIGALRM", token |-> 0, cps |-> 10, burst |-> 50]
AI_LogHawk_outputer ==
  [finds |-> FALSE, may_exit |-> TRUE, clock |-> "time", token |-> 5, cps |-> 2, burst |-> 5]

LogHawk == [main |-> LogHawk_main, sem |-> LogHawk_sem, collector |-> LogHawk_collector,
            processor |-> LogHawk_processor, outputer |-> LogHawk_outputer]
LogHawk_2 == [main |-> LogHawk_2_main, sem |-> LogHawk_2_sem, collector |-> LogHawk_2_collector,
              processor |-> LogHawk_2_processor, outputer |-> LogHawk_2_outputer]
AI_LogHawk == [main |-> AI_LogHawk_main, sem |-> AI_LogHawk_sem, collector |-> AI_LogHawk_collector,
               processor |-> AI_LogHawk_processor, outputer |-> AI_LogHawk_outputer]
-----------------------------------------------------------------------------
Collector == 0
Processors == 1 .. hawk.main.processor_cnt
NoMsg == [mtype |-> "info", mtext |-> 0]
Semaphores == {"mutex", "space", "data"}

(* main: the shared memory, the semaphores and the queue before any fork.  *)
LogInit ==
  /\ hawk \in Hawks
  /\ blocks = [i \in 0 .. MAX_LOGS - 1 |-> 0] /\ write_pos = 0 /\ read_pos = 0
  /\ sems = [s \in Semaphores |-> IF s = "mutex" THEN 1 ELSE IF s = "space" THEN MAX_LOGS ELSE 0]
  /\ at = [p \in {Collector} \cup Processors |-> IF p = Collector THEN "fopen" ELSE "P data"]
  /\ semadj = [p \in DOMAIN at |-> [s \in Semaphores |-> 0]]
  /\ line = 0 /\ raw_log = [p \in Processors |-> 0]
  /\ msgs = <<>>
  /\ opc = "fopen" /\ msg = NoMsg /\ reg = 0
  /\ token = hawk.outputer.token /\ elapsed = 0
  /\ files = [f \in {"info", "warn", "error", "kernel"} |-> <<>>]
  /\ garbled = FALSE /\ killed = {} /\ refused = 0

(* semop waits for the semaphore.  Then it fails with ERANGE, or does op.  *)
Refused(p, s, op) ==
  \/ sems[s] + op > SEMVMX
  \/ hawk.sem.SEM_UNDO /\ (semadj[p][s] - op < -SEMVMX - 1 \/ semadj[p][s] - op > SEMVMX)
Semop(p, s, op) ==
  /\ sems[s] + op >= 0
  /\ IF Refused(p, s, op)
     THEN /\ refused < MaxRefused /\ refused' = refused + 1
          /\ UNCHANGED <<sems, semadj>>
     ELSE /\ sems' = [sems EXCEPT ![s] = @ + op]
          /\ semadj' = IF hawk.sem.SEM_UNDO THEN [semadj EXCEPT ![p][s] = @ - op] ELSE semadj
          /\ UNCHANGED refused
Goes(p, from, to) == at[p] = from /\ at' = [at EXCEPT ![p] = to]

(* One semaphore operation of one process. *)
SemStep(p, from, s, op, to) ==
  /\ Goes(p, from, to) /\ Semop(p, s, op)
  /\ UNCHANGED <<hawk, ringState, line, raw_log, msgs, outState, killed>>
-----------------------------------------------------------------------------
OpenLog ==
  /\ Goes(Collector, "fopen", "fgets") \/ Goes(Collector, "fopen", "ended")
  /\ UNCHANGED <<hawk, ringState, sems, semadj, line, raw_log, msgs, outState, killed, refused>>

(* fgets; a blank line is skipped by the collectors that follow the log. *)
ReadLine ==
  /\ line < Len(Log)
  /\ line' = line + 1
  /\ \E to \in {IF hawk.collector.follows /\ Log[line'] = {} THEN "fgets" ELSE "P space"} :
       Goes(Collector, "fgets", to)
  /\ UNCHANGED <<hawk, ringState, sems, semadj, raw_log, msgs, outState, killed, refused>>

EndOfLog ==
  /\ ~hawk.collector.follows /\ line = Len(Log)
  /\ Goes(Collector, "fgets", "ended")
  /\ UNCHANGED <<hawk, ringState, sems, semadj, line, raw_log, msgs, outState, killed, refused>>

WriteBlock ==
  /\ Goes(Collector, "write", IF hawk.collector.locks THEN "V mutex" ELSE "V data")
  /\ blocks' = [blocks EXCEPT ![write_pos] = line]
  /\ write_pos' = (write_pos + 1) % MAX_LOGS
  /\ UNCHANGED <<hawk, read_pos, sems, semadj, line, raw_log, msgs, outState, killed, refused>>

ClaimSpaceFreely ==
  /\ Goes(Collector, "P space", IF hawk.collector.locks THEN "P mutex" ELSE "write")
  /\ UNCHANGED <<hawk, ringState, sems, semadj, line, raw_log, msgs, outState, killed, refused>>
ClaimSpace ==
  SemStep(Collector, "P space", "space", -1, IF hawk.collector.locks THEN "P mutex" ELSE "write")

collector ==
  \/ OpenLog \/ ReadLine \/ EndOfLog \/ WriteBlock
  \/ ClaimSpace
  \/ SemStep(Collector, "P mutex", "mutex", -1, "write")
  \/ SemStep(Collector, "V mutex", "mutex", 1, "V data")
  \/ SemStep(Collector, "V data", "data", 1, "fgets")
-----------------------------------------------------------------------------
ReadBlock(p) ==
  /\ Goes(p, "read", "V mutex")
  /\ raw_log' = [raw_log EXCEPT ![p] = blocks[read_pos]]
  /\ read_pos' = (read_pos + 1) % MAX_LOGS
  /\ UNCHANGED <<hawk, blocks, write_pos, sems, semadj, line, msgs, outState, killed, refused>>

(* The keyword routing of LogHawk; the others send everything as type 1.   *)
Classified(n) ==
  LET words == IF n = 0 THEN {} ELSE Log[n] IN
  CASE ~hawk.processor.classifies -> "info"
    [] OTHER -> IF "error" \in words THEN "error"
                ELSE IF "warn" \in words THEN "warn"
                ELSE IF "kernel" \in words THEN "kernel" ELSE "info"

(* msgsnd waits for room. *)
SendMsg(p) ==
  /\ Len(msgs) < MSG_CAP
  /\ Goes(p, "msgsnd", "P data")
  /\ msgs' = Append(msgs, [mtype |-> Classified(raw_log[p]), mtext |-> raw_log[p]])
  /\ UNCHANGED <<hawk, ringState, sems, semadj, line, raw_log, outState, killed, refused>>

processor(p) ==
  \/ SemStep(p, "P data", "data", -1, "P mutex")
  \/ SemStep(p, "P mutex", "mutex", -1, "read")
  \/ ReadBlock(p)
  \/ SemStep(p, "V mutex", "mutex", 1, "V space")
  \/ SemStep(p, "V space", "space", 1, "msgsnd")
  \/ SendMsg(p)

(* SIGKILL: what the process did with SEM_UNDO is undone, within range.    *)
Kill(p) ==
  /\ Cardinality(killed) < MaxKills
  /\ at[p] \notin {"fopen", "ended", "killed"}
  /\ at' = [at EXCEPT ![p] = "killed"]
  /\ sems' = [s \in Semaphores |-> Min({SEMVMX, Max({0, sems[s] + semadj[p][s]})})]
  /\ semadj' = [semadj EXCEPT ![p] = [s \in Semaphores |-> 0]]
  /\ killed' = killed \cup {p}
  /\ UNCHANGED <<hawk, ringState, line, raw_log, msgs, outState, refused>>
-----------------------------------------------------------------------------
shared == <<hawk, ringState, sems, semadj, at, line, raw_log, killed, refused>>

OpenFiles ==
  /\ opc = "fopen"
  /\ opc' \in {"msgrcv"} \cup (IF hawk.outputer.may_exit THEN {"gone"} ELSE {})
  /\ UNCHANGED <<shared, msgs, msg, reg, token, elapsed, files, garbled>>

(* msgrcv, or, without a queue, its failure that nobody notices. *)
Receive ==
  /\ opc = "msgrcv"
  /\ IF hawk.outputer.finds
     THEN msgs # <<>> /\ msg' = Head(msgs) /\ msgs' = Tail(msgs)
     ELSE msg' = NoMsg /\ UNCHANGED msgs
  /\ opc' = "take"
  /\ UNCHANGED <<shared, reg, token, elapsed, files, garbled>>

(* token-- is a load and a store: SIGALRM may come between the two.  The   *)
(* bucket that looks at time() is refilled here.                           *)
Refilled == Min({token + hawk.outputer.cps * elapsed, hawk.outputer.burst})
LoadToken ==
  /\ opc = "take" /\ Refilled > 0
  /\ reg' = Refilled - 1 /\ elapsed' = 0
  /\ opc' = "store"
  /\ UNCHANGED <<shared, msgs, msg, token, files, garbled>>
StoreToken ==
  /\ opc = "store"
  /\ token' = reg
  /\ opc' = "write"
  /\ UNCHANGED <<shared, msgs, msg, reg, elapsed, files, garbled>>

WriteMsg ==
  /\ opc = "write"
  /\ IF hawk.outputer.finds
     THEN files' = [files EXCEPT ![msg.mtype] = Append(@, msg.mtext)] /\ UNCHANGED garbled
     ELSE garbled' = TRUE /\ UNCHANGED files
  /\ opc' = "msgrcv"
  /\ UNCHANGED <<shared, msgs, msg, reg, token, elapsed>>

outputer == OpenFiles \/ Receive \/ LoadToken \/ StoreToken \/ WriteMsg

SigalrmTopsUp ==
  /\ opc \notin {"fopen", "gone"} /\ hawk.outputer.clock = "SIGALRM" /\ token > 0
  /\ token' = Min({token + hawk.outputer.cps, hawk.outputer.burst})
  /\ UNCHANGED <<shared, msgs, opc, msg, reg, elapsed, files, garbled>>
sigalrm_handler ==
  /\ opc \notin {"fopen", "gone"} /\ hawk.outputer.clock = "SIGALRM"
  /\ token < hawk.outputer.burst
  /\ token' = Min({token + hawk.outputer.cps, hawk.outputer.burst})
  /\ UNCHANGED <<shared, msgs, opc, msg, reg, elapsed, files, garbled>>

(* A second passes for the bucket that looks at time(). *)
Second ==
  /\ opc = "take" /\ hawk.outputer.clock = "time"
  /\ elapsed < hawk.outputer.burst
  /\ elapsed' = elapsed + 1
  /\ UNCHANGED <<shared, msgs, opc, msg, reg, token, files, garbled>>
-----------------------------------------------------------------------------
LogNext ==
  \/ collector
  \/ \E p \in Processors : processor(p)
  \/ \E p \in DOMAIN at : Kill(p)
  \/ outputer \/ sigalrm_handler \/ Second

LogSpec == LogInit /\ [][LogNext]_logVars

LogTypeOK ==
  /\ write_pos \in DOMAIN blocks /\ read_pos \in DOMAIN blocks
  /\ \A s \in Semaphores : sems[s] \in Nat
  /\ token \in 0 .. hawk.outputer.burst
-----------------------------------------------------------------------------
InStep(p, labels) == at[p] \in labels
Count(labels) == Cardinality({p \in Processors : InStep(p, labels)})

(* Blocks written and not yet read, by what semaphores and processes say.  *)
Unread ==
  sems["data"] + Count({"P mutex", "read"}) + (IF InStep(Collector, {"V mutex", "V data"}) THEN 1 ELSE 0)

Places(n) ==
  (IF line = n /\ InStep(Collector, {"P space", "P mutex", "write"}) THEN 1 ELSE 0)
  + Cardinality({i \in 0 .. Unread - 1 : blocks[(read_pos + i) % MAX_LOGS] = n})
  + Cardinality({p \in Processors : raw_log[p] = n /\ InStep(p, {"V mutex", "V space", "msgsnd"})})
  + Cardinality({i \in DOMAIN msgs : msgs[i].mtext = n})
  + (IF opc \in {"take", "store", "write"} /\ msg.mtext = n THEN 1 ELSE 0)
  + Cardinality({fi \in UNION {{f} \X DOMAIN files[f] : f \in DOMAIN files} : files[fi[1]][fi[2]] = n})

Collected == {n \in 1 .. line : ~(hawk.collector.follows /\ Log[n] = {})}

Holders ==
  {p \in DOMAIN at : InStep(p, IF p = Collector THEN {"write", "V mutex"} ELSE {"read", "V mutex"})}

(* With SEM_UNDO the mutex is never lost: when it is taken, a living       *)
(* process is between its P and its V, wherever others were killed.        *)
MutexHasHolder == hawk.sem.SEM_UNDO => sems["mutex"] + Cardinality(Holders) = 1

(* With SEM_UNDO the collector's P of space is refused from here on.       *)
Overdrawn == hawk.sem.SEM_UNDO /\ Cardinality(Collected) > SEMVMX

(* While no process has been killed, and for the first SEMVMX lines where  *)
(* SEM_UNDO is used, every line collected is in exactly one place: on its  *)
(* way, in the ring between the read and the write position as the         *)
(* semaphores count it, or in a file.  Nothing is lost when the ring       *)
(* wraps, and no two processors take the same line.  And MutexHasHolder,   *)
(* killed, refused or not.                                                 *)
LinesAreConserved ==
  /\ killed = {} /\ ~Overdrawn =>
       /\ \A n \in Collected : Places(n) = 1
       /\ write_pos = (read_pos + Unread) % MAX_LOGS
  /\ MutexHasHolder /\ LogTypeOK

Written == UNION {{files[f][i] : i \in DOMAIN files[f]} : f \in DOMAIN files}

(* The pipeline never stalls: again and again all that was collected has   *)
(* been written, unless a process was killed, semop has been refused or    *)
(* the outputer could not open its files or find its queue.                *)
LogsComeOut ==
  []<>(hawk.outputer.finds => killed # {} \/ Overdrawn \/ opc = "gone" \/ Collected \subseteq Written)

(* AI_LogHawk/outputer.c says of msgrcv that it takes data from the queue  *)
(* and blocks when there is none: nothing is written that was not sent.    *)
WritesWhatWasSent == ~garbled
=============================================================================
