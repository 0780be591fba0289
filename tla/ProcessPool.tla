---------------------------- MODULE ProcessPool -----------------------------
(***************************************************************************)
(* The gateway's process pool (process_pool.c): children forked before the *)
(* parent opens the task FIFO, commands written to it as lines, and a read *)
(* loop in each child.  A FIFO is a stream of bytes: a write is atomic but *)
(* a read returns whatever is there, up to the size of the buffer.         *)
(*                                                                         *)
(* A command is its number, and CmdLen units of the stream; the last unit  *)
(* of a command carries its newline.                                       *)
(***************************************************************************)
EXTENDS Naturals, Sequences, FiniteSets

CONSTANTS
  Children,      \* the processes process_pool_init is asked to fork
  CmdLen,        \* units of a command with its newline (20 bytes)
  BufLen,        \* units a read asks for (255 bytes)
  PipeCap,       \* units the FIFO holds (64 kB)
  MaxSubmits     \* bound: calls of process_pool_submit_task

ASSUME ProcAssumption ==
  /\ IsFiniteSet(Children)
  /\ CmdLen \in Nat \ {0} /\ BufLen \in Nat \ {0} /\ PipeCap \in Nat /\ MaxSubmits \in Nat

VARIABLES
  parent,      \* where the gateway process is
  daemon,      \* started with -d: daemonize has set SIGCHLD to SIG_IGN
  fd,          \* TRUE while the parent has the FIFO open
  pipe,        \* the bytes in the FIFO
  cpc,         \* where each child is
  submits,     \* calls of process_pool_submit_task
  executed,    \* history: how often each command was recognised and run
  garbled      \* history: lines run that no submit wrote

procVars == <<parent, daemon, fd, pipe, cpc, submits, executed, garbled>>

Units(n) == [k \in 1 .. CmdLen |-> [cmd |-> n, part |-> k]]

(* mkfifo has succeeded; no child exists. *)
ProcInit ==
  /\ parent = "fork" /\ daemon \in BOOLEAN
  /\ fd = FALSE /\ pipe = << >>
  /\ cpc = [c \in Children |-> "none"]
  /\ submits = 0 /\ executed = [n \in 1 .. MaxSubmits |-> 0] /\ garbled = 0

(* A child that dies is reaped at once when SIGCHLD is ignored or its      *)
(* parent is gone; otherwise it stays a zombie: nobody calls wait.         *)
Corpse == IF daemon \/ parent = "gone" THEN "dead" ELSE "zombie"
ChildEnded(c) == cpc[c] \in {"none", "dead", "zombie"}
-----------------------------------------------------------------------------
(* process_pool_init *)
Fork(c) ==
  /\ parent = "fork" /\ cpc[c] = "none"
  /\ cpc' = [cpc EXCEPT ![c] = "open"]
  /\ UNCHANGED <<parent, daemon, fd, pipe, submits, executed, garbled>>

(* mkfifo, a fork or the open failed: -1, which main does not look at. *)
InitFails ==
  /\ parent = "fork"
  /\ parent' = "running"
  /\ UNCHANGED <<daemon, fd, pipe, cpc, submits, executed, garbled>>

OpenReadWrite ==
  /\ parent = "fork" /\ \A c \in Children : cpc[c] # "none"
  /\ fd' = TRUE
  /\ parent' = "running"
  /\ UNCHANGED <<daemon, pipe, cpc, submits, executed, garbled>>

Smaller(a, b) == IF a < b THEN a ELSE b

SubmitPartly == \* mutant: writes what fits
  /\ parent = "running" /\ submits < MaxSubmits
  /\ submits' = submits + 1
  /\ pipe' = IF fd THEN pipe \o SubSeq(Units(submits + 1), 1, Smaller(CmdLen, PipeCap - Len(pipe))) ELSE pipe
  /\ UNCHANGED <<parent, daemon, fd, cpc, executed, garbled>>
(* process_pool_submit_task: one write, which waits for room. *)
Submit ==
  /\ parent = "running" /\ submits < MaxSubmits
  /\ submits' = submits + 1
  /\ IF fd THEN /\ Len(pipe) + CmdLen <= PipeCap
                /\ pipe' = pipe \o Units(submits + 1)
           ELSE UNCHANGED pipe
  /\ UNCHANGED <<parent, daemon, fd, cpc, executed, garbled>>

(* process_pool_destroy: close, SIGKILL to every child, unlink. *)
Killed == [c \in Children |-> IF ChildEnded(c) THEN cpc[c] ELSE Corpse]
Destroy ==
  /\ parent = "running"
  /\ parent' = "destroyed"
  /\ fd' = FALSE
  /\ cpc' = Killed
  /\ UNCHANGED <<daemon, pipe, submits, executed, garbled>>

(* The end of main, or exit(0) in the signal handler. *)
ParentExit ==
  /\ parent \in {"running", "destroyed"}
  /\ parent' = "gone"
  /\ fd' = FALSE
  /\ cpc' = [c \in Children |-> IF cpc[c] = "zombie" THEN "dead" ELSE cpc[c]]
  /\ UNCHANGED <<daemon, pipe, submits, executed, garbled>>
-----------------------------------------------------------------------------
(* worker_process_logic: open(O_RDONLY) waits for a writer. *)
ChildOpen(c) ==
  /\ cpc[c] = "open" /\ fd
  /\ cpc' = [cpc EXCEPT ![c] = "read"]
  /\ UNCHANGED <<parent, daemon, fd, pipe, submits, executed, garbled>>

(* What the child makes of buf: the line up to the first newline.  The     *)
(* rest of the buffer is not looked at.                                    *)
FirstLineIsCommand(buf) ==
  /\ buf[1].part = 1
  /\ Len(buf) >= CmdLen - 1     \* the last unit is the newline alone

(* read returns n > 0 bytes: take them, run the first line. *)
ReadTakes(c, n) == pipe' = SubSeq(pipe, n + 1, Len(pipe))
ChildRead(c) ==
  LET n == Smaller(Len(pipe), BufLen)
      buf == SubSeq(pipe, 1, n)
  IN
  /\ cpc[c] = "read" /\ n > 0
  /\ ReadTakes(c, n)
  /\ IF FirstLineIsCommand(buf)
       THEN executed' = [executed EXCEPT ![buf[1].cmd] = @ + 1] /\ UNCHANGED garbled
       ELSE garbled' = garbled + 1 /\ UNCHANGED executed
  /\ UNCHANGED <<parent, daemon, fd, cpc, submits>>

(* read returns 0: every write end is closed. *)
EofNever(c) == FALSE
ChildEof(c) ==
  /\ cpc[c] = "read" /\ pipe = << >> /\ ~fd
  /\ cpc' = [cpc EXCEPT ![c] = Corpse]
  /\ UNCHANGED <<parent, daemon, fd, pipe, submits, executed, garbled>>
-----------------------------------------------------------------------------
Child(c) == ChildOpen(c) \/ ChildRead(c) \/ ChildEof(c)
ProcNext ==
  \/ \E c \in Children : Fork(c) \/ Child(c)
  \/ InitFails \/ OpenReadWrite \/ Submit \/ Destroy \/ ParentExit
  \/ parent = "gone" /\ UNCHANGED procVars

ProcSpec == ProcInit /\ [][ProcNext]_procVars
-----------------------------------------------------------------------------
ProcTypeOK ==
  /\ parent \in {"fork", "running", "destroyed", "gone"}
  /\ daemon \in BOOLEAN /\ fd \in BOOLEAN
  /\ pipe \in Seq([cmd : 1 .. MaxSubmits, part : 1 .. CmdLen]) /\ Len(pipe) <= PipeCap
  /\ cpc \in [Children -> {"none", "open", "read", "dead", "zombie"}]
  /\ submits \in 0 .. MaxSubmits
  /\ executed \in [1 .. MaxSubmits -> Nat] /\ garbled \in Nat

AtMostOnce ==
  /\ \A n \in DOMAIN executed : executed[n] <= 1
  /\ \A i \in 1 .. Len(pipe) : pipe[i].part = 1 => executed[pipe[i].cmd] = 0

(* The commands in the FIFO are whole, in order and adjacent, except that  *)
(* the first may have lost its beginning to an earlier read; the FIFO      *)
(* never holds more than it can.  Several children read it, but no command *)
(* is run twice, and none that is still in it has been run, not even in    *)
(* part; every variable has its type.                                      *)
StreamIsOrdered ==
  /\ AtMostOnce
  /\ ProcTypeOK
  /\ \A i \in 1 .. Len(pipe) - 1 :
       \/ pipe[i + 1] = [pipe[i] EXCEPT !.part = @ + 1]
       \/ pipe[i].part = CmdLen /\ pipe[i + 1].part = 1 /\ pipe[i].cmd < pipe[i + 1].cmd

(* When the gateway is gone, however it went, children that had opened the *)
(* FIFO end too and nothing of them stays.                                 *)
OrphansEnd == \A c \in Children : parent = "gone" /\ cpc[c] \in {"read", "zombie"} ~> cpc[c] = "dead"
=============================================================================
