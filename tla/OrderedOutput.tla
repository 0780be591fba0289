---------------------------- MODULE OrderedOutput ----------------------------
(***************************************************************************)
(* Programs in which several processes or threads write one output in      *)
(* order.  09mycat_sem: each child copies its part of a file and posts the *)
(* semaphore of the next.  10mycat_sem: parent and children share a file   *)
(* offset under a mutex.  09homework: threads print letters in turn, with  *)
(* a condition variable.  Creating a worker, open and read may fail, and a *)
(* process may be killed.  A file of Size blocks is 1 .. Size.             *)
(***************************************************************************)
EXTENDS Integers, Sequences, FiniteSets, FiniteSetsExt

CONSTANTS
  CHILD_COUNT,       \* children or threads
  Sizes,             \* sizes of the file
  BLOCKS,            \* blocks one read returns at most
  MaxLetters,        \* bound: letters printed
  OutputPrograms     \* the programs considered

ASSUME OutputAssumption ==
  /\ CHILD_COUNT \in Nat \ {0} /\ BLOCKS \in Nat \ {0} /\ Sizes \subseteq Nat
  /\ \A p \in OutputPrograms : p.order \in {"chain", "mutex", "turn"} /\ (p.threads => p.order = "turn")

VARIABLES
  oprog, total_size,   \* the program that runs; the size of its file
  forked,              \* children created; -1 when creating one failed
  scpc,                 \* where each writer is
  gate,                \* the semaphore of each child of 09mycat_sem
  inside,              \* the holder of the mutex, or -1
  offset,              \* what the file offset is for each writer
  buf,                 \* the blocks each writer has read and not written
  turn,                \* of 09homework
  shown,               \* the output
  broken               \* something failed or was killed

outputVars == <<oprog, total_size, forked, scpc, gate, inside, offset, buf, turn, shown, broken>>
-----------------------------------------------------------------------------
mycat_chain == [order |-> "chain", threads |-> FALSE]
mycat_mutex == [order |-> "mutex", threads |-> FALSE]
letters == [order |-> "turn", threads |-> TRUE]
-----------------------------------------------------------------------------
(* In 10mycat_sem the parent, number CHILD_COUNT, copies as well. *)
Scribes == 0 .. IF oprog.order = "mutex" THEN CHILD_COUNT ELSE CHILD_COUNT - 1
FirstStep == CASE oprog.order = "chain" -> "sem_wait" [] oprog.order = "mutex" -> "P" [] OTHER -> "lock"

chunk_size == total_size \div CHILD_COUNT
ChunkStart(c) == c * chunk_size
ChunkEndEven(c) == (c + 1) * chunk_size
ChunkEnd(c) == IF c = CHILD_COUNT - 1 THEN total_size ELSE (c + 1) * chunk_size

OutputInit ==
  /\ oprog \in OutputPrograms /\ total_size \in Sizes
  /\ forked = 0 /\ scpc = [c \in Scribes |-> "none"]
  /\ gate = [c \in Scribes |-> IF c = 0 THEN 1 ELSE 0]
  /\ inside = -1
  /\ offset = [c \in Scribes |-> IF oprog.order = "chain" THEN ChunkStart(c) ELSE 0]
  /\ buf = [c \in Scribes |-> <<>>] /\ turn = 0 /\ shown = <<>> /\ broken = FALSE

ScribeGoes(c, from, to) == scpc[c] = from /\ scpc' = [scpc EXCEPT ![c] = to]
fixed == <<oprog, total_size>>

(* fork or pthread_create, in order; the parent of 10mycat_sem then copies.*)
Fork ==
  /\ forked \in Scribes
  /\ forked' = forked + 1
  /\ scpc' = [scpc EXCEPT ![forked] = FirstStep]
  /\ UNCHANGED <<fixed, gate, inside, offset, buf, turn, shown, broken>>
ForkFails ==
  /\ forked \in 0 .. CHILD_COUNT - 1
  /\ forked' = -1 /\ broken' = TRUE
  /\ scpc' = IF oprog.threads THEN [c \in Scribes |-> "ended"] ELSE scpc
  /\ UNCHANGED <<fixed, gate, inside, offset, buf, turn, shown>>
-----------------------------------------------------------------------------
SemWaitChild(c) ==
  /\ ScribeGoes(c, "sem_wait", "open") /\ gate[c] > 0
  /\ gate' = [gate EXCEPT ![c] = @ - 1]
  /\ UNCHANGED <<fixed, forked, inside, offset, buf, turn, shown, broken>>
OpenPart(c) ==
  /\ \/ ScribeGoes(c, "open", IF offset[c] < ChunkEnd(c) THEN "read" ELSE "post") /\ UNCHANGED broken
     \/ offset[c] < ChunkEnd(c) /\ ScribeGoes(c, "open", "post") /\ broken' = TRUE
  /\ UNCHANGED <<fixed, forked, gate, inside, offset, buf, turn, shown>>

(* read fills at most BLOCKS; P and V surround it in 10mycat_sem, where    *)
(* the offset is that of the one open file.                                *)
P(c) ==
  /\ ScribeGoes(c, "P", "read") /\ inside = -1
  /\ inside' = c
  /\ UNCHANGED <<fixed, forked, gate, offset, buf, turn, shown, broken>>
EndOfPart(c) == IF oprog.order = "chain" THEN ChunkEnd(c) ELSE total_size
Read(c) ==
  /\ offset[c] < EndOfPart(c)
  /\ ScribeGoes(c, "read", "write")
  /\ \E n \in 1 .. Min({BLOCKS, EndOfPart(c) - offset[c]}) :
       /\ buf' = [buf EXCEPT ![c] = [k \in 1 .. n |-> offset[c] + k]]
       /\ offset' = [d \in Scribes |-> IF d = c \/ oprog.order = "mutex" THEN offset[c] + n ELSE offset[d]]
  /\ UNCHANGED <<fixed, forked, gate, inside, turn, shown, broken>>
ReadEnds(c) ==
  /\ offset[c] = EndOfPart(c)
  /\ ScribeGoes(c, "read", IF oprog.order = "chain" THEN "post" ELSE "last V")
  /\ UNCHANGED <<fixed, forked, gate, inside, offset, buf, turn, shown, broken>>
ReadFails(c) ==
  /\ ScribeGoes(c, "read", IF oprog.order = "chain" THEN "post" ELSE "last V")
  /\ broken' = TRUE
  /\ UNCHANGED <<fixed, forked, gate, inside, offset, buf, turn, shown>>
Write(c) ==
  /\ ScribeGoes(c, "write", IF oprog.order = "chain" THEN "read" ELSE "V")
  /\ shown' = shown \o buf[c] /\ buf' = [buf EXCEPT ![c] = <<>>]
  /\ UNCHANGED <<fixed, forked, gate, inside, offset, turn, broken>>
PostNext(c) ==
  /\ ScribeGoes(c, "post", "ended")
  /\ gate' = IF c < CHILD_COUNT - 1 THEN [gate EXCEPT ![c + 1] = @ + 1] ELSE gate
  /\ UNCHANGED <<fixed, forked, inside, offset, buf, turn, shown, broken>>
V(c) ==
  /\ ScribeGoes(c, "V", "P") \/ ScribeGoes(c, "last V", "ended")
  /\ inside' = -1
  /\ UNCHANGED <<fixed, forked, gate, offset, buf, turn, shown, broken>>

(* SIGKILL; SEM_UNDO gives the mutex of 10mycat_sem back. *)
KillScribe(c) ==
  /\ ~oprog.threads /\ ~broken /\ c < CHILD_COUNT /\ scpc[c] \notin {"none", "ended"}
  /\ scpc' = [scpc EXCEPT ![c] = "ended"] /\ broken' = TRUE
  /\ inside' = IF inside = c THEN -1 ELSE inside
  /\ UNCHANGED <<fixed, forked, gate, offset, buf, turn, shown>>
-----------------------------------------------------------------------------
(* thr_job of 09homework: all of a turn is under the mutex, so that it is  *)
(* one step: wait, or print, pass on the turn and wake everybody.          *)
Turn(c) ==
  /\ scpc[c] = "lock"
  /\ IF turn # c THEN ScribeGoes(c, "lock", "cond_wait") /\ UNCHANGED <<turn, shown>>
     ELSE /\ Len(shown) < MaxLetters
          /\ shown' = Append(shown, c)
          /\ turn' = (turn + 1) % CHILD_COUNT
          /\ scpc' = [d \in Scribes |-> IF scpc[d] = "cond_wait" THEN "lock" ELSE scpc[d]]
  /\ UNCHANGED <<fixed, forked, gate, inside, offset, buf, broken>>

(* SIGALRM after five seconds: exit. *)
alrm_handler ==
  /\ oprog.threads /\ scpc' = [c \in Scribes |-> "ended"] /\ scpc' # scpc
  /\ forked' = -1
  /\ UNCHANGED <<fixed, gate, inside, offset, buf, turn, shown, broken>>

OutputNext ==
  \/ Fork \/ ForkFails \/ alrm_handler
  \/ \E c \in Scribes :
       \/ SemWaitChild(c) \/ OpenPart(c) \/ P(c) \/ Read(c) \/ ReadEnds(c) \/ ReadFails(c)
       \/ Write(c) \/ PostNext(c) \/ V(c) \/ KillScribe(c) \/ Turn(c)

OutputSpec == OutputInit /\ [][OutputNext]_outputVars
-----------------------------------------------------------------------------
OutputTypeOK ==
  /\ oprog \in OutputPrograms /\ total_size \in Sizes /\ forked \in -1 .. CHILD_COUNT + 1
  /\ scpc \in [Scribes -> {"none", "sem_wait", "open", "P", "read", "write", "post", "V", "last V", "lock", "cond_wait", "ended"}]
  /\ gate \in [Scribes -> 0 .. 1] /\ inside \in Scribes \cup {-1} /\ turn \in 0 .. CHILD_COUNT - 1
  /\ offset \in [Scribes -> 0 .. total_size] /\ buf \in [Scribes -> Seq(1 .. total_size)]
  /\ shown \in Seq(0 .. total_size) \cup Seq(Scribes) /\ broken \in BOOLEAN

(* The output is in order whoever is scheduled, fails or is killed, and    *)
(* when all have ended and nothing failed it is the whole file, whatever   *)
(* its size.  The letters alternate, and the thread whose turn it is never *)
(* sleeps without being woken.                                             *)
OutputInOrder ==
  /\ OutputTypeOK
  /\ IF oprog.order = "turn"
     THEN /\ \A k \in DOMAIN shown : shown[k] = (k - 1) % CHILD_COUNT
          /\ scpc[turn] # "cond_wait"
     ELSE /\ \A j, k \in DOMAIN shown : j < k => shown[j] < shown[k]
          /\ ~broken /\ (\A c \in Scribes : scpc[c] = "ended") => shown = [k \in 1 .. total_size |-> k]
=============================================================================
