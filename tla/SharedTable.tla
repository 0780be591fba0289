---------------------------- MODULE SharedTable -----------------------------
(***************************************************************************)
(* The table of latest sensor values in System V shared memory and the     *)
(* semaphore that guards it (ipc_modules.c).  Writers are pool workers,    *)
(* threads of the gateway process; readers are the child processes of the  *)
(* process pool.  Every semop carries SEM_UNDO: the kernel keeps one       *)
(* adjustment per process and applies it when the process dies.  A semop   *)
(* that sleeps is ended by any handler and never restarted; its result is  *)
(* ignored.                                                                *)
(*                                                                         *)
(* A reported value is the number of its report.                           *)
(***************************************************************************)
EXTENDS Integers, FiniteSets

CONSTANTS
  Writers,      \* pool workers calling update_shared_sensor_data
  Readers,      \* child processes calling read_shared_sensor_data
  Gateway,      \* the gateway process, which all writers belong to
  Ids,          \* sensor ids that are reported; 0 may be one of them
  MaxSensors,   \* MAX_SENSORS
  MaxCalls,     \* bound: calls in a behaviour
  MaxInterrupts \* bound: waits ended by a handler in a behaviour

ASSUME TableAssumption ==
  /\ Gateway \notin Readers /\ Writers \cap Readers = {}
  /\ Ids \subseteq Nat /\ MaxSensors \in Nat \ {0} /\ MaxCalls \in Nat /\ MaxInterrupts \in Nat

VARIABLES
  sem,       \* the value of the semaphore
  undo,      \* the SEM_UNDO adjustment of each process
  table,     \* shared_mem
  tpc,        \* where each client is
  id,        \* sensor_id, the argument of each client's call
  idx,       \* write_idx; NoSlot is the code's -1
  result,    \* what a reader's call is about to return
  calls,     \* calls so far; the number of an update is its data
  data,      \* data, the argument of each writer's call
  stored,    \* history: the last value written completely for each id
  interrupted \* history: how many waits for the semaphore a handler ended

tableVars == <<sem, undo, table, tpc, id, idx, result, calls, data, stored, interrupted>>

TableClients == Writers \cup Readers
TableProcs == Readers \cup {Gateway}
ProcessOf(c) == IF c \in Writers THEN Gateway ELSE c
TableSlots == 1 .. MaxSensors
NoSlot == 0
Invalid == -999
Alive(c) == tpc[c] # "dead"

(* init_system_v_ipc: the memory is cleared and the semaphore set to 1. *)
TableInit ==
  /\ sem = 1 /\ undo = [p \in TableProcs |-> 0]
  /\ table = [i \in TableSlots |-> [sensor_id |-> 0, latest_data |-> 0]]
  /\ tpc = [c \in TableClients |-> "idle"]
  /\ id = [c \in TableClients |-> 0] /\ data = [w \in Writers |-> 0]
  /\ idx = [w \in Writers |-> NoSlot] /\ result = [r \in Readers |-> Invalid]
  /\ calls = 0 /\ stored = [s \in Ids |-> Invalid] /\ interrupted = 0

TableGoto(c, label) == tpc' = [tpc EXCEPT ![c] = label]

(* The first slot whose id is s, or NoSlot. *)
First(s) ==
  IF \E i \in TableSlots : table[i].sensor_id = s
    THEN CHOOSE i \in TableSlots : /\ table[i].sensor_id = s
                              /\ \A j \in TableSlots : table[j].sensor_id = s => i <= j
    ELSE NoSlot
-----------------------------------------------------------------------------
(* sem_lock and sem_unlock, the first and the last step of both calls. *)
LockWithoutUndo(c) ==
  /\ tpc[c] = "lock"
  /\ sem > 0
  /\ sem' = sem - 1
  /\ TableGoto(c, "scan")
  /\ UNCHANGED <<undo, table, id, idx, result, calls, data, stored, interrupted>>
SemTaken(c) ==
  /\ tpc[c] = "lock"
  /\ sem > 0
  /\ sem' = sem - 1
  /\ undo' = [undo EXCEPT ![ProcessOf(c)] = @ + 1]
  /\ TableGoto(c, "scan")
  /\ UNCHANGED <<table, id, idx, result, calls, data, stored, interrupted>>
(* EINTR: the client goes on without the token, and without an adjustment. *)
SemInterrupted(c) ==
  /\ tpc[c] = "lock"
  /\ sem = 0
  /\ interrupted < MaxInterrupts
  /\ interrupted' = interrupted + 1
  /\ TableGoto(c, "scan")
  /\ UNCHANGED <<sem, undo, table, id, idx, result, calls, data, stored>>
sem_lock(c) == SemTaken(c) \/ SemInterrupted(c)

sem_unlock(c) ==
  /\ tpc[c] = "unlock"
  /\ sem' = sem + 1
  /\ undo' = [undo EXCEPT ![ProcessOf(c)] = @ - 1]
  /\ TableGoto(c, "idle")
  /\ UNCHANGED <<table, id, idx, result, calls, data, stored, interrupted>>

Call(c) ==
  /\ tpc[c] = "idle"
  /\ calls < MaxCalls
  /\ calls' = calls + 1
  /\ \E s \in Ids : id' = [id EXCEPT ![c] = s]
  /\ data' = IF c \in Writers THEN [data EXCEPT ![c] = calls + 1] ELSE data
  /\ TableGoto(c, "lock")
  /\ UNCHANGED <<sem, undo, table, idx, result, stored, interrupted>>

(* update_shared_sensor_data: the slot of this id, else the first empty.   *)
(* A full table skips the write.                                           *)
PreferEmpty(w) ==
  /\ tpc[w] = "scan"
  /\ idx' = [idx EXCEPT ![w] = IF First(0) # NoSlot THEN First(0) ELSE First(id[w])]
  /\ TableGoto(w, IF idx'[w] = NoSlot THEN "unlock" ELSE "id")
  /\ UNCHANGED <<sem, undo, table, id, result, calls, data, stored, interrupted>>
ChooseSlot(w) ==
  /\ tpc[w] = "scan"
  /\ idx' = [idx EXCEPT ![w] = IF First(id[w]) # NoSlot THEN First(id[w]) ELSE First(0)]
  /\ TableGoto(w, IF idx'[w] = NoSlot THEN "unlock" ELSE "id")
  /\ UNCHANGED <<sem, undo, table, id, result, calls, data, stored, interrupted>>

WriteId(w) ==
  /\ tpc[w] = "id"
  /\ table' = [table EXCEPT ![idx[w]].sensor_id = id[w]]
  /\ TableGoto(w, "data")
  /\ UNCHANGED <<sem, undo, id, idx, result, calls, data, stored, interrupted>>

WriteData(w) ==
  /\ tpc[w] = "data"
  /\ table' = [table EXCEPT ![idx[w]].latest_data = data[w]]
  /\ stored' = [stored EXCEPT ![id[w]] = data[w]]
  /\ TableGoto(w, "unlock")
  /\ UNCHANGED <<sem, undo, id, idx, result, calls, data, interrupted>>

(* read_shared_sensor_data *)
Lookup(r) ==
  /\ tpc[r] = "scan"
  /\ result' = [result EXCEPT ![r] =
                  IF First(id[r]) = NoSlot THEN Invalid ELSE table[First(id[r])].latest_data]
  /\ TableGoto(r, "unlock")
  /\ UNCHANGED <<sem, undo, table, id, idx, calls, data, stored, interrupted>>
-----------------------------------------------------------------------------
(* The kernel applies the adjustment of a process that ends; the value of  *)
(* a semaphore stops at zero.                                              *)
Adjusted(p) == IF sem + undo[p] < 0 THEN 0 ELSE sem + undo[p]

(* process_pool_destroy sends SIGKILL to a child, wherever it is. *)
KillReader(r) ==
  /\ Alive(r)
  /\ TableGoto(r, "dead")
  /\ sem' = Adjusted(r)
  /\ undo' = [undo EXCEPT ![r] = 0]
  /\ UNCHANGED <<table, id, idx, result, calls, data, stored, interrupted>>

(* The handler of SIGTERM calls exit(0): every thread ends where it is. *)
GatewayExits ==
  /\ \A w \in Writers : Alive(w)
  /\ tpc' = [c \in TableClients |-> IF c \in Writers THEN "dead" ELSE tpc[c]]
  /\ sem' = Adjusted(Gateway)
  /\ undo' = [undo EXCEPT ![Gateway] = 0]
  /\ UNCHANGED <<table, id, idx, result, calls, data, stored, interrupted>>

TableStep(c) ==
  \/ c \in Writers /\ (ChooseSlot(c) \/ WriteId(c) \/ WriteData(c))
  \/ c \in Readers /\ Lookup(c)
  \/ sem_unlock(c)
TableDone == \A c \in TableClients : tpc[c] = "dead" \/ (tpc[c] = "idle" /\ calls = MaxCalls)

TableNext ==
  \/ \E c \in TableClients : Call(c) \/ sem_lock(c) \/ TableStep(c)
  \/ \E r \in Readers : KillReader(r)
  \/ GatewayExits
  \/ TableDone /\ UNCHANGED tableVars   \* no more calls

TableSpec == TableInit /\ [][TableNext]_tableVars
-----------------------------------------------------------------------------
TableTypeOK ==
  /\ sem \in Nat /\ undo \in [TableProcs -> Int]
  /\ table \in [TableSlots -> [sensor_id : Ids \cup {0}, latest_data : 0 .. MaxCalls]]
  /\ tpc \in [TableClients -> {"idle", "lock", "scan", "id", "data", "unlock", "dead"}]
  /\ id \in [TableClients -> Ids \cup {0}] /\ data \in [Writers -> 0 .. MaxCalls]
  /\ idx \in [Writers -> TableSlots \cup {NoSlot}]
  /\ result \in [Readers -> (0 .. MaxCalls) \cup {Invalid}]
  /\ calls \in 0 .. MaxCalls /\ stored \in [Ids -> (1 .. MaxCalls) \cup {Invalid}]
  /\ interrupted \in 0 .. MaxInterrupts

Inside == {c \in TableClients : tpc[c] \in {"scan", "id", "data", "unlock"}}

(* There is one token, in the semaphore or with the client inside, whose   *)
(* process gives it back if it dies there, and one more at most for each   *)
(* wait that a handler ended; every variable keeps its type.               *)
MutualExclusion ==
  /\ TableTypeOK
  /\ sem + Cardinality(Inside) <= 1 + interrupted
  /\ interrupted = 0 => sem + Cardinality(Inside) = 1

OneSlotPerSensor ==
  /\ \A i, j \in TableSlots : table[i].sensor_id = table[j].sensor_id /\ i # j => table[i].sensor_id = 0
  /\ \A i, j \in TableSlots : i < j /\ table[i].sensor_id = 0 => table[j].sensor_id = 0

(* Until a handler ends a wait for the semaphore, and while the gateway    *)
(* lives, a read returns the value of the last update of that sensor that  *)
(* found a slot, or -999.0 when there was none; a sensor has one slot, and *)
(* used slots precede free ones: two updates never race for the same free  *)
(* slot.  And MutualExclusion, on which it rests, with its bound on what   *)
(* the interrupted waits let in.                                           *)
ReadsLastStored ==
  /\ MutualExclusion
  /\ interrupted = 0 =>
       /\ OneSlotPerSensor
       /\ (\A w \in Writers : Alive(w)) =>
            \A r \in Readers : tpc[r] = "unlock" /\ id[r] # 0 => result[r] = stored[id[r]]

(* The comment at the semaphore (ipc_modules.c:67): it is used only as a   *)
(* mutex, so that one client at a time is inside.                          *)
OneAtATime == Cardinality(Inside) <= 1

(* Nobody waits for ever, although the holder may be killed. *)
CallsReturn == \A c \in TableClients : tpc[c] = "lock" ~> tpc[c] \in {"idle", "dead"}
=============================================================================
