----------------------------- MODULE DataQueue ------------------------------
(***************************************************************************)
(* The reading queue of the gateway: pool workers parse UDP packets and    *)
(* push readings (process_udp_data_task), one cloud thread takes them in   *)
(* batches and uploads them (cloud_client_thread).  The ring and its two   *)
(* indices are behind queue_mutex; the semaphore data_sem counts readings  *)
(* and is posted after the mutex has been released.                        *)
(*                                                                         *)
(* A reading is the number of its push.  A producer's critical section     *)
(* calls nothing, so it is one step; the consumer's one is not, because it *)
(* takes tokens from data_sem while producers post to it without the lock. *)
(* update_shared_sensor_data is one step here; module SharedTable opens it. *)
(***************************************************************************)
EXTENDS Naturals, FiniteSets, Sequences

CONSTANTS
  Producers,    \* pool workers running process_udp_data_task
  N,            \* MAX_QUEUE_SIZE; one slot always stays empty
  MaxBatch,     \* 50, the length of the consumer's array
  MaxPackets    \* bound: packets processed in a behaviour

ASSUME QueueAssumption ==
  /\ IsFiniteSet(Producers)
  /\ N \in Nat \ {0, 1} /\ MaxBatch \in Nat \ {0} /\ MaxPackets \in Nat

VARIABLES
  sem,                 \* data_sem
  held,                \* TRUE while the consumer holds queue_mutex
  queue, head, tail,   \* data_queue, queue_head, queue_tail
  pc,                  \* where each producer is
  sensor,              \* the sensor whose reading each producer handles
  cpc,                 \* where the consumer is
  batch,               \* the consumer's local array
  packets,             \* packets processed so far
  pushed, dequeued,    \* history: readings pushed, readings taken
  failed, uploaded     \* history: the newest reading whose connect failed, and
                       \* the newest one written to the cloud

ringVars == <<queue, head, tail>>
prodVars == <<pc, sensor, packets, pushed>>
consVars == <<held, cpc, batch, dequeued, failed, uploaded>>
vars == <<sem, ringVars, prodVars, consVars>>

Sensors == {"temp", "hum", "other"}   \* ids 16790, 16789, any other
Slots == 0 .. N - 1
Occupancy == pushed - dequeued
Last(s) == s[Len(s)]

(* Globals of main.c; sem_init(&data_sem, 0, 0). *)
Init ==
  /\ sem = 0 /\ held = FALSE
  /\ queue = [i \in Slots |-> 0] /\ head = 0 /\ tail = 0
  /\ pc = [p \in Producers |-> "idle"]
  /\ sensor = [p \in Producers |-> "other"]
  /\ cpc = "sem_wait" /\ batch = << >>
  /\ packets = 0 /\ pushed = 0 /\ dequeued = 0
  /\ failed = 0 /\ uploaded = 0

(* The step of both indices. *)
NextSlot(i) == (i + 1) % N

(* next_head == queue_tail: the last free slot is never used. *)
Full == NextSlot(head) = tail
-----------------------------------------------------------------------------
(* process_udp_data_task: parse.  A combined packet yields a temperature   *)
(* and then a humidity; anything that does not parse is dropped.           *)
Parse(p) ==
  /\ pc[p] = "idle"
  /\ packets < MaxPackets
  /\ packets' = packets + 1
  /\ \/ \E s \in {"temp", "other"} :
          /\ sensor' = [sensor EXCEPT ![p] = s]
          /\ pc' = [pc EXCEPT ![p] = "push"]
     \/ UNCHANGED <<sensor, pc>>
  /\ UNCHANGED <<sem, ringVars, pushed, consVars>>

(* The next reading of the same packet, or the end of the task. *)
Continue(p) ==
  IF sensor[p] = "temp"
    THEN /\ sensor' = [sensor EXCEPT ![p] = "hum"]
         /\ pc' = [pc EXCEPT ![p] = "push"]
    ELSE /\ pc' = [pc EXCEPT ![p] = "idle"]
         /\ UNCHANGED sensor

Push(p) ==
  /\ pc[p] = "push" /\ ~held
  /\ ~Full
  /\ queue' = [queue EXCEPT ![head] = pushed + 1]
  /\ head' = NextSlot(head)
  /\ pushed' = pushed + 1
  /\ pc' = [pc EXCEPT ![p] = "post"]
  /\ UNCHANGED <<sem, tail, sensor, packets, consVars>>

(* The queue is full: the reading is dropped, the table is not updated. *)
Drop(p) ==
  /\ pc[p] = "push" /\ ~held
  /\ Full
  /\ Continue(p)
  /\ UNCHANGED <<sem, ringVars, packets, pushed, consVars>>

PostIfZero(p) ==
  /\ pc[p] = "post"
  /\ sem' = IF sem = 0 THEN 1 ELSE sem
  /\ pc' = [pc EXCEPT ![p] = "update"]
  /\ UNCHANGED <<ringVars, sensor, packets, pushed, consVars>>
(* sem_post(&data_sem), after the unlock. *)
Post(p) ==
  /\ pc[p] = "post"
  /\ sem' = sem + 1
  /\ pc' = [pc EXCEPT ![p] = "update"]
  /\ UNCHANGED <<ringVars, sensor, packets, pushed, consVars>>

(* update_shared_sensor_data *)
Update(p) ==
  /\ pc[p] = "update"
  /\ Continue(p)
  /\ UNCHANGED <<sem, ringVars, packets, pushed, consVars>>
-----------------------------------------------------------------------------
SemWaitKeepsBatch ==
  /\ cpc = "sem_wait"
  /\ sem > 0
  /\ sem' = sem - 1
  /\ cpc' = "lock"
  /\ UNCHANGED <<ringVars, prodVars, held, batch, dequeued, failed, uploaded>>
(* cloud_client_thread *)
SemWait ==
  /\ cpc = "sem_wait"
  /\ sem > 0
  /\ sem' = sem - 1
  /\ cpc' = "lock"
  /\ batch' = << >>
  /\ UNCHANGED <<ringVars, prodVars, held, dequeued, failed, uploaded>>

Lock ==
  /\ cpc = "lock"
  /\ held' = TRUE
  /\ cpc' = "first"
  /\ UNCHANGED <<sem, ringVars, prodVars, batch, dequeued, failed, uploaded>>

(* batch[count++] = data_queue[queue_tail], and the tail moves on. *)
Take ==
  /\ batch' = Append(batch, queue[tail])
  /\ tail' = NextSlot(tail)
  /\ dequeued' = dequeued + 1
  /\ UNCHANGED <<queue, head>>

TakeFirst ==
  /\ cpc = "first"
  /\ Take
  /\ cpc' = "more"
  /\ UNCHANGED <<sem, prodVars, held, failed, uploaded>>

TakeIfAnyUnclaimed ==
  /\ cpc = "more"
  /\ Len(batch) < MaxBatch /\ head # tail
  /\ Take
  /\ UNCHANGED <<sem, prodVars, held, cpc, failed, uploaded>>
(* count < 50 and sem_trywait succeeds. *)
TakeMore ==
  /\ cpc = "more"
  /\ Len(batch) < MaxBatch /\ sem > 0
  /\ sem' = sem - 1
  /\ Take
  /\ UNCHANGED <<prodVars, held, cpc, failed, uploaded>>

Unlock ==
  /\ cpc = "more"
  /\ Len(batch) = MaxBatch \/ sem = 0
  /\ held' = FALSE
  /\ cpc' = "send"
  /\ UNCHANGED <<sem, ringVars, prodVars, batch, dequeued, failed, uploaded>>

(* socket or connect failed: continue, after a pause.  The next round      *)
(* starts with a new batch array.                                          *)
ConnectFails ==
  /\ cpc = "send"
  /\ failed' = Last(batch)
  /\ cpc' = "sem_wait"
  /\ UNCHANGED <<sem, ringVars, prodVars, held, batch, dequeued, uploaded>>

(* Connected: the request is written, or the write fails; what the server  *)
(* answers is only logged.                                                 *)
Connected ==
  /\ cpc = "send"
  /\ uploaded' \in {uploaded, Last(batch)}
  /\ cpc' = "check"
  /\ UNCHANGED <<sem, ringVars, prodVars, held, batch, dequeued, failed>>

(* queue_head == queue_tail, read without the mutex: sleep(2) or not, the  *)
(* next thing is sem_wait.                                                 *)
CheckEmpty ==
  /\ cpc = "check"
  /\ cpc' = IF head = tail THEN "sleep" ELSE "sem_wait"
  /\ UNCHANGED <<sem, ringVars, prodVars, held, batch, dequeued, failed, uploaded>>

Sleep ==
  /\ cpc = "sleep"
  /\ cpc' = "sem_wait"
  /\ UNCHANGED <<sem, ringVars, prodVars, held, batch, dequeued, failed, uploaded>>

-----------------------------------------------------------------------------
Task(p) == Push(p) \/ Drop(p) \/ Post(p) \/ Update(p)
Cloud ==
  \/ SemWait \/ Lock \/ TakeFirst \/ TakeMore \/ Unlock
  \/ ConnectFails \/ Connected \/ CheckEmpty \/ Sleep
Done == packets = MaxPackets /\ sem = 0 /\ cpc = "sem_wait" /\ \A p \in Producers : pc[p] = "idle"

Next ==
  \/ \E p \in Producers : Parse(p) \/ Task(p)
  \/ Cloud
  \/ Done /\ UNCHANGED vars    \* no more packets: the cloud thread sleeps

Spec == Init /\ [][Next]_vars
(* Threads that can run do run. *)
FairSpec == Spec /\ WF_vars(Cloud) /\ \A p \in Producers : WF_vars(Task(p))

-----------------------------------------------------------------------------
TypeOK ==
  /\ sem \in Nat /\ held \in BOOLEAN
  /\ queue \in [Slots -> Nat] /\ head \in Slots /\ tail \in Slots
  /\ pc \in [Producers -> {"idle", "push", "post", "update"}]
  /\ sensor \in [Producers -> Sensors]
  /\ cpc \in {"sem_wait", "lock", "first", "more", "send", "check", "sleep"}
  /\ batch \in Seq(Nat) /\ Len(batch) <= MaxBatch
  /\ packets \in 0 .. MaxPackets /\ pushed \in Nat /\ dequeued \in Nat
  /\ failed \in Nat /\ uploaded \in Nat

Posting == {p \in Producers : pc[p] = "post"}
Claim == IF cpc \in {"lock", "first"} THEN 1 ELSE 0

(* Every reading in the ring has exactly one token: in the semaphore, with *)
(* a producer that has pushed but not yet posted, or taken by the consumer *)
(* that is about to dequeue.  So the consumer never takes from an empty    *)
(* ring, although it does not look at the indices.                         *)
TokensMatchReadings == sem + Cardinality(Posting) + Claim = Occupancy

(* The index i places behind t in the ring. *)
At(t, i) == IF t + i < N THEN t + i ELSE t + i - N

(* From tail on the ring holds the readings pushed and not yet taken, in   *)
(* order; one slot is free.                                                *)
RingIsFifo ==
  /\ dequeued <= pushed /\ Occupancy < N
  /\ head = At(tail, Occupancy)
  /\ \A i \in 0 .. Occupancy - 1 : queue[At(tail, i)] = dequeued + 1 + i

(* Semaphore and ring agree through every interleaving: as many tokens as  *)
(* readings, and the readings a FIFO.                                      *)
TokensAndRingAgree == TokensMatchReadings /\ RingIsFifo

(* The batch under construction is the run of readings taken last: no gap, *)
(* no repetition, oldest first.                                            *)
BatchIsConsecutive ==
  /\ Len(batch) <= dequeued
  /\ \A i \in 1 .. Len(batch) : batch[i] = dequeued - Len(batch) + i

(* What is about to be sent is newer than everything sent or given up      *)
(* before: the cloud sees readings in the order of the pushes, each at     *)
(* most once.                                                              *)
UploadedInOrder ==
  cpc \in {"more", "send"} => uploaded < batch[1] /\ failed < batch[1]

(* Batches are complete and are sent in order. *)
BatchesSentInOrder == BatchIsConsecutive /\ UploadedInOrder

(* A reading that was pushed is eventually taken by the cloud thread, even *)
(* if the emptiness test that makes it sleep was stale: again and again    *)
(* the thread has caught up with the workers.                              *)
PushedIsTaken == []<>(dequeued = pushed)
=============================================================================
