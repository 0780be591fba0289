-------------------------- MODULE ThreadPoolProofs --------------------------
(***************************************************************************)
(* Proofs about ThreadPool, for any number of workers and adders, any ring *)
(* size and any number of calls.  Inv /\ Quiet is the inductive invariant: *)
(* the properties the runs check, and the facts they need.  Inv holds also *)
(* when a signal handler adds (AlarmPool, at the end), Quiet does not.     *)
(***************************************************************************)
EXTENDS AlarmPool, FiniteSetTheorems, TLAPS

Labels ==
  /\ \A w \in Workers : pc[w] \in WorkerLabels
  /\ \A a \in Adders : pc[a] \in AdderLabels
  /\ pc[Owner] \in OwnerLabels

(* Exactly the holder of pool->lock is inside a critical section. *)
Mutex == \A t \in Threads : pc[t] \in {"locked", "add", "destroy"} <=> lock = t

(* What the phase of the owner says of everybody else. *)
Phase ==
  /\ shutdown <=> pc[Owner] \in {"join", "freed"}
  /\ pc[Owner] = "create" => \A a \in Adders : pc[a] = "idle"
  /\ pc[Owner] = "live" => \A w \in Workers : pc[w] # "none"
  /\ pc[Owner] = "create" => count = 0
  /\ \A w \in Workers : (pc[w] = "wait" => ~shutdown) /\ (pc[w] = "exited" => shutdown)

Inv ==
  /\ TypeOK /\ Labels /\ Mutex /\ Phase
  /\ RingIsFifo /\ RunsOnce /\ NoLostWakeup /\ FreedIsUnused

(* Nobody adds before create has returned or after destroy was called. *)
Quiet == pc[Owner] # "live" => \A a \in Adders : pc[a] = "idle"

-----------------------------------------------------------------------------
(* The remainder of the code is the wrap-around At is written with. *)
LEMMA NextSlotWraps ==
  ASSUME NEW h \in Slots
  PROVE  /\ NextSlot(h) = IF h + 1 = QueueSize THEN 0 ELSE h + 1
         /\ NextSlot(h) \in Slots
  BY PoolAssumption DEF NextSlot, Slots

(* Seen from the slot after h, everything is one place nearer. *)
LEMMA AtNextSlot ==
  ASSUME NEW h \in Slots, NEW i \in 0 .. QueueSize - 1
  PROVE  At(NextSlot(h), i) = At(h, i + 1) /\ At(h, i) \in Slots /\ At(h, 0) = h
  BY NextSlotWraps, PoolAssumption DEF At, Slots

LEMMA InitInv == Init => Inv
<1> SUFFICES ASSUME Init PROVE Inv
  OBVIOUS
<1> USE PoolAssumption
<1>1. Owner \in Threads /\ Workers \subseteq Threads /\ Adders \subseteq Threads
  BY DEF Threads
<1>2. Labels
  BY <1>1 DEF Init, Labels, WorkerLabels, AdderLabels, OwnerLabels
<1>3. TypeOK
  <2>1. pc \in [Threads -> WorkerLabels \cup AdderLabels \cup OwnerLabels]
    BY DEF Init, WorkerLabels, AdderLabels, OwnerLabels
  <2>2. 0 \in Slots
    BY DEF Slots
  <2>3. queue \in [Slots -> Nat] /\ task \in [Workers -> Nat]
    BY DEF Init, NoTask
  <2>4. shutdown \in BOOLEAN /\ finished \subseteq Nat
    BY DEF Init
  <2> QED
    BY <2>1, <2>2, <2>3, <2>4 DEF Init, TypeOK
<1>4. Mutex
  BY <1>1 DEF Init, Mutex, Threads
<1>5. Phase
  BY <1>1 DEF Init, Phase
<1>6. RingIsFifo
  BY DEF Init, RingIsFifo, At
<1>7. RunsOnce
  BY <1>1 DEF Init, RunsOnce, Running
<1>8. NoLostWakeup /\ FreedIsUnused
  BY <1>1 DEF Init, NoLostWakeup, FreedIsUnused
<1> QED
  BY <1>2, <1>3, <1>4, <1>5, <1>6, <1>7, <1>8 DEF Inv
-----------------------------------------------------------------------------
(* A step that leaves the ring and its history alone keeps the ring a FIFO. *)
LEMMA RingUntouched ==
  ASSUME RingIsFifo, UNCHANGED <<ring, accepted, taken>>
  PROVE  RingIsFifo'
  BY DEF RingIsFifo, At, ring

(* The workers awake are a finite set, so their number is a natural. *)
LEMMA AwakeFinite ==
  /\ IsFiniteSet(Awake) /\ Cardinality(Awake) \in Nat
  BY PoolAssumption, FS_Subset, FS_CardinalityType DEF Awake

-----------------------------------------------------------------------------
(* threadpool_worker *)
LEMMA WorkerLockInv ==
  ASSUME Inv, NEW w \in Workers, WorkerLock(w) PROVE Inv'
<1> USE PoolAssumption DEF Inv, WorkerLock, Acquire, Goto, hist, ring
<1>1. Labels' /\ TypeOK' /\ Mutex' /\ Phase'
  BY DEF Labels, TypeOK, Mutex, Phase, Threads, WorkerLabels, AdderLabels, OwnerLabels
<1>2. RingIsFifo'
  BY RingUntouched
<1>3. RunsOnce'
  BY DEF RunsOnce, Running, TypeOK, Threads
<1>4. Awake' = Awake
  BY DEF Awake, TypeOK, Threads
<1>5. NoLostWakeup' /\ FreedIsUnused'
  BY <1>4 DEF NoLostWakeup, FreedIsUnused, TypeOK, Threads, Phase
<1> QED
  BY <1>1, <1>2, <1>3, <1>5

LEMMA WorkerWaitInv ==
  ASSUME Inv, NEW w \in Workers, WorkerWait(w) PROVE Inv'
<1> USE PoolAssumption DEF Inv, WorkerWait, Goto, hist, ring
<1>1. Labels' /\ TypeOK' /\ Mutex' /\ Phase'
  BY DEF Labels, TypeOK, Mutex, Phase, Threads, WorkerLabels, AdderLabels, OwnerLabels
<1>2. RingIsFifo'
  BY RingUntouched
<1>3. RunsOnce'
  BY DEF RunsOnce, Running, TypeOK, Threads
<1>4. Cardinality(Awake') >= count'
  <2>1. IsFiniteSet(Awake')
    BY FS_Subset DEF Awake
  <2> QED
    BY <2>1, FS_CardinalityType
<1>5. NoLostWakeup' /\ FreedIsUnused'
  BY <1>4 DEF NoLostWakeup, FreedIsUnused, TypeOK, Threads, Phase
<1> QED
  BY <1>1, <1>2, <1>3, <1>5

LEMMA WorkerExitInv ==
  ASSUME Inv, NEW w \in Workers, WorkerExit(w) PROVE Inv'
<1> USE PoolAssumption DEF Inv, WorkerExit, Goto, hist, ring
<1>1. Labels' /\ TypeOK' /\ Mutex' /\ Phase'
  BY DEF Labels, TypeOK, Mutex, Phase, Threads, WorkerLabels, AdderLabels, OwnerLabels
<1>2. RingIsFifo'
  BY RingUntouched
<1>3. RunsOnce'
  BY DEF RunsOnce, Running, TypeOK, Threads
<1>4. NoLostWakeup' /\ FreedIsUnused'
  BY DEF NoLostWakeup, FreedIsUnused, TypeOK, Threads, Phase
<1> QED
  BY <1>1, <1>2, <1>3, <1>4

LEMMA WorkerTakeInv ==
  ASSUME Inv, NEW w \in Workers, WorkerTake(w) PROVE Inv'
<1> USE PoolAssumption DEF Inv, WorkerTake, Goto
<1>1. NextSlot(head) = (IF head + 1 = QueueSize THEN 0 ELSE head + 1) /\ NextSlot(head) \in Slots
  BY NextSlotWraps DEF TypeOK
<1>2. Labels' /\ TypeOK' /\ Mutex'
  BY <1>1 DEF Labels, TypeOK, Mutex, Threads, WorkerLabels, AdderLabels, OwnerLabels
<1>3. Phase'
  BY DEF Labels, TypeOK, Phase, Threads
<1>4. RingIsFifo'
  <2>1. At(head', count') = At(head, count)
    BY <1>1, AtNextSlot DEF TypeOK, At, Slots
  <2>2. \A i \in 0 .. count' - 1 : At(head', i) = At(head, i + 1)
    BY AtNextSlot DEF TypeOK
  <2>3. \A i \in 0 .. count' - 1 : queue[At(head', i)] = taken' + 1 + i
    <3> TAKE i \in 0 .. count' - 1
    <3>1. i + 1 \in 0 .. count - 1
      BY DEF TypeOK
    <3>2. queue[At(head, i + 1)] = taken + 1 + (i + 1)
      BY <3>1 DEF RingIsFifo
    <3> QED
      BY <2>2, <3>1, <3>2 DEF TypeOK
  <2>4. accepted' = taken' + count'
    BY DEF RingIsFifo, TypeOK
  <2>5. tail' = At(head', count')
    BY <2>1 DEF RingIsFifo
  <2> HIDE DEF WorkerTake
  <2> QED
    BY <2>3, <2>4, <2>5 DEF RingIsFifo, At, WorkerTake
<1>5. queue[head] = taken + 1
  <2>1. 0 \in 0 .. count - 1 /\ At(head, 0) = head
    BY AtNextSlot DEF TypeOK, At, Slots
  <2>2. queue[At(head, 0)] = taken + 1 + 0
    BY <2>1 DEF RingIsFifo
  <2> QED
    BY <2>1, <2>2 DEF TypeOK
<1>6. RunsOnce'
  <2>1. Running' = Running \cup {w} /\ w \notin Running
    BY DEF Running, TypeOK, Threads
  <2>2. task'[w] = taken + 1 /\ \A v \in Running : task'[v] = task[v]
    BY <1>5, <2>1 DEF TypeOK, Running
  <2>3. {task'[v] : v \in Running'} = {task[v] : v \in Running} \cup {taken + 1}
    BY <2>1, <2>2
  <2>4. \A v \in Running : task[v] \in 1 .. taken
    BY DEF RunsOnce
  <2>5. 1 .. taken' = (1 .. taken) \cup {taken + 1} /\ taken + 1 \notin 1 .. taken
    BY DEF TypeOK
  <2> QED
    BY <2>1, <2>2, <2>3, <2>4, <2>5 DEF RunsOnce
<1>7. Awake' = Awake
  BY DEF Awake, TypeOK, Threads
<1>8. NoLostWakeup' /\ FreedIsUnused'
  BY <1>7, AwakeFinite DEF NoLostWakeup, FreedIsUnused, TypeOK, Threads, Phase
<1> QED
  BY <1>2, <1>3, <1>4, <1>6, <1>8

LEMMA WorkerRunInv ==
  ASSUME Inv, NEW w \in Workers, WorkerRun(w) PROVE Inv'
<1> USE PoolAssumption DEF Inv, WorkerRun, Goto, ring
<1>1. Labels' /\ Mutex' /\ Phase'
  BY DEF Labels, TypeOK, Mutex, Phase, Threads, WorkerLabels, AdderLabels, OwnerLabels
<1>6. TypeOK'
  <2>1. finished' \subseteq Nat
    BY DEF TypeOK
  <2> QED
    BY <2>1 DEF TypeOK, Threads, WorkerLabels
<1>2. RingIsFifo'
  BY RingUntouched
<1>3. RunsOnce'
  <2>1. Running' = Running \ {w} /\ w \in Running
    BY DEF Running, TypeOK, Threads
  <2> QED
    BY <2>1 DEF RunsOnce
<1>4. Awake' = Awake
  BY DEF Awake, TypeOK, Threads
<1>5. NoLostWakeup' /\ FreedIsUnused'
  BY <1>4 DEF NoLostWakeup, FreedIsUnused, TypeOK, Threads, Phase
<1> QED
  BY <1>1, <1>2, <1>3, <1>5, <1>6

(* A worker woken for no reason only adds to the workers awake. *)
LEMMA SpuriousWakeInv ==
  ASSUME Inv, NEW w \in Workers, SpuriousWake(w) PROVE Inv'
<1> USE PoolAssumption DEF Inv, SpuriousWake, Goto, ring
<1>1. Labels' /\ TypeOK' /\ Mutex' /\ Phase'
  BY DEF Labels, TypeOK, Mutex, Phase, Threads, WorkerLabels, AdderLabels, OwnerLabels
<1>2. RingIsFifo'
  BY RingUntouched
<1>3. RunsOnce' /\ FreedIsUnused'
  BY DEF RunsOnce, Running, FreedIsUnused, TypeOK, Threads, Phase
<1>4. Awake' = Awake \cup {w} /\ w \notin Awake /\ Awake # Workers
  BY DEF Awake, TypeOK, Threads
<1>5. Cardinality(Awake') = Cardinality(Awake) + 1
  BY <1>4, AwakeFinite, FS_AddElement
<1>6. pc[Owner] = "live" => Cardinality(Awake) >= count
  BY <1>4 DEF NoLostWakeup
<1>7. pc'[Owner] = pc[Owner] /\ count' = count
  BY DEF TypeOK, Threads
<1>8. NoLostWakeup'
  BY <1>5, <1>6, <1>7, AwakeFinite DEF NoLostWakeup, TypeOK
<1> QED
  BY <1>1, <1>2, <1>3, <1>8
-----------------------------------------------------------------------------
(* threadpool_create: the first workers may already sleep when the last    *)
(* one is created, but no task can have been added.                        *)
LEMMA CreateWorkerInv ==
  ASSUME Inv, NEW w \in Workers, CreateWorker(w) PROVE Inv'
<1> USE PoolAssumption DEF Inv, CreateWorker, hist, ring
<1>1. Labels' /\ TypeOK' /\ Mutex'
  BY DEF Labels, TypeOK, Mutex, Threads, WorkerLabels, AdderLabels, OwnerLabels
<1>2. Phase'
  BY DEF Phase, Created, TypeOK, Threads, Labels
<1>3. RingIsFifo'
  BY RingUntouched
<1>4. RunsOnce' /\ FreedIsUnused'
  BY DEF RunsOnce, Running, FreedIsUnused, TypeOK, Threads
<1>5. NoLostWakeup'
  <2>1. IsFiniteSet(Awake')
    BY FS_Subset DEF Awake
  <2> QED
    BY <2>1, FS_CardinalityType DEF NoLostWakeup, Phase
<1> QED
  BY <1>1, <1>2, <1>3, <1>4, <1>5

LEMMA CreateFailsInv ==
  ASSUME Inv, CreateFails PROVE Inv'
<1> USE PoolAssumption DEF Inv, CreateFails, Goto, hist, ring
<1>1. Labels' /\ TypeOK' /\ Mutex' /\ Phase'
  BY DEF Labels, TypeOK, Mutex, Phase, Threads, WorkerLabels, AdderLabels, OwnerLabels
<1>2. RingIsFifo'
  BY RingUntouched
<1>3. Running' = Running /\ Awake' = Awake
  BY DEF Running, Awake, TypeOK, Threads
<1>4. RunsOnce' /\ NoLostWakeup' /\ FreedIsUnused'
  BY <1>3 DEF RunsOnce, NoLostWakeup, FreedIsUnused, TypeOK, Threads, Phase
<1> QED
  BY <1>1, <1>2, <1>4
-----------------------------------------------------------------------------
(* threadpool_add *)
LEMMA AddCallInv ==
  ASSUME Inv, NEW a \in Adders, pc[Owner] = "live", AddCall(a) PROVE Inv'
<1> USE PoolAssumption DEF Inv, AddCall, Goto, ring
<1>1. Labels' /\ TypeOK' /\ Mutex' /\ Phase'
  BY DEF Labels, TypeOK, Mutex, Phase, Threads, WorkerLabels, AdderLabels, OwnerLabels
<1>2. RingIsFifo'
  BY RingUntouched
<1>3. Running' = Running /\ Awake' = Awake
  BY DEF Running, Awake, TypeOK, Threads
<1>4. RunsOnce' /\ NoLostWakeup' /\ FreedIsUnused'
  BY <1>3 DEF RunsOnce, NoLostWakeup, FreedIsUnused, TypeOK, Threads, Phase
<1> QED
  BY <1>1, <1>2, <1>4

LEMMA AddLockInv ==
  ASSUME Inv, NEW a \in Adders, AddLock(a) PROVE Inv'
<1> USE PoolAssumption DEF Inv, AddLock, Acquire, Goto, hist, ring
<1>1. Labels' /\ TypeOK' /\ Mutex' /\ Phase'
  BY DEF Labels, TypeOK, Mutex, Phase, Threads, WorkerLabels, AdderLabels, OwnerLabels
<1>2. RingIsFifo'
  BY RingUntouched
<1>3. Running' = Running /\ Awake' = Awake
  BY DEF Running, Awake, TypeOK, Threads
<1>4. RunsOnce' /\ NoLostWakeup' /\ FreedIsUnused'
  BY <1>3 DEF RunsOnce, NoLostWakeup, FreedIsUnused, TypeOK, Threads, Phase
<1> QED
  BY <1>1, <1>2, <1>4

LEMMA AddRejectInv ==
  ASSUME Inv, NEW a \in Adders, AddReject(a) PROVE Inv'
<1> USE PoolAssumption DEF Inv, AddReject, Goto, hist, ring
<1>1. Labels' /\ TypeOK' /\ Mutex' /\ Phase'
  BY DEF Labels, TypeOK, Mutex, Phase, Threads, WorkerLabels, AdderLabels, OwnerLabels
<1>2. RingIsFifo'
  BY RingUntouched
<1>3. Running' = Running /\ Awake' = Awake
  BY DEF Running, Awake, TypeOK, Threads
<1>4. RunsOnce' /\ NoLostWakeup' /\ FreedIsUnused'
  BY <1>3 DEF RunsOnce, NoLostWakeup, FreedIsUnused, TypeOK, Threads, Phase
<1> QED
  BY <1>1, <1>2, <1>4

(* The signal pays for the task: either a sleeper joins the workers awake, *)
(* or there was no sleeper and all of them were awake already.             *)
LEMMA AddAcceptInv ==
  ASSUME Inv, NEW a \in Adders, AddAccept(a) PROVE Inv'
<1> USE PoolAssumption DEF Inv
<1>1. /\ NextSlot(tail) = (IF tail + 1 = QueueSize THEN 0 ELSE tail + 1)
      /\ NextSlot(tail) \in Slots
  BY NextSlotWraps DEF TypeOK
<1>2. pc[Owner] \notin {"create", "freed"} /\ count < QueueSize /\ ~shutdown
  BY DEF AddAccept, Full, TypeOK, Phase
<1>3. /\ pc' \in [Threads -> WorkerLabels \cup AdderLabels \cup OwnerLabels]
      /\ pc'[a] = "idle"
      /\ \A t \in Threads \ {a} : pc'[t] = pc[t] \/ (t \in Waiting /\ pc'[t] = "lock")
  BY DEF AddAccept, Signal, Goto, Waiting, TypeOK, Threads, WorkerLabels, AdderLabels, OwnerLabels
<1>4. TypeOK'
  BY <1>1, <1>2, <1>3 DEF AddAccept, TypeOK
<1>5. Labels' /\ Phase'
  BY <1>2, <1>3 DEF AddAccept, Labels, Phase, Waiting, Threads, WorkerLabels, AdderLabels, OwnerLabels
<1>6. Mutex'
  BY <1>3 DEF AddAccept, Mutex, Waiting, Threads
<1>7. RingIsFifo'
  <2>1. At(head, count) = tail /\ tail' = At(head, count + 1)
    BY <1>1, <1>2 DEF AddAccept, RingIsFifo, At, TypeOK, Slots
  <2>2. \A i \in 0 .. count - 1 : At(head, i) \in Slots /\ At(head, i) # tail
    BY <1>2, <2>1 DEF At, TypeOK, Slots
  <2>3. \A i \in 0 .. count : queue'[At(head, i)] = taken + 1 + i
    <3> TAKE i \in 0 .. count
    <3>1. CASE i = count
      BY <2>1, <3>1 DEF AddAccept, RingIsFifo, TypeOK
    <3>2. CASE i # count
      <4>1. i \in 0 .. count - 1
        BY <3>2 DEF TypeOK
      <4>2. queue'[At(head, i)] = queue[At(head, i)]
        BY <2>2, <4>1 DEF AddAccept, TypeOK
      <4> QED
        BY <4>1, <4>2 DEF RingIsFifo
    <3> QED
      BY <3>1, <3>2
  <2>4. accepted' = taken' + count' /\ count' - 1 = count /\ head' = head /\ taken' = taken
    BY DEF AddAccept, RingIsFifo, TypeOK
  <2>5. count' = count + 1
    BY DEF AddAccept
  <2> QED
    BY <2>1, <2>3, <2>4, <2>5 DEF RingIsFifo, At
<1>8. Running' = Running
  BY <1>3 DEF Running, Waiting, Threads, Labels, AdderLabels
<1>9. RunsOnce' /\ FreedIsUnused'
  BY <1>2, <1>3, <1>8 DEF AddAccept, RunsOnce, FreedIsUnused, Threads, Waiting
<1>10. NoLostWakeup'
  <2> SUFFICES ASSUME pc[Owner] = "live" PROVE NoLostWakeup'
    BY <1>3 DEF NoLostWakeup, Waiting, Threads
  <2>1. CASE Waiting = {}
    <3>1. Awake' = Workers
      BY <1>2, <1>3, <2>1 DEF Awake, Waiting, Labels, Phase, WorkerLabels, Threads
    <3> QED
      BY <3>1 DEF NoLostWakeup
  <2>2. CASE \E w \in Waiting : pc' = [pc EXCEPT ![w] = "lock", ![a] = "idle"]
    <3> PICK w \in Waiting : pc' = [pc EXCEPT ![w] = "lock", ![a] = "idle"]
      BY <2>2
    <3>1. Awake' = Awake \cup {w} /\ w \notin Awake /\ Awake # Workers
      BY DEF Awake, Waiting, TypeOK, Threads
    <3>2. Cardinality(Awake') = Cardinality(Awake) + 1
      BY <3>1, AwakeFinite, FS_AddElement
    <3>3. Cardinality(Awake) >= count
      BY <1>2, <3>1 DEF NoLostWakeup
    <3> QED
      BY <3>2, <3>3, AwakeFinite DEF NoLostWakeup, AddAccept, TypeOK
  <2> QED
    BY <2>1, <2>2 DEF AddAccept, Signal
<1> QED
  BY <1>4, <1>5, <1>6, <1>7, <1>9, <1>10
-----------------------------------------------------------------------------
(* threadpool_destroy *)
LEMMA DestroyCallInv ==
  ASSUME Inv, DestroyCall PROVE Inv'
<1> USE PoolAssumption DEF Inv, DestroyCall, Goto, hist, ring
<1>1. Labels' /\ TypeOK' /\ Mutex' /\ Phase'
  BY DEF Labels, TypeOK, Mutex, Phase, Threads, WorkerLabels, AdderLabels, OwnerLabels
<1>2. RingIsFifo'
  BY RingUntouched
<1>3. Running' = Running /\ Awake' = Awake
  BY DEF Running, Awake, TypeOK, Threads
<1>4. RunsOnce' /\ NoLostWakeup' /\ FreedIsUnused'
  BY <1>3 DEF RunsOnce, NoLostWakeup, FreedIsUnused, TypeOK, Threads, Phase
<1> QED
  BY <1>1, <1>2, <1>4

LEMMA DestroyLockInv ==
  ASSUME Inv, DestroyLock PROVE Inv'
<1> USE PoolAssumption DEF Inv, DestroyLock, Acquire, Goto, hist, ring
<1>1. Labels' /\ TypeOK' /\ Mutex' /\ Phase'
  BY DEF Labels, TypeOK, Mutex, Phase, Threads, WorkerLabels, AdderLabels, OwnerLabels
<1>2. RingIsFifo'
  BY RingUntouched
<1>3. Running' = Running /\ Awake' = Awake
  BY DEF Running, Awake, TypeOK, Threads
<1>4. RunsOnce' /\ NoLostWakeup' /\ FreedIsUnused'
  BY <1>3 DEF RunsOnce, NoLostWakeup, FreedIsUnused, TypeOK, Threads, Phase
<1> QED
  BY <1>1, <1>2, <1>4

LEMMA DestroyBroadcastInv ==
  ASSUME Inv, DestroyBroadcast PROVE Inv'
<1> USE PoolAssumption DEF Inv, DestroyBroadcast, Waiting, hist, ring
<1>1. Labels' /\ Mutex' /\ Phase'
  BY DEF Labels, TypeOK, Mutex, Phase, Threads, WorkerLabels, AdderLabels, OwnerLabels
<1>2. TypeOK'
  <2>1. pc' \in [Threads -> WorkerLabels \cup AdderLabels \cup OwnerLabels]
    BY DEF TypeOK, WorkerLabels, OwnerLabels
  <2>2. shutdown' \in BOOLEAN
    OBVIOUS
  <2> QED
    BY <2>1, <2>2 DEF TypeOK
<1>3. RingIsFifo'
  BY RingUntouched
<1>4. Running' = Running
  BY DEF Running, TypeOK, Threads
<1>5. RunsOnce' /\ NoLostWakeup' /\ FreedIsUnused'
  BY <1>4 DEF RunsOnce, NoLostWakeup, FreedIsUnused, Threads
<1> QED
  BY <1>1, <1>2, <1>3, <1>5

(* The joins are what makes the frees safe: a worker that was created has  *)
(* exited, and the adders went idle before destroy was called.             *)
LEMMA DestroyFreeInv ==
  ASSUME Inv, \A a \in Adders : pc[a] = "idle", DestroyFree PROVE Inv'
<1> USE PoolAssumption DEF Inv, DestroyFree, Goto, hist, ring
<1>1. Labels' /\ TypeOK' /\ Mutex' /\ Phase'
  BY DEF Labels, TypeOK, Mutex, Phase, Threads, WorkerLabels, AdderLabels, OwnerLabels
<1>2. RingIsFifo'
  BY RingUntouched
<1>3. Running' = Running
  BY DEF Running, TypeOK, Threads
<1>4. RunsOnce' /\ NoLostWakeup'
  BY <1>3 DEF RunsOnce, NoLostWakeup, TypeOK, Threads
<1>5. FreedIsUnused'
  BY DEF FreedIsUnused, Joined, Created, Phase, TypeOK, Threads
<1> QED
  BY <1>1, <1>2, <1>4, <1>5
-----------------------------------------------------------------------------
LEMMA StutterInv == ASSUME Inv, UNCHANGED vars PROVE Inv'
  BY DEF Inv, vars, TypeOK, Labels, Mutex, Phase, RingIsFifo, At, RunsOnce, Running,
         NoLostWakeup, Awake, FreedIsUnused

LEMMA QuietStep == ASSUME Inv, Quiet, [Next]_vars PROVE Quiet'
<1> USE PoolAssumption
<1> SUFFICES ASSUME pc'[Owner] # "live", NEW a \in Adders PROVE pc'[a] = "idle"
  BY DEF Quiet
<1>0. a \in Threads /\ Owner \in Threads /\ a # Owner /\ a \notin Workers /\ pc \in [Threads -> WorkerLabels \cup AdderLabels \cup OwnerLabels]
  BY DEF Threads, Inv, TypeOK
<1>1. ASSUME NEW w \in Workers, CreateWorker(w) \/ WorkerStep(w) \/ SpuriousWake(w)
      PROVE  pc'[a] = "idle"
  BY <1>0, <1>1
  DEF Quiet, CreateWorker, WorkerStep, SpuriousWake, WorkerLock, WorkerWait, WorkerExit, WorkerTake, WorkerRun,
      Acquire, Goto
<1>2. ASSUME NEW b \in Adders, AddStep(b) PROVE pc'[a] = "idle"
  BY <1>0, <1>2 DEF Quiet, AddStep, AddLock, AddReject, AddAccept, Signal, Waiting, Acquire, Goto
<1>3. CASE CreateFails \/ OwnerStep
  BY <1>0, <1>3
  DEF Quiet, CreateFails, OwnerStep, DestroyLock, DestroyBroadcast, DestroyFree, Waiting, Acquire, Goto
<1>4. CASE Callers
  BY <1>0, <1>4 DEF Quiet, Callers, AddCall, DestroyCall, Goto
<1>5. CASE UNCHANGED vars
  BY <1>5 DEF Quiet, vars
<1> QED
  BY <1>1, <1>2, <1>3, <1>4, <1>5 DEF Next

(* Every step of every thread of the pool preserves Inv. *)
THEOREM Invariance == Spec => [](Inv /\ Quiet)
<1>1. Inv /\ Quiet /\ [Next]_vars => Inv' /\ Quiet'
  <2> SUFFICES ASSUME Inv, Quiet, [Next]_vars PROVE Inv'
    BY QuietStep
  <2>1. ASSUME NEW w \in Workers, CreateWorker(w) \/ WorkerStep(w) \/ SpuriousWake(w)
        PROVE  Inv'
    BY <2>1, CreateWorkerInv, WorkerLockInv, WorkerWaitInv, WorkerExitInv, WorkerTakeInv,
       WorkerRunInv, SpuriousWakeInv DEF WorkerStep
  <2>2. ASSUME NEW a \in Adders, AddStep(a) PROVE Inv'
    BY <2>2, AddLockInv, AddRejectInv, AddAcceptInv DEF AddStep
  <2>3. CASE CreateFails \/ OwnerStep
    <3>1. DestroyFree => \A a \in Adders : pc[a] = "idle"
      BY DEF Quiet, DestroyFree
    <3> QED
      BY <2>3, <3>1, CreateFailsInv, DestroyLockInv, DestroyBroadcastInv, DestroyFreeInv DEF OwnerStep
  <2>4. CASE Callers
    BY <2>4, AddCallInv, DestroyCallInv DEF Callers
  <2>5. CASE UNCHANGED vars
    BY <2>5, StutterInv
  <2> QED
    BY <2>1, <2>2, <2>3, <2>4, <2>5 DEF Next
<1>2. Init => Quiet
  BY PoolAssumption DEF Init, Quiet, Threads
<1> QED
  BY InitInv, <1>1, <1>2, PTL DEF Spec

(* The variables keep their types: in particular count never exceeds       *)
(* queue_size and both indices stay inside the array.                      *)
THEOREM TypeCorrect == Spec => []TypeOK
  BY Invariance, PTL DEF Inv

(* For every number of workers and adders and every ring size the ring is  *)
(* a FIFO of the accepted tasks and each task taken is run exactly once.   *)
THEOREM TasksInOrderOnce == Spec => []TasksOnceInOrder
  BY Invariance, PTL DEF Inv, TasksOnceInOrder

(* One pthread_cond_signal per task is enough, spurious wake-ups and       *)
(* stolen tasks included.                                                  *)
THEOREM WakeupsSuffice == Spec => []NoLostWakeup
  BY Invariance, PTL DEF Inv

(* Nobody is inside the pool when threadpool_destroy frees it.             *)
THEOREM FreeIsSafe == Spec => []FreedIsUnused
  BY Invariance, PTL DEF Inv
-----------------------------------------------------------------------------
(***************************************************************************)
(* The pool with a signal handler among its adders (AlarmPool): for any    *)
(* number of workers, slots, periodic tasks and ticks, the handler leaves  *)
(* the pool's guarantees alone, is out of the pool when it is freed, and   *)
(* fires every task on its interval.  The steps of the pool itself are     *)
(* those above.                                                            *)
(***************************************************************************)
AlarmTask == [in_use : {0, 1}, interval : Nat, ticks_left : Nat]

AlarmTypes ==
  /\ tasks \in [AlarmSlots -> AlarmTask]
  /\ \A i \in AlarmSlots : tasks[i].ticks_left <= tasks[i].interval
  /\ seen \in [AlarmSlots -> Nat] /\ fired \in [AlarmSlots -> Nat]
  /\ registered \in 0 .. Len(Intervals) /\ armed \in BOOLEAN
  /\ host \in Workers \cup {Owner, NoThread} /\ pos \in 1 .. MaxAlarmTasks + 1

(* Slots are taken from the front, and a slot that is not in use has not   *)
(* been counted.                                                           *)
SlotsInOrder ==
  /\ \E k \in 0 .. MaxAlarmTasks : \A i \in AlarmSlots : tasks[i].in_use = 0 <=> i > k
  /\ \A i \in AlarmSlots : tasks[i].in_use = 0 => seen[i] = 0 /\ fired[i] = 0
  /\ \A i \in AlarmSlots : tasks[i].in_use = 1 => tasks[i].interval >= 1

(* The handler is in the pool only while it runs, on a thread that exists  *)
(* and has not ended; the timer is off and the slots are empty before the  *)
(* pool is destroyed.                                                      *)
HandlerOnHost ==
  /\ pc[Handler] # "idle" => host # NoThread
  /\ host \in Workers => pc[host] \notin {"none", "exited"}
  /\ pc[Owner] # "live" => pc[Reactor] = "idle"
  /\ pc[Owner] = "create" => armed
  /\ pc[Owner] \notin {"create", "live"} => ~armed
  /\ ~armed => \A i \in AlarmSlots : tasks[i].in_use = 0

AlarmInv == Inv /\ AlarmTypes /\ SlotsInOrder /\ HandlerOnHost /\ FiresOnTime
-----------------------------------------------------------------------------
LEMMA AlarmConstants ==
  /\ Adders = {Reactor, Handler} /\ Reactor # Handler
  /\ Reactor \in Threads /\ Handler \in Threads /\ Owner \in Threads /\ Workers \subseteq Threads
  /\ Handler # Owner /\ Reactor # Owner /\ Handler \notin Workers /\ Reactor \notin Workers /\ Owner \notin Workers
  /\ NoThread \notin Workers /\ NoThread # Owner
  /\ MaxAlarmTasks \in Nat /\ MaxTicks \in Nat /\ Intervals \in Seq(Nat \ {0})
  BY AlarmAssumption, PoolAssumption DEF Threads

(* Counting one more tick: the remainder comes round and the quotient goes *)
(* up together.                                                            *)
LEMMA OneMoreTick ==
  ASSUME NEW a \in Nat, NEW n \in Nat, n >= 1
  PROVE  /\ a % n \in 0 .. n - 1 /\ a \div n \in Nat
         /\ a % n = n - 1 => (a + 1) % n = 0 /\ (a + 1) \div n = (a \div n) + 1
         /\ a % n # n - 1 => (a + 1) % n = (a % n) + 1 /\ (a + 1) \div n = a \div n
         /\ 0 % n = 0 /\ 0 \div n = 0
  OBVIOUS

LEMMA AlarmInitInv == InitAlarm => AlarmInv
<1> SUFFICES ASSUME InitAlarm PROVE AlarmInv
  OBVIOUS
<1>1. Inv
  BY InitInv DEF InitAlarm
<1>2. AlarmTypes
  BY AlarmConstants DEF InitAlarm, AlarmTypes, AlarmTask, Free
<1>3. SlotsInOrder /\ FiresOnTime
  <2>1. \A i \in AlarmSlots : tasks[i].in_use = 0 /\ seen[i] = 0 /\ fired[i] = 0 /\ i > 0
    BY DEF InitAlarm, Free, AlarmSlots
  <2> QED
    BY <2>1, AlarmConstants DEF SlotsInOrder, FiresOnTime
<1>4. HandlerOnHost
  BY AlarmConstants DEF InitAlarm, Init, HandlerOnHost
<1> QED
  BY <1>1, <1>2, <1>3, <1>4 DEF AlarmInv
-----------------------------------------------------------------------------
(* What a step of the pool must respect for the alarm's invariant. *)
LEMMA PoolStepKeeps ==
  ASSUME AlarmInv, Inv', UNCHANGED alarmVars,
         pc'[Handler] # "idle" => pc[Handler] # "idle",
         pc'[Reactor] # "idle" => pc[Reactor] # "idle" \/ pc'[Owner] = "live",
         pc'[Owner] # "live" /\ pc[Owner] = "live" => pc'[Reactor] = "idle" /\ ~armed,
         pc'[Owner] = "create" => pc[Owner] = "create",
         pc[Owner] = "create" => pc'[Owner] \in {"create", "live"},
         \A w \in Workers : host = w /\ pc'[w] \in {"none", "exited"} => pc[w] \in {"none", "exited"}
  PROVE  AlarmInv'
<1>1. AlarmTypes' /\ SlotsInOrder' /\ FiresOnTime'
  BY DEF AlarmInv, AlarmTypes, SlotsInOrder, FiresOnTime, alarmVars
<1>2. HandlerOnHost'
  BY DEF AlarmInv, HandlerOnHost, alarmVars
<1> QED
  BY <1>1, <1>2 DEF AlarmInv

LEMMA WorkerKeeps ==
  ASSUME AlarmInv, NEW w \in Workers, OnWorker(w) \/ (host # w /\ SpuriousWake(w) /\ UNCHANGED alarmVars)
  PROVE  AlarmInv'
<1>1. Inv'
  BY WorkerLockInv, WorkerWaitInv, WorkerExitInv, WorkerTakeInv, WorkerRunInv, SpuriousWakeInv
  DEF AlarmInv, OnWorker, WorkerStep
<1>2. \A t \in Threads : t # w => pc'[t] = pc[t]
  BY AlarmConstants
  DEF AlarmInv, Inv, TypeOK, OnWorker, WorkerStep, WorkerLock, WorkerWait, WorkerExit, WorkerTake, WorkerRun,
      SpuriousWake, Acquire, Goto
<1>3. host # w /\ UNCHANGED alarmVars
  BY DEF OnWorker
<1> QED
  BY <1>1, <1>2, <1>3, PoolStepKeeps, AlarmConstants DEF AlarmInv, HandlerOnHost

LEMMA AdderKeeps ==
  ASSUME AlarmInv, NEW a \in Adders, AddStep(a), UNCHANGED alarmVars
  PROVE  AlarmInv'
<1>1. Inv'
  BY AddLockInv, AddRejectInv, AddAcceptInv DEF AlarmInv, AddStep
<1>2. /\ pc[a] # "idle"
      /\ \A t \in Threads : t # a => pc'[t] = pc[t] \/ (t \in Workers /\ pc'[t] = "lock")
  BY AlarmConstants
  DEF AlarmInv, Inv, TypeOK, AddStep, AddLock, AddReject, AddAccept, Signal, Waiting, Acquire, Goto
<1> QED
  BY <1>1, <1>2, PoolStepKeeps, AlarmConstants DEF AlarmInv, HandlerOnHost

LEMMA ReactorCallKeeps ==
  ASSUME AlarmInv, pc[Owner] = "live", AddCall(Reactor), UNCHANGED alarmVars
  PROVE  AlarmInv'
<1>1. Inv'
  BY AddCallInv, AlarmConstants DEF AlarmInv
<1>2. \A t \in Threads : t # Reactor => pc'[t] = pc[t]
  BY AlarmConstants DEF AlarmInv, Inv, TypeOK, AddCall, Goto
<1> QED
  BY <1>1, <1>2, PoolStepKeeps, AlarmConstants

(* The joins wait for the handler: it is on no worker, and not on main. *)
LEMMA OwnerKeeps ==
  ASSUME AlarmInv, host # Owner, OwnerStep, UNCHANGED alarmVars
  PROVE  AlarmInv'
<1>1. DestroyFree => \A a \in Adders : pc[a] = "idle"
  <2> SUFFICES ASSUME DestroyFree PROVE \A a \in Adders : pc[a] = "idle"
    OBVIOUS
  <2>1. host = NoThread
    BY DEF DestroyFree, Joined, Created, AlarmInv, AlarmTypes, HandlerOnHost
  <2> QED
    BY <2>1, AlarmConstants DEF DestroyFree, AlarmInv, HandlerOnHost
<1>2. Inv'
  BY <1>1, DestroyLockInv, DestroyBroadcastInv, DestroyFreeInv DEF AlarmInv, OwnerStep
<1>3. /\ pc[Owner] \notin {"create", "live"} /\ pc'[Owner] \notin {"create", "live"}
      /\ \A t \in Threads : t # Owner => pc'[t] = pc[t] \/ (t \in Workers /\ pc'[t] = "lock")
  BY AlarmConstants
  DEF AlarmInv, Inv, TypeOK, OwnerStep, DestroyLock, DestroyBroadcast, DestroyFree, Waiting, Acquire, Goto
<1> QED
  BY <1>2, <1>3, PoolStepKeeps, AlarmConstants DEF AlarmInv, HandlerOnHost

LEMMA CreateKeeps ==
  ASSUME AlarmInv, NEW w \in Workers, CreateWorker(w), UNCHANGED alarmVars
  PROVE  AlarmInv'
<1>1. Inv'
  BY CreateWorkerInv DEF AlarmInv
<1>2. /\ pc[Owner] = "create" /\ pc'[Owner] \in {"create", "live"} /\ pc'[w] = "lock"
      /\ \A t \in Threads : t \notin {Owner, w} => pc'[t] = pc[t]
  BY AlarmConstants DEF AlarmInv, Inv, TypeOK, CreateWorker
<1> QED
  BY <1>1, <1>2, PoolStepKeeps, AlarmConstants DEF AlarmInv, HandlerOnHost

LEMMA DestroyCallKeeps ==
  ASSUME AlarmInv, ~armed, pc[Reactor] = "idle", DestroyCall, UNCHANGED alarmVars
  PROVE  AlarmInv'
<1>1. Inv'
  BY DestroyCallInv DEF AlarmInv
<1>2. /\ pc[Owner] = "live" /\ pc'[Owner] = "d_lock"
      /\ \A t \in Threads : t # Owner => pc'[t] = pc[t]
  BY AlarmConstants DEF AlarmInv, Inv, TypeOK, DestroyCall, Goto
<1> QED
  BY <1>1, <1>2, PoolStepKeeps, AlarmConstants
-----------------------------------------------------------------------------
(* The steps of the scheduler.  The pool sees at most the handler calling  *)
(* threadpool_add, and only while it is in use.                            *)
LEMMA HandlerEnters ==
  ASSUME Inv, pc[Owner] = "live", pc[Handler] = "idle",
         pc' = [pc EXCEPT ![Handler] = "add_lock"], UNCHANGED <<lock, ring, shutdown, task, hist>>
  PROVE  Inv'
<1> USE AlarmConstants, PoolAssumption DEF Inv, hist, ring
<1>1. Labels' /\ TypeOK' /\ Mutex' /\ Phase'
  BY DEF Labels, TypeOK, Mutex, Phase, Threads, WorkerLabels, AdderLabels, OwnerLabels
<1>2. RingIsFifo'
  BY RingUntouched
<1>3. Running' = Running /\ Awake' = Awake
  BY DEF Running, Awake, TypeOK, Threads
<1>4. RunsOnce' /\ NoLostWakeup' /\ FreedIsUnused'
  BY <1>3 DEF RunsOnce, NoLostWakeup, FreedIsUnused, TypeOK, Threads, Phase
<1> QED
  BY <1>1, <1>2, <1>4

LEMMA FirstFreeIsFirst ==
  ASSUME AlarmTypes, SlotsInOrder, NEW k \in 0 .. MaxAlarmTasks,
         \A i \in AlarmSlots : tasks[i].in_use = 0 <=> i > k,
         ~(\A i \in AlarmSlots : tasks[i].in_use = 1)
  PROVE  FirstFree = k + 1 /\ FirstFree \in AlarmSlots
<1> DEFINE P(i) == tasks[i].in_use = 0 /\ \A j \in AlarmSlots : tasks[j].in_use = 0 => i <= j
<1>1. k + 1 \in AlarmSlots /\ P(k + 1)
  <2>1. PICK i \in AlarmSlots : tasks[i].in_use # 1
    OBVIOUS
  <2>2. tasks[i].in_use = 0
    BY <2>1 DEF AlarmTypes, AlarmTask
  <2>3. i > k /\ k + 1 \in AlarmSlots
    BY <2>1, <2>2, AlarmConstants DEF AlarmSlots
  <2> QED
    BY <2>3, AlarmConstants DEF AlarmSlots
<1>2. \A i \in AlarmSlots : P(i) => i = k + 1
  BY <1>1, AlarmConstants DEF AlarmSlots
<1>3. FirstFree = CHOOSE i \in AlarmSlots : P(i)
  BY DEF FirstFree
<1> QED
  BY <1>1, <1>2, <1>3

LEMMA AddTaskKeeps ==
  ASSUME AlarmInv, AddTask
  PROVE  AlarmInv'
<1>1. Inv'
  BY StutterInv DEF AlarmInv, AddTask
<1>2. PICK k \in 0 .. MaxAlarmTasks : \A i \in AlarmSlots : tasks[i].in_use = 0 <=> i > k
  BY DEF AlarmInv, SlotsInOrder
<1>3. /\ registered' \in 0 .. Len(Intervals) /\ Intervals[registered + 1] \in Nat \ {0}
      /\ pc[Owner] = "create" /\ UNCHANGED <<pc, armed, host, pos, seen, fired>>
  BY AlarmConstants DEF AlarmInv, AlarmTypes, AddTask, vars
<1>4. CASE \A i \in AlarmSlots : tasks[i].in_use = 1
  <2>1. tasks' = tasks
    BY <1>4 DEF AddTask
  <2> QED
    BY <1>1, <1>3, <2>1 DEF AlarmInv, AlarmTypes, SlotsInOrder, HandlerOnHost, FiresOnTime
<1>5. CASE ~(\A i \in AlarmSlots : tasks[i].in_use = 1)
  <2> DEFINE n == Intervals[registered + 1]
             new == [in_use |-> 1, interval |-> n, ticks_left |-> n]
  <2>1. FirstFree = k + 1 /\ FirstFree \in AlarmSlots
    BY <1>2, <1>5, FirstFreeIsFirst DEF AlarmInv
  <2>2. tasks' = [tasks EXCEPT ![k + 1] = new]
    BY <1>5, <2>1 DEF AddTask
  <2>3. tasks'[k + 1] = new /\ \A i \in AlarmSlots : i # k + 1 => tasks'[i] = tasks[i]
    BY <2>1, <2>2 DEF AlarmInv, AlarmTypes
  <2>4. new.in_use = 1 /\ new.interval = n /\ new.ticks_left = n /\ n \in Nat /\ n >= 1 /\ new \in AlarmTask
    BY <1>3 DEF AlarmTask
  <2>5. tasks[k + 1].in_use = 0
    BY <1>2, <2>1
  <2> HIDE DEF new, n
  <2>6. AlarmTypes'
    <3>1. tasks' \in [AlarmSlots -> AlarmTask]
      BY <2>1, <2>2, <2>4 DEF AlarmInv, AlarmTypes
    <3>2. \A i \in AlarmSlots : tasks'[i].ticks_left <= tasks'[i].interval
      BY <2>3, <2>4 DEF AlarmInv, AlarmTypes
    <3> QED
      BY <1>3, <3>1, <3>2 DEF AlarmInv, AlarmTypes
  <2>7. SlotsInOrder'
    <3>1. \A i \in AlarmSlots : tasks'[i].in_use = 0 <=> i > k + 1
      BY <1>2, <2>1, <2>3, <2>4, AlarmConstants DEF AlarmSlots
    <3>2. k + 1 \in 0 .. MaxAlarmTasks
      BY <2>1, AlarmConstants DEF AlarmSlots
    <3>3. \A i \in AlarmSlots : /\ tasks'[i].in_use = 0 => seen'[i] = 0 /\ fired'[i] = 0
                                /\ tasks'[i].in_use = 1 => tasks'[i].interval >= 1
      BY <1>3, <2>3, <2>4 DEF AlarmInv, SlotsInOrder
    <3> QED
      BY <3>1, <3>2, <3>3 DEF SlotsInOrder
  <2>8. HandlerOnHost'
    BY <1>3 DEF AlarmInv, HandlerOnHost
  <2>9. FiresOnTime'
    <3>1. seen[k + 1] = 0 /\ fired[k + 1] = 0
      BY <2>1, <2>5 DEF AlarmInv, SlotsInOrder
    <3>2. /\ fired'[k + 1] = seen'[k + 1] \div tasks'[k + 1].interval
          /\ tasks'[k + 1].ticks_left = tasks'[k + 1].interval - (seen'[k + 1] % tasks'[k + 1].interval)
      BY <1>3, <2>3, <2>4, <3>1, OneMoreTick
    <3> QED
      BY <1>3, <2>3, <3>2 DEF AlarmInv, FiresOnTime
  <2> QED
    BY <1>1, <2>6, <2>7, <2>8, <2>9 DEF AlarmInv
<1> QED
  BY <1>4, <1>5

LEMMA AlarmDestroyKeeps ==
  ASSUME AlarmInv, AlarmDestroy
  PROVE  AlarmInv'
<1>1. Inv'
  BY StutterInv DEF AlarmInv, AlarmDestroy
<1>2. \A i \in AlarmSlots : tasks'[i] = Free /\ seen'[i] = 0 /\ fired'[i] = 0 /\ i > 0
  BY DEF AlarmDestroy, AlarmSlots
<1>3. Free.in_use = 0 /\ Free \in AlarmTask /\ Free.ticks_left <= Free.interval
  BY DEF Free, AlarmTask
<1>4. AlarmTypes'
  BY <1>2, <1>3 DEF AlarmInv, AlarmTypes, AlarmDestroy
<1>5. SlotsInOrder' /\ FiresOnTime'
  BY <1>2, <1>3, AlarmConstants DEF SlotsInOrder, FiresOnTime
<1>6. HandlerOnHost'
  BY <1>2, <1>3 DEF AlarmInv, HandlerOnHost, AlarmDestroy, vars
<1> QED
  BY <1>1, <1>4, <1>5, <1>6 DEF AlarmInv

LEMMA KernelKeeps ==
  ASSUME AlarmInv, Tick \/ (\E h \in Hosts : Deliver(h)) \/ HandlerReturn
  PROVE  AlarmInv'
<1>1. Inv' /\ UNCHANGED <<pc, tasks, registered, armed, seen, fired>>
  BY StutterInv DEF AlarmInv, Tick, Deliver, HandlerReturn, vars
<1>2. host' \in Workers \cup {Owner, NoThread} /\ pos' \in 1 .. MaxAlarmTasks + 1
  BY AlarmConstants DEF AlarmInv, AlarmTypes, Tick, Deliver, HandlerReturn, Hosts
<1>3. AlarmTypes' /\ SlotsInOrder' /\ FiresOnTime'
  BY <1>1, <1>2 DEF AlarmInv, AlarmTypes, SlotsInOrder, FiresOnTime
<1>4. HandlerOnHost'
  BY <1>1, AlarmConstants DEF AlarmInv, HandlerOnHost, Tick, Deliver, HandlerReturn, Hosts
<1> QED
  BY <1>1, <1>3, <1>4 DEF AlarmInv

LEMMA HandlerSlotKeeps ==
  ASSUME AlarmInv, HandlerSlot
  PROVE  AlarmInv'
<1>0. /\ host # NoThread /\ pos \in AlarmSlots /\ pc[Handler] = "idle"
      /\ pos' \in 1 .. MaxAlarmTasks + 1
      /\ UNCHANGED <<lock, ring, shutdown, task, hist, registered, armed, host>>
  BY AlarmConstants DEF AlarmInv, AlarmTypes, AlarmSlots, HandlerSlot
<1>1. CASE tasks[pos].in_use # 1
  <2>1. UNCHANGED <<tasks, seen, fired, pc>>
    BY <1>1 DEF HandlerSlot
  <2>2. Inv'
    BY <1>0, <2>1, StutterInv DEF AlarmInv, vars, ring, hist
  <2> QED
    BY <1>0, <2>1, <2>2 DEF AlarmInv, AlarmTypes, SlotsInOrder, HandlerOnHost, FiresOnTime
<1>2. CASE tasks[pos].in_use = 1
  <2> DEFINE n == tasks[pos].interval
             s == seen[pos]
             left == IF tasks[pos].ticks_left - 1 <= 0 THEN n ELSE tasks[pos].ticks_left - 1
  <2>1. /\ n \in Nat /\ n >= 1 /\ s \in Nat /\ fired[pos] = s \div n /\ tasks[pos].ticks_left = n - (s % n)
        /\ fired[pos] \in Nat
    BY <1>0, <1>2 DEF AlarmInv, AlarmTypes, AlarmTask, SlotsInOrder, FiresOnTime
  <2>2. /\ tasks' = [tasks EXCEPT ![pos].ticks_left = left]
        /\ seen' = [seen EXCEPT ![pos] = s + 1]
        /\ fired' = IF Due(pos) THEN [fired EXCEPT ![pos] = fired[pos] + 1] ELSE fired
        /\ pc' = IF Due(pos) /\ PoolExists THEN [pc EXCEPT ![Handler] = "add_lock"] ELSE pc
    BY <1>2 DEF HandlerSlot, CountDown
  <2>3. s % n \in 0 .. n - 1 /\ (Due(pos) <=> s % n = n - 1)
    <3>1. s % n \in 0 .. n - 1
      BY <2>1, OneMoreTick
    <3> QED
      BY <2>1, <3>1 DEF Due
  <2>4. /\ left = n - ((s + 1) % n) /\ left \in Nat /\ left <= n
        /\ (s + 1) \div n = IF Due(pos) THEN fired[pos] + 1 ELSE fired[pos]
    <3> HIDE DEF n, s
    <3>1. /\ s % n = n - 1 => (s + 1) % n = 0 /\ (s + 1) \div n = fired[pos] + 1
          /\ s % n # n - 1 => (s + 1) % n = (s % n) + 1 /\ (s + 1) \div n = fired[pos]
      BY <2>1, OneMoreTick, ZenonT(40)
    <3>2. s + 1 \in Nat /\ (s + 1) % n \in 0 .. n - 1
      <4>1. s + 1 \in Nat
        BY <2>1
      <4> QED
        BY <2>1, <4>1, OneMoreTick
    <3>3. CASE s % n = n - 1
      <4>1. tasks[pos].ticks_left - 1 <= 0 /\ Due(pos)
        BY <2>1, <2>3, <3>3
      <4> QED
        BY <2>1, <3>1, <3>3, <4>1
    <3>4. CASE s % n # n - 1
      <4>1. ~(tasks[pos].ticks_left - 1 <= 0) /\ ~Due(pos) /\ tasks[pos].ticks_left \in Nat
        BY <2>1, <2>3, <3>4
      <4> QED
        BY <2>1, <2>3, <3>1, <3>2, <3>4, <4>1
    <3> QED
      BY <3>3, <3>4
  <2> HIDE DEF left
  <2>5. /\ tasks' \in [AlarmSlots -> AlarmTask]
        /\ \A i \in AlarmSlots : tasks'[i].in_use = tasks[i].in_use /\ tasks'[i].interval = tasks[i].interval
        /\ \A i \in AlarmSlots : i # pos => tasks'[i].ticks_left = tasks[i].ticks_left
        /\ tasks'[pos].ticks_left = left
    BY <1>0, <2>2, <2>4 DEF AlarmInv, AlarmTypes, AlarmTask
  <2>6. /\ seen' \in [AlarmSlots -> Nat] /\ fired' \in [AlarmSlots -> Nat]
        /\ seen'[pos] = s + 1 /\ fired'[pos] = (s + 1) \div n
        /\ \A i \in AlarmSlots : i # pos => seen'[i] = seen[i] /\ fired'[i] = fired[i]
    BY <1>0, <2>1, <2>2, <2>4 DEF AlarmInv, AlarmTypes
  <2>7. Inv'
    <3>1. CASE Due(pos) /\ PoolExists
      <4>1. pc[Owner] = "live"
        BY <1>0, <1>2, <3>1 DEF AlarmInv, HandlerOnHost, PoolExists
      <4> QED
        BY <1>0, <2>2, <3>1, <4>1, HandlerEnters DEF AlarmInv
    <3>2. CASE ~(Due(pos) /\ PoolExists)
      BY <1>0, <2>2, <3>2, StutterInv DEF AlarmInv, vars, ring, hist
    <3> QED
      BY <3>1, <3>2
  <2>8. AlarmTypes'
    <3>1. \A i \in AlarmSlots : tasks'[i].ticks_left <= tasks'[i].interval
      BY <2>4, <2>5 DEF AlarmInv, AlarmTypes
    <3> QED
      BY <1>0, <2>5, <2>6, <3>1 DEF AlarmInv, AlarmTypes
  <2>9. SlotsInOrder'
    <3>1. \E k \in 0 .. MaxAlarmTasks : \A i \in AlarmSlots : tasks'[i].in_use = 0 <=> i > k
      BY <2>5 DEF AlarmInv, SlotsInOrder
    <3> QED
      BY <1>2, <2>5, <2>6, <3>1 DEF AlarmInv, SlotsInOrder
  <2>10. HandlerOnHost'
    <3>1. \A t \in Threads : t # Handler => pc'[t] = pc[t]
      BY <2>2 DEF AlarmInv, Inv, TypeOK
    <3> QED
      BY <1>0, <2>5, <3>1, AlarmConstants DEF AlarmInv, HandlerOnHost
  <2>11. FiresOnTime'
    BY <1>0, <2>4, <2>5, <2>6 DEF AlarmInv, FiresOnTime
  <2> QED
    BY <2>7, <2>8, <2>9, <2>10, <2>11 DEF AlarmInv
<1> QED
  BY <1>1, <1>2
-----------------------------------------------------------------------------
LEMMA AlarmInvariance == SpecAlarm => []AlarmInv
<1>1. AlarmInv /\ [NextAlarm]_allVars => AlarmInv'
  <2> SUFFICES ASSUME AlarmInv, [NextAlarm]_allVars PROVE AlarmInv'
    OBVIOUS
  <2>1. CASE UNCHANGED allVars
    <3>1. Inv'
      BY <2>1, StutterInv DEF AlarmInv, allVars
    <3> QED
      BY <2>1, <3>1
      DEF AlarmInv, AlarmTypes, SlotsInOrder, HandlerOnHost, FiresOnTime, allVars, vars, alarmVars
  <2>2. ASSUME NEW w \in Workers, OnWorker(w) \/ (host # w /\ SpuriousWake(w) /\ UNCHANGED alarmVars)
        PROVE  AlarmInv'
    BY <2>2, WorkerKeeps
  <2>3. CASE OnMain
    BY <2>3, OwnerKeeps, AdderKeeps, CreateKeeps, AddTaskKeeps, AlarmDestroyKeeps, DestroyCallKeeps, AlarmConstants
    DEF OnMain
  <2>4. CASE pc[Owner] = "live" /\ AddCall(Reactor) /\ UNCHANGED alarmVars
    BY <2>4, ReactorCallKeeps
  <2>5. CASE InHandler
    BY <2>5, HandlerSlotKeeps, AdderKeeps, KernelKeeps, AlarmConstants DEF InHandler
  <2>6. CASE Tick \/ \E h \in Hosts : Deliver(h)
    BY <2>6, KernelKeeps
  <2> QED
    BY <2>1, <2>2, <2>3, <2>4, <2>5, <2>6 DEF NextAlarm
<1> QED
  BY <1>1, AlarmInitInv, PTL DEF SpecAlarm

(* handle_sigalrm may run on top of any thread, inside the pool's critical *)
(* sections too: the ring stays a FIFO, no wake-up is lost, and no handler *)
(* is in the pool, or will enter it, once it has been freed.               *)
THEOREM HandlerIsHarmless == SpecAlarm => []HandlerKeepsPool
<1>1. AlarmInv => HandlerKeepsPool
  <2> SUFFICES ASSUME AlarmInv PROVE HandlerKeepsPool
    OBVIOUS
  <2>1. TypeOKAlarm
    BY DEF AlarmInv, Inv, AlarmTypes, AlarmTask, TypeOKAlarm
  <2>2. pc[Owner] = "freed" => pc[Handler] = "idle" /\ \A i \in AlarmSlots : tasks[i].in_use = 0
    BY AlarmConstants DEF AlarmInv, Inv, HandlerOnHost, FreedIsUnused, Labels, AdderLabels
  <2> QED
    BY <2>1, <2>2 DEF AlarmInv, Inv, HandlerKeepsPool
<1> QED
  BY <1>1, AlarmInvariance, PTL

(* However often the timer ticks and whatever the interval: a task fires   *)
(* at every interval-th tick handled, with no drift.                       *)
THEOREM AlarmsDoNotDrift == SpecAlarm => []FiresOnTime
  BY AlarmInvariance, PTL DEF AlarmInv
=============================================================================
